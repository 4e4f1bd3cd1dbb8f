---------------------------- MODULE MCRespCodec -----------------------------
(***************************************************************************)
(* Values for TLC: strings that contain the bytes the protocol uses, empty *)
(* strings and arrays, integers at both ends, nested arrays.               *)
(***************************************************************************)
EXTENDS RespCodec

Texts   == {<< >>, <<"a">>, <<"CR", "LF">>, <<"$", "1", "CR">>}
Lines   == {<< >>, <<"a", "-">>}
Num(n)  == Value("integer", << >>, n, << >>)
Str(s)  == Value("bulk", s, 0, << >>)
Arr(a)  == Value("array", << >>, 0, a)

Scalars == {Num(n) : n \in {0, 7, -1, MaxInt - 1, -MaxInt}} \cup {Str(s) : s \in Texts}
             \cup {Value(t, s, 0, << >>) : t \in Line, s \in Lines}
Long    == Str([i \in 1 .. 10 |-> "a"])
Arrays  == {Arr(<< >>), Arr(<<Arr(<< >>), Num(7)>>), Arr(<<Str(<<"CR", "LF">>), Arr(<<Num(-1)>>), Str(<< >>)>>)}
             \cup {Arr(<<v>>) : v \in Scalars}

AllStreams == {<<v, w>> : v \in Arrays \cup {Long}, w \in Scalars} \cup {<<v>> : v \in Scalars \cup Arrays}
                \cup {<<v, NullBulk>> : v \in Scalars}

BadTails == {<< >>, <<":", "a", "CR">>, <<":", "1", "CR", "CR">>, <<"+", "CR", "a">>, <<"_">>}

(* The stream has ended.                                                   *)
Silence == wire = << >> /\ UNCHANGED codecVars

MCCodecSpec == CodecInit /\ [][CodecNext \/ Silence]_codecVars /\ WF_codecVars(Arrive) /\ WF_codecVars(Read)
=============================================================================
