----------------------------- MODULE MCRespApi ------------------------------
(***************************************************************************)
(* The commands TLC tries: every handler with good arguments, with missing *)
(* ones, with arguments of another type and, where it takes a list, with a *)
(* repetition.                                                             *)
(***************************************************************************)
EXTENDS RespApi

A      == <<12>>
B      == <<12, 12>>                    \* A is a prefix of B
Word   == <<12, 1>>                     \* not an integer
Top    == IntToString(MaxInt - 1)
Bottom == IntToString(-MaxInt)
Hyphen == <<Minus>>
NoStr  == Integer(0)

Strs(seq) == [i \in DOMAIN seq |-> Bulk(seq[i])]
C(name, seq) == Command(name, Strs(seq))

Range8(n) == Strs(<<ROOT, <<Bracket>> \o A, PLUS, BYLEX, LIMIT, ZERO, n>>)

Reads ==
    {C("get", <<A>>), C("get", << >>), Command("get", <<Simple(A)>>), C("ping", << >>), C("info", << >>),
     C("none", << >>), C("unknown", <<A>>)}
      \cup {Command("zrange", Range8(n)) : n \in {ZERO, IntToString(1), IntToString(-1), Word}}
      \cup {C("zrange", <<A>>), C("zrange", <<ROOT, << >>, PLUS, BYLEX, LIMIT, ZERO, ZERO>>)}

Writes ==
    {C("set", <<A, Top>>), C("set", <<B, Bottom>>), C("set", <<A, Hyphen>>), C("set", <<B, Word>>), C("set", <<A>>),
     C("mset", <<A, Top, B, Word>>), C("mset", <<A, Word, A, Top>>), C("mset", <<B, A, A>>),
     Command("mset", <<Bulk(A), NoStr>>), Command("mset", <<Bulk(A), Bulk(Top), NoStr>>),
     C("zadd", <<ROOT, ZERO, A, ZERO, B>>), C("zadd", <<ROOT, ZERO, B, Word, A>>), C("zadd", <<A, ZERO, A>>),
     Command("zadd", <<Bulk(ROOT), Bulk(ZERO), NoStr>>), C("flushall", << >>)}

Removals ==
    {C("del", <<A, B, A>>), C("del", <<B>>), C("del", << >>), Command("del", <<Bulk(A), NoStr>>)}

Counts ==
    {C(name, <<k>>) : name \in {"incr", "decr"}, k \in {A, B}}
      \cup {C("incrby", <<A, Bottom>>), C("decrby", <<A, Bottom>>), C("incrby", <<B, Word>>), C("decrby", <<B>>),
            C("incr", << >>)}

Multi == {C("mget", <<A, B>>), C("mget", << >>), Command("mget", <<NoStr>>)}

AllCommands    == Reads \cup Writes \cup Removals \cup Counts \cup Multi \cup {C("exists", <<A>>), C("exists", << >>)}
ExistsCommands == {C("set", <<A, Top>>), C("exists", <<A>>)}

(* A process that has ended takes no further step.                         *)
Ended == ~alive /\ UNCHANGED apiVars

MCApiSpec == ApiInit /\ [][ApiNext \/ Ended]_apiVars
=============================================================================
