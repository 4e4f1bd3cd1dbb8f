----------------------------- MODULE RespCodec ------------------------------
(***************************************************************************)
(* The bytes of the protocol: what resp_serializer writes and how          *)
(* resp_deserializer reads it from a stream that delivers its bytes one by *)
(* one.  The reader asks for bytes (requireData, requireDataUntil) and     *)
(* blocks until they are there; arrays are read by recursion, here a stack *)
(* of arrays with the values they still lack.                              *)
(*                                                                         *)
(* Bytes are one-character strings, "CR" and "LF".                         *)
(***************************************************************************)
EXTENDS Integers, Sequences, SequencesExt

CONSTANTS Streams,      \* the sequences of values that may be sent
          Tails,        \* bytes that follow them and need not be a value
          MaxInt        \* integers are -MaxInt .. MaxInt - 1: 2^63

VARIABLES sending,      \* the values that are being sent
          wire,         \* bytes that have not arrived yet
          readBuf,      \* bytes that have arrived and are not read
          want,         \* what the reader waits for
          stack,        \* arrays being read, innermost last
          vals          \* values read

codecVars == <<sending, wire, readBuf, want, stack, vals>>

Value(type, str, num, arr) == [type |-> type, str |-> str, num |-> num, arr |-> arr]
Line     == {"simple", "error"}
NullBulk == Value("null", << >>, 0, << >>)

-----------------------------------------------------------------------------
(***************************************************************************)
(* resp_serializer.                                                        *)
(***************************************************************************)
DigitChar == <<"0", "1", "2", "3", "4", "5", "6", "7", "8", "9">>
TypeByte  == [simple |-> "+", error |-> "-", integer |-> ":", bulk |-> "$", null |-> "$", array |-> "*"]

Numeral[n \in Nat] ==
    IF n < 10 THEN <<DigitChar[n + 1]>> ELSE Append(Numeral[n \div 10], DigitChar[(n % 10) + 1])

Shown(n)  == IF n < 0 THEN <<"-">> \o Numeral[-n] ELSE Numeral[n]
Ended(s)  == s \o <<"CR", "LF">>

RECURSIVE WriteValue(_)
WriteValue(v) ==
    <<TypeByte[v.type]>> \o
        CASE v.type \in Line     -> Ended(v.str)
          [] v.type = "integer"  -> Ended(Shown(v.num))
          [] v.type = "bulk"     -> Ended(Shown(Len(v.str))) \o Ended(v.str)
          [] v.type = "null"     -> Ended(Shown(-1))
          [] v.type = "array"    -> Ended(Shown(Len(v.arr)))
                                      \o FlattenSeq([i \in DOMAIN v.arr |-> WriteValue(v.arr[i])])

-----------------------------------------------------------------------------
(***************************************************************************)
(* resp_deserializer.  want.what is what is read next: the type byte, an   *)
(* integer for a purpose, the text of a line, the text of a bulk string,   *)
(* or bytes that must follow; want.val is the value that is complete then. *)
(***************************************************************************)
Want(what, type, num, val) == [what |-> what, type |-> type, num |-> num, val |-> val]

WantValue  == Want("type", "none", 0, NullBulk)
Expect(v)  == Want("cr", "none", 0, v)          \* expect('\r'), expect('\n')
ExpectLF(v) == Want("lf", "none", 0, v)
Failed     == Want("failed", "none", 0, NullBulk)
Array(lacks, arr) == [lacks |-> lacks, arr |-> arr]

CodecInit ==
    /\ sending \in Streams
    /\ \E tail \in Tails : wire = FlattenSeq([i \in DOMAIN sending |-> WriteValue(sending[i])]) \o tail
    /\ readBuf = << >>
    /\ want = WantValue
    /\ stack = << >>
    /\ vals = << >>

Arrive ==
    /\ wire # << >>
    /\ readBuf' = Append(readBuf, Head(wire))
    /\ wire' = Tail(wire)
    /\ UNCHANGED <<sending, want, stack, vals>>

RequireData(n)       == Len(readBuf) >= n
RequireDataUntilCR   == Contains(readBuf, "CR")
BeforeCR             == SubSeq(readBuf, 1, SelectInSeq(readBuf, LAMBDA b : b = "CR") - 1)
Consume(n)           == readBuf' = SubSeq(readBuf, n + 1, Len(readBuf))

(* A value is complete: it goes into the innermost array, or to run.       *)
Deliver(v) ==
    /\ want' = WantValue
    /\ IF stack = << >>
       THEN vals' = Append(vals, v) /\ UNCHANGED stack
       ELSE /\ stack' = [stack EXCEPT ![Len(stack)] = Array(@.lacks - 1, Append(@.arr, v))]
            /\ UNCHANGED vals

ArrayComplete == want.what = "type" /\ stack # << >> /\ Last(stack).lacks = 0

ReadType ==
    /\ want.what = "type" /\ ~ArrayComplete
    /\ RequireData(1)
    /\ Consume(1)
    /\ want' = CASE readBuf[1] = ":" -> Want("int", "integer", 0, NullBulk)
                 [] readBuf[1] = "+" -> Want("line", "simple", 0, NullBulk)
                 [] readBuf[1] = "-" -> Want("line", "error", 0, NullBulk)
                 [] readBuf[1] = "$" -> Want("int", "bulk", 0, NullBulk)
                 [] readBuf[1] = "*" -> Want("int", "array", 0, NullBulk)
                 [] OTHER            -> Failed
    /\ UNCHANGED <<sending, wire, stack, vals>>

Wrap(n) == ((n + MaxInt) % (2 * MaxInt)) - MaxInt

(* Signs may stand anywhere; a plus sign means nothing.                    *)
Parsed(s) ==
    LET digits == SelectSeq(s, LAMBDA b : b \in Range(DigitChar))
        value  == FoldLeft(LAMBDA v, b : Wrap(v * 10 + SelectInSeq(DigitChar, LAMBDA d : d = b) - 1),
                           0, digits)
    IN  IF Contains(s, "-") THEN Wrap(-value) ELSE value

(* readInteger up to '\r'; its '\n' follows.                               *)
ReadInteger ==
    /\ want.what = "int"
    /\ RequireDataUntilCR
    /\ IF \A i \in DOMAIN BeforeCR : BeforeCR[i] \in Range(DigitChar) \cup {"+", "-"}
       THEN /\ Consume(Len(BeforeCR) + 1)
            /\ want' = Want("intlf", want.type, Parsed(BeforeCR), NullBulk)
       ELSE /\ UNCHANGED readBuf
            /\ want' = Failed
    /\ UNCHANGED <<sending, wire, stack, vals>>

(* reserve(length) throws for a negative length.                           *)
IntegerEnds ==
    /\ want.what = "intlf"
    /\ RequireData(1)
    /\ Consume(1)
    /\ CASE readBuf[1] # "LF" -> want' = Failed /\ UNCHANGED <<stack, vals>>
         [] readBuf[1] = "LF" /\ want.type = "integer" ->
                Deliver(Value("integer", << >>, want.num, << >>))
         [] readBuf[1] = "LF" /\ want.type # "integer" /\ want.num < 0 ->
                want' = Failed /\ UNCHANGED <<stack, vals>>
         [] readBuf[1] = "LF" /\ want.type = "bulk" /\ want.num >= 0 ->
                want' = Want("bulk", "bulk", want.num, NullBulk) /\ UNCHANGED <<stack, vals>>
         [] readBuf[1] = "LF" /\ want.type = "array" /\ want.num >= 0 ->
                /\ stack' = Append(stack, Array(want.num, << >>))
                /\ want' = WantValue
                /\ UNCHANGED vals
    /\ UNCHANGED <<sending, wire>>

ReadLine ==
    /\ want.what = "line"
    /\ RequireDataUntilCR
    /\ Consume(Len(BeforeCR) + 1)
    /\ want' = ExpectLF(Value(want.type, BeforeCR, 0, << >>))
    /\ UNCHANGED <<sending, wire, stack, vals>>

(* mutant: copy_n leaves the last byte in the stream.                      *)
BulkConsumedMut(n) == IF n = 0 THEN 0 ELSE n - 1

(* copy_n leaves the last byte, and input.get() takes it.                  *)
BulkConsumed(n) == n

(* mutant: asks for the bytes of the next value's type, too.               *)
BulkRequiredMut(n) == n + 3

BulkRequired(n) == n + 2

ReadBulkString ==
    /\ want.what = "bulk"
    /\ RequireData(BulkRequired(want.num))
    /\ Consume(BulkConsumed(want.num))
    /\ want' = Expect(Value("bulk", SubSeq(readBuf, 1, want.num), 0, << >>))
    /\ UNCHANGED <<sending, wire, stack, vals>>

ReadCR ==
    /\ want.what = "cr"
    /\ RequireData(1)
    /\ Consume(1)
    /\ want' = IF readBuf[1] = "CR" THEN ExpectLF(want.val) ELSE Failed
    /\ UNCHANGED <<sending, wire, stack, vals>>

ReadLF ==
    /\ want.what = "lf"
    /\ RequireData(1)
    /\ Consume(1)
    /\ IF readBuf[1] = "LF" THEN Deliver(want.val)
       ELSE want' = Failed /\ UNCHANGED <<stack, vals>>
    /\ UNCHANGED <<sending, wire>>

(* readArray returns.                                                      *)
EndArray ==
    /\ ArrayComplete
    /\ LET v == Value("array", << >>, 0, Last(stack).arr)
       IN  IF Len(stack) = 1
           THEN vals' = Append(vals, v) /\ stack' = << >>
           ELSE /\ stack' = LET outer == Front(stack)
                            IN  [outer EXCEPT ![Len(outer)] = Array(@.lacks - 1, Append(@.arr, v))]
                /\ UNCHANGED vals
    /\ UNCHANGED <<sending, wire, readBuf, want>>

Read == ReadType \/ ReadInteger \/ IntegerEnds \/ ReadLine \/ ReadBulkString \/ ReadCR \/ ReadLF \/ EndArray

CodecNext == Arrive \/ Read

CodecSpec == CodecInit /\ [][CodecNext]_codecVars

(* Bytes that were sent arrive, and the thread runs while it has data.     *)
FairCodecSpec == CodecSpec /\ WF_codecVars(Arrive) /\ WF_codecVars(Read)

-----------------------------------------------------------------------------
(***************************************************************************)
(* Properties.                                                             *)
(***************************************************************************)
(* What a client can send.  A null bulk string is only an answer.          *)
Readable == SelectSeq(sending, LAMBDA v : v = NullBulk) = << >>

(* The values that are read are those that were sent, in their order,      *)
(* whatever bytes the strings contain and however the bytes arrive; a null *)
(* among them is refused, and so is what follows and is no value.          *)
ReadsBack ==
    /\ IsPrefix(vals, sending)
    /\ want = Failed /\ Readable => vals = sending

(* The reader never waits for bytes beyond the value it is reading: when   *)
(* everything that was sent has arrived, it has been read.                 *)
NeverWaitsInVain == <>(want = Failed \/ vals = sending)

=============================================================================
