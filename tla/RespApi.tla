------------------------------ MODULE RespApi -------------------------------
(***************************************************************************)
(* The commands of the server: resp_api (argument checks and answers),     *)
(* api_impl (what they do to the tree) and arg_parsing.  The tree is the   *)
(* map it implements (KVStore): "map" takes the stored keys to their       *)
(* payloads.  A handler runs to its end before anything else happens, so   *)
(* a command is one step.                                                  *)
(*                                                                         *)
(* Strings are sequences of character codes in ASCII order: '-', the ten   *)
(* digits, '[', a letter, and one code each for the words that ZADD and    *)
(* ZRANGE compare with.  The words of error answers are left out.          *)
(***************************************************************************)
EXTENDS KeyOrder, SequencesExt

CONSTANTS Commands,     \* the commands clients send
          MaxInt        \* integers are -MaxInt .. MaxInt - 1: 2^63

(* The arguments of a command are a sequence, their strings are bytes.     *)
ASSUME RespApiAssumption ==
    /\ MaxInt \in Nat \ {0} /\ MaxByte = 16
    /\ \A c \in Commands :
          /\ Len(c.args) \in Nat /\ DOMAIN c.args = 1 .. Len(c.args)
          /\ \A i \in DOMAIN c.args : c.args[i].str \in Bytes

VARIABLES map,          \* contents of the tree
          alive,        \* the process runs
          last          \* history: the last command, the map before it, the answer

apiVars == <<map, alive, last>>

(***************************************************************************)
(* Characters and integers (arg_parsing, std::to_string).                  *)
(***************************************************************************)
Minus   == 0
Digit   == 1 .. 10      \* '0' .. '9'
Bracket == 11
Letter  == 12
ROOT    == <<13>>       \* "$ROOT$"
BYLEX   == <<14>>
PLUS    == <<15>>
LIMIT   == <<16>>
ZERO    == <<1>>        \* "0"

(* Signed overflow: what two's complement arithmetic leaves.               *)
Wrap(n) == ((n + MaxInt) % (2 * MaxInt)) - MaxInt

(* The loop of parseIntStrict: val after the first i characters.           *)
Parsed(s) ==
    LET val[i \in 0 .. Len(s)] ==
            IF i = 0 THEN 0
            ELSE IF s[i] \in Digit THEN Wrap(val[i - 1] * 10 + (s[i] - 1))
            ELSE val[i - 1]
    IN  val

IsNumber(s) == s # << >> /\ \A i \in DOMAIN s : s[i] \in Digit \/ (s[i] = Minus /\ i = 1)

(* mutant: the sign is dropped.                                            *)
ParseIntStrictMut(s) == IF IsNumber(s) THEN {Parsed(s)[Len(s)]} ELSE {}

(* parseIntStrict: no value, or one.                                       *)
ParseIntStrict(s) ==
    LET val == Parsed(s)[Len(s)]
    IN  IF IsNumber(s) THEN {IF s[1] = Minus THEN Wrap(-val) ELSE val} ELSE {}

(* The digits of a magnitude that fits the type.                           *)
Numeral[n \in 0 .. MaxInt] ==
    IF n < 10 THEN <<n + 1>> ELSE Append(Numeral[n \div 10], (n % 10) + 1)

IntToString(n) == IF n < 0 THEN <<Minus>> \o Numeral[-n] ELSE Numeral[n]

(***************************************************************************)
(* Values of the protocol and commands.  An argument is a bulk string, a   *)
(* simple string, or something that is no string (an integer, an array).   *)
(***************************************************************************)
Value(type, str, num, arr) == [type |-> type, str |-> str, num |-> num, arr |-> arr]

Bulk(s)    == Value("bulk", s, 0, << >>)
Simple(s)  == Value("simple", s, 0, << >>)
Integer(n) == Value("integer", << >>, n, << >>)
Array(a)   == Value("array", << >>, 0, a)
Error      == Value("error", << >>, 0, << >>)
NullBulk   == Value("null", << >>, 0, << >>)
Ok         == Simple(<<Letter>>)

Command(name, args) == [name |-> name, args |-> args]

IsString(v) == v.type \in {"bulk", "simple", "error"}       \* getAsString is not null

HasArg(c, i) == Len(c.args) >= i /\ c.args[i].type = "bulk"  \* getArgOrNull, argIs
Arg(c, i)    == c.args[i].str

(***************************************************************************)
(* The tree: removeImpl, insertImpl after a removal, range_lookupImpl.     *)
(***************************************************************************)
Without(m, k) == [x \in DOMAIN m \ {k} |-> m[x]]
Put(m, k, v)  == [x \in DOMAIN m \cup {k} |-> IF x = k THEN v ELSE m[x]]

(* The keys from min on, in the order of the cursor: the i-th is the one   *)
(* that comes after i - 1 others.                                          *)
KeysFrom(min) == {k \in DOMAIN map : Leq(min, k)}
Rank(k, S)    == Cardinality({x \in S : Less(x, k)})
Ascending(S)  == [i \in 1 .. Cardinality(S) |-> CHOOSE k \in S : Rank(k, S) = i - 1]

(* mutant: the callback counts before it compares.                         *)
ZRangeMut(min, limit) ==
    LET keys == Ascending(KeysFrom(min))
    IN  IF limit < 0 \/ limit + 1 > Len(keys) THEN keys ELSE SubSeq(keys, 1, limit + 1)

(* zrange's limit is unsigned: a negative one is larger than any map.      *)
ZRange(min, limit) ==
    LET keys == Ascending(KeysFrom(min))
    IN  IF limit < 0 \/ limit > Len(keys) THEN keys ELSE SubSeq(keys, 1, limit)

-----------------------------------------------------------------------------
ApiInit ==
    /\ map = << >>
    /\ alive = TRUE
    /\ last = [cmd |-> Command("none", << >>), before |-> << >>, reply |-> NullBulk]

Respond(c, reply, m) ==
    /\ map' = m
    /\ last' = [cmd |-> c, before |-> map, reply |-> reply]
    /\ UNCHANGED alive

(* A null string is dereferenced: the process ends without an answer.      *)
Crash(c) ==
    /\ alive' = FALSE
    /\ last' = [cmd |-> c, before |-> map, reply |-> NullBulk]
    /\ UNCHANGED map

OnSimple(c) ==
    /\ \/ c.name = "ping" /\ Respond(c, Simple(<<Letter>>), map)
       \/ c.name = "info" /\ Respond(c, Bulk(<<Letter>>), map)
       \/ c.name \in {"none", "unknown"} /\ Respond(c, Error, map)

OnGet(c) ==
    /\ c.name = "get"
    /\ \/ ~HasArg(c, 1) /\ Respond(c, Error, map)
       \/ /\ HasArg(c, 1)
          /\ Respond(c, IF Arg(c, 1) \in DOMAIN map THEN Bulk(map[Arg(c, 1)]) ELSE NullBulk, map)

OnSet(c) ==
    /\ c.name = "set"
    /\ \/ ~ (HasArg(c, 1) /\ HasArg(c, 2)) /\ Respond(c, Error, map)
       \/ /\ HasArg(c, 1) /\ HasArg(c, 2)
          /\ Respond(c, Ok, Put(map, Arg(c, 1), Arg(c, 2)))

(* mutant: counts the arguments instead of the removals.                   *)
RemoveOneMut(a, v) ==
    IF ~a.ok \/ ~IsString(v)
    THEN [m |-> a.m, n |-> a.n, ok |-> FALSE]
    ELSE [m |-> Without(a.m, v.str), n |-> a.n + 1, ok |-> TRUE]

RemoveOne(a, v) ==
    IF ~a.ok \/ ~IsString(v)
    THEN [m |-> a.m, n |-> a.n, ok |-> FALSE]
    ELSE [m |-> Without(a.m, v.str), n |-> a.n + (IF v.str \in DOMAIN a.m THEN 1 ELSE 0), ok |-> TRUE]

(* DEL, and EXISTS as well, remove the arguments one by one and give up at *)
(* the first that is no string; what was removed before stays removed.     *)
(* What is left, removed and whether all went well after i arguments.      *)
RemoveEach(args) ==
    LET after[i \in 0 .. Len(args)] ==
            IF i = 0 THEN [m |-> map, n |-> 0, ok |-> TRUE] ELSE RemoveOne(after[i - 1], args[i])
    IN  after

OnDel(c) ==
    LET r == RemoveEach(c.args)[Len(c.args)]
    IN  /\ c.name \in {"del", "exists"}
        /\ Respond(c, IF c.args = << >> \/ ~r.ok THEN Error ELSE Integer(r.n), r.m)

(* mutant: removes the key before it looks at the value.                   *)
IncrementMut(c, k, amount) ==
    LET old == IF k \in DOMAIN map THEN ParseIntStrict(map[k]) ELSE {0}
    IN  \/ old = {} /\ Respond(c, Error, Without(map, k))
        \/ \E n \in old :
               Respond(c, Integer(Wrap(n + amount)), Put(map, k, IntToString(Wrap(n + amount))))

(* api_impl::increment; a missing key counts as 0.                         *)
Increment(c, k, amount) ==
    LET old == IF k \in DOMAIN map THEN ParseIntStrict(map[k]) ELSE {0}
    IN  \/ old = {} /\ Respond(c, Error, map)
        \/ \E n \in old :
               Respond(c, Integer(Wrap(n + amount)), Put(map, k, IntToString(Wrap(n + amount))))

OnIncr(c) ==
    /\ c.name \in {"incr", "decr"}
    /\ \/ ~HasArg(c, 1) /\ Respond(c, Error, map)
       \/ HasArg(c, 1) /\ Increment(c, Arg(c, 1), IF c.name = "incr" THEN 1 ELSE -1)

OnIncrBy(c) ==
    /\ c.name \in {"incrby", "decrby"}
    /\ \/ ~ (HasArg(c, 1) /\ HasArg(c, 2)) /\ Respond(c, Error, map)
       \/ /\ HasArg(c, 1) /\ HasArg(c, 2)
          /\ \/ ParseIntStrict(Arg(c, 2)) = {} /\ Respond(c, Error, map)
             \/ \E n \in ParseIntStrict(Arg(c, 2)) :
                    Increment(c, Arg(c, 1), IF c.name = "incrby" THEN n ELSE Wrap(-n))

(* A missing key becomes a bulk string without a string, which the         *)
(* serializer dereferences.                                                *)
OnMGet(c) ==
    /\ c.name = "mget"
    /\ \/ /\ \E i \in DOMAIN c.args : ~IsString(c.args[i]) \/ Arg(c, i) \notin DOMAIN map
          /\ Crash(c)
       \/ /\ \A i \in DOMAIN c.args : IsString(c.args[i]) /\ Arg(c, i) \in DOMAIN map
          /\ Respond(c, Array([i \in DOMAIN c.args |-> Bulk(map[Arg(c, i)])]), map)

Pairs(args) == 1 .. (Len(args) \div 2)

(* mutant: goes on with the next argument, not with the next pair.         *)
SetEachMut(args) ==
    LET after[j \in 0 .. Len(args) \div 2] ==
            IF j = 0 THEN map ELSE Put(after[j - 1], args[j].str, args[j + 1].str)
    IN  after

(* mset stores the pairs in order; a last key without a value is dropped,  *)
(* and so not even read.  The map after j pairs.                           *)
SetEach(args) ==
    LET after[j \in 0 .. Len(args) \div 2] ==
            IF j = 0 THEN map ELSE Put(after[j - 1], args[2 * j - 1].str, args[2 * j].str)
    IN  after

OnMSet(c) ==
    /\ c.name = "mset"
    /\ \/ /\ \E j \in Pairs(c.args) : ~IsString(c.args[2 * j - 1]) \/ ~IsString(c.args[2 * j])
          /\ Crash(c)
       \/ /\ \A j \in Pairs(c.args) : IsString(c.args[2 * j - 1]) /\ IsString(c.args[2 * j])
          /\ Respond(c, Ok, SetEach(c.args)[Len(c.args) \div 2])

AddOne(a, i, v) ==
    IF a.how # "ok" THEN a
    ELSE IF ~IsString(v) THEN [m |-> a.m, how |-> "crash"]
    ELSE IF i % 2 = 0 THEN [m |-> Put(a.m, v.str, << >>), how |-> "ok"]
    ELSE IF v.str # ZERO THEN [m |-> a.m, how |-> "score"]
    ELSE a

(* zadd walks over scores and members until it ends, meets a score that is *)
(* not "0", or something that is no string.                                *)
AddEach(args) ==
    LET after[i \in 0 .. Len(args)] ==
            IF i = 0 THEN [m |-> map, how |-> "ok"] ELSE AddOne(after[i - 1], i, args[i])
    IN  after

OnZAdd(c) ==
    LET args == SubSeq(c.args, 2, Len(c.args))
        r    == AddEach(args)[Len(args)]
    IN  /\ c.name = "zadd"
        /\ \/ ~ (HasArg(c, 1) /\ Arg(c, 1) = ROOT) /\ Respond(c, Error, map)
           \/ /\ HasArg(c, 1) /\ Arg(c, 1) = ROOT
              /\ \/ r.how = "crash" /\ Crash(c)
                 \/ r.how = "score" /\ Respond(c, Integer(-1), r.m)
                 \/ r.how = "ok" /\ Respond(c, Integer(Len(args) \div 2), r.m)

(* ZRANGE $ROOT$ [min + BYLEX LIMIT 0 n: everything else is an error.      *)
ZRangeArgsOk(c) ==
    /\ \A i \in {1, 2, 3, 4, 5, 6, 7} : HasArg(c, i)
    /\ Arg(c, 1) = ROOT
    /\ Arg(c, 3) = PLUS /\ Arg(c, 4) = BYLEX /\ Arg(c, 5) = LIMIT /\ Arg(c, 6) = ZERO
    /\ ParseIntStrict(Arg(c, 7)) # {}
    /\ Arg(c, 2) # << >> /\ Arg(c, 2)[1] = Bracket

OnZRange(c) ==
    /\ c.name = "zrange"
    /\ \/ ~ZRangeArgsOk(c) /\ Respond(c, Error, map)
       \/ /\ ZRangeArgsOk(c)
          /\ \E limit \in ParseIntStrict(Arg(c, 7)) :
                LET keys == ZRange(Tail(Arg(c, 2)), limit)
                IN  Respond(c, Array([i \in DOMAIN keys |-> Bulk(keys[i])]), map)

OnFlushAll(c) ==
    /\ c.name = "flushall"
    /\ Respond(c, Ok, << >>)

(* processCommand: the handler the command table has for the name.         *)
ProcessCommand(c) ==
    \/ OnSimple(c) \/ OnGet(c) \/ OnSet(c) \/ OnDel(c) \/ OnIncr(c) \/ OnIncrBy(c)
    \/ OnMGet(c) \/ OnMSet(c) \/ OnZAdd(c) \/ OnZRange(c) \/ OnFlushAll(c)

ApiNext == alive /\ \E c \in Commands : ProcessCommand(c)

ApiSpec == ApiInit /\ [][ApiNext]_apiVars

-----------------------------------------------------------------------------
(***************************************************************************)
(* Properties.  They compare the map before a command, the answer and the  *)
(* map after it, kept in "last", with what the command is for.             *)
(***************************************************************************)
cmd    == last.cmd
before == last.before
reply  == last.reply
Named  == {cmd.args[i].str : i \in DOMAIN cmd.args}

(* DEL takes away keys it names and no others, also when it stops half way *)
(* at an argument that is no string; if it answers with a number, all of   *)
(* them are gone and it is how many there were, even if one is named twice. *)
DelCounts ==
    cmd.name = "del" =>
        /\ DOMAIN map \subseteq DOMAIN before
        /\ DOMAIN before \ DOMAIN map \subseteq Named
        /\ \A k \in DOMAIN map : map[k] = before[k]
        /\ reply.type = "integer" =>
              /\ DOMAIN map \cap Named = {}
              /\ reply.num = Cardinality(DOMAIN before \ DOMAIN map)

(* After MSET a key has the value of the last pair that names it; keys     *)
(* that no pair names keep theirs.                                         *)
MSetLastWins ==
    LET named(k) == {j \in Pairs(cmd.args) : cmd.args[2 * j - 1].str = k}
    IN  cmd.name = "mset" /\ reply = Ok =>
            \A k \in DOMAIN map :
                IF named(k) = {} THEN k \in DOMAIN before /\ map[k] = before[k]
                ELSE map[k] = cmd.args[2 * Max(named(k))].str

Counting == {"incr", "decr", "incrby", "decrby"}

(* What INCR and its kin answer is what the stored string reads as: the    *)
(* next increment goes on from there, at both ends of the integer range.   *)
CountersReadBack ==
    cmd.name \in Counting /\ reply.type = "integer" =>
        /\ ParseIntStrict(map[Arg(cmd, 1)]) = {reply.num}
        /\ \A k \in DOMAIN before \ {Arg(cmd, 1)} : map[k] = before[k]

(* A command that is answered with an error has changed nothing.  DEL and  *)
(* EXISTS are different: they stop half way.                               *)
ErrorsChangeNothing ==
    reply = Error /\ cmd.name \notin {"del", "exists"} => map = before

(* ZRANGE answers with the smallest keys from min on, in ascending order,  *)
(* without a gap; it stops early only when it has as many as were asked    *)
(* for.                                                                    *)
ScanInOrder ==
    cmd.name = "zrange" /\ reply.type = "array" =>
        LET got == [i \in DOMAIN reply.arr |-> reply.arr[i].str]
            due == {k \in DOMAIN map : Leq(Tail(Arg(cmd, 2)), k)}
        IN  /\ Range(got) \subseteq due
            /\ \A i, j \in DOMAIN got : i < j => Less(got[i], got[j])
            /\ \A k \in due \ Range(got) :
                  /\ \A i \in DOMAIN got : Less(got[i], k)
                  /\ {Len(got)} = ParseIntStrict(Arg(cmd, 7))

(* EXISTS is a question: it leaves the map as it is.                       *)
ExistsReadsOnly == cmd.name = "exists" => map = before

=============================================================================
