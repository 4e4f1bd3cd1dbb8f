--------------------------- MODULE RespApiProofs ----------------------------
(***************************************************************************)
(* Proofs about the command handlers, for every set of commands: of what   *)
(* is answered with an error nothing has been done, DEL counts what it     *)
(* removes, of the pairs of MSET the last one wins, ZRANGE answers with    *)
(* the smallest keys in order, and what a counter stores reads as what it  *)
(* answered.                                                               *)
(***************************************************************************)
EXTENDS RespApi, KeyOrderProofs, FiniteSetTheorems

(* Arguments that come as a sequence.                                      *)
IsArgs(args) == Len(args) \in Nat /\ DOMAIN args = 1 .. Len(args)

(***************************************************************************)
(* The loops over the arguments, step by step.                             *)
(***************************************************************************)
(* Parts of the map, as DEL leaves them.                                   *)
Parts == {[k \in S |-> map[k]] : S \in SUBSET DOMAIN map}

LEMMA WithoutPart ==
    ASSUME NEW m \in Parts \cup {map}, NEW k
    PROVE  Without(m, k) \in Parts
<1>1. DOMAIN m \subseteq DOMAIN map /\ \A x \in DOMAIN m : m[x] = map[x]
  BY DEF Parts
<1>2. Without(m, k) = [x \in DOMAIN m \ {k} |-> map[x]]
  BY <1>1 DEF Without
<1>3. DOMAIN m \ {k} \in SUBSET DOMAIN map
  BY <1>1
<1> QED BY <1>2, <1>3 DEF Parts

LEMMA RemoveEachSteps ==
    ASSUME NEW args, IsArgs(args), NEW after, after = RemoveEach(args)
    PROVE  /\ after[0] = [m |-> map, n |-> 0, ok |-> TRUE]
           /\ \A i \in 1 .. Len(args) : after[i] = RemoveOne(after[i - 1], args[i])
<1> DEFINE c == Len(args)
           X == [m : Parts \cup {map}, n : Nat, ok : BOOLEAN]
           start == [m |-> map, n |-> 0, ok |-> TRUE]
           f == [p \in (1 .. c) \X X |-> RemoveOne(p[2], args[p[1]])]
<1>1. c \in Nat /\ start \in X
  BY DEF IsArgs
<1>2. ASSUME NEW i \in 1 .. c, NEW a \in X
      PROVE  RemoveOne(a, args[i]) \in X
  BY WithoutPart DEF RemoveOne
<1> HIDE DEF X, start, c
<1>3. f \in [(1 .. c) \X X -> X]
  BY <1>2
<1> HIDE DEF f
<1>4. PICK g \in [0 .. c -> X] : IsStepwise(g, f, start, c)
  BY <1>1, <1>3, Stepwise
<1>5. g[0] = start /\ \A i \in 1 .. c : g[i] = f[<<i, g[i - 1]>>]
  BY <1>4 DEF IsStepwise
<1>6. \A i \in 1 .. c : g[i] = RemoveOne(g[i - 1], args[i])
  <2> TAKE i \in 1 .. c
  <2>1. i - 1 \in 0 .. c
    BY <1>1
  <2>2. g[i - 1] \in X /\ <<i, g[i - 1]>> \in (1 .. c) \X X
    BY <2>1
  <2> QED BY <1>5, <2>2 DEF f
<1>7. g = [i \in 0 .. c |-> IF i = 0 THEN start ELSE RemoveOne(g[i - 1], args[i])]
  BY <1>5, <1>6
<1>8. after = [i \in 0 .. c |-> IF i = 0 THEN start ELSE RemoveOne(after[i - 1], args[i])]
  BY <1>7 DEF RemoveEach, start, c
<1>9. after[0] = start /\ \A i \in 1 .. c : after[i] = RemoveOne(after[i - 1], args[i])
  BY <1>1, <1>8
<1> QED BY <1>9 DEF start, c

(* Maps that MSET and ZADD make of the map: some of the keys K, with       *)
(* values from V.                                                          *)
Maps(K, V) == {[x \in S |-> h[x]] : S \in SUBSET K, h \in [K -> V]}

LEMMA PutMap ==
    ASSUME NEW K, NEW V, NEW k \in K, NEW v \in V, NEW m \in Maps(K, V) \cup {map},
           DOMAIN map \subseteq K, \A x \in DOMAIN map : map[x] \in V
    PROVE  Put(m, k, v) \in Maps(K, V)
<1> DEFINE S == DOMAIN m \cup {k}
           h == [x \in K |-> IF x # k /\ x \in DOMAIN m THEN m[x] ELSE v]
<1>1. DOMAIN m \subseteq K /\ \A x \in DOMAIN m : m[x] \in V
  BY DEF Maps
<1>2. S \in SUBSET K /\ h \in [K -> V]
  BY <1>1
<1>3. Put(m, k, v) = [x \in S |-> h[x]]
  BY <1>1 DEF Put
<1> HIDE DEF S, h
<1> QED BY <1>2, <1>3 DEF Maps

(* The keys and values that a command with these arguments can store.      *)
KeysOf(args)   == DOMAIN map \cup {args[i].str : i \in DOMAIN args}
ValuesOf(args) == {map[k] : k \in DOMAIN map} \cup {args[i].str : i \in DOMAIN args} \cup {<< >>}

LEMMA SetEachSteps ==
    ASSUME NEW args, IsArgs(args), NEW after, after = SetEach(args)
    PROVE  /\ after[0] = map
           /\ \A j \in 1 .. (Len(args) \div 2) :
                 after[j] = Put(after[j - 1], args[2 * j - 1].str, args[2 * j].str)
<1> DEFINE c == Len(args) \div 2
           X == Maps(KeysOf(args), ValuesOf(args)) \cup {map}
           next(j, m) == Put(m, args[2 * j - 1].str, args[2 * j].str)
           f == [p \in (1 .. c) \X X |-> next(p[1], p[2])]
<1>1. c \in Nat /\ map \in X
  BY DEF IsArgs
<1>2. ASSUME NEW j \in 1 .. c, NEW m \in X
      PROVE  next(j, m) \in X
  <2>1. 2 * j - 1 \in DOMAIN args /\ 2 * j \in DOMAIN args
    BY DEF IsArgs
  <2>2. args[2 * j - 1].str \in KeysOf(args) /\ args[2 * j].str \in ValuesOf(args)
    BY <2>1 DEF KeysOf, ValuesOf
  <2>3. DOMAIN map \subseteq KeysOf(args) /\ \A x \in DOMAIN map : map[x] \in ValuesOf(args)
    BY DEF KeysOf, ValuesOf
  <2> QED BY <2>2, <2>3, PutMap
<1> HIDE DEF X, next
<1>3. f \in [(1 .. c) \X X -> X]
  BY <1>2
<1> HIDE DEF f, c
<1>4. PICK g \in [0 .. c -> X] : IsStepwise(g, f, map, c)
  BY <1>1, <1>3, Stepwise
<1>5. g[0] = map /\ \A j \in 1 .. c : g[j] = f[<<j, g[j - 1]>>]
  BY <1>4 DEF IsStepwise
<1>6. \A j \in 1 .. c : g[j] = next(j, g[j - 1])
  <2> TAKE j \in 1 .. c
  <2>1. j - 1 \in 0 .. c
    BY <1>1
  <2>2. g[j - 1] \in X /\ <<j, g[j - 1]>> \in (1 .. c) \X X
    BY <2>1
  <2> QED BY <1>5, <2>2 DEF f
<1>7. g = [j \in 0 .. c |-> IF j = 0 THEN map ELSE next(j, g[j - 1])]
  BY <1>5, <1>6
<1>8. after = [j \in 0 .. c |-> IF j = 0 THEN map ELSE next(j, after[j - 1])]
  BY <1>7 DEF SetEach, next, c
<1>9. after[0] = map /\ \A j \in 1 .. c : after[j] = next(j, after[j - 1])
  BY <1>1, <1>8
<1> QED BY <1>9 DEF next, c

LEMMA AddEachSteps ==
    ASSUME NEW args, IsArgs(args), NEW after, after = AddEach(args)
    PROVE  /\ after[0] = [m |-> map, how |-> "ok"]
           /\ \A i \in 1 .. Len(args) : after[i] = AddOne(after[i - 1], i, args[i])
<1> DEFINE c == Len(args)
           M == Maps(KeysOf(args), ValuesOf(args))
           X == [m : M \cup {map}, how : {"ok", "score", "crash"}]
           start == [m |-> map, how |-> "ok"]
           f == [p \in (1 .. c) \X X |-> AddOne(p[2], p[1], args[p[1]])]
<1>1. c \in Nat /\ start \in X
  BY DEF IsArgs
<1>2. ASSUME NEW i \in 1 .. c, NEW a \in X
      PROVE  AddOne(a, i, args[i]) \in X
  <2>1. args[i].str \in KeysOf(args) /\ << >> \in ValuesOf(args)
    BY DEF KeysOf, ValuesOf, IsArgs
  <2>2. DOMAIN map \subseteq KeysOf(args) /\ \A x \in DOMAIN map : map[x] \in ValuesOf(args)
    BY DEF KeysOf, ValuesOf
  <2>3. Put(a.m, args[i].str, << >>) \in M
    BY <2>1, <2>2, PutMap
  <2> HIDE DEF M
  <2> QED BY <2>3 DEF AddOne
<1> HIDE DEF X, start, c
<1>3. f \in [(1 .. c) \X X -> X]
  BY <1>2
<1> HIDE DEF f
<1>4. PICK g \in [0 .. c -> X] : IsStepwise(g, f, start, c)
  BY <1>1, <1>3, Stepwise
<1>5. g[0] = start /\ \A i \in 1 .. c : g[i] = f[<<i, g[i - 1]>>]
  BY <1>4 DEF IsStepwise
<1>6. \A i \in 1 .. c : g[i] = AddOne(g[i - 1], i, args[i])
  <2> TAKE i \in 1 .. c
  <2>1. i - 1 \in 0 .. c
    BY <1>1
  <2>2. g[i - 1] \in X /\ <<i, g[i - 1]>> \in (1 .. c) \X X
    BY <2>1
  <2> QED BY <1>5, <2>2 DEF f
<1>7. g = [i \in 0 .. c |-> IF i = 0 THEN start ELSE AddOne(g[i - 1], i, args[i])]
  BY <1>5, <1>6
<1>8. after = [i \in 0 .. c |-> IF i = 0 THEN start ELSE AddOne(after[i - 1], i, args[i])]
  BY <1>7 DEF AddEach, start, c
<1>9. after[0] = start /\ \A i \in 1 .. c : after[i] = AddOne(after[i - 1], i, args[i])
  BY <1>1, <1>8
<1> QED BY <1>9 DEF start, c

(***************************************************************************)
(* Answers.                                                                *)
(***************************************************************************)
LEMMA ReplyTypes ==
    /\ Error.type = "error" /\ NullBulk.type = "null" /\ Ok.type = "simple"
    /\ \A s : Bulk(s).type = "bulk" /\ Simple(s).type = "simple" /\ Array(s).type = "array"
    /\ \A n : Integer(n).type = "integer" /\ Integer(n).num = n
BY DEF Error, NullBulk, Ok, Bulk, Simple, Array, Integer, Value

(* Every handler leaves a record of the command and of the map before it.  *)
LEMMA Recorded ==
    ASSUME NEW c, ProcessCommand(c)
    PROVE  cmd' = c /\ before' = map
<1>1. ASSUME NEW r, NEW m, Respond(c, r, m) PROVE cmd' = c /\ before' = map
  BY <1>1 DEF Respond, cmd, before
<1>2. ASSUME Crash(c) PROVE cmd' = c /\ before' = map
  BY <1>2 DEF Crash, cmd, before
<1>3. ASSUME NEW k, NEW a, Increment(c, k, a) PROVE cmd' = c /\ before' = map
  BY <1>1, <1>3 DEF Increment
<1> QED BY <1>1, <1>2, <1>3 DEF ProcessCommand, OnSimple, OnGet, OnSet, OnDel, OnIncr, OnIncrBy,
           OnMGet, OnMSet, OnZAdd, OnZRange, OnFlushAll

LEMMA ErrorsKeep ==
    ASSUME NEW c, ProcessCommand(c)
    PROVE  ErrorsChangeNothing'
<1> SUFFICES ASSUME reply' = Error, c.name \notin {"del", "exists"}
             PROVE  map' = map
  BY Recorded DEF ErrorsChangeNothing
<1>1. ASSUME NEW r, NEW m, Respond(c, r, m), r.type # "error" PROVE FALSE
  BY <1>1, ReplyTypes DEF Respond, reply
<1>2. ASSUME Crash(c) PROVE FALSE
  BY <1>2, ReplyTypes DEF Crash, reply
<1>3. ASSUME NEW r, Respond(c, r, map) PROVE map' = map
  BY <1>3 DEF Respond
<1>4. ASSUME NEW k, NEW a, Increment(c, k, a) PROVE map' = map
  BY <1>1, <1>3, <1>4, ReplyTypes DEF Increment
<1>5. CASE OnSimple(c) \/ OnGet(c) \/ OnZRange(c)
  BY <1>3, <1>5 DEF OnSimple, OnGet, OnZRange
<1>6. CASE OnSet(c) \/ OnFlushAll(c)
  BY <1>1, <1>3, <1>6, ReplyTypes DEF OnSet, OnFlushAll
<1>7. CASE OnDel(c)
  BY <1>7 DEF OnDel
<1>8. CASE OnIncr(c) \/ OnIncrBy(c)
  BY <1>3, <1>4, <1>8 DEF OnIncr, OnIncrBy
<1>9. CASE OnMGet(c) \/ OnMSet(c) \/ OnZAdd(c)
  BY <1>1, <1>2, <1>3, <1>9, ReplyTypes DEF OnMGet, OnMSet, OnZAdd
<1> QED BY <1>5, <1>6, <1>7, <1>8, <1>9 DEF ProcessCommand

(* A command that is answered with an error has changed nothing, whatever  *)
(* its arguments are: every handler but those of DEL and EXISTS checks     *)
(* before it touches the tree.                                             *)
THEOREM ErrorsKeepTheMap == ApiSpec => []ErrorsChangeNothing
<1>1. ApiInit => ErrorsChangeNothing
  BY ReplyTypes DEF ApiInit, ErrorsChangeNothing, reply
<1>2. ErrorsChangeNothing /\ [ApiNext]_apiVars => ErrorsChangeNothing'
  <2>1. CASE ApiNext
    BY <2>1, ErrorsKeep DEF ApiNext
  <2>2. CASE UNCHANGED apiVars
    BY <2>2 DEF apiVars, ErrorsChangeNothing, reply, cmd, before
  <2> QED BY <2>1, <2>2
<1> QED BY <1>1, <1>2, PTL DEF ApiSpec

(***************************************************************************)
(* DEL.                                                                    *)
(***************************************************************************)
(* The first i arguments have been removed, or those before a string was   *)
(* missing.                                                                *)
Removed(args, i, r) ==
    /\ r.m \in Parts \cup {map}
    /\ DOMAIN map \ DOMAIN r.m \subseteq {args[j].str : j \in 1 .. i}
    /\ r.ok => /\ r.n = Cardinality(DOMAIN map \ DOMAIN r.m)
               /\ \A j \in 1 .. i : args[j].str \notin DOMAIN r.m

LEMMA RemoveOneMore ==
    ASSUME NEW args, NEW i \in Nat \ {0}, NEW r, Removed(args, i - 1, r), IsFiniteSet(DOMAIN map)
    PROVE  Removed(args, i, RemoveOne(r, args[i]))
<1> DEFINE k == args[i].str
           s == RemoveOne(r, args[i])
           gone(m) == DOMAIN map \ DOMAIN m
<1> SUFFICES Removed(args, i, s)
  OBVIOUS
<1>1. 1 .. i = (1 .. (i - 1)) \cup {i}
  OBVIOUS
<1>2. CASE ~r.ok \/ ~IsString(args[i])
  <2>1. s.m = r.m /\ s.ok = FALSE
    BY <1>2 DEF RemoveOne
  <2>2. DOMAIN map \ DOMAIN r.m \subseteq {args[j].str : j \in 1 .. i}
    BY <1>1 DEF Removed
  <2> HIDE DEF s
  <2> QED BY <2>1, <2>2 DEF Removed
<1>3. CASE r.ok /\ IsString(args[i])
  <2>1. s = [m |-> Without(r.m, k), n |-> r.n + (IF k \in DOMAIN r.m THEN 1 ELSE 0), ok |-> TRUE]
    BY <1>3 DEF RemoveOne
  <2>2. s.m = Without(r.m, k) /\ s.ok /\ s.n = r.n + (IF k \in DOMAIN r.m THEN 1 ELSE 0)
    BY <2>1
  <2>3. DOMAIN s.m = DOMAIN r.m \ {k} /\ s.m \in Parts
    <3>1. r.m \in Parts \cup {map}
      BY DEF Removed
    <3>2. Without(r.m, k) \in Parts
      BY <3>1, WithoutPart
    <3> HIDE DEF s
    <3> QED BY <2>2, <3>2 DEF Without
  <2>4. DOMAIN r.m \subseteq DOMAIN map
    BY DEF Removed, Parts
  <2>5. gone(s.m) = IF k \in DOMAIN r.m THEN gone(r.m) \cup {k} ELSE gone(r.m)
    BY <2>3, <2>4
  <2>6. k \notin gone(r.m) \/ k \notin DOMAIN r.m
    OBVIOUS
  <2>7. IsFiniteSet(gone(r.m))
    BY FS_Difference
  <2>8. k \in DOMAIN r.m => Cardinality(gone(r.m) \cup {k}) = Cardinality(gone(r.m)) + 1
    BY <2>6, <2>7, FS_AddElement
  <2>9. r.n = Cardinality(gone(r.m)) /\ Cardinality(gone(r.m)) \in Nat
    BY <1>3, <2>7, FS_CardinalityType DEF Removed
  <2>10. s.n = Cardinality(gone(s.m))
    <3> HIDE DEF s, gone, k
    <3> QED BY <2>2, <2>5, <2>8, <2>9
  <2>11. gone(s.m) \subseteq {args[j].str : j \in 1 .. i}
    <3>1. gone(r.m) \subseteq {args[j].str : j \in 1 .. i} /\ k \in {args[j].str : j \in 1 .. i}
      BY <1>1 DEF Removed
    <3> QED BY <2>5, <3>1
  <2>12. \A j \in 1 .. i : args[j].str \notin DOMAIN s.m
    BY <1>1, <1>3, <2>3 DEF Removed
  <2> HIDE DEF s
  <2> QED BY <2>2, <2>3, <2>10, <2>11, <2>12 DEF Removed
<1> QED BY <1>2, <1>3

LEMMA RemovedAll ==
    ASSUME NEW args, IsArgs(args), IsFiniteSet(DOMAIN map)
    PROVE  Removed(args, Len(args), RemoveEach(args)[Len(args)])
<1> DEFINE c == Len(args)
           after == RemoveEach(args)
           T == {i \in 0 .. c : Removed(args, i, after[i])}
<1>1. after[0] = [m |-> map, n |-> 0, ok |-> TRUE]
      /\ \A i \in 1 .. c : after[i] = RemoveOne(after[i - 1], args[i])
  BY RemoveEachSteps
<1>2. c \in Nat
  BY DEF IsArgs
<1> HIDE DEF after, c
<1>3. Removed(args, 0, after[0])
  BY <1>1, FS_EmptySet DEF Removed
<1>4. \A i \in 1 .. c : i - 1 \in T => i \in T
  BY <1>1, <1>2, RemoveOneMore
<1>5. 0 \in T
  BY <1>2, <1>3
<1>6. 0 .. c \subseteq T
  <2> HIDE DEF T
  <2> QED BY <1>2, <1>4, <1>5, UpTo
<1>7. Removed(args, c, after[c])
  BY <1>2, <1>6
<1> QED BY <1>7 DEF after, c

(* The tree never holds infinitely many keys.                              *)
FiniteKeys == IsFiniteSet(DOMAIN map)

LEMMA SetEachFinite ==
    ASSUME NEW args, IsArgs(args), FiniteKeys
    PROVE  IsFiniteSet(DOMAIN SetEach(args)[Len(args) \div 2])
<1> DEFINE c == Len(args) \div 2
           after == SetEach(args)
           T == {i \in 0 .. c : IsFiniteSet(DOMAIN after[i])}
<1>1. after[0] = map
      /\ \A i \in 1 .. c : after[i] = Put(after[i - 1], args[2 * i - 1].str, args[2 * i].str)
  BY SetEachSteps
<1>2. c \in Nat
  BY DEF IsArgs
<1> HIDE DEF after, c
<1>3. \A i \in 1 .. c : i - 1 \in T => i \in T
  <2> SUFFICES ASSUME NEW i \in 1 .. c, i - 1 \in T
               PROVE  IsFiniteSet(DOMAIN after[i])
    OBVIOUS
  <2>1. after[i] = Put(after[i - 1], args[2 * i - 1].str, args[2 * i].str)
    BY <1>1
  <2>2. DOMAIN after[i] = DOMAIN after[i - 1] \cup {args[2 * i - 1].str}
    BY <2>1, Zenon DEF Put
  <2> QED BY <2>2, FS_AddElement
<1>4. 0 \in T
  BY <1>1, <1>2 DEF FiniteKeys
<1>5. 0 .. c \subseteq T
  <2> HIDE DEF T
  <2> QED BY <1>2, <1>3, <1>4, UpTo
<1>6. IsFiniteSet(DOMAIN after[c])
  BY <1>2, <1>5
<1> QED BY <1>6 DEF after, c

LEMMA AddEachFinite ==
    ASSUME NEW args, IsArgs(args), FiniteKeys
    PROVE  IsFiniteSet(DOMAIN AddEach(args)[Len(args)].m)
<1> DEFINE c == Len(args)
           after == AddEach(args)
           T == {i \in 0 .. c : IsFiniteSet(DOMAIN after[i].m)}
<1>1. after[0] = [m |-> map, how |-> "ok"]
      /\ \A i \in 1 .. c : after[i] = AddOne(after[i - 1], i, args[i])
  BY AddEachSteps
<1>2. c \in Nat
  BY DEF IsArgs
<1> HIDE DEF after, c
<1>3. \A i \in 1 .. c : i - 1 \in T => i \in T
  <2> SUFFICES ASSUME NEW i \in 1 .. c, i - 1 \in T
               PROVE  IsFiniteSet(DOMAIN after[i].m)
    OBVIOUS
  <2> DEFINE a == after[i - 1]
  <2>0. after[i] = AddOne(a, i, args[i])
    BY <1>1
  <2>1. after[i].m = a.m \/ after[i].m = Put(a.m, args[i].str, << >>)
    <3> HIDE DEF a
    <3> QED BY <2>0 DEF AddOne
  <2>2. DOMAIN after[i].m = DOMAIN after[i - 1].m
        \/ DOMAIN after[i].m = DOMAIN after[i - 1].m \cup {args[i].str}
    BY <2>1 DEF Put
  <2> QED BY <2>2, FS_AddElement
<1>4. 0 \in T
  BY <1>1, <1>2 DEF FiniteKeys
<1>5. 0 .. c \subseteq T
  <2> HIDE DEF T
  <2> QED BY <1>2, <1>3, <1>4, UpTo
<1>6. IsFiniteSet(DOMAIN after[c].m)
  BY <1>2, <1>5
<1> QED BY <1>6 DEF after, c

LEMMA CommandArgs ==
    ASSUME NEW c \in Commands
    PROVE  IsArgs(c.args)
BY RespApiAssumption DEF IsArgs

LEMMA FiniteKept ==
    ASSUME NEW c \in Commands, ProcessCommand(c), FiniteKeys
    PROVE  FiniteKeys'
<1>1. ASSUME NEW r, Respond(c, r, map) \/ Crash(c) PROVE FiniteKeys'
  BY <1>1 DEF Respond, Crash, FiniteKeys
<1>2. ASSUME NEW r, NEW k, NEW v, Respond(c, r, Put(map, k, v)) PROVE FiniteKeys'
  <2>1. DOMAIN map' = DOMAIN map \cup {k}
    BY <1>2 DEF Respond, Put
  <2> QED BY <2>1, FS_AddElement DEF FiniteKeys
<1>3. ASSUME NEW k, NEW a, Increment(c, k, a) PROVE FiniteKeys'
  BY <1>1, <1>2, <1>3 DEF Increment
<1>4. CASE OnSimple(c) \/ OnGet(c) \/ OnMGet(c) \/ OnZRange(c)
  BY <1>1, <1>4 DEF OnSimple, OnGet, OnMGet, OnZRange
<1>5. CASE OnSet(c) \/ OnIncr(c) \/ OnIncrBy(c)
  BY <1>1, <1>2, <1>3, <1>5 DEF OnSet, OnIncr, OnIncrBy
<1>6. CASE OnDel(c)
  <2> DEFINE m == RemoveEach(c.args)[Len(c.args)].m
  <2>1. map' = m
    BY <1>6 DEF OnDel, Respond
  <2>2. m \in Parts \cup {map}
    BY CommandArgs, RemovedAll DEF Removed, FiniteKeys
  <2>3. DOMAIN m \subseteq DOMAIN map
    BY <2>2 DEF Parts
  <2> QED BY <2>1, <2>3, FS_Subset DEF FiniteKeys
<1>7. CASE OnMSet(c)
  <2>1. Crash(c) \/ map' = SetEach(c.args)[Len(c.args) \div 2]
    BY <1>7 DEF OnMSet, Respond
  <2> QED BY <1>1, <2>1, CommandArgs, SetEachFinite DEF FiniteKeys
<1>8. CASE OnZAdd(c)
  <2> DEFINE args == SubSeq(c.args, 2, Len(c.args))
  <2>1. \/ \E r : Respond(c, r, map) \/ Crash(c)
        \/ HasArg(c, 1) /\ map' = AddEach(args)[Len(args)].m
    BY <1>8 DEF OnZAdd, Respond
  <2>2. HasArg(c, 1) => IsArgs(args)
    BY CommandArgs DEF HasArg, IsArgs
  <2> QED BY <1>1, <2>1, <2>2, AddEachFinite DEF FiniteKeys
<1>9. CASE OnFlushAll(c)
  <2>1. map' = << >>
    BY <1>9 DEF OnFlushAll, Respond
  <2>2. DOMAIN map' = {}
    BY <2>1
  <2> QED BY <2>2, FS_EmptySet DEF FiniteKeys
<1> QED BY <1>4, <1>5, <1>6, <1>7, <1>8, <1>9 DEF ProcessCommand

LEMMA DelStep ==
    ASSUME NEW c \in Commands, ProcessCommand(c), FiniteKeys
    PROVE  DelCounts'
<1> DEFINE r == RemoveEach(c.args)[Len(c.args)]
<1>1. cmd' = c /\ before' = map
  BY Recorded
<1> SUFFICES ASSUME c.name = "del" PROVE DelCounts'
  BY <1>1 DEF DelCounts
<1>2. OnDel(c)
  BY DEF ProcessCommand, OnSimple, OnGet, OnSet, OnDel, OnIncr, OnIncrBy,
         OnMGet, OnMSet, OnZAdd, OnZRange, OnFlushAll
<1>3. /\ map' = r.m
      /\ reply' = IF c.args = << >> \/ ~r.ok THEN Error ELSE Integer(r.n)
  BY <1>2 DEF OnDel, Respond, reply
<1>4. reply'.type = "integer" => r.ok /\ reply'.num = r.n
  BY <1>3, ReplyTypes
<1>5. Removed(c.args, Len(c.args), r) /\ IsArgs(c.args)
  BY CommandArgs, RemovedAll DEF FiniteKeys
<1> HIDE DEF r
<1>6. Named' = {c.args[i].str : i \in 1 .. Len(c.args)}
  BY <1>1, <1>5 DEF Named, IsArgs
<1>7. DOMAIN map' \subseteq DOMAIN map /\ \A k \in DOMAIN map' : map'[k] = map[k]
  BY <1>3, <1>5 DEF Removed, Parts
<1>8. DOMAIN map \ DOMAIN map' \subseteq Named'
  BY <1>3, <1>5, <1>6 DEF Removed
<1>9. reply'.type = "integer" => /\ DOMAIN map' \cap Named' = {}
                                 /\ reply'.num = Cardinality(DOMAIN map \ DOMAIN map')
  BY <1>3, <1>4, <1>5, <1>6 DEF Removed
<1> QED BY <1>1, <1>7, <1>8, <1>9 DEF DelCounts

(* DEL takes away keys it names and no others, and if it answers with a    *)
(* number it is the number of keys that are gone: no key is counted twice, *)
(* for the loop counts what btree_remove reports, one argument at a time.  *)
THEOREM DelCountsRemovals == ApiSpec => []DelCounts
<1>1. ApiInit => FiniteKeys /\ DelCounts
  BY FS_EmptySet DEF ApiInit, FiniteKeys, DelCounts, cmd, Command
<1>2. FiniteKeys /\ DelCounts /\ [ApiNext]_apiVars => FiniteKeys' /\ DelCounts'
  <2>1. ASSUME FiniteKeys, ApiNext PROVE FiniteKeys' /\ DelCounts'
    BY <2>1, FiniteKept, DelStep DEF ApiNext
  <2>2. CASE UNCHANGED apiVars
    BY <2>2 DEF apiVars, FiniteKeys, DelCounts, reply, cmd, before, Named
  <2> QED BY <2>1, <2>2
<1> QED BY <1>1, <1>2, PTL DEF ApiSpec

(***************************************************************************)
(* MSET.                                                                   *)
(***************************************************************************)
(* The map m, after j pairs: h is the last of them that names the key k.   *)
Names(args, h, k) == args[2 * h - 1].str = k

LastNamed(args, j, k, h) ==
    /\ h \in 1 .. j /\ Names(args, h, k)
    /\ \A g \in 1 .. j : Names(args, g, k) => g <= h

Stored(args, j, m) ==
    \A k \in DOMAIN m :
        \/ /\ \A h \in 1 .. j : ~ Names(args, h, k)
           /\ k \in DOMAIN map /\ m[k] = map[k]
        \/ \E h \in 1 .. j : LastNamed(args, j, k, h) /\ m[k] = args[2 * h].str

LEMMA StoreOneMore ==
    ASSUME NEW args, NEW j \in Nat \ {0}, NEW m, Stored(args, j - 1, m), NEW v,
           NEW k, Names(args, j, k), v = args[2 * j].str
    PROVE  Stored(args, j, Put(m, k, v))
<1> DEFINE n == Put(m, k, v)
<1>1. DOMAIN n = DOMAIN m \cup {k} /\ \A x \in DOMAIN n : n[x] = IF x = k THEN v ELSE m[x]
  BY DEF Put
<1> HIDE DEF n
<1>2. 1 .. j = (1 .. (j - 1)) \cup {j} /\ \A h \in 1 .. j : h <= j
  OBVIOUS
<1> SUFFICES ASSUME NEW x \in DOMAIN n
             PROVE  \/ /\ \A h \in 1 .. j : ~ Names(args, h, x)
                       /\ x \in DOMAIN map /\ n[x] = map[x]
                    \/ \E h \in 1 .. j : LastNamed(args, j, x, h) /\ n[x] = args[2 * h].str
  BY DEF Stored, n
<1>3. CASE x = k
  <2>1. LastNamed(args, j, x, j)
    BY <1>2, <1>3 DEF LastNamed
  <2>2. n[x] = args[2 * j].str
    BY <1>1, <1>3
  <2> QED BY <1>2, <2>1, <2>2
<1>4. CASE x # k
  <2>1. x \in DOMAIN m /\ n[x] = m[x] /\ ~ Names(args, j, x)
    BY <1>1, <1>4 DEF Names
  <2>2. CASE /\ \A h \in 1 .. (j - 1) : ~ Names(args, h, x)
             /\ x \in DOMAIN map /\ m[x] = map[x]
    BY <1>2, <2>1, <2>2
  <2>3. CASE \E h \in 1 .. (j - 1) : LastNamed(args, j - 1, x, h) /\ m[x] = args[2 * h].str
    <3>1. PICK h \in 1 .. (j - 1) : LastNamed(args, j - 1, x, h) /\ m[x] = args[2 * h].str
      BY <2>3
    <3>2. LastNamed(args, j, x, h)
      BY <1>2, <2>1, <3>1 DEF LastNamed
    <3> QED BY <1>2, <2>1, <3>1, <3>2
  <2> QED BY <2>1, <2>2, <2>3 DEF Stored
<1> QED BY <1>3, <1>4

LEMMA StoredAll ==
    ASSUME NEW args, IsArgs(args)
    PROVE  Stored(args, Len(args) \div 2, SetEach(args)[Len(args) \div 2])
<1> DEFINE c == Len(args) \div 2
           after == SetEach(args)
           T == {i \in 0 .. c : Stored(args, i, after[i])}
<1>1. after[0] = map
      /\ \A i \in 1 .. c : after[i] = Put(after[i - 1], args[2 * i - 1].str, args[2 * i].str)
  BY SetEachSteps
<1>2. c \in Nat
  BY DEF IsArgs
<1> HIDE DEF after, c
<1>3. \A i \in 1 .. c : i - 1 \in T => i \in T
  <2> SUFFICES ASSUME NEW i \in 1 .. c, i - 1 \in T
               PROVE  Stored(args, i, after[i])
    OBVIOUS
  <2>1. after[i] = Put(after[i - 1], args[2 * i - 1].str, args[2 * i].str)
    BY <1>1
  <2>2. Stored(args, i - 1, after[i - 1]) /\ Names(args, i, args[2 * i - 1].str)
    BY DEF Names
  <2> QED BY <2>1, <2>2, StoreOneMore
<1>4. 0 \in T
  BY <1>1, <1>2 DEF Stored
<1>5. 0 .. c \subseteq T
  <2> HIDE DEF T
  <2> QED BY <1>2, <1>3, <1>4, UpTo
<1>6. Stored(args, c, after[c])
  BY <1>2, <1>5
<1> QED BY <1>6 DEF after, c

LEMMA MaxIs ==
    ASSUME NEW S \in SUBSET Nat, NEW h \in S, \A g \in S : g <= h
    PROVE  Max(S) = h
<1>1. \A x \in S : (\A y \in S : x >= y) => x = h
  OBVIOUS
<1>2. h \in S /\ \A y \in S : h >= y
  OBVIOUS
<1> QED BY <1>1, <1>2 DEF Max

LEMMA MSetStep ==
    ASSUME NEW c \in Commands, ProcessCommand(c)
    PROVE  MSetLastWins'
<1>1. cmd' = c /\ before' = map
  BY Recorded
<1> SUFFICES ASSUME c.name = "mset", reply' = Ok, NEW k \in DOMAIN map'
             PROVE  LET named == {j \in Pairs(c.args) : Names(c.args, j, k)}
                    IN  IF named = {} THEN k \in DOMAIN map /\ map'[k] = map[k]
                        ELSE map'[k] = c.args[2 * Max(named)].str
  BY <1>1 DEF MSetLastWins, Names
<1> DEFINE n == Len(c.args) \div 2
           named == {j \in Pairs(c.args) : Names(c.args, j, k)}
<1>2. OnMSet(c)
  BY DEF ProcessCommand, OnSimple, OnGet, OnSet, OnDel, OnIncr, OnIncrBy,
         OnMGet, OnMSet, OnZAdd, OnZRange, OnFlushAll
<1>3. ~ Crash(c)
  BY ReplyTypes DEF Crash, reply
<1>4. map' = SetEach(c.args)[n]
  BY <1>2, <1>3 DEF OnMSet, Respond
<1>5. Stored(c.args, n, map') /\ n \in Nat
  <2>1. IsArgs(c.args)
    BY CommandArgs
  <2>2. n \in Nat
    <3>1. \A l \in Nat : l \div 2 \in Nat
      OBVIOUS
    <3> QED BY <2>1, <3>1, Zenon DEF IsArgs
  <2>3. Stored(c.args, n, SetEach(c.args)[n])
    BY <2>1, StoredAll
  <2> QED BY <1>4, <2>2, <2>3
<1>6. Pairs(c.args) = 1 .. n
  BY DEF Pairs
<1> HIDE DEF n
<1>7. CASE /\ \A h \in 1 .. n : ~ Names(c.args, h, k)
           /\ k \in DOMAIN map /\ map'[k] = map[k]
  BY <1>6, <1>7
<1>8. CASE \E h \in 1 .. n : LastNamed(c.args, n, k, h) /\ map'[k] = c.args[2 * h].str
  <2>1. PICK h \in 1 .. n : LastNamed(c.args, n, k, h) /\ map'[k] = c.args[2 * h].str
    BY <1>8
  <2>2. named \in SUBSET Nat /\ h \in named /\ \A g \in named : g <= h
    BY <1>5, <1>6, <2>1 DEF LastNamed
  <2>3. Max(named) = h
    <3> HIDE DEF named
    <3> QED BY <2>2, MaxIs
  <2> HIDE DEF named
  <2>4. named # {} /\ map'[k] = c.args[2 * Max(named)].str
    BY <2>1, <2>2, <2>3
  <2> QED BY <2>4 DEF named
<1> QED BY <1>5, <1>7, <1>8 DEF Stored

(* The handler of MSET goes through the pairs in their order and each      *)
(* overwrites what is there (removeImpl before insertImpl), so that of the *)
(* pairs with one key the last decides, and no other key is touched.       *)
THEOREM MSetStoresLastPairs == ApiSpec => []MSetLastWins
<1>1. ApiInit => MSetLastWins
  BY DEF ApiInit, MSetLastWins, cmd, Command
<1>2. MSetLastWins /\ [ApiNext]_apiVars => MSetLastWins'
  <2>1. CASE ApiNext
    BY <2>1, MSetStep DEF ApiNext
  <2>2. CASE UNCHANGED apiVars
    BY <2>2 DEF apiVars, MSetLastWins, reply, cmd, before
  <2> QED BY <2>1, <2>2
<1> QED BY <1>1, <1>2, PTL DEF ApiSpec

(***************************************************************************)
(* ZRANGE.                                                                 *)
(***************************************************************************)
(* In a finite set of keys the number of smaller keys is the place in the  *)
(* order, and every place is taken.                                        *)
LEMMA RankOrder ==
    ASSUME NEW S \in SUBSET Bytes, IsFiniteSet(S)
    PROVE  /\ Cardinality(S) \in Nat
           /\ \A k \in S : Rank(k, S) \in 0 .. (Cardinality(S) - 1)
           /\ \A k, l \in S : Less(k, l) <=> Rank(k, S) < Rank(l, S)
           /\ \A k, l \in S : Rank(k, S) = Rank(l, S) => k = l
           /\ \A i \in 0 .. (Cardinality(S) - 1) : \E k \in S : Rank(k, S) = i
<1> DEFINE n == Cardinality(S)
           B(k) == {x \in S : Less(x, k)}
           f == [k \in S |-> Rank(k, S)]
<1>1. n \in Nat
  BY FS_CardinalityType
<1>2. ASSUME NEW k \in S
      PROVE  IsFiniteSet(B(k)) /\ Rank(k, S) = Cardinality(B(k)) /\ Rank(k, S) \in 0 .. (n - 1)
  <2>1. B(k) \in SUBSET S /\ B(k) # S
    BY LessIrreflexive
  <2>2. IsFiniteSet(B(k)) /\ Cardinality(B(k)) <= n /\ Cardinality(B(k)) # n
    BY <2>1, FS_Subset
  <2>3. Cardinality(B(k)) \in Nat
    BY <2>2, FS_CardinalityType
  <2>4. Rank(k, S) = Cardinality(B(k))
    BY DEF Rank
  <2> HIDE DEF n, B
  <2> QED BY <1>1, <2>2, <2>3, <2>4
<1>3. ASSUME NEW k \in S, NEW l \in S, Less(k, l)
      PROVE  Rank(k, S) < Rank(l, S)
  <2>1. B(k) \in SUBSET B(l)
    BY <1>3, LessTransitive
  <2>2. k \in B(l) /\ k \notin B(k)
    BY <1>3, LessIrreflexive
  <2>3. Cardinality(B(k)) <= Cardinality(B(l)) /\ Cardinality(B(k)) # Cardinality(B(l))
    <3>1. IsFiniteSet(B(l))
      BY <1>2
    <3> HIDE DEF B
    <3> QED BY <2>1, <2>2, <3>1, FS_Subset
  <2>4. Cardinality(B(k)) \in Nat /\ Cardinality(B(l)) \in Nat
    BY <1>2, FS_CardinalityType
  <2>5. Rank(k, S) = Cardinality(B(k)) /\ Rank(l, S) = Cardinality(B(l))
    BY DEF Rank
  <2> HIDE DEF B
  <2> QED BY <2>3, <2>4, <2>5
<1>4. \A k \in S : Rank(k, S) \in Nat
  <2> TAKE k \in S
  <2>1. Rank(k, S) \in 0 .. (n - 1)
    BY <1>2
  <2> HIDE DEF n
  <2> QED BY <1>1, <2>1
<1>5. \A k, l \in S : Rank(k, S) = Rank(l, S) => k = l
  <2> SUFFICES ASSUME NEW k \in S, NEW l \in S, Rank(k, S) = Rank(l, S), k # l
               PROVE  FALSE
    OBVIOUS
  <2>1. Less(k, l) \/ Less(l, k)
    BY LessTotal
  <2> QED BY <1>3, <1>4, <2>1
<1>6. \A k, l \in S : Rank(k, S) < Rank(l, S) => Less(k, l)
  <2> SUFFICES ASSUME NEW k \in S, NEW l \in S, Rank(k, S) < Rank(l, S)
               PROVE  Less(k, l)
    OBVIOUS
  <2>1. Less(k, l) \/ k = l \/ Less(l, k)
    BY LessTotal
  <2>2. ~ Less(l, k) /\ k # l
    BY <1>3, <1>4
  <2> QED BY <2>1, <2>2
<1>7. IsFiniteSet(0 .. (n - 1)) /\ Cardinality(0 .. (n - 1)) = n
  <2>1. 0 \in Int /\ n - 1 \in Int
    BY <1>1
  <2>2. IsFiniteSet(0 .. (n - 1)) /\ Cardinality(0 .. (n - 1)) = IF 0 > n - 1 THEN 0 ELSE (n - 1) - 0 + 1
    BY <2>1, FS_Interval
  <2> HIDE DEF n
  <2> QED BY <1>1, <2>2
<1>8. ASSUME NEW i \in 0 .. (n - 1), \A k \in S : Rank(k, S) # i
      PROVE  FALSE
  <2> DEFINE T == (0 .. (n - 1)) \ {i}
  <2>1. f \in [S -> T]
    BY <1>2, <1>8
  <2>2. IsFiniteSet(T) /\ Cardinality(T) = Cardinality(0 .. (n - 1)) - 1
    BY <1>7, FS_RemoveElement
  <2>3. Cardinality(T) < Cardinality(S)
    <3> HIDE DEF T
    <3> QED BY <1>1, <1>7, <2>2
  <2>4. \E k, l \in S : k # l /\ f[k] = f[l]
    <3> HIDE DEF f, T
    <3> QED BY <2>1, <2>2, <2>3, FS_PigeonHole
  <2> QED BY <1>5, <2>4
<1> QED BY <1>1, <1>2, <1>3, <1>5, <1>6, <1>8

(* What ZRANGE answers with: the keys of the first places, all of them or  *)
(* as many as were asked for.                                              *)
LEMMA Scanned ==
    ASSUME NEW min, NEW limit \in Int, FiniteKeys, DOMAIN map \subseteq Bytes,
           NEW keys, keys = ZRange(min, limit), NEW S, S = KeysFrom(min)
    PROVE  /\ S \in SUBSET Bytes /\ IsFiniteSet(S) /\ Len(keys) \in 0 .. Cardinality(S)
           /\ DOMAIN keys = 1 .. Len(keys)
           /\ \A i \in 1 .. Len(keys) : keys[i] \in S /\ Rank(keys[i], S) = i - 1
           /\ Len(keys) = Cardinality(S) \/ Len(keys) = limit
<1> DEFINE all == Ascending(S)
           n == Cardinality(S)
<1>1. S \in SUBSET DOMAIN map
  BY DEF KeysFrom
<1>2. S \in SUBSET Bytes /\ IsFiniteSet(S)
  BY <1>1, FS_Subset DEF FiniteKeys
<1>3. n \in Nat /\ \A i \in 0 .. (n - 1) : \E k \in S : Rank(k, S) = i
  BY <1>2, RankOrder
<1>4. \A i \in 1 .. n : all[i] \in S /\ Rank(all[i], S) = i - 1
  <2> TAKE i \in 1 .. n
  <2>1. i - 1 \in 0 .. (n - 1)
    BY <1>3
  <2>2. \E k \in S : Rank(k, S) = i - 1
    BY <1>3, <2>1
  <2>3. all[i] = CHOOSE k \in S : Rank(k, S) = i - 1
    BY DEF Ascending
  <2> HIDE DEF all
  <2> QED BY <2>2, <2>3
<1>5. all \in Seq(S) /\ Len(all) = n /\ DOMAIN all = 1 .. n
  <2>1. all = [i \in 1 .. n |-> all[i]]
    BY DEF Ascending
  <2> HIDE DEF all, n
  <2>2. all \in [1 .. n -> S]
    BY <1>4, <2>1
  <2> QED BY <1>3, <2>2
<1>6. keys = IF limit < 0 \/ limit > Len(all) THEN all ELSE SubSeq(all, 1, limit)
  BY DEF ZRange
<1> HIDE DEF all
<1>7. CASE limit < 0 \/ limit > Len(all)
  BY <1>2, <1>3, <1>4, <1>5, <1>6, <1>7
<1>8. CASE ~ (limit < 0 \/ limit > Len(all))
  <2>1. limit \in 0 .. n
    BY <1>3, <1>5, <1>8
  <2>2. \A i \in 1 .. limit : all[i] \in S /\ Rank(all[i], S) = i - 1
    <3> TAKE i \in 1 .. limit
    <3>1. i \in 1 .. n
      BY <1>3, <2>1
    <3> QED BY <1>4, <3>1
  <2>3. keys \in Seq(S) /\ Len(keys) = limit /\ \A i \in 1 .. limit : keys[i] = all[i]
    <3>1. keys = SubSeq(all, 1, limit)
      BY <1>6, <1>8
    <3>2. /\ keys \in Seq(S) /\ Len(keys) = IF 1 <= limit THEN limit - 1 + 1 ELSE 0
          /\ \A i \in 1 .. (limit - 1 + 1) : keys[i] = all[1 + i - 1]
      BY <2>1, <2>2, <3>1, SubSeqProperties
    <3> QED BY <2>1, <3>2
  <2>4. DOMAIN keys = 1 .. limit
    BY <2>3, LenProperties
  <2>5. Len(keys) \in 0 .. Cardinality(S)
    BY <2>1, <2>3
  <2>6. \A i \in 1 .. Len(keys) : keys[i] \in S /\ Rank(keys[i], S) = i - 1
    BY <2>2, <2>3
  <2> HIDE DEF n
  <2> QED BY <1>2, <2>3, <2>4, <2>5, <2>6
<1> QED BY <1>7, <1>8

(* Keys and values are strings of bytes.                                   *)
MapOfStrings(m) == \A k \in DOMAIN m : k \in Bytes /\ m[k] \in Bytes

LEMMA PutStrings ==
    ASSUME NEW m, MapOfStrings(m), NEW k \in Bytes, NEW v \in Bytes
    PROVE  MapOfStrings(Put(m, k, v))
BY DEF Put, MapOfStrings

LEMMA EmptyString == << >> \in Bytes
BY DEF Bytes

LEMMA ArgStrings ==
    ASSUME NEW c \in Commands
    PROVE  IsArgs(c.args) /\ \A i \in 1 .. Len(c.args) : c.args[i].str \in Bytes
BY RespApiAssumption DEF IsArgs

LEMMA SetEachStrings ==
    ASSUME NEW args, IsArgs(args), \A i \in 1 .. Len(args) : args[i].str \in Bytes, MapOfStrings(map)
    PROVE  MapOfStrings(SetEach(args)[Len(args) \div 2])
<1> DEFINE c == Len(args) \div 2
           after == SetEach(args)
           T == {i \in 0 .. c : MapOfStrings(after[i])}
<1>1. after[0] = map
      /\ \A i \in 1 .. c : after[i] = Put(after[i - 1], args[2 * i - 1].str, args[2 * i].str)
  BY SetEachSteps
<1>2. c \in Nat /\ \A i \in 1 .. c : args[2 * i - 1].str \in Bytes /\ args[2 * i].str \in Bytes
  <2>1. \A i \in 1 .. c : 2 * i - 1 \in 1 .. Len(args) /\ 2 * i \in 1 .. Len(args)
    BY DEF IsArgs
  <2> QED BY <2>1 DEF IsArgs
<1> HIDE DEF after, c
<1>3. \A i \in 1 .. c : i - 1 \in T => i \in T
  <2> SUFFICES ASSUME NEW i \in 1 .. c, i - 1 \in T
               PROVE  MapOfStrings(after[i])
    OBVIOUS
  <2>1. after[i] = Put(after[i - 1], args[2 * i - 1].str, args[2 * i].str)
    BY <1>1
  <2>2. MapOfStrings(after[i - 1]) /\ args[2 * i - 1].str \in Bytes /\ args[2 * i].str \in Bytes
    BY <1>2
  <2> QED BY <2>1, <2>2, PutStrings
<1>4. 0 \in T
  BY <1>1, <1>2
<1>5. 0 .. c \subseteq T
  <2> HIDE DEF T
  <2> QED BY <1>2, <1>3, <1>4, UpTo
<1>6. MapOfStrings(after[c])
  BY <1>2, <1>5
<1> QED BY <1>6 DEF after, c

LEMMA AddEachStrings ==
    ASSUME NEW args, IsArgs(args), \A i \in 1 .. Len(args) : args[i].str \in Bytes, MapOfStrings(map)
    PROVE  MapOfStrings(AddEach(args)[Len(args)].m)
<1> DEFINE c == Len(args)
           after == AddEach(args)
           T == {i \in 0 .. c : MapOfStrings(after[i].m)}
<1>1. after[0] = [m |-> map, how |-> "ok"]
      /\ \A i \in 1 .. c : after[i] = AddOne(after[i - 1], i, args[i])
  BY AddEachSteps
<1>2. c \in Nat /\ \A i \in 1 .. c : args[i].str \in Bytes
  BY DEF IsArgs
<1> HIDE DEF after, c
<1>3. \A i \in 1 .. c : i - 1 \in T => i \in T
  <2> SUFFICES ASSUME NEW i \in 1 .. c, i - 1 \in T
               PROVE  MapOfStrings(after[i].m)
    OBVIOUS
  <2> DEFINE a == after[i - 1]
  <2>1. after[i] = AddOne(a, i, args[i]) /\ MapOfStrings(a.m) /\ args[i].str \in Bytes
    BY <1>1, <1>2
  <2> HIDE DEF a
  <2>2. after[i].m = a.m \/ after[i].m = Put(a.m, args[i].str, << >>)
    BY <2>1 DEF AddOne
  <2> QED BY <2>1, <2>2, PutStrings, EmptyString
<1>4. 0 \in T
  BY <1>1, <1>2
<1>5. 0 .. c \subseteq T
  <2> HIDE DEF T
  <2> QED BY <1>2, <1>3, <1>4, UpTo
<1>6. MapOfStrings(after[c].m)
  BY <1>2, <1>5
<1> QED BY <1>6 DEF after, c

(***************************************************************************)
(* Numbers: what IntToString writes, ParseIntStrict reads.                 *)
(***************************************************************************)
LEMMA WrapRange ==
    ASSUME NEW n \in Int
    PROVE  /\ Wrap(n) \in -MaxInt .. (MaxInt - 1)
           /\ n \in -MaxInt .. (MaxInt - 1) => Wrap(n) = n
           /\ n = MaxInt => Wrap(n) = -MaxInt
<1> DEFINE b == 2 * MaxInt
           x == n + MaxInt
<1>1. MaxInt \in Nat \ {0} /\ b \in Nat \ {0} /\ x \in Int
  BY RespApiAssumption
<1>2. Wrap(n) = (x % b) - MaxInt
  BY DEF Wrap
<1>3. (x % b) \in 0 .. (b - 1)
  <2> HIDE DEF x, b
  <2> QED BY <1>1
<1>4. x \in 0 .. (b - 1) => (x % b) = x
  <2> HIDE DEF x, b
  <2> QED BY <1>1
<1>5. (b % b) = 0
  <2> HIDE DEF x, b
  <2>1. b = b * 1 + 0
    BY <1>1
  <2> QED BY <1>1, <2>1
<1>6. Wrap(n) \in -MaxInt .. (MaxInt - 1)
  BY <1>1, <1>2, <1>3
<1>7. n \in -MaxInt .. (MaxInt - 1) => Wrap(n) = n
  BY <1>1, <1>2, <1>4
<1>8. n = MaxInt => Wrap(n) = -MaxInt
  BY <1>1, <1>2, <1>5
<1> QED BY <1>6, <1>7, <1>8

LEMMA Characters ==
    /\ Byte = 0 .. 16 /\ Digit = 1 .. 10 /\ Minus = 0
    /\ Minus \in Byte /\ Minus \notin Digit /\ Digit \subseteq Byte
BY RespApiAssumption DEF Byte, Digit, Minus

LEMMA ParsedSteps ==
    ASSUME NEW s \in Bytes, NEW val, val = Parsed(s)
    PROVE  /\ val[0] = 0
           /\ \A i \in 1 .. Len(s) :
                 val[i] = IF s[i] \in Digit THEN Wrap(val[i - 1] * 10 + (s[i] - 1)) ELSE val[i - 1]
           /\ \A i \in 0 .. Len(s) : val[i] \in Int
<1> DEFINE c == Len(s)
           next(i, v) == IF s[i] \in Digit THEN Wrap(v * 10 + (s[i] - 1)) ELSE v
           f == [p \in (1 .. c) \X Int |-> next(p[1], p[2])]
<1>1. c \in Nat
  BY BytesType
<1>2. ASSUME NEW i \in 1 .. c, NEW v \in Int
      PROVE  next(i, v) \in Int
  <2>1. s[i] \in Digit => v * 10 + (s[i] - 1) \in Int
    BY Characters
  <2>2. s[i] \in Digit => Wrap(v * 10 + (s[i] - 1)) \in Int
    BY <2>1, WrapRange, RespApiAssumption
  <2> QED BY <2>2
<1> HIDE DEF c, next
<1>3. f \in [(1 .. c) \X Int -> Int]
  BY <1>2
<1> HIDE DEF f
<1>4. PICK g \in [0 .. c -> Int] : IsStepwise(g, f, 0, c)
  <2> DEFINE X == Int
             start == 0
  <2>1. start \in X /\ f \in [(1 .. c) \X X -> X]
    BY <1>3
  <2>2. SUFFICES \E g \in [0 .. c -> X] : IsStepwise(g, f, start, c)
    OBVIOUS
  <2> HIDE DEF X, start
  <2> QED BY <1>1, <2>1, Stepwise
<1>5. g[0] = 0 /\ \A i \in 1 .. c : g[i] = f[<<i, g[i - 1]>>]
  BY <1>4 DEF IsStepwise
<1>6. \A i \in 1 .. c : g[i] = next(i, g[i - 1])
  <2> TAKE i \in 1 .. c
  <2>1. i - 1 \in 0 .. c
    BY <1>1
  <2>2. <<i, g[i - 1]>> \in (1 .. c) \X Int
    BY <2>1
  <2> QED BY <1>5, <2>2 DEF f
<1> DEFINE table(h) == [i \in 0 .. c |-> IF i = 0 THEN 0 ELSE next(i, h[i - 1])]
<1>7. g = table(g)
  BY <1>5, <1>6
<1>8. Parsed(s) = CHOOSE h : h = table(h)
  BY DEF Parsed, c, next
<1>9. val = table(val)
  <2> HIDE DEF table
  <2> QED BY <1>7, <1>8
<1>10. val[0] = 0 /\ \A i \in 1 .. c : val[i] = next(i, val[i - 1])
  BY <1>1, <1>9
<1>11. \A i \in 0 .. c : val[i] \in Int
  <2> DEFINE T == {i \in 0 .. c : val[i] \in Int}
  <2>1. 0 \in T
    BY <1>1, <1>10
  <2>2. \A i \in 1 .. c : i - 1 \in T => i \in T
    <3> SUFFICES ASSUME NEW i \in 1 .. c, val[i - 1] \in Int PROVE val[i] \in Int
      OBVIOUS
    <3> QED BY <1>2, <1>10
  <2>3. 0 .. c \subseteq T
    <3> HIDE DEF T
    <3> QED BY <1>1, <2>1, <2>2, UpTo
  <2> QED BY <2>3
<1> QED BY <1>10, <1>11 DEF c, next

(* One more digit; what was read before it does not change.                *)
LEMMA ParsedNext ==
    ASSUME NEW s \in Bytes, NEW d \in 0 .. 9
    PROVE  /\ Append(s, d + 1) \in Bytes
           /\ Parsed(Append(s, d + 1))[Len(s) + 1] = Wrap(Parsed(s)[Len(s)] * 10 + d)
<1> DEFINE t == Append(s, d + 1)
           c == Len(s)
           u == Parsed(s)
           v == Parsed(t)
           T == {i \in 0 .. c : v[i] = u[i]}
<1>1. d + 1 \in Digit /\ d + 1 \in Byte /\ d + 1 - 1 = d
  BY Characters
<1>2. t \in Bytes /\ Len(t) = c + 1 /\ t[c + 1] = d + 1 /\ \A i \in 1 .. c : t[i] = s[i]
  <2>1. s \in Seq(Byte)
    BY DEF Bytes
  <2> QED BY <1>1, <2>1, AppendProperties DEF Bytes
<1>3. c \in Nat
  BY BytesType
<1>4. u[0] = 0 /\ \A i \in 1 .. c : u[i] = IF s[i] \in Digit THEN Wrap(u[i - 1] * 10 + (s[i] - 1)) ELSE u[i - 1]
  BY ParsedSteps
<1> HIDE DEF t
<1>5. v[0] = 0 /\ \A i \in 1 .. Len(t) : v[i] = IF t[i] \in Digit THEN Wrap(v[i - 1] * 10 + (t[i] - 1)) ELSE v[i - 1]
  BY <1>2, ParsedSteps
<1> HIDE DEF u, v, c
<1>6. \A i \in 1 .. c : i - 1 \in T => i \in T
  BY <1>2, <1>3, <1>4, <1>5
<1>7. 0 \in T
  BY <1>3, <1>4, <1>5
<1>8. c \in T
  <2>1. 0 .. c \subseteq T
    <3> HIDE DEF T
    <3> QED BY <1>3, <1>6, <1>7, UpTo
  <2> QED BY <1>3, <2>1
<1>9. v[c + 1] = Wrap(v[c] * 10 + (t[c + 1] - 1))
  <2>1. c + 1 \in 1 .. Len(t) /\ c + 1 - 1 = c
    BY <1>2, <1>3
  <2>2. t[c + 1] \in Digit
    BY <1>1, <1>2
  <2> DEFINE read(i) == IF t[i] \in Digit THEN Wrap(v[i - 1] * 10 + (t[i] - 1)) ELSE v[i - 1]
  <2>3. \A i \in 1 .. Len(t) : v[i] = read(i)
    BY <1>5
  <2>4. v[c + 1] = read(c + 1)
    <3> HIDE DEF read
    <3> QED BY <2>1, <2>3
  <2>5. read(c + 1) = Wrap(v[c] * 10 + (t[c + 1] - 1))
    <3> DEFINE e == c + 1
    <3>1. e - 1 = c /\ t[e] \in Digit
      BY <1>3, <2>2
    <3> SUFFICES read(e) = Wrap(v[c] * 10 + (t[e] - 1))
      OBVIOUS
    <3> HIDE DEF e
    <3>2. read(e) = Wrap(v[e - 1] * 10 + (t[e] - 1))
      BY <3>1, Zenon
    <3> QED BY <3>1, <3>2, Zenon
  <2> QED BY <2>4, <2>5
<1>10. v[c + 1] = Wrap(u[c] * 10 + d)
  BY <1>1, <1>2, <1>8, <1>9
<1> QED BY <1>2, <1>10 DEF t, u, v, c

(* The digits of every magnitude up to n.                                  *)
IsNumeral(f, n) ==
    \A m \in 0 .. n : f[m] = IF m < 10 THEN <<m + 1>> ELSE Append(f[m \div 10], (m % 10) + 1)

LEMMA Decimal ==
    ASSUME NEW n \in Nat
    PROVE  /\ (n % 10) \in 0 .. 9
           /\ n = (n \div 10) * 10 + (n % 10)
           /\ n >= 10 => (n \div 10) \in 0 .. (n - 1)
           /\ n < 10 => n \in 0 .. 9
OBVIOUS

LEMMA NumeralSteps ==
    /\ IsNumeral(Numeral, MaxInt)
    /\ \A n \in 0 .. MaxInt : Numeral[n] \in Bytes
<1> DEFINE T == {n \in 0 .. MaxInt : \E f \in [0 .. n -> Bytes] : IsNumeral(f, n)}
<1>1. MaxInt \in Nat
  BY RespApiAssumption
<1>2. ASSUME NEW s \in Bytes, NEW d \in 0 .. 9 PROVE Append(s, d + 1) \in Bytes
  BY ParsedNext
<1>3. ASSUME NEW d \in 0 .. 9 PROVE <<d + 1>> \in Bytes
  <2>1. d + 1 \in Byte
    BY Characters
  <2> QED BY <2>1 DEF Bytes
<1>4. 0 \in T
  <2> DEFINE f == [m \in 0 .. 0 |-> <<m + 1>>]
  <2>1. f \in [0 .. 0 -> Bytes]
    BY <1>3
  <2>2. IsNumeral(f, 0)
    BY DEF IsNumeral
  <2> QED BY <1>1, <2>1, <2>2
<1>5. ASSUME NEW n \in 1 .. MaxInt, n - 1 \in T PROVE n \in T
  <2>1. PICK f \in [0 .. (n - 1) -> Bytes] : IsNumeral(f, n - 1)
    BY <1>5
  <2> DEFINE s == IF n < 10 THEN <<n + 1>> ELSE Append(f[n \div 10], (n % 10) + 1)
             g == [m \in 0 .. n |-> IF m = n THEN s ELSE f[m]]
  <2>2. n \in Nat /\ n # 0
    BY <1>1
  <2>3. s \in Bytes
    <3>1. CASE n < 10
      BY <1>3, <2>2, <3>1, Decimal
    <3>2. CASE ~ (n < 10)
      <4>1. (n \div 10) \in 0 .. (n - 1) /\ (n % 10) \in 0 .. 9
        BY <2>2, <3>2, Decimal
      <4>2. f[n \div 10] \in Bytes
        BY <4>1
      <4> QED BY <1>2, <3>2, <4>1, <4>2
    <3> QED BY <3>1, <3>2
  <2>4. g \in [0 .. n -> Bytes] /\ g[n] = s /\ \A m \in 0 .. (n - 1) : g[m] = f[m]
    <3> HIDE DEF s
    <3> QED BY <2>2, <2>3
  <2> HIDE DEF g
  <2>5. IsNumeral(g, n)
    <3> SUFFICES ASSUME NEW m \in 0 .. n
                 PROVE  g[m] = IF m < 10 THEN <<m + 1>> ELSE Append(g[m \div 10], (m % 10) + 1)
      BY DEF IsNumeral
    <3>1. m >= 10 => g[m \div 10] = f[m \div 10]
      <4> SUFFICES ASSUME m >= 10 PROVE g[m \div 10] = f[m \div 10]
        OBVIOUS
      <4>1. (m \div 10) \in 0 .. (m - 1)
        BY <2>2, Decimal
      <4>2. \A q \in 0 .. (m - 1) : q \in 0 .. (n - 1)
        BY <2>2
      <4> QED BY <2>4, <4>1, <4>2
    <3>2. CASE m = n
      BY <2>2, <2>4, <3>1, <3>2
    <3>3. CASE m # n
      <4>1. m \in 0 .. (n - 1)
        BY <2>2, <3>3
      <4>2. f[m] = IF m < 10 THEN <<m + 1>> ELSE Append(f[m \div 10], (m % 10) + 1)
        BY <2>1, <4>1 DEF IsNumeral
      <4>3. g[m] = f[m]
        BY <2>4, <4>1
      <4> QED BY <2>2, <3>1, <4>2, <4>3
    <3> QED BY <3>2, <3>3
  <2> QED BY <2>4, <2>5
<1>6. MaxInt \in T
  <2>1. 0 .. MaxInt \subseteq T
    <3> HIDE DEF T
    <3> QED BY <1>1, <1>4, <1>5, UpTo
  <2> QED BY <1>1, <2>1
<1>7. PICK f \in [0 .. MaxInt -> Bytes] : IsNumeral(f, MaxInt)
  BY <1>6
<1> DEFINE table(h) == [n \in 0 .. MaxInt |-> IF n < 10 THEN <<n + 1>> ELSE Append(h[n \div 10], (n % 10) + 1)]
<1>8. f = table(f)
  BY <1>7 DEF IsNumeral
<1>9. Numeral = CHOOSE h : h = table(h)
  BY DEF Numeral
<1>10. Numeral = table(Numeral)
  <2> HIDE DEF table
  <2> QED BY <1>8, <1>9
<1>11. IsNumeral(Numeral, MaxInt)
  BY <1>10 DEF IsNumeral
<1>12. \A n \in 0 .. MaxInt : Numeral[n] \in Bytes
  <2> DEFINE B == {n \in 0 .. MaxInt : \A m \in 0 .. n : Numeral[m] \in Bytes}
  <2>1. Numeral[0] \in Bytes /\ 0 .. 0 = {0}
    BY <1>1, <1>3, <1>11 DEF IsNumeral
  <2>2. 0 \in B
    BY <1>1, <2>1
  <2>3. ASSUME NEW n \in 1 .. MaxInt, n - 1 \in B PROVE n \in B
    <3>1. \A m \in 0 .. (n - 1) : Numeral[m] \in Bytes
      BY <2>3
    <3>2. n \in Nat /\ n \in 0 .. MaxInt
      BY <1>1
    <3>3. Numeral[n] = IF n < 10 THEN <<n + 1>> ELSE Append(Numeral[n \div 10], (n % 10) + 1)
      BY <1>11, <3>2 DEF IsNumeral
    <3>4. n < 10 => Numeral[n] \in Bytes
      BY <1>3, <3>2, <3>3, Decimal
    <3>5. n >= 10 => Numeral[n] \in Bytes
      BY <1>2, <3>1, <3>2, <3>3, Decimal
    <3>6. \A m \in 0 .. n : m = n \/ m \in 0 .. (n - 1)
      BY <3>2
    <3>7. Numeral[n] \in Bytes
      BY <3>2, <3>4, <3>5
    <3> QED BY <3>1, <3>2, <3>6, <3>7
  <2>4. 0 .. MaxInt \subseteq B
    <3> HIDE DEF B
    <3> QED BY <1>1, <2>2, <2>3, UpTo
  <2> QED BY <1>1, <2>4
<1> QED BY <1>11, <1>12

(* After a sign or nothing, the digits of a magnitude read as what is left *)
(* of it in the type: only the magnitude of the least integer wraps.       *)
Signs == {<< >>, <<Minus>>}

ReadsAs(p, s, n) ==
    /\ s \in Bytes /\ Len(s) > Len(p)
    /\ \A i \in 1 .. Len(s) : IF i <= Len(p) THEN s[i] = p[i] ELSE s[i] \in Digit
    /\ Parsed(s)[Len(s)] = Wrap(n)

LEMMA SignsRead ==
    ASSUME NEW p \in Signs
    PROVE  p \in Bytes /\ Parsed(p)[Len(p)] = 0
<1>1. p \in Bytes
  <2>1. Minus \in Byte
    BY Characters
  <2>2. << >> \in Seq(Byte) /\ <<Minus>> \in Seq(Byte)
    BY <2>1
  <2> QED BY <2>2 DEF Signs, Bytes
<1>2. Len(p) \in {0, 1} /\ (Len(p) = 1 => p[1] \notin Digit)
  BY Characters DEF Signs
<1>3. CASE Len(p) = 0
  BY <1>1, <1>3, ParsedSteps
<1>4. CASE Len(p) = 1
  <2>1. 1 \in 1 .. Len(p) /\ 1 - 1 = 0
    BY <1>4
  <2>2. Parsed(p)[0] = 0 /\ Parsed(p)[1] = Parsed(p)[0]
    BY <1>1, <1>2, <1>4, <2>1, ParsedSteps
  <2> QED BY <1>1, <1>4, <2>2
<1> QED BY <1>1, <1>2, <1>3, <1>4

(* One more digit after a string that reads as q, or after the sign alone. *)
LEMMA ReadsOneMore ==
    ASSUME NEW p \in Bytes, NEW s \in Bytes, Len(s) >= Len(p),
           \A i \in 1 .. Len(s) : IF i <= Len(p) THEN s[i] = p[i] ELSE s[i] \in Digit,
           NEW q \in Nat, q < MaxInt, Parsed(s)[Len(s)] = q, NEW d \in 0 .. 9
    PROVE  ReadsAs(p, Append(s, d + 1), q * 10 + d)
<1> DEFINE t == Append(s, d + 1)
<1>1. Len(s) \in Nat /\ Len(p) \in Nat
  BY BytesType
<1>2. t \in Bytes /\ Parsed(t)[Len(s) + 1] = Wrap(q * 10 + d)
  BY ParsedNext
<1>3. Len(t) = Len(s) + 1 /\ t[Len(s) + 1] = d + 1 /\ \A i \in 1 .. Len(s) : t[i] = s[i]
  <2>1. s \in Seq(Byte) /\ d + 1 \in Byte
    BY Characters DEF Bytes
  <2> QED BY <2>1, AppendProperties
<1> HIDE DEF t
<1>4. ASSUME NEW i \in 1 .. Len(t) PROVE IF i <= Len(p) THEN t[i] = p[i] ELSE t[i] \in Digit
  <2>1. CASE i \in 1 .. Len(s)
    BY <1>3, <2>1
  <2>2. CASE i = Len(s) + 1
    <3>1. ~ (i <= Len(p)) /\ d + 1 \in Digit
      BY <1>1, <2>2, Characters
    <3> QED BY <1>3, <2>2, <3>1
  <2> QED BY <1>1, <1>3, <2>1, <2>2
<1>5. Len(t) > Len(p)
  BY <1>1, <1>3
<1> QED BY <1>2, <1>3, <1>4, <1>5 DEF ReadsAs, t

LEMMA NumeralReads ==
    ASSUME NEW p \in Signs, NEW n \in 0 .. MaxInt
    PROVE  ReadsAs(p, p \o Numeral[n], n)
<1> DEFINE T == {m \in 0 .. MaxInt : \A q \in 0 .. m : ReadsAs(p, p \o Numeral[q], q)}
<1>1. MaxInt \in Nat \ {0}
  BY RespApiAssumption
<1>2. p \in Bytes /\ Parsed(p)[Len(p)] = 0 /\ p \in Seq(Byte)
  <2>1. p \in Bytes /\ Parsed(p)[Len(p)] = 0
    BY SignsRead
  <2> QED BY <2>1 DEF Bytes
<1>3. ASSUME NEW q \in 0 .. MaxInt, q < 10
      PROVE  ReadsAs(p, p \o Numeral[q], q)
  <2>1. q \in 0 .. 9 /\ q + 1 \in Byte
    BY <1>3, Characters
  <2>2. Numeral[q] = <<q + 1>>
    BY <1>3, NumeralSteps DEF IsNumeral
  <2>3. p \o Numeral[q] = Append(p, q + 1)
    BY <1>2, <2>1, <2>2, AppendIsConcat
  <2>4. ReadsAs(p, Append(p, q + 1), 0 * 10 + q)
    <3>1. \A i \in 1 .. Len(p) : IF i <= Len(p) THEN p[i] = p[i] ELSE p[i] \in Digit
      OBVIOUS
    <3>2. Len(p) >= Len(p) /\ 0 \in Nat /\ 0 < MaxInt
      BY <1>1, <1>2, BytesType
    <3> QED BY <1>2, <2>1, <3>1, <3>2, ReadsOneMore
  <2>5. 0 * 10 + q = q
    BY <2>1
  <2> QED BY <2>3, <2>4, <2>5
<1>4. ASSUME NEW m \in 1 .. MaxInt, m - 1 \in T, m >= 10
      PROVE  ReadsAs(p, p \o Numeral[m], m)
  <2> DEFINE q == m \div 10
             d == m % 10
             s == p \o Numeral[q]
  <2>1. m \in Nat /\ q \in 0 .. (m - 1) /\ d \in 0 .. 9 /\ m = q * 10 + d
    BY <1>1, <1>4, Decimal
  <2> HIDE DEF q, d
  <2>2. q \in Nat /\ q < MaxInt /\ q \in 0 .. MaxInt /\ q \in -MaxInt .. (MaxInt - 1) /\ d + 1 \in Byte
    BY <1>1, <2>1, Characters
  <2>3. ReadsAs(p, s, q)
    BY <1>4, <2>1
  <2>4. Wrap(q) = q
    BY <2>2, WrapRange
  <2>5. /\ s \in Bytes /\ Len(s) >= Len(p) /\ Parsed(s)[Len(s)] = q
        /\ \A i \in 1 .. Len(s) : IF i <= Len(p) THEN s[i] = p[i] ELSE s[i] \in Digit
    <3> HIDE DEF s
    <3>1. s \in Bytes /\ Len(s) > Len(p)
      BY <2>3 DEF ReadsAs
    <3>2. Len(s) \in Nat /\ Len(p) \in Nat
      BY <1>2, <3>1, BytesType
    <3> QED BY <2>3, <2>4, <3>1, <3>2 DEF ReadsAs
  <2>6. ReadsAs(p, Append(s, d + 1), m)
    <3> HIDE DEF s
    <3>1. ReadsAs(p, Append(s, d + 1), q * 10 + d)
      BY <1>2, <2>1, <2>2, <2>5, ReadsOneMore
    <3> QED BY <2>1, <3>1
  <2>7. p \o Numeral[m] = Append(s, d + 1)
    <3>1. Numeral[m] = Append(Numeral[q], d + 1) /\ Numeral[q] \in Seq(Byte)
      <4>1. m \in 0 .. MaxInt /\ ~ (m < 10)
        BY <1>1, <1>4
      <4>2. Numeral[m] = Append(Numeral[m \div 10], (m % 10) + 1)
        BY <4>1, NumeralSteps DEF IsNumeral
      <4> QED BY <2>2, <4>2, NumeralSteps DEF Bytes, q, d
    <3>2. <<d + 1>> \in Seq(Byte)
      BY <2>2
    <3>3. Numeral[m] = Numeral[q] \o <<d + 1>>
      BY <2>2, <3>1, AppendIsConcat
    <3>4. p \o Numeral[m] = s \o <<d + 1>>
      <4>1. (p \o Numeral[q]) \o <<d + 1>> = p \o (Numeral[q] \o <<d + 1>>)
        <5> DEFINE e == <<d + 1>>
                   f == Numeral[q]
        <5>1. e \in Seq(Byte) /\ f \in Seq(Byte) /\ p \in Seq(Byte)
          BY <1>2, <3>1, <3>2
        <5> SUFFICES (p \o f) \o e = p \o (f \o e)
          OBVIOUS
        <5> HIDE DEF e, f
        <5> QED BY <5>1, ConcatAssociative
      <4> QED BY <3>3, <4>1
    <3>5. s \in Seq(Byte)
      BY <2>5 DEF Bytes
    <3> HIDE DEF s
    <3> QED BY <2>2, <3>4, <3>5, AppendIsConcat
  <2> QED BY <2>6, <2>7
<1>5. 0 \in T
  <2>1. ReadsAs(p, p \o Numeral[0], 0)
    BY <1>1, <1>3
  <2>2. \A q \in 0 .. 0 : q = 0
    OBVIOUS
  <2> QED BY <1>1, <2>1, <2>2
<1>6. \A m \in 1 .. MaxInt : m - 1 \in T => m \in T
  <2> SUFFICES ASSUME NEW m \in 1 .. MaxInt, m - 1 \in T PROVE m \in T
    OBVIOUS
  <2>1. m \in Nat /\ m \in 0 .. MaxInt
    BY <1>1
  <2>2. ReadsAs(p, p \o Numeral[m], m)
    BY <1>3, <1>4, <2>1
  <2>3. \A q \in 0 .. m : q = m \/ q \in 0 .. (m - 1)
    BY <2>1
  <2> QED BY <2>1, <2>2, <2>3
<1>7. 0 .. MaxInt \subseteq T
  <2> HIDE DEF T
  <2> QED BY <1>1, <1>5, <1>6, UpTo
<1>8. n \in T
  BY <1>7
<1>9. n \in 0 .. n
  BY <1>1
<1> QED BY <1>8, <1>9

(* Every integer of the type survives the way to a string and back.        *)
LEMMA ReadBack ==
    ASSUME NEW n \in -MaxInt .. (MaxInt - 1)
    PROVE  IntToString(n) \in Bytes /\ ParseIntStrict(IntToString(n)) = {n}
<1> DEFINE s == IntToString(n)
<1>1. MaxInt \in Nat \ {0} /\ n \in Int
  BY RespApiAssumption
<1>2. CASE n >= 0
  <2>1. n \in 0 .. MaxInt
    BY <1>1, <1>2
  <2>2. << >> \in Signs /\ Len(<< >>) = 0
    BY DEF Signs
  <2>3. s = << >> \o Numeral[n]
    <3>1. Numeral[n] \in Seq(Byte)
      BY <2>1, NumeralSteps DEF Bytes
    <3>2. s = Numeral[n]
      BY <1>1, <1>2 DEF IntToString
    <3> QED BY <3>1, <3>2, ConcatEmptySeq
  <2> HIDE DEF s
  <2>4. ReadsAs(<< >>, s, n)
    BY <2>1, <2>2, <2>3, NumeralReads
  <2>5. s \in Bytes /\ Len(s) > 0 /\ Len(s) \in Nat /\ DOMAIN s = 1 .. Len(s)
        /\ \A i \in 1 .. Len(s) : s[i] \in Digit
    <3>1. s \in Bytes /\ Len(s) > 0
      BY <2>2, <2>4 DEF ReadsAs
    <3>2. Len(s) \in Nat /\ DOMAIN s = 1 .. Len(s)
      BY <3>1, BytesType
    <3>3. \A i \in 1 .. Len(s) : ~ (i <= 0)
      OBVIOUS
    <3> QED BY <2>2, <2>4, <3>1, <3>2, <3>3 DEF ReadsAs
  <2>6. IsNumber(s) /\ s[1] # Minus
    <3>1. s # << >> /\ 1 \in 1 .. Len(s)
      BY <2>2, <2>5
    <3> QED BY <2>5, <3>1, Characters DEF IsNumber
  <2>7. Parsed(s)[Len(s)] = n
    BY <1>1, <2>4, WrapRange DEF ReadsAs
  <2> QED BY <2>5, <2>6, <2>7 DEF ParseIntStrict, s
<1>3. CASE n < 0
  <2> DEFINE p == <<Minus>>
  <2>1. -n \in 1 .. MaxInt /\ -n \in 0 .. MaxInt /\ -n \in Int
    BY <1>1, <1>3
  <2>2. p \in Signs /\ Len(p) = 1 /\ p[1] = Minus
    BY DEF Signs
  <2>3. s = p \o Numeral[-n]
    BY <1>3 DEF IntToString
  <2> HIDE DEF s, p
  <2>4. ReadsAs(p, s, -n)
    <3> DEFINE m == -n
    <3>1. m \in 0 .. MaxInt /\ s = p \o Numeral[m]
      BY <2>1, <2>3
    <3> SUFFICES ReadsAs(p, s, m)
      OBVIOUS
    <3> HIDE DEF m
    <3> QED BY <2>2, <3>1, NumeralReads
  <2>5. s \in Bytes /\ Len(s) > 1 /\ Len(s) \in Nat /\ DOMAIN s = 1 .. Len(s) /\ s[1] = Minus
        /\ \A i \in 2 .. Len(s) : s[i] \in Digit
    <3>1. s \in Bytes /\ Len(s) > 1
      BY <2>2, <2>4 DEF ReadsAs
    <3>2. Len(s) \in Nat /\ DOMAIN s = 1 .. Len(s)
      BY <3>1, BytesType
    <3>3. \A i \in 1 .. Len(s) : IF i <= 1 THEN s[i] = p[i] ELSE s[i] \in Digit
      BY <2>2, <2>4 DEF ReadsAs
    <3> QED BY <2>2, <3>1, <3>2, <3>3
  <2>6. IsNumber(s)
    <3>1. s # << >>
      BY <2>5
    <3>2. \A i \in DOMAIN s : i = 1 \/ i \in 2 .. Len(s)
      BY <2>5
    <3> QED BY <2>5, <3>1, <3>2 DEF IsNumber
  <2>7. Parsed(s)[Len(s)] = Wrap(-n)
    BY <2>4 DEF ReadsAs
  <2>8. Wrap(-Wrap(-n)) = n
    <3>1. CASE n = -MaxInt
      <4>1. -n = MaxInt /\ MaxInt \in Int
        BY <1>1, <3>1
      <4>2. Wrap(MaxInt) = -MaxInt
        BY <4>1, WrapRange
      <4>3. -Wrap(-n) = MaxInt
        BY <1>1, <4>1, <4>2
      <4> QED BY <3>1, <4>2, <4>3
    <3>2. CASE n # -MaxInt
      <4>1. -n \in -MaxInt .. (MaxInt - 1)
        BY <1>1, <1>3, <3>2
      <4>2. Wrap(-n) = -n
        BY <2>1, <4>1, WrapRange
      <4>3. -Wrap(-n) = n
        BY <1>1, <4>2
      <4>4. Wrap(n) = n
        BY <1>1, WrapRange
      <4> QED BY <4>3, <4>4
    <3> QED BY <3>1, <3>2
  <2> QED BY <2>5, <2>6, <2>7, <2>8 DEF ParseIntStrict, s
<1> QED BY <1>1, <1>2, <1>3

(***************************************************************************)
(* The map holds strings, at every step.                                   *)
(***************************************************************************)
LEMMA ParsedInteger ==
    ASSUME NEW s \in Bytes, NEW n \in ParseIntStrict(s)
    PROVE  n \in Int
<1>1. s # << >>
  BY DEF ParseIntStrict, IsNumber
<1>2. Len(s) \in Nat /\ Len(s) \in 0 .. Len(s)
  BY BytesType
<1>3. Parsed(s)[Len(s)] \in Int
  BY <1>2, ParsedSteps
<1>4. \A v \in Int : -v \in Int /\ Wrap(-v) \in -MaxInt .. (MaxInt - 1)
  BY WrapRange
<1> QED BY <1>3, <1>4, RespApiAssumption DEF ParseIntStrict

(* Counters: the new value is a number of the type, and what is stored is  *)
(* its string.                                                             *)
LEMMA Incremented ==
    ASSUME NEW c, NEW k \in Bytes, NEW amount \in Int, Increment(c, k, amount), MapOfStrings(map)
    PROVE  \/ Respond(c, Error, map)
           \/ \E v \in -MaxInt .. (MaxInt - 1) : Respond(c, Integer(v), Put(map, k, IntToString(v)))
<1> DEFINE old == IF k \in DOMAIN map THEN ParseIntStrict(map[k]) ELSE {0}
<1>1. \A n \in old : n \in Int
  BY ParsedInteger DEF MapOfStrings
<1>2. CASE old = {} /\ Respond(c, Error, map)
  BY <1>2
<1>3. CASE \E n \in old : Respond(c, Integer(Wrap(n + amount)), Put(map, k, IntToString(Wrap(n + amount))))
  <2>1. PICK n \in old : Respond(c, Integer(Wrap(n + amount)), Put(map, k, IntToString(Wrap(n + amount))))
    BY <1>3
  <2>2. n + amount \in Int
    BY <1>1
  <2> HIDE DEF old
  <2>3. Wrap(n + amount) \in -MaxInt .. (MaxInt - 1)
    BY <2>2, WrapRange
  <2> QED BY <2>1, <2>3
<1> QED BY <1>2, <1>3 DEF Increment

(* What the counters do, whatever their arguments are.                     *)
LEMMA Counted ==
    ASSUME NEW c \in Commands, OnIncr(c) \/ OnIncrBy(c), MapOfStrings(map)
    PROVE  \/ Respond(c, Error, map)
           \/ /\ HasArg(c, 1) /\ Arg(c, 1) \in Bytes
              /\ \E v \in -MaxInt .. (MaxInt - 1) :
                    Respond(c, Integer(v), Put(map, Arg(c, 1), IntToString(v)))
<1>1. ASSUME HasArg(c, 1) PROVE Arg(c, 1) \in Bytes
  <2>1. 1 \in 1 .. Len(c.args)
    BY <1>1, ArgStrings DEF HasArg, IsArgs
  <2> QED BY <2>1, ArgStrings DEF Arg
<1>2. ASSUME HasArg(c, 2) PROVE Arg(c, 2) \in Bytes
  <2>1. 2 \in 1 .. Len(c.args)
    BY <1>2, ArgStrings DEF HasArg, IsArgs
  <2> QED BY <2>1, ArgStrings DEF Arg
<1>3. CASE OnIncr(c)
  <2>1. Respond(c, Error, map) \/ (HasArg(c, 1) /\ \E a \in {1, -1} : Increment(c, Arg(c, 1), a))
    BY <1>3 DEF OnIncr
  <2>2. \A a \in {1, -1} : a \in Int
    OBVIOUS
  <2> QED BY <1>1, <2>1, <2>2, Incremented
<1>4. CASE OnIncrBy(c)
  <2>1. SUFFICES ASSUME HasArg(c, 1), HasArg(c, 2), NEW n \in ParseIntStrict(Arg(c, 2)),
                        Increment(c, Arg(c, 1), IF c.name = "incrby" THEN n ELSE Wrap(-n))
                 PROVE  \E v \in -MaxInt .. (MaxInt - 1) :
                           \/ Respond(c, Error, map)
                           \/ Respond(c, Integer(v), Put(map, Arg(c, 1), IntToString(v)))
    BY <1>1, <1>4 DEF OnIncrBy
  <2>2. n \in Int /\ -n \in Int
    BY <1>2, <2>1, ParsedInteger
  <2>3. Wrap(-n) \in Int
    BY <2>2, WrapRange, RespApiAssumption
  <2>4. (IF c.name = "incrby" THEN n ELSE Wrap(-n)) \in Int
    BY <2>2, <2>3
  <2>5. 0 \in -MaxInt .. (MaxInt - 1)
    BY RespApiAssumption
  <2> QED BY <1>1, <2>1, <2>4, <2>5, Incremented
<1> QED BY <1>3, <1>4

LEMMA StringsKept ==
    ASSUME NEW c \in Commands, ProcessCommand(c), MapOfStrings(map), FiniteKeys
    PROVE  MapOfStrings(map)'
<1>1. ASSUME NEW r, Respond(c, r, map) \/ Crash(c) PROVE MapOfStrings(map')
  BY <1>1 DEF Respond, Crash
<1>2. ASSUME NEW r, NEW k \in Bytes, NEW v \in Bytes, Respond(c, r, Put(map, k, v)) PROVE MapOfStrings(map')
  BY <1>2, PutStrings DEF Respond
<1>3. IsArgs(c.args) /\ \A i \in 1 .. Len(c.args) : c.args[i].str \in Bytes
  BY ArgStrings
<1>4. CASE OnSimple(c) \/ OnGet(c) \/ OnMGet(c) \/ OnZRange(c)
  BY <1>1, <1>4 DEF OnSimple, OnGet, OnMGet, OnZRange
<1>5. CASE OnSet(c)
  <2>1. Respond(c, Error, map)
        \/ (1 \in 1 .. Len(c.args) /\ 2 \in 1 .. Len(c.args) /\ Respond(c, Ok, Put(map, c.args[1].str, c.args[2].str)))
    BY <1>3, <1>5 DEF OnSet, HasArg, Arg, IsArgs
  <2> QED BY <1>1, <1>2, <1>3, <2>1
<1>6. CASE OnIncr(c) \/ OnIncrBy(c)
  <2>1. \A v \in -MaxInt .. (MaxInt - 1) : IntToString(v) \in Bytes
    BY ReadBack
  <2> QED BY <1>1, <1>2, <1>6, <2>1, Counted
<1>7. CASE OnDel(c)
  <2> DEFINE m == RemoveEach(c.args)[Len(c.args)].m
  <2>1. map' = m
    BY <1>7 DEF OnDel, Respond
  <2>2. m \in Parts \cup {map}
    BY <1>3, RemovedAll DEF Removed, FiniteKeys
  <2>3. DOMAIN m \subseteq DOMAIN map /\ \A k \in DOMAIN m : m[k] = map[k]
    BY <2>2 DEF Parts
  <2> HIDE DEF m
  <2> QED BY <2>1, <2>3 DEF MapOfStrings
<1>8. CASE OnMSet(c)
  <2>1. Crash(c) \/ map' = SetEach(c.args)[Len(c.args) \div 2]
    BY <1>8 DEF OnMSet, Respond
  <2>2. MapOfStrings(SetEach(c.args)[Len(c.args) \div 2])
    BY <1>3, SetEachStrings
  <2> QED BY <1>1, <2>1, <2>2
<1>9. CASE OnZAdd(c)
  <2> DEFINE args == SubSeq(c.args, 2, Len(c.args))
  <2>1. \/ \E r : Respond(c, r, map) \/ Crash(c)
        \/ HasArg(c, 1) /\ map' = AddEach(args)[Len(args)].m
    BY <1>9 DEF OnZAdd, Respond
  <2>2. ASSUME HasArg(c, 1)
        PROVE  IsArgs(args) /\ \A i \in 1 .. Len(args) : args[i].str \in Bytes
    <3>1. Len(c.args) \in Nat /\ Len(c.args) >= 1
      BY <1>3, <2>2 DEF HasArg, IsArgs
    <3>2. IsArgs(args) /\ Len(args) = Len(c.args) - 1
      BY <1>3, <3>1 DEF IsArgs
    <3>3. \A i \in 1 .. (Len(c.args) - 1) : args[i] = c.args[i + 1]
      BY <3>1
    <3> HIDE DEF args
    <3>4. \A i \in 1 .. (Len(c.args) - 1) : i + 1 \in 1 .. Len(c.args)
      BY <3>1
    <3> QED BY <1>3, <3>2, <3>3, <3>4
  <2>3. HasArg(c, 1) => MapOfStrings(AddEach(args)[Len(args)].m)
    <3> HIDE DEF args
    <3> QED BY <2>2, AddEachStrings
  <2> QED BY <1>1, <2>1, <2>3
<1>10. CASE OnFlushAll(c)
  <2>1. map' = << >>
    BY <1>10 DEF OnFlushAll, Respond
  <2> QED BY <2>1 DEF MapOfStrings
<1>11. MapOfStrings(map')
  BY <1>4, <1>5, <1>6, <1>7, <1>8, <1>9, <1>10 DEF ProcessCommand
<1> QED BY <1>11 DEF MapOfStrings

(* ZRANGE answers with keys of the map.                                    *)
LEMMA ScanStep ==
    ASSUME NEW c \in Commands, ProcessCommand(c), MapOfStrings(map), FiniteKeys
    PROVE  ScanInOrder'
<1>1. cmd' = c /\ before' = map
  BY Recorded
<1> SUFFICES ASSUME c.name = "zrange", reply'.type = "array"
             PROVE  LET got == [i \in DOMAIN reply'.arr |-> reply'.arr[i].str]
                        due == {k \in DOMAIN map' : Leq(Tail(Arg(c, 2)), k)}
                    IN  /\ Range(got) \subseteq due
                        /\ \A i, j \in DOMAIN got : i < j => Less(got[i], got[j])
                        /\ \A k \in due \ Range(got) :
                              /\ \A i \in DOMAIN got : Less(got[i], k)
                              /\ {Len(got)} = ParseIntStrict(Arg(c, 7))
  BY <1>1 DEF ScanInOrder, Arg
<1>2. OnZRange(c)
  BY DEF ProcessCommand, OnSimple, OnGet, OnSet, OnDel, OnIncr, OnIncrBy,
         OnMGet, OnMSet, OnZAdd, OnZRange, OnFlushAll
<1>3. Error.type # "array"
  BY ReplyTypes
<1>4. PICK limit \in ParseIntStrict(Arg(c, 7)) :
          /\ ZRangeArgsOk(c)
          /\ Respond(c, Array([i \in DOMAIN ZRange(Tail(Arg(c, 2)), limit) |->
                                   Bulk(ZRange(Tail(Arg(c, 2)), limit)[i])]), map)
  BY <1>2, <1>3 DEF OnZRange, Respond, reply
<1> DEFINE min == Tail(Arg(c, 2))
           keys == ZRange(min, limit)
           S == KeysFrom(min)
           n == Len(keys)
           got == [i \in DOMAIN reply'.arr |-> reply'.arr[i].str]
<1>5. map' = map /\ reply'.arr = [i \in DOMAIN keys |-> Bulk(keys[i])]
  BY <1>4 DEF Respond, reply, Array, Value
<1>6. limit \in Int /\ {limit} = ParseIntStrict(Arg(c, 7))
  <2>1. 7 \in 1 .. Len(c.args)
    <3>1. HasArg(c, 7)
      BY <1>4 DEF ZRangeArgsOk
    <3> QED BY <3>1, ArgStrings DEF HasArg, IsArgs
  <2>2. Arg(c, 7) \in Bytes
    BY <2>1, ArgStrings DEF Arg
  <2>3. limit \in Int
    BY <2>2, ParsedInteger
  <2> QED BY <2>3 DEF ParseIntStrict
<1>7. DOMAIN map \subseteq Bytes
  BY DEF MapOfStrings
<1> HIDE DEF min, keys, S
<1>8. /\ S \in SUBSET Bytes /\ IsFiniteSet(S) /\ n \in 0 .. Cardinality(S)
      /\ DOMAIN keys = 1 .. n
      /\ \A i \in 1 .. n : keys[i] \in S /\ Rank(keys[i], S) = i - 1
      /\ n = Cardinality(S) \/ n = limit
  BY <1>6, <1>7, Scanned DEF S, keys
<1>9. /\ Cardinality(S) \in Nat
      /\ \A k \in S : Rank(k, S) \in 0 .. (Cardinality(S) - 1)
      /\ \A k, l \in S : Less(k, l) <=> Rank(k, S) < Rank(l, S)
      /\ \A k, l \in S : Rank(k, S) = Rank(l, S) => k = l
  BY <1>8, RankOrder
<1>10. n \in Nat
  BY <1>8, <1>9
<1>11. got = [i \in 1 .. n |-> keys[i]]
  BY <1>5, <1>8 DEF Bulk, Value
<1> HIDE DEF got, n
<1>12. DOMAIN got = 1 .. n /\ \A i \in 1 .. n : got[i] = keys[i]
  BY <1>11
<1>13. Len(got) = n
  BY <1>10, <1>11
<1>14. Range(got) \subseteq S
  BY <1>8, <1>12 DEF Range
<1>15. \A i, j \in 1 .. n : i < j => Less(keys[i], keys[j])
  <2> TAKE i, j \in 1 .. n
  <2>1. keys[i] \in S /\ keys[j] \in S /\ Rank(keys[i], S) = i - 1 /\ Rank(keys[j], S) = j - 1
    BY <1>8
  <2>2. i < j => i - 1 < j - 1
    BY <1>10
  <2> QED BY <1>9, <2>1, <2>2
<1>16. ASSUME NEW k \in S \ Range(got)
       PROVE  /\ \A i \in 1 .. n : Less(keys[i], k)
              /\ n = limit
  <2>1. \A i \in 1 .. n : keys[i] # k
    BY <1>12, <1>16 DEF Range
  <2>2. Rank(k, S) \in Nat /\ Rank(k, S) < Cardinality(S)
    BY <1>9, <1>16
  <2>3. ~ (Rank(k, S) < n)
    <3> SUFFICES ASSUME Rank(k, S) < n PROVE FALSE
      OBVIOUS
    <3> DEFINE i == Rank(k, S) + 1
    <3>1. i \in 1 .. n /\ i - 1 = Rank(k, S)
      BY <1>10, <2>2
    <3>2. keys[i] \in S /\ Rank(keys[i], S) = Rank(k, S)
      BY <1>8, <3>1
    <3> HIDE DEF i
    <3> QED BY <1>9, <1>16, <2>1, <3>1, <3>2
  <2>4. \A i \in 1 .. n : Less(keys[i], k)
    <3> TAKE i \in 1 .. n
    <3>1. keys[i] \in S /\ Rank(keys[i], S) = i - 1
      BY <1>8
    <3>2. i - 1 < Rank(k, S)
      BY <1>10, <2>2, <2>3
    <3> QED BY <1>9, <1>16, <3>1, <3>2
  <2>5. n = limit
    BY <1>8, <2>2, <2>3
  <2> QED BY <2>4, <2>5
<1>17. {k \in DOMAIN map' : Leq(Tail(Arg(c, 2)), k)} = S
  BY <1>5 DEF S, KeysFrom, min
<1> SUFFICES /\ Range(got) \subseteq S
             /\ \A i, j \in DOMAIN got : i < j => Less(got[i], got[j])
             /\ \A k \in S \ Range(got) :
                   /\ \A i \in DOMAIN got : Less(got[i], k)
                   /\ {Len(got)} = ParseIntStrict(Arg(c, 7))
  BY <1>17 DEF got
<1> QED BY <1>6, <1>12, <1>13, <1>14, <1>15, <1>16

LEMMA StringsStep ==
    FiniteKeys /\ MapOfStrings(map) /\ [ApiNext]_apiVars => FiniteKeys' /\ MapOfStrings(map)'
<1>1. ASSUME FiniteKeys, MapOfStrings(map), ApiNext PROVE FiniteKeys' /\ MapOfStrings(map)'
  BY <1>1, FiniteKept, StringsKept DEF ApiNext
<1>2. CASE UNCHANGED apiVars
  BY <1>2 DEF apiVars, FiniteKeys, MapOfStrings
<1> QED BY <1>1, <1>2

LEMMA StringsInit == ApiInit => FiniteKeys /\ MapOfStrings(map)
BY FS_EmptySet DEF ApiInit, FiniteKeys, MapOfStrings

(* ZRANGE answers with the smallest keys from min on, in ascending order   *)
(* and without a gap, and stops early only when it has as many as were     *)
(* asked for: the cursor of range_lookupImpl starts at the first key that  *)
(* is not below min, and the callback counts down after it has stored one. *)
THEOREM ScansInOrder == ApiSpec => []ScanInOrder
<1>1. ApiInit => ScanInOrder
  BY DEF ApiInit, ScanInOrder, cmd, Command
<1>2. FiniteKeys /\ MapOfStrings(map) /\ ScanInOrder /\ [ApiNext]_apiVars => ScanInOrder'
  <2>1. ASSUME FiniteKeys, MapOfStrings(map), ApiNext PROVE ScanInOrder'
    BY <2>1, ScanStep DEF ApiNext
  <2>2. CASE UNCHANGED apiVars
    BY <2>2 DEF apiVars, ScanInOrder, reply, cmd, before
  <2> QED BY <2>1, <2>2
<1> QED BY <1>1, <1>2, StringsInit, StringsStep, PTL DEF ApiSpec

LEMMA CounterStep ==
    ASSUME NEW c \in Commands, ProcessCommand(c), MapOfStrings(map)
    PROVE  CountersReadBack'
<1>1. cmd' = c /\ before' = map
  BY Recorded
<1> SUFFICES ASSUME c.name \in Counting, reply'.type = "integer"
             PROVE  /\ ParseIntStrict(map'[Arg(c, 1)]) = {reply'.num}
                    /\ \A k \in DOMAIN map \ {Arg(c, 1)} : map'[k] = map[k]
  BY <1>1 DEF CountersReadBack, Arg
<1>2. OnIncr(c) \/ OnIncrBy(c)
  BY DEF Counting, ProcessCommand, OnSimple, OnGet, OnSet, OnDel, OnIncr, OnIncrBy,
         OnMGet, OnMSet, OnZAdd, OnZRange, OnFlushAll
<1>3. ~ Respond(c, Error, map)
  BY ReplyTypes DEF Respond, reply
<1>4. PICK v \in -MaxInt .. (MaxInt - 1) : Respond(c, Integer(v), Put(map, Arg(c, 1), IntToString(v)))
  BY <1>2, <1>3, Counted
<1>5. map' = Put(map, Arg(c, 1), IntToString(v)) /\ reply' = Integer(v)
  BY <1>4 DEF Respond, reply
<1>6. map'[Arg(c, 1)] = IntToString(v) /\ \A k \in DOMAIN map \ {Arg(c, 1)} : map'[k] = map[k]
  BY <1>5 DEF Put
<1>7. reply'.num = v
  BY <1>5, ReplyTypes
<1> QED BY <1>6, <1>7, ReadBack

(* What INCR and its kin answer is what the stored string reads as, at     *)
(* both ends of the integer range, and no other key is touched: the sum    *)
(* wraps in the type, std::to_string writes it, parseIntStrict builds the  *)
(* same number from the digits, and the least integer, whose magnitude     *)
(* does not fit the type, comes back because negation wraps as well.       *)
THEOREM CountersComeBack == ApiSpec => []CountersReadBack
<1>1. ApiInit => CountersReadBack
  BY DEF ApiInit, CountersReadBack, Counting, cmd, Command
<1>2. FiniteKeys /\ MapOfStrings(map) /\ CountersReadBack /\ [ApiNext]_apiVars => CountersReadBack'
  <2>1. ASSUME MapOfStrings(map), ApiNext PROVE CountersReadBack'
    BY <2>1, CounterStep DEF ApiNext
  <2>2. CASE UNCHANGED apiVars
    BY <2>2 DEF apiVars, CountersReadBack, reply, cmd, before, Arg
  <2> QED BY <2>1, <2>2
<1> QED BY <1>1, <1>2, StringsInit, StringsStep, PTL DEF ApiSpec
=============================================================================
