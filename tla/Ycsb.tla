-------------------------------- MODULE Ycsb --------------------------------
(***************************************************************************)
(* The benchmark driver ycsb2 against the server: the workloads C, D, E,   *)
(* sorted insert, sorted scan, multi and memory as programs that send      *)
(* commands, one after the other, to RespApi.  A workload checks its       *)
(* configuration, loads keys, and then draws keys and operations from two  *)
(* generators that are refilled when they are used up.                     *)
(*                                                                         *)
(* Every place of a refilled generator array is read once, so that its     *)
(* value is chosen when it is read.  Timers and printed results are left   *)
(* out, and so is DRYRUN, which sends no commands.                         *)
(***************************************************************************)
EXTENDS RespApi

CONSTANTS Configs,      \* variant, key and op counts, batch sizes, zipf, the keys of the data set
          GenSize,      \* places of zipf_next's array: 2^18
          OpGenSize,    \* places of op_next's array: 5 * 2^18
          InsertShare,  \* one operation of so many is an insertion: 20
          MaxScan       \* the longest scan

ASSUME YcsbAssumption ==
    /\ \A c \in Configs : {c.keyCount, c.keyBatch, c.opBatch} \subseteq Nat \ {0}
    /\ {GenSize, OpGenSize, InsertShare, MaxScan} \subseteq Nat \ {0}

VARIABLES cfg,          \* the options
          data,         \* the keys, in the order they are used in
          pc,           \* where the workload is
          loadCount,    \* keys loaded before the measurement
          maxKeys,      \* reasonableMaxKeys
          next,         \* keys sent so far; insertedCount
          left,         \* operations that are left
          want, batch,  \* keys to draw for the next request, and the ones drawn
          zipf,         \* zipf_next's index and generatedNumKeys
          opgen         \* op_next's index and the insertions left in its array

workload  == <<cfg, data, loadCount, maxKeys>>
driverVars == <<apiVars, workload, pc, next, left, want, batch, zipf, opgen>>

NUL     == -1           \* a byte below all that RespApi has a code for
PAYLOAD == <<Letter, Letter>>

(* What "%s" makes of key.c_str().                                         *)
CString(k) ==
    IF \E i \in DOMAIN k : k[i] = NUL
    THEN SubSeq(k, 1, Min({i \in DOMAIN k : k[i] = NUL}) - 1) ELSE k

ByBatch  == {"C", "memory", "scan"}
Growing  == {"D", "E"}

(* A key as the load sends it: through run(args) with its length, through  *)
(* a format as a C string.                                                 *)
Sent(k) == IF cfg.variant \in ByBatch THEN k ELSE CString(k)

(***************************************************************************)
(* Configuration.                                                          *)
(***************************************************************************)
(* computeInitialKeyCount: keys before the first operation, and how many   *)
(* there may be after the last.                                            *)
ComputeInitialKeyCount(avg, available, ops) ==
    LET initial == avg - ops \div (2 * InsertShare)
        most    == initial + (ops \div InsertShare) * 2
    IN  [valid |-> avg > ops \div (2 * InsertShare) /\ most <= available,
         initial |-> initial, most |-> most]

(* What a workload makes of the data: D and E shuffle all of it; sorted    *)
(* insert keeps the first n keys and, as variant 401, sorts them; the      *)
(* others shuffle before they cut.                                         *)
Arrangements(keys, n) ==
    CASE cfg.variant \in Growing    -> SetToSeqs(Range(keys))
      [] cfg.variant = "sorted"     -> {SortSeq(SubSeq(keys, 1, n), Less)}
      [] cfg.variant = "presorted"  -> {SubSeq(keys, 1, n)}
      [] OTHER                      -> {SubSeq(s, 1, n) : s \in SetToSeqs(Range(keys))}

(* A key too long for a page clears the data and leaves a key count of 1,  *)
(* "this forces the key count check to fail".                              *)
KeyCount == IF cfg.fits THEN cfg.keyCount ELSE 1
KeySet   == IF cfg.fits THEN cfg.keys ELSE << >>

Configure ==
    LET init  == ComputeInitialKeyCount(KeyCount, Len(KeySet), cfg.opCount)
        valid == IF cfg.variant \in Growing THEN init.valid ELSE KeyCount <= Len(KeySet)
    IN  /\ pc = "start"
        /\ ProcessCommand(Command("flushall", << >>))
        /\ loadCount' = (CASE ~valid -> 0 [] cfg.variant \in Growing -> init.initial [] OTHER -> KeyCount)
        /\ maxKeys' = (IF valid /\ cfg.variant \in Growing THEN init.most ELSE loadCount')
        /\ left' = (IF valid THEN cfg.opCount ELSE 0)
        /\ data' \in IF valid THEN Arrangements(KeySet, loadCount') ELSE {<< >>}
        /\ pc' = "load"
        /\ UNCHANGED <<cfg, next, want, batch, zipf, opgen>>

(***************************************************************************)
(* Requests.  A reply that is an error, or a read that misses, throws.     *)
(***************************************************************************)
Hit(r)  == r.type = "bulk" /\ r.str = PAYLOAD
Fails   == ~alive' \/ last'.reply.type = "error"
ThenAt(where) == pc' = IF Fails THEN "threw" ELSE where

Strings(keys) == [i \in DOMAIN keys |-> Bulk(keys[i])]
Interleaved(a, b) == FlattenSeq([i \in DOMAIN b |-> <<a[i], b[i]>>])

MSetArgs(keys) == Interleaved(Strings(keys), [i \in DOMAIN keys |-> Bulk(PAYLOAD)])
ZAddArgs(keys) == <<Bulk(ROOT)>> \o Interleaved([i \in DOMAIN keys |-> Bulk(ZERO)], Strings(keys))
ZRangeFrom(min, n) ==
    Command("zrange", <<Bulk(ROOT), Bulk(<<Bracket>> \o min), Bulk(PLUS), Bulk(BYLEX), Bulk(LIMIT),
                        Bulk(ZERO), Bulk(IntToString(n))>>)

(* mutant: only whole batches are sent.                                    *)
BatchEndMut(from, size, count) == IF from + size > count THEN from ELSE from + size

BatchEnd(from, size, count) == IF from + size > count THEN count ELSE from + size

LoadBatch ==
    LET end  == BatchEnd(next, cfg.keyBatch, loadCount)
        keys == SubSeq(data, next + 1, end)
    IN  /\ pc = "load" /\ cfg.variant \in ByBatch /\ next < loadCount
        /\ ProcessCommand(IF cfg.variant = "scan" THEN Command("zadd", ZAddArgs(keys))
                                                  ELSE Command("mset", MSetArgs(keys)))
        /\ next' = next + cfg.keyBatch
        /\ ThenAt("load")
        /\ UNCHANGED <<workload, left, want, batch, zipf, opgen>>

SendSet == ProcessCommand(Command("set", <<Bulk(CString(data[next + 1])), Bulk(PAYLOAD)>>))

LoadOne ==
    /\ pc = "load" /\ cfg.variant \notin ByBatch /\ next < loadCount
    /\ SendSet
    /\ next' = next + 1
    /\ ThenAt("load")
    /\ UNCHANGED <<workload, left, want, batch, zipf, opgen>>

AfterLoad ==
    CASE cfg.variant = "C"      -> "rehash"
      [] cfg.variant = "memory" -> "measure"
      [] cfg.variant = "scan"   -> "scanall"
      [] cfg.variant \in {"sorted", "presorted"} -> "done"
      [] OTHER                  -> "ops"

LoadDone ==
    /\ pc = "load" /\ next >= loadCount
    /\ pc' = AfterLoad
    /\ next' = IF cfg.variant = "C" THEN 0 ELSE loadCount
    /\ UNCHANGED <<apiVars, workload, left, want, batch, zipf, opgen>>

(* Workload C reads every key once, in batches.                            *)
Rehash ==
    /\ pc = "rehash" /\ next < loadCount
    /\ ProcessCommand(Command("mget",
           Strings(SubSeq(data, next + 1, BatchEnd(next, cfg.keyBatch, loadCount)))))
    /\ next' = next + cfg.keyBatch
    /\ ThenAt("rehash")
    /\ UNCHANGED <<workload, left, want, batch, zipf, opgen>>

RehashDone ==
    /\ pc = "rehash" /\ next >= loadCount
    /\ pc' = "ops" /\ next' = loadCount
    /\ UNCHANGED <<apiVars, workload, left, want, batch, zipf, opgen>>

Measure ==
    /\ pc = "measure"
    /\ ProcessCommand(Command("info", << >>))
    /\ pc' = (IF last'.reply.type = "bulk" THEN "done" ELSE "threw")
    /\ UNCHANGED <<workload, next, left, want, batch, zipf, opgen>>

ScanAll ==
    /\ pc = "scanall"
    /\ ProcessCommand(ZRangeFrom(<< >>, MaxInt - 1))
    /\ ThenAt("ops")
    /\ UNCHANGED <<workload, next, left, want, batch, zipf, opgen>>

(***************************************************************************)
(* Operations.                                                             *)
(***************************************************************************)
OpsDone ==
    /\ pc = "ops" /\ left <= 0
    /\ pc' = "done"
    /\ UNCHANGED <<apiVars, workload, next, left, want, batch, zipf, opgen>>

(* A batch of reads (C, scan) or a single one (multi).                     *)
BeginReads ==
    LET size == IF cfg.variant = "multi" THEN 1 ELSE cfg.opBatch
    IN  /\ pc = "ops" /\ left > 0 /\ cfg.variant \notin Growing
        /\ want' = (IF left < size THEN left ELSE size)
        /\ left' = left - size
        /\ pc' = "draw"
        /\ UNCHANGED <<apiVars, workload, next, batch, zipf, opgen>>

(* op_next: the array holds as many insertions as its share, in any order. *)
OpNext(insertion) ==
    LET i     == (opgen.index + 1) % OpGenSize
        trues == IF i = 0 THEN OpGenSize \div InsertShare ELSE opgen.trues
    IN  /\ IF insertion THEN trues > 0 ELSE OpGenSize - i > trues
        /\ opgen' = [index |-> i, trues |-> IF insertion THEN trues - 1 ELSE trues]

Exhausted == next = (IF cfg.variant = "D" THEN Len(data) ELSE maxKeys)

InsertOp ==
    /\ pc = "ops" /\ left > 0 /\ cfg.variant \in Growing /\ ~Exhausted
    /\ OpNext(TRUE)
    /\ SendSet
    /\ next' = next + 1
    /\ left' = left - 1
    /\ ThenAt("ops")
    /\ UNCHANGED <<workload, want, batch, zipf>>

(* "exhausted keys for insertion"                                          *)
InsertAborts ==
    /\ pc = "ops" /\ left > 0 /\ cfg.variant \in Growing /\ Exhausted
    /\ OpNext(TRUE)
    /\ pc' = "abort"
    /\ UNCHANGED <<apiVars, workload, next, left, want, batch, zipf>>

(* A read of D; E looks for a key to scan from and never stops looking:    *)
(* the scan and the break after it are a comment.                          *)
ReadOp ==
    /\ pc = "ops" /\ left > 0 /\ cfg.variant \in Growing
    /\ OpNext(FALSE)
    /\ want' = 1
    /\ left' = left - 1
    /\ pc' = (IF cfg.variant = "D" THEN "draw" ELSE "spin")
    /\ UNCHANGED <<apiVars, workload, next, batch, zipf>>

(* mutant: uniform numbers are 1 .. n as well.                             *)
SamplesMut(n) == 1 .. n

(* zipf_generate (zipfc): uniform numbers start with 0, zipf ones with 1.  *)
Samples(n) == IF cfg.zipf THEN 1 .. n ELSE 0 .. (n - 1)

NumKeys == IF cfg.variant = "E" THEN maxKeys ELSE next
Over    == IF cfg.variant \in Growing THEN GenSize \div 10 ELSE 0

(* One iteration of zipf_next: the array is refilled at its end, or when   *)
(* there are more keys than it was made for.                               *)
ZipfNext ==
    LET i == IF NumKeys > zipf.gen THEN 0 ELSE (zipf.index + 1) % GenSize
    IN  [index |-> i, gen |-> IF i = 0 THEN NumKeys + Over ELSE zipf.gen]

(* mutant: D counts back from the end of the data.                         *)
DrawnKeyMut(sample) ==
    data[IF cfg.variant = "D" THEN Len(data) - sample ELSE sample + 1]

(* D prefers the keys inserted last.                                       *)
DrawnKey(sample) ==
    data[IF cfg.variant = "D" THEN next - sample ELSE sample + 1]

DrawRejected ==
    /\ pc = "draw" /\ Len(batch) < want
    /\ zipf' = ZipfNext
    /\ \E s \in Samples(zipf'.gen) : s >= NumKeys
    /\ UNCHANGED <<apiVars, workload, pc, next, left, want, batch, opgen>>

DrawAccepted ==
    /\ pc = "draw" /\ Len(batch) < want
    /\ zipf' = ZipfNext
    /\ \E s \in Samples(zipf'.gen) : s < NumKeys /\ batch' = Append(batch, DrawnKey(s))
    /\ UNCHANGED <<apiVars, workload, pc, next, left, want, opgen>>

(* E draws on and on.                                                      *)
Spin ==
    /\ pc = "spin"
    /\ zipf' = ZipfNext
    /\ UNCHANGED <<apiVars, workload, pc, next, left, want, batch, opgen>>

Drawn == pc = "draw" /\ Len(batch) = want

ReadBatch ==
    /\ Drawn /\ cfg.variant = "C"
    /\ ProcessCommand(Command("mget", Strings(batch)))
    /\ pc' = (IF alive' /\ \A i \in DOMAIN last'.reply.arr : Hit(last'.reply.arr[i]) THEN "ops" ELSE "threw")
    /\ batch' = << >>
    /\ UNCHANGED <<workload, next, left, want, zipf, opgen>>

ReadOne ==
    /\ Drawn /\ cfg.variant \in {"D", "multi"}
    /\ ProcessCommand(Command("get", <<Bulk(CString(batch[1]))>>))
    /\ pc' = (IF alive' /\ Hit(last'.reply) THEN "ops" ELSE "threw")
    /\ batch' = << >>
    /\ UNCHANGED <<workload, next, left, want, zipf, opgen>>

(* The scans of a batch, queued together, are answered in order            *)
(* (RespServer); their lengths are random.                                 *)
ScanFrom ==
    /\ Drawn \/ pc = "scans"
    /\ cfg.variant = "scan"
    /\ \E scanLength \in 1 .. MaxScan : ProcessCommand(ZRangeFrom(CString(batch[1]), scanLength))
    /\ batch' = Tail(batch)
    /\ ThenAt(IF Len(batch) > 1 THEN "scans" ELSE "ops")
    /\ UNCHANGED <<workload, next, left, want, zipf, opgen>>

-----------------------------------------------------------------------------
YcsbInit ==
    /\ ApiInit
    /\ cfg \in Configs
    /\ data = << >> /\ pc = "start"
    /\ loadCount = 0 /\ maxKeys = 0 /\ next = 0 /\ left = 0
    /\ want = 0 /\ batch = << >>
    /\ zipf = [index |-> GenSize - 1, gen |-> 0]
    /\ opgen = [index |-> OpGenSize - 1, trues |-> 0]

YcsbStep ==
    \/ Configure
    \/ LoadBatch \/ LoadOne \/ LoadDone
    \/ Rehash \/ RehashDone \/ Measure \/ ScanAll
    \/ OpsDone \/ BeginReads \/ InsertOp \/ InsertAborts \/ ReadOp
    \/ DrawRejected \/ DrawAccepted \/ Spin
    \/ ReadBatch \/ ReadOne \/ ScanFrom

Ended == pc \in {"done", "threw", "abort"} /\ UNCHANGED driverVars

YcsbSpec == YcsbInit /\ [][YcsbStep \/ Ended]_driverVars

(* The program runs on, and a random sample that can be accepted is not    *)
(* rejected for ever.                                                      *)
FairYcsbSpec == YcsbSpec /\ WF_driverVars(YcsbStep) /\ SF_driverVars(DrawAccepted)

-----------------------------------------------------------------------------
(***************************************************************************)
(* Properties.                                                             *)
(***************************************************************************)
(* The store holds the keys that the driver counts as inserted, in the     *)
(* form in which they were sent, and no others: batches leave none out at  *)
(* the end, and no key is taken from behind the end of the data.           *)
LoadComplete ==
    pc \in {"measure", "scanall", "ops", "draw", "scans", "done"} =>
        /\ next <= Len(data)
        /\ DOMAIN map = {Sent(data[i]) : i \in 1 .. next}

(* Every read finds the payload, so that no workload throws; MGET would    *)
(* even end the server at a key that is missing.  Keys are drawn among     *)
(* those that exist at that moment, whatever the array was generated for.  *)
ReadsHit == pc # "threw" /\ alive

(* A workload comes to an end, or aborts for want of keys to insert, with  *)
(* two exceptions: E, once it has drawn an operation that is a scan, and a *)
(* zipf draw among one key, as no zipf sample is 0.                        *)
Finishes ==
    <>[](pc \in {"done", "abort", "spin"} \/ (pc = "draw" /\ cfg.zipf /\ next = 1))

=============================================================================
