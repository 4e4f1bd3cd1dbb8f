# TLA+ models of btree_redis

A Redis-compatible server whose store is an in-memory B-tree with prefix
truncation, a client library and a benchmark driver. This directory holds TLA+
models of them, the TLC configurations that check them on small instances and
TLAPS proofs that hold for all instances.

## The system

| part | state | operations | talks to |
| --- | --- | --- | --- |
| `BTree` (`libbtree/src/btree2020.cpp`) | the root pointer | `insertImpl`, `removeImpl`, `lookupImpl`, `range_lookupImpl`, `range_lookup_descImpl`, `clearImpl`; internally `splitNode`, `ensureSpace` | pages through `AnyNode` |
| `BTreeNode` (same file, `btree2020.hpp`) | one page: fences, prefix length, slot array, heap of keys and payloads, hint array | `lowerBound`, `insert`, `remove`, `findSeparator`, `splitNode`, `mergeNodes`, `compactify`, `range_lookup(_desc)` | its parent page in a split or merge |
| `AnyNode` (`anynode.cpp`) | the page tag | dispatch, allocation, `makeRoot`, `splitNodeWithParent` | every page kind |
| `DenseNode` (`dense.cpp`) | array of values indexed by the last bytes of the key, a mask of the ones present | insert, remove, scan, split, conversion to and from a basic leaf | basic leaf, parent |
| `HashNode` (`hash.cpp`), `HeadNode4/8` (`head.hpp`) | alternative leaf and inner layouts, off in `config.hpp` | as above | |
| `RangeOpCounter` (`btree2020.hpp`) | adaptation counter, off in `config.hpp` | `range_op`, `point_op` | leaves |
| `DataStructureWrapper` | in builds with assertions, a `std::map` beside the tree | the same calls, compared by assertions (which fail wrongly for some descending scans, see Deviations) | `BTree` |
| `api_impl` | none (the tree) | `get`, `set`, `del`, `exists`, `increment`, `mget`, `mset`, `zadd`, `zrange`, `flushAll` | `BTree` |
| `resp_api`, `resp_command_context`, `arg_parsing` | command table | one handler per command | `api_impl`, connection |
| `resp_connection`, (de)serializer, types | read and write buffers | `run`, `readCommand`, `send`, `flush` | the socket |
| `main` | the accept loop | serves one connection after the other | |
| `redis_client` | a hiredis context | `run`, `appendRun`, `getReply` | the server |
| `ycsb2`, `zipfc` | the data set, two generators of random numbers | workloads C, D, E, sorted insert, sorted scan, multi, memory; `zipf_next`, `op_next` | `redis_client` |

The store is single-threaded: there is no lock anywhere and the server runs one
connection at a time. What is hard is

- *sequences*: an operation is correct only if earlier splits, merges, conversions
  and restarts left every page consistent with its neighbours. A wrong fence is
  harmless until another operation, much later, skips a prefix it should have
  compared;
- *sizes*: does a page still hold what a split, a merge or a conversion puts into
  it, is `spaceUsed` still the space that is used, does an index stay in its array;
- *ends*: does an insert that keeps splitting ever end, does everyone who waits get
  served, do client and server ever wait for one another;
- *failure half way*: commands that fail after part of their work, connections that
  end in the middle of a command or before its answer.

What makes each part correct:

- tree and pages: the tree is a map; each page is searchable; fences of parent
  and child agree; every key belongs to one leaf; a search key has the prefix its
  page leaves out; pages fit; no page is lost; an operation ends; the process
  dies only when a caller inserts a key that is present;
- server: a command changes what its Redis namesake changes and nothing else, a
  failing command changes nothing, each command gets one reply, in order, and takes
  effect at most once, and no client can end the server by leaving;
- driver: the store holds what the driver believes it has loaded, every read hits,
  every workload ends.

`PROJECT.json` lists the components with their status and, under `hazards`, each
place that is hard to test with the properties that watch it.

## Modules

| module | models |
| --- | --- |
| `KeyOrder` | byte strings: the order `lowerBound` compares by, prefixes, common prefix length, fences (an empty fence is no bound), the number that some bytes of a key make |
| `KVStore` | the abstract specification: a map with calls that take effect in one step, scans as ordered excerpts, duplicates that end the process |
| `BTree`, `MCBTree` | a tree of basic pages, the operations as a state machine; key sets, payload sizes and workloads for TLC |
| `CheckedTree`, `MCCheckedTree` | `DataStructureWrapper` of a build with assertions: `BTree` beside a `std::map`, with the assertions that compare them |
| `SlottedPages`, `MCSlottedPages` | the bytes of those pages, in step with `BTree`: heap, offsets, accounting, heads and hints |
| `DenseTree`, `MCDenseTree` | the tree with dense leaves, as the default configuration builds it |
| `RespApi`, `MCRespApi` | the commands of the server over the map the tree implements: `resp_api`, `resp_command_context`, `api_impl`, `arg_parsing` |
| `RespServer`, `MCRespServer` | accept loop, connection, reader and clients, composed with `RespApi` |
| `RespCodec`, `MCRespCodec` | the bytes of the protocol: `resp_serializer` and `resp_deserializer` |
| `Ycsb`, `MCYcsb` | the workloads of the benchmark driver, composed with `RespApi` |
| `KeyOrderProofs` | the order is a strict total order; a key between two fences shares their common prefix |
| `BTreeProofs` | the inductive invariant of `BTree` and its consequences |
| `BTreeRefinement` | proof that `BTree` implements `KVStore` |
| `BTreeSpace` | proofs about the resources of `BTree`: records fit into pages, no page is lost |
| `SlottedProofs` | the inductive invariant of the bytes: each page's memory holds the page, and searches in it find what they should |
| `RespApiProofs` | proofs about what the commands do to the map |
| `DenseProofs` | proofs about the tree with dense leaves |
| `RespServerProofs` | proofs that the reader takes whole messages off the stream, and that every client is answered in order |

The chain from bytes to answers: `SlottedPages` shows that the memory of a page
holds the page `BTree` reasons about; `BTree` (and `DenseTree`) refine `KVStore`;
`RespApi` uses the map of `KVStore`; `RespServer` and `Ycsb` use the handlers of
`RespApi`; `RespCodec` is the reader and writer that `RespServer` abstracts to pieces.

### `BTree`

A page is a record of its fences, its slots in key order and, for an inner page,
`up`, the child right of the last separator (`upper` in the code). `page` maps the
allocated page addresses to pages; a pointer is a page address. Slots and
positions count from 1, so `LowerBound` is the code's `lowerBound` plus one and
`WindowLow` is `lower` plus one.

Bytes are accounted for as in the code: header, slot array, both fences, keys
without the page's prefix, payloads. `requestSpaceFor` compacts a page exactly when
the gap is too small and the compacted page is not, so `RequestSpaceFor` compares
with the space after compaction, and `LowerBound` states the result of the search;
`SlottedPages` has the heap, the heads and the hints.

The variables `node`, `parent`, `pos`, `skey`, `toSplit` are the local variables
of the loops, `pc` says which loop runs:

| action | code |
| --- | --- |
| `Call` | an operation is entered; inserts obey the size precondition of `insertImpl` |
| `Descend` | one iteration of `while (node->isAnyInner())` |
| `LeafLookup` | the leaf case of `lookupImpl` |
| `LeafInsert`, `LeafInsertFound`, `LeafInsertFull` | `BTreeNode::insert`: stored, `abort()`, no room |
| `MakeRoot`, `SplitNode`, `SplitDies`, `EnsureSpace` | the cases of `BTree::splitNode` and `splitNodeWithParent`; `SplitNode` also starts the insert over |
| `EnsureStep`, `EnsureFound` | `ensureSpace`: the second walk, and the split of `toSplit` wherever it ended |
| `RemoveMiss`, `RemoveOnly`, `RemoveAndMerge` | the leaf case of `removeImpl` |
| `ScanUp`, `ScanDown` | one leaf of a scan, and the restart from the root with the leaf's fence |
| `Clear` | `clearImpl` |

A failing assertion or `abort()` sets `pc` to `"assert"` or `"abort"` and nothing
follows. The assertions of `splitNode`, `findSeparator` and `copyKeyValueRange`
are part of `SplitChecks`, in the order the code reaches them. Only leaves are
merged: `removeImpl` never calls `mergeNodes` on inner pages, so that its branch for
them is dead code and has no action.

### `CheckedTree`

Each step of `BTree` is conjoined with what `DataStructureWrapper` does in it: `CheckedCall`
puts the record of an insert into `std_map` before the tree sees it, `CheckedClear` empties
it, `LookupChecked` and `RemoveChecked` compare the answer, `ScanUpChecked` and
`ScanDownChecked` compare the records that the tree passes on with the way of the iterator
over the map. That map does not change during a scan, so the iterator is the sequence of
records it visits: `StdUpwards` begins at `lower_bound`, `StdDownwards` where the code sets
its iterator. A comparison that fails puts the call into `failed` and the process ends; the
tree's own step is still taken, so that the properties of `BTree` see its answer.

### `SlottedPages`

`heap` gives each page of `BTree` its memory: slots that grow from the front, a heap
that grows from the back, `spaceUsed`, `dataOffset`, prefix length, heads and hints. Every step of `BTree` that changes a page is conjoined
with what the code does to the bytes: `InsertBytes`, `MakeRootBytes`, `SplitBytes`,
`RemoveBytes`, `MergeBytes`, `ClearBytes`; the other steps (`Looking`) leave them
alone. Both sides are computed independently, the one from records, the other from
bytes, so that `HeapShowsPages` and `SearchAgrees` compare two translations of the
same code; the tree `BTree` proves things about is the tree in memory as far as these
hold, which `SlottedProofs` proves. Bytes are bytes of keys or tokens for byte `j` of a
payload or pointer. The head of a key is the number its first bytes make (`NumberOf`
of `KeyOrder`); the number, the copy loop and the binary search are recursive functions
(`Digits`, `CopyEach`, `BinarySearch`), one argument per turn of the loop, so that they
can be proved about.

### `DenseTree`

`Step` of `BTree` handles basic pages; the actions of `DenseTree` handle a page whose
tag is dense. A dense page has fences, key length, payload length, `arrayStart`, a
slot count and the payloads present; `View` shows it as the basic leaf with the same
records (`Shown`), for the properties. Numeric parts are computed modulo `NumericLimit`, as
the 32 bits of the code are. Powers, shifts, the bytes of a number and the loop that copies
records (`CopyRecords`) are recursive functions, so that they can be proved about. Turning a page from one layout into the other leaves the
operation where it is, as the calls in the code do. `split_to_self` is not
initialised on one path and is a choice there. An insert of a present key overwrites
on a dense page, where a basic one aborts. `pc = "fault"` is an access outside the
page or through a null pointer.

### `RespApi`

One action per handler, named after it (`OnDel` is `onDel` and `onExists`, which do
the same to the tree; `OnIncr` and `OnIncrBy` also stand for the decrements). A
handler runs to its end before the next command is read, so it is one step. `map`
is the content of the tree: `BTree` refines `KVStore`, so `removeImpl` followed by
`insertImpl` is `Put`. `last` is history: the command, the map before it, the answer.

Strings are sequences of character codes in ASCII order, because INCR and ZRANGE
look inside them: digits, the minus sign, the bracket, a letter. The words ZADD and
ZRANGE compare with (`$ROOT$`, `BYLEX`, `+`, `LIMIT`) are one code each. Integers are
`-MaxInt .. MaxInt - 1` and wrap, as the compiled `int64_t` arithmetic does. An
argument may be a bulk string, another string or no string; a null string that is
used ends the process (`alive`), one that is only bound to a reference (the odd last
argument of MSET) does not. Records above `maxKVSize` and the aborts of the tree are
the business of `BTree`.

### `RespServer`

The server is one thread: `Accept`, then reading (`ReadHead`, `ReadScalar`,
`EndInner` for the end of a nested array), `Execute` for a whole command, `Flush` for
its answer. Reads block while the stream is empty and writes while the socket is
full (`UpCap`, `DownCap`). `ReadEof` and `FlushFails` are `connection_closed`, which
`run` catches; `ReadFails` is any other exception, which ends the process. A client
queues a batch (`AppendRun`), writes it (`WritePiece`), fetches the answers
(`GetReply`), and may disappear at any moment (`Close`), whereupon any end of what it
wrote and all answers under way are lost. hiredis is external and modelled as
`redis_client` uses it: it writes what is queued, blocking, before it reads. `sent`,
`done` and `received` are history.

`Sendable` and `Answerable` (assumption `RespServerAssumption`) say which messages the
clients send: pieces that are one value of the protocol, or one that the reader gives
up on at its last piece; a command whose arguments the handlers can use. They are stated
with `Reads`, the reader's steps on that message alone, and hold for everything
`redis_client` can format (`CommandsAreSendable`). The loops of DEL, MSET, ZADD and MGET
in `RespApi` are recursive functions over the argument index, so that the proofs can
follow them one round at a time.

### `RespCodec`

`Arrive` delivers one byte, `Read` takes what the reader asked for as soon as it is
there. The recursion over arrays is a stack of arrays with the values they still
lack; `WriteValue` is a RECURSIVE operator, so that this module has no theorems.

### `Ycsb`

One action per section of a workload's loop: `Configure`, the loads, `Rehash`, the
measured loop with its draws, reads and insertions. A number of a refilled generator
array is chosen when it is read, as every place is read once. `DrawRejected` is an
iteration of `zipf_next` that finds a number that is too large. The FLUSHALL of
`main` and the one of the workload are one step, as nothing happens between them. Keys that go through a
format are cut at their first NUL byte (`CString`). Left out: `DRYRUN`, timers, the
reading of options and data files, `generate_rng4` and `generate_rng8`.

## Runs

Sizes of pages are scaled down: header, slot and pointer cost one byte each, and a
page has 17 to 34 bytes, so that three or four records fill it, as the largest
records allowed do with a real page of 4096. `SepWindow` is the 16 of `findSeparator`;
the instances use 5, so that the window of a full model page has more than one
slot. `PageId` has 16 or 32 addresses; no instance runs out of them.

| run | instance | what it shows |
| --- | --- | --- |
| `tall` | 17 keys of one and two bytes loaded in descending order, then any two operations on 6 keys, with fairness | a tree of three levels with full inner pages, so that `ensureSpace` and inner splits happen; tree and descent properties, no leak, every operation ends, the refinement of `KVStore` |
| `short` | 5 keys that are prefixes of one another, payloads of 0 and 3 bytes, any sequence of calls of any length, through `DataStructureWrapper` | splits, merges, empty leaves, truncated separators, duplicates; the refinement for all call sequences; the wrapper's assertions fail for descending scans from outside the stored keys and for nothing else |
| `slotted` | 32 operations that build two levels of inner pages, then any 3; 2 hints (16 in the code), heads of 1 byte (4), payloads of 0 and 2 bytes | heap and accounting sound, bytes show pages, search finds what it should |
| `dense` | two-byte keys whose numeric part is the whole key, two keys of one byte, payloads of two lengths; three-byte keys of which the array stands for two, in several dense leaves, and numeric parts up to the largest, but no boundary beyond it; after one of four loads, any 2 or 3 operations, with fairness | dense pages fill, are split behind their array, meet keys and payloads of other lengths, are converted back and merged; arrays sound, keys within fences, parent and child agree, the sums that decide over conversions suffice unless the new payload is shorter, the tree is a map while the process lives, operations end |
| `commands` | 2 keys, one a prefix of the other, every handler with good, missing, repeated and ill-typed arguments, `MaxInt` 12 | answers and map agree for every reachable map |
| `wire` | 2 connections with 2 batches each out of six: two increments, nested and empty arrays, a value that is no command, garbage, MGET; `UpCap` 3, `DownCap` 2; clients vanish at any moment | commands whole and in order, increments once, the server outlives its clients, everyone is served, batches are answered |
| `codec` | one or two values: strings with protocol bytes inside, empty and nested arrays, integers at both ends, then bytes that are no value | the reader gets what the writer wrote and never waits for more |
| `ycsb` | every workload on up to five keys: batches that do not divide the counts, too few keys, a single key, a key too long, keys with NUL bytes, any samples; generator arrays of 10 and 6 numbers (2^18 and 5 * 2^18), one insertion in 3 (20) | loads complete, reads hit, workloads end, but for the two exceptions named below |
| `dies` | the keys of `short` with records of `maxKVSize`, `BTree` alone | **expected violation** of `DiesOnlyOnDuplicate`, see below |
| `dense_fenced` | a dense leaf with an upper fence inside its array | **expected violation** of `DenseChildFences`, see below |
| `dense_estimate` | as `dense` | **expected violation** of `EstimateEnough`, see below |
| `exists` | SET and EXISTS | **expected violation** of `ExistsReadsOnly`, see below |

Why the bounds are enough: `short`, `dies`, `commands`, `wire`, `codec` and `ycsb`
explore all behaviours of their instance. `tall`, `slotted` and `dense` load a
tree in which each kind of split, merge or conversion is at most two or three
operations away, then try every operation; coverage reports show that together they
take every branch of the modules. A batch of `wire` has more pieces than `UpCap`, so that
writes block and a command is cut anywhere, but no more answers than fit
(see the deadlock below); two connections are enough for one to wait in the backlog
and to inherit what the other left. `MaxInt` 12 makes the ends of the range numbers
of two digits, so that parsing overflows within a number as well as at its end. The
generators of `ycsb` run out in the middle of workloads.

A process that has died, and a driver that has ended, stutter; no run switches the
deadlock check off.

### Properties

- `BTree`: `KeysInFences`, `ChildFences`, `OneParent`, `LeavesDisjoint` describe the
  tree, `CursorOnPath` and `SplitPageAhead` the running descent, `SearchSharesPrefix`
  the fact that lets `lowerBound` skip the prefix, `PagesFit` and `NoLeak` resources.
  `PagesFit` takes the assertion of `copyKeyValueRange` about the halves of a split as given,
  so it is about builds with assertions; a half that does not fit is a death by assertion,
  which `DiesOnlyOnDuplicate` forbids.
  `StoreSpec` is the refinement: with `Contents` (what the leaves hold) as the map,
  every step is a step of `KVStore` or invisible. `Terminates` is liveness.
- `CheckedTree`: `ChecksFailOnlyAtEnds` relates the tree to the repository's own checker:
  no assertion of `DataStructureWrapper` fails but in a descending scan that starts above or
  below all stored keys.
- `SlottedPages`: `HeapSound` (records do not overlap, lie between slots and end,
  and `spaceUsed` is their sum), `HeapShowsPages`, `SearchAgrees`.
- `DenseTree`: the same tree properties of the view, `DenseArraySound` (the array lies between header and fences), `KeyAboveArrayStart` (no index is negative),
  `DenseTerminates`. `ConversionsFit`: the sums that decide over conversions, computed from
  `occupiedCount` and never from the records, are large enough for the records there are,
  after each remove, whether a merge follows or not, and before an insert whose payload is
  not shorter than those of the page; `EstimateEnough` says so for every insert and is
  violated. `MapWhileAlive` is the refinement of `KVStore`, extended by the overwriting
  insert, up to the death of the process, of whatever cause. `DenseNoLeak` is proved, and
  no run checks it: dense leaves are freed by the same code as the pages of `tall`.
- `RespApi`: `DelCounts`, `MSetLastWins`, `CountersReadBack` and `ScanInOrder` compare
  answer, map and map before with a direct statement of what DEL, MSET, the counters
  and ZRANGE are for. `ErrorsChangeNothing` says that an error answer means no effect;
  DEL and EXISTS are left out of it since they stop half way (`DelCounts` says what
  DEL may have done then). A failing ZADD answers -1, which is no error to the
  protocol, after it has stored the pairs before the bad score.
- `RespServer`: `AnswersInOrder`, `IncrementsOnce` (at most once; exactly once if
  acknowledged), `ServerOutlivesClients`, `EveryoneServed`, `BatchAnswered`.
- `RespCodec`: `ReadsBack`, `NeverWaitsInVain`. `Ycsb`: `LoadComplete`, `ReadsHit`,
  `Finishes`.

### Fairness

- `WF(Step)`, `WF(DenseStep)`: a running operation takes its next step. It is a loop
  in the calling thread that waits for nothing. No fairness is assumed of callers.
- `RespServer`: the server's thread and each client's writing and fetching run on.
  A client that is not in the middle of a batch closes in the end, because the client
  programs of the repository end; nothing forces a client that idles for ever to go,
  and the server has no timeout, so that without this assumption `EveryoneServed`
  fails. A host that vanishes without closing its connection is not modelled.
- `RespCodec`: bytes that were sent arrive, and the reader runs.
- `Ycsb`: the driver runs on, and a random sample that can be accepted is not
  rejected for ever (strong fairness of `DrawAccepted`: the draws are independent).

### The violated properties

`DiesOnlyOnDuplicate` (run `dies`): `insertImpl` asserts only that key and payload
together are at most `maxKVSize`. For a leaf of two large records `findSeparator`
computes `count / 2 - count / 32 = 1`, the second record: both records stay in the
left page, the right one is empty. If the next key is smaller than both and does not
fit, the left page is split at the same separator again, the parent already holds
it, and `insert` aborts. Three distinct keys suffice. The same choice of separator is the
way to a half that does not fit: of two records of `maxKVSize` both stay on the left, which
gets an upper fence as long as a key in addition to its lower one. There `SplitChecks` ends
in the assertion of `copyKeyValueRange` (`btree2020.cpp:344`), and a release build copies
over the slots.

`DenseChildFences` (run `dense_fenced`): a dense leaf is split behind the last slot of
its array, whichever key asked for it. For a key of another length the code does so
also when the array reaches beyond the upper fence; the separator then lies outside
the leaf, and above the next separator of the parent. Run `dense` has workloads in which
a leaf's array ends within its fences.

`EstimateEnough` (run `dense_estimate`): `dense.cpp:118` estimates whether a dense page can
become a basic one with the length of the new payload, but the records that are copied have
the length `valLen`. A dense page of five records meets a payload that is shorter: the
estimate says yes and the records do not fit. `copyKeyValueRangeToBasic` ends with an
assertion that fails then (`DenseConvertDies`), after it has copied; the Dockerfile's release
build has no such assertion, comes to the same state and goes on with a page whose records
overlap its slots. The model does not go on behind that state; `EstimateEnough` is about the
state itself, so that it fails for both builds alike.

`ExistsReadsOnly` (run `exists`): `api_impl::exists` calls `removeImpl`, so EXISTS
deletes the keys it finds.

### Deviations that the models reproduce

These are in the models because they are in the code; the properties are stated so
that they hold beside them.

- `dense.cpp:209`: the boundary of a split wraps around at the largest numeric part
  (`Boundary`). The separator is then below the page's lower fence; no split of the workloads
  of `dense` gets there.
- `dense.cpp:648`: `range_lookup1` looks at the key before it knows whether it is
  null, which it is on every leaf of a scan but the first; `dense.cpp:673`: it may
  read the mask word behind the last one, and treats `slotCount` itself as a slot. The model
  has both as deaths (`DenseScanDies`), which `MapWhileAlive` allows and no property forbids.
- `btree2020.cpp:213`: a second split at the same separator aborts, also behind the array of
  a dense page.
- `btree2020.cpp:1126`: `DataStructureWrapper::range_lookup_desc` fails for two kinds of
  descending scans although the tree answers them as the map does (`StoreSpec`). From a start
  key above all stored keys `lower_bound` is `end()`, the iterator counts as exhausted, and
  `assert(!stdExhausted)` (`:1129`) fails on the first record, which is the right one. From a
  start key below all of them the scan rightly passes on nothing, the iterator stays at
  `begin()`, and `assert(stdExhausted)` (`:1143`) fails. Builds with assertions, which is the
  default of CMake here, have these checks. `StoreSpec` states what the map says and not what
  the wrapper accepts; `ChecksFailOnlyAtEnds` states that the two differ there and nowhere else.
- `resp_serializer.cpp:16`: MGET of a missing key dereferences a null pointer, where
  GET answers with a null bulk string.
- `api_impl.cpp:49`: INCR of the largest integer stores the smallest; the answer
  "value is not an integer or out of range" is never given for a range.
- `resp_connection.cpp:34`, `ycsb2.cpp:522`: a client that queues a batch whose
  answers do not fit into the sockets' buffers, and writes all of it before it reads,
  waits for the server, which waits for it. `BatchAnswered` holds for batches whose
  answers fit (`DownCap` is not below `MaxBatch`).
- `ycsb2.cpp:438`: workload E never returns from its first scan. With a single key
  the zipf samples, which start at 1, are never accepted. `Finishes` names both.
- `ycsb2.cpp:132`, `349`, `365`: `%s` cuts a key at its first NUL byte, so that keys
  of the integer data set fall together; reads hit because they are cut too.
- `ycsb2.cpp:360`, `428`: a run of many random insertions uses up the spare keys, and the
  driver aborts. `596` against `313`: workload D asks for more keys than
  `workloadGenCount` provides. `214`, `252`: a batch size of 0 loops for ever; the
  model's configurations have positive ones.

## Proofs

All theorems hold for every value of the constants that meets the assumptions named with
them: any key set, payload sizes and page sizes, no bound on the height of the tree, any
number of clients, any batches.

### The tree (`BTreeProofs`, assumption `BTreeAssumption`)

`TypeCorrect`, `PagesSearchable`, `FencesAgree`, `PagesFormTree`, `OneLeafPerKey`,
`DescentOnPath`, `EnsureSpaceArrives`, `PrefixMayBeSkipped`: the invariants `TypeOK`,
`KeysInFences`, `ChildFences`, `OneParent`, `LeavesDisjoint`, `CursorOnPath`,
`SplitPageAhead`, `SearchSharesPrefix`.

They follow from one inductive invariant `IInv`: types, the four tree properties
and the two descent properties. None of them is inductive alone:

- a split keeps `KeysInFences` only if the separator lies strictly inside the
  fences, which needs `KeysInFences` and sortedness of the page that is split;
- inserting the separator into the parent keeps `ChildFences` only if `parent`
  and `pos` name the page being split (`CursorOnPath`) and no other page points
  to it (`OneParent`);
- a leaf insert keeps `KeysInFences` only if the key belongs to the leaf
  (`CursorOnPath`), and `CursorOnPath` survives a step down only if the child's
  fences are the parent's separators (`ChildFences`);
- `EnsureFound` keeps `CursorOnPath` only if the walk ended at `toSplit`, which is
  `SplitPageAhead`; that in turn needs that the full parent was on the path.

The proof has one lemma per action. The lemmas below it are about slots
(`InsertAt`, `RemoveAt`, `SubSeq` and concatenation of sorted slot sequences),
about `findSeparator` (the separator exists, is not empty and lies between the two
halves), about the two halves and the merged page, and about the tree as a whole
(a new root, a split and a merge keep it a tree). `SearchSharesPrefix` follows
from `CursorOnPath` and `BetweenSharesPrefix` of `KeyOrderProofs`.

### The tree is a map (`BTreeRefinement`)

`ImplementsStore`: every behaviour of `BTree` that never aborts except for a duplicate
is a behaviour of `KVStore`, with the records of all leaves as the map. The hypothesis
`[]DiesOnlyOnDuplicate` is needed: run `dies` shows a split that aborts, which no
`KVStore` does. `StoreUntilSplitDies` states what holds without it: each step is a step
of `KVStore`, a stutter, or the step with which a split dies. The argument:

- the map is a function because no key is in two leaves (`LeavesDisjoint`);
- an insert, a lookup or a remove reads its answer in one leaf; it is right because a key
  that is anywhere in the tree is in the leaf its descent ends in (`CursorOnPath`,
  `OneParent`: two leaves whose fences admit the same key are one);
- splits, merges and new roots keep the set of records;
- a scan restarts from the root for each leaf. The invariant `SInv` adds to `IInv` that
  the restart key is where the last leaf ended (`Between`) and that what was collected is
  the excerpt of the map up to there (`ScanSoFar`). `ScansMissNothing` states this.

### Space (`BTreeSpace`)

- `NothingOverflows`: `PagesFit`. A page is only filled through `RequestSpaceFor`; the work
  is in the pages that are made whole: the halves of a split, a merged leaf and a new
  root. The space of slots is a running sum (`SlotBytes`), so the argument goes along
  indexes: a half holds no more than the whole, and a shorter prefix that the halves could
  leave out only shortens their keys. Where the code itself does not know that a half fits
  it asserts it; those assertions are in `SplitChecks`, and a failing one ends the process.
- `NothingLeaks`: `NoLeak`, every allocated page is reachable from the root. The
  invariant is `Reached`: a set of pages that contains the root and, with a page, its
  children, contains all pages. `NoLeak` says the same in a form that TLC evaluates
  quickly. The only pages ever unlinked are the left page of a merge and those `Clear`
  frees.

The lemmas about splits (`SplitTree`, `SplitKeepsReach`, `InsertFullOK`, `EnsureSpaceOK`)
do not say how a page is cut: they hold for any two pages that are `Halves` of the old
one, with a separator strictly between its fences. `FindSeparator` yields such a
separator, and so does, under its premise, the cut of a dense page.

### Dense leaves (`DenseProofs`, assumptions `BTreeAssumption`, `DenseAssumption`)

`V` is `BTreeSpace` with `ShownPages`: a dense page is shown as the basic leaf of the same
fences and records (`ConvertToBasic`). The inductive invariant `DenseInv` says that the
tree of `V` has the invariant of `BTreeSpace` but for the space its pages take (which a
dense page need not have as a basic one), and of every page by itself (`GoodPage`) that it
fits, that its fences are short enough for the pages made of it, and, if it is dense, that
it is `DenseOK`: `DenseArraySound`, and each occupied slot stands for a key within the
fences whose number is the start of the array plus the slot's index. `SplitCause` adds why
a dense page is being split. `DenseInductiveInvariant` and what follows from it:
`DenseKeysStayInFences`, `DenseFencesAgree`, `DenseDescentOnPath`, `DenseNothingLeaks`,
`DenseConversionsFit`, `DenseArraysSound`, `KeysAboveArrayStart`, for `DenseKeysInFences`,
`DenseChildFences`, `DenseCursorOnPath`, `DenseNoLeak`, `ConversionsFit`, `DenseArraySound`,
`KeyAboveArrayStart`.

These theorems have a premise, `[]CutsInside`: whenever a dense page is split, the numbers
of its array do not pass the largest one, and the boundary behind the array lies between
the page's fences. It is needed: `dense_fenced` shows a split that breaks `ChildFences`
because the boundary is above the upper fence, and `dense.cpp:209` wraps around at the
largest number. In `dense` no state breaks it.

`UniformTreeSound` and `UniformTreePromises` have no such premise, but one on the
constants, `UniformRecords`: all keys have one length and agree in the bytes before the
numeric part, and all payloads have one length. These are the integer keys that dense
pages are made for: keys of at most `NumericLen` bytes, or with a common prefix. Then a
dense page is only split for a key that has no place in its array, which is behind the
array as keys before it do not reach the page; so the boundary is less than that key,
which is at most the upper fence, and its number is below that key's.

The steps of the argument:

- numbers: `NumbersDecide`, `NumberOfBytes`, `BytesOfNumber`. The number of a key's last
  bytes orders the keys that agree in the bytes before (`NumericOrder`), determines them
  (`SameNumberSameKey`), and is restored to the bytes it came from; so `RestoreKey` and
  `KeyToIndex` are inverses on the array (`IndexOfKey`, `RestoredKey`), and
  `leastGreaterKey` is at most the number of any key above the fence (`ArrayStartsBelow`),
  the fact behind `KeyAboveArrayStart`.
- pages: `RecordsOK` (the loop over the mask yields ordered records between the fences),
  `SetSlotOK`, `UnsetSlotOK`, `DensifiedOK` (a dense page made of a leaf shows exactly
  that leaf: all keys have a place if the last one has, because a key between the lower
  fence and the last key shares their prefix), `DenseLeftOK`, `DenseRightOK`,
  `EmptyDenseOK` (there is room for at least one slot; this is what the last conjunct of
  `DenseAssumption` is for, which says that the array begins no later than a basic page's
  header and two slots end: 24 + 8 bytes, against a header with 16 hints).
- steps: changes of the layout leave the view as it is (`SameView`); insert, overwrite and
  remove change one leaf of the view (`LeafChanged`); a merge or a split behind the array
  is a merge or a split of the view (`MergeDense`, `SplitDense` with `DenseHalves`). The
  copies of records out of a dense page are checked by the code only in part:
  `ConvertFits` is an assertion, whose failure ends the process. `ConvertedSpace` counts the
  bytes of the basic page from the records of the array, one term per record; from it
  `ConvertedFits` (an underfull page, after a remove) and `EstimatedFits` (a payload that is
  not shorter) compare them with the code's sums, which have `occupiedCount` times one length.

### The bytes of a page (`SlottedProofs`, assumptions `BTreeAssumption`, `SlottedAssumption`, `MaxByteAssumption`)

- `HeapIsSound`: `HeapSound`; `HeapShowsTree`: `HeapShowsPages`; `SearchIsRight`:
  `SearchAgrees`, for any keys, payloads, page sizes, head sizes and numbers of hints.
- `BytesFollowTree`: an operation on the bytes is an operation of `BTree`, so that the
  theorems about the tree hold with its bytes as well.

The invariant is `IInv /\ PagesFit /\ HeapOK` (`HeapInvariant`). `HeapOK` says of every page
that its memory `Holds` the page: fences and records are `Placed` in the heap, behind the
slots and `Apart` from each other, slot `i` has the lengths and the head of record `i`
and its bytes are the key without the prefix, then the payload; `spaceUsed` is the sum of
these; and that the hints hold (`HintsHold`): each is the head that `makeHint` would put
there now. The two other conjuncts are needed: the bytes show a key only if the
key has the prefix that the page leaves out, which follows from `KeysInFences`, and the
records that a split or a merge copies fit into the new page only by `PagesFit`.

There is one lemma per operation on a page, and one per step that uses it:

- `StoreHolds`: a record stored in a gap large enough leaves all others in place;
  `CopyFills`: so does a whole range copied into a page with another prefix, by induction
  along the loop. `CopyIsStore` is the point where bytes are cut, or completed from the
  source's fence. `FilledHolds`, `CompactifyOK`, `HeapInsertOK`, `HeapRemoveOK` and
  `HeapMergeOK` combine them. The bytes that a page asks for are those `BTree` counts, so
  `RequestSpaceFor` promises the same room on both sides.
- `UpdateHintOK`: the hints that `updateHint` does not recompute have not changed.
- `SearchFinds`: `HintRange` (the range that the hints leave still contains the place),
  `HeadsDecide` (unequal heads are ordered as the keys are, equal ones decide nothing),
  `CompareFinds` (one comparison of the loop, whatever branch it takes) and
  `BinarySearchFinds`, by induction on the length of the range.

### The commands (`RespApiProofs`, assumption `RespApiAssumption`)

- `ErrorsKeepTheMap`: `ErrorsChangeNothing`. Handlers check before they touch the tree.
- `DelCountsRemovals`: `DelCounts`. The removed keys and the counter of the loop grow
  together (induction along the argument index); an argument repeated counts once.
- `MSetStoresLastPairs`: `MSetLastWins`, along the same argument: a later pair overwrites.
- `ScansInOrder`: `ScanInOrder`. In a finite set of keys the number of smaller keys tells
  keys apart and takes every value below the size of the set (`RankOrder`, by counting),
  so that "the i-th key" exists and the answer lists the first of them.
- `CountersComeBack`: `CountersReadBack`. `ReadBack` says that each integer of the type is
  written as a string that reads as that integer; for the magnitude of the least one,
  which has no place in the type, the wrap on reading the digits and the one on negation
  cancel. `NumeralReads` carries it along the digits: what is read after a digit is what
  was read before, times ten, plus the digit (`ParsedNext`).

Both need that keys and values are strings of bytes and that the keys are finitely many
(`StringsStep`); the strings of arguments are by assumption.

### The server (`RespServerProofs`, assumption `RespServerAssumption`)

- `EveryClientAnswered`: `AnswersInOrder`: what a client has received, with what is on its
  way, is the sequence of the answers to a prefix of the commands it sent, in order.
- `ServerOutlives`: `ServerOutlivesClients`: only a message that the reader cannot read
  ends the process, never a client that leaves.
- `CommandsAreSendable`: a command as `redis_client` formats it, with any arguments, is a
  message the reader reads to its last piece and no further, and returns as written. It
  shows that the assumption on messages is not empty.

The inductive invariant `AnsweringInv` says where everything is: types; a connection waits
in the backlog once (`WaitsOnce`); a client queues only after its last batch is through
(`QueuesWhenDone`); per client, the pieces the server has read, those in the stream and
those still in the client's buffer are, one after the other, the pieces of the messages
sent (`Streams`); the reader's stack is a state of reading the message whose pieces are
next (`OnTheWay`); and `done` is the sequence of answers to the messages read (`Answers`).
That commands are read whole follows because a reader that is in state `r` of a message
has pieces left exactly as long as its stack is not empty. A client that disappears loses
a suffix of what it wrote: the stream is then a prefix of the messages, which the invariant
allows once the client is `closed`.

### Induction

Library theorems that take an operator cannot be used here. Induction along an interval
is done with the least element of a set (`UpTo`, `Stepwise` in `KeyOrderProofs`), which
suffices for loops over indexes: scans, the handlers' loops, the reader. It does not reach
definitions by recursion over data with library operators.

### Only model-checked

- `MapWhileAlive` and `DenseTerminates` of `DenseTree`; `ChecksFailOnlyAtEnds` of `CheckedTree`.
- `IncrementsOnce` depends on what the batches of the instance do to the counter.
- `LoadComplete`, `ReadsHit` of `Ycsb`.
- `ReadsBack` of `RespCodec`, whose writer is a RECURSIVE operator.
- Liveness under fairness: `Terminates`, `DenseTerminates`, `EveryoneServed`,
  `BatchAnswered`, `NeverWaitsInVain`, `Finishes`.

`DiesOnlyOnDuplicate` and, with dense leaves, `ChildFences` do not hold in general.

## Plan

Done: the tree and its inductive invariant, its refinement of the map and its use of
space, the bytes of its pages, dense leaves and proofs that the tree with them is sound,
the commands, the server with its clients and proofs about both, the protocol's bytes,
the driver. Next:

1. Proofs: the refinement of the map by the tree with dense leaves (`MapWhileAlive`),
   along the argument of `BTreeRefinement`.
2. Models of layouts that the default configuration leaves out: `HashPage`,
   `HeadPage`, `Dense2`.

## Not modelled

- `HashNode`, `HeadNode4/8`, `Tag::Dense2`, `enableDensifySplit`, `RangeOpCounter`:
  `config.hpp` switches them off, so that no page gets their tags and no counter
  counts.
- `original_paper_benchmark`: a vendored copy of the paper's repository with
  third-party structures (wormhole, ART, HOT, LITS, TPC-C) that this program neither
  builds nor calls. It is most of the repository's lines.
- The text of INFO, log output, `approximateMemoryUsage` and the other inspection
  code, the reading of options and data files, timers, `generate_rng4` and
  `generate_rng8`: no state that an operation depends on.
- The 256-byte key buffer of ZRANGE (`api_impl.cpp:102`): keys of the models are short.
- Benchmark scripts and plots, the paper and the poster.
