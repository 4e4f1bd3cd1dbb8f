------------------------------- MODULE MCYcsb -------------------------------
(***************************************************************************)
(* Every workload on data sets of at most five keys: counts that batches do *)
(* and do not divide, too few keys, keys with a NUL byte, a key too long   *)
(* for a page, uniform and zipf samples, and a single key.                 *)
(***************************************************************************)
EXTENDS Ycsb

K(n)   == [i \in 1 .. n |-> Letter]
IntKey(n) == <<NUL, NUL, n>>               \* int_to_key: high bytes first

Text(n) == [i \in 1 .. n |-> K(n + 1 - i)]
Ints(n) == [i \in 1 .. n |-> IntKey(i)]

Config(variant, keyCount, keyBatch, opCount, opBatch, zipfian, keys) ==
    [variant |-> variant, keyCount |-> keyCount, keyBatch |-> keyBatch, opCount |-> opCount,
     opBatch |-> opBatch, zipf |-> zipfian, fits |-> TRUE, keys |-> keys]

Batched ==
    {Config(v, 3, 2, 3, 2, z, keys) : v \in {"C", "memory", "scan"}, z \in BOOLEAN, keys \in {Text(4), Ints(3)}}

Single ==
    {Config(v, 3, 1, 2, 1, z, keys) : v \in {"multi", "sorted", "presorted"}, z \in BOOLEAN, keys \in {Text(4), Ints(3)}}

(* Seven operations go past the end of op_next's array; two leave room for *)
(* no insertion in E, and in D for as many as there are spare keys.        *)
Grow ==
    {Config(v, 2, 1, 7, 1, z, keys) : v \in Growing, z \in BOOLEAN, keys \in {Text(5), Ints(5)}}
      \cup {Config(v, 2, 1, 2, 1, FALSE, Text(3)) : v \in Growing}

Limits ==
    {Config(v, 1, 1, 2, 1, z, Text(1)) : v \in {"C", "multi", "D"}, z \in BOOLEAN}
      \cup {Config(v, 4, 1, 4, 1, FALSE, Text(3)) : v \in {"C", "sorted", "D", "E"}}
      \cup {Config(v, 1, 1, 4, 1, FALSE, Text(3)) : v \in {"D"}}
      \cup {[Config("C", 2, 1, 1, 1, FALSE, Text(2)) EXCEPT !.fits = FALSE]}

AllConfigs == Batched \cup Single \cup Grow \cup Limits

=============================================================================
