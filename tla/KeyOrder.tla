------------------------------ MODULE KeyOrder ------------------------------
(***************************************************************************)
(* Keys of the B-tree and the order the tree keeps them in.                *)
(*                                                                         *)
(* A key is a string of bytes.  The code compares two keys with memcmp on  *)
(* the length of the shorter one and then by length (lowerBound,           *)
(* libbtree/src/btree2020.cpp), which is the lexicographic order defined   *)
(* here.  Fence keys use the same strings; an empty fence stands for       *)
(* "no bound on this side".                                                *)
(***************************************************************************)
EXTENDS Integers, Sequences

CONSTANT MaxByte        \* the largest byte: 255 in the code

ASSUME MaxByteAssumption == MaxByte \in Nat

Byte  == 0 .. MaxByte
Bytes == Seq(Byte)

(* i is the first place where a and b differ, and a is the smaller there:  *)
(* either a ends before i or its byte is smaller.                          *)
LessAt(a, b, i) ==
    /\ i <= Len(a) + 1
    /\ \A j \in 1 .. (i - 1) : a[j] = b[j]
    /\ i <= Len(a) => a[i] < b[i]

Less(a, b) == \E i \in 1 .. Len(b) : LessAt(a, b, i)

Leq(a, b) == a = b \/ Less(a, b)

(* The first n bytes of a key: what a truncated separator keeps.           *)
Take(a, n) == SubSeq(a, 1, n)

SharePrefix(a, b, n) ==
    /\ n <= Len(a)
    /\ n <= Len(b)
    /\ \A j \in 1 .. n : a[j] = b[j]

(* The length of the longest common prefix of two keys.                    *)
CommonPrefixLen(a, b) ==
    CHOOSE n \in 0 .. Len(a) :
        /\ SharePrefix(a, b, n)
        /\ n < Len(a) /\ n < Len(b) => a[n + 1] # b[n + 1]

(* The smallest key greater than a: a followed by a zero byte.             *)
Successor(a) == Append(a, 0)

(* A page with fences lower and upper is responsible for the keys that are *)
(* greater than lower and at most upper.                                   *)
AboveFence(k, lower) == lower = << >> \/ Less(lower, k)
BelowFence(k, upper) == upper = << >> \/ Leq(k, upper)
InFences(k, lower, upper) == AboveFence(k, lower) /\ BelowFence(k, upper)

(***************************************************************************)
(* Numbers.  The heads of keys and the numeric parts of dense pages are    *)
(* numbers made of some bytes of a key, the first byte counting most;      *)
(* where the key has ended the byte is a zero.                             *)
(***************************************************************************)
Base == MaxByte + 1

PaddedByte(k, i) == IF i <= Len(k) THEN k[i] ELSE 0

(* The numbers that the first 0, 1, ..., len bytes after the byte at place *)
(* "from" make.                                                            *)
Digits(k, from, len) ==
    LET number[i \in 0 .. len] ==
            IF i = 0 THEN 0 ELSE number[i - 1] * Base + PaddedByte(k, from + i)
    IN  number

NumberOf(k, from, len) == Digits(k, from, len)[len]

=============================================================================
