-------------------------- MODULE RespServerProofs --------------------------
(***************************************************************************)
(* The server answers every client in order, whatever the clients do, and  *)
(* is not brought down by one that disappears.  The first part is about    *)
(* what lies between a client and the server: sequences of anything,       *)
(* pieces of messages that are written one after the other, and the reader *)
(* that takes them apart again.                                            *)
(***************************************************************************)
EXTENDS RespServer, RespApiProofs, SequenceTheorems

(***************************************************************************)
(* Sequences of anything.                                                  *)
(***************************************************************************)
LEMMA SeqIsSeq ==
    ASSUME NEW S, NEW s \in Seq(S)
    PROVE  IsSeq(s)
BY SeqOfRange DEF IsSeq

LEMMA IsSeqLen ==
    ASSUME NEW s, IsSeq(s)
    PROVE  Len(s) \in Nat /\ DOMAIN s = 1 .. Len(s) /\ (s = << >> <=> Len(s) = 0)
BY LenProperties, EmptySeq DEF IsSeq

LEMMA IsSeqEqual ==
    ASSUME NEW s, NEW t, IsSeq(s), IsSeq(t), Len(s) = Len(t), \A i \in 1 .. Len(s) : s[i] = t[i]
    PROVE  s = t
<1> DEFINE S == Range(s) \cup Range(t)
<1>1. s \in Seq(S) /\ t \in Seq(S)
  BY SeqMonotonic DEF IsSeq
<1> HIDE DEF S
<1> QED BY <1>1, SeqEqual

LEMMA IsSeqConcat ==
    ASSUME NEW s, NEW t, IsSeq(s), IsSeq(t)
    PROVE  /\ IsSeq(s \o t)
           /\ Len(s \o t) = Len(s) + Len(t)
           /\ \A i \in 1 .. Len(s) : (s \o t)[i] = s[i]
           /\ \A i \in 1 .. Len(t) : (s \o t)[Len(s) + i] = t[i]
<1> DEFINE S == Range(s) \cup Range(t)
<1>1. s \in Seq(S) /\ t \in Seq(S)
  BY SeqMonotonic DEF IsSeq
<1> HIDE DEF S
<1>2. /\ s \o t \in Seq(S)
      /\ Len(s \o t) = Len(s) + Len(t)
      /\ \A i \in 1 .. Len(s) + Len(t) : (s \o t)[i] = IF i <= Len(s) THEN s[i] ELSE t[i - Len(s)]
  BY <1>1, ConcatProperties
<1>3. Len(s) \in Nat /\ Len(t) \in Nat
  BY IsSeqLen
<1>4. ASSUME NEW i \in 1 .. Len(t) PROVE (s \o t)[Len(s) + i] = t[i]
  <2>1. Len(s) + i \in 1 .. Len(s) + Len(t) /\ ~ (Len(s) + i <= Len(s)) /\ Len(s) + i - Len(s) = i
    BY <1>3
  <2> QED BY <1>2, <2>1
<1>5. \A i \in 1 .. Len(s) : i \in 1 .. Len(s) + Len(t) /\ i <= Len(s)
  BY <1>3
<1> QED BY <1>2, <1>4, <1>5, SeqIsSeq

LEMMA IsSeqAppend ==
    ASSUME NEW s, NEW e, IsSeq(s)
    PROVE  /\ IsSeq(Append(s, e))
           /\ Len(Append(s, e)) = Len(s) + 1
           /\ \A i \in 1 .. Len(s) : Append(s, e)[i] = s[i]
           /\ Append(s, e)[Len(s) + 1] = e
<1> DEFINE S == Range(s) \cup {e}
<1>1. s \in Seq(S) /\ e \in S
  BY SeqMonotonic DEF IsSeq
<1> HIDE DEF S
<1>2. /\ Append(s, e) \in Seq(S)
      /\ Len(Append(s, e)) = Len(s) + 1
      /\ \A i \in 1 .. Len(s) : Append(s, e)[i] = s[i]
      /\ Append(s, e)[Len(s) + 1] = e
  BY <1>1, AppendProperties
<1>3. IsSeq(Append(s, e))
  BY <1>2, SeqIsSeq
<1> QED BY <1>2, <1>3

LEMMA IsSeqTail ==
    ASSUME NEW s, IsSeq(s), s # << >>
    PROVE  /\ IsSeq(Tail(s))
           /\ Len(Tail(s)) = Len(s) - 1
           /\ Head(s) = s[1]
           /\ \A i \in 1 .. Len(Tail(s)) : Tail(s)[i] = s[i + 1]
<1>1. s \in Seq(Range(s))
  BY DEF IsSeq
<1>2. /\ Tail(s) \in Seq(Range(s))
      /\ Len(Tail(s)) = Len(s) - 1
      /\ \A i \in 1 .. Len(Tail(s)) : Tail(s)[i] = s[i + 1]
  BY <1>1, HeadTailProperties
<1>3. IsSeq(Tail(s))
  BY <1>2, SeqIsSeq
<1>4. Head(s) = s[1]
  BY <1>1
<1> QED BY <1>2, <1>3, <1>4

LEMMA IsSeqFirst ==
    ASSUME NEW s, IsSeq(s), NEW n \in 0 .. Len(s)
    PROVE  /\ IsSeq(SubSeq(s, 1, n))
           /\ Len(SubSeq(s, 1, n)) = n
           /\ \A i \in 1 .. n : SubSeq(s, 1, n)[i] = s[i]
<1>1. Len(s) \in Nat /\ \A i \in 1 .. n : s[i] \in Range(s)
  BY IsSeqLen DEF IsSeq, Range
<1>2. /\ SubSeq(s, 1, n) \in Seq(Range(s))
      /\ Len(SubSeq(s, 1, n)) = IF 1 <= n THEN n - 1 + 1 ELSE 0
      /\ \A i \in 1 .. n - 1 + 1 : SubSeq(s, 1, n)[i] = s[1 + i - 1]
  BY <1>1, SubSeqProperties
<1>3. n - 1 + 1 = n /\ \A i \in 1 .. n : 1 + i - 1 = i
  BY <1>1
<1> DEFINE u == SubSeq(s, 1, n)
<1>4. IsSeq(u)
  BY <1>2, SeqIsSeq
<1> HIDE DEF u
<1>5. Len(u) = n /\ \A i \in 1 .. n : u[i] = s[i]
  <2>1. Len(u) = IF 1 <= n THEN n - 1 + 1 ELSE 0
    BY <1>2 DEF u
  <2>2. \A i \in 1 .. n : u[i] = s[1 + i - 1]
    BY <1>2, <1>3 DEF u
  <2> QED BY <1>1, <1>3, <2>1, <2>2
<1> QED BY <1>4, <1>5 DEF u

LEMMA IsSeqEmpty == IsSeq(<< >>) /\ Len(<< >>) = 0
BY EmptySeq DEF IsSeq

LEMMA ConcatEmpty ==
    ASSUME NEW s, IsSeq(s)
    PROVE  s \o << >> = s /\ << >> \o s = s
BY ConcatEmptySeq DEF IsSeq

LEMMA ConcatThree ==
    ASSUME NEW s, NEW t, NEW u, IsSeq(s), IsSeq(t), IsSeq(u)
    PROVE  (s \o t) \o u = s \o (t \o u)
<1> DEFINE S == Range(s) \cup Range(t) \cup Range(u)
<1>1. s \in Seq(S) /\ t \in Seq(S) /\ u \in Seq(S)
  BY SeqMonotonic DEF IsSeq
<1> HIDE DEF S
<1> QED BY <1>1, ConcatAssociative

(* Handing on the first element of a queue to the end of another one       *)
(* leaves both together as they were.                                      *)
LEMMA MoveHead ==
    ASSUME NEW s, NEW t, IsSeq(s), IsSeq(t), t # << >>
    PROVE  Append(s, Head(t)) \o Tail(t) = s \o t
<1> DEFINE a == Append(s, Head(t))
           b == Tail(t)
<1>1. /\ IsSeq(a) /\ Len(a) = Len(s) + 1
      /\ \A i \in 1 .. Len(s) : a[i] = s[i]
      /\ a[Len(s) + 1] = Head(t)
  BY IsSeqAppend
<1>2. /\ IsSeq(b) /\ Len(b) = Len(t) - 1 /\ Head(t) = t[1]
      /\ \A i \in 1 .. Len(b) : b[i] = t[i + 1]
  BY IsSeqTail
<1>3. Len(s) \in Nat /\ Len(t) \in Nat /\ Len(t) # 0
  BY IsSeqLen
<1> HIDE DEF a, b
<1>4. /\ IsSeq(a \o b) /\ Len(a \o b) = Len(a) + Len(b)
      /\ \A i \in 1 .. Len(a) : (a \o b)[i] = a[i]
      /\ \A i \in 1 .. Len(b) : (a \o b)[Len(a) + i] = b[i]
  <2>1. IsSeq(a) /\ IsSeq(b)
    BY <1>1, <1>2
  <2> QED BY <2>1, IsSeqConcat
<1>5. /\ IsSeq(s \o t) /\ Len(s \o t) = Len(s) + Len(t)
      /\ \A i \in 1 .. Len(s) : (s \o t)[i] = s[i]
      /\ \A i \in 1 .. Len(t) : (s \o t)[Len(s) + i] = t[i]
  BY IsSeqConcat
<1>6. ASSUME NEW i \in 1 .. Len(s) + Len(t) PROVE (a \o b)[i] = (s \o t)[i]
  <2>1. CASE i <= Len(s)
    <3>1. i \in 1 .. Len(s) /\ i \in 1 .. Len(a)
      BY <1>1, <1>3, <2>1
    <3> QED BY <1>1, <1>4, <1>5, <3>1
  <2>2. CASE i = Len(s) + 1
    <3>1. i \in 1 .. Len(a) /\ 1 \in 1 .. Len(t)
      BY <1>1, <1>3, <2>2
    <3> QED BY <1>1, <1>2, <1>4, <1>5, <2>2, <3>1
  <2>3. CASE i > Len(s) + 1
    <3> DEFINE j == i - Len(s) - 1
    <3>1. j \in 1 .. Len(b) /\ i = Len(a) + j /\ j + 1 \in 1 .. Len(t) /\ i = Len(s) + (j + 1)
      BY <1>1, <1>2, <1>3, <2>3
    <3> HIDE DEF j
    <3>2. (a \o b)[i] = b[j] /\ (s \o t)[i] = t[j + 1]
      BY <1>4, <1>5, <3>1
    <3> QED BY <1>2, <3>1, <3>2
  <2>4. i <= Len(s) \/ i = Len(s) + 1 \/ i > Len(s) + 1
    BY <1>3
  <2> QED BY <2>1, <2>2, <2>3, <2>4
<1>7. Len(a \o b) = Len(s) + Len(t)
  BY <1>1, <1>2, <1>3, <1>4
<1> QED BY <1>4, <1>5, <1>6, <1>7, IsSeqEqual DEF a, b

(* Prefixes, element by element.                                           *)
LEMMA PrefixItems ==
    ASSUME NEW s, NEW t, IsSeq(s), IsSeq(t)
    PROVE  IsPrefix(s, t) <=> Len(s) <= Len(t) /\ \A i \in 1 .. Len(s) : s[i] = t[i]
<1>1. SubSeq(s, 1, Len(s)) = s
  BY SubSeqFull DEF IsSeq
<1>2. SUFFICES ASSUME Len(s) <= Len(t)
               PROVE  s = SubSeq(t, 1, Len(s)) <=> \A i \in 1 .. Len(s) : s[i] = t[i]
  BY <1>1 DEF IsPrefix
<1> DEFINE u == SubSeq(t, 1, Len(s))
<1>3. IsSeq(u) /\ Len(u) = Len(s) /\ \A i \in 1 .. Len(s) : u[i] = t[i]
  BY <1>2, IsSeqLen, IsSeqFirst
<1> HIDE DEF u
<1>4. s = u <=> \A i \in 1 .. Len(s) : s[i] = u[i]
  BY <1>3, IsSeqEqual
<1> QED BY <1>3, <1>4 DEF u

LEMMA PrefixOfConcat ==
    ASSUME NEW s, NEW t, NEW u, IsSeq(s), IsSeq(t), IsSeq(u)
    PROVE  /\ IsPrefix(s, s \o t)
           /\ IsPrefix(s \o t, u) => IsPrefix(s, u)
           /\ \A e : IsPrefix(s, u) => IsPrefix(s, Append(u, e))
<1>1. /\ IsSeq(s \o t) /\ Len(s \o t) = Len(s) + Len(t)
      /\ \A i \in 1 .. Len(s) : (s \o t)[i] = s[i]
  BY IsSeqConcat
<1>2. Len(s) \in Nat /\ Len(t) \in Nat /\ Len(u) \in Nat
  BY IsSeqLen
<1>3. Len(s) <= Len(s \o t) /\ \A i \in 1 .. Len(s) : i \in 1 .. Len(s \o t)
  BY <1>1, <1>2
<1>4. IsPrefix(s, s \o t)
  BY <1>1, <1>3, PrefixItems
<1>5. ASSUME IsPrefix(s \o t, u) PROVE IsPrefix(s, u)
  <2>1. Len(s \o t) <= Len(u) /\ \A i \in 1 .. Len(s \o t) : (s \o t)[i] = u[i]
    BY <1>1, <1>5, PrefixItems
  <2>2. Len(s) <= Len(u) /\ \A i \in 1 .. Len(s) : s[i] = u[i]
    BY <1>1, <1>2, <1>3, <2>1
  <2> QED BY <2>2, PrefixItems
<1>6. ASSUME NEW e, IsPrefix(s, u) PROVE IsPrefix(s, Append(u, e))
  <2>1. Len(s) <= Len(u) /\ \A i \in 1 .. Len(s) : s[i] = u[i]
    BY <1>6, PrefixItems
  <2>2. /\ IsSeq(Append(u, e)) /\ Len(Append(u, e)) = Len(u) + 1
        /\ \A i \in 1 .. Len(u) : Append(u, e)[i] = u[i]
    BY IsSeqAppend
  <2>3. Len(s) <= Len(Append(u, e)) /\ \A i \in 1 .. Len(s) : s[i] = Append(u, e)[i]
    BY <1>2, <2>1, <2>2
  <2> QED BY <2>2, <2>3, PrefixItems
<1> QED BY <1>4, <1>5, <1>6

(***************************************************************************)
(* FlattenSeq.                                                             *)
(***************************************************************************)
(* g[i] is what the first i sequences of q make, one after the other.      *)
Flattened(g, q) ==
    /\ g[0] = << >>
    /\ \A i \in 1 .. Len(q) : g[i] = g[i - 1] \o q[i]
    /\ FlattenSeq(q) = g[Len(q)]

LEMMA FlattenSteps ==
    ASSUME NEW S, NEW q \in Seq(Seq(S))
    PROVE  \E g \in [0 .. Len(q) -> Seq(S)] : Flattened(g, q)
<1> DEFINE c == Len(q)
           X == Seq(S)
           f == [p \in (1 .. c) \X X |-> p[2] \o q[p[1]]]
<1>1. c \in Nat /\ << >> \in X /\ \A i \in 1 .. c : q[i] \in X
  BY LenProperties, EmptySeq
<1>2. ASSUME NEW s \in X, NEW t \in X PROVE s \o t \in X
  BY ConcatProperties
<1> HIDE DEF X, c
<1>3. f \in [(1 .. c) \X X -> X]
  BY <1>1, <1>2
<1> HIDE DEF f
<1>4. PICK g \in [0 .. c -> X] : IsStepwise(g, f, << >>, c)
  BY <1>1, <1>3, Stepwise
<1>5. g[0] = << >> /\ \A i \in 1 .. c : g[i] = f[<<i, g[i - 1]>>]
  BY <1>4 DEF IsStepwise
<1>6. \A i \in 1 .. c : g[i] = g[i - 1] \o q[i]
  <2> TAKE i \in 1 .. c
  <2>1. i - 1 \in 0 .. c
    BY <1>1
  <2>2. g[i - 1] \in X /\ <<i, g[i - 1]>> \in (1 .. c) \X X
    BY <2>1
  <2> QED BY <1>5, <2>2 DEF f
<1>7. CASE c = 0
  <2>1. q = << >> /\ FlattenSeq(q) = q
    BY <1>7, EmptySeq DEF FlattenSeq, c
  <2> QED BY <1>5, <1>6, <1>7, <2>1 DEF Flattened, c, X
<1>8. CASE c # 0
  <2> DEFINE h == [i \in 1 .. c |-> g[i]]
             flatten == CHOOSE u : u = [i \in 1 .. c |-> IF i = 1 THEN q[i] ELSE u[i - 1] \o q[i]]
  <2>1. g[1] = q[1]
    <3>1. 1 \in 1 .. c /\ 1 - 1 = 0
      BY <1>1, <1>8
    <3>2. g[1] = << >> \o q[1]
      BY <1>5, <1>6, <3>1
    <3> QED BY <1>1, <3>1, <3>2, ConcatEmptySeq DEF X
  <2>2. \A i \in 1 .. c : i # 1 => i - 1 \in 1 .. c
    BY <1>1
  <2>3. h = [i \in 1 .. c |-> IF i = 1 THEN q[i] ELSE h[i - 1] \o q[i]]
    BY <1>6, <2>1, <2>2
  <2> HIDE DEF h
  <2>4. flatten = [i \in 1 .. c |-> IF i = 1 THEN q[i] ELSE flatten[i - 1] \o q[i]]
    BY <2>3
  <2>5. FlattenSeq(q) = flatten[c]
    BY <1>8 DEF FlattenSeq, c
  <2> HIDE DEF flatten
  <2> DEFINE T == {i \in 0 .. c : i = 0 \/ flatten[i] = g[i]}
  <2>6. 0 \in T
    BY <1>1
  <2>7. \A i \in 1 .. c : i - 1 \in T => i \in T
    <3> SUFFICES ASSUME NEW i \in 1 .. c, i - 1 \in T
                 PROVE  flatten[i] = g[i]
      BY <1>1
    <3>1. CASE i = 1
      BY <2>1, <2>4, <3>1
    <3>2. CASE i # 1
      <4>1. i - 1 # 0 /\ flatten[i - 1] = g[i - 1]
        BY <3>2
      <4>2. flatten[i] = flatten[i - 1] \o q[i]
        BY <2>4, <3>2
      <4> QED BY <1>6, <4>1, <4>2
    <3> QED BY <3>1, <3>2
  <2>8. 0 .. c \subseteq T
    <3> HIDE DEF T
    <3> QED BY <1>1, <2>6, <2>7, UpTo
  <2>9. flatten[c] = g[c]
    BY <1>1, <1>8, <2>8
  <2> QED BY <1>5, <1>6, <2>5, <2>9 DEF Flattened, c, X
<1> QED BY <1>7, <1>8

LEMMA FlattenConcat ==
    ASSUME NEW S, NEW p \in Seq(Seq(S)), NEW q \in Seq(Seq(S))
    PROVE  /\ FlattenSeq(p \o q) = FlattenSeq(p) \o FlattenSeq(q)
           /\ FlattenSeq(p) \in Seq(S)
<1> DEFINE n == Len(p)
           k == Len(q)
           r == p \o q
<1>1. /\ r \in Seq(Seq(S)) /\ Len(r) = n + k /\ n \in Nat /\ k \in Nat
      /\ \A i \in 1 .. n + k : r[i] = IF i <= n THEN p[i] ELSE q[i - n]
  BY ConcatProperties, LenProperties
<1>2. PICK g \in [0 .. n -> Seq(S)] : Flattened(g, p)
  BY FlattenSteps
<1>3. PICK h \in [0 .. k -> Seq(S)] : Flattened(h, q)
  BY FlattenSteps
<1>4. PICK u \in [0 .. Len(r) -> Seq(S)] : Flattened(u, r)
  BY <1>1, FlattenSteps
<1>5. /\ g[0] = << >> /\ \A i \in 1 .. n : g[i] = g[i - 1] \o p[i]
      /\ FlattenSeq(p) = g[n]
  BY <1>2 DEF Flattened
<1>6. /\ h[0] = << >> /\ \A i \in 1 .. k : h[i] = h[i - 1] \o q[i]
      /\ FlattenSeq(q) = h[k]
  BY <1>3 DEF Flattened
<1>7. /\ u[0] = << >> /\ \A i \in 1 .. n + k : u[i] = u[i - 1] \o r[i]
      /\ FlattenSeq(r) = u[n + k]
  BY <1>1, <1>4 DEF Flattened
<1>8. \A i \in 1 .. k : q[i] \in Seq(S)
  BY ElementOfSeq
<1> HIDE DEF n, k, r
<1>9. 0 .. n \subseteq {i \in 0 .. n : u[i] = g[i]}
  <2> DEFINE T == {i \in 0 .. n : u[i] = g[i]}
  <2>1. 0 \in T
    BY <1>1, <1>5, <1>7
  <2>2. \A i \in 1 .. n : i - 1 \in T => i \in T
    <3> SUFFICES ASSUME NEW i \in 1 .. n, i - 1 \in T
                 PROVE  u[i] = g[i]
      BY <1>1
    <3>1. i \in 1 .. n + k /\ i <= n
      BY <1>1
    <3>2. u[i] = u[i - 1] \o p[i]
      BY <1>1, <1>7, <3>1
    <3> QED BY <1>5, <3>2
  <2> HIDE DEF T
  <2>3. 0 .. n \subseteq T
    BY <1>1, <2>1, <2>2, UpTo
  <2> QED BY <2>3 DEF T
<1>10. u[n] = g[n] /\ g[n] \in Seq(S)
  BY <1>1, <1>2, <1>9
<1>11. \A a, b, e \in Seq(S) : (a \o b) \o e = a \o (b \o e)
  <2> TAKE a, b, e \in Seq(S)
  <2>1. IsSeq(a) /\ IsSeq(b) /\ IsSeq(e)
    BY SeqIsSeq
  <2> QED BY <2>1, ConcatThree
<1>12. 0 .. k \subseteq {i \in 0 .. k : u[n + i] = g[n] \o h[i]}
  <2> DEFINE T == {i \in 0 .. k : u[n + i] = g[n] \o h[i]}
  <2>1. 0 \in T
    <3>1. g[n] \o << >> = g[n] /\ n + 0 = n
      BY <1>1, <1>10, ConcatEmptySeq
    <3>2. u[n + 0] = g[n] \o h[0]
      BY <1>6, <1>10, <3>1
    <3> QED BY <1>1, <3>2
  <2>2. \A i \in 1 .. k : i - 1 \in T => i \in T
    <3> SUFFICES ASSUME NEW i \in 1 .. k, i - 1 \in T
                 PROVE  i \in T
      OBVIOUS
    <3> DEFINE j == n + i
    <3>1. /\ j \in 1 .. n + k /\ ~ (j <= n) /\ j - n = i /\ j - 1 = n + (i - 1)
          /\ i - 1 \in 0 .. k /\ i \in 0 .. k
      BY <1>1
    <3>2. u[j] = u[j - 1] \o r[j]
      BY <1>7, <3>1
    <3>3. r[j] = q[i]
      BY <1>1, <3>1
    <3>4. u[j - 1] = g[n] \o h[i - 1]
      BY <3>1
    <3>5. h[i - 1] \in Seq(S) /\ q[i] \in Seq(S)
      BY <1>3, <1>8, <3>1
    <3>6. (g[n] \o h[i - 1]) \o q[i] = g[n] \o (h[i - 1] \o q[i])
      BY <1>10, <1>11, <3>5
    <3>7. u[j] = g[n] \o h[i]
      BY <1>6, <3>2, <3>3, <3>4, <3>6
    <3> QED BY <3>1, <3>7
  <2> HIDE DEF T
  <2>3. 0 .. k \subseteq T
    BY <1>1, <2>1, <2>2, UpTo
  <2> QED BY <2>3 DEF T
<1>13. u[n + k] = g[n] \o h[k]
  <2>1. k \in 0 .. k
    BY <1>1
  <2> QED BY <1>12, <2>1
<1> QED BY <1>5, <1>6, <1>7, <1>10, <1>13 DEF r

LEMMA FlattenOne ==
    ASSUME NEW S, NEW s \in Seq(S)
    PROVE  FlattenSeq(<<s>>) = s
<1>1. <<s>> \in Seq(Seq(S)) /\ Len(<<s>>) = 1 /\ <<s>>[1] = s
  OBVIOUS
<1>2. PICK g \in [0 .. 1 -> Seq(S)] : Flattened(g, <<s>>)
  BY <1>1, FlattenSteps
<1>3. g[0] = << >> /\ g[1] = g[0] \o s /\ FlattenSeq(<<s>>) = g[1]
  <2>1. /\ g[0] = << >> /\ FlattenSeq(<<s>>) = g[1]
        /\ \A i \in 1 .. 1 : g[i] = g[i - 1] \o <<s>>[i]
    BY <1>1, <1>2 DEF Flattened
  <2>2. 1 \in 1 .. 1 /\ 1 - 1 = 0
    OBVIOUS
  <2>3. g[1] = g[0] \o s
    BY <1>1, <2>1, <2>2
  <2> QED BY <2>1, <2>3
<1> QED BY <1>3, ConcatEmptySeq

LEMMA FlattenNone == FlattenSeq(<< >>) = << >>
BY EmptySeq DEF FlattenSeq

(***************************************************************************)
(* Messages and their pieces.                                              *)
(***************************************************************************)
Messages == UNION {Range(b) : b \in Batches}
AnyPiece == UNION {Range(m.pieces) : m \in Messages}
AnyValue == AnyPiece \cup {Scalar(Array(<< >>))}

LEMMA BatchType ==
    ASSUME NEW b \in Batches
    PROVE  b \in Seq(Messages)
<1>1. b \in Seq(Range(b))
  BY RespServerAssumption DEF IsSeq
<1>2. Range(b) \subseteq Messages
  BY DEF Messages
<1> QED BY <1>1, <1>2, SeqMonotonic

LEMMA MessageType ==
    ASSUME NEW m \in Messages
    PROVE  Sendable(m) /\ m.pieces \in Seq(AnyPiece)
<1>1. PICK b \in Batches : m \in Range(b)
  BY DEF Messages
<1>2. Sendable(m)
  BY <1>1, RespServerAssumption DEF Range
<1>3. m.pieces \in Seq(Range(m.pieces)) /\ Range(m.pieces) \subseteq AnyPiece
  BY <1>2 DEF Sendable, IsSeq, AnyPiece
<1> QED BY <1>2, <1>3, SeqMonotonic

LEMMA PieceLists ==
    ASSUME NEW q \in Seq(Messages)
    PROVE  /\ [i \in DOMAIN q |-> q[i].pieces] \in Seq(Seq(AnyPiece))
           /\ Len([i \in DOMAIN q |-> q[i].pieces]) = Len(q)
<1>1. Len(q) \in Nat /\ DOMAIN q = 1 .. Len(q) /\ \A i \in 1 .. Len(q) : q[i] \in Messages
  BY LenProperties, ElementOfSeq
<1>2. \A i \in 1 .. Len(q) : q[i].pieces \in Seq(AnyPiece)
  BY <1>1, MessageType
<1> QED BY <1>1, <1>2

LEMMA PiecesConcat ==
    ASSUME NEW p \in Seq(Messages), NEW q \in Seq(Messages)
    PROVE  /\ Pieces(p \o q) = Pieces(p) \o Pieces(q)
           /\ Pieces(p) \in Seq(AnyPiece)
<1> DEFINE list(s) == [i \in DOMAIN s |-> s[i].pieces]
           r == p \o q
<1>1. /\ r \in Seq(Messages) /\ Len(r) = Len(p) + Len(q)
      /\ \A i \in 1 .. Len(p) + Len(q) : r[i] = IF i <= Len(p) THEN p[i] ELSE q[i - Len(p)]
  BY ConcatProperties
<1>2. /\ DOMAIN p = 1 .. Len(p) /\ DOMAIN q = 1 .. Len(q) /\ DOMAIN r = 1 .. Len(r)
      /\ Len(p) \in Nat /\ Len(q) \in Nat
  BY <1>1, LenProperties
<1>3. /\ list(p) \in Seq(Seq(AnyPiece)) /\ Len(list(p)) = Len(p)
      /\ list(q) \in Seq(Seq(AnyPiece)) /\ Len(list(q)) = Len(q)
      /\ list(r) \in Seq(Seq(AnyPiece)) /\ Len(list(r)) = Len(r)
  BY <1>1, PieceLists
<1> HIDE DEF r
<1> DEFINE lp == list(p)
           lq == list(q)
           lr == list(r)
           s  == lp \o lq
<1>4. \A i \in 1 .. Len(r) : lr[i] = IF i <= Len(p) THEN lp[i] ELSE lq[i - Len(p)]
  <2> TAKE i \in 1 .. Len(r)
  <2>1. lr[i] = r[i].pieces
    BY <1>2
  <2>2. CASE i <= Len(p)
    <3>1. i \in DOMAIN p
      BY <1>1, <1>2, <2>2
    <3>2. lp[i] = p[i].pieces
      BY <3>1
    <3> QED BY <1>1, <2>1, <2>2, <3>2
  <2>3. CASE ~ (i <= Len(p))
    <3>1. i - Len(p) \in DOMAIN q
      BY <1>1, <1>2, <2>3
    <3>2. lq[i - Len(p)] = q[i - Len(p)].pieces
      BY <3>1
    <3> QED BY <1>1, <2>1, <2>3, <3>2
  <2> QED BY <2>2, <2>3
<1>5. /\ lp \in Seq(Seq(AnyPiece)) /\ Len(lp) = Len(p)
      /\ lq \in Seq(Seq(AnyPiece)) /\ Len(lq) = Len(q)
      /\ lr \in Seq(Seq(AnyPiece)) /\ Len(lr) = Len(r)
  BY <1>3
<1> HIDE DEF lp, lq, lr
<1>6. /\ s \in Seq(Seq(AnyPiece))
      /\ Len(s) = Len(lp) + Len(lq)
      /\ \A i \in 1 .. Len(lp) + Len(lq) : s[i] = IF i <= Len(lp) THEN lp[i] ELSE lq[i - Len(lp)]
  BY <1>5, ConcatProperties
<1>7. FlattenSeq(s) = FlattenSeq(lp) \o FlattenSeq(lq) /\ FlattenSeq(lp) \in Seq(AnyPiece)
  BY <1>5, FlattenConcat
<1> HIDE DEF s
<1>8. lr = s
  <2>1. Len(s) = Len(lr) /\ \A i \in 1 .. Len(lr) : lr[i] = s[i]
    BY <1>1, <1>4, <1>5, <1>6
  <2> QED BY <1>5, <1>6, <2>1, SeqEqual
<1> QED BY <1>7, <1>8 DEF Pieces, lp, lq, lr, r

LEMMA PiecesOne ==
    ASSUME NEW m \in Messages
    PROVE  Pieces(<<m>>) = m.pieces
<1>1. m.pieces \in Seq(AnyPiece)
  BY MessageType
<1>2. [i \in DOMAIN <<m>> |-> <<m>>[i].pieces] = <<m.pieces>>
  OBVIOUS
<1> QED BY <1>1, <1>2, FlattenOne DEF Pieces

LEMMA PiecesNone == Pieces(<< >>) = << >>
<1>1. [i \in DOMAIN << >> |-> << >>[i].pieces] = << >>
  OBVIOUS
<1> QED BY <1>1, FlattenNone DEF Pieces

(* The pieces of the messages of q behind the first d.                     *)
From(q, d) == Pieces(SubSeq(q, d + 1, Len(q)))

LEMMA FromNext ==
    ASSUME NEW q \in Seq(Messages), NEW d \in 0 .. (Len(q) - 1)
    PROVE  /\ From(q, d) = q[d + 1].pieces \o From(q, d + 1)
           /\ q[d + 1] \in Messages
           /\ From(q, d) \in Seq(AnyPiece) /\ From(q, d + 1) \in Seq(AnyPiece)
<1>1. Len(q) \in Nat
  BY LenProperties
<1>2. d + 1 \in 1 .. Len(q) /\ Len(q) \in (d + 1) .. Len(q)
  BY <1>1
<1> DEFINE m == q[d + 1]
           rest == SubSeq(q, (d + 1) + 1, Len(q))
<1>3. m \in Messages
  BY <1>2, ElementOfSeq
<1>4. SubSeq(q, d + 1, Len(q)) = <<m>> \o rest
  BY <1>2, SubSeqRecursiveFirst
<1>5. rest \in Seq(Messages)
  <2>1. \A i \in ((d + 1) + 1) .. Len(q) : q[i] \in Messages
    BY ElementOfSeq
  <2> QED BY <1>1, <2>1, SubSeqProperties
<1>6. <<m>> \in Seq(Messages)
  BY <1>3
<1> HIDE DEF m, rest
<1>7. /\ Pieces(<<m>> \o rest) = Pieces(<<m>>) \o Pieces(rest)
      /\ Pieces(<<m>>) \in Seq(AnyPiece) /\ Pieces(rest) \in Seq(AnyPiece)
  BY <1>5, <1>6, PiecesConcat
<1>8. Pieces(<<m>>) = m.pieces
  BY <1>3, PiecesOne
<1>9. From(q, d) = m.pieces \o Pieces(rest) /\ From(q, d + 1) = Pieces(rest)
  BY <1>4, <1>7, <1>8 DEF From, rest
<1>10. m.pieces \o Pieces(rest) \in Seq(AnyPiece)
  BY <1>7, <1>8, ConcatProperties
<1> QED BY <1>3, <1>7, <1>9, <1>10 DEF m

LEMMA FromEnd ==
    ASSUME NEW q \in Seq(Messages)
    PROVE  From(q, Len(q)) = << >>
<1>1. Len(q) \in Nat
  BY LenProperties
<1>2. SubSeq(q, Len(q) + 1, Len(q)) = << >>
  BY <1>1, SubSeqEmpty
<1> QED BY <1>2, PiecesNone DEF From

LEMMA FromConcat ==
    ASSUME NEW q \in Seq(Messages), NEW b \in Seq(Messages)
    PROVE  From(q \o b, Len(q)) = Pieces(b)
<1> DEFINE r == q \o b
           s == SubSeq(r, Len(q) + 1, Len(r))
<1>1. /\ r \in Seq(Messages) /\ Len(r) = Len(q) + Len(b)
      /\ \A i \in 1 .. Len(q) + Len(b) : r[i] = IF i <= Len(q) THEN q[i] ELSE b[i - Len(q)]
  BY ConcatProperties
<1>2. Len(q) \in Nat /\ Len(b) \in Nat
  BY LenProperties
<1> HIDE DEF r
<1>3. \A i \in (Len(q) + 1) .. Len(r) : r[i] \in Messages
  BY <1>1, <1>2, ElementOfSeq
<1>4. /\ s \in Seq(Messages)
      /\ Len(s) = IF Len(q) + 1 <= Len(r) THEN Len(r) - (Len(q) + 1) + 1 ELSE 0
      /\ \A i \in 1 .. Len(r) - (Len(q) + 1) + 1 : s[i] = r[Len(q) + 1 + i - 1]
  BY <1>1, <1>2, <1>3, SubSeqProperties
<1> HIDE DEF s
<1>5. Len(s) = Len(b)
  BY <1>1, <1>2, <1>4
<1>6. ASSUME NEW i \in 1 .. Len(s) PROVE s[i] = b[i]
  <2>1. /\ i \in 1 .. Len(r) - (Len(q) + 1) + 1
        /\ Len(q) + 1 + i - 1 = Len(q) + i /\ Len(q) + i \in 1 .. Len(q) + Len(b)
        /\ ~ (Len(q) + i <= Len(q)) /\ Len(q) + i - Len(q) = i
    BY <1>1, <1>2, <1>5
  <2> QED BY <1>1, <1>4, <2>1
<1>7. s = b
  BY <1>4, <1>5, <1>6, SeqEqual
<1> QED BY <1>7 DEF From, s, r

(***************************************************************************)
(* The reader.                                                             *)
(***************************************************************************)
ReaderStates(m) == [taken : 0 .. Len(m.pieces), open : Seq(Int), got : Seq(AnyValue)]

Unread == [taken |-> 0, open |-> << >>, got |-> << >>]

LEMMA LacksType ==
    ASSUME NEW s \in Seq(Int), s # << >>
    PROVE  LacksOneLess(s) \in Seq(Int)
<1>1. Len(s) \in 1 .. Len(s)
  BY EmptySeq, LenProperties
<1>2. s[Len(s)] - 1 \in Int
  BY <1>1, ElementOfSeq
<1> QED BY <1>1, <1>2, ExceptSeq DEF LacksOneLess

LEMMA FrontType ==
    ASSUME NEW s \in Seq(Int), Len(s) > 1
    PROVE  Front(s) \in Seq(Int) /\ Front(s) # << >>
<1>1. Len(s) \in Nat
  BY LenProperties
<1>2. \A i \in 1 .. (Len(s) - 1) : s[i] \in Int
  BY <1>1, ElementOfSeq
<1> DEFINE f == SubSeq(s, 1, Len(s) - 1)
<1>3. /\ f \in Seq(Int)
      /\ Len(f) = IF 1 <= Len(s) - 1 THEN (Len(s) - 1) - 1 + 1 ELSE 0
  BY <1>1, <1>2, SubSeqProperties
<1> HIDE DEF f
<1>4. Len(f) # 0
  BY <1>1, <1>3
<1> QED BY <1>3, <1>4, EmptySeq DEF Front, f

LEMMA ReadOnType ==
    ASSUME NEW m \in Messages, NEW r \in ReaderStates(m)
    PROVE  ReadOn(m, r) \in ReaderStates(m)
<1> DEFINE p == m.pieces[r.taken + 1]
<1>1. /\ r.taken \in 0 .. Len(m.pieces) /\ r.open \in Seq(Int) /\ r.got \in Seq(AnyValue)
      /\ m.pieces \in Seq(AnyPiece) /\ Len(m.pieces) \in Nat
  BY MessageType, LenProperties DEF ReaderStates
<1>2. CASE AtEnd(r.open) /\ Len(r.open) > 1
  <2> DEFINE o == LacksOneLess(Front(r.open))
             g == IF Len(r.open) = 2 THEN Append(r.got, Scalar(Array(<< >>))) ELSE r.got
  <2>1. o \in Seq(Int)
    BY <1>1, <1>2, FrontType, LacksType
  <2>2. Scalar(Array(<< >>)) \in AnyValue
    BY DEF AnyValue
  <2>3. g \in Seq(AnyValue)
    BY <1>1, <2>2, AppendProperties
  <2>4. ReadOn(m, r) = [taken |-> r.taken, open |-> o, got |-> g]
    BY <1>2 DEF ReadOn
  <2> HIDE DEF o, g
  <2> QED BY <1>1, <2>1, <2>3, <2>4 DEF ReaderStates
<1>3. CASE ~AtEnd(r.open) /\ r.taken < Len(m.pieces) /\ p.piece = "array"
  <2> DEFINE o == Append(r.open, p.n)
  <2>1. r.taken + 1 \in DOMAIN m.pieces
    BY <1>1, <1>3, LenProperties
  <2>2. p.n \in Int
    BY <1>3, <2>1, MessageType DEF Sendable
  <2>3. o \in Seq(Int)
    BY <1>1, <2>2, AppendProperties
  <2>4. ReadOn(m, r) = [taken |-> r.taken + 1, open |-> o, got |-> r.got]
    BY <1>3 DEF ReadOn
  <2> HIDE DEF o, p
  <2> QED BY <1>1, <1>3, <2>3, <2>4 DEF ReaderStates
<1>4. CASE /\ ~AtEnd(r.open) /\ r.taken < Len(m.pieces)
           /\ p.piece \in {"word", "scalar"} /\ r.open # << >>
  <2> DEFINE o == LacksOneLess(r.open)
             g == IF Len(r.open) = 1 THEN Append(r.got, p) ELSE r.got
  <2>1. o \in Seq(Int)
    BY <1>1, <1>4, LacksType
  <2>2. p \in AnyValue
    <3>1. r.taken + 1 \in 1 .. Len(m.pieces)
      BY <1>1, <1>4
    <3> QED BY <1>1, <3>1, ElementOfSeq DEF AnyValue
  <2>3. g \in Seq(AnyValue)
    <3> HIDE DEF p
    <3> QED BY <1>1, <2>2, AppendProperties
  <2>4. ReadOn(m, r) = [taken |-> r.taken + 1, open |-> o, got |-> g]
    BY <1>4 DEF ReadOn
  <2> HIDE DEF o, g, p
  <2> QED BY <1>1, <1>4, <2>1, <2>3, <2>4 DEF ReaderStates
<1>5. CASE /\ ~ (AtEnd(r.open) /\ Len(r.open) > 1)
           /\ ~ (~AtEnd(r.open) /\ r.taken < Len(m.pieces) /\ p.piece = "array")
           /\ ~ (/\ ~AtEnd(r.open) /\ r.taken < Len(m.pieces)
                 /\ p.piece \in {"word", "scalar"} /\ r.open # << >>)
  <2>1. ReadOn(m, r) = r
    BY <1>5 DEF ReadOn
  <2> QED BY <2>1
<1> QED BY <1>2, <1>3, <1>4, <1>5

LEMMA ReadsSteps ==
    ASSUME NEW m \in Messages, NEW after, after = Reads(m)
    PROVE  /\ after[0] = Unread
           /\ \A i \in 1 .. 2 * Len(m.pieces) : after[i] = ReadOn(m, after[i - 1])
           /\ \A i \in 0 .. 2 * Len(m.pieces) : after[i] \in ReaderStates(m)
<1> DEFINE c == 2 * Len(m.pieces)
           X == ReaderStates(m)
           f == [p \in (1 .. c) \X X |-> ReadOn(m, p[2])]
<1>0. Len(m.pieces) \in Nat
  BY MessageType, LenProperties
<1>1. c \in Nat /\ Unread \in X
  BY <1>0, EmptySeq DEF Unread, ReaderStates
<1>2. \A r \in X : ReadOn(m, r) \in X
  BY ReadOnType
<1> HIDE DEF X, c
<1>3. f \in [(1 .. c) \X X -> X]
  BY <1>2
<1> HIDE DEF f
<1>4. PICK g \in [0 .. c -> X] : IsStepwise(g, f, Unread, c)
  BY <1>1, <1>3, Stepwise
<1>5. g[0] = Unread /\ \A i \in 1 .. c : g[i] = f[<<i, g[i - 1]>>]
  BY <1>4 DEF IsStepwise
<1>6. \A i \in 1 .. c : g[i] = ReadOn(m, g[i - 1])
  <2> TAKE i \in 1 .. c
  <2>1. i - 1 \in 0 .. c
    BY <1>1
  <2>2. g[i - 1] \in X /\ <<i, g[i - 1]>> \in (1 .. c) \X X
    BY <2>1
  <2> QED BY <1>5, <2>2 DEF f
<1>7. g = [i \in 0 .. c |-> IF i = 0 THEN Unread ELSE ReadOn(m, g[i - 1])]
  BY <1>5, <1>6
<1>8. after = [i \in 0 .. c |-> IF i = 0 THEN Unread ELSE ReadOn(m, after[i - 1])]
  BY <1>7 DEF Reads, Unread, c
<1>9. after[0] = Unread /\ \A i \in 1 .. c : after[i] = ReadOn(m, after[i - 1])
  <2>1. \A i \in 0 .. c : after[i] = IF i = 0 THEN Unread ELSE ReadOn(m, after[i - 1])
    BY <1>8, Zenon
  <2>2. 0 \in 0 .. c /\ \A i \in 1 .. c : i \in 0 .. c /\ i # 0
    BY <1>1
  <2> QED BY <2>1, <2>2
<1> DEFINE T == {i \in 0 .. c : after[i] \in X}
<1>10. 0 \in T /\ \A i \in 1 .. c : i - 1 \in T => i \in T
  BY <1>1, <1>2, <1>9
<1>11. 0 .. c \subseteq T
  <2> HIDE DEF T
  <2> QED BY <1>1, <1>10, UpTo
<1> QED BY <1>9, <1>11 DEF c, X

(* The states of the reader on its way through a message.                  *)
OnTheWay(m) == {Reads(m)[i] : i \in 0 .. 2 * Len(m.pieces)}

(* It goes on until it stays, and where it stays the message is read to    *)
(* its end or there is something in it that is no value.                   *)
LEMMA ReaderStays ==
    ASSUME NEW m \in Messages, NEW r \in OnTheWay(m)
    PROVE  /\ r \in ReaderStates(m)
           /\ ReadOn(m, r) \in OnTheWay(m)
           /\ ReadOn(m, r) = r => Complete(m, r) \/ (Refused(m, r) /\ ~m.ok)
<1> DEFINE after == Reads(m)
           c == 2 * Len(m.pieces)
           Final(s) == Complete(m, s) \/ (Refused(m, s) /\ ~m.ok)
<1>1. /\ after[0] = Unread
      /\ \A i \in 1 .. c : after[i] = ReadOn(m, after[i - 1])
      /\ \A i \in 0 .. c : after[i] \in ReaderStates(m)
  BY ReadsSteps
<1>2. c \in Nat
  BY MessageType, LenProperties
<1>3. Final(after[c])
  BY MessageType DEF Sendable
<1>4. PICK i \in 0 .. c : r = after[i]
  BY DEF OnTheWay
<1>5. ASSUME NEW s, Final(s) PROVE ReadOn(m, s) = s
  <2>1. CASE Complete(m, s)
    <3>1. s.open = <<0>> /\ AtEnd(s.open) /\ ~ (Len(s.open) > 1)
      BY <2>1 DEF Complete, AtEnd
    <3> QED BY <3>1 DEF ReadOn
  <2>2. CASE Refused(m, s)
    BY <2>2 DEF Refused, Unreadable, ReadOn
  <2> QED BY <1>5, <2>1, <2>2
<1> HIDE DEF after, c, Final
<1>6. ASSUME ReadOn(m, r) = r PROVE Final(r)
  <2> DEFINE T == {j \in 0 .. c : j >= i => after[j] = r}
  <2>1. 0 \in T
    BY <1>2, <1>4
  <2>2. \A j \in 1 .. c : j - 1 \in T => j \in T
    <3> SUFFICES ASSUME NEW j \in 1 .. c, j - 1 \in T, j >= i
                 PROVE  after[j] = r
      BY <1>2
    <3>1. CASE j = i
      BY <1>4, <3>1
    <3>2. CASE j # i
      <4>1. after[j - 1] = r
        BY <1>2, <3>2
      <4> QED BY <1>1, <1>6, <4>1
    <3> QED BY <3>1, <3>2
  <2>3. 0 .. c \subseteq T
    <3> HIDE DEF T
    <3> QED BY <1>2, <2>1, <2>2, UpTo
  <2>4. after[c] = r
    BY <1>2, <1>4, <2>3
  <2> QED BY <1>3, <2>4
<1>7. ReadOn(m, r) \in OnTheWay(m)
  <2>1. CASE i = c
    <3>1. ReadOn(m, r) = r
      BY <1>3, <1>4, <1>5, <2>1
    <3> QED BY <3>1
  <2>2. CASE i # c
    <3>1. i + 1 \in 1 .. c /\ (i + 1) - 1 = i /\ i + 1 \in 0 .. c
      BY <1>2, <2>2
    <3>2. after[i + 1] = ReadOn(m, r)
      BY <1>1, <1>4, <3>1
    <3> QED BY <3>1, <3>2 DEF OnTheWay, after, c
  <2> QED BY <2>1, <2>2
<1>8. r \in ReaderStates(m)
  BY <1>1, <1>4
<1> QED BY <1>6, <1>7, <1>8 DEF Final

LEMMA ReaderStarts ==
    ASSUME NEW m \in Messages
    PROVE  Unread \in OnTheWay(m)
<1>1. Reads(m)[0] = Unread /\ Len(m.pieces) \in Nat
  BY ReadsSteps, MessageType, LenProperties
<1>2. 0 \in 0 .. 2 * Len(m.pieces)
  BY <1>1
<1> QED BY <1>1, <1>2 DEF OnTheWay

(* Behind an array that is at its end the reader has a command or returns  *)
(* to the array around it, and otherwise there is a piece for it to take.  *)
LEMMA ReaderWaits ==
    ASSUME NEW m \in Messages, NEW r \in OnTheWay(m)
    PROVE  /\ r.open = <<0>> => Complete(m, r)
           /\ ~AtEnd(r.open) => r.taken < Len(m.pieces)
           /\ ~AtEnd(r.open) /\ Unreadable(m.pieces[r.taken + 1], r.open) => ~m.ok
<1>1. /\ r.taken \in 0 .. Len(m.pieces) /\ Len(m.pieces) \in Nat
      /\ ReadOn(m, r) = r => Complete(m, r) \/ (Refused(m, r) /\ ~m.ok)
  BY ReaderStays, MessageType, LenProperties DEF ReaderStates
<1>2. ASSUME r.open = << 0 >> PROVE Complete(m, r)
  <2>1. AtEnd(r.open) /\ ~ (Len(r.open) > 1)
    BY <1>2 DEF AtEnd
  <2>2. ReadOn(m, r) = r
    BY <2>1 DEF ReadOn
  <2> QED BY <1>1, <2>1, <2>2 DEF Refused
<1>3. Complete(m, r) => AtEnd(r.open)
  BY DEF Complete, AtEnd
<1>4. ASSUME ~AtEnd(r.open), ~ (r.taken < Len(m.pieces)) PROVE FALSE
  <2>1. ReadOn(m, r) = r
    BY <1>4 DEF ReadOn
  <2> QED BY <1>1, <1>3, <1>4, <2>1 DEF Refused
<1>5. ASSUME ~AtEnd(r.open), Unreadable(m.pieces[r.taken + 1], r.open) PROVE ~m.ok
  <2>1. ReadOn(m, r) = r
    BY <1>5 DEF ReadOn, Unreadable
  <2> QED BY <1>1, <1>3, <1>5, <2>1
<1> QED BY <1>2, <1>4, <1>5

(***************************************************************************)
(* What clients may send covers what redis_client writes.                  *)
(***************************************************************************)
(* The reader behind the first k pieces of the command c.                  *)
Behind(c, k) ==
    IF k = 0 THEN Unread
    ELSE [taken |-> k, open |-> <<Len(c.args) + 2 - k>>, got |-> SubSeq(Message(c).pieces, 2, k)]

LEMMA CommandPieces ==
    ASSUME NEW c, IsSeq(c.args), NEW P, P = Message(c).pieces
    PROVE  /\ IsSeq(P) /\ Len(P) = Len(c.args) + 2
           /\ P[1] = Opening(Len(c.args) + 1) /\ P[2] = Word(c.name)
           /\ \A i \in 1 .. Len(c.args) : P[i + 2] = Scalar(c.args[i])
<1> DEFINE n == Len(c.args)
           a == <<Opening(n + 1), Word(c.name)>>
           b == [i \in DOMAIN c.args |-> Scalar(c.args[i])]
<1>1. n \in Nat /\ DOMAIN c.args = 1 .. n
  BY IsSeqLen
<1>2. P = a \o b
  BY DEF Message, Msg
<1>3. IsSeq(a) /\ Len(a) = 2 /\ a[1] = Opening(n + 1) /\ a[2] = Word(c.name)
  <2>1. a \in Seq({Opening(n + 1), Word(c.name)})
    OBVIOUS
  <2> QED BY <2>1, SeqIsSeq
<1>4. IsSeq(b) /\ Len(b) = n /\ \A i \in 1 .. n : b[i] = Scalar(c.args[i])
  <2>1. b \in Seq({Scalar(c.args[i]) : i \in 1 .. n}) /\ Len(b) = n
    BY <1>1
  <2> QED BY <1>1, <2>1, SeqIsSeq
<1> HIDE DEF n, a, b
<1>5. /\ IsSeq(P) /\ Len(P) = Len(a) + Len(b)
      /\ \A i \in 1 .. Len(a) : P[i] = a[i]
      /\ \A i \in 1 .. Len(b) : P[Len(a) + i] = b[i]
  <2>1. IsSeq(a) /\ IsSeq(b)
    BY <1>3, <1>4
  <2>2. /\ IsSeq(a \o b) /\ Len(a \o b) = Len(a) + Len(b)
        /\ \A i \in 1 .. Len(a) : (a \o b)[i] = a[i]
        /\ \A i \in 1 .. Len(b) : (a \o b)[Len(a) + i] = b[i]
    BY <2>1, IsSeqConcat
  <2> QED BY <1>2, <2>2
<1>6. P[1] = a[1] /\ P[2] = a[2] /\ Len(P) = n + 2
  BY <1>1, <1>3, <1>4, <1>5
<1>7. \A i \in 1 .. n : P[i + 2] = b[i]
  <2>1. \A i \in 1 .. n : P[2 + i] = b[i]
    BY <1>3, <1>4, <1>5
  <2>2. \A i \in 1 .. n : 2 + i = i + 2
    BY <1>1
  <2> QED BY <2>1, <2>2
<1> QED BY <1>3, <1>4, <1>5, <1>6, <1>7 DEF n

LEMMA CommandStep ==
    ASSUME NEW c, IsSeq(c.args), NEW k \in 0 .. (Len(c.args) + 1)
    PROVE  ReadOn(Message(c), Behind(c, k)) = Behind(c, k + 1)
<1> DEFINE n == Len(c.args)
           P == Message(c).pieces
           S == Range(P)
<1>1. n \in Nat
  BY IsSeqLen
<1>2. /\ IsSeq(P) /\ Len(P) = n + 2
      /\ P[1] = Opening(n + 1) /\ P[2] = Word(c.name)
      /\ \A i \in 1 .. n : P[i + 2] = Scalar(c.args[i])
  BY CommandPieces
<1> HIDE DEF n, P
<1>3. P \in Seq(S)
  BY <1>2 DEF IsSeq
<1> DEFINE r == Behind(c, k)
<1>4. CASE k = 0
  <2>1. r.taken = 0 /\ r.open = << >> /\ r.got = << >>
    BY <1>4 DEF Behind, Unread
  <2>2. P[r.taken + 1] = Opening(n + 1) /\ r.taken < Len(P)
    BY <1>1, <1>2, <2>1
  <2>3. SubSeq(P, 2, 1) = << >>
    BY <1>3, SubSeqEmpty
  <2>4. Behind(c, 1) = [taken |-> 1, open |-> <<n + 1>>, got |-> << >>]
    <3>1. n + 2 - 1 = n + 1
      BY <1>1
    <3> QED BY <2>3, <3>1 DEF Behind, P, n
  <2> HIDE DEF r
  <2>5. Append(<< >>, n + 1) = <<n + 1>>
    BY <1>1
  <2>6. ReadOn(Message(c), r) = [taken |-> 1, open |-> Append(<< >>, n + 1), got |-> << >>]
    BY <2>1, <2>2 DEF ReadOn, AtEnd, Opening, P
  <2> QED BY <1>4, <2>4, <2>5, <2>6 DEF r
<1>5. CASE k # 0
  <2>1. k \in 1 .. (n + 1)
    BY <1>1, <1>5 DEF n
  <2>2. r.taken = k /\ r.open = <<n + 2 - k>> /\ r.got = SubSeq(P, 2, k)
    BY <1>5 DEF Behind, P, n
  <2>3. P[k + 1].piece \in {"word", "scalar"}
    <3>1. CASE k = 1
      BY <1>2, <3>1 DEF Word
    <3>2. CASE k # 1
      <4>1. k - 1 \in 1 .. n /\ (k - 1) + 2 = k + 1
        BY <1>1, <2>1, <3>2
      <4>2. P[k + 1] = Scalar(c.args[k - 1])
        BY <1>2, <4>1
      <4> QED BY <4>2 DEF Scalar
    <3> QED BY <3>1, <3>2
  <2>4. n + 2 - k # 0 /\ n + 2 - k \in Nat /\ k < Len(P) /\ k + 1 # 0 /\ (n + 2 - k) - 1 = n + 2 - (k + 1)
    BY <1>1, <1>2, <2>1
  <2>5. Append(SubSeq(P, 2, k), P[k + 1]) = SubSeq(P, 2, k + 1)
    <3>1. 2 \in 1 .. Len(P) /\ k + 1 \in 2 .. Len(P) /\ (k + 1) - 1 = k
      BY <1>1, <1>2, <2>1
    <3>2. SubSeq(P, 2, k + 1) = SubSeq(P, 2, (k + 1) - 1) \o <<P[k + 1]>>
      BY <1>3, <3>1, SubSeqRecursiveSecond
    <3>3. SubSeq(P, 2, k) \in Seq(S)
      <4>1. \A i \in 2 .. k : P[i] \in S
        BY <1>1, <1>2, <1>3, <2>1, ElementOfSeq
      <4>2. 2 \in Int /\ k \in Int
        BY <2>1
      <4> QED BY <4>1, <4>2, SubSeqProperties
    <3>4. P[k + 1] \in S
      <4>1. k + 1 \in 1 .. Len(P)
        BY <3>1
      <4> QED BY <1>3, <4>1, ElementOfSeq
    <3> QED BY <3>1, <3>2, <3>3, <3>4, AppendIsConcat
  <2>6. Behind(c, k + 1) = [taken |-> k + 1, open |-> <<n + 2 - (k + 1)>>, got |-> SubSeq(P, 2, k + 1)]
    BY <2>4 DEF Behind, P, n
  <2> HIDE DEF r
  <2>7. LacksOneLess(<<n + 2 - k>>) = <<n + 2 - (k + 1)>>
    <3> DEFINE v == n + 2 - k
    <3>1. v \in Int /\ v - 1 = n + 2 - (k + 1)
      BY <2>4
    <3> HIDE DEF v
    <3>2. LacksOneLess(<<v>>) = <<v - 1>>
      BY <3>1 DEF LacksOneLess
    <3> QED BY <3>1, <3>2 DEF v
  <2>8. ~AtEnd(r.open) /\ r.open # << >> /\ Len(r.open) = 1
    BY <2>2, <2>4 DEF AtEnd
  <2>9. ReadOn(Message(c), r) =
            [taken |-> k + 1, open |-> LacksOneLess(<<n + 2 - k>>),
             got |-> Append(SubSeq(P, 2, k), P[k + 1])]
    BY <2>2, <2>3, <2>4, <2>8 DEF ReadOn, P
  <2> QED BY <2>5, <2>6, <2>7, <2>9 DEF r
<1> QED BY <1>4, <1>5

LEMMA CommandComplete ==
    ASSUME NEW c, IsSeq(c.args), c = Command(c.name, c.args)
    PROVE  Complete(Message(c), Behind(c, Len(c.args) + 2))
<1> DEFINE n == Len(c.args)
           P == Message(c).pieces
           g == SubSeq(P, 2, n + 2)
           r == Behind(c, n + 2)
<1>1. n \in Nat /\ DOMAIN c.args = 1 .. n
  BY IsSeqLen
<1>2. /\ IsSeq(P) /\ Len(P) = n + 2
      /\ P[2] = Word(c.name)
      /\ \A i \in 1 .. n : P[i + 2] = Scalar(c.args[i])
  BY CommandPieces
<1>3. r.taken = n + 2 /\ r.open = <<0>> /\ r.got = g
  <2>1. n + 2 # 0 /\ n + 2 - (n + 2) = 0
    BY <1>1
  <2> QED BY <2>1 DEF Behind
<1> HIDE DEF n, P, r
<1>4. Len(g) = n + 1 /\ \A i \in 1 .. (n + 1) : g[i] = P[i + 1]
  <2>1. P \in Seq(Range(P)) /\ \A i \in 2 .. (n + 2) : P[i] \in Range(P)
    BY <1>1, <1>2, IsSeqLen DEF IsSeq, Range
  <2>2. /\ Len(g) = IF 2 <= n + 2 THEN (n + 2) - 2 + 1 ELSE 0
        /\ \A i \in 1 .. (n + 2) - 2 + 1 : g[i] = P[2 + i - 1]
        /\ g \in Seq(Range(P))
    BY <1>1, <2>1, SubSeqProperties
  <2>3. 2 <= n + 2 /\ (n + 2) - 2 + 1 = n + 1 /\ \A i \in 1 .. (n + 1) : 2 + i - 1 = i + 1
    BY <1>1
  <2> HIDE DEF g
  <2> QED BY <2>2, <2>3
<1> HIDE DEF g
<1>5. g # << >> /\ g[1] = Word(c.name) /\ Len(g) - 1 = n
  BY <1>1, <1>2, <1>4
<1>6. \A i \in 1 .. n : g[i + 1].val = c.args[i]
  <2> TAKE i \in 1 .. n
  <2>1. i + 1 \in 1 .. (n + 1) /\ (i + 1) + 1 = i + 2
    BY <1>1
  <2>2. g[i + 1] = Scalar(c.args[i])
    BY <1>2, <1>4, <2>1
  <2> QED BY <2>2 DEF Scalar
<1>7. [i \in 1 .. n |-> g[i + 1].val] = c.args
  <2>1. c.args = [i \in 1 .. n |-> c.args[i]]
    BY <1>1 DEF IsSeq
  <2> QED BY <1>6, <2>1
<1>8. CommandOf(g) = c
  <2>1. g # << >> /\ g[1].piece = "word" /\ g[1].word = c.name
    BY <1>5 DEF Word
  <2>2. [i \in 1 .. (Len(g) - 1) |-> g[i + 1].val] = c.args
    BY <1>5, <1>7
  <2> QED BY <2>1, <2>2, Zenon DEF CommandOf
<1>9. Message(c).cmd = c
  BY DEF Message, Msg
<1> QED BY <1>2, <1>3, <1>8, <1>9 DEF Complete, P, r, n

(* A command with its arguments, none of them an array, as redis_client    *)
(* formats it, is something that clients may send, if its handler answers  *)
(* it: readCommand takes it to its end, keeps the name and all arguments   *)
(* in their order, and asks for no more.                                   *)
THEOREM CommandsAreSendable ==
    ASSUME NEW c, IsSeq(c.args), c = Command(c.name, c.args), Answerable(c)
    PROVE  Sendable(Message(c))
<1> DEFINE n == Len(c.args)
           m == Message(c)
           top == 2 * Len(m.pieces)
           full == n + 2
           g == [k \in 0 .. top |-> IF k <= full THEN Behind(c, k) ELSE Behind(c, full)]
           after == Reads(m)
<1>1. n \in Nat
  BY IsSeqLen
<1>2. /\ IsSeq(m.pieces) /\ Len(m.pieces) = n + 2
      /\ m.pieces[1] = Opening(n + 1) /\ m.pieces[2] = Word(c.name)
      /\ \A i \in 1 .. n : m.pieces[i + 2] = Scalar(c.args[i])
  BY CommandPieces
<1>3. Complete(m, Behind(c, full))
  BY CommandComplete
<1>4. ReadOn(m, Behind(c, full)) = Behind(c, full)
  <2> DEFINE r == Behind(c, full)
  <2>1. r.open = <<0>>
    BY <1>3 DEF Complete
  <2> HIDE DEF r
  <2>2. AtEnd(r.open) /\ ~ (Len(r.open) > 1)
    BY <2>1 DEF AtEnd
  <2>3. ReadOn(m, r) = r
    BY <2>2 DEF ReadOn
  <2> QED BY <2>3 DEF r
<1>5. \A k \in 0 .. (n + 1) : ReadOn(m, Behind(c, k)) = Behind(c, k + 1)
  BY CommandStep
<1>6. top = 2 * (n + 2) /\ full \in 0 .. top /\ top \in Nat
  BY <1>1, <1>2
<1> HIDE DEF m
<1>7. \A k \in 1 .. top : g[k] = ReadOn(m, g[k - 1])
  <2> SUFFICES ASSUME NEW k \in 1 .. top PROVE g[k] = ReadOn(m, g[k - 1])
    OBVIOUS
  <2>1. k \in 0 .. top /\ k - 1 \in 0 .. top
    BY <1>6
  <2>2. /\ g[k] = IF k <= full THEN Behind(c, k) ELSE Behind(c, full)
        /\ g[k - 1] = IF k - 1 <= full THEN Behind(c, k - 1) ELSE Behind(c, full)
    BY <2>1
  <2> HIDE DEF g
  <2>3. CASE k <= full
    <3>1. k - 1 \in 0 .. (n + 1) /\ (k - 1) + 1 = k /\ k - 1 <= full
      BY <1>1, <1>6, <2>3
    <3> QED BY <1>5, <2>2, <2>3, <3>1
  <2>4. CASE k = full + 1
    <3>1. k - 1 = full /\ ~ (k <= full)
      BY <1>1, <2>4
    <3> QED BY <1>4, <2>2, <3>1
  <2>5. CASE k > full + 1
    <3>1. ~ (k - 1 <= full) /\ ~ (k <= full)
      BY <1>1, <2>5
    <3> QED BY <1>4, <2>2, <3>1
  <2> QED BY <1>1, <1>6, <2>3, <2>4, <2>5
<1>8. g[0] = Unread
  BY <1>1, <1>6 DEF Behind
<1>9. g = [k \in 0 .. top |-> IF k = 0 THEN Unread ELSE ReadOn(m, g[k - 1])]
  <2>1. \A k \in 0 .. top : k # 0 => k \in 1 .. top
    BY <1>6
  <2> HIDE DEF top, full
  <2>2. \A k \in 0 .. top : g[k] = IF k = 0 THEN Unread ELSE ReadOn(m, g[k - 1])
    BY <1>7, <1>8, <2>1
  <2>3. g = [k \in 0 .. top |-> g[k]]
    OBVIOUS
  <2> HIDE DEF g
  <2> QED BY <2>2, <2>3
<1>10. after = [k \in 0 .. top |-> IF k = 0 THEN Unread ELSE ReadOn(m, after[k - 1])]
  <2> HIDE DEF g
  <2> QED BY <1>9 DEF Reads, Unread
<1> HIDE DEF g, after, top
<1>11. after[0] = Unread /\ \A k \in 1 .. top : after[k] = ReadOn(m, after[k - 1])
  <2>1. \A k \in 0 .. top : after[k] = IF k = 0 THEN Unread ELSE ReadOn(m, after[k - 1])
    BY <1>10, Zenon
  <2>2. 0 \in 0 .. top /\ \A k \in 1 .. top : k \in 0 .. top /\ k # 0
    BY <1>6
  <2> QED BY <2>1, <2>2
<1> DEFINE T == {k \in 0 .. top : after[k] = g[k]}
<1>12. 0 \in T /\ \A k \in 1 .. top : k - 1 \in T => k \in T
  BY <1>6, <1>7, <1>8, <1>11
<1>13. 0 .. top \subseteq T
  <2> HIDE DEF T
  <2> QED BY <1>6, <1>12, UpTo
<1>14. after[top] = g[top] /\ g[top] = Behind(c, full)
  <2>1. after[top] = g[top] /\ top \in 0 .. top
    BY <1>6, <1>13
  <2>2. top > full
    BY <1>1, <1>6
  <2>3. ~ (top <= full)
    BY <1>1, <1>6, <2>2
  <2> QED BY <2>1, <2>3 DEF g
<1>15. Complete(m, Reads(m)[2 * Len(m.pieces)])
  BY <1>3, <1>14 DEF after, top
<1>16. \A i \in DOMAIN m.pieces : m.pieces[i].piece = "array" => m.pieces[i].n \in Nat
  <2> SUFFICES ASSUME NEW i \in 1 .. (n + 2), m.pieces[i].piece = "array"
               PROVE  m.pieces[i].n \in Nat
    BY <1>2, IsSeqLen
  <2>1. CASE i = 1
    BY <1>1, <1>2, <2>1 DEF Opening
  <2>2. CASE i = 2
    BY <1>2, <2>2 DEF Word
  <2>3. CASE i > 2
    <3>1. i - 2 \in 1 .. n /\ (i - 2) + 2 = i
      BY <1>1, <2>3
    <3>2. m.pieces[i] = Scalar(c.args[i - 2])
      BY <1>2, <3>1
    <3> QED BY <3>2 DEF Scalar
  <2> QED BY <1>1, <2>1, <2>2, <2>3
<1>17. m.cmd = c
  BY DEF Message, Msg, m
<1> QED BY <1>2, <1>15, <1>16, <1>17 DEF Sendable, m

-----------------------------------------------------------------------------
(***************************************************************************)
(* The invariant.                                                          *)
(***************************************************************************)
Phases == {"new", "queue", "flush", "fetch", "closed"}

ServerTypes ==
    /\ srv \in {"accept", "read", "write", "down"}
    /\ conn \in Conn \cup {NoConn} /\ (srv = "accept" <=> conn = NoConn)
    /\ alive \in BOOLEAN /\ (alive <=> srv # "down")
    /\ IsSeq(writeBuf) /\ (srv = "read" => writeBuf = << >>)

ClientTypes ==
    /\ up \in [Conn -> Seq(AnyPiece)] /\ obuf \in [Conn -> Seq(AnyPiece)]
    /\ phase \in [Conn -> Phases] /\ sent \in [Conn -> Seq(Batches)]
    /\ DOMAIN done = Conn /\ DOMAIN received = Conn /\ DOMAIN down = Conn
    /\ \A c \in Conn : IsSeq(done[c]) /\ IsSeq(received[c]) /\ IsSeq(down[c])

(* A connection waits for accept at most once, and no longer when it is    *)
(* served.                                                                 *)
WaitsOnce ==
    /\ backlog \in Seq(Conn)
    /\ \A i \in DOMAIN backlog : phase[backlog[i]] # "new" /\ backlog[i] # conn
    /\ \A i, j \in DOMAIN backlog : i # j => backlog[i] # backlog[j]
    /\ conn \in Conn => phase[conn] # "new"

(* A client queues when it has all answers.                                *)
QueuesWhenDone ==
    \A c \in Conn : phase[c] \in {"new", "queue"} => Len(received[c]) = Len(Queued(c))

(* What lies between a client and the server is what the client has queued *)
(* of the messages not yet executed, but for the first n pieces; if the    *)
(* client is gone, the first part of that.                                 *)
Way(c) == up[c] \o obuf[c]

Flow(c, n) ==
    LET rest == From(Queued(c), Len(done[c]))
    IN  /\ n + Len(Way(c)) <= Len(rest)
        /\ phase[c] # "closed" => n + Len(Way(c)) = Len(rest)
        /\ \A i \in 1 .. Len(Way(c)) : Way(c)[i] = rest[n + i]

(* These n pieces are those that the reader has taken of a message.        *)
Track(c, n) ==
    IF Len(done[c]) < Len(Queued(c)) /\ conn = c
    THEN [taken |-> n, open |-> open, got |-> got] \in OnTheWay(Queued(c)[Len(done[c]) + 1])
    ELSE n = 0 /\ (conn = c => open = << >> /\ got = << >>)

ToServe(c) == conn = c \/ c \in Range(backlog) \/ phase[c] = "new"

Stream(c) == \E n \in 0 .. Len(From(Queued(c), Len(done[c]))) : Flow(c, n) /\ Track(c, n)

Streams == alive => \A c \in Conn : ToServe(c) => Stream(c)

Answered(c) ==
    /\ Len(done[c]) <= Len(Queued(c))
    /\ \A i \in DOMAIN done[c] : done[c][i].cmd = Queued(c)[i].cmd
    /\ IsPrefix(received[c] \o down[c], Replies(c))
    /\ alive /\ phase[c] # "closed" => received[c] \o down[c] \o Unwritten(c) = Replies(c)

Answers == \A c \in Conn : Answered(c)

AnsweringInv ==
    /\ ServerTypes /\ ClientTypes /\ WaitsOnce /\ QueuesWhenDone
    /\ Streams /\ Answers /\ ServerOutlivesClients

(***************************************************************************)
(* What clients have queued.                                               *)
(***************************************************************************)
LEMMA QueueType ==
    ASSUME NEW s \in Seq(Batches)
    PROVE  FlattenSeq(s) \in Seq(Messages) /\ s \in Seq(Seq(Messages))
<1>1. Batches \subseteq Seq(Messages)
  BY BatchType
<1>2. s \in Seq(Seq(Messages))
  BY <1>1, SeqMonotonic
<1> QED BY <1>2, FlattenConcat

LEMMA QueueMore ==
    ASSUME NEW s \in Seq(Batches), NEW b \in Batches
    PROVE  /\ Append(s, b) \in Seq(Batches)
           /\ FlattenSeq(Append(s, b)) = FlattenSeq(s) \o b
           /\ b \in Seq(Messages)
<1>1. b \in Seq(Messages) /\ s \in Seq(Seq(Messages)) /\ <<b>> \in Seq(Seq(Messages))
  BY BatchType, QueueType
<1>2. Append(s, b) = s \o <<b>> /\ Append(s, b) \in Seq(Batches)
  BY AppendIsConcat, AppendProperties
<1>3. FlattenSeq(s \o <<b>>) = FlattenSeq(s) \o FlattenSeq(<<b>>)
  BY <1>1, FlattenConcat
<1>4. FlattenSeq(<<b>>) = b
  BY <1>1, FlattenOne
<1> QED BY <1>1, <1>2, <1>3, <1>4

LEMMA AliveOrNot ==
    ASSUME NEW c, ProcessCommand(c)
    PROVE  alive' = alive \/ alive' = FALSE
<1>1. ASSUME NEW r, NEW m, Respond(c, r, m) \/ Crash(c) PROVE alive' = alive \/ alive' = FALSE
  BY <1>1 DEF Respond, Crash
<1>2. ASSUME NEW k, NEW a, Increment(c, k, a) PROVE alive' = alive
  BY <1>2 DEF Increment, Respond
<1> QED BY <1>1, <1>2 DEF ProcessCommand, OnSimple, OnGet, OnSet, OnDel, OnIncr, OnIncrBy,
           OnMGet, OnMSet, OnZAdd, OnZRange, OnFlushAll

(***************************************************************************)
(* Types.                                                                  *)
(***************************************************************************)
LEMMA ServerTypesKept ==
    ASSUME ServerTypes, ClientTypes, WaitsOnce, ServerNext
    PROVE  ServerTypes'
<1> USE DEF ServerTypes
<1>0. NoConn \notin Conn
  BY RespServerAssumption
<1>1. CASE Accept
  <2>1. Head(backlog) \in Conn
    BY <1>1, HeadTailProperties DEF Accept, WaitsOnce
  <2> QED BY <1>0, <1>1, <2>1, IsSeqEmpty DEF Accept, FreshBuffers, apiVars
<1>2. CASE ReadHead \/ ReadScalar \/ EndInner
  BY <1>2 DEF ReadHead, ReadScalar, EndInner, apiVars
<1>3. CASE ReadFails
  BY <1>3 DEF ReadFails, Terminate, Reading
<1>4. CASE ReadEof
  BY <1>0, <1>4 DEF ReadEof, Disconnect, apiVars, Reading
<1>5. CASE Execute
  <2>1. alive' \in BOOLEAN
    BY <1>5, AliveOrNot DEF Execute
  <2>2. IsSeq(<<last'.reply>>) /\ IsSeq(<< >>)
    <3>1. <<last'.reply>> \in Seq({last'.reply})
      OBVIOUS
    <3> QED BY <3>1, IsSeqEmpty, SeqIsSeq
  <2>3. IsSeq(writeBuf')
    BY <1>5, <2>2 DEF Execute
  <2> QED BY <1>5, <2>1, <2>3 DEF Execute
<1>6. CASE Flush
  BY <1>6, IsSeqEmpty DEF Flush, apiVars
<1>7. CASE FlushFails
  BY <1>0, <1>7, IsSeqEmpty DEF FlushFails, Disconnect, apiVars
<1>8. ASSUME NEW c \in Conn, NEW batch \in Batches,
             Connect(c) \/ ClientStep(c) \/ Close(c) \/ AppendRun(c, batch)
      PROVE  ServerTypes'
  BY <1>8 DEF Connect, ClientStep, WritePiece, GetReply, Close, AppendRun, apiVars, server
<1>9. ASSUME NEW c \in Conn, Connect(c) \/ ClientStep(c) \/ Close(c)
      PROVE  ServerTypes'
  BY <1>9 DEF Connect, ClientStep, WritePiece, GetReply, Close, apiVars, server
<1> QED BY <1>1, <1>2, <1>3, <1>4, <1>5, <1>6, <1>7, <1>8, <1>9 DEF ServerNext, ServerStep

LEMMA ClientTypesKept ==
    ASSUME ServerTypes, ClientTypes, ServerNext
    PROVE  ClientTypes'
<1>1. CASE Accept \/ EndInner \/ ReadEof \/ FlushFails
  BY <1>1 DEF Accept, EndInner, ReadEof, FlushFails, client, ClientTypes
<1>2. CASE ReadHead \/ ReadScalar \/ ReadFails
  <2>1. up' = [up EXCEPT ![conn] = Tail(@)] /\ up[conn] # << >> /\ conn \in Conn
        /\ UNCHANGED <<client, done, down>>
    BY <1>2 DEF ReadHead, ReadScalar, ReadFails, Terminate, Reading, ConsumeUp, ServerTypes
  <2>2. Tail(up[conn]) \in Seq(AnyPiece)
    BY <2>1, HeadTailProperties DEF ClientTypes
  <2>3. up' \in [Conn -> Seq(AnyPiece)]
    BY <2>1, <2>2 DEF ClientTypes
  <2> QED BY <2>1, <2>3 DEF ClientTypes, client
<1>3. CASE Execute
  <2> DEFINE x == [cmd |-> last'.cmd, reply |-> last'.reply]
  <2>1. done' = [done EXCEPT ![conn] = Append(@, x)] /\ conn \in Conn /\ UNCHANGED <<up, down, client>>
    BY <1>3 DEF Execute, ServerTypes
  <2>2. IsSeq(Append(done[conn], x))
    BY <2>1, IsSeqAppend DEF ClientTypes
  <2>3. DOMAIN done' = Conn /\ \A c \in Conn : IsSeq(done'[c])
    BY <2>1, <2>2 DEF ClientTypes
  <2> QED BY <2>1, <2>3 DEF ClientTypes, client
<1>4. CASE Flush
  <2>1. down' = [down EXCEPT ![conn] = @ \o writeBuf] /\ conn \in Conn /\ UNCHANGED <<up, client, done>>
    BY <1>4 DEF Flush, ServerTypes
  <2>2. IsSeq(down[conn] \o writeBuf)
    BY <2>1, IsSeqConcat DEF ClientTypes, ServerTypes
  <2>3. DOMAIN down' = Conn /\ \A c \in Conn : IsSeq(down'[c])
    BY <2>1, <2>2 DEF ClientTypes
  <2> QED BY <2>1, <2>3 DEF ClientTypes, client
<1>5. ASSUME NEW c \in Conn, Connect(c) PROVE ClientTypes'
  BY <1>5 DEF Connect, ClientTypes, Phases
<1>6. ASSUME NEW c \in Conn, NEW batch \in Batches, AppendRun(c, batch) PROVE ClientTypes'
  <2>1. Append(sent[c], batch) \in Seq(Batches) /\ Pieces(batch) \in Seq(AnyPiece)
    BY QueueMore, PiecesConcat DEF ClientTypes
  <2> QED BY <1>6, <2>1 DEF AppendRun, ClientTypes, Phases
<1>7. ASSUME NEW c \in Conn, WritePiece(c) PROVE ClientTypes'
  <2>1. up[c] \in Seq(AnyPiece) /\ obuf[c] \in Seq(AnyPiece) /\ obuf[c] # << >>
    BY <1>7 DEF WritePiece, ClientTypes
  <2>2. Head(obuf[c]) \in AnyPiece /\ Tail(obuf[c]) \in Seq(AnyPiece)
    BY <2>1, HeadTailProperties
  <2>3. Append(up[c], Head(obuf[c])) \in Seq(AnyPiece)
    BY <2>1, <2>2, AppendProperties
  <2> QED BY <1>7, <2>2, <2>3 DEF WritePiece, ClientTypes, Phases
<1>8. ASSUME NEW c \in Conn, GetReply(c) PROVE ClientTypes'
  <2>1. IsSeq(received[c]) /\ IsSeq(down[c]) /\ down[c] # << >>
    BY <1>8 DEF GetReply, ClientTypes
  <2>2. IsSeq(Append(received[c], Head(down[c]))) /\ IsSeq(Tail(down[c]))
    BY <2>1, IsSeqAppend, IsSeqTail
  <2> QED BY <1>8, <2>2 DEF GetReply, ClientTypes, Phases
<1>9. ASSUME NEW c \in Conn, Close(c) PROVE ClientTypes'
  <2>1. PICK n \in 0 .. Len(up[c]) : up' = [up EXCEPT ![c] = SubSeq(@, 1, n)]
    BY <1>9 DEF Close
  <2>2. up[c] \in Seq(AnyPiece) /\ Len(up[c]) \in Nat /\ \A i \in 1 .. n : up[c][i] \in AnyPiece
    BY LenProperties, ElementOfSeq DEF ClientTypes
  <2>3. SubSeq(up[c], 1, n) \in Seq(AnyPiece)
    BY <2>2, SubSeqProperties
  <2>4. << >> \in Seq(AnyPiece) /\ IsSeq(<< >>)
    BY EmptySeq, IsSeqEmpty
  <2> QED BY <1>9, <2>1, <2>3, <2>4 DEF Close, ClientTypes, Phases
<1> QED BY <1>1, <1>2, <1>3, <1>4, <1>5, <1>6, <1>7, <1>8, <1>9 DEF ServerNext, ServerStep, ClientStep

(***************************************************************************)
(* The backlog, and clients that queue.                                    *)
(***************************************************************************)
LEMMA WaitsOnceKept ==
    ASSUME ServerTypes, ClientTypes, WaitsOnce, ServerNext
    PROVE  WaitsOnce'
<1>0. NoConn \notin Conn
  BY RespServerAssumption
<1>1. /\ Len(backlog) \in Nat /\ DOMAIN backlog = 1 .. Len(backlog)
      /\ \A i \in DOMAIN backlog : backlog[i] \in Conn
  BY LenProperties, ElementOfSeq DEF WaitsOnce
<1>2. CASE Accept
  <2>1. backlog' = Tail(backlog) /\ conn' = Head(backlog) /\ phase' = phase /\ backlog # << >>
    BY <1>2 DEF Accept, client
  <2>2. /\ Tail(backlog) \in Seq(Conn) /\ Len(Tail(backlog)) = Len(backlog) - 1
        /\ \A i \in 1 .. Len(Tail(backlog)) : Tail(backlog)[i] = backlog[i + 1]
    BY <2>1, HeadTailProperties DEF WaitsOnce
  <2>3. Head(backlog) = backlog[1] /\ 1 \in DOMAIN backlog
    BY <1>1, <2>1, IsSeqTail, EmptySeq, SeqIsSeq DEF WaitsOnce
  <2>4. DOMAIN Tail(backlog) = 1 .. Len(Tail(backlog))
    BY <2>2, LenProperties
  <2>5. \A i \in DOMAIN Tail(backlog) : i + 1 \in DOMAIN backlog /\ i + 1 # 1
    BY <1>1, <2>2, <2>4
  <2>6. \A i, j \in DOMAIN Tail(backlog) : i # j => i + 1 # j + 1
    BY <2>4
  <2>7. \A i \in DOMAIN Tail(backlog) :
            phase[Tail(backlog)[i]] # "new" /\ Tail(backlog)[i] # Head(backlog)
    BY <2>2, <2>3, <2>4, <2>5 DEF WaitsOnce
  <2>8. \A i, j \in DOMAIN Tail(backlog) : i # j => Tail(backlog)[i] # Tail(backlog)[j]
    BY <2>2, <2>4, <2>5, <2>6 DEF WaitsOnce
  <2>9. phase[Head(backlog)] # "new"
    BY <2>3 DEF WaitsOnce
  <2> QED BY <2>1, <2>2, <2>7, <2>8, <2>9 DEF WaitsOnce
<1>3. CASE ReadHead \/ ReadScalar \/ EndInner \/ ReadFails \/ Execute \/ Flush
  BY <1>3 DEF ReadHead, ReadScalar, EndInner, ReadFails, Terminate, Execute, Flush, client, WaitsOnce
<1>4. CASE ReadEof \/ FlushFails
  <2>1. backlog' = backlog /\ phase' = phase /\ (conn' = conn \/ conn' = NoConn)
    BY <1>4 DEF ReadEof, FlushFails, Disconnect, client
  <2> QED BY <1>0, <1>1, <2>1 DEF WaitsOnce
<1>5. ASSUME NEW c \in Conn, Connect(c) PROVE WaitsOnce'
  <2>1. /\ backlog' = Append(backlog, c) /\ conn' = conn /\ phase[c] = "new"
        /\ phase' = [phase EXCEPT ![c] = "queue"]
    BY <1>5 DEF Connect, server
  <2> DEFINE b == Append(backlog, c)
             n == Len(backlog)
  <2>2. /\ b \in Seq(Conn) /\ Len(b) = n + 1
        /\ \A i \in 1 .. n : b[i] = backlog[i]
        /\ b[n + 1] = c
    BY AppendProperties DEF WaitsOnce
  <2>3. DOMAIN b = 1 .. (n + 1)
    BY <2>2, LenProperties
  <2> HIDE DEF b
  <2>4. \A i \in 1 .. n : backlog[i] # c /\ phase'[backlog[i]] # "new" /\ backlog[i] # conn
    BY <1>1, <2>1 DEF WaitsOnce, ClientTypes
  <2>5. phase'[c] = "queue" /\ c # conn
    BY <2>1 DEF WaitsOnce, ClientTypes
  <2>6. \A i \in DOMAIN b : i \in 1 .. n \/ i = n + 1
    BY <1>1, <2>3
  <2>7. \A i \in DOMAIN b : phase'[b[i]] # "new" /\ b[i] # conn
    BY <2>2, <2>4, <2>5, <2>6
  <2>8. \A i, j \in DOMAIN b : i # j => b[i] # b[j]
    BY <1>1, <2>2, <2>4, <2>6 DEF WaitsOnce
  <2>9. conn \in Conn => phase'[conn] # "new"
    BY <2>1 DEF WaitsOnce, ClientTypes
  <2> QED BY <2>1, <2>2, <2>7, <2>8, <2>9 DEF WaitsOnce, b
<1>6. ASSUME NEW c \in Conn, ClientStep(c) \/ Close(c) \/ \E batch \in Batches : AppendRun(c, batch)
      PROVE  WaitsOnce'
  <2>1. /\ backlog' = backlog /\ conn' = conn
        /\ \A x \in Conn : phase'[x] = "new" => phase[x] = "new"
    BY <1>6 DEF ClientStep, WritePiece, GetReply, Close, AppendRun, server, ClientTypes
  <2> QED BY <1>1, <2>1 DEF WaitsOnce
<1> QED BY <1>2, <1>3, <1>4, <1>5, <1>6 DEF ServerNext, ServerStep

LEMMA QueuesWhenDoneKept ==
    ASSUME ServerTypes, ClientTypes, QueuesWhenDone, ServerNext
    PROVE  QueuesWhenDone'
<1> USE DEF QueuesWhenDone, Queued
<1>1. CASE ServerStep
  <2>1. UNCHANGED client
    BY <1>1 DEF ServerStep, Accept, ReadHead, ReadScalar, EndInner, ReadFails, Terminate, ReadEof,
               Execute, Flush, FlushFails
  <2> QED BY <2>1 DEF client
<1>2. ASSUME NEW c \in Conn, Connect(c) PROVE QueuesWhenDone'
  BY <1>2 DEF Connect, ClientTypes
<1>3. ASSUME NEW c \in Conn, NEW batch \in Batches, AppendRun(c, batch) PROVE QueuesWhenDone'
  BY <1>3 DEF AppendRun, ClientTypes
<1>4. ASSUME NEW c \in Conn, WritePiece(c) PROVE QueuesWhenDone'
  BY <1>4 DEF WritePiece, ClientTypes
<1>5. ASSUME NEW c \in Conn, Close(c) PROVE QueuesWhenDone'
  BY <1>5 DEF Close, ClientTypes
<1>6. ASSUME NEW c \in Conn, GetReply(c) PROVE QueuesWhenDone'
  <2>1. /\ sent' = sent
        /\ received' = [received EXCEPT ![c] = Append(@, Head(down[c]))]
        /\ phase' = [phase EXCEPT ![c] = IF Len(received[c]) + 1 = Len(FlattenSeq(sent[c])) THEN "queue" ELSE @]
        /\ phase[c] = "fetch"
    BY <1>6 DEF GetReply
  <2>2. Len(received'[c]) = Len(received[c]) + 1
    BY <2>1, IsSeqAppend DEF ClientTypes
  <2>3. phase'[c] \in {"new", "queue"} => Len(received'[c]) = Len(FlattenSeq(sent'[c]))
    BY <2>1, <2>2 DEF ClientTypes
  <2>4. \A x \in Conn : x # c => phase'[x] = phase[x] /\ received'[x] = received[x]
    BY <2>1 DEF ClientTypes
  <2> QED BY <2>1, <2>3, <2>4
<1> QED BY <1>1, <1>2, <1>3, <1>4, <1>5, <1>6 DEF ServerNext, ClientStep

(***************************************************************************)
(* The streams.                                                            *)
(***************************************************************************)
LEMMA WayTail ==
    ASSUME NEW s, NEW t, IsSeq(s), IsSeq(t), s # << >>
    PROVE  /\ Len(Tail(s) \o t) = Len(s \o t) - 1
           /\ \A i \in 1 .. Len(Tail(s) \o t) : (Tail(s) \o t)[i] = (s \o t)[i + 1]
           /\ Head(s) = (s \o t)[1] /\ Len(s \o t) \in Nat \ {0}
<1> DEFINE a == Tail(s)
           u == a \o t
           v == s \o t
<1>1. /\ IsSeq(a) /\ Len(a) = Len(s) - 1 /\ Head(s) = s[1]
      /\ \A i \in 1 .. Len(a) : a[i] = s[i + 1]
  BY IsSeqTail
<1>2. Len(s) \in Nat /\ Len(t) \in Nat /\ Len(s) # 0
  BY IsSeqLen
<1> HIDE DEF a
<1>3. /\ Len(u) = Len(a) + Len(t)
      /\ \A i \in 1 .. Len(a) : u[i] = a[i]
      /\ \A i \in 1 .. Len(t) : u[Len(a) + i] = t[i]
  <2>1. IsSeq(a)
    BY <1>1
  <2> QED BY <2>1, IsSeqConcat
<1>4. /\ Len(v) = Len(s) + Len(t)
      /\ \A i \in 1 .. Len(s) : v[i] = s[i]
      /\ \A i \in 1 .. Len(t) : v[Len(s) + i] = t[i]
  BY IsSeqConcat
<1> HIDE DEF u, v
<1>5. ASSUME NEW i \in 1 .. Len(u) PROVE u[i] = v[i + 1]
  <2>1. CASE i <= Len(a)
    <3>1. i \in 1 .. Len(a) /\ i + 1 \in 1 .. Len(s)
      BY <1>1, <1>2, <1>3, <2>1
    <3> QED BY <1>1, <1>3, <1>4, <3>1
  <2>2. CASE ~ (i <= Len(a))
    <3> DEFINE j == i - Len(a)
    <3>1. j \in 1 .. Len(t) /\ i = Len(a) + j /\ i + 1 = Len(s) + j
      BY <1>1, <1>2, <1>3, <2>2
    <3> HIDE DEF j
    <3> QED BY <1>3, <1>4, <3>1
  <2> QED BY <2>1, <2>2
<1>6. 1 \in 1 .. Len(s)
  BY <1>2
<1>7. Len(u) = Len(v) - 1 /\ Head(s) = v[1] /\ Len(v) \in Nat \ {0}
  BY <1>1, <1>2, <1>3, <1>4, <1>6
<1> QED BY <1>5, <1>7 DEF u, v, a

(* A step that leaves a stream and its reader alone.                       *)
LEMMA StreamSame ==
    ASSUME NEW c, Stream(c),
           up'[c] = up[c], obuf'[c] = obuf[c], sent'[c] = sent[c], done'[c] = done[c],
           phase'[c] = "closed" <=> phase[c] = "closed",
           conn' = c <=> conn = c,
           conn = c => open' = open /\ got' = got
    PROVE  Stream(c)'
<1>1. PICK n \in 0 .. Len(From(Queued(c), Len(done[c]))) : Flow(c, n) /\ Track(c, n)
  BY DEF Stream
<1>2. Queued(c)' = Queued(c) /\ Way(c)' = Way(c)
  BY DEF Queued, Way
<1>3. Flow(c, n)'
  BY <1>1, <1>2 DEF Flow
<1>4. Track(c, n)'
  BY <1>1, <1>2 DEF Track
<1> QED BY <1>1, <1>2, <1>3, <1>4 DEF Stream

LEMMA ClientFacts ==
    ASSUME ClientTypes, NEW c \in Conn
    PROVE  /\ Queued(c) \in Seq(Messages) /\ Len(Queued(c)) \in Nat
           /\ Len(done[c]) \in Nat /\ DOMAIN done[c] = 1 .. Len(done[c])
           /\ IsSeq(up[c]) /\ IsSeq(obuf[c]) /\ IsSeq(Way(c)) /\ Len(Way(c)) \in Nat
<1>1. Queued(c) \in Seq(Messages)
  BY QueueType DEF ClientTypes, Queued
<1>2. up[c] \in Seq(AnyPiece) /\ obuf[c] \in Seq(AnyPiece) /\ IsSeq(done[c])
  BY DEF ClientTypes
<1>3. IsSeq(up[c]) /\ IsSeq(obuf[c])
  BY <1>2, SeqIsSeq
<1>4. IsSeq(Way(c))
  BY <1>3, IsSeqConcat DEF Way
<1> QED BY <1>1, <1>2, <1>3, <1>4, IsSeqLen, LenProperties

(* Where the server is in the middle of something, it is in a message that *)
(* the client has queued, and the next after those it has executed.        *)
Current == Queued(conn)[Len(done[conn]) + 1]
Reader(n) == [taken |-> n, open |-> open, got |-> got]

LEMMA InMessage ==
    ASSUME ServerTypes, ClientTypes, Answers, conn \in Conn, NEW n \in Nat,
           Flow(conn, n), Track(conn, n), open # << >> \/ up[conn] # << >>
    PROVE  /\ Len(done[conn]) < Len(Queued(conn))
           /\ Current \in Messages /\ Reader(n) \in OnTheWay(Current)
           /\ From(Queued(conn), Len(done[conn]))
                  = Current.pieces \o From(Queued(conn), Len(done[conn]) + 1)
<1> DEFINE q == Queued(conn)
           d == Len(done[conn])
<1>1. /\ q \in Seq(Messages) /\ Len(q) \in Nat /\ d \in Nat
      /\ IsSeq(up[conn]) /\ IsSeq(obuf[conn]) /\ Len(Way(conn)) \in Nat
  BY ClientFacts
<1>2. d <= Len(q)
  BY DEF Answers, Answered
<1>3. d # Len(q)
  <2> SUFFICES ASSUME d = Len(q) PROVE FALSE
    OBVIOUS
  <2>1. From(q, d) = << >>
    BY <1>1, FromEnd
  <2>2. Len(From(q, d)) = 0
    BY <2>1
  <2>3. n + Len(Way(conn)) <= 0
    BY <2>2 DEF Flow
  <2>4. Len(Way(conn)) = 0
    BY <1>1, <2>3
  <2>5. up[conn] = << >>
    BY <1>1, <2>4, WayTail DEF Way
  <2>6. open = << >>
    BY <1>1 DEF Track
  <2> QED BY <2>5, <2>6
<1>4. d < Len(q) /\ d \in 0 .. (Len(q) - 1)
  BY <1>1, <1>2, <1>3
<1>5. q[d + 1] \in Messages /\ From(q, d) = q[d + 1].pieces \o From(q, d + 1)
  BY <1>1, <1>4, FromNext
<1>6. Reader(n) \in OnTheWay(Current)
  BY <1>4 DEF Track, Reader, Current
<1> QED BY <1>4, <1>5, <1>6 DEF Current

LEMMA RestOfMessage ==
    ASSUME ClientTypes, conn \in Conn, Len(done[conn]) < Len(Queued(conn))
    PROVE  /\ IsSeq(Current.pieces) /\ Len(Current.pieces) \in Nat
           /\ IsSeq(From(Queued(conn), Len(done[conn]) + 1))
           /\ Len(From(Queued(conn), Len(done[conn]) + 1)) \in Nat
<1> DEFINE q == Queued(conn)
           d == Len(done[conn])
<1>1. q \in Seq(Messages) /\ Len(q) \in Nat /\ d \in Nat
  BY ClientFacts
<1>2. q[d + 1] \in Messages /\ From(q, d + 1) \in Seq(AnyPiece)
  <2>1. d \in 0 .. (Len(q) - 1)
    BY <1>1
  <2> QED BY <1>1, <2>1, FromNext
<1>3. Current.pieces \in Seq(AnyPiece)
  BY <1>2, MessageType DEF Current
<1> QED BY <1>2, <1>3, SeqIsSeq, LenProperties

LEMMA NextPiece ==
    ASSUME ServerTypes, ClientTypes, Answers, conn \in Conn, NEW n \in Nat,
           Flow(conn, n), Track(conn, n), Reading, up[conn] # << >>
    PROVE  /\ n < Len(Current.pieces) /\ Piece = Current.pieces[n + 1]
           /\ n + 1 <= Len(From(Queued(conn), Len(done[conn])))
<1> DEFINE rest == From(Queued(conn), Len(done[conn]))
           more == From(Queued(conn), Len(done[conn]) + 1)
<1>1. /\ Len(done[conn]) < Len(Queued(conn))
      /\ Current \in Messages /\ Reader(n) \in OnTheWay(Current)
      /\ rest = Current.pieces \o more
  BY InMessage
<1>2. n < Len(Current.pieces)
  BY <1>1, ReaderWaits DEF Reading, Reader
<1>3. IsSeq(Current.pieces) /\ Len(Current.pieces) \in Nat /\ IsSeq(more) /\ Len(more) \in Nat
  BY <1>1, RestOfMessage
<1>4. IsSeq(up[conn]) /\ IsSeq(obuf[conn])
  BY ClientFacts
<1>5. Piece = Way(conn)[1] /\ Len(Way(conn)) \in Nat \ {0}
  BY <1>4, WayTail DEF Piece, Way
<1>6. Way(conn)[1] = rest[n + 1]
  BY <1>5 DEF Flow
<1> HIDE DEF rest, more
<1>7. Len(rest) = Len(Current.pieces) + Len(more)
      /\ \A i \in 1 .. Len(Current.pieces) : rest[i] = Current.pieces[i]
  BY <1>1, <1>3, IsSeqConcat
<1>8. n + 1 \in 1 .. Len(Current.pieces) /\ n + 1 <= Len(rest)
  BY <1>2, <1>3, <1>7
<1> QED BY <1>2, <1>5, <1>6, <1>7, <1>8 DEF rest

(* The reader takes a piece off the stream.                                *)
LEMMA StreamRead ==
    ASSUME ServerTypes, ClientTypes, Answers, conn \in Conn, Stream(conn),
           ReadHead \/ ReadScalar
    PROVE  Stream(conn)'
<1> DEFINE rest == From(Queued(conn), Len(done[conn]))
<1>1. PICK n \in 0 .. Len(rest) : Flow(conn, n) /\ Track(conn, n)
  BY DEF Stream
<1>2. /\ Reading /\ up[conn] # << >> /\ up' = [up EXCEPT ![conn] = Tail(@)]
      /\ conn' = conn /\ UNCHANGED <<client, done>>
  BY DEF ReadHead, ReadScalar, ConsumeUp
<1>3. /\ Len(done[conn]) < Len(Queued(conn))
      /\ Current \in Messages /\ Reader(n) \in OnTheWay(Current)
  <2>1. n \in Nat
    BY <1>1
  <2> HIDE DEF rest
  <2> QED BY <1>1, <1>2, <2>1, InMessage
<1>4. n < Len(Current.pieces) /\ Piece = Current.pieces[n + 1] /\ n + 1 <= Len(rest)
  BY <1>1, <1>2, NextPiece
<1>5. /\ Queued(conn)' = Queued(conn) /\ done'[conn'] = done[conn] /\ phase' = phase
      /\ Way(conn)' = Tail(up[conn]) \o obuf[conn] /\ Current' = Current
      /\ open \in Seq(Int)
  <2>1. open \in Seq(Int)
    BY <1>3, ReaderStays DEF Reader, ReaderStates
  <2> QED BY <1>2, <2>1 DEF client, Queued, Way, ClientTypes, Current
<1>6. IsSeq(up[conn]) /\ IsSeq(obuf[conn])
  BY ClientFacts
<1>7. /\ Len(Way(conn)') = Len(Way(conn)) - 1 /\ Len(Way(conn)) \in Nat \ {0}
      /\ \A i \in 1 .. Len(Way(conn)') : Way(conn)'[i] = Way(conn)[i + 1]
  <2> DEFINE s == up[conn]
             o == obuf[conn]
  <2>1. IsSeq(s) /\ IsSeq(o) /\ s # << >>
    BY <1>2, <1>6
  <2> HIDE DEF s, o
  <2>2. /\ Len(Tail(s) \o o) = Len(s \o o) - 1 /\ Len(s \o o) \in Nat \ {0}
        /\ \A i \in 1 .. Len(Tail(s) \o o) : (Tail(s) \o o)[i] = (s \o o)[i + 1]
    BY <2>1, WayTail
  <2>3. Way(conn)' = Tail(s) \o o /\ Way(conn) = s \o o
    BY <1>5 DEF Way, s, o
  <2> QED BY <2>2, <2>3
<1>8. Flow(conn, n + 1)'
  <2>1. rest' = rest
    BY <1>2, <1>5
  <2>2. /\ n + Len(Way(conn)) <= Len(rest)
        /\ phase[conn] # "closed" => n + Len(Way(conn)) = Len(rest)
        /\ \A i \in 1 .. Len(Way(conn)) : Way(conn)[i] = rest[n + i]
    BY <1>1 DEF Flow
  <2>3. (n + 1) + Len(Way(conn)') = n + Len(Way(conn))
    BY <1>7
  <2>4. ASSUME NEW i \in 1 .. Len(Way(conn)') PROVE Way(conn)'[i] = rest[(n + 1) + i]
    <3>1. i + 1 \in 1 .. Len(Way(conn)) /\ n + (i + 1) = (n + 1) + i
      BY <1>7
    <3>2. Way(conn)'[i] = Way(conn)[i + 1] /\ Way(conn)[i + 1] = rest[n + (i + 1)]
      BY <1>7, <2>2, <3>1
    <3> QED BY <3>1, <3>2
  <2> HIDE DEF rest
  <2>5. /\ (n + 1) + Len(Way(conn)') <= Len(rest')
        /\ phase'[conn'] # "closed" => (n + 1) + Len(Way(conn)') = Len(rest')
        /\ \A i \in 1 .. Len(Way(conn)') : Way(conn)'[i] = rest'[(n + 1) + i]
    BY <1>2, <1>5, <2>1, <2>2, <2>3, <2>4
  <2> QED BY <1>2, <2>5 DEF Flow, rest
<1>9. Reader(n + 1)' \in OnTheWay(Current)
  <2>1. Reader(n + 1)' = ReadOn(Current, Reader(n))
    <3> DEFINE r == Reader(n)
    <3>1. r.taken = n /\ r.open = open /\ r.got = got
      BY DEF Reader
    <3>2. ~AtEnd(open) /\ Piece = Current.pieces[r.taken + 1] /\ r.taken < Len(Current.pieces)
      BY <1>2, <1>4, <3>1 DEF Reading
    <3> HIDE DEF r
    <3>3. CASE ReadHead
      <4>1. open' = Append(open, Piece.n) /\ got' = got /\ Piece.piece = "array"
        BY <3>3 DEF ReadHead
      <4>2. ReadOn(Current, r) = [taken |-> n + 1, open |-> Append(open, Piece.n), got |-> got]
        BY <3>1, <3>2, <4>1 DEF ReadOn
      <4> QED BY <4>1, <4>2 DEF Reader, r
    <3>4. CASE ReadScalar
      <4>1. open' = LacksOneLess(open) /\ got' = Keep(Piece) /\ Piece.piece \in {"word", "scalar"} /\ open # << >>
        BY <3>4 DEF ReadScalar
      <4>2. ReadOn(Current, r) = [taken |-> n + 1, open |-> LacksOneLess(open), got |-> Keep(Piece)]
        BY <3>1, <3>2, <4>1 DEF ReadOn, Keep
      <4> QED BY <4>1, <4>2 DEF Reader, r
    <3> QED BY <3>3, <3>4
  <2> QED BY <1>3, <2>1, ReaderStays
<1>10. Track(conn, n + 1)'
  <2>1. [taken |-> n + 1, open |-> open', got |-> got']
            \in OnTheWay(Queued(conn)[Len(done[conn]) + 1])
    BY <1>9 DEF Reader, Current
  <2> QED BY <1>2, <1>3, <1>5, <2>1 DEF Track
<1>11. n + 1 \in 0 .. Len(rest)
  <2>1. Len(rest) \in Nat
    BY <1>4, <1>1
  <2> QED BY <1>4, <2>1
<1>12. n + 1 \in 0 .. Len(rest')
  BY <1>2, <1>5, <1>11
<1> QED BY <1>8, <1>10, <1>12 DEF Stream

LEMMA StreamEndInner ==
    ASSUME ServerTypes, ClientTypes, Answers, conn \in Conn, Stream(conn), EndInner
    PROVE  Stream(conn)'
<1> DEFINE rest == From(Queued(conn), Len(done[conn]))
<1>1. PICK n \in 0 .. Len(rest) : Flow(conn, n) /\ Track(conn, n)
  BY DEF Stream
<1>2. /\ AtEnd(open) /\ Len(open) > 1 /\ conn' = conn /\ UNCHANGED <<client, done, up>>
      /\ open' = LacksOneLess(Front(open))
      /\ got' = IF Len(open) = 2 THEN Append(got, Scalar(Array(<< >>))) ELSE got
  BY DEF EndInner
<1>3. /\ Len(done[conn]) < Len(Queued(conn))
      /\ Current \in Messages /\ Reader(n) \in OnTheWay(Current)
  <2>1. n \in Nat /\ open # << >>
    BY <1>1, <1>2 DEF AtEnd
  <2> HIDE DEF rest
  <2> QED BY <1>1, <2>1, InMessage
<1>4. /\ Queued(conn)' = Queued(conn) /\ Way(conn)' = Way(conn) /\ Current' = Current
      /\ done' = done /\ phase' = phase
  BY <1>2 DEF client, Queued, Way, Current
<1>5. Flow(conn, n)'
  BY <1>1, <1>2, <1>4 DEF Flow
<1>6. Reader(n)' = ReadOn(Current, Reader(n))
  <2> DEFINE r == Reader(n)
  <2>1. r.taken = n /\ r.open = open /\ r.got = got
    BY DEF Reader
  <2> HIDE DEF r
  <2>2. ReadOn(Current, r) = [taken |-> n, open |-> open', got |-> got']
    BY <1>2, <2>1 DEF ReadOn
  <2> QED BY <2>2 DEF Reader, r
<1>7. Reader(n)' \in OnTheWay(Current)
  BY <1>3, <1>6, ReaderStays
<1>8. Track(conn, n)'
  <2>1. [taken |-> n, open |-> open', got |-> got'] \in OnTheWay(Queued(conn)[Len(done[conn]) + 1])
    BY <1>7 DEF Reader, Current
  <2> QED BY <1>2, <1>3, <1>4, <2>1 DEF Track
<1> QED BY <1>1, <1>2, <1>4, <1>5, <1>8 DEF Stream

(* What is executed is the message that the client has queued, and it has  *)
(* been read to its end.                                                   *)
LEMMA ExecutesCurrent ==
    ASSUME ServerTypes, ClientTypes, Answers, conn \in Conn, open = << 0 >>,
           NEW n \in Nat, Flow(conn, n), Track(conn, n)
    PROVE  /\ Len(done[conn]) < Len(Queued(conn)) /\ Current \in Messages
           /\ CommandOf(got) = Current.cmd /\ n = Len(Current.pieces)
           /\ got \in Seq(AnyValue)
<1>1. open # << >>
  OBVIOUS
<1>2. /\ Len(done[conn]) < Len(Queued(conn))
      /\ Current \in Messages /\ Reader(n) \in OnTheWay(Current)
  BY <1>1, InMessage
<1>3. Complete(Current, Reader(n)) /\ Reader(n) \in ReaderStates(Current)
  BY <1>2, ReaderWaits, ReaderStays DEF Reader
<1> QED BY <1>2, <1>3 DEF Complete, Reader, ReaderStates

LEMMA StreamExecute ==
    ASSUME ServerTypes, ClientTypes, Answers, conn \in Conn, Stream(conn), Execute
    PROVE  Stream(conn)'
<1> DEFINE q == Queued(conn)
           d == Len(done[conn])
           rest == From(q, d)
           more == From(q, d + 1)
<1>1. PICK n \in 0 .. Len(rest) : Flow(conn, n) /\ Track(conn, n)
  BY DEF Stream
<1>2. /\ open = <<0>> /\ open' = << >> /\ got' = << >>
      /\ conn' = conn /\ UNCHANGED <<client, up>>
      /\ \E x : done' = [done EXCEPT ![conn] = Append(@, x)]
  BY DEF Execute, Executed
<1>3. d < Len(q) /\ Current \in Messages /\ n = Len(Current.pieces) /\ n \in Nat
  <2>1. n \in Nat
    BY <1>1
  <2> HIDE DEF rest
  <2> QED BY <1>1, <1>2, <2>1, ExecutesCurrent
<1>4. rest = Current.pieces \o more
  BY <1>1, <1>2, <1>3, InMessage
<1>5. IsSeq(Current.pieces) /\ IsSeq(more) /\ Len(more) \in Nat
  BY <1>3, RestOfMessage
<1>6. q \in Seq(Messages) /\ Len(q) \in Nat /\ d \in Nat /\ Len(Way(conn)) \in Nat
  BY ClientFacts
<1>7. Queued(conn)' = q /\ Way(conn)' = Way(conn) /\ phase' = phase
  BY <1>2 DEF client, Queued, Way
<1>8. Len(done'[conn]) = d + 1
  BY <1>2, IsSeqAppend DEF ClientTypes
<1> HIDE DEF q, d
<1>9. Len(rest) = n + Len(more) /\ \A i \in 1 .. Len(more) : rest[n + i] = more[i]
  <2> DEFINE m == Current.pieces
  <2>1. IsSeq(m) /\ IsSeq(more) /\ Len(m) = n /\ rest = m \o more
    BY <1>3, <1>4, <1>5
  <2> HIDE DEF m, more, rest
  <2>2. Len(m \o more) = Len(m) + Len(more) /\ \A i \in 1 .. Len(more) : (m \o more)[Len(m) + i] = more[i]
    BY <2>1, IsSeqConcat
  <2> QED BY <2>1, <2>2
<1>10. From(Queued(conn)', Len(done'[conn])) = more
  BY <1>7, <1>8
<1>11. Flow(conn, 0)'
  <2>1. /\ n + Len(Way(conn)) <= Len(rest)
        /\ phase[conn] # "closed" => n + Len(Way(conn)) = Len(rest)
        /\ \A i \in 1 .. Len(Way(conn)) : Way(conn)[i] = rest[n + i]
    BY <1>1 DEF Flow, q, d
  <2> HIDE DEF rest, more
  <2>2. /\ 0 + Len(Way(conn)) <= Len(more)
        /\ phase[conn] # "closed" => 0 + Len(Way(conn)) = Len(more)
    BY <1>3, <1>5, <1>6, <1>9, <2>1
  <2>3. \A i \in 1 .. Len(Way(conn)) : Way(conn)[i] = more[0 + i]
    <3> TAKE i \in 1 .. Len(Way(conn))
    <3>1. i \in 1 .. Len(more) /\ 0 + i = i
      BY <1>5, <1>6, <2>2
    <3> QED BY <1>9, <2>1, <3>1
  <2> QED BY <1>2, <1>7, <1>10, <2>2, <2>3 DEF Flow
<1>12. Track(conn, 0)'
  <2>1. CASE d + 1 < Len(q)
    <3>1. d + 2 \in 1 .. Len(q) /\ (d + 1) + 1 = d + 2
      BY <1>6, <2>1
    <3>2. q[d + 2] \in Messages
      BY <1>6, <3>1, ElementOfSeq
    <3>3. Unread \in OnTheWay(q[(d + 1) + 1])
      BY <3>1, <3>2, ReaderStarts
    <3> QED BY <1>2, <1>7, <1>8, <2>1, <3>3 DEF Track, Unread
  <2>2. CASE ~ (d + 1 < Len(q))
    BY <1>2, <1>7, <1>8, <2>2 DEF Track
  <2> QED BY <2>1, <2>2
<1>13. 0 \in 0 .. Len(more)
  BY <1>5
<1> QED BY <1>2, <1>10, <1>11, <1>12, <1>13 DEF Stream

LEMMA StreamAccept ==
    ASSUME ServerTypes, ClientTypes, NEW c \in Conn, c = Head(backlog), Stream(c), Accept
    PROVE  Stream(c)'
<1> DEFINE q == Queued(c)
           d == Len(done[c])
           rest == From(q, d)
<1>1. PICK n \in 0 .. Len(rest) : Flow(c, n) /\ Track(c, n)
  BY DEF Stream
<1>2. /\ conn # c /\ conn' = c /\ open' = << >> /\ got' = << >> /\ UNCHANGED <<client, done, up>>
  BY RespServerAssumption DEF Accept, FreshBuffers, ServerTypes
<1>3. n = 0
  BY <1>1, <1>2 DEF Track
<1>4. Queued(c)' = q /\ Way(c)' = Way(c) /\ done' = done /\ phase' = phase
  BY <1>2 DEF client, Queued, Way
<1>5. Flow(c, n)'
  BY <1>1, <1>4 DEF Flow
<1>6. q \in Seq(Messages) /\ Len(q) \in Nat /\ d \in Nat
  BY ClientFacts
<1>7. Track(c, 0)'
  <2>1. CASE d < Len(q)
    <3>1. d + 1 \in 1 .. Len(q)
      BY <1>6, <2>1
    <3>2. Unread \in OnTheWay(q[d + 1])
      BY <1>6, <3>1, ReaderStarts, ElementOfSeq
    <3> QED BY <1>2, <1>4, <2>1, <3>2 DEF Track, Unread
  <2>2. CASE ~ (d < Len(q))
    BY <1>2, <1>4, <2>2 DEF Track
  <2> QED BY <2>1, <2>2
<1> QED BY <1>1, <1>3, <1>4, <1>5, <1>7 DEF Stream

(* A client that queues has nothing under way: all its messages have been  *)
(* executed, for it has their answers.                                     *)
LEMMA QueueIsDone ==
    ASSUME ClientTypes, ServerTypes, Answers, QueuesWhenDone, alive, NEW c \in Conn, phase[c] = "queue"
    PROVE  Len(done[c]) = Len(Queued(c))
<1>1. /\ IsSeq(received[c]) /\ IsSeq(down[c]) /\ IsSeq(Unwritten(c))
      /\ IsSeq(done[c])
  BY IsSeqEmpty DEF ClientTypes, ServerTypes, Unwritten
<1>2. Len(received[c]) = Len(Queued(c)) /\ Len(done[c]) <= Len(Queued(c))
  BY DEF QueuesWhenDone, Answers, Answered
<1>3. received[c] \o down[c] \o Unwritten(c) = Replies(c)
  BY DEF Answers, Answered
<1>4. Len(Replies(c)) = Len(done[c])
  BY <1>1, IsSeqLen DEF Replies
<1> DEFINE r == received[c]
           s == down[c]
           u == Unwritten(c)
<1>5. IsSeq(r) /\ IsSeq(s) /\ IsSeq(u)
  BY <1>1
<1>6. Len((r \o s) \o u) = Len(done[c])
  BY <1>3, <1>4
<1>7. Len(r) = Len(Queued(c)) /\ Len(done[c]) \in Nat
  BY <1>1, <1>2, IsSeqLen
<1> HIDE DEF r, s, u
<1>8. IsSeq(r \o s) /\ Len(r \o s) = Len(r) + Len(s)
  BY <1>5, IsSeqConcat
<1>9. Len((r \o s) \o u) = Len(r \o s) + Len(u)
  BY <1>5, <1>8, IsSeqConcat
<1>10. Len(r) \in Nat /\ Len(s) \in Nat /\ Len(u) \in Nat
  BY <1>5, IsSeqLen
<1> QED BY <1>2, <1>6, <1>7, <1>8, <1>9, <1>10

LEMMA StreamAppend ==
    ASSUME ServerTypes, ClientTypes, Answers, QueuesWhenDone, alive,
           NEW c \in Conn, Stream(c), NEW batch \in Batches, AppendRun(c, batch)
    PROVE  Stream(c)'
<1> DEFINE q == Queued(c)
           d == Len(done[c])
           rest == From(q, d)
           p == Pieces(batch)
<1>1. PICK n \in 0 .. Len(rest) : Flow(c, n) /\ Track(c, n)
  BY DEF Stream
<1>2. /\ phase[c] = "queue" /\ phase'[c] = "flush"
      /\ sent'[c] = Append(sent[c], batch) /\ obuf'[c] = p
      /\ UNCHANGED <<server, done, up>>
  BY DEF AppendRun, ClientTypes
<1>3. /\ q \in Seq(Messages) /\ Len(q) \in Nat /\ d \in Nat
      /\ IsSeq(up[c]) /\ IsSeq(obuf[c]) /\ Len(Way(c)) \in Nat
  BY ClientFacts
<1>4. d = Len(q)
  BY <1>2, QueueIsDone
<1>5. batch \in Seq(Messages) /\ Queued(c)' = q \o batch
  BY <1>2, QueueMore DEF Queued, ClientTypes
<1>6. From(q \o batch, d) = p /\ p \in Seq(AnyPiece) /\ IsSeq(p) /\ Len(p) \in Nat
  BY <1>3, <1>4, <1>5, FromConcat, PiecesConcat, SeqIsSeq, LenProperties
<1>7. up[c] = << >>
  <2>1. Len(rest) = 0
    BY <1>3, <1>4, FromEnd
  <2>2. n + Len(Way(c)) <= 0 /\ n \in Nat
    BY <1>1, <2>1 DEF Flow
  <2>3. Len(Way(c)) = 0
    BY <1>3, <2>2
  <2> QED BY <1>3, <2>3, WayTail DEF Way
<1>8. n = 0 /\ (conn = c => open = << >> /\ got = << >>)
  BY <1>3, <1>4, <1>1 DEF Track
<1>9. Way(c)' = p
  BY <1>2, <1>6, <1>7, ConcatEmpty DEF Way
<1>10. From(Queued(c)', Len(done'[c])) = p
  BY <1>2, <1>5, <1>6
<1> HIDE DEF p
<1>11. Flow(c, 0)'
  <2>1. 0 + Len(p) <= Len(p) /\ 0 + Len(p) = Len(p) /\ \A i \in 1 .. Len(p) : p[i] = p[0 + i]
    BY <1>6
  <2> QED BY <1>9, <1>10, <2>1 DEF Flow
<1>12. Track(c, 0)'
  <2>1. CASE d < Len(q \o batch) /\ conn = c
    <3> DEFINE r == q \o batch
    <3>1. r \in Seq(Messages) /\ Len(r) \in Nat
      BY <1>3, <1>5, ConcatProperties, LenProperties
    <3>2. d < Len(r)
      BY <2>1
    <3> HIDE DEF r
    <3>3. d + 1 \in 1 .. Len(r)
      BY <1>3, <3>1, <3>2
    <3>4. Unread \in OnTheWay(r[d + 1])
      BY <3>1, <3>3, ReaderStarts, ElementOfSeq
    <3>5. Queued(c)' = r
      BY <1>5 DEF r
    <3> QED BY <1>2, <1>8, <2>1, <3>2, <3>4, <3>5 DEF Track, Unread, server
  <2>2. CASE ~ (d < Len(q \o batch) /\ conn = c)
    BY <1>2, <1>5, <1>8, <2>2 DEF Track, server
  <2> QED BY <2>1, <2>2
<1>13. 0 \in 0 .. Len(p)
  BY <1>6
<1> QED BY <1>10, <1>11, <1>12, <1>13 DEF Stream

LEMMA StreamClient ==
    ASSUME ServerTypes, ClientTypes, NEW c \in Conn, Stream(c),
           Connect(c) \/ WritePiece(c) \/ GetReply(c) \/ Close(c)
    PROVE  Stream(c)'
<1> DEFINE rest == From(Queued(c), Len(done[c]))
<1>1. PICK n \in 0 .. Len(rest) : Flow(c, n) /\ Track(c, n)
  BY DEF Stream
<1>2. UNCHANGED <<server, sent, done>>
  BY DEF Connect, WritePiece, GetReply, Close
<1>3. Track(c, n)' /\ Queued(c)' = Queued(c)
  BY <1>1, <1>2 DEF Track, Queued, server
<1>4. IsSeq(up[c]) /\ IsSeq(obuf[c]) /\ IsSeq(Way(c)) /\ Len(Way(c)) \in Nat
  BY ClientFacts
<1>5. CASE Connect(c) \/ GetReply(c)
  <2>1. Way(c)' = Way(c) /\ phase[c] # "closed"
    BY <1>5 DEF Connect, GetReply, Way
  <2> QED BY <1>1, <1>2, <1>3, <2>1 DEF Flow, Stream
<1>6. CASE WritePiece(c)
  <2> DEFINE s == up[c]
             t == obuf[c]
  <2>1. up'[c] = Append(s, Head(t)) /\ obuf'[c] = Tail(t) /\ t # << >> /\ phase[c] # "closed"
    BY <1>6 DEF WritePiece, ClientTypes
  <2>2. IsSeq(s) /\ IsSeq(t)
    BY <1>4
  <2> HIDE DEF s, t
  <2>3. Append(s, Head(t)) \o Tail(t) = s \o t
    BY <2>1, <2>2, MoveHead
  <2>4. Way(c)' = Way(c)
    BY <2>1, <2>3 DEF Way, s, t
  <2> QED BY <1>1, <1>2, <1>3, <2>1, <2>4 DEF Flow, Stream
<1>7. CASE Close(c)
  <2>1. PICK k \in 0 .. Len(up[c]) : up' = [up EXCEPT ![c] = SubSeq(@, 1, k)]
    BY <1>7 DEF Close
  <2> DEFINE s == SubSeq(up[c], 1, k)
  <2>2. IsSeq(s) /\ Len(s) = k /\ \A i \in 1 .. k : s[i] = up[c][i]
    BY <1>4, IsSeqFirst
  <2>3. up'[c] = s /\ obuf'[c] = << >> /\ phase'[c] = "closed"
    BY <1>7, <2>1 DEF Close, ClientTypes
  <2> HIDE DEF s
  <2>4. Way(c)' = s
    BY <2>2, <2>3, ConcatEmpty DEF Way
  <2>5. /\ Len(Way(c)) = Len(up[c]) + Len(obuf[c]) /\ Len(up[c]) \in Nat /\ Len(obuf[c]) \in Nat
        /\ \A i \in 1 .. Len(up[c]) : Way(c)[i] = up[c][i]
    BY <1>4, IsSeqConcat, IsSeqLen DEF Way
  <2>6. /\ n + Len(Way(c)) <= Len(rest)
        /\ \A i \in 1 .. Len(Way(c)) : Way(c)[i] = rest[n + i]
    BY <1>1 DEF Flow
  <2>7. n \in Nat /\ Len(rest) \in Nat
    <3>1. Queued(c) \in Seq(Messages) /\ Len(done[c]) \in Nat /\ Len(Queued(c)) \in Nat
      BY ClientFacts
    <3>2. \A i \in (Len(done[c]) + 1) .. Len(Queued(c)) : Queued(c)[i] \in Messages
      BY <3>1, ElementOfSeq
    <3>3. SubSeq(Queued(c), Len(done[c]) + 1, Len(Queued(c))) \in Seq(Messages)
      BY <3>1, <3>2, SubSeqProperties
    <3>4. rest \in Seq(AnyPiece)
      BY <3>3, PiecesConcat DEF From
    <3> QED BY <1>1, <3>4, LenProperties
  <2> HIDE DEF rest
  <2> DEFINE lu == Len(up[c])
             lo == Len(obuf[c])
             lw == Len(Way(c))
             lr == Len(rest)
  <2>8. /\ lw = lu + lo /\ lu \in Nat /\ lo \in Nat /\ n \in Nat /\ lr \in Nat
         /\ n + lw <= lr /\ k \in 0 .. lu
    BY <2>5, <2>6, <2>7
  <2>9. Len(s) = k
    BY <2>2
  <2> HIDE DEF lu, lo, lw, lr
  <2>10. n + k <= lr /\ \A i \in 1 .. k : i \in 1 .. lu /\ i \in 1 .. lw
    BY <2>8
  <2>11. n + Len(s) <= Len(rest)
    BY <2>9, <2>10 DEF lr
  <2>12. ASSUME NEW i \in 1 .. Len(s) PROVE s[i] = rest[n + i]
    <3>1. i \in 1 .. k /\ i \in 1 .. Len(up[c]) /\ i \in 1 .. Len(Way(c))
      BY <2>9, <2>10 DEF lu, lw
    <3> QED BY <2>2, <2>5, <2>6, <3>1
  <2>13. Flow(c, n)'
    BY <1>2, <1>3, <2>3, <2>4, <2>11, <2>12 DEF Flow, rest
  <2> QED BY <1>1, <1>2, <1>3, <2>13 DEF Stream, rest
<1> QED BY <1>5, <1>6, <1>7

LEMMA StreamsKept ==
    ASSUME ServerTypes, ClientTypes, WaitsOnce, QueuesWhenDone, Answers, Streams, ServerNext
    PROVE  Streams'
<1> SUFFICES ASSUME alive', NEW c \in Conn, ToServe(c)'
             PROVE  Stream(c)'
  BY DEF Streams
<1>0. NoConn \notin Conn
  BY RespServerAssumption
<1>1. CASE Accept
  <2>1. /\ alive /\ backlog # << >> /\ backlog' = Tail(backlog) /\ conn' = Head(backlog)
        /\ conn = NoConn /\ UNCHANGED <<client, done, up>>
    BY <1>1 DEF Accept, ServerTypes
  <2>2. /\ Len(Tail(backlog)) = Len(backlog) - 1 /\ Head(backlog) = backlog[1]
        /\ \A i \in 1 .. Len(Tail(backlog)) : Tail(backlog)[i] = backlog[i + 1]
        /\ DOMAIN Tail(backlog) = 1 .. Len(Tail(backlog))
        /\ DOMAIN backlog = 1 .. Len(backlog) /\ Len(backlog) \in Nat /\ Len(backlog) # 0
    BY <2>1, SeqIsSeq, IsSeqTail, IsSeqLen DEF WaitsOnce
  <2>3. 1 \in DOMAIN backlog /\ \A i \in DOMAIN Tail(backlog) : i + 1 \in DOMAIN backlog
    BY <2>2
  <2>4. Range(Tail(backlog)) \subseteq Range(backlog) /\ Head(backlog) \in Range(backlog)
    BY <2>2, <2>3 DEF Range
  <2>5. Stream(c)
    BY <2>1, <2>4 DEF Streams, ToServe, client
  <2>6. CASE c = Head(backlog)
    BY <1>1, <2>5, <2>6, StreamAccept
  <2>7. CASE c # Head(backlog)
    <3>1. conn # c /\ conn' # c
      BY <1>0, <2>1, <2>7
    <3> QED BY <2>1, <2>5, <3>1, StreamSame DEF client
  <2> QED BY <2>6, <2>7
<1>2. CASE ReadHead \/ ReadScalar \/ EndInner
  <2>1. /\ alive /\ conn \in Conn /\ conn' = conn /\ backlog' = backlog /\ UNCHANGED <<client, done>>
        /\ \A x \in Conn : x # conn => up'[x] = up[x]
    BY <1>0, <1>2 DEF ReadHead, ReadScalar, EndInner, Reading, ConsumeUp, ServerTypes, ClientTypes
  <2>2. Stream(c)
    BY <2>1 DEF Streams, ToServe, client
  <2>3. CASE c = conn
    BY <1>2, <2>1, <2>2, <2>3, StreamRead, StreamEndInner
  <2>4. CASE c # conn
    <3>1. conn' # c
      BY <2>1, <2>4
    <3> QED BY <2>1, <2>2, <2>4, <3>1, StreamSame DEF client
  <2> QED BY <2>3, <2>4
<1>3. CASE ReadFails
  BY <1>3 DEF ReadFails, Terminate
<1>4. CASE Execute
  <2>1. /\ alive /\ conn \in Conn /\ conn' = conn /\ backlog' = backlog /\ UNCHANGED <<client, up>>
        /\ \A x \in Conn : x # conn => done'[x] = done[x]
    BY <1>0, <1>4 DEF Execute, ServerTypes, ClientTypes
  <2>2. Stream(c)
    BY <2>1 DEF Streams, ToServe, client
  <2>3. CASE c = conn
    BY <1>4, <2>1, <2>2, <2>3, StreamExecute
  <2>4. CASE c # conn
    <3>1. conn' # c
      BY <2>1, <2>4
    <3> QED BY <2>1, <2>2, <2>4, <3>1, StreamSame DEF client
  <2> QED BY <2>3, <2>4
<1>5. CASE ReadEof \/ Flush \/ FlushFails
  <2>1. /\ alive /\ backlog' = backlog /\ UNCHANGED <<client, done, up, open, got>>
        /\ conn \in Conn /\ (conn' = conn \/ (conn' = NoConn /\ phase[conn] = "closed"))
    BY <1>0, <1>5 DEF ReadEof, Flush, FlushFails, Disconnect, Reading, ServerTypes
  <2>2. conn' = c => conn = c
    BY <1>0, <2>1
  <2>3. Stream(c)
    BY <2>1, <2>2 DEF Streams, ToServe, client
  <2>4. conn = c => conn' = c
    <3> SUFFICES ASSUME conn = c, conn' = NoConn PROVE FALSE
      BY <2>1
    <3>1. c \in Range(backlog)
      BY <1>0, <2>1 DEF ToServe, client
    <3> QED BY <3>1 DEF WaitsOnce, Range
  <2> QED BY <2>1, <2>2, <2>3, <2>4, StreamSame DEF client
<1>6. ASSUME NEW x \in Conn, Connect(x) \/ ClientStep(x) \/ Close(x)
      PROVE  Stream(c)'
  <2>1. /\ alive' = alive /\ UNCHANGED server
        /\ \A y \in Conn : y # x => /\ up'[y] = up[y] /\ obuf'[y] = obuf[y] /\ sent'[y] = sent[y]
                                    /\ done'[y] = done[y] /\ phase'[y] = phase[y]
    BY <1>6 DEF Connect, ClientStep, WritePiece, GetReply, Close, apiVars, ClientTypes
  <2>2. ToServe(c)
    <3>1. CASE Connect(x)
      <4>1. backlog' = Append(backlog, x) /\ phase[x] = "new"
        BY <3>1 DEF Connect
      <4>2. /\ DOMAIN Append(backlog, x) = 1 .. (Len(backlog) + 1) /\ DOMAIN backlog = 1 .. Len(backlog)
            /\ Len(backlog) \in Nat
            /\ \A i \in 1 .. Len(backlog) : Append(backlog, x)[i] = backlog[i]
            /\ Append(backlog, x)[Len(backlog) + 1] = x
        BY SeqIsSeq, IsSeqAppend, IsSeqLen DEF WaitsOnce
      <4>3. \A i \in 1 .. (Len(backlog) + 1) : i \in 1 .. Len(backlog) \/ i = Len(backlog) + 1
        BY <4>2
      <4>4. Range(Append(backlog, x)) \subseteq Range(backlog) \cup {x}
        BY <4>2, <4>3 DEF Range
      <4> QED BY <2>1, <4>1, <4>4 DEF ToServe, server
    <3>2. CASE ~ Connect(x)
      <4>1. backlog' = backlog /\ (phase'[c] = "new" => phase[c] = "new")
        BY <1>6, <3>2 DEF ClientStep, WritePiece, GetReply, Close, ClientTypes
      <4> QED BY <2>1, <4>1 DEF ToServe, server
    <3> QED BY <3>1, <3>2
  <2>3. Stream(c)
    BY <2>1, <2>2 DEF Streams
  <2>4. CASE c = x
    BY <1>6, <2>3, <2>4, StreamClient DEF ClientStep
  <2>5. CASE c # x
    <3>1. /\ up'[c] = up[c] /\ obuf'[c] = obuf[c] /\ sent'[c] = sent[c]
          /\ done'[c] = done[c] /\ phase'[c] = phase[c]
          /\ conn' = conn /\ open' = open /\ got' = got
      BY <2>1, <2>5 DEF server
    <3> QED BY <2>3, <3>1, StreamSame
  <2> QED BY <2>4, <2>5
<1>7. ASSUME NEW x \in Conn, NEW batch \in Batches, AppendRun(x, batch)
      PROVE  Stream(c)'
  <2>1. /\ alive' = alive /\ UNCHANGED server /\ backlog' = backlog
        /\ \A y \in Conn : y # x => /\ up'[y] = up[y] /\ obuf'[y] = obuf[y] /\ sent'[y] = sent[y]
                                    /\ done'[y] = done[y] /\ phase'[y] = phase[y]
        /\ phase'[c] = "new" => phase[c] = "new"
    BY <1>7 DEF AppendRun, apiVars, ClientTypes
  <2>2. Stream(c)
    BY <2>1 DEF Streams, ToServe, server
  <2>3. CASE c = x
    BY <1>7, <2>1, <2>2, <2>3, StreamAppend
  <2>4. CASE c # x
    <3>1. /\ up'[c] = up[c] /\ obuf'[c] = obuf[c] /\ sent'[c] = sent[c]
          /\ done'[c] = done[c] /\ phase'[c] = phase[c]
          /\ conn' = conn /\ open' = open /\ got' = got
      BY <2>1, <2>4 DEF server
    <3> QED BY <2>2, <3>1, StreamSame
  <2> QED BY <2>3, <2>4
<1> QED BY <1>1, <1>2, <1>3, <1>4, <1>5, <1>6, <1>7 DEF ServerNext, ServerStep

(***************************************************************************)
(* The answers.                                                            *)
(***************************************************************************)
LEMMA ReplySeqs ==
    ASSUME ServerTypes, ClientTypes, NEW c \in Conn
    PROVE  /\ IsSeq(received[c]) /\ IsSeq(down[c]) /\ IsSeq(done[c]) /\ IsSeq(Unwritten(c))
           /\ IsSeq(Replies(c)) /\ Len(Replies(c)) = Len(done[c])
           /\ IsSeq(received[c] \o down[c])
<1>1. IsSeq(received[c]) /\ IsSeq(down[c]) /\ IsSeq(done[c]) /\ IsSeq(Unwritten(c))
  BY IsSeqEmpty DEF ClientTypes, ServerTypes, Unwritten
<1>2. IsSeq(received[c] \o down[c])
  BY <1>1, IsSeqConcat
<1>3. DOMAIN done[c] = 1 .. Len(done[c]) /\ Len(done[c]) \in Nat
  BY <1>1, IsSeqLen
<1>4. Replies(c) \in Seq({done[c][i].reply : i \in DOMAIN done[c]}) /\ Len(Replies(c)) = Len(done[c])
  BY <1>3 DEF Replies
<1> QED BY <1>1, <1>2, <1>4, SeqIsSeq

(* A step that leaves a client's answers alone.                            *)
LEMMA AnsweredSame ==
    ASSUME NEW c, Answered(c),
           received'[c] = received[c], down'[c] = down[c],
           done'[c] = done[c], sent'[c] = sent[c],
           alive' /\ phase'[c] # "closed" => alive /\ phase[c] # "closed" /\ Unwritten(c)' = Unwritten(c)
    PROVE  Answered(c)'
<1>1. Queued(c)' = Queued(c) /\ Replies(c)' = Replies(c)
  BY DEF Queued, Replies
<1> QED BY <1>1 DEF Answered

LEMMA AnsweredExecute ==
    ASSUME ServerTypes, ClientTypes, Answers, conn \in Conn, Stream(conn), Execute
    PROVE  Answered(conn)'
<1> DEFINE x == [cmd |-> last'.cmd, reply |-> last'.reply]
           s == received[conn] \o down[conn]
           R == Replies(conn)
           d == Len(done[conn])
<1>1. /\ open = <<0>> /\ ProcessCommand(CommandOf(got)) /\ alive /\ writeBuf = << >>
      /\ conn' = conn /\ UNCHANGED <<client, down>>
      /\ done'[conn] = Append(done[conn], x)
      /\ alive' => writeBuf' = <<last'.reply>>
  BY DEF Execute, ServerTypes, ClientTypes
<1>2. PICK n \in 0 .. Len(From(Queued(conn), d)) : Flow(conn, n) /\ Track(conn, n)
  BY DEF Stream
<1>3. d < Len(Queued(conn)) /\ CommandOf(got) = Current.cmd
  <2>1. n \in Nat
    BY <1>2
  <2> QED BY <1>1, <1>2, <2>1, ExecutesCurrent
<1>4. /\ Queued(conn)' = Queued(conn) /\ received'[conn'] = received[conn] /\ down'[conn'] = down[conn]
      /\ phase' = phase
  BY <1>1 DEF client, Queued
<1>5. last'.cmd = Current.cmd
  BY <1>1, <1>3, Recorded DEF cmd
<1>6. /\ IsSeq(done[conn]) /\ IsSeq(s) /\ IsSeq(R) /\ Len(R) = d /\ d \in Nat
      /\ DOMAIN done[conn] = 1 .. d
  BY ReplySeqs, IsSeqLen
<1>7. Len(Queued(conn)) \in Nat
  BY ClientFacts
<1> DEFINE e == done'[conn]
<1>8. /\ IsSeq(e) /\ Len(e) = d + 1 /\ e[d + 1] = x
      /\ \A i \in 1 .. d : e[i] = done[conn][i]
  BY <1>1, <1>6, IsSeqAppend
<1>9. DOMAIN e = 1 .. (d + 1)
  BY <1>8, IsSeqLen
<1>10. \A i \in DOMAIN e : i \in 1 .. d \/ i = d + 1
  BY <1>6, <1>9
<1>11. \A i \in DOMAIN e : e[i].cmd = Queued(conn)[i].cmd
  <2>1. e[d + 1].cmd = Queued(conn)[d + 1].cmd
    BY <1>5, <1>8 DEF Current
  <2>2. \A i \in 1 .. d : done[conn][i].cmd = Queued(conn)[i].cmd
    BY <1>6 DEF Answers, Answered
  <2> HIDE DEF e, d, x
  <2> QED BY <1>8, <1>10, <2>1, <2>2
<1>12. Replies(conn)' = Append(R, last'.reply)
  <2> DEFINE a == Append(R, last'.reply)
             b == [i \in DOMAIN e |-> e[i].reply]
  <2>1. /\ IsSeq(a) /\ Len(a) = d + 1 /\ a[d + 1] = last'.reply
        /\ \A i \in 1 .. d : a[i] = R[i]
    BY <1>6, IsSeqAppend
  <2>2. \A i \in 1 .. d : R[i] = done[conn][i].reply
    BY <1>6 DEF Replies
  <2>3. e[d + 1].reply = last'.reply
    BY <1>8
  <2> HIDE DEF a, e, x, R, d
  <2>4. b \in Seq({e[i].reply : i \in DOMAIN e}) /\ Len(b) = d + 1
    BY <1>6, <1>9
  <2>5. IsSeq(b)
    BY <2>4, SeqIsSeq
  <2>6. \A i \in 1 .. (d + 1) : b[i] = e[i].reply
    BY <1>9
  <2>7. \A i \in 1 .. (d + 1) : b[i] = a[i]
    BY <1>8, <1>9, <1>10, <2>1, <2>2, <2>3, <2>6
  <2> HIDE DEF b
  <2>8. b = a
    BY <2>1, <2>4, <2>5, <2>7, IsSeqEqual
  <2> QED BY <1>1, <2>8 DEF Replies, a, b, e
<1>13. IsPrefix(s, Append(R, last'.reply))
  <2>1. IsPrefix(s, R)
    BY DEF Answers, Answered
  <2> HIDE DEF s, R
  <2> QED BY <1>6, <2>1, IsSeqEmpty, PrefixOfConcat
<1>14. ASSUME alive', phase[conn] # "closed"
       PROVE  s \o <<last'.reply>> = Append(R, last'.reply)
  <2>1. s \o << >> = R
    BY <1>1, <1>14 DEF Answers, Answered, Unwritten
  <2>2. s = R
    BY <1>6, <2>1, ConcatEmpty
  <2>3. R \in Seq(Range(R) \cup {last'.reply})
    BY <1>6, SeqMonotonic DEF IsSeq
  <2> HIDE DEF R
  <2>4. Append(R, last'.reply) = R \o <<last'.reply>>
    BY <2>3, AppendIsConcat
  <2> QED BY <2>2, <2>4
<1>15. d + 1 <= Len(Queued(conn))
  BY <1>3, <1>6, <1>7
<1>16. alive' => Unwritten(conn)' = <<last'.reply>>
  BY <1>1 DEF Unwritten
<1> QED BY <1>1, <1>4, <1>8, <1>11, <1>12, <1>13, <1>14, <1>15, <1>16 DEF Answered

LEMMA AnsweredFlush ==
    ASSUME ServerTypes, ClientTypes, Answers, conn \in Conn, Flush
    PROVE  Answered(conn)'
<1>1. /\ alive /\ phase[conn] # "closed" /\ conn' = conn /\ writeBuf' = << >>
      /\ down'[conn] = down[conn] \o writeBuf
      /\ UNCHANGED <<client, done>>
  BY DEF Flush, ServerTypes, ClientTypes
<1> DEFINE r == received[conn]
           s == down[conn]
           w == writeBuf
<1>2. IsSeq(r) /\ IsSeq(s) /\ IsSeq(w) /\ IsSeq(r \o s) /\ IsSeq(Replies(conn))
  BY ReplySeqs DEF ServerTypes
<1>3. (r \o s) \o w = Replies(conn)
  BY <1>1 DEF Answers, Answered, Unwritten
<1> HIDE DEF r, s, w
<1>4. r \o (s \o w) = Replies(conn)
  <2>1. (r \o s) \o w = r \o (s \o w)
    <3>1. IsSeq(r) /\ IsSeq(s) /\ IsSeq(w)
      BY <1>2
    <3> QED BY <3>1, ConcatThree
  <2> QED BY <1>3, <2>1
<1>5. (r \o (s \o w)) \o << >> = Replies(conn)
  BY <1>2, <1>4, ConcatEmpty
<1>6. IsPrefix(r \o (s \o w), Replies(conn))
  <2>1. \A i \in 1 .. Len(Replies(conn)) : Replies(conn)[i] = Replies(conn)[i]
    OBVIOUS
  <2>2. IsPrefix(Replies(conn), Replies(conn))
    BY <1>2, IsSeqLen, PrefixItems
  <2> QED BY <1>4, <2>2
<1>7. Queued(conn)' = Queued(conn) /\ Replies(conn)' = Replies(conn) /\ Unwritten(conn)' = << >>
  BY <1>1 DEF client, Queued, Replies, Unwritten
<1>8. received'[conn] = r /\ down'[conn] = s \o w
  BY <1>1 DEF client, r, s, w
<1> QED BY <1>1, <1>5, <1>6, <1>7, <1>8 DEF Answers, Answered

LEMMA AnsweredClient ==
    ASSUME ServerTypes, ClientTypes, Answers, NEW c \in Conn,
           \/ Connect(c) \/ ClientStep(c) \/ Close(c)
           \/ \E batch \in Batches : AppendRun(c, batch)
    PROVE  Answered(c)'
<1>1. Answered(c) /\ Len(Queued(c)) \in Nat /\ Queued(c) \in Seq(Messages)
      /\ DOMAIN done[c] = 1 .. Len(done[c]) /\ Len(done[c]) \in Nat
  BY ClientFacts DEF Answers
<1>2. alive' = alive /\ done' = done /\ conn' = conn /\ writeBuf' = writeBuf /\ Replies(c)' = Replies(c)
      /\ Unwritten(c)' = Unwritten(c)
  BY DEF Connect, ClientStep, WritePiece, GetReply, Close, AppendRun, apiVars, server, Replies, Unwritten
<1>3. CASE Connect(c) \/ WritePiece(c)
  <2>1. received' = received /\ down' = down /\ sent' = sent /\ phase[c] # "closed"
    BY <1>3 DEF Connect, WritePiece
  <2> QED BY <1>1, <1>2, <2>1, AnsweredSame
<1>4. CASE GetReply(c)
  <2> DEFINE s == received[c]
             t == down[c]
  <2>1. /\ received'[c] = Append(s, Head(t)) /\ down'[c] = Tail(t) /\ t # << >>
        /\ sent' = sent /\ phase[c] # "closed"
    BY <1>4 DEF GetReply, ClientTypes
  <2>2. IsSeq(s) /\ IsSeq(t)
    BY ReplySeqs
  <2> HIDE DEF s, t
  <2>3. Append(s, Head(t)) \o Tail(t) = s \o t
    BY <2>1, <2>2, MoveHead
  <2>4. received'[c] \o down'[c] = s \o t
    BY <2>1, <2>3
  <2>5. Queued(c)' = Queued(c)
    BY <2>1 DEF Queued
  <2> QED BY <1>1, <1>2, <2>1, <2>4, <2>5 DEF Answered, s, t
<1>5. CASE Close(c)
  <2>1. received'[c] = received[c] /\ down'[c] = << >> /\ phase'[c] = "closed" /\ sent' = sent
    BY <1>5 DEF Close, ClientTypes
  <2> DEFINE s == received[c]
             t == down[c]
             u == Replies(c)
  <2>2. IsSeq(s) /\ IsSeq(t) /\ IsSeq(u) /\ IsPrefix(s \o t, u)
    BY <1>1, ReplySeqs DEF Answered
  <2> HIDE DEF s, t, u
  <2>3. IsPrefix(s, u) /\ s \o << >> = s
    BY <2>2, PrefixOfConcat, ConcatEmpty
  <2>4. IsPrefix(received'[c] \o down'[c], Replies(c)')
    BY <1>2, <2>1, <2>3 DEF s, u
  <2>5. Queued(c)' = Queued(c)
    BY <2>1 DEF Queued
  <2> QED BY <1>1, <1>2, <2>1, <2>4, <2>5 DEF Answered
<1>6. ASSUME NEW batch \in Batches, AppendRun(c, batch) PROVE Answered(c)'
  <2>1. /\ received' = received /\ down' = down /\ phase[c] # "closed"
        /\ sent'[c] = Append(sent[c], batch)
    BY <1>6 DEF AppendRun, ClientTypes
  <2>2. Queued(c)' = Queued(c) \o batch /\ batch \in Seq(Messages)
    BY <2>1, QueueMore DEF Queued, ClientTypes
  <2> DEFINE q == Queued(c)
  <2>3. /\ Len(q \o batch) = Len(q) + Len(batch) /\ Len(batch) \in Nat
        /\ \A i \in 1 .. Len(q) : (q \o batch)[i] = q[i]
    BY <1>1, <2>2, SeqIsSeq, IsSeqConcat, LenProperties
  <2>4. Len(done[c]) <= Len(q) /\ \A i \in DOMAIN done[c] : done[c][i].cmd = q[i].cmd
    BY <1>1 DEF Answered
  <2> HIDE DEF q
  <2>5. Len(q) \in Nat /\ q = Queued(c)
    BY <1>1 DEF q
  <2>6. Len(done[c]) <= Len(q \o batch) /\ \A i \in DOMAIN done[c] : done[c][i].cmd = (q \o batch)[i].cmd
    <3>1. \A i \in DOMAIN done[c] : i \in 1 .. Len(q)
      BY <1>1, <2>4, <2>5
    <3> QED BY <1>1, <2>3, <2>4, <2>5, <3>1
  <2>7. Queued(c)' = q \o batch
    BY <2>2, <2>5
  <2> QED BY <1>1, <1>2, <2>1, <2>6, <2>7 DEF Answered
<1> QED BY <1>3, <1>4, <1>5, <1>6 DEF ClientStep

LEMMA AnswersKept ==
    ASSUME ServerTypes, ClientTypes, Answers, Streams, ServerNext
    PROVE  Answers'
<1> SUFFICES ASSUME NEW c \in Conn
             PROVE  Answered(c)'
  BY DEF Answers
<1>0. NoConn \notin Conn /\ Answered(c)
  BY RespServerAssumption DEF Answers
<1>1. CASE Accept \/ ReadHead \/ ReadScalar \/ EndInner \/ ReadFails \/ ReadEof \/ FlushFails
  <2>1. UNCHANGED <<client, done, down>>
    BY <1>1 DEF Accept, ReadHead, ReadScalar, EndInner, ReadFails, Terminate, ReadEof, FlushFails
  <2>2. ASSUME alive', phase'[c] # "closed" PROVE alive /\ Unwritten(c)' = Unwritten(c)
    <3>1. CASE Accept
      BY <1>0, <3>1 DEF Accept, FreshBuffers, ServerTypes, Unwritten
    <3>2. CASE ReadHead \/ ReadScalar \/ EndInner
      BY <3>2 DEF ReadHead, ReadScalar, EndInner, Reading, ServerTypes, Unwritten
    <3>3. CASE ReadFails
      BY <2>2, <3>3 DEF ReadFails, Terminate
    <3>4. CASE ReadEof \/ FlushFails
      BY <1>0, <2>1, <2>2, <3>4 DEF ReadEof, FlushFails, Disconnect, Reading, ServerTypes, Unwritten, client
    <3> QED BY <1>1, <3>1, <3>2, <3>3, <3>4
  <2> QED BY <1>0, <2>1, <2>2, AnsweredSame DEF client
<1>2. CASE Execute
  <2>1. /\ conn \in Conn /\ alive /\ conn' = conn /\ UNCHANGED <<client, down>>
        /\ \A x \in Conn : x # conn => done'[x] = done[x]
    BY <1>2 DEF Execute, ServerTypes, ClientTypes
  <2>2. CASE c = conn
    BY <1>2, <2>1, <2>2, AnsweredExecute DEF Streams, ToServe
  <2>3. CASE c # conn
    BY <1>0, <2>1, <2>3, AnsweredSame DEF client, Unwritten
  <2> QED BY <2>2, <2>3
<1>3. CASE Flush
  <2>1. /\ conn \in Conn /\ alive /\ conn' = conn /\ UNCHANGED <<client, done>>
        /\ \A x \in Conn : x # conn => down'[x] = down[x]
    BY <1>3 DEF Flush, ServerTypes, ClientTypes
  <2>2. CASE c = conn
    BY <1>3, <2>1, <2>2, AnsweredFlush
  <2>3. CASE c # conn
    BY <1>0, <2>1, <2>3, AnsweredSame DEF client, Unwritten
  <2> QED BY <2>2, <2>3
<1>4. ASSUME NEW x \in Conn,
             \/ Connect(x) \/ ClientStep(x) \/ Close(x)
             \/ \E batch \in Batches : AppendRun(x, batch)
      PROVE  Answered(c)'
  <2>1. CASE c = x
    BY <1>4, <2>1, AnsweredClient
  <2>2. CASE c # x
    <3>1. /\ received'[c] = received[c] /\ down'[c] = down[c] /\ sent'[c] = sent[c]
          /\ done' = done /\ phase'[c] = phase[c] /\ alive' = alive /\ UNCHANGED server
      BY <1>4, <2>2 DEF Connect, ClientStep, WritePiece, GetReply, Close, AppendRun, apiVars, ClientTypes
    <3>2. Unwritten(c)' = Unwritten(c)
      BY <3>1 DEF Unwritten, server
    <3> QED BY <1>0, <3>1, <3>2, AnsweredSame
  <2> QED BY <2>1, <2>2
<1> QED BY <1>1, <1>2, <1>3, <1>4 DEF ServerNext, ServerStep

(***************************************************************************)
(* What ends the server.                                                   *)
(***************************************************************************)
LEMMA CommandOfArgs ==
    ASSUME NEW vals \in Seq(AnyValue)
    PROVE  IsArgs(CommandOf(vals).args)
<1>1. Len(vals) \in Nat /\ (vals = << >> <=> Len(vals) = 0)
  BY EmptySeq, LenProperties
<1>2. CASE vals # << >> /\ vals[1].piece = "word"
  <2> DEFINE n == Len(vals) - 1
             a == [i \in 1 .. n |-> vals[i + 1].val]
  <2>1. n \in Nat
    BY <1>1, <1>2
  <2>2. CommandOf(vals).args = a
    BY <1>2 DEF CommandOf, Command
  <2> HIDE DEF n
  <2>3. DOMAIN a = 1 .. n /\ \A i \in 1 .. n : a[i] \in {vals[j + 1].val : j \in 1 .. n}
    OBVIOUS
  <2>4. a \in [1 .. n -> {vals[j + 1].val : j \in 1 .. n}]
    OBVIOUS
  <2> HIDE DEF a
  <2>5. Len(a) = n
    BY <2>1, <2>3
  <2> QED BY <2>1, <2>2, <2>3, <2>5 DEF IsArgs
<1>3. CASE ~ (vals # << >> /\ vals[1].piece = "word")
  <2>1. CommandOf(vals).args = << >>
    BY <1>3 DEF CommandOf, Command
  <2> QED BY <2>1 DEF IsArgs
<1> QED BY <1>2, <1>3

(* zadd does not end the process where all scores and members are strings. *)
LEMMA AddEachLives ==
    ASSUME NEW args, IsArgs(args), \A i \in DOMAIN args : IsString(args[i])
    PROVE  AddEach(args)[Len(args)].how # "crash"
<1> DEFINE c == Len(args)
           after == AddEach(args)
           T == {i \in 0 .. c : after[i].how # "crash"}
<1>1. after[0] = [m |-> map, how |-> "ok"]
      /\ \A i \in 1 .. c : after[i] = AddOne(after[i - 1], i, args[i])
  BY AddEachSteps
<1>2. c \in Nat /\ \A i \in 1 .. c : IsString(args[i])
  BY DEF IsArgs
<1> HIDE DEF after, c
<1>3. \A i \in 1 .. c : i - 1 \in T => i \in T
  <2> SUFFICES ASSUME NEW i \in 1 .. c, i - 1 \in T
               PROVE  after[i].how # "crash"
    OBVIOUS
  <2> DEFINE a == after[i - 1]
  <2>1. after[i] = AddOne(a, i, args[i]) /\ a.how # "crash" /\ IsString(args[i])
    BY <1>1, <1>2
  <2> HIDE DEF a
  <2> QED BY <2>1 DEF AddOne
<1>4. 0 \in T
  BY <1>1, <1>2
<1>5. 0 .. c \subseteq T
  <2> HIDE DEF T
  <2> QED BY <1>2, <1>3, <1>4, UpTo
<1>6. after[c].how # "crash"
  BY <1>2, <1>5
<1> QED BY <1>6 DEF after, c

LEMMA AnswerableLives ==
    ASSUME NEW c, ProcessCommand(c), IsArgs(c.args), Answerable(c)
    PROVE  alive' = alive
<1>1. ASSUME NEW r, NEW m, Respond(c, r, m) PROVE alive' = alive
  BY <1>1 DEF Respond
<1>2. ASSUME NEW k, NEW a, Increment(c, k, a) PROVE alive' = alive
  BY <1>1, <1>2 DEF Increment
<1>3. CASE OnSimple(c) \/ OnGet(c) \/ OnSet(c) \/ OnDel(c) \/ OnZRange(c) \/ OnFlushAll(c)
  BY <1>1, <1>3 DEF OnSimple, OnGet, OnSet, OnDel, OnZRange, OnFlushAll
<1>4. CASE OnIncr(c) \/ OnIncrBy(c)
  BY <1>1, <1>2, <1>4 DEF OnIncr, OnIncrBy
<1>5. CASE OnMGet(c)
  <2>1. DOMAIN c.args = {}
    BY <1>5 DEF OnMGet, Answerable
  <2> QED BY <1>1, <1>5, <2>1 DEF OnMGet
<1>6. CASE OnMSet(c)
  BY <1>1, <1>6 DEF OnMSet, Answerable
<1>7. CASE OnZAdd(c)
  <2> DEFINE n == Len(c.args)
             args == SubSeq(c.args, 2, n)
  <2>1. n \in Nat /\ \A i \in 2 .. n : IsString(c.args[i])
    BY <1>7 DEF OnZAdd, Answerable, IsArgs
  <2>2. CASE ~ HasArg(c, 1)
    BY <1>1, <1>7, <2>2 DEF OnZAdd
  <2>3. CASE HasArg(c, 1)
    <3>1. n >= 1
      BY <2>3 DEF HasArg
    <3>2. IsArgs(args) /\ Len(args) = n - 1 /\ \A i \in 1 .. (n - 1) : args[i] = c.args[i + 1]
      BY <2>1, <3>1 DEF IsArgs
    <3>3. \A i \in DOMAIN args : i + 1 \in 2 .. n /\ i \in 1 .. (n - 1)
      BY <2>1, <3>2 DEF IsArgs
    <3> HIDE DEF args, n
    <3>4. AddEach(args)[Len(args)].how # "crash"
      BY <2>1, <3>2, <3>3, AddEachLives
    <3> QED BY <1>1, <1>7, <3>4 DEF OnZAdd, args, n
  <2> QED BY <2>2, <2>3
<1> QED BY <1>3, <1>4, <1>5, <1>6, <1>7 DEF ProcessCommand

LEMMA OutlivesKept ==
    ASSUME ServerTypes, ClientTypes, WaitsOnce, Streams, Answers, ServerOutlivesClients, ServerNext
    PROVE  ServerOutlivesClients'
<1>1. ASSUME conn \in Conn, srv # "down", ~Current.ok, Len(done[conn]) < Len(Queued(conn)),
             conn' = conn, sent' = sent
      PROVE  ServerOutlivesClients'
  <2> DEFINE i == Len(done[conn]) + 1
  <2>1. Queued(conn) \in Seq(Messages) /\ Len(Queued(conn)) \in Nat /\ Len(done[conn]) \in Nat
    BY <1>1, ClientFacts
  <2>2. i \in DOMAIN Queued(conn)
    BY <1>1, <2>1, LenProperties
  <2>3. ~Queued(conn)[i].ok /\ Queued(conn)' = Queued(conn)
    BY <1>1 DEF Current, Queued
  <2> HIDE DEF i
  <2> QED BY <1>1, <2>2, <2>3 DEF ServerOutlivesClients
<1>2. ASSUME srv # "down", conn \in Conn
      PROVE  \E n \in Nat : Flow(conn, n) /\ Track(conn, n)
  <2>1. Stream(conn)
    BY <1>2 DEF Streams, ServerTypes, ToServe
  <2>2. PICK n \in 0 .. Len(From(Queued(conn), Len(done[conn]))) : Flow(conn, n) /\ Track(conn, n)
    BY <2>1 DEF Stream
  <2>3. n \in Nat
    BY <2>2
  <2> QED BY <2>2, <2>3
<1>3. CASE Accept \/ ReadHead \/ ReadScalar \/ EndInner \/ ReadEof \/ Flush \/ FlushFails
  <2>1. srv' # "down"
    BY <1>3 DEF Accept, ReadHead, ReadScalar, EndInner, ReadEof, Flush, FlushFails, Disconnect, Reading
  <2> QED BY <2>1 DEF ServerOutlivesClients
<1>4. CASE ReadFails
  <2>1. /\ conn \in Conn /\ srv # "down" /\ Reading /\ up[conn] # << >> /\ Unreadable(Piece, open)
        /\ conn' = conn /\ sent' = sent
    BY <1>4 DEF ReadFails, Terminate, Reading, ServerTypes, client
  <2>2. PICK n \in Nat : Flow(conn, n) /\ Track(conn, n)
    BY <1>2, <2>1
  <2>3. /\ Len(done[conn]) < Len(Queued(conn))
        /\ Current \in Messages /\ Reader(n) \in OnTheWay(Current)
    BY <2>1, <2>2, InMessage
  <2>4. Piece = Current.pieces[n + 1]
    BY <2>1, <2>2, NextPiece
  <2>5. ~Current.ok
    <3> DEFINE r == Reader(n)
    <3>1. r.taken = n /\ r.open = open
      BY DEF Reader
    <3>2. ~AtEnd(r.open) /\ Unreadable(Current.pieces[r.taken + 1], r.open)
      BY <2>1, <2>4, <3>1 DEF Reading
    <3> HIDE DEF r
    <3>3. r \in OnTheWay(Current)
      BY <2>3 DEF r
    <3> QED BY <2>3, <3>2, <3>3, ReaderWaits
  <2> QED BY <1>1, <2>1, <2>3, <2>5
<1>5. CASE Execute
  <2>1. /\ conn \in Conn /\ srv # "down" /\ open = <<0>> /\ ProcessCommand(CommandOf(got))
        /\ conn' = conn /\ sent' = sent /\ alive
        /\ srv' = IF alive' THEN "write" ELSE "down"
    BY <1>5 DEF Execute, ServerTypes, client
  <2>2. PICK n \in Nat : Flow(conn, n) /\ Track(conn, n)
    BY <1>2, <2>1
  <2>3. /\ Len(done[conn]) < Len(Queued(conn)) /\ Current \in Messages
        /\ CommandOf(got) = Current.cmd /\ got \in Seq(AnyValue)
    BY <2>1, <2>2, ExecutesCurrent
  <2>4. IsArgs(CommandOf(got).args)
    BY <2>3, CommandOfArgs
  <2>5. CASE Current.ok
    <3>1. Answerable(CommandOf(got))
      BY <2>3, <2>5, MessageType DEF Sendable
    <3>2. alive' = alive
      BY <2>1, <2>4, <3>1, AnswerableLives
    <3> QED BY <2>1, <3>2 DEF ServerOutlivesClients
  <2>6. CASE ~Current.ok
    BY <1>1, <2>1, <2>3, <2>6
  <2> QED BY <2>5, <2>6
<1>6. ASSUME NEW c \in Conn, Connect(c) \/ ClientStep(c) \/ Close(c)
      PROVE  ServerOutlivesClients'
  <2>1. UNCHANGED <<server, sent>>
    BY <1>6 DEF Connect, ClientStep, WritePiece, GetReply, Close
  <2> QED BY <2>1 DEF server, ServerOutlivesClients, Queued
<1>7. ASSUME NEW c \in Conn, NEW batch \in Batches, AppendRun(c, batch)
      PROVE  ServerOutlivesClients'
  <2>1. UNCHANGED server /\ sent' = [sent EXCEPT ![c] = Append(@, batch)]
    BY <1>7 DEF AppendRun
  <2>2. SUFFICES ASSUME srv = "down"
                 PROVE  \E i \in DOMAIN Queued(conn)' : ~Queued(conn)'[i].ok
    BY <2>1 DEF ServerOutlivesClients, server
  <2>3. PICK i \in DOMAIN Queued(conn) : ~Queued(conn)[i].ok
    BY <2>2 DEF ServerOutlivesClients
  <2>4. conn' = conn /\ conn \in Conn
    BY <2>1, <2>2 DEF server, ServerTypes
  <2>5. CASE c # conn
    <3>1. Queued(conn)' = Queued(conn)
      BY <2>1, <2>4, <2>5 DEF Queued, ClientTypes
    <3> QED BY <2>3, <3>1
  <2>6. CASE c = conn
    <3> DEFINE q == Queued(conn)
    <3>1. Queued(conn)' = q \o batch /\ batch \in Seq(Messages) /\ q \in Seq(Messages)
      BY <2>1, <2>4, <2>6, QueueMore, ClientFacts DEF Queued, ClientTypes
    <3> HIDE DEF q
    <3>2. IsSeq(q) /\ IsSeq(batch)
      BY <3>1, SeqIsSeq
    <3>3. /\ IsSeq(q \o batch) /\ Len(q \o batch) = Len(q) + Len(batch)
          /\ \A j \in 1 .. Len(q) : (q \o batch)[j] = q[j]
      BY <3>2, IsSeqConcat
    <3>4. /\ Len(q) \in Nat /\ Len(batch) \in Nat /\ DOMAIN q = 1 .. Len(q)
          /\ DOMAIN (q \o batch) = 1 .. Len(q \o batch)
      BY <3>2, <3>3, IsSeqLen
    <3>5. i \in 1 .. Len(q) /\ ~q[i].ok
      BY <2>3, <3>4 DEF q
    <3>6. i \in DOMAIN (q \o batch) /\ ~(q \o batch)[i].ok
      BY <3>3, <3>4, <3>5
    <3> QED BY <3>1, <3>6
  <2> QED BY <2>5, <2>6
<1> QED BY <1>3, <1>4, <1>5, <1>6, <1>7 DEF ServerNext, ServerStep

(***************************************************************************)
(* The invariant holds.                                                    *)
(***************************************************************************)
LEMMA AnsweringInit == ServerInit => AnsweringInv
<1> SUFFICES ASSUME ServerInit PROVE AnsweringInv
  OBVIOUS
<1> USE DEF ServerInit
<1>0. NoConn \notin Conn /\ IsSeq(<< >>) /\ Len(<< >>) = 0 /\ FlattenSeq(<< >>) = << >>
  BY RespServerAssumption, IsSeqEmpty, FlattenNone
<1>1. ServerTypes
  BY <1>0 DEF ServerTypes, ApiInit
<1>2. ClientTypes
  BY <1>0, EmptySeq DEF ClientTypes, Phases
<1>3. WaitsOnce
  BY <1>0, EmptySeq DEF WaitsOnce
<1>4. \A c \in Conn : Queued(c) = << >> /\ received[c] = << >> /\ done[c] = << >> /\ down[c] = << >>
                      /\ up[c] = << >> /\ obuf[c] = << >> /\ conn # c
  BY <1>0 DEF Queued
<1>5. QueuesWhenDone
  BY <1>0, <1>4 DEF QueuesWhenDone
<1>6. << >> \o << >> = << >>
  BY <1>0, ConcatEmpty
<1>7. Streams
  <2> SUFFICES ASSUME NEW c \in Conn PROVE Stream(c)
    BY DEF Streams
  <2>1. From(Queued(c), Len(done[c])) = << >>
    BY <1>0, <1>4, EmptySeq, FromEnd
  <2>2. Way(c) = << >>
    BY <1>4, <1>6 DEF Way
  <2>3. Flow(c, 0)
    BY <1>0, <2>1, <2>2 DEF Flow
  <2>4. Track(c, 0)
    BY <1>4 DEF Track
  <2>5. 0 \in 0 .. Len(From(Queued(c), Len(done[c])))
    BY <1>0, <2>1
  <2> QED BY <2>3, <2>4, <2>5 DEF Stream
<1>8. Answers
  <2> SUFFICES ASSUME NEW c \in Conn PROVE Answered(c)
    BY DEF Answers
  <2>1. Replies(c) = << >> /\ Unwritten(c) = << >>
    BY <1>4 DEF Replies, Unwritten
  <2>2. IsPrefix(<< >>, << >>)
    BY <1>0, PrefixItems
  <2> QED BY <1>0, <1>4, <1>6, <2>1, <2>2 DEF Answered
<1>9. ServerOutlivesClients
  BY DEF ServerOutlivesClients
<1> QED BY <1>1, <1>2, <1>3, <1>5, <1>7, <1>8, <1>9 DEF AnsweringInv

LEMMA AnsweringKept == AnsweringInv /\ [ServerNext]_serverVars => AnsweringInv'
<1>1. ASSUME AnsweringInv, ServerNext PROVE AnsweringInv'
  <2>1. /\ ServerTypes /\ ClientTypes /\ WaitsOnce /\ QueuesWhenDone
        /\ Streams /\ Answers /\ ServerOutlivesClients /\ ServerNext
    BY <1>1 DEF AnsweringInv
  <2>2. ServerTypes' /\ ClientTypes' /\ WaitsOnce' /\ QueuesWhenDone'
    BY <2>1, ServerTypesKept, ClientTypesKept, WaitsOnceKept, QueuesWhenDoneKept
  <2>3. Streams'
    BY <2>1, StreamsKept
  <2>4. Answers' /\ ServerOutlivesClients'
    BY <2>1, AnswersKept, OutlivesKept
  <2> QED BY <2>2, <2>3, <2>4 DEF AnsweringInv
<1>2. ASSUME AnsweringInv, UNCHANGED serverVars PROVE AnsweringInv'
  <2>1. UNCHANGED <<alive, srv, conn, open, got, writeBuf, backlog, up, down, phase, obuf, sent,
                    received, done>>
    BY <1>2 DEF serverVars, apiVars, server, client
  <2>2. ServerTypes' /\ ClientTypes' /\ WaitsOnce' /\ QueuesWhenDone' /\ ServerOutlivesClients'
    BY <1>2, <2>1 DEF AnsweringInv, ServerTypes, ClientTypes, WaitsOnce, QueuesWhenDone,
                      ServerOutlivesClients, Queued
  <2>3. Streams'
    <3> SUFFICES ASSUME alive, NEW c \in Conn, ToServe(c)
                 PROVE  Stream(c)'
      BY <2>1 DEF Streams, ToServe
    <3> QED BY <1>2, <2>1, StreamSame DEF AnsweringInv, Streams
  <2>4. Answers'
    BY <1>2, <2>1 DEF AnsweringInv, Answers, Answered, Replies, Unwritten, Queued
  <2> QED BY <2>2, <2>3, <2>4 DEF AnsweringInv
<1> QED BY <1>1, <1>2

LEMMA AnswersFollow == AnsweringInv => AnswersInOrder /\ ServerOutlivesClients
<1> SUFFICES ASSUME AnsweringInv, NEW c \in Conn
             PROVE  IsPrefix(received[c], Replies(c))
  BY DEF AnsweringInv, Answers, Answered, AnswersInOrder
<1> DEFINE r == received[c]
           d == down[c]
           u == Replies(c)
<1>1. IsSeq(r) /\ IsSeq(d) /\ IsSeq(u) /\ IsPrefix(r \o d, u)
  BY ReplySeqs DEF AnsweringInv, Answers, Answered
<1> HIDE DEF r, d, u
<1>2. IsPrefix(r, u)
  BY <1>1, PrefixOfConcat
<1> QED BY <1>2 DEF r, u

(* Every client is answered in order, for any number of clients, batches   *)
(* and buffer sizes: the one thread serves a connection to its end and     *)
(* answers a command before it reads on, a resp_connection starts with     *)
(* empty buffers, and no handler runs on a command that was cut short.     *)
THEOREM EveryClientAnswered == ServerSpec => []AnswersInOrder
BY AnsweringInit, AnsweringKept, AnswersFollow, PTL DEF ServerSpec

(* A client that goes away, in the middle of a command or before it has    *)
(* read the answer, does not end the server: connection_closed is caught,  *)
(* and only bytes that are no command, or the null dereferences of MGET,   *)
(* MSET and ZADD, take it down.                                            *)
THEOREM ServerOutlives == ServerSpec => []ServerOutlivesClients
BY AnsweringInit, AnsweringKept, AnswersFollow, PTL DEF ServerSpec
=============================================================================
