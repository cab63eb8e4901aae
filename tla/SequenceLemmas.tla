---------------------------- MODULE SequenceLemmas ----------------------------
(***************************************************************************)
(* Facts about the operators on sequences that the list of messages is     *)
(* built from.  Induction is on a set of natural numbers here, from the    *)
(* fact that < is well founded on them.                                    *)
(***************************************************************************)
EXTENDS Integers, SequencesExt, WellFoundedInduction, TLAPS

(***************************************************************************)
(* A set of natural numbers that is not empty has a least element.         *)
(***************************************************************************)
LEMMA LeastNatural ==
  ASSUME NEW S \in SUBSET Nat, S # {}
  PROVE  \E least \in S : \A n \in S : least <= n
<1>. DEFINE lessThan == {ss \in Nat \X Nat : ss[1] < ss[2]}
<1>1. IsWellFoundedOn(lessThan, Nat)
  BY NatLessThanWellFounded DEF OpToRel
<1>. HIDE DEF lessThan
<1>2. PICK least \in S : \A n \in S : <<n, least>> \notin lessThan
  BY <1>1, WFMin
<1>3. \A n \in S : ~ (n < least)
  BY <1>2 DEF lessThan
<1>. QED
  BY <1>3

LEMMA NaturalInduction ==
  ASSUME NEW S \in SUBSET Nat, 0 \in S, \A n \in S : n + 1 \in S
  PROVE  S = Nat
<1>. SUFFICES ASSUME Nat \ S # {}
              PROVE  FALSE
  OBVIOUS
<1>1. PICK least \in Nat \ S : \A n \in Nat \ S : least <= n
  BY LeastNatural
<1>2. least - 1 \in Nat \ S
  OBVIOUS
<1>. QED
  BY <1>1, <1>2

(***************************************************************************)
(* Min of FiniteSetsExt on a set of natural numbers.                       *)
(***************************************************************************)
LEMMA MinIsLeast ==
  ASSUME NEW S \in SUBSET Nat, S # {}
  PROVE  Min(S) \in S /\ \A n \in S : Min(S) <= n
<1>1. \E least \in S : \A n \in S : least <= n
  BY LeastNatural
<1>. QED
  BY <1>1 DEF Min

----------------------------------------------------------------------------
(* FlattenSeq *)

(***************************************************************************)
(* The recursive function inside FlattenSeq exists, and is what its        *)
(* definition says.                                                        *)
(***************************************************************************)
Flattens(seqs, n, f) ==
  f = [i \in 1..n |-> IF i = 1 THEN seqs[i] ELSE f[i - 1] \o seqs[i]]

LEMMA FlattenExists ==
  ASSUME NEW seqs
  PROVE  \A n \in Nat : \E f : Flattens(seqs, n, f)
<1>. DEFINE S == {n \in Nat : \E f : Flattens(seqs, n, f)}
<1>1. 0 \in S
  <2>. DEFINE e == [i \in 1..0 |-> IF i = 1 THEN seqs[i] ELSE {}]
  <2>1. e = [i \in 1..0 |-> IF i = 1 THEN seqs[i] ELSE e[i - 1] \o seqs[i]]
    OBVIOUS
  <2>2. Flattens(seqs, 0, e)
    BY <2>1 DEF Flattens
  <2>. QED
    BY <2>2
<1>2. ASSUME NEW n \in S
      PROVE  n + 1 \in S
  <2>1. PICK f : Flattens(seqs, n, f)
    OBVIOUS
  <2>. DEFINE last == IF n = 0 THEN seqs[1] ELSE f[n] \o seqs[n + 1]
              g == [i \in 1..(n + 1) |-> IF i = n + 1 THEN last ELSE f[i]]
  <2>2. \A i \in 1..n : f[i] = IF i = 1 THEN seqs[i] ELSE f[i - 1] \o seqs[i]
    BY <2>1 DEF Flattens
  <2>3. ASSUME NEW i \in 1..(n + 1)
        PROVE  g[i] = IF i = 1 THEN seqs[i] ELSE g[i - 1] \o seqs[i]
    <3>1. CASE i = n + 1
      <4>1. CASE n = 0
        BY <3>1, <4>1
      <4>2. CASE n # 0
        <5>1. i - 1 = n /\ i - 1 \in 1..(n + 1) /\ i - 1 # n + 1 /\ i # 1
          BY <3>1, <4>2
        <5>2. g[i - 1] = f[n]
          BY <5>1
        <5>3. g[i] = f[n] \o seqs[n + 1]
          BY <3>1, <4>2
        <5>. HIDE DEF g
        <5>. QED
          BY <3>1, <5>1, <5>2, <5>3
      <4>. QED
        BY <4>1, <4>2
    <3>2. CASE i # n + 1
      <4>1. i \in 1..n
        BY <3>2
      <4>2. g[i] = f[i] /\ (i # 1 => g[i - 1] = f[i - 1])
        BY <4>1
      <4>. QED
        BY <2>2, <4>1, <4>2
    <3>. QED
      BY <3>1, <3>2
  <2>4. DOMAIN g = 1..(n + 1)
    OBVIOUS
  <2>5. g = [i \in 1..(n + 1) |-> g[i]]
    OBVIOUS
  <2>. HIDE DEF g
  <2>6. g = [i \in 1..(n + 1) |-> IF i = 1 THEN seqs[i] ELSE g[i - 1] \o seqs[i]]
    BY <2>3, <2>5
  <2>7. Flattens(seqs, n + 1, g)
    BY <2>6 DEF Flattens
  <2>. QED
    BY <2>7
<1>. HIDE DEF S
<1>3. S = Nat
  BY <1>1, <1>2, NaturalInduction DEF S
<1>. QED
  BY <1>3 DEF S

(***************************************************************************)
(* What a sequence is that has the elements of the first n sequences, one  *)
(* sequence after the other.                                               *)
(***************************************************************************)
IsElement(x, seqs, i, k) == k \in DOMAIN seqs[i] /\ x = seqs[i][k]

Joins(s, seqs, n) ==
  /\ \A i \in 1..n : \A k \in DOMAIN seqs[i] : \E a \in DOMAIN s : s[a] = seqs[i][k]
  /\ \A a \in DOMAIN s : \E i \in 1..n : \E k : IsElement(s[a], seqs, i, k)
  /\ \A a, b \in DOMAIN s :
       a < b => \E i, j \in 1..n : \E k, l :
                  /\ IsElement(s[a], seqs, i, k)
                  /\ IsElement(s[b], seqs, j, l)
                  /\ \/ i < j
                     \/ i = j /\ k < l

LEMMA JoinsOne ==
  ASSUME NEW T, NEW seqs \in Seq(Seq(T)), Len(seqs) >= 1
  PROVE  Joins(seqs[1], seqs, 1)
<1>1. seqs[1] \in Seq(T)
  OBVIOUS
<1>2. 1 \in 1..1 /\ \A i \in 1..1 : i = 1
  OBVIOUS
<1>3. \A a \in DOMAIN seqs[1] : IsElement(seqs[1][a], seqs, 1, a)
  BY DEF IsElement
<1>4. ASSUME NEW a \in DOMAIN seqs[1], NEW b \in DOMAIN seqs[1], a < b
      PROVE  \E i, j \in 1..1 : \E k, l :
               /\ IsElement(seqs[1][a], seqs, i, k)
               /\ IsElement(seqs[1][b], seqs, j, l)
               /\ \/ i < j
                  \/ i = j /\ k < l
  BY <1>2, <1>3, <1>4
<1>. QED
  BY <1>2, <1>3, <1>4 DEF Joins

LEMMA JoinsNext ==
  ASSUME NEW T, NEW seqs \in Seq(Seq(T)), NEW n \in 1..(Len(seqs) - 1),
         NEW s \in Seq(T), Joins(s, seqs, n)
  PROVE  Joins(s \o seqs[n + 1], seqs, n + 1)
<1>. DEFINE last == seqs[n + 1]
            t == s \o last
<1>1. last \in Seq(T) /\ n + 1 \in 1..(n + 1) /\ 1..n \subseteq 1..(n + 1)
  OBVIOUS
<1>2. /\ t \in Seq(T)
      /\ Len(t) = Len(s) + Len(last)
      /\ \A a \in DOMAIN s : a \in DOMAIN t /\ t[a] = s[a]
      /\ \A k \in DOMAIN last : Len(s) + k \in DOMAIN t /\ t[Len(s) + k] = last[k]
      /\ \A a \in DOMAIN t : a \in DOMAIN s \/ a - Len(s) \in DOMAIN last
  BY <1>1
<1>3. \A a \in DOMAIN t : a \notin DOMAIN s =>
         /\ a - Len(s) \in DOMAIN last
         /\ IsElement(t[a], seqs, n + 1, a - Len(s))
         /\ a > Len(s)
  BY <1>1 DEF IsElement
<1>4. ASSUME NEW i \in 1..(n + 1), NEW k \in DOMAIN seqs[i]
      PROVE  \E a \in DOMAIN t : t[a] = seqs[i][k]
  <2>1. CASE i \in 1..n
    BY <1>2, <2>1 DEF Joins
  <2>2. CASE i = n + 1
    BY <1>2, <2>2
  <2>. QED
    BY <2>1, <2>2
<1>. HIDE DEF t
<1>5. ASSUME NEW a \in DOMAIN t
      PROVE  \E i \in 1..(n + 1) : \E k : IsElement(t[a], seqs, i, k)
  <2>1. CASE a \in DOMAIN s
    BY <1>1, <1>2, <2>1 DEF Joins
  <2>2. CASE a \notin DOMAIN s
    BY <1>1, <1>3, <2>2
  <2>. QED
    BY <2>1, <2>2
<1>6. ASSUME NEW a \in DOMAIN t, NEW b \in DOMAIN t, a < b
      PROVE  \E i, j \in 1..(n + 1) : \E k, l :
               /\ IsElement(t[a], seqs, i, k)
               /\ IsElement(t[b], seqs, j, l)
               /\ \/ i < j
                  \/ i = j /\ k < l
  <2>1. CASE a \in DOMAIN s /\ b \in DOMAIN s
    <3>1. PICK i \in 1..n, j \in 1..n : \E k, l :
            /\ IsElement(s[a], seqs, i, k)
            /\ IsElement(s[b], seqs, j, l)
            /\ \/ i < j
               \/ i = j /\ k < l
      BY <1>6, <2>1 DEF Joins
    <3>2. t[a] = s[a] /\ t[b] = s[b] /\ i \in 1..(n + 1) /\ j \in 1..(n + 1)
      BY <1>1, <1>2, <2>1
    <3>. QED
      BY <3>1, <3>2
  <2>2. CASE a \in DOMAIN s /\ b \notin DOMAIN s
    <3>1. PICK i \in 1..n : \E k : IsElement(t[a], seqs, i, k)
      BY <1>2, <2>2 DEF Joins
    <3>2. i < n + 1 /\ i \in 1..(n + 1)
      OBVIOUS
    <3>. QED
      BY <1>1, <1>3, <2>2, <3>1, <3>2
  <2>3. CASE a \notin DOMAIN s
    <3>1. b \notin DOMAIN s /\ a - Len(s) < b - Len(s)
      BY <1>2, <1>3, <1>6, <2>3
    <3>. QED
      BY <1>1, <1>3, <2>3, <3>1
  <2>. QED
    BY <2>1, <2>2, <2>3
<1>. QED
  BY <1>4, <1>5, <1>6 DEF Joins, t

(***************************************************************************)
(* FlattenSeq joins the sequences, in their order.                         *)
(***************************************************************************)
LEMMA FlattenSeqJoins ==
  ASSUME NEW T, NEW seqs \in Seq(Seq(T))
  PROVE  FlattenSeq(seqs) \in Seq(T) /\ Joins(FlattenSeq(seqs), seqs, Len(seqs))
<1>1. CASE Len(seqs) = 0
  <2>1. FlattenSeq(seqs) = << >>
    BY <1>1 DEF FlattenSeq
  <2>. QED
    BY <1>1, <2>1 DEF Joins
<1>2. CASE Len(seqs) # 0
  <2>. DEFINE n == Len(seqs)
              flatten == CHOOSE f : Flattens(seqs, n, f)
              S == {m \in Nat : m + 1 <= n => /\ flatten[m + 1] \in Seq(T)
                                             /\ Joins(flatten[m + 1], seqs, m + 1)}
  <2>1. n \in Nat \ {0}
    BY <1>2
  <2>2. FlattenSeq(seqs) = flatten[n]
    BY <1>2 DEF FlattenSeq, Flattens
  <2>3. Flattens(seqs, n, flatten)
    BY <2>1, FlattenExists
  <2>. HIDE DEF flatten
  <2>4. \A m \in 1..n : flatten[m] = IF m = 1 THEN seqs[m] ELSE flatten[m - 1] \o seqs[m]
    BY <2>3 DEF Flattens
  <2>5. 0 \in S
    <3>1. flatten[1] = seqs[1]
      BY <2>1, <2>4
    <3>2. seqs[1] \in Seq(T)
      BY <2>1
    <3>. QED
      BY <2>1, <3>1, <3>2, JoinsOne
  <2>6. ASSUME NEW m \in S
        PROVE  m + 1 \in S
    <3>1. SUFFICES ASSUME m + 2 <= n
                   PROVE  /\ flatten[m + 2] \in Seq(T)
                          /\ Joins(flatten[m + 2], seqs, m + 2)
      OBVIOUS
    <3>2. flatten[m + 1] \in Seq(T) /\ Joins(flatten[m + 1], seqs, m + 1)
      BY <3>1
    <3>3. m + 1 \in 1..(n - 1) /\ m + 2 \in 1..n /\ (m + 1) + 1 = m + 2
      BY <3>1
    <3>4. seqs[m + 2] \in Seq(T)
      BY <3>3
    <3>5. flatten[m + 2] = flatten[m + 1] \o seqs[m + 2]
      <4>1. flatten[m + 2] = IF m + 2 = 1 THEN seqs[m + 2] ELSE flatten[(m + 2) - 1] \o seqs[m + 2]
        BY <2>4, <3>3
      <4>2. m + 2 # 1 /\ (m + 2) - 1 = m + 1
        OBVIOUS
      <4>. QED
        BY <4>1, <4>2
    <3>6. flatten[m + 2] \in Seq(T)
      BY <3>2, <3>4, <3>5
    <3>7. Joins(flatten[m + 1] \o seqs[(m + 1) + 1], seqs, (m + 1) + 1)
      BY <3>2, <3>3, JoinsNext
    <3>. QED
      BY <3>3, <3>5, <3>6, <3>7
  <2>. HIDE DEF S
  <2>7. S = Nat
    BY <2>5, <2>6, NaturalInduction DEF S
  <2>8. n - 1 \in S /\ (n - 1) + 1 = n
    BY <2>1, <2>7
  <2>. QED
    BY <2>1, <2>2, <2>8 DEF S
<1>. QED
  BY <1>1, <1>2
----------------------------------------------------------------------------
(* What is above what in a sequence *)

Above(s, x, y) == \E i, j \in DOMAIN s : i < j /\ s[i] = x /\ s[j] = y

Distinct(s) == \A x : ~ Above(s, x, x)

LEMMA AboveInSet ==
  ASSUME NEW s, NEW x, NEW y, Above(s, x, y)
  PROVE  x \in ToSet(s) /\ y \in ToSet(s)
BY DEF Above, ToSet

LEMMA AboveTotal ==
  ASSUME NEW T, NEW s \in Seq(T), NEW x \in ToSet(s), NEW y \in ToSet(s), x # y
  PROVE  Above(s, x, y) \/ Above(s, y, x)
<1>1. PICK i \in DOMAIN s, j \in DOMAIN s : s[i] = x /\ s[j] = y
  BY DEF ToSet
<1>2. i < j \/ j < i
  BY <1>1
<1>. QED
  BY <1>1, <1>2 DEF Above

LEMMA DistinctIndices ==
  ASSUME NEW T, NEW s \in Seq(T), Distinct(s),
         NEW i \in DOMAIN s, NEW j \in DOMAIN s, s[i] = s[j]
  PROVE  i = j
<1>1. ~ (i < j) /\ ~ (j < i)
  BY DEF Distinct, Above
<1>. QED
  BY <1>1

LEMMA AboveTransitive ==
  ASSUME NEW T, NEW s \in Seq(T), Distinct(s),
         NEW x, NEW y, NEW z, Above(s, x, y), Above(s, y, z)
  PROVE  Above(s, x, z)
<1>1. PICK i \in DOMAIN s, j \in DOMAIN s : i < j /\ s[i] = x /\ s[j] = y
  BY DEF Above
<1>2. PICK k \in DOMAIN s, l \in DOMAIN s : k < l /\ s[k] = y /\ s[l] = z
  BY DEF Above
<1>3. j = k
  BY <1>1, <1>2, DistinctIndices
<1>4. i < l
  BY <1>1, <1>2, <1>3
<1>. QED
  BY <1>1, <1>2, <1>4 DEF Above

LEMMA AboveAsymmetric ==
  ASSUME NEW T, NEW s \in Seq(T), Distinct(s), NEW x, NEW y, Above(s, x, y)
  PROVE  ~ Above(s, y, x)
<1>1. Above(s, y, x) => Above(s, x, x)
  BY AboveTransitive
<1>. QED
  BY <1>1 DEF Distinct

(***************************************************************************)
(* The elements of one sequence after another, by their places.            *)
(***************************************************************************)
LEMMA ConcatElements ==
  ASSUME NEW T, NEW s \in Seq(T), NEW t \in Seq(T)
  PROVE  /\ s \o t \in Seq(T)
         /\ DOMAIN (s \o t) = 1..(Len(s) + Len(t))
         /\ \A k \in 1..(Len(s) + Len(t)) :
              (s \o t)[k] = IF k <= Len(s) THEN s[k] ELSE t[k - Len(s)]
OBVIOUS

LEMMA AppendElements ==
  ASSUME NEW T, NEW s \in Seq(T), NEW e \in T
  PROVE  /\ Append(s, e) \in Seq(T)
         /\ DOMAIN Append(s, e) = 1..(Len(s) + 1)
         /\ \A k \in DOMAIN s : /\ k \in DOMAIN Append(s, e)
                                /\ Append(s, e)[k] = s[k]
         /\ Append(s, e)[Len(s) + 1] = e
OBVIOUS

(***************************************************************************)
(* One sequence after another, and what is above what in them.             *)
(***************************************************************************)
LEMMA ConcatAbove ==
  ASSUME NEW T, NEW s \in Seq(T), NEW t \in Seq(T)
  PROVE  /\ s \o t \in Seq(T)
         /\ ToSet(s \o t) = ToSet(s) \cup ToSet(t)
         /\ \A x, y : Above(s \o t, x, y) <=>
              \/ Above(s, x, y)
              \/ Above(t, x, y)
              \/ x \in ToSet(s) /\ y \in ToSet(t)
<1>. DEFINE u == s \o t
<1>1. /\ u \in Seq(T)
      /\ \A i \in DOMAIN s : i \in DOMAIN u /\ u[i] = s[i] /\ i <= Len(s)
      /\ \A k \in DOMAIN t : Len(s) + k \in DOMAIN u /\ u[Len(s) + k] = t[k] /\ k > 0
      /\ \A i \in DOMAIN u :
           \/ i \in DOMAIN s
           \/ i - Len(s) \in DOMAIN t /\ u[i] = t[i - Len(s)] /\ i > Len(s)
  OBVIOUS
<1>. HIDE DEF u
<1>2. ToSet(u) = ToSet(s) \cup ToSet(t)
  <2>1. ASSUME NEW x \in ToSet(u)
        PROVE  x \in ToSet(s) \cup ToSet(t)
    BY <1>1 DEF ToSet
  <2>2. ASSUME NEW x \in ToSet(s) \cup ToSet(t)
        PROVE  x \in ToSet(u)
    <3>1. CASE x \in ToSet(s)
      BY <1>1, <3>1 DEF ToSet
    <3>2. CASE x \in ToSet(t)
      BY <1>1, <3>2 DEF ToSet
    <3>. QED
      BY <3>1, <3>2
  <2>. QED
    BY <2>1, <2>2
<1>3. ASSUME NEW x, NEW y, Above(u, x, y)
      PROVE  \/ Above(s, x, y)
             \/ Above(t, x, y)
             \/ x \in ToSet(s) /\ y \in ToSet(t)
  <2>1. PICK i \in DOMAIN u, j \in DOMAIN u : i < j /\ u[i] = x /\ u[j] = y
    BY <1>3 DEF Above
  <2>2. CASE i \in DOMAIN s /\ j \in DOMAIN s
    BY <1>1, <2>1, <2>2 DEF Above
  <2>3. CASE i \in DOMAIN s /\ j \notin DOMAIN s
    BY <1>1, <2>1, <2>3 DEF ToSet
  <2>4. CASE i \notin DOMAIN s
    <3>1. j \notin DOMAIN s
      BY <1>1, <2>1, <2>4
    <3>2. i - Len(s) < j - Len(s)
      BY <1>1, <2>1
    <3>. QED
      BY <1>1, <2>1, <2>4, <3>1, <3>2 DEF Above
  <2>. QED
    BY <2>2, <2>3, <2>4
<1>4. ASSUME NEW x, NEW y, Above(s, x, y)
      PROVE  Above(u, x, y)
  BY <1>1, <1>4 DEF Above
<1>5. ASSUME NEW x, NEW y, Above(t, x, y)
      PROVE  Above(u, x, y)
  <2>1. PICK k \in DOMAIN t, l \in DOMAIN t : k < l /\ t[k] = x /\ t[l] = y
    BY <1>5 DEF Above
  <2>2. Len(s) + k < Len(s) + l
    BY <2>1
  <2>. QED
    BY <1>1, <2>1, <2>2 DEF Above
<1>6. ASSUME NEW x \in ToSet(s), NEW y \in ToSet(t)
      PROVE  Above(u, x, y)
  <2>1. PICK k \in DOMAIN s, l \in DOMAIN t : s[k] = x /\ t[l] = y
    BY DEF ToSet
  <2>2. k < Len(s) + l
    BY <1>1, <2>1
  <2>. QED
    BY <1>1, <2>1, <2>2 DEF Above
<1>7. Len(u) = Len(u)
  OBVIOUS
<1>8. \A x, y : Above(u, x, y) <=>
              \/ Above(s, x, y)
              \/ Above(t, x, y)
              \/ x \in ToSet(s) /\ y \in ToSet(t)
  BY <1>3, <1>4, <1>5, <1>6
<1>. QED
  BY <1>1, <1>2, <1>8 DEF u

(***************************************************************************)
(* RemoveAt: what is left stays in its order.                              *)
(***************************************************************************)
LEMMA RemoveAtKeepsOrder ==
  ASSUME NEW T, NEW s \in Seq(T), NEW i \in DOMAIN s
  PROVE  /\ RemoveAt(s, i) \in Seq(T)
         /\ ToSet(RemoveAt(s, i)) \subseteq ToSet(s)
         /\ ToSet(s) \subseteq ToSet(RemoveAt(s, i)) \cup {s[i]}
         /\ \A x, y : Above(RemoveAt(s, i), x, y) => Above(s, x, y)
         /\ Distinct(s) => s[i] \notin ToSet(RemoveAt(s, i))
<1>. DEFINE r == RemoveAt(s, i)
            old(k) == IF k < i THEN k ELSE k + 1
<1>1. /\ r \in Seq(T)
      /\ \A k \in DOMAIN r : old(k) \in DOMAIN s /\ r[k] = s[old(k)] /\ old(k) # i
      /\ \A k, l \in DOMAIN r : k < l => old(k) < old(l)
      /\ \A k \in DOMAIN s : k < i => k \in DOMAIN r /\ r[k] = s[k]
      /\ \A k \in DOMAIN s : k > i => k - 1 \in DOMAIN r /\ r[k - 1] = s[k]
  <2>. DEFINE front == SubSeq(s, 1, i - 1)
              back == SubSeq(s, i + 1, Len(s))
  <2>1. /\ front \in Seq(T)
        /\ Len(front) = i - 1
        /\ \A k \in 1..(i - 1) : front[k] = s[k]
    OBVIOUS
  <2>2. /\ back \in Seq(T)
        /\ Len(back) = Len(s) - i
        /\ \A k \in 1..(Len(s) - i) : back[k] = s[k + i]
    OBVIOUS
  <2>. HIDE DEF front, back
  <2>3. r = front \o back
    BY DEF RemoveAt, front, back
  <2>4. /\ r \in Seq(T)
        /\ DOMAIN r = 1..(Len(s) - 1)
        /\ \A k \in 1..(Len(s) - 1) :
             r[k] = IF k <= i - 1 THEN front[k] ELSE back[k - (i - 1)]
    BY <2>1, <2>2, <2>3
  <2>. HIDE DEF r
  <2>5. ASSUME NEW k \in DOMAIN r
        PROVE  old(k) \in DOMAIN s /\ r[k] = s[old(k)] /\ old(k) # i
    <3>1. CASE k < i
      BY <2>1, <2>4, <3>1
    <3>2. CASE ~ (k < i)
      <4>1. /\ k - (i - 1) \in 1..(Len(s) - i)
            /\ (k - (i - 1)) + i = k + 1
            /\ ~ (k <= i - 1)
        BY <2>4, <3>2
      <4>2. r[k] = s[k + 1]
        BY <2>2, <2>4, <4>1
      <4>. QED
        BY <2>4, <3>2, <4>2
    <3>. QED
      BY <3>1, <3>2
  <2>6. \A k \in DOMAIN s : k < i => k \in DOMAIN r /\ r[k] = s[k]
    BY <2>1, <2>4
  <2>7. ASSUME NEW k \in DOMAIN s, k > i
        PROVE  k - 1 \in DOMAIN r /\ r[k - 1] = s[k]
    <3>1. /\ (k - 1) - (i - 1) = k - i
          /\ k - i \in 1..(Len(s) - i)
          /\ (k - i) + i = k
          /\ ~ (k - 1 <= i - 1)
          /\ k - 1 \in 1..(Len(s) - 1)
      BY <2>7
    <3>. QED
      BY <2>2, <2>4, <3>1
  <2>8. \A k, l \in DOMAIN r : k < l => old(k) < old(l)
    BY <2>4
  <2>. QED
    BY <2>4, <2>5, <2>6, <2>7, <2>8
<1>. HIDE DEF r, old
<1>2. ToSet(r) \subseteq ToSet(s)
  BY <1>1 DEF ToSet
<1>3. ASSUME NEW k \in DOMAIN s, k # i
      PROVE  s[k] \in ToSet(r)
  <2>1. k < i \/ k > i
    BY <1>3
  <2>. QED
    BY <1>1, <2>1 DEF ToSet
<1>4. ToSet(s) \subseteq ToSet(r) \cup {s[i]}
  BY <1>3 DEF ToSet
<1>5. \A x, y : Above(r, x, y) => Above(s, x, y)
  BY <1>1 DEF Above
<1>6. Distinct(s) => s[i] \notin ToSet(r)
  BY <1>1, DistinctIndices DEF ToSet
<1>. QED
  BY <1>1, <1>2, <1>4, <1>5, <1>6 DEF r

(***************************************************************************)
(* What is left of a sequence when the elements of a set are taken out.    *)
(***************************************************************************)
LEMMA TakingOutKeepsOrder ==
  ASSUME NEW T, NEW s \in Seq(T), NEW gone
  PROVE  LET t == FlattenSeq([i \in DOMAIN s |-> IF s[i] \in gone THEN <<>> ELSE <<s[i]>>]) IN
         /\ t \in Seq(T)
         /\ ToSet(t) = ToSet(s) \ gone
         /\ \A x, y : Above(t, x, y) => Above(s, x, y)
<1>. DEFINE part(i) == IF s[i] \in gone THEN <<>> ELSE <<s[i]>>
            seqs == [i \in DOMAIN s |-> part(i)]
            t == FlattenSeq(seqs)
<1>1. DOMAIN s = 1..Len(s) /\ Len(s) \in Nat /\ \A i \in DOMAIN s : s[i] \in T
  OBVIOUS
<1>2. ASSUME NEW i \in DOMAIN s
      PROVE  /\ part(i) \in Seq(T)
             /\ \A k \in DOMAIN part(i) : k = 1 /\ s[i] \notin gone /\ part(i)[k] = s[i]
             /\ s[i] \notin gone => 1 \in DOMAIN part(i) /\ part(i)[1] = s[i]
  <2>1. CASE s[i] \in gone
    BY <2>1
  <2>2. CASE s[i] \notin gone
    <3>1. part(i) = <<s[i]>>
      BY <2>2
    <3>2. s[i] \in T
      BY <1>1
    <3>. HIDE DEF part
    <3>. QED
      BY <2>2, <3>1, <3>2
  <2>. QED
    BY <2>1, <2>2
<1>. HIDE DEF part
<1>3. /\ DOMAIN seqs = 1..Len(s)
      /\ \A i \in 1..Len(s) : seqs[i] = part(i) /\ seqs[i] \in Seq(T)
  BY <1>1, <1>2
<1>4. seqs \in Seq(Seq(T)) /\ Len(seqs) = Len(s)
  <2>1. seqs \in [1..Len(s) -> Seq(T)]
    BY <1>1, <1>2
  <2>. HIDE DEF seqs
  <2>. QED
    BY <1>1, <1>3, <2>1
<1>. HIDE DEF seqs
<1>5. t \in Seq(T) /\ Joins(t, seqs, Len(s))
  BY <1>4, FlattenSeqJoins
<1>. HIDE DEF t
<1>6. ASSUME NEW i \in 1..Len(s), NEW k, NEW x, IsElement(x, seqs, i, k)
      PROVE  k = 1 /\ x = s[i] /\ x \notin gone
  BY <1>1, <1>2, <1>3, <1>6 DEF IsElement
<1>7. ToSet(t) \subseteq ToSet(s) \ gone
  <2>1. ASSUME NEW a \in DOMAIN t
        PROVE  t[a] \in ToSet(s) \ gone
    <3>1. PICK i \in 1..Len(s) : \E k : IsElement(t[a], seqs, i, k)
      BY <1>5 DEF Joins
    <3>2. t[a] = s[i] /\ t[a] \notin gone
      BY <1>6, <3>1
    <3>. QED
      BY <1>1, <3>2 DEF ToSet
  <2>. QED
    BY <2>1 DEF ToSet
<1>8. ToSet(s) \ gone \subseteq ToSet(t)
  <2>1. ASSUME NEW i \in DOMAIN s, s[i] \notin gone
        PROVE  s[i] \in ToSet(t)
    <3>1. 1 \in DOMAIN seqs[i] /\ seqs[i][1] = s[i]
      BY <1>1, <1>2, <1>3, <2>1
    <3>2. PICK a \in DOMAIN t : t[a] = s[i]
      BY <1>1, <1>5, <3>1 DEF Joins
    <3>. QED
      BY <3>2 DEF ToSet
  <2>. QED
    BY <2>1 DEF ToSet
<1>9. ASSUME NEW x, NEW y, Above(t, x, y)
      PROVE  Above(s, x, y)
  <2>1. PICK a \in DOMAIN t, b \in DOMAIN t : a < b /\ t[a] = x /\ t[b] = y
    BY <1>9 DEF Above
  <2>2. PICK i \in 1..Len(s), j \in 1..Len(s) : \E k, l :
          /\ IsElement(t[a], seqs, i, k)
          /\ IsElement(t[b], seqs, j, l)
          /\ \/ i < j
             \/ i = j /\ k < l
    BY <1>5, <2>1 DEF Joins
  <2>3. PICK k, l :
          /\ IsElement(x, seqs, i, k)
          /\ IsElement(y, seqs, j, l)
          /\ \/ i < j
             \/ i = j /\ k < l
    BY <2>1, <2>2
  <2>4. x = s[i] /\ y = s[j] /\ k = 1 /\ l = 1
    BY <1>6, <2>3
  <2>5. i < j
    BY <2>3, <2>4
  <2>. QED
    BY <1>1, <2>4, <2>5 DEF Above
<1>10. t = FlattenSeq([i \in DOMAIN s |-> IF s[i] \in gone THEN <<>> ELSE <<s[i]>>])
  BY DEF t, seqs, part
<1>. QED
  BY <1>5, <1>7, <1>8, <1>9, <1>10

(***************************************************************************)
(* InsertAt, right below an element.                                       *)
(***************************************************************************)
LEMMA InsertAtKeepsOrder ==
  ASSUME NEW T, NEW s \in Seq(T), NEW p \in DOMAIN s, NEW e \in T
  PROVE  LET t == InsertAt(s, p + 1, e) IN
         /\ t \in Seq(T)
         /\ ToSet(t) = ToSet(s) \cup {e}
         /\ Above(t, s[p], e)
         /\ \A x, y : Above(t, x, y) =>
              \/ Above(s, x, y)
              \/ x = e /\ \E k \in DOMAIN s : k > p /\ y = s[k]
              \/ y = e /\ \E k \in DOMAIN s : k <= p /\ x = s[k]
<1>. DEFINE t == InsertAt(s, p + 1, e)
            old(k) == IF k <= p THEN k ELSE k - 1
<1>1. /\ t \in Seq(T)
      /\ p + 1 \in DOMAIN t /\ t[p + 1] = e
      /\ \A k \in DOMAIN t : k # p + 1 => old(k) \in DOMAIN s /\ t[k] = s[old(k)]
      /\ \A k \in DOMAIN s : k <= p => k \in DOMAIN t /\ t[k] = s[k]
      /\ \A k \in DOMAIN s : k > p => k + 1 \in DOMAIN t /\ t[k + 1] = s[k]
  <2>. DEFINE front == SubSeq(s, 1, p)
              back == SubSeq(s, p + 1, Len(s))
  <2>1. /\ front \in Seq(T)
        /\ Len(front) = p
        /\ \A k \in 1..p : front[k] = s[k]
    OBVIOUS
  <2>2. /\ back \in Seq(T)
        /\ Len(back) = Len(s) - p
        /\ \A k \in 1..(Len(s) - p) : back[k] = s[k + p]
    OBVIOUS
  <2>. HIDE DEF front, back
  <2>3. t = (front \o <<e>>) \o back
    <3>1. (p + 1) - 1 = p
      OBVIOUS
    <3>. QED
      BY <3>1 DEF InsertAt, front, back
  <2>. DEFINE upper == front \o <<e>>
  <2>4. /\ upper \in Seq(T)
        /\ Len(upper) = p + 1
        /\ \A k \in 1..p : upper[k] = s[k]
        /\ upper[p + 1] = e
    BY <2>1
  <2>5. t = upper \o back
    BY <2>3
  <2>. HIDE DEF upper, t
  <2>6. /\ t \in Seq(T)
        /\ DOMAIN t = 1..(Len(s) + 1)
        /\ \A k \in 1..(Len(s) + 1) :
             t[k] = IF k <= p + 1 THEN upper[k] ELSE back[k - (p + 1)]
    <3>1. Len(upper) + Len(back) = Len(s) + 1
      BY <2>2, <2>4
    <3>2. /\ t \in Seq(T)
          /\ DOMAIN t = 1..(Len(upper) + Len(back))
          /\ \A k \in 1..(Len(upper) + Len(back)) :
               t[k] = IF k <= Len(upper) THEN upper[k] ELSE back[k - Len(upper)]
      BY <2>2, <2>4, <2>5, ConcatElements
    <3>. QED
      BY <2>4, <3>1, <3>2
  <2>7. p + 1 \in DOMAIN t /\ t[p + 1] = e
    BY <2>4, <2>6
  <2>8. ASSUME NEW k \in DOMAIN t, k # p + 1
        PROVE  old(k) \in DOMAIN s /\ t[k] = s[old(k)]
    <3>1. CASE k <= p
      BY <2>4, <2>6, <3>1
    <3>2. CASE ~ (k <= p)
      <4>1. /\ k - (p + 1) \in 1..(Len(s) - p)
            /\ (k - (p + 1)) + p = k - 1
            /\ ~ (k <= p + 1)
        <5>1. k \in 1..(Len(s) + 1) /\ p \in 1..Len(s) /\ Len(s) \in Nat
          BY <2>6
        <5>2. k > p + 1
          BY <2>8, <3>2, <5>1
        <5>. QED
          BY <5>1, <5>2
      <4>2. t[k] = s[k - 1]
        BY <2>2, <2>6, <4>1
      <4>. QED
        BY <2>6, <3>2, <4>1, <4>2
    <3>. QED
      BY <3>1, <3>2
  <2>9. \A k \in DOMAIN s : k <= p => k \in DOMAIN t /\ t[k] = s[k]
    BY <2>4, <2>6
  <2>10. ASSUME NEW k \in DOMAIN s, k > p
         PROVE  k + 1 \in DOMAIN t /\ t[k + 1] = s[k]
    <3>1. /\ (k + 1) - (p + 1) = k - p
          /\ k - p \in 1..(Len(s) - p)
          /\ (k - p) + p = k
          /\ ~ (k + 1 <= p + 1)
          /\ k + 1 \in 1..(Len(s) + 1)
      BY <2>10
    <3>. QED
      BY <2>2, <2>6, <3>1
  <2>. QED
    BY <2>6, <2>7, <2>8, <2>9, <2>10
<1>2. /\ \A k, l \in DOMAIN t : k # p + 1 /\ l # p + 1 /\ k < l => old(k) < old(l)
      /\ \A k \in DOMAIN t : k < p + 1 => old(k) <= p
      /\ \A k \in DOMAIN t : k > p + 1 => old(k) > p
      /\ p < p + 1
      /\ \A k, l \in DOMAIN t : k < l => k # l
  BY <1>1
<1>. HIDE DEF t, old
<1>3. ToSet(t) \subseteq ToSet(s) \cup {e}
  BY <1>1 DEF ToSet
<1>4. ASSUME NEW k \in DOMAIN s
      PROVE  s[k] \in ToSet(t)
  <2>1. k <= p \/ k > p
    OBVIOUS
  <2>. QED
    BY <1>1, <2>1 DEF ToSet
<1>5. e \in ToSet(t)
  BY <1>1 DEF ToSet
<1>6. ToSet(t) = ToSet(s) \cup {e}
  BY <1>3, <1>4, <1>5 DEF ToSet
<1>7. Above(t, s[p], e)
  BY <1>1, <1>2 DEF Above
<1>8. ASSUME NEW x, NEW y, Above(t, x, y)
      PROVE  \/ Above(s, x, y)
             \/ x = e /\ \E k \in DOMAIN s : k > p /\ y = s[k]
             \/ y = e /\ \E k \in DOMAIN s : k <= p /\ x = s[k]
  <2>1. PICK k \in DOMAIN t, l \in DOMAIN t : k < l /\ t[k] = x /\ t[l] = y
    BY <1>8 DEF Above
  <2>2. CASE k = p + 1
    BY <1>1, <1>2, <2>1, <2>2
  <2>3. CASE l = p + 1
    BY <1>1, <1>2, <2>1, <2>3
  <2>4. CASE k # p + 1 /\ l # p + 1
    BY <1>1, <1>2, <2>1, <2>4 DEF Above
  <2>. QED
    BY <2>2, <2>3, <2>4
<1>. QED
  BY <1>1, <1>6, <1>7, <1>8 DEF t
=============================================================================
