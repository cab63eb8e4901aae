-------------------------- MODULE MessageModelProofs --------------------------
(***************************************************************************)
(* What MessageModel promises, for every finite set of messages and every  *)
(* album: the proofs.  The list is reasoned about through what is in it    *)
(* and what is above what, never through indices.                          *)
(***************************************************************************)
EXTENDS MessageModel, SequenceLemmas, FiniteSetTheorems

(* The inductive invariant *)

AnyRow == Row \cup Markers

\* Whether a row may be above another one in the list, the marker included.
Fits(upper, lower) ==
  /\ upper.clock >= lower.clock
  /\ ~ (IsMarker(upper) /\ IsMarker(lower))
  /\ ~ IsMarker(upper) /\ ~ IsMarker(lower) => Precedes(upper, lower)

Tidy(list) == \A x, y \in ToSet(list) : Above(list, x, y) => Fits(x, y)

\* The marker is somewhere below the row of the first unseen message, and has
\* its clock.  This is what makes the clock of the marker row harmless.
Tied(list, images, unseen) ==
  \A marker \in ToSet(list) :
    IsMarker(marker) => \E row \in ToSet(list) : /\ Above(list, row, marker)
                                                 /\ Shows(row, images, unseen)
                                                 /\ row.clock = marker.clock

OneAlbumRow(list, images) ==
  LET albumRows == ToSet(list) \cap AlbumMessages IN
  /\ albumRows \subseteq images
  /\ \A x, y \in albumRows : x = y
  /\ images # {} => albumRows # {}

IInv ==
  /\ TypeOK
  /\ Tidy(items)
  /\ Tied(items, albumMessageIds, firstUnseenMessageId)
  /\ OneAlbumRow(items, albumMessageIds)

----------------------------------------------------------------------------
(* Rows and their order *)

RowShape == [clock : Int, id : Nat]

LEMMA RowFacts ==
  /\ AnyRow \subseteq RowShape
  /\ \A x \in Row : ~ IsMarker(x)
  /\ \A x \in Markers : IsMarker(x) /\ x.clock >= 0
  /\ \A x \in Row : x.clock >= 0 => x \in Messages
  /\ \A x \in Messages : x.clock >= 0 /\ x \in Row
  /\ AlbumMessages \subseteq Messages
  /\ FetchMore \in Row /\ FetchMore \notin Messages
  /\ ChatIdentifier \in Row /\ ChatIdentifier \notin Messages
  /\ FetchMore # ChatIdentifier
  /\ NoMessage \notin AnyRow
<1>1. Messages \subseteq [clock : Nat, id : Nat \ {0}]
  BY MessagesAssumption
<1>2. \A x \in Messages : /\ x.clock \in Nat /\ x.id \in Nat \ {0}
                          /\ x = [clock |-> x.clock, id |-> x.id]
  BY <1>1
<1>3. /\ FetchMore.clock = -1 /\ FetchMore.id = 1
      /\ ChatIdentifier.clock = -2 /\ ChatIdentifier.id = 1
      /\ NoMessage.clock = -1 /\ NoMessage.id = 0
      /\ FetchMore \in RowShape /\ ChatIdentifier \in RowShape
  BY DEF FetchMore, ChatIdentifier, NoMessage, RowShape
<1>4. Messages \subseteq RowShape
  BY <1>1 DEF RowShape
<1>5. \A x \in Markers : \E row \in Messages : x = [clock |-> row.clock, id |-> 0]
  BY DEF Markers, MarkerOf
<1>6. \A x \in Markers : x.clock \in Nat /\ x.id = 0 /\ x \in RowShape
  <2>. SUFFICES ASSUME NEW x \in Markers
                PROVE  x.clock \in Nat /\ x.id = 0 /\ x \in RowShape
    OBVIOUS
  <2>1. PICK row \in Messages : x = [clock |-> row.clock, id |-> 0]
    BY <1>5
  <2>. QED
    BY <1>2, <2>1 DEF RowShape
<1>7. AnyRow \subseteq RowShape
  BY <1>3, <1>4, <1>6 DEF AnyRow, Row
<1>8. \A x \in Row : ~ IsMarker(x)
  BY <1>2, <1>3 DEF Row, IsMarker
<1>9. \A x \in Row : x.clock >= 0 => x \in Messages
  BY <1>3 DEF Row
<1>10. FetchMore \notin Messages /\ ChatIdentifier \notin Messages /\ FetchMore # ChatIdentifier
  BY <1>2, <1>3
<1>11. NoMessage \notin AnyRow
  BY <1>2, <1>3, <1>6 DEF AnyRow, Row
<1>12. \A x \in Messages : x.clock >= 0 /\ x \in Row
  BY <1>2 DEF Row
<1>. QED
  BY <1>3, <1>6, <1>7, <1>8, <1>9, <1>10, <1>11, <1>12, AlbumAssumption DEF Row, IsMarker

LEMMA RowsFinite == IsFiniteSet(Row)
<1>1. Row = (Messages \cup {FetchMore}) \cup {ChatIdentifier}
  BY DEF Row
<1>. QED
  BY <1>1, MessagesAssumption, FS_AddElement

(***************************************************************************)
(* isGreaterThan orders the rows strictly and totally.                     *)
(***************************************************************************)
LEMMA GreaterIsOrder ==
  /\ \A x \in RowShape : ~ IsGreaterThan(x, x)
  /\ \A x, y, z \in RowShape :
       IsGreaterThan(x, y) /\ IsGreaterThan(y, z) => IsGreaterThan(x, z)
  /\ \A x, y \in RowShape : x # y => IsGreaterThan(x, y) \/ IsGreaterThan(y, x)
  /\ \A x, y \in RowShape : IsGreaterThan(x, y) => ~ IsGreaterThan(y, x)
  /\ \A x, y, z \in RowShape :
       IsGreaterThan(x, z) /\ ~ IsGreaterThan(y, z) => IsGreaterThan(x, y)
<1>1. \A x \in RowShape : /\ x.clock \in Int /\ x.id \in Nat
                          /\ x = [clock |-> x.clock, id |-> x.id]
  BY DEF RowShape
<1>2. \A x, y \in RowShape : x.clock = y.clock /\ x.id = y.id => x = y
  BY <1>1
<1>. QED
  BY <1>1, <1>2 DEF IsGreaterThan

(***************************************************************************)
(* Sorted, which is defined by the number of greater rows, lists the rows  *)
(* of a finite set, each one greater than the next.                        *)
(***************************************************************************)
LEMMA SortedLists ==
  ASSUME NEW S \in SUBSET RowShape, IsFiniteSet(S)
  PROVE  /\ Sorted(S) \in Seq(S)
         /\ ToSet(Sorted(S)) = S
         /\ \A x, y : Above(Sorted(S), x, y) => IsGreaterThan(x, y)
<1>. DEFINE n == Cardinality(S)
            greater(r) == {other \in S : IsGreaterThan(other, r)}
            rank == [r \in S |-> Cardinality(greater(r)) + 1]
<1>1. n \in Nat
  BY FS_CardinalityType
<1>2. \A r \in S : /\ IsFiniteSet(greater(r))
                   /\ Cardinality(greater(r)) \in Nat
                   /\ r \notin greater(r)
  BY FS_Subset, FS_CardinalityType, GreaterIsOrder
<1>3. ASSUME NEW r \in S
      PROVE  rank[r] \in 1..n
  <2>1. /\ IsFiniteSet(S \ {r})
        /\ Cardinality(S \ {r}) = n - 1
    BY FS_RemoveElement
  <2>2. greater(r) \subseteq S \ {r}
    BY <1>2
  <2>3. Cardinality(greater(r)) <= n - 1
    BY <2>1, <2>2, FS_Subset
  <2>. HIDE DEF greater, n
  <2>. QED
    BY <1>1, <1>2, <2>3
<1>4. ASSUME NEW r \in S, NEW q \in S, IsGreaterThan(r, q)
      PROVE  rank[r] < rank[q]
  <2>1. greater(r) \subseteq greater(q) /\ r \in greater(q) \ greater(r)
    BY <1>2, <1>4, GreaterIsOrder
  <2>2. /\ Cardinality(greater(r)) <= Cardinality(greater(q))
        /\ Cardinality(greater(q)) = Cardinality(greater(r)) => greater(q) = greater(r)
    BY <1>2, <2>1, FS_Subset
  <2>3. Cardinality(greater(r)) < Cardinality(greater(q))
    BY <1>2, <2>1, <2>2
  <2>. HIDE DEF greater
  <2>. QED
    BY <1>2, <2>3
<1>. HIDE DEF rank
<1>5. \A r, q \in S : rank[r] = rank[q] => r = q
  BY <1>3, <1>4, GreaterIsOrder
<1>6. rank \in [S -> 1..n]
  BY <1>3 DEF rank
<1>7. rank \in Injection(S, 1..n)
  BY <1>5, <1>6 DEF Injection, IsInjective
<1>8. IsFiniteSet(1..n) /\ Cardinality(1..n) = n
  BY <1>1, FS_Interval
<1>9. rank \in Surjection(S, 1..n)
  BY <1>7, <1>8, FS_Injection
<1>10. \A i \in 1..n : \E r \in S : rank[r] = i
  BY <1>9 DEF Surjection
<1>11. ASSUME NEW i \in 1..n
       PROVE  Sorted(S)[i] \in S /\ rank[Sorted(S)[i]] = i
  <2>1. Sorted(S)[i] = CHOOSE r \in S : Cardinality(greater(r)) = i - 1
    BY DEF Sorted
  <2>2. \A r \in S : rank[r] = i <=> Cardinality(greater(r)) = i - 1
    <3>. HIDE DEF greater, n
    <3>. QED
      BY <1>1, <1>2 DEF rank
  <2>3. \E r \in S : Cardinality(greater(r)) = i - 1
    BY <1>10, <2>2
  <2>. QED
    BY <2>1, <2>2, <2>3
<1>12. Sorted(S) \in Seq(S) /\ DOMAIN Sorted(S) = 1..n
  <2>1. DOMAIN Sorted(S) = 1..n
    BY DEF Sorted
  <2>. DEFINE chosen(i) == CHOOSE r \in S : Cardinality(greater(r)) = i - 1
  <2>2. Sorted(S) = [i \in 1..n |-> chosen(i)]
    BY DEF Sorted
  <2>. HIDE DEF chosen
  <2>3. Sorted(S) \in [1..n -> S]
    BY <1>11, <2>2
  <2>. HIDE DEF n
  <2>. QED
    BY <1>1, <2>1, <2>3
<1>13. ToSet(Sorted(S)) = S
  <2>1. ToSet(Sorted(S)) \subseteq S
    BY <1>11, <1>12 DEF ToSet
  <2>2. ASSUME NEW r \in S
        PROVE  r \in ToSet(Sorted(S))
    <3>1. rank[r] \in 1..n /\ Sorted(S)[rank[r]] = r
      BY <1>3, <1>5, <1>11
    <3>. QED
      BY <1>12, <3>1 DEF ToSet
  <2>. QED
    BY <2>1, <2>2
<1>14. ASSUME NEW x, NEW y, Above(Sorted(S), x, y)
       PROVE  IsGreaterThan(x, y)
  <2>1. PICK i \in 1..n, j \in 1..n : i < j /\ x = Sorted(S)[i] /\ y = Sorted(S)[j]
    BY <1>12, <1>14 DEF Above
  <2>2. x \in S /\ y \in S /\ rank[x] < rank[y]
    BY <1>11, <2>1
  <2>3. x # y /\ ~ IsGreaterThan(y, x)
    BY <1>3, <1>4, <2>2
  <2>. QED
    BY <2>2, <2>3, GreaterIsOrder
<1>. QED
  BY <1>12, <1>13, <1>14
----------------------------------------------------------------------------
(* The merge *)

(***************************************************************************)
(* The merge drops nothing and adds nothing else.  What is above what in   *)
(* the result: rows of the list as before, new rows by their order, a new  *)
(* row above a row of the list only if it is greater than that one or one  *)
(* above it, and below only rows it is not greater than.                   *)
(***************************************************************************)
LEMMA MergedOrder ==
  ASSUME NEW list \in Seq(AnyRow), NEW new \in SUBSET AnyRow, IsFiniteSet(new)
  PROVE  /\ Merged(list, new) \in Seq(AnyRow)
         /\ ToSet(Merged(list, new)) = ToSet(list) \cup new
         /\ \A x, y : Above(Merged(list, new), x, y) =>
              \/ Above(list, x, y)
              \/ x \in new /\ y \in new /\ IsGreaterThan(x, y)
              \/ /\ x \in new /\ y \in ToSet(list)
                 /\ \E z \in ToSet(list) : /\ IsGreaterThan(x, z)
                                           /\ z = y \/ Above(list, z, y)
              \/ x \in ToSet(list) /\ y \in new /\ ~ IsGreaterThan(y, x)
<1>. DEFINE n == Len(list)
            front(i) == InFrontOf(list, new, i)
            seqs == [i \in DOMAIN list |-> Append(Sorted(front(i)), list[i])]
            flat == FlattenSeq(seqs)
            rest == Rest(list, new)
<1>1. n \in Nat /\ DOMAIN list = 1..n /\ \A i \in 1..n : list[i] \in AnyRow
  OBVIOUS
<1>2. /\ \A i \in 1..n : \A x \in front(i) :
           /\ x \in new /\ x \in RowShape /\ IsGreaterThan(x, list[i])
           /\ \A k \in 1..(i - 1) : ~ IsGreaterThan(x, list[k])
      /\ \A i \in 1..n, x \in new :
           IsGreaterThan(x, list[i]) /\ (\A k \in 1..(i - 1) : ~ IsGreaterThan(x, list[k]))
             => x \in front(i)
  BY RowFacts DEF InFrontOf, Passed
<1>3. /\ \A x \in rest : /\ x \in new /\ x \in RowShape
                         /\ \A k \in 1..n : ~ IsGreaterThan(x, list[k])
      /\ \A x \in new : (\A k \in 1..n : ~ IsGreaterThan(x, list[k])) => x \in rest
  <2>1. (n + 1) - 1 = n
    BY <1>1
  <2>. QED
    BY <2>1, RowFacts DEF Rest, Passed
<1>4. \A i \in 1..n : list[i] \in RowShape
  BY <1>1, RowFacts
<1>. HIDE DEF front, rest
<1>5. ASSUME NEW i \in 1..n
      PROVE  /\ Sorted(front(i)) \in Seq(AnyRow)
             /\ ToSet(Sorted(front(i))) = front(i)
             /\ \A x, y : Above(Sorted(front(i)), x, y) => IsGreaterThan(x, y)
  <2>1. front(i) \in SUBSET new
    BY <1>2
  <2>2. front(i) \in SUBSET RowShape /\ IsFiniteSet(front(i))
    BY <2>1, RowFacts, FS_Subset
  <2>3. Sorted(front(i)) \in Seq(front(i))
    BY <2>2, SortedLists
  <2>4. Sorted(front(i)) \in Seq(AnyRow)
    BY <2>1, <2>3
  <2>. QED
    BY <2>2, <2>4, SortedLists
<1>6. /\ Sorted(rest) \in Seq(AnyRow)
      /\ ToSet(Sorted(rest)) = rest
      /\ \A x, y : Above(Sorted(rest), x, y) => IsGreaterThan(x, y)
  <2>1. rest \in SUBSET new
    BY <1>3
  <2>2. rest \in SUBSET RowShape /\ IsFiniteSet(rest)
    BY <2>1, RowFacts, FS_Subset
  <2>3. Sorted(rest) \in Seq(rest)
    BY <2>2, SortedLists
  <2>4. Sorted(rest) \in Seq(AnyRow)
    BY <2>1, <2>3
  <2>. QED
    BY <2>2, <2>4, SortedLists
<1>7. \A i \in 1..n : seqs[i] = Append(Sorted(front(i)), list[i]) /\ seqs[i] \in Seq(AnyRow)
  BY <1>1, <1>5
<1>8. \A i \in 1..n :
         /\ DOMAIN seqs[i] = 1..(Len(Sorted(front(i))) + 1)
         /\ \A k \in DOMAIN Sorted(front(i)) :
              k \in DOMAIN seqs[i] /\ seqs[i][k] = Sorted(front(i))[k]
         /\ seqs[i][Len(Sorted(front(i))) + 1] = list[i]
  BY <1>1, <1>5, <1>7, AppendElements
<1>9. seqs \in Seq(Seq(AnyRow)) /\ Len(seqs) = n
  BY <1>1, <1>7
<1>. HIDE DEF seqs
<1>10. ASSUME NEW i \in 1..n, NEW k, NEW x, IsElement(x, seqs, i, k)
      PROVE  \/ x = list[i] /\ k = Len(Sorted(front(i))) + 1
             \/ /\ k \in DOMAIN Sorted(front(i))
                /\ x = Sorted(front(i))[k]
                /\ x \in front(i)
  <2>1. k \in DOMAIN seqs[i] /\ x = seqs[i][k]
    BY <1>10 DEF IsElement
  <2>2. k = Len(Sorted(front(i))) + 1 \/ k \in DOMAIN Sorted(front(i))
    BY <1>5, <1>8, <2>1
  <2>3. CASE k = Len(Sorted(front(i))) + 1
    BY <1>8, <2>1, <2>3
  <2>4. CASE k \in DOMAIN Sorted(front(i))
    <3>1. x = Sorted(front(i))[k]
      BY <1>8, <2>1, <2>4
    <3>. QED
      BY <1>5, <2>4, <3>1 DEF ToSet
  <2>. QED
    BY <2>2, <2>3, <2>4
<1>11. ASSUME NEW i \in 1..n
       PROVE  /\ \E k \in DOMAIN seqs[i] : seqs[i][k] = list[i]
              /\ \A x \in front(i) : \E k \in DOMAIN seqs[i] : seqs[i][k] = x
  <2>1. Len(Sorted(front(i))) + 1 \in DOMAIN seqs[i]
    BY <1>5, <1>8
  <2>. QED
    BY <1>5, <1>8, <2>1 DEF ToSet
<1>12. flat \in Seq(AnyRow) /\ Joins(flat, seqs, n)
  BY <1>9, FlattenSeqJoins
<1>13. Merged(list, new) = flat \o Sorted(rest)
  BY DEF Merged, seqs, flat, front, rest
<1>. HIDE DEF flat
<1>14. /\ Merged(list, new) \in Seq(AnyRow)
       /\ ToSet(Merged(list, new)) = ToSet(flat) \cup rest
       /\ \A x, y : Above(Merged(list, new), x, y) <=>
            \/ Above(flat, x, y)
            \/ Above(Sorted(rest), x, y)
            \/ x \in ToSet(flat) /\ y \in rest
  BY <1>6, <1>12, <1>13, ConcatAbove
<1>15. ASSUME NEW x \in ToSet(flat)
       PROVE  \E i \in 1..n : x = list[i] \/ x \in front(i)
  <2>1. PICK i, k : i \in 1..n /\ IsElement(x, seqs, i, k)
    BY <1>12 DEF Joins, ToSet
  <2>. QED
    BY <1>10, <2>1
<1>16. ToSet(flat) \cup rest = ToSet(list) \cup new
  <2>1. ToSet(flat) \cup rest \subseteq ToSet(list) \cup new
    BY <1>1, <1>2, <1>3, <1>15 DEF ToSet
  <2>2. ToSet(list) \subseteq ToSet(flat)
    BY <1>1, <1>11, <1>12 DEF Joins, ToSet
  <2>3. \A i \in 1..n : front(i) \subseteq ToSet(flat)
    BY <1>11, <1>12 DEF Joins, ToSet
  <2>4. ASSUME NEW x \in new
        PROVE  x \in ToSet(flat) \cup rest
    <3>. DEFINE lesser == {i \in 1..n : IsGreaterThan(x, list[i])}
    <3>1. CASE lesser = {}
      BY <1>3, <3>1
    <3>2. CASE lesser # {}
      <4>1. PICK least \in lesser : \A i \in lesser : least <= i
        <5>1. lesser \in SUBSET Nat
          BY <1>1
        <5>. HIDE DEF lesser
        <5>. QED
          BY <3>2, <5>1, LeastNatural
      <4>2. least \in 1..n /\ \A k \in 1..(least - 1) : k \notin lesser /\ k \in 1..n
        BY <1>1, <4>1
      <4>3. x \in front(least)
        BY <1>2, <4>1, <4>2
      <4>. QED
        BY <2>3, <4>2, <4>3
    <3>. QED
      BY <3>1, <3>2
  <2>. QED
    BY <2>1, <2>2, <2>4
<1>. DEFINE Claim(x, y) ==
              \/ Above(list, x, y)
              \/ x \in new /\ y \in new /\ IsGreaterThan(x, y)
              \/ /\ x \in new /\ y \in ToSet(list)
                 /\ \E z \in ToSet(list) : /\ IsGreaterThan(x, z)
                                           /\ z = y \/ Above(list, z, y)
              \/ x \in ToSet(list) /\ y \in new /\ ~ IsGreaterThan(y, x)
<1>17. ASSUME NEW x, NEW y, Above(flat, x, y)
       PROVE  Claim(x, y)
  <2>1. PICK a \in DOMAIN flat, b \in DOMAIN flat : a < b /\ flat[a] = x /\ flat[b] = y
    BY <1>17 DEF Above
  <2>2. PICK i \in 1..n, j \in 1..n : \E k, l :
          /\ IsElement(flat[a], seqs, i, k)
          /\ IsElement(flat[b], seqs, j, l)
          /\ \/ i < j
             \/ i = j /\ k < l
    BY <1>12, <2>1 DEF Joins
  <2>3. PICK k, l :
          /\ IsElement(x, seqs, i, k)
          /\ IsElement(y, seqs, j, l)
          /\ \/ i < j
             \/ i = j /\ k < l
    BY <2>1, <2>2
  <2>4. /\ i \in 1..n /\ j \in 1..n /\ list[i] \in ToSet(list) /\ list[j] \in ToSet(list)
        /\ i <= j
        /\ i < j => i \in 1..(j - 1)
    BY <1>1, <2>3 DEF ToSet
  <2>5. CASE x \in front(i) /\ y \in front(j)
    <3>1. CASE i < j
      <4>1. IsGreaterThan(x, list[i]) /\ ~ IsGreaterThan(y, list[i])
        BY <1>2, <2>4, <2>5, <3>1
      <4>2. IsGreaterThan(x, y)
        BY <1>2, <1>4, <2>5, <4>1, GreaterIsOrder
      <4>. QED
        BY <1>2, <2>5, <4>2
    <3>2. CASE i = j
      <4>1. k < l
        BY <2>3, <3>2
      <4>2. CASE x = list[i] \/ y = list[i]
        <5>1. FALSE
          BY <1>2, <1>4, <2>5, <3>2, <4>2, GreaterIsOrder
        <5>. QED
          BY <5>1
      <4>3. CASE x # list[i] /\ y # list[i]
        <5>1. /\ k \in DOMAIN Sorted(front(i)) /\ x = Sorted(front(i))[k]
              /\ l \in DOMAIN Sorted(front(i)) /\ y = Sorted(front(i))[l]
          BY <1>10, <2>3, <3>2, <4>3
        <5>2. IsGreaterThan(x, y)
          BY <1>5, <4>1, <5>1 DEF Above
        <5>. QED
          BY <1>2, <2>5, <5>2
      <4>. QED
        BY <4>2, <4>3
    <3>. QED
      BY <2>4, <3>1, <3>2
  <2>6. CASE x \in front(i) /\ y = list[j]
    <3>1. x \in new /\ IsGreaterThan(x, list[i])
      BY <1>2, <2>6
    <3>2. list[i] = y \/ Above(list, list[i], y)
      <4>1. CASE i = j
        BY <2>6, <4>1
      <4>2. CASE i < j
        BY <1>1, <2>4, <2>6, <4>2 DEF Above
      <4>. QED
        BY <2>4, <4>1, <4>2
    <3>. QED
      BY <2>4, <2>6, <3>1, <3>2
  <2>7. CASE x = list[i] /\ k = Len(Sorted(front(i))) + 1
    <3>1. i < j
      <4>. SUFFICES ASSUME i = j
                    PROVE  FALSE
        BY <2>4
      <4>1. l \in DOMAIN Sorted(front(i)) \/ l = Len(Sorted(front(i))) + 1
        BY <1>10, <2>3
      <4>2. ~ (k < l)
        BY <1>5, <2>7, <4>1
      <4>. QED
        BY <2>3, <4>2
    <3>2. CASE y = list[j]
      BY <1>1, <2>4, <2>7, <3>1, <3>2 DEF Above
    <3>3. CASE y \in front(j)
      BY <1>2, <2>4, <2>7, <3>1, <3>3
    <3>. QED
      BY <1>10, <2>3, <3>2, <3>3
  <2>. QED
    BY <1>10, <2>3, <2>5, <2>6, <2>7
<1>18. ASSUME NEW x \in ToSet(flat), NEW y \in rest
       PROVE  Claim(x, y)
  <2>1. PICK i \in 1..n : x = list[i] \/ x \in front(i)
    BY <1>15
  <2>2. ~ IsGreaterThan(y, list[i]) /\ y \in new /\ y \in RowShape
    BY <1>3
  <2>3. CASE x = list[i]
    BY <1>1, <2>2, <2>3 DEF ToSet
  <2>4. CASE x \in front(i)
    <3>1. IsGreaterThan(x, y)
      BY <1>2, <1>4, <2>2, <2>4, GreaterIsOrder
    <3>. QED
      BY <1>2, <2>2, <2>4, <3>1
  <2>. QED
    BY <2>1, <2>3, <2>4
<1>19. ASSUME NEW x, NEW y, Above(Sorted(rest), x, y)
       PROVE  Claim(x, y)
  BY <1>3, <1>6, <1>19, AboveInSet
<1>20. \A x, y : Above(Merged(list, new), x, y) => Claim(x, y)
  BY <1>14, <1>17, <1>18, <1>19
<1>. QED
  BY <1>14, <1>16, <1>20
----------------------------------------------------------------------------
(* Lists that are tidy *)

LEMMA TidyFacts ==
  ASSUME NEW list \in Seq(AnyRow), Tidy(list)
  PROVE  /\ Distinct(list)
         /\ \A x, y : Above(list, x, y) => Fits(x, y)
         /\ \A x, y \in ToSet(list) : IsMarker(x) /\ IsMarker(y) => x = y
         /\ ToSet(list) \subseteq AnyRow
<1>1. \A x, y : Above(list, x, y) => Fits(x, y)
  BY AboveInSet DEF Tidy
<1>2. \A x : ~ Fits(x, x)
  BY DEF Fits, Precedes
<1>3. Distinct(list)
  BY <1>1, <1>2 DEF Distinct
<1>4. \A x, y \in ToSet(list) : IsMarker(x) /\ IsMarker(y) => x = y
  BY <1>1, AboveTotal DEF Fits
<1>5. ToSet(list) \subseteq AnyRow
  BY DEF ToSet
<1>. QED
  BY <1>1, <1>3, <1>4, <1>5

LEMMA TiedFacts ==
  ASSUME NEW list \in Seq(AnyRow), Tidy(list), NEW images, NEW unseen,
         Tied(list, images, unseen), NEW marker \in ToSet(list), IsMarker(marker)
  PROVE  \E row \in Messages : /\ Above(list, row, marker)
                               /\ Shows(row, images, unseen)
                               /\ row.clock = marker.clock
<1>1. PICK row \in ToSet(list) : /\ Above(list, row, marker)
                                 /\ Shows(row, images, unseen)
                                 /\ row.clock = marker.clock
  BY DEF Tied
<1>2. ~ IsMarker(row)
  BY <1>1, TidyFacts DEF Fits
<1>3. row \in Row /\ marker \in Markers
  BY <1>2, TidyFacts, RowFacts DEF AnyRow
<1>. QED
  BY <1>1, <1>3, RowFacts

(***************************************************************************)
(* insertItemsBasedOnClock keeps a list tidy and its marker tied, inserts  *)
(* all of the new rows and moves none of those that are there.             *)
(***************************************************************************)
LEMMA InsertKeepsTidy ==
  ASSUME NEW list \in Seq(AnyRow), Tidy(list), NEW new \in SUBSET Row,
         NEW images, NEW unseen, Tied(list, images, unseen)
  PROVE  LET result == InsertItemsBasedOnClock(list, new) IN
         /\ result \in Seq(AnyRow)
         /\ Tidy(result)
         /\ Tied(result, images, unseen)
         /\ ToSet(result) = ToSet(list) \cup new
         /\ \A x, y \in ToSet(list) : Above(result, x, y) => Above(list, x, y)
<1>. DEFINE fresh == FilterExistingItems(list, new)
            result == InsertItemsBasedOnClock(list, new)
<1>1. /\ fresh \in SUBSET Row /\ fresh \in SUBSET AnyRow
      /\ fresh \cap ToSet(list) = {}
      /\ ToSet(list) \cup fresh = ToSet(list) \cup new
  BY DEF FilterExistingItems, AnyRow
<1>2. IsFiniteSet(fresh)
  BY <1>1, RowsFinite, FS_Subset
<1>3. result = Merged(list, fresh)
  BY DEF InsertItemsBasedOnClock
<1>. HIDE DEF result, fresh
<1>4. /\ result \in Seq(AnyRow)
      /\ ToSet(result) = ToSet(list) \cup fresh
  BY <1>1, <1>2, <1>3, MergedOrder
<1>5. ASSUME NEW x, NEW y, Above(result, x, y)
      PROVE  \/ Above(list, x, y)
             \/ x \in fresh /\ y \in fresh /\ IsGreaterThan(x, y)
             \/ /\ x \in fresh /\ y \in ToSet(list)
                /\ \E z \in ToSet(list) : /\ IsGreaterThan(x, z)
                                          /\ z = y \/ Above(list, z, y)
             \/ x \in ToSet(list) /\ y \in fresh /\ ~ IsGreaterThan(y, x)
  BY <1>1, <1>2, <1>3, <1>5, MergedOrder
<1>6. \A x \in AnyRow : /\ x \in RowShape /\ x.clock \in Int /\ x.id \in Nat
                        /\ x = [clock |-> x.clock, id |-> x.id]
  BY RowFacts DEF RowShape
<1>7. ToSet(list) \subseteq AnyRow /\ \A x \in fresh : ~ IsMarker(x)
  BY <1>1, TidyFacts, RowFacts
<1>8. \A x, y \in AnyRow : IsGreaterThan(x, y) => x.clock >= y.clock /\ x # y
  BY <1>6, GreaterIsOrder DEF IsGreaterThan
<1>9. \A x, y \in ToSet(list) : Above(result, x, y) => Above(list, x, y)
  BY <1>1, <1>5
<1>10. ASSUME NEW x \in fresh, NEW y \in ToSet(list), NEW z \in ToSet(list),
              IsGreaterThan(x, z), z = y \/ Above(list, z, y)
       PROVE  Fits(x, y)
  <2>1. /\ x.clock \in Int /\ y.clock \in Int /\ z.clock \in Int
        /\ x \in RowShape /\ y \in RowShape /\ z \in RowShape
        /\ x \in AnyRow /\ y \in AnyRow /\ z \in AnyRow
        /\ x # y /\ x # z
    BY <1>1, <1>6, <1>7
  <2>2. Above(list, z, y) => Fits(z, y)
    BY TidyFacts
  <2>3. x.clock >= z.clock /\ z.clock >= y.clock
    BY <1>8, <1>10, <2>1, <2>2 DEF Fits
  <2>4. x.clock >= y.clock
    BY <2>1, <2>3
  <2>5. CASE IsMarker(y)
    BY <1>7, <2>4, <2>5 DEF Fits
  <2>6. CASE ~ IsMarker(y) /\ x.clock # y.clock
    <3>1. IsGreaterThan(x, y)
      BY <2>1, <2>4, <2>6 DEF IsGreaterThan
    <3>. QED
      BY <1>7, <2>1, <2>4, <3>1 DEF Fits, Precedes
  <2>7. CASE ~ IsMarker(y) /\ x.clock = y.clock /\ ~ IsMarker(z)
    <3>1. z.clock = y.clock /\ z.clock = x.clock
      BY <2>1, <2>3, <2>7
    <3>2. IsGreaterThan(x, y) \/ Crowded(x)
      <4>1. CASE z = y \/ IsGreaterThan(z, y)
        BY <1>10, <2>1, <4>1, GreaterIsOrder
      <4>2. CASE ~ (z = y \/ IsGreaterThan(z, y))
        <5>1. Precedes(z, y)
          BY <1>10, <2>2, <2>7, <4>2 DEF Fits
        <5>2. Crowded(z)
          BY <4>2, <5>1 DEF Precedes
        <5>. QED
          BY <3>1, <5>2 DEF Crowded
      <4>. QED
        BY <4>1, <4>2
    <3>. QED
      BY <1>7, <2>1, <2>4, <2>7, <3>2 DEF Fits, Precedes
  <2>8. CASE ~ IsMarker(y) /\ x.clock = y.clock /\ IsMarker(z)
    <3>1. z.clock = y.clock /\ z.clock = x.clock
      BY <2>1, <2>3, <2>8
    <3>2. Above(list, z, y)
      BY <1>10, <2>8
    <3>3. PICK row \in Messages : Above(list, row, z) /\ row.clock = z.clock
      BY <2>8, TiedFacts
    <3>4. Above(list, row, y) /\ row \in ToSet(list)
      BY <3>2, <3>3, TidyFacts, AboveTransitive, AboveInSet
    <3>5. row # y /\ row # x
      BY <1>1, <3>4, TidyFacts DEF Distinct
    <3>6. x \in Messages /\ y \in Messages
      <4>1. z \in Markers
        BY <2>1, <2>8, RowFacts DEF AnyRow
      <4>2. x.clock >= 0 /\ y.clock >= 0
        BY <3>1, <4>1, RowFacts
      <4>3. x \in Row /\ y \in Row
        BY <1>1, <2>1, <2>8, RowFacts DEF AnyRow
      <4>. QED
        BY <4>2, <4>3, RowFacts
    <3>7. {x.clock, y.clock, row.clock} = {x.clock}
      BY <3>1, <3>3
    <3>8. Crowded(x)
      BY <2>1, <3>5, <3>6, <3>7 DEF Crowded
    <3>. QED
      BY <1>7, <2>1, <2>4, <2>8, <3>8 DEF Fits, Precedes
  <2>. QED
    BY <2>5, <2>6, <2>7, <2>8
<1>11. ASSUME NEW x \in ToSet(list), NEW y \in fresh, ~ IsGreaterThan(y, x)
       PROVE  Fits(x, y)
  <2>1. /\ x.clock \in Int /\ y.clock \in Int /\ x \in RowShape /\ y \in RowShape
        /\ x.id \in Nat /\ y.id \in Nat
        /\ x # y
    BY <1>1, <1>6, <1>7
  <2>2. IsGreaterThan(x, y)
    BY <1>11, <2>1, GreaterIsOrder
  <2>3. x.clock >= y.clock
    BY <2>1, <2>2 DEF IsGreaterThan
  <2>. QED
    BY <1>7, <2>1, <2>2, <2>3 DEF Fits, Precedes
<1>12. ASSUME NEW x \in fresh, NEW y \in fresh, IsGreaterThan(x, y)
       PROVE  Fits(x, y)
  BY <1>1, <1>7, <1>8, <1>12 DEF Fits, Precedes
<1>13. Tidy(result)
  <2>. SUFFICES ASSUME NEW x, NEW y, Above(result, x, y)
                PROVE  Fits(x, y)
    BY DEF Tidy
  <2>. QED
    BY <1>5, <1>10, <1>11, <1>12, TidyFacts
<1>14. Tied(result, images, unseen)
  <2>. SUFFICES ASSUME NEW marker \in ToSet(result), IsMarker(marker)
                PROVE  \E row \in ToSet(result) : /\ Above(result, row, marker)
                                                  /\ Shows(row, images, unseen)
                                                  /\ row.clock = marker.clock
    BY DEF Tied
  <2>1. marker \in ToSet(list)
    BY <1>4, <1>7
  <2>2. PICK row \in Messages : /\ Above(list, row, marker)
                                /\ Shows(row, images, unseen)
                                /\ row.clock = marker.clock
    BY <2>1, TiedFacts
  <2>3. row \in ToSet(list) /\ row # marker /\ ~ Above(list, marker, row)
    BY <2>2, TidyFacts, AboveInSet, AboveAsymmetric DEF Distinct
  <2>4. Above(result, row, marker) \/ Above(result, marker, row)
    BY <1>4, <2>1, <2>3, AboveTotal
  <2>5. Above(result, row, marker)
    BY <1>9, <2>1, <2>3, <2>4
  <2>. QED
    BY <1>4, <2>2, <2>3, <2>5
<1>. QED
  BY <1>1, <1>4, <1>9, <1>13, <1>14 DEF result
----------------------------------------------------------------------------
(* The marker is taken out and put back *)

LEMMA WithoutMarkerKeepsRows ==
  ASSUME NEW list \in Seq(AnyRow), Tidy(list)
  PROVE  LET bare == WithoutMarker(list) IN
         /\ bare \in Seq(AnyRow)
         /\ ToSet(bare) = {x \in ToSet(list) : ~ IsMarker(x)}
         /\ ToSet(bare) \subseteq Row
         /\ \A x, y : Above(bare, x, y) => Above(list, x, y)
<1>. DEFINE I == {i \in 1..Len(list) : IsMarker(list[i])}
            marker == SelectLastInSeq(list, IsMarker)
            bare == WithoutMarker(list)
<1>1. marker = IF I # {} THEN Max(I) ELSE 0
  BY DEF SelectLastInSeq
<1>2. DOMAIN list = 1..Len(list) /\ Len(list) \in Nat
  OBVIOUS
<1>3. \A i, j \in I : i = j
  <2>. SUFFICES ASSUME NEW i \in I, NEW j \in I
                PROVE  i = j
    OBVIOUS
  <2>1. list[i] = list[j]
    BY <1>2, TidyFacts DEF ToSet
  <2>. QED
    BY <1>2, <2>1, TidyFacts, DistinctIndices
<1>4. bare = IF marker = 0 THEN list ELSE RemoveAt(list, marker)
  BY DEF WithoutMarker
<1>. HIDE DEF I, marker, bare
<1>5. CASE I = {}
  <2>1. bare = list
    BY <1>1, <1>4, <1>5
  <2>2. \A x \in ToSet(list) : ~ IsMarker(x)
    BY <1>2, <1>5 DEF I, ToSet
  <2>. QED
    BY <2>1, <2>2, TidyFacts, RowFacts DEF AnyRow, bare
<1>6. CASE I # {}
  <2>1. PICK i \in I : I = {i}
    BY <1>3, <1>6
  <2>2. i \in 1..Len(list) /\ IsMarker(list[i]) /\ i \in Int
    BY <2>1 DEF I
  <2>3. Max(I) = i
    BY <2>1, <2>2 DEF Max
  <2>4. bare = RemoveAt(list, i)
    BY <1>1, <1>2, <1>4, <1>6, <2>2, <2>3
  <2>5. /\ bare \in Seq(AnyRow)
        /\ ToSet(bare) \subseteq ToSet(list)
        /\ ToSet(list) \subseteq ToSet(bare) \cup {list[i]}
        /\ \A x, y : Above(bare, x, y) => Above(list, x, y)
        /\ list[i] \notin ToSet(bare)
    BY <1>2, <2>2, <2>4, TidyFacts, RemoveAtKeepsOrder
  <2>6. list[i] \in ToSet(list)
    BY <1>2, <2>2 DEF ToSet
  <2>7. \A x \in ToSet(list) : x # list[i] => ~ IsMarker(x)
    BY <2>2, <2>6, TidyFacts
  <2>8. ToSet(bare) = {x \in ToSet(list) : ~ IsMarker(x)}
    BY <2>2, <2>5, <2>7
  <2>. QED
    BY <2>5, <2>8, TidyFacts, RowFacts DEF AnyRow, bare
<1>. QED
  BY <1>5, <1>6

LEMMA FindIndexFinds ==
  ASSUME NEW list \in Seq(AnyRow), NEW images, NEW id
  PROVE  LET index == FindIndexForMessageId(list, images, id) IN
         \/ index = 0 /\ \A x \in ToSet(list) : ~ Shows(x, images, id)
         \/ /\ index \in DOMAIN list
            /\ Shows(list[index], images, id)
            /\ \A i \in DOMAIN list : Shows(list[i], images, id) => index <= i
<1>. DEFINE I == {i \in 1..Len(list) : Shows(list[i], images, id)}
            index == FindIndexForMessageId(list, images, id)
<1>1. index = IF I # {} THEN Min(I) ELSE 0
  BY DEF FindIndexForMessageId, SelectInSeq
<1>2. DOMAIN list = 1..Len(list) /\ I \in SUBSET Nat
  OBVIOUS
<1>. HIDE DEF index
<1>3. CASE I = {}
  BY <1>1, <1>2, <1>3 DEF ToSet, index
<1>4. CASE I # {}
  <2>1. index \in I /\ \A i \in I : index <= i
    <3>. HIDE DEF I
    <3>. QED
      BY <1>1, <1>2, <1>4, MinIsLeast
  <2>. QED
    BY <1>2, <2>1 DEF index
<1>. QED
  BY <1>3, <1>4

\* Which messages there can be a question for, and which can be listed.
Known(images, id) == images \subseteq AlbumMessages /\ id \in Messages \cup {NoMessage}

(***************************************************************************)
(* resetNewMessagesMarker: the rows are the same and in the same order,    *)
(* and the marker, if there is one, belongs to the message asked for.      *)
(***************************************************************************)
LEMMA ResetTiesMarker ==
  ASSUME NEW list \in Seq(AnyRow), Tidy(list), NEW images, NEW unseen, Known(images, unseen)
  PROVE  LET result == ResetNewMessagesMarker(list, images, unseen) IN
         /\ result \in Seq(AnyRow)
         /\ Tidy(result)
         /\ Tied(result, images, unseen)
         /\ \A x : ~ IsMarker(x) => (x \in ToSet(result) <=> x \in ToSet(list))
         /\ \A x, y : ~ IsMarker(x) /\ ~ IsMarker(y) /\ Above(result, x, y) => Above(list, x, y)
<1>. DEFINE bare == WithoutMarker(list)
            index == FindIndexForMessageId(bare, images, unseen)
            marker == MarkerOf(bare[index])
            result == ResetNewMessagesMarker(list, images, unseen)
<1>1. result = IF index = 0 THEN bare ELSE InsertAt(bare, index + 1, marker)
  BY DEF ResetNewMessagesMarker
<1>2. /\ bare \in Seq(AnyRow)
      /\ ToSet(bare) = {x \in ToSet(list) : ~ IsMarker(x)}
      /\ ToSet(bare) \subseteq Row
      /\ \A x, y : Above(bare, x, y) => Above(list, x, y)
  BY WithoutMarkerKeepsRows
<1>. HIDE DEF bare
<1>3. \/ index = 0 /\ \A x \in ToSet(bare) : ~ Shows(x, images, unseen)
      \/ index \in DOMAIN bare /\ Shows(bare[index], images, unseen)
  BY <1>2, FindIndexFinds
<1>. HIDE DEF index, result
<1>4. \A x, y : Above(bare, x, y) => Fits(x, y)
  BY <1>2, TidyFacts
<1>5. \A x \in ToSet(bare) : ~ IsMarker(x)
  BY <1>2
<1>6. CASE index = 0
  <2>1. result = bare
    BY <1>1, <1>6
  <2>. QED
    BY <1>2, <1>4, <1>5, <2>1 DEF Tidy, Tied, result
<1>7. CASE index # 0
  <2>1. index \in DOMAIN bare /\ Shows(bare[index], images, unseen)
    BY <1>3, <1>7
  <2>. DEFINE row == bare[index]
  <2>2. row \in ToSet(bare) /\ row \in Row
    BY <1>2, <2>1 DEF ToSet
  <2>3. row \in Messages
    BY <2>1, <2>2, RowFacts DEF Shows, Known, AnyRow
  <2>4. /\ marker \in Markers /\ marker \in AnyRow
        /\ IsMarker(marker)
        /\ marker.clock = row.clock
    BY <2>3 DEF Markers, MarkerOf, IsMarker, AnyRow
  <2>. HIDE DEF marker
  <2>5. result = InsertAt(bare, index + 1, marker)
    BY <1>1, <1>7
  <2>6. /\ result \in Seq(AnyRow)
        /\ ToSet(result) = ToSet(bare) \cup {marker}
        /\ Above(result, row, marker)
        /\ \A x, y : Above(result, x, y) =>
             \/ Above(bare, x, y)
             \/ x = marker /\ \E k \in DOMAIN bare : k > index /\ y = bare[k]
             \/ y = marker /\ \E k \in DOMAIN bare : k <= index /\ x = bare[k]
    BY <1>2, <2>1, <2>4, <2>5, InsertAtKeepsOrder
  <2>7. \A k \in DOMAIN bare : bare[k] \in ToSet(bare) /\ bare[k].clock \in Int
    BY <1>2, RowFacts DEF ToSet, AnyRow, RowShape
  <2>8. ASSUME NEW k \in DOMAIN bare, k > index
        PROVE  Fits(marker, bare[k])
    <3>1. Above(bare, row, bare[k])
      BY <2>1, <2>8 DEF Above
    <3>2. row.clock >= bare[k].clock
      BY <1>4, <3>1 DEF Fits
    <3>. QED
      BY <1>5, <2>4, <2>7, <3>2 DEF Fits
  <2>9. ASSUME NEW k \in DOMAIN bare, k <= index
        PROVE  Fits(bare[k], marker)
    <3>1. CASE k = index
      BY <1>5, <2>2, <2>4, <2>7, <3>1 DEF Fits
    <3>2. CASE k # index
      <4>1. k < index
        BY <1>2, <2>1, <2>9, <3>2
      <4>2. Above(bare, bare[k], row)
        BY <2>1, <4>1 DEF Above
      <4>3. bare[k].clock >= row.clock
        BY <1>4, <4>2 DEF Fits
      <4>. QED
        BY <1>5, <2>4, <2>7, <4>3 DEF Fits
    <3>. QED
      BY <3>1, <3>2
  <2>10. Tidy(result)
    BY <1>4, <2>6, <2>8, <2>9 DEF Tidy
  <2>11. Tied(result, images, unseen)
    <3>1. \A x \in ToSet(result) : IsMarker(x) => x = marker
      BY <1>5, <2>6
    <3>2. row \in ToSet(result)
      BY <2>2, <2>6
    <3>. QED
      BY <2>1, <2>4, <2>6, <3>1, <3>2 DEF Tied
  <2>12. \A x : ~ IsMarker(x) => (x \in ToSet(result) <=> x \in ToSet(list))
    BY <1>2, <2>4, <2>6
  <2>13. \A x, y : ~ IsMarker(x) /\ ~ IsMarker(y) /\ Above(result, x, y) => Above(list, x, y)
    BY <1>2, <2>4, <2>6
  <2>. QED
    BY <2>6, <2>10, <2>11, <2>12, <2>13 DEF result
<1>. QED
  BY <1>6, <1>7

(***************************************************************************)
(* removeItem takes out the row in which the message is found, if there is *)
(* one, and nothing else but the marker.                                   *)
(***************************************************************************)
LEMMA RemoveItemTakesOne ==
  ASSUME NEW list \in Seq(AnyRow), Tidy(list), NEW images, NEW id,
         Known(images, firstUnseenMessageId), Tied(list, images, firstUnseenMessageId)
  PROVE  LET result == RemoveItem(list, images, id) IN
         /\ result \in Seq(AnyRow)
         /\ Tidy(result)
         /\ Tied(result, images, firstUnseenMessageId)
         /\ \/ result = list /\ \A x \in ToSet(list) : ~ Shows(x, images, id)
            \/ \E gone \in ToSet(list) :
                 /\ Shows(gone, images, id)
                 /\ \A x : ~ IsMarker(x) =>
                      (x \in ToSet(result) <=> x \in ToSet(list) \ {gone})
         /\ \A x, y : ~ IsMarker(x) /\ ~ IsMarker(y) /\ Above(result, x, y) => Above(list, x, y)
<1>. DEFINE index == FindIndexForMessageId(list, images, id)
            removed == RemoveAt(list, index)
            result == RemoveItem(list, images, id)
<1>1. result = IF index = 0 THEN list
               ELSE ResetNewMessagesMarker(removed, images, firstUnseenMessageId)
  BY DEF RemoveItem
<1>2. \/ index = 0 /\ \A x \in ToSet(list) : ~ Shows(x, images, id)
      \/ index \in DOMAIN list /\ Shows(list[index], images, id)
  BY FindIndexFinds
<1>. HIDE DEF index, result
<1>3. CASE index = 0
  <2>1. result = list
    BY <1>1, <1>3
  <2>2. 0 \notin DOMAIN list
    OBVIOUS
  <2>. QED
    BY <1>2, <1>3, <2>1, <2>2 DEF result
<1>4. CASE index # 0
  <2>1. index \in DOMAIN list /\ Shows(list[index], images, id) /\ list[index] \in ToSet(list)
    BY <1>2, <1>4 DEF ToSet
  <2>2. /\ removed \in Seq(AnyRow)
        /\ ToSet(removed) = ToSet(list) \ {list[index]}
        /\ \A x, y : Above(removed, x, y) => Above(list, x, y)
    <3>1. /\ removed \in Seq(AnyRow)
          /\ ToSet(removed) \subseteq ToSet(list)
          /\ ToSet(list) \subseteq ToSet(removed) \cup {list[index]}
          /\ \A x, y : Above(removed, x, y) => Above(list, x, y)
          /\ list[index] \notin ToSet(removed)
      BY <2>1, TidyFacts, RemoveAtKeepsOrder
    <3>. QED
      BY <3>1
  <2>. HIDE DEF removed
  <2>3. Tidy(removed)
    BY <2>2, TidyFacts DEF Tidy
  <2>4. result = ResetNewMessagesMarker(removed, images, firstUnseenMessageId)
    BY <1>1, <1>4
  <2>5. /\ result \in Seq(AnyRow)
        /\ Tidy(result)
        /\ Tied(result, images, firstUnseenMessageId)
        /\ \A x : ~ IsMarker(x) => (x \in ToSet(result) <=> x \in ToSet(removed))
        /\ \A x, y : ~ IsMarker(x) /\ ~ IsMarker(y) /\ Above(result, x, y)
             => Above(removed, x, y)
    BY <2>2, <2>3, <2>4, ResetTiesMarker
  <2>. QED
    BY <2>1, <2>2, <2>5 DEF result
<1>. QED
  BY <1>3, <1>4
LEMMA RemoveBottomRow ==
  ASSUME NEW list \in Seq(AnyRow), Tidy(list), NEW images,
         Known(images, firstUnseenMessageId), Tied(list, images, firstUnseenMessageId),
         NEW id \in {FetchMore, ChatIdentifier}
  PROVE  LET result == RemoveItem(list, images, id) IN
         /\ result \in Seq(AnyRow)
         /\ Tidy(result)
         /\ Tied(result, images, firstUnseenMessageId)
         /\ \A x \in Messages : x \in ToSet(result) <=> x \in ToSet(list)
         /\ \A x, y \in Messages : Above(result, x, y) => Above(list, x, y)
<1>. DEFINE result == RemoveItem(list, images, id)
<1>1. /\ result \in Seq(AnyRow)
      /\ Tidy(result)
      /\ Tied(result, images, firstUnseenMessageId)
      /\ \/ result = list
         \/ \E gone \in ToSet(list) :
              /\ Shows(gone, images, id)
              /\ \A x : ~ IsMarker(x) =>
                   (x \in ToSet(result) <=> x \in ToSet(list) \ {gone})
      /\ \A x, y : ~ IsMarker(x) /\ ~ IsMarker(y) /\ Above(result, x, y) => Above(list, x, y)
  BY RemoveItemTakesOne
<1>. HIDE DEF result
<1>2. \A x \in Messages : ~ IsMarker(x)
  BY RowFacts
<1>3. id \notin Messages /\ id \notin images
  BY RowFacts DEF Known
<1>4. \A gone : Shows(gone, images, id) => gone = id
  BY <1>3 DEF Shows
<1>5. \A x \in Messages : x \in ToSet(result) <=> x \in ToSet(list)
  BY <1>1, <1>2, <1>3, <1>4
<1>. QED
  BY <1>1, <1>2, <1>5 DEF result

----------------------------------------------------------------------------
(* The steps *)

\* Whether there is a message on a list for which a row goes.
IsReplaced(list, row) == \E message \in ToSet(list) \cap Messages : GoesFor(row, message)

\* What a step may do to the messages of the list.
Effect(list, other) ==
  /\ \A x, y \in Messages \cap ToSet(list) :
       \/ Above(other, x, y) => Above(list, x, y)
       \/ IsReplaced(other, x)
       \/ IsReplaced(other, y)
  /\ \/ \A x \in Messages \cap ToSet(list) : x \in ToSet(other) \/ IsReplaced(other, x)
     \/ ToSet(other) = {ChatIdentifier}
     \/ \E r \in Messages :
          \A x : ~ IsMarker(x) => (x \in ToSet(other) <=> x \in ToSet(list) \ {r})

LEMMA TypeFacts ==
  ASSUME IInv
  PROVE  /\ items \in Seq(AnyRow)
         /\ Known(albumMessageIds, firstUnseenMessageId)
         /\ albumMessageIds \subseteq AlbumMessages
         /\ firstUnseenMessageId \in Messages \cup {NoMessage}
         /\ Tidy(items)
         /\ Tied(items, albumMessageIds, firstUnseenMessageId)
         /\ OneAlbumRow(items, albumMessageIds)
BY DEF IInv, TypeOK, Known, AnyRow

LEMMA MoreImages ==
  ASSUME NEW list, NEW images, NEW unseen, Tied(list, images, unseen),
         NEW other, images \subseteq other
  PROVE  Tied(list, other, unseen)
<1>1. \A row : Shows(row, images, unseen) => Shows(row, other, unseen)
  BY DEF Shows
<1>. QED
  BY <1>1 DEF Tied

(***************************************************************************)
(* createMessageItemsFromMessageDtos keeps the album in one row, whatever  *)
(* list the rows it makes end up in; a row it removes goes for a message   *)
(* that gets one; and either the row of the album keeps its images or that *)
(* row is removed.                                                         *)
(***************************************************************************)
LEMMA ItemsOfKeepAlbum ==
  ASSUME IInv, NEW messages \in SUBSET Messages, NEW deletedForMe,
         NEW made \in ItemsOf(messages, deletedForMe)
  PROVE  LET page == messages \ deletedForMe
             albumRow == ToSet(items) \cap AlbumMessages IN
         /\ made.rows \subseteq page
         /\ page \ AlbumMessages \subseteq made.rows
         /\ made.images \subseteq AlbumMessages
         /\ \/ page \cap AlbumMessages \subseteq made.images
            \/ ReplacedBy(page) \cap AlbumMessages # {}
         /\ \/ albumMessageIds \subseteq made.images
            \/ albumRow # {} /\ albumRow \subseteq made.gone
         /\ \A x \in ToSet(items) \cap made.gone : \E m \in made.rows : GoesFor(x, m)
         /\ \A list :
              ToSet(list) \cap AlbumMessages
                = ((ToSet(items) \ made.gone) \cup made.rows) \cap AlbumMessages
                => OneAlbumRow(list, made.images)
<1>. DEFINE page == messages \ deletedForMe
            images == page \cap AlbumMessages
            others == page \ AlbumMessages
            albumRow == ToSet(items) \cap AlbumMessages
            albumStays == ReplacedBy(others) \cap albumMessageIds = {}
            joined == IF albumRow = {}
                      THEN {{}}
                      ELSE {before \in SUBSET images :
                              ReplacedBy(others) \cap (albumMessageIds \cup before) # {}}
<1>1. /\ albumRow \subseteq albumMessageIds
      /\ \A x, y \in albumRow : x = y
      /\ albumMessageIds # {} => albumRow # {}
      /\ albumMessageIds \subseteq AlbumMessages
  BY DEF IInv, TypeOK, OneAlbumRow
<1>2. \/ /\ albumRow # {} /\ albumStays
         /\ made = [rows |-> others, gone |-> ReplacedBy(others), images |-> ImagesWith(page)]
      \/ \E before \in joined : \E rows \in RowsOf(others, images \ before) :
           made = [rows |-> rows, gone |-> albumRow \cup ReplacedBy(rows),
                   images |-> images \ before]
  <2>. DEFINE staying == IF albumRow # {} /\ albumStays
                         THEN {[rows |-> others, gone |-> ReplacedBy(others),
                                images |-> ImagesWith(page)]}
                         ELSE {}
              taken(before) == {[rows |-> rows, gone |-> albumRow \cup ReplacedBy(rows),
                                 images |-> images \ before] :
                                  rows \in RowsOf(others, images \ before)}
  <2>1. made \in staying \cup UNION {taken(before) : before \in joined}
    BY DEF ItemsOf
  <2>. HIDE DEF joined, albumStays, images, others, albumRow
  <2>. QED
    BY <2>1
<1>3. \A m \in Messages : m \in page => Replaces[m] \in ReplacedBy(page)
  BY DEF ReplacedBy
<1>4. CASE /\ albumRow # {} /\ albumStays
           /\ made = [rows |-> others, gone |-> ReplacedBy(others), images |-> ImagesWith(page)]
  <2>1. /\ made.rows = others /\ made.gone = ReplacedBy(others)
        /\ made.images = albumMessageIds \cup images
    BY <1>4 DEF ImagesWith
  <2>2. albumRow \cap made.gone = {}
    BY <1>1, <1>4, <2>1
  <2>3. ASSUME NEW x \in ToSet(items) \cap made.gone
        PROVE  \E m \in made.rows : GoesFor(x, m)
    BY <2>1, <2>3 DEF ReplacedBy, GoesFor
  <2>4. ASSUME NEW list, ToSet(list) \cap AlbumMessages
                           = ((ToSet(items) \ made.gone) \cup made.rows) \cap AlbumMessages
        PROVE  OneAlbumRow(list, made.images)
    <3>1. ToSet(list) \cap AlbumMessages = albumRow
      BY <2>1, <2>2, <2>4
    <3>. HIDE DEF albumRow, images
    <3>. QED
      BY <1>1, <1>4, <2>1, <3>1 DEF OneAlbumRow
  <2>5. /\ made.rows \subseteq page /\ page \ AlbumMessages \subseteq made.rows
        /\ made.images \subseteq AlbumMessages
        /\ page \cap AlbumMessages \subseteq made.images
        /\ albumMessageIds \subseteq made.images
    BY <1>1, <2>1
  <2>. HIDE DEF page
  <2>. QED
    BY <2>3, <2>4, <2>5 DEF page
<1>5. ASSUME NEW before \in joined, NEW rows \in RowsOf(others, images \ before),
             made = [rows |-> rows, gone |-> albumRow \cup ReplacedBy(rows),
                     images |-> images \ before]
      PROVE  /\ made.rows \subseteq page
             /\ page \ AlbumMessages \subseteq made.rows
             /\ made.images \subseteq AlbumMessages
             /\ images \subseteq made.images \/ ReplacedBy(page) \cap AlbumMessages # {}
             /\ \/ albumMessageIds \subseteq made.images
                \/ albumRow # {} /\ albumRow \subseteq made.gone
             /\ \A x \in ToSet(items) \cap made.gone : \E m \in made.rows : GoesFor(x, m)
             /\ \A list : ToSet(list) \cap AlbumMessages
                           = ((ToSet(items) \ made.gone) \cup made.rows) \cap AlbumMessages
                           => OneAlbumRow(list, made.images)
  <2>1. /\ made.rows = rows /\ made.gone = albumRow \cup ReplacedBy(rows)
        /\ made.images = images \ before
    BY <1>5
  <2>2. \/ rows = others /\ images \ before = {}
        \/ \E first \in images \ before : rows = others \cup {first}
    BY DEF RowsOf
  <2>3. rows \subseteq page /\ others \subseteq rows
    BY <2>2
  <2>4. \/ albumRow = {} /\ before = {}
        \/ /\ albumRow # {} /\ before \in SUBSET images
           /\ \E m \in others : Replaces[m] \in albumMessageIds \cup before
    <3>1. CASE albumRow = {}
      BY <3>1
    <3>2. CASE albumRow # {}
      <4>1. before \in SUBSET images /\ ReplacedBy(others) \cap (albumMessageIds \cup before) # {}
        BY <3>2
      <4>. QED
        BY <3>2, <4>1 DEF ReplacedBy
    <3>. QED
      BY <3>1, <3>2
  <2>. HIDE DEF joined
  <2>5. albumRow # {} => \E m \in others : Replaces[m] \in AlbumMessages
    BY <1>1, <2>4
  <2>6. images \subseteq made.images \/ ReplacedBy(page) \cap AlbumMessages # {}
    <3>1. CASE albumRow = {}
      BY <2>1, <2>4, <3>1
    <3>2. CASE albumRow # {}
      BY <1>3, <2>5, <3>2
    <3>. QED
      BY <3>1, <3>2
  <2>7. \/ albumMessageIds \subseteq made.images
        \/ albumRow # {} /\ albumRow \subseteq made.gone
    BY <1>1, <2>1
  <2>8. ASSUME NEW x \in ToSet(items) \cap made.gone
        PROVE  \E m \in made.rows : GoesFor(x, m)
    <3>1. CASE x \in albumRow
      BY <2>1, <2>3, <2>5, <3>1 DEF GoesFor
    <3>2. CASE x \in ReplacedBy(rows)
      BY <2>1, <3>2 DEF ReplacedBy, GoesFor
    <3>. QED
      BY <2>1, <3>1, <3>2
  <2>9. ASSUME NEW list, ToSet(list) \cap AlbumMessages
                           = ((ToSet(items) \ made.gone) \cup made.rows) \cap AlbumMessages
        PROVE  OneAlbumRow(list, made.images)
    <3>. DEFINE shown == ToSet(list) \cap AlbumMessages
    <3>1. shown = rows \cap AlbumMessages
      BY <2>1, <2>9
    <3>2. \/ shown = {} /\ made.images = {}
          \/ \E first \in made.images : shown = {first}
      BY <2>1, <2>2, <3>1
    <3>. HIDE DEF shown
    <3>3. shown \subseteq made.images /\ (\A x, y \in shown : x = y)
          /\ (made.images # {} => shown # {})
      BY <3>2
    <3>. QED
      BY <3>3 DEF OneAlbumRow, shown
  <2>. QED
    BY <2>1, <2>3, <2>6, <2>7, <2>8, <2>9
<1>. HIDE DEF joined
<1>. QED
  BY <1>2, <1>4, <1>5

(***************************************************************************)
(* The rows that are removed for others: the rest stays as it is, and the  *)
(* marker belongs to the first unseen message, whichever images were       *)
(* listed by then.                                                         *)
(***************************************************************************)
LEMMA WithoutReplacedKeepsRest ==
  ASSUME IInv, NEW messages \in SUBSET Messages, NEW deletedForMe,
         NEW made \in ItemsOf(messages, deletedForMe),
         NEW listed \in {albumMessageIds, made.images}
  PROVE  LET left == WithoutReplaced(items, made.gone, listed) IN
         /\ left \in Seq(AnyRow)
         /\ Tidy(left)
         /\ Tied(left, made.images, firstUnseenMessageId)
         /\ \A x : ~ IsMarker(x) => (x \in ToSet(left) <=> x \in ToSet(items) \ made.gone)
         /\ \A x, y : ~ IsMarker(x) /\ ~ IsMarker(y) /\ Above(left, x, y) => Above(items, x, y)
<1>. DEFINE left == WithoutReplaced(items, made.gone, listed)
            bare == Without(items, made.gone)
            albumRow == ToSet(items) \cap AlbumMessages
<1>1. /\ items \in Seq(AnyRow) /\ Tidy(items)
      /\ Tied(items, albumMessageIds, firstUnseenMessageId)
      /\ albumMessageIds \subseteq AlbumMessages
      /\ firstUnseenMessageId \in Messages \cup {NoMessage}
  BY TypeFacts
<1>2. /\ made.images \subseteq AlbumMessages
      /\ \/ albumMessageIds \subseteq made.images
         \/ albumRow # {} /\ albumRow \subseteq made.gone
  BY ItemsOfKeepAlbum
<1>3. Known(listed, firstUnseenMessageId) /\ Known(made.images, firstUnseenMessageId)
  BY <1>1, <1>2 DEF Known
<1>. HIDE DEF left, bare
<1>4. CASE ToSet(items) \cap made.gone = {}
  <2>1. left = items
    BY <1>4 DEF left, WithoutReplaced
  <2>2. albumMessageIds \subseteq made.images
    BY <1>2, <1>4
  <2>3. Tied(left, made.images, firstUnseenMessageId)
    BY <1>1, <2>1, <2>2, MoreImages
  <2>. QED
    BY <1>1, <1>4, <2>1, <2>3 DEF left
<1>5. CASE ToSet(items) \cap made.gone # {}
  <2>1. left = ResetNewMessagesMarker(bare, listed, firstUnseenMessageId)
    BY <1>5 DEF left, bare, WithoutReplaced
  <2>2. /\ bare \in Seq(AnyRow)
        /\ ToSet(bare) = ToSet(items) \ made.gone
        /\ \A x, y : Above(bare, x, y) => Above(items, x, y)
    BY <1>1, TakingOutKeepsOrder DEF bare, Without
  <2>3. Tidy(bare)
    BY <1>1, <2>2, TidyFacts DEF Tidy
  <2>4. /\ left \in Seq(AnyRow)
        /\ Tidy(left)
        /\ Tied(left, listed, firstUnseenMessageId)
        /\ \A x : ~ IsMarker(x) => (x \in ToSet(left) <=> x \in ToSet(bare))
        /\ \A x, y : ~ IsMarker(x) /\ ~ IsMarker(y) /\ Above(left, x, y) => Above(bare, x, y)
    BY <1>3, <2>1, <2>2, <2>3, ResetTiesMarker
  <2>5. Tied(left, made.images, firstUnseenMessageId)
    <3>1. CASE listed \subseteq made.images
      BY <2>4, <3>1, MoreImages
    <3>2. CASE albumRow \subseteq made.gone
      <4>1. \A x \in AlbumMessages : ~ IsMarker(x)
        BY RowFacts
      <4>2. \A x \in ToSet(left) : x \notin AlbumMessages
        BY <2>2, <2>4, <3>2, <4>1
      <4>3. \A x \in ToSet(left) : Shows(x, listed, firstUnseenMessageId)
                                     => Shows(x, made.images, firstUnseenMessageId)
        BY <4>2 DEF Shows
      <4>. QED
        BY <2>4, <4>3 DEF Tied
    <3>. QED
      BY <1>2, <3>1, <3>2
  <2>. QED
    BY <2>2, <2>4, <2>5 DEF left
<1>. QED
  BY <1>4, <1>5

(***************************************************************************)
(* What a list has to have after rows were made, in whichever way they     *)
(* came into it.                                                           *)
(***************************************************************************)
Gets(list, made) ==
  /\ \A x \in Messages :
       x \in ToSet(list) <=> x \in (ToSet(items) \ made.gone) \cup made.rows
  /\ \A x, y \in Messages : x \in ToSet(items) \ made.gone /\ y \in ToSet(items) \ made.gone
                              => (Above(list, x, y) => Above(items, x, y))

LEMMA GettingIsAdding ==
  ASSUME IInv, NEW messages \in SUBSET Messages, NEW deletedForMe,
         NEW made \in ItemsOf(messages, deletedForMe), NEW list, Gets(list, made)
  PROVE  OneAlbumRow(list, made.images) /\ Effect(items, list)
<1>1. /\ made.rows \subseteq Messages
      /\ \A x \in ToSet(items) \cap made.gone : \E m \in made.rows : GoesFor(x, m)
      /\ ToSet(list) \cap AlbumMessages
           = ((ToSet(items) \ made.gone) \cup made.rows) \cap AlbumMessages
           => OneAlbumRow(list, made.images)
  BY ItemsOfKeepAlbum
<1>2. \A x \in Messages : x \in ToSet(list) <=> x \in (ToSet(items) \ made.gone) \cup made.rows
  BY DEF Gets
<1>3. OneAlbumRow(list, made.images)
  BY <1>1, <1>2, AlbumAssumption
<1>4. \A x \in ToSet(items) \cap made.gone : IsReplaced(list, x)
  BY <1>1, <1>2 DEF IsReplaced
<1>5. ASSUME NEW x \in Messages \cap ToSet(items), NEW y \in Messages \cap ToSet(items)
      PROVE  \/ Above(list, x, y) => Above(items, x, y)
             \/ IsReplaced(list, x)
             \/ IsReplaced(list, y)
  <2>1. CASE x \in made.gone \/ y \in made.gone
    BY <1>4, <2>1
  <2>2. CASE x \notin made.gone /\ y \notin made.gone
    BY <2>2 DEF Gets
  <2>. QED
    BY <2>1, <2>2
<1>6. \A x \in Messages \cap ToSet(items) : x \in ToSet(list) \/ IsReplaced(list, x)
  BY <1>2, <1>4
<1>. QED
  BY <1>3, <1>5, <1>6 DEF Effect

(***************************************************************************)
(* newMessagesLoaded                                                       *)
(***************************************************************************)
LEMMA ListWithIsTidy ==
  ASSUME IInv, NEW messages \in SUBSET Messages, NEW deletedForMe,
         NEW made \in ItemsOf(messages, deletedForMe), NEW more \in BOOLEAN
  PROVE  LET list == ListWith(made, more) IN
         /\ list \in Seq(AnyRow)
         /\ Tidy(list)
         /\ Tied(list, made.images, firstUnseenMessageId)
         /\ Gets(list, made)
<1>. DEFINE images == made.images
            fixed == {ChatIdentifier} \cup (IF more THEN {FetchMore} ELSE {})
            left == WithoutReplaced(items, made.gone, images)
            above == RemoveItem(left, images, FetchMore)
            kept == RemoveItem(above, images, ChatIdentifier)
            merged == InsertItemsBasedOnClock(kept, made.rows \cup fixed)
            list == ListWith(made, more)
<1>1. list = ResetNewMessagesMarker(merged, images, firstUnseenMessageId)
  BY DEF ListWith
<1>. HIDE DEF list
<1>2. made.rows \subseteq Messages /\ images \subseteq AlbumMessages
  BY ItemsOfKeepAlbum
<1>3. Known(images, firstUnseenMessageId)
  BY <1>2, TypeFacts DEF Known
<1>4. \A x \in Messages : ~ IsMarker(x)
  BY RowFacts
<1>5. /\ left \in Seq(AnyRow)
      /\ Tidy(left)
      /\ Tied(left, images, firstUnseenMessageId)
      /\ \A x \in Messages : x \in ToSet(left) <=> x \in ToSet(items) \ made.gone
      /\ \A x, y \in Messages : Above(left, x, y) => Above(items, x, y)
  <2>1. images \in {albumMessageIds, made.images}
    OBVIOUS
  <2>. QED
    BY <1>4, <2>1, WithoutReplacedKeepsRest
<1>. HIDE DEF left
<1>6. /\ above \in Seq(AnyRow)
      /\ Tidy(above)
      /\ Tied(above, images, firstUnseenMessageId)
      /\ \A x \in Messages : x \in ToSet(above) <=> x \in ToSet(left)
      /\ \A x, y \in Messages : Above(above, x, y) => Above(left, x, y)
  BY <1>3, <1>5, RemoveBottomRow
<1>. HIDE DEF above
<1>7. /\ kept \in Seq(AnyRow)
      /\ Tidy(kept)
      /\ Tied(kept, images, firstUnseenMessageId)
      /\ \A x \in Messages : x \in ToSet(kept) <=> x \in ToSet(above)
      /\ \A x, y \in Messages : Above(kept, x, y) => Above(above, x, y)
  BY <1>3, <1>6, RemoveBottomRow
<1>. HIDE DEF kept
<1>8. made.rows \cup fixed \in SUBSET Row /\ fixed \cap Messages = {}
  BY <1>2, RowFacts
<1>. HIDE DEF fixed
<1>9. /\ merged \in Seq(AnyRow)
      /\ Tidy(merged)
      /\ Tied(merged, images, firstUnseenMessageId)
      /\ ToSet(merged) = ToSet(kept) \cup (made.rows \cup fixed)
      /\ \A x, y \in ToSet(kept) : Above(merged, x, y) => Above(kept, x, y)
  BY <1>7, <1>8, InsertKeepsTidy
<1>. HIDE DEF merged
<1>10. /\ list \in Seq(AnyRow)
       /\ Tidy(list)
       /\ Tied(list, images, firstUnseenMessageId)
       /\ \A x : ~ IsMarker(x) => (x \in ToSet(list) <=> x \in ToSet(merged))
       /\ \A x, y : ~ IsMarker(x) /\ ~ IsMarker(y) /\ Above(list, x, y) => Above(merged, x, y)
  BY <1>1, <1>3, <1>9, ResetTiesMarker
<1>11. \A x \in Messages :
         x \in ToSet(list) <=> x \in (ToSet(items) \ made.gone) \cup made.rows
  BY <1>4, <1>5, <1>6, <1>7, <1>8, <1>9, <1>10
<1>12. ASSUME NEW x \in Messages, NEW y \in Messages,
              x \in ToSet(items) \ made.gone, y \in ToSet(items) \ made.gone, Above(list, x, y)
       PROVE  Above(items, x, y)
  <2>1. x \in ToSet(kept) /\ y \in ToSet(kept)
    BY <1>5, <1>6, <1>7, <1>12
  <2>. QED
    BY <1>4, <1>5, <1>6, <1>7, <1>9, <1>10, <1>12, <2>1
<1>. QED
  BY <1>10, <1>11, <1>12 DEF Gets, list

LEMMA StepNewMessagesLoaded ==
  ASSUME IInv, NEW messages \in SUBSET Messages, NEW deletedForMe, NEW more \in BOOLEAN,
         NewMessagesLoaded(messages, deletedForMe, more)
  PROVE  IInv' /\ Effect(items, items')
<1>1. PICK made \in ItemsOf(messages, deletedForMe) :
        albumMessageIds' = made.images /\ items' = ListWith(made, more)
  BY DEF NewMessagesLoaded
<1>2. firstUnseenMessageId' = firstUnseenMessageId
  BY DEF NewMessagesLoaded
<1>3. /\ items' \in Seq(AnyRow)
      /\ Tidy(items')
      /\ Tied(items', made.images, firstUnseenMessageId)
      /\ Gets(items', made)
  BY <1>1, ListWithIsTidy
<1>4. OneAlbumRow(items', made.images) /\ Effect(items, items')
  BY <1>3, GettingIsAdding
<1>5. made.images \subseteq AlbumMessages
  BY ItemsOfKeepAlbum
<1>6. IInv'
  BY <1>1, <1>2, <1>3, <1>4, <1>5, TypeFacts
     DEF IInv, TypeOK, Tidy, Tied, OneAlbumRow, AnyRow
<1>. QED
  BY <1>4, <1>6

(***************************************************************************)
(* messagesAdded                                                           *)
(***************************************************************************)
LEMMA AddedIsTidy ==
  ASSUME IInv, NEW messages \in SUBSET Messages, NEW deletedForMe,
         NEW made \in ItemsOf(messages, deletedForMe),
         NEW listed \in {albumMessageIds, made.images}
  PROVE  LET list == InsertItemsBasedOnClock(WithoutReplaced(items, made.gone, listed),
                                             made.rows) IN
         /\ list \in Seq(AnyRow)
         /\ Tidy(list)
         /\ Tied(list, made.images, firstUnseenMessageId)
         /\ Gets(list, made)
<1>. DEFINE left == WithoutReplaced(items, made.gone, listed)
            list == InsertItemsBasedOnClock(left, made.rows)
<1>1. \A x \in Messages : ~ IsMarker(x)
  BY RowFacts
<1>2. /\ left \in Seq(AnyRow)
      /\ Tidy(left)
      /\ Tied(left, made.images, firstUnseenMessageId)
      /\ \A x \in Messages : x \in ToSet(left) <=> x \in ToSet(items) \ made.gone
      /\ \A x, y \in Messages : Above(left, x, y) => Above(items, x, y)
  BY <1>1, WithoutReplacedKeepsRest
<1>. HIDE DEF left
<1>3. made.rows \in SUBSET Row
  <2>1. made.rows \subseteq messages \ deletedForMe
    BY ItemsOfKeepAlbum
  <2>2. Messages \subseteq Row
    BY DEF Row
  <2>. QED
    BY <2>1, <2>2
<1>4. /\ list \in Seq(AnyRow)
      /\ Tidy(list)
      /\ Tied(list, made.images, firstUnseenMessageId)
      /\ ToSet(list) = ToSet(left) \cup made.rows
      /\ \A x, y \in ToSet(left) : Above(list, x, y) => Above(left, x, y)
  BY <1>2, <1>3, InsertKeepsTidy
<1>. HIDE DEF list
<1>5. Gets(list, made)
  BY <1>2, <1>4 DEF Gets
<1>. QED
  BY <1>4, <1>5 DEF list, left

LEMMA StepMessagesAdded ==
  ASSUME IInv, NEW messages \in SUBSET Messages, NEW deletedForMe,
         MessagesAdded(messages, deletedForMe)
  PROVE  IInv' /\ Effect(items, items')
<1>1. PICK made \in ItemsOf(messages, deletedForMe) :
        /\ albumMessageIds' = made.images
        /\ \E listed \in {albumMessageIds, made.images} :
             items' = InsertItemsBasedOnClock(WithoutReplaced(items, made.gone, listed), made.rows)
  BY DEF MessagesAdded
<1>2. firstUnseenMessageId' = firstUnseenMessageId
  BY DEF MessagesAdded
<1>3. /\ items' \in Seq(AnyRow)
      /\ Tidy(items')
      /\ Tied(items', made.images, firstUnseenMessageId)
      /\ Gets(items', made)
  BY <1>1, AddedIsTidy
<1>4. OneAlbumRow(items', made.images) /\ Effect(items, items')
  BY <1>3, GettingIsAdding
<1>5. made.images \subseteq AlbumMessages
  BY ItemsOfKeepAlbum
<1>6. IInv'
  BY <1>1, <1>2, <1>3, <1>4, <1>5, TypeFacts
     DEF IInv, TypeOK, Tidy, Tied, OneAlbumRow, AnyRow
<1>. QED
  BY <1>4, <1>6

(***************************************************************************)
(* onSendingMessageSuccess: the marker goes.                               *)
(***************************************************************************)
LEMMA StepOnSendingMessageSuccess ==
  ASSUME IInv, NEW message \in Messages, OnSendingMessageSuccess(message)
  PROVE  IInv' /\ Effect(items, items')
<1>. DEFINE messages == {message}
<1>1. PICK made \in ItemsOf(messages, {}) :
        /\ albumMessageIds' = made.images
        /\ items' = WithoutMarker(InsertItemsBasedOnClock(
                      WithoutReplaced(items, made.gone, made.images), made.rows))
  BY DEF OnSendingMessageSuccess
<1>. DEFINE merged == InsertItemsBasedOnClock(
                        WithoutReplaced(items, made.gone, made.images), made.rows)
<1>2. firstUnseenMessageId' = NoMessage
  BY DEF OnSendingMessageSuccess
<1>3. messages \in SUBSET Messages /\ made.images \in {albumMessageIds, made.images}
  OBVIOUS
<1>. HIDE DEF messages
<1>4. /\ merged \in Seq(AnyRow)
      /\ Tidy(merged)
      /\ Gets(merged, made)
  BY <1>3, AddedIsTidy
<1>5. items' = WithoutMarker(merged)
  BY <1>1
<1>. HIDE DEF merged
<1>6. /\ items' \in Seq(AnyRow)
      /\ ToSet(items') = {x \in ToSet(merged) : ~ IsMarker(x)}
      /\ \A x, y : Above(items', x, y) => Above(merged, x, y)
  BY <1>4, <1>5, WithoutMarkerKeepsRows
<1>7. Tidy(items')
  BY <1>4, <1>6, TidyFacts DEF Tidy
<1>8. Tied(items', made.images, NoMessage)
  BY <1>6 DEF Tied
<1>9. Gets(items', made)
  BY <1>4, <1>6, RowFacts DEF Gets
<1>10. OneAlbumRow(items', made.images) /\ Effect(items, items')
  BY <1>3, <1>9, GettingIsAdding
<1>11. made.images \subseteq AlbumMessages
  BY <1>3, ItemsOfKeepAlbum
<1>12. IInv'
  BY <1>1, <1>2, <1>6, <1>7, <1>8, <1>10, <1>11
     DEF IInv, TypeOK, Tidy, Tied, OneAlbumRow, AnyRow
<1>. QED
  BY <1>10, <1>12

(***************************************************************************)
(* onMessagesDeleted: with a row of the album the whole album goes, and    *)
(* the marker does not stay behind as that of another image.               *)
(***************************************************************************)
LEMMA StepOnMessageDeleted ==
  ASSUME IInv, NEW message \in Messages, OnMessageDeleted(message)
  PROVE  IInv' /\ Effect(items, items')
<1>1. /\ items' = RemoveItem(items, albumMessageIds, message)
      /\ albumMessageIds' = IF message \in albumMessageIds THEN {} ELSE albumMessageIds
      /\ firstUnseenMessageId' = firstUnseenMessageId
  BY DEF OnMessageDeleted
<1>2. /\ items' \in Seq(AnyRow)
      /\ Tidy(items')
      /\ Tied(items', albumMessageIds, firstUnseenMessageId)
      /\ \/ items' = items /\ \A x \in ToSet(items) : ~ Shows(x, albumMessageIds, message)
         \/ \E gone \in ToSet(items) :
              /\ Shows(gone, albumMessageIds, message)
              /\ \A x : ~ IsMarker(x) =>
                   (x \in ToSet(items') <=> x \in ToSet(items) \ {gone})
      /\ \A x, y : ~ IsMarker(x) /\ ~ IsMarker(y) /\ Above(items', x, y) => Above(items, x, y)
  BY <1>1, TypeFacts, RemoveItemTakesOne
<1>. DEFINE shown == ToSet(items) \cap AlbumMessages
<1>3. /\ shown \subseteq albumMessageIds
      /\ \A x, y \in shown : x = y
      /\ albumMessageIds # {} => shown # {}
      /\ albumMessageIds \subseteq AlbumMessages
      /\ firstUnseenMessageId \in Messages \cup {NoMessage}
  BY TypeFacts DEF OneAlbumRow
<1>4. \A x \in Messages : ~ IsMarker(x)
  BY RowFacts
<1>5. CASE message \in albumMessageIds
  <2>1. \A x \in shown : Shows(x, albumMessageIds, message)
    BY <1>5 DEF Shows
  <2>2. PICK gone \in ToSet(items) :
          /\ Shows(gone, albumMessageIds, message)
          /\ \A x : ~ IsMarker(x) => (x \in ToSet(items') <=> x \in ToSet(items) \ {gone})
    BY <1>2, <1>3, <1>5, <2>1
  <2>3. gone \in shown
    BY <1>3, <1>5, <2>2 DEF Shows
  <2>4. ToSet(items') \cap AlbumMessages = {}
    BY <1>3, <1>4, <2>2, <2>3, AlbumAssumption
  <2>5. OneAlbumRow(items', {})
    BY <2>4 DEF OneAlbumRow
  <2>6. \A row \in ToSet(items') : Shows(row, albumMessageIds, firstUnseenMessageId)
                                     => Shows(row, {}, firstUnseenMessageId)
    BY <2>4 DEF Shows
  <2>7. Tied(items', {}, firstUnseenMessageId)
    BY <1>2, <2>6 DEF Tied
  <2>8. IInv'
    BY <1>1, <1>2, <1>3, <1>5, <2>5, <2>7 DEF IInv, TypeOK, Tidy, Tied, OneAlbumRow, AnyRow
  <2>9. gone \in Messages
    BY <2>3, AlbumAssumption
  <2>10. Effect(items, items')
    BY <1>2, <1>4, <2>2, <2>9 DEF Effect
  <2>. QED
    BY <2>8, <2>10
<1>6. CASE message \notin albumMessageIds
  <2>1. \A x \in ToSet(items) : Shows(x, albumMessageIds, message) => x = message
    BY <1>6 DEF Shows
  <2>2. message \notin shown
    BY <1>3, <1>6
  <2>3. \/ items' = items
        \/ \A x : ~ IsMarker(x) => (x \in ToSet(items') <=> x \in ToSet(items) \ {message})
    BY <1>2, <2>1
  <2>4. ToSet(items') \cap AlbumMessages = ToSet(items) \cap AlbumMessages
    BY <1>4, <2>2, <2>3, AlbumAssumption
  <2>5. OneAlbumRow(items', albumMessageIds)
    BY <2>4, TypeFacts DEF OneAlbumRow
  <2>6. IInv'
    BY <1>1, <1>2, <1>3, <1>6, <2>5 DEF IInv, TypeOK, Tidy, Tied, OneAlbumRow, AnyRow
  <2>7. Effect(items, items')
    BY <1>2, <1>4, <2>3 DEF Effect
  <2>. QED
    BY <2>6, <2>7
<1>. QED
  BY <1>5, <1>6

(***************************************************************************)
(* setFirstUnseenMessageId and resetNewMessagesMarker                      *)
(***************************************************************************)
LEMMA StepSetFirstUnseenMessage ==
  ASSUME IInv, NEW message \in Messages \cup {NoMessage}, SetFirstUnseenMessage(message)
  PROVE  IInv' /\ Effect(items, items')
<1>1. /\ items' = ResetNewMessagesMarker(items, albumMessageIds, message)
      /\ albumMessageIds' = albumMessageIds
      /\ firstUnseenMessageId' = message
  BY DEF SetFirstUnseenMessage
<1>2. Known(albumMessageIds, message) /\ albumMessageIds \subseteq AlbumMessages
  BY TypeFacts DEF Known
<1>3. /\ items' \in Seq(AnyRow)
      /\ Tidy(items')
      /\ Tied(items', albumMessageIds, message)
      /\ \A x : ~ IsMarker(x) => (x \in ToSet(items') <=> x \in ToSet(items))
      /\ \A x, y : ~ IsMarker(x) /\ ~ IsMarker(y) /\ Above(items', x, y) => Above(items, x, y)
  BY <1>1, <1>2, TypeFacts, ResetTiesMarker
<1>4. \A x \in Messages : ~ IsMarker(x)
  BY RowFacts
<1>5. ToSet(items') \cap AlbumMessages = ToSet(items) \cap AlbumMessages
  BY <1>3, <1>4, AlbumAssumption
<1>6. OneAlbumRow(items', albumMessageIds)
  BY <1>5, TypeFacts DEF OneAlbumRow
<1>7. IInv'
  BY <1>1, <1>2, <1>3, <1>6 DEF IInv, TypeOK, Tidy, Tied, OneAlbumRow, AnyRow
<1>8. Effect(items, items')
  BY <1>3, <1>4 DEF Effect
<1>. QED
  BY <1>7, <1>8

(***************************************************************************)
(* onHistoryCleared                                                        *)
(***************************************************************************)
LEMMA EmptyIsTidy ==
  ASSUME NEW images, NEW unseen
  PROVE  << >> \in Seq(AnyRow) /\ Tidy(<< >>) /\ Tied(<< >>, images, unseen) /\ ToSet(<< >>) = {}
BY DEF Tidy, Tied, ToSet

LEMMA StepOnHistoryCleared ==
  ASSUME IInv, OnHistoryCleared
  PROVE  IInv' /\ Effect(items, items')
<1>1. /\ items' = InsertItemsBasedOnClock(<< >>, {ChatIdentifier})
      /\ albumMessageIds' = {}
      /\ firstUnseenMessageId' = firstUnseenMessageId
  BY DEF OnHistoryCleared
<1>2. {ChatIdentifier} \in SUBSET Row /\ ChatIdentifier \notin Messages
  BY RowFacts
<1>3. /\ items' \in Seq(AnyRow)
      /\ Tidy(items')
      /\ Tied(items', {}, firstUnseenMessageId)
      /\ ToSet(items') = {ChatIdentifier}
  BY <1>1, <1>2, EmptyIsTidy, InsertKeepsTidy
<1>4. OneAlbumRow(items', {})
  BY <1>2, <1>3, AlbumAssumption DEF OneAlbumRow
<1>5. IInv'
  BY <1>1, <1>3, <1>4, TypeFacts DEF IInv, TypeOK, Tidy, Tied, OneAlbumRow, AnyRow
<1>6. Effect(items, items')
  BY <1>2, <1>3, AboveInSet DEF Effect
<1>. QED
  BY <1>5, <1>6

(***************************************************************************)
(* updateChatIdentifier and updateChatFetchMoreMessages: a row below the   *)
(* history is taken out and may be put back.                               *)
(***************************************************************************)
LEMMA StepReplaceBottomRow ==
  ASSUME IInv, NEW id \in {FetchMore, ChatIdentifier}, NEW new \in SUBSET {id},
         items' = InsertItemsBasedOnClock(RemoveItem(items, albumMessageIds, id), new),
         UNCHANGED <<albumMessageIds, firstUnseenMessageId>>
  PROVE  IInv' /\ Effect(items, items')
<1>. DEFINE kept == RemoveItem(items, albumMessageIds, id)
<1>1. /\ kept \in Seq(AnyRow)
      /\ Tidy(kept)
      /\ Tied(kept, albumMessageIds, firstUnseenMessageId)
      /\ \A x \in Messages : x \in ToSet(kept) <=> x \in ToSet(items)
      /\ \A x, y \in Messages : Above(kept, x, y) => Above(items, x, y)
  BY TypeFacts, RemoveBottomRow
<1>. HIDE DEF kept
<1>2. new \in SUBSET Row /\ new \cap Messages = {}
  BY RowFacts
<1>3. items' = InsertItemsBasedOnClock(kept, new)
  BY DEF kept
<1>4. /\ items' \in Seq(AnyRow)
      /\ Tidy(items')
      /\ Tied(items', albumMessageIds, firstUnseenMessageId)
      /\ ToSet(items') = ToSet(kept) \cup new
      /\ \A x, y \in ToSet(kept) : Above(items', x, y) => Above(kept, x, y)
  BY <1>1, <1>2, <1>3, InsertKeepsTidy
<1>5. \A x \in Messages : x \in ToSet(items') <=> x \in ToSet(items)
  BY <1>1, <1>2, <1>4
<1>6. OneAlbumRow(items', albumMessageIds)
  <2>1. ToSet(items') \cap AlbumMessages = ToSet(items) \cap AlbumMessages
    BY <1>5, AlbumAssumption
  <2>. QED
    BY <2>1, TypeFacts DEF OneAlbumRow
<1>7. IInv'
  BY <1>4, <1>6, TypeFacts DEF IInv, TypeOK, Tidy, Tied, OneAlbumRow, AnyRow
<1>8. Effect(items, items')
  BY <1>1, <1>4, <1>5 DEF Effect
<1>. QED
  BY <1>7, <1>8

LEMMA NextKeepsInvariant ==
  ASSUME IInv, Next
  PROVE  IInv' /\ Effect(items, items')
<1>1. ASSUME NEW messages \in SUBSET Messages, NEW deletedForMe, NEW more \in BOOLEAN,
             NewMessagesLoaded(messages, deletedForMe, more)
      PROVE  IInv' /\ Effect(items, items')
  BY <1>1, StepNewMessagesLoaded
<1>2. ASSUME NEW messages \in SUBSET Messages, NEW deletedForMe,
             MessagesAdded(messages, deletedForMe)
      PROVE  IInv' /\ Effect(items, items')
  BY <1>2, StepMessagesAdded
<1>3. ASSUME NEW message \in Messages, OnSendingMessageSuccess(message)
      PROVE  IInv' /\ Effect(items, items')
  BY <1>3, StepOnSendingMessageSuccess
<1>4. ASSUME NEW message \in Messages, OnMessageDeleted(message)
      PROVE  IInv' /\ Effect(items, items')
  BY <1>4, StepOnMessageDeleted
<1>5. ASSUME NEW message \in Messages \cup {NoMessage}, SetFirstUnseenMessage(message)
      PROVE  IInv' /\ Effect(items, items')
  BY <1>5, StepSetFirstUnseenMessage
<1>6. ASSUME NEW more \in BOOLEAN, UpdateChatFetchMoreMessages(more)
      PROVE  IInv' /\ Effect(items, items')
  <2>1. (IF more THEN {FetchMore} ELSE {}) \in SUBSET {FetchMore}
    OBVIOUS
  <2>. QED
    BY <1>6, <2>1, StepReplaceBottomRow DEF UpdateChatFetchMoreMessages
<1>7. CASE OnHistoryCleared
  BY <1>7, StepOnHistoryCleared
<1>8. CASE UpdateChatIdentifier
  BY <1>8, StepReplaceBottomRow DEF UpdateChatIdentifier
<1>. QED
  BY <1>1, <1>2, <1>3, <1>4, <1>5, <1>6, <1>7, <1>8 DEF Next
LEMMA InitHolds ==
  ASSUME Init
  PROVE  IInv /\ ToSet(items) \cap Messages = {}
<1>1. PICK more \in SUBSET {FetchMore} :
        items = InsertItemsBasedOnClock(InsertItemsBasedOnClock(<<>>, more), {ChatIdentifier})
  BY DEF Init
<1>2. albumMessageIds = {} /\ firstUnseenMessageId = NoMessage
  BY DEF Init
<1>. DEFINE first == InsertItemsBasedOnClock(<<>>, more)
<1>3. /\ more \in SUBSET Row /\ {ChatIdentifier} \in SUBSET Row
      /\ (more \cup {ChatIdentifier}) \cap Messages = {}
  BY RowFacts
<1>4. /\ first \in Seq(AnyRow)
      /\ Tidy(first)
      /\ Tied(first, {}, NoMessage)
      /\ ToSet(first) = more
  <2>. DEFINE none == <<>>
  <2>1. none \in Seq(AnyRow) /\ Tidy(none) /\ Tied(none, {}, NoMessage) /\ ToSet(none) = {}
    BY EmptyIsTidy
  <2>2. first = InsertItemsBasedOnClock(none, more)
    OBVIOUS
  <2>. HIDE DEF none, first
  <2>3. /\ first \in Seq(AnyRow) /\ Tidy(first) /\ Tied(first, {}, NoMessage)
        /\ ToSet(first) = ToSet(none) \cup more
    BY <1>3, <2>1, <2>2, InsertKeepsTidy
  <2>. QED
    BY <2>1, <2>3
<1>. HIDE DEF first
<1>5. items = InsertItemsBasedOnClock(first, {ChatIdentifier})
  BY <1>1 DEF first
<1>6. /\ items \in Seq(AnyRow)
      /\ Tidy(items)
      /\ Tied(items, {}, NoMessage)
      /\ ToSet(items) = more \cup {ChatIdentifier}
  BY <1>3, <1>4, <1>5, InsertKeepsTidy
<1>7. OneAlbumRow(items, {})
  BY <1>3, <1>6, AlbumAssumption DEF OneAlbumRow
<1>. QED
  BY <1>2, <1>3, <1>6, <1>7 DEF IInv, TypeOK, AnyRow

LEMMA Step ==
  ASSUME IInv, [Next]_vars
  PROVE  IInv'
<1>1. CASE Next
  BY <1>1, NextKeepsInvariant
<1>2. CASE UNCHANGED vars
  BY <1>2 DEF vars, IInv, TypeOK, Tidy, Tied, OneAlbumRow
<1>. QED
  BY <1>1, <1>2

(***************************************************************************)
(* The list without the marker, in a state of the inductive invariant.     *)
(***************************************************************************)
LEMMA RowsAreInOrder ==
  ASSUME NEW list \in Seq(AnyRow), Tidy(list)
  PROVE  InOrder(WithoutMarker(list))
<1>. DEFINE bare == WithoutMarker(list)
<1>1. /\ bare \in Seq(AnyRow)
      /\ ToSet(bare) = {x \in ToSet(list) : ~ IsMarker(x)}
      /\ \A x, y : Above(bare, x, y) => Above(list, x, y)
  BY WithoutMarkerKeepsRows
<1>. HIDE DEF bare
<1>2. ASSUME NEW i \in DOMAIN bare, NEW j \in DOMAIN bare, i < j
      PROVE  Precedes(bare[i], bare[j])
  <2>1. Above(bare, bare[i], bare[j])
    BY <1>2 DEF Above
  <2>2. Fits(bare[i], bare[j])
    BY <1>1, <2>1, TidyFacts
  <2>3. ~ IsMarker(bare[i]) /\ ~ IsMarker(bare[j])
    BY <1>1, <2>1, AboveInSet
  <2>. QED
    BY <2>2, <2>3 DEF Fits
<1>3. InOrder(bare)
  BY <1>2 DEF InOrder
<1>. QED
  BY <1>3 DEF bare

----------------------------------------------------------------------------
(* The theorems *)

\* The strengthening holds in every behaviour: the list is tidy, its marker is
\* tied to the first unseen message and the album has one row.
THEOREM Invariance == Spec => []IInv
BY InitHolds, Step, PTL DEF Spec

\* The rows, the images and the first unseen message have their types.
THEOREM TypeCorrect == Spec => []TypeOK
BY Invariance, PTL DEF IInv

\* The rows are in the order of their clocks and no message has two of them.
THEOREM NewestIsFirst == Spec => []NewestFirst
<1>1. IInv => NewestFirst
  BY TypeFacts, RowsAreInOrder DEF NewestFirst, Rows
<1>. QED
  BY <1>1, Invariance, PTL

\* Where no three messages have one clock, ties are broken by the message's id,
\* as the test of the message model says: three of one clock are all it takes,
\* and the least it takes, to go wrong.
THEOREM TiesAreBroken ==
  ASSUME \A message \in Messages : ~ Crowded(message)
  PROVE  Spec => []TiesBrokenById
<1>1. ASSUME IInv
      PROVE  TiesBrokenById
  <2>1. InOrder(Rows) /\ ToSet(Rows) \subseteq Row
    BY <1>1, TypeFacts, RowsAreInOrder, WithoutMarkerKeepsRows DEF Rows
  <2>2. \A x \in Row : ~ Crowded(x)
    <3>. SUFFICES ASSUME NEW x \in Row, Crowded(x)
                  PROVE  FALSE
      OBVIOUS
    <3>1. PICK a \in Messages : a.clock = x.clock
      BY DEF Crowded
    <3>2. x \in Messages
      BY <3>1, RowFacts
    <3>. QED
      BY <3>2
  <2>3. \A i \in DOMAIN Rows : Rows[i] \in Row
    BY <2>1 DEF ToSet
  <2>. QED
    BY <2>1, <2>2, <2>3 DEF TiesBrokenById, InOrder, Precedes
<1>. QED
  BY <1>1, Invariance, PTL

\* The images of an album share one row, which is one of theirs.
THEOREM AlbumHasOneRow == Spec => []AlbumIsOneRow
<1>1. ASSUME IInv
      PROVE  AlbumIsOneRow
  <2>. DEFINE albumRows == ToSet(items) \cap AlbumMessages
  <2>1. /\ albumRows \subseteq albumMessageIds
        /\ \A x, y \in albumRows : x = y
        /\ albumMessageIds # {} => albumRows # {}
    BY <1>1 DEF IInv, OneAlbumRow
  <2>. HIDE DEF albumRows
  <2>2. CASE albumMessageIds = {}
    <3>1. albumRows = {}
      BY <2>1, <2>2
    <3>2. Cardinality(albumRows) = 0
      BY <3>1, FS_EmptySet
    <3>. QED
      BY <2>1, <2>2, <3>2 DEF AlbumIsOneRow, albumRows
  <2>3. CASE albumMessageIds # {}
    <3>1. PICK x \in albumRows : albumRows = {x}
      BY <2>1, <2>3
    <3>2. Cardinality(albumRows) = 1
      BY <3>1, FS_Singleton
    <3>. QED
      BY <2>1, <2>3, <3>2 DEF AlbumIsOneRow, albumRows
  <2>. QED
    BY <2>2, <2>3
<1>. QED
  BY <1>1, Invariance, PTL

\* The marker separates the new messages from the old ones, although messages
\* are added without looking at it.
THEOREM MarkerSeparates == Spec => []MarkerSeparatesNew
<1>1. ASSUME IInv
      PROVE  MarkerSeparatesNew
  <2>. DEFINE I == {i \in 1..Len(items) : IsMarker(items[i])}
              marker == SelectLastInSeq(items, IsMarker)
              unseen == FindIndexForMessageId(items, albumMessageIds, firstUnseenMessageId)
  <2>1. /\ items \in Seq(AnyRow) /\ Tidy(items)
        /\ Tied(items, albumMessageIds, firstUnseenMessageId)
        /\ OneAlbumRow(items, albumMessageIds)
        /\ albumMessageIds \subseteq AlbumMessages
        /\ DOMAIN items = 1..Len(items) /\ Len(items) \in Nat
    BY <1>1, TypeFacts
  <2>2. marker = IF I # {} THEN Max(I) ELSE 0
    BY DEF SelectLastInSeq
  <2>3. \A i, j \in I : i = j
    <3>. SUFFICES ASSUME NEW i \in I, NEW j \in I
                  PROVE  i = j
      OBVIOUS
    <3>1. items[i] = items[j]
      BY <2>1, TidyFacts DEF ToSet
    <3>. QED
      BY <2>1, <3>1, TidyFacts, DistinctIndices
  <2>4. NewMessagesCount = IF marker = 0 THEN 0 ELSE marker - 1
    BY DEF NewMessagesCount
  <2>. HIDE DEF marker, unseen, I
  <2>5. SUFFICES ASSUME NewMessagesCount > 0
                 PROVE  /\ unseen \in 1..NewMessagesCount
                        /\ \A i \in DOMAIN items :
                             items[i].clock # items[unseen].clock =>
                               (i <= NewMessagesCount <=> items[i].clock > items[unseen].clock)
    BY DEF MarkerSeparatesNew, unseen
  <2>6. marker # 0 /\ I # {}
    BY <2>2, <2>4, <2>5
  <2>7. PICK p \in I : I = {p}
    BY <2>3, <2>6
  <2>8. p \in DOMAIN items /\ IsMarker(items[p]) /\ p \in Nat
    BY <2>1, <2>7 DEF I
  <2>9. marker = p /\ NewMessagesCount = p - 1
    <3>1. Max(I) = p
      BY <2>7, <2>8 DEF Max
    <3>. QED
      BY <2>2, <2>4, <2>6, <3>1
  <2>10. items[p] \in ToSet(items)
    BY <2>8 DEF ToSet
  <2>11. PICK row \in Messages : /\ Above(items, row, items[p])
                                 /\ Shows(row, albumMessageIds, firstUnseenMessageId)
                                 /\ row.clock = items[p].clock
    BY <2>1, <2>8, <2>10, TiedFacts
  <2>12. PICK q \in DOMAIN items : items[q] = row /\ q < p
    <3>1. PICK a \in DOMAIN items, b \in DOMAIN items :
            a < b /\ items[a] = row /\ items[b] = items[p]
      BY <2>11 DEF Above
    <3>2. b = p
      BY <2>1, <2>8, <3>1, TidyFacts, DistinctIndices
    <3>. QED
      BY <3>1, <3>2
  <2>13. \A x \in ToSet(items) : Shows(x, albumMessageIds, firstUnseenMessageId) => x = row
    <3>1. row \in ToSet(items)
      BY <2>11, AboveInSet
    <3>. QED
      BY <2>1, <2>11, <3>1 DEF Shows, OneAlbumRow
  <2>14. unseen = q
    <3>1. unseen \in DOMAIN items /\ Shows(items[unseen], albumMessageIds, firstUnseenMessageId)
      <4>1. row \in ToSet(items)
        BY <2>11, AboveInSet
      <4>. QED
        BY <2>1, <2>11, <4>1, FindIndexFinds DEF unseen
    <3>2. items[unseen] = items[q]
      BY <2>12, <2>13, <3>1 DEF ToSet
    <3>. QED
      BY <2>1, <2>12, <3>1, <3>2, TidyFacts, DistinctIndices
  <2>15. unseen \in 1..NewMessagesCount
    BY <2>1, <2>8, <2>9, <2>12, <2>14
  <2>16. \A i \in DOMAIN items : items[i].clock \in Int
    BY <2>1, RowFacts DEF RowShape
  <2>17. ASSUME NEW i \in DOMAIN items, items[i].clock # row.clock
         PROVE  i <= p - 1 <=> items[i].clock > row.clock
    <3>1. i # p
      BY <2>11, <2>17
    <3>2. CASE i < p
      <4>1. Above(items, items[i], items[p])
        BY <2>8, <3>2 DEF Above
      <4>2. items[i].clock >= items[p].clock
        BY <2>1, <4>1, TidyFacts DEF Fits
      <4>3. items[i].clock > row.clock
        BY <2>8, <2>11, <2>16, <2>17, <4>2
      <4>. QED
        BY <2>1, <2>8, <3>2, <4>3
    <3>3. CASE p < i
      <4>1. Above(items, items[p], items[i])
        BY <2>8, <3>3 DEF Above
      <4>2. items[p].clock >= items[i].clock
        BY <2>1, <4>1, TidyFacts DEF Fits
      <4>3. ~ (items[i].clock > row.clock)
        BY <2>8, <2>11, <2>16, <4>2
      <4>. QED
        BY <2>1, <2>8, <3>3, <4>3
    <3>. QED
      BY <2>1, <2>8, <3>1, <3>2, <3>3
  <2>. QED
    BY <2>9, <2>12, <2>14, <2>15, <2>17
<1>. QED
  BY <1>1, Invariance, PTL

\* Whatever page is loaded, the merge drops none of its messages, and the rows
\* that are removed for others are never those of the page itself.
THEOREM PagesAreShown == Spec => []LoadedPageIsShown
<1>1. ASSUME IInv
      PROVE  LoadedPageIsShown
  <2>. SUFFICES ASSUME NEW messages \in SUBSET Messages, NEW deletedForMe,
                       NEW more \in BOOLEAN, NEW made \in ItemsOf(messages, deletedForMe)
                PROVE  LET page == messages \ deletedForMe
                           missing == page \ (ToSet(ListWith(made, more)) \cup made.images) IN
                       \/ missing = {}
                       \/ /\ missing \subseteq AlbumMessages
                          /\ ReplacedBy(page) \cap AlbumMessages # {}
    BY DEF LoadedPageIsShown
  <2>. DEFINE page == messages \ deletedForMe
  <2>1. /\ page \ AlbumMessages \subseteq made.rows
        /\ made.rows \subseteq Messages
        /\ \/ page \cap AlbumMessages \subseteq made.images
           \/ ReplacedBy(page) \cap AlbumMessages # {}
    BY <1>1, ItemsOfKeepAlbum
  <2>2. made.rows \subseteq ToSet(ListWith(made, more))
    BY <1>1, <2>1, ListWithIsTidy DEF Gets
  <2>. HIDE DEF page
  <2>. QED
    BY <2>1, <2>2 DEF page
<1>. QED
  BY <1>1, Invariance, PTL
----------------------------------------------------------------------------
(* The refinement of OrderedRows *)

LEMMA PromisedIsAboutRows ==
  /\ Promised!Row = Row
  /\ Promised!ChatIdentifier = ChatIdentifier
  /\ Promised!FetchMore = FetchMore
  /\ \A list : Promised!ToSet(list) = ToSet(list)
  /\ \A list : Promised!InOrder(list) <=> InOrder(list)
  /\ \A list, row : Promised!ReplacedIn(list, row) <=> IsReplaced(list, row)
BY DEF Promised!ReplacedIn, IsReplaced, Promised!GoesFor, GoesFor, Promised!Row, Row, Promised!ChatIdentifier, ChatIdentifier,
       Promised!FetchMore, FetchMore, Promised!ToSet, ToSet, Promised!InOrder, InOrder,
       Promised!Precedes, Precedes, Promised!IsGreaterThan, IsGreaterThan,
       Promised!Crowded, Crowded
LEMMA RowsKeepOrder ==
  ASSUME IInv, IInv', Effect(items, items')
  PROVE  Promised!SameOrder(Rows, Rows')
<1>1. /\ items \in Seq(AnyRow) /\ Tidy(items)
      /\ items' \in Seq(AnyRow) /\ Tidy(items')
  BY DEF IInv, TypeOK, AnyRow, Tidy
<1>2. Rows = WithoutMarker(items) /\ Rows' = WithoutMarker(items')
  BY DEF Rows
<1>. DEFINE bare == Rows
            other == WithoutMarker(items')
<1>3. /\ bare \in Seq(AnyRow)
      /\ ToSet(bare) \subseteq Row
      /\ \A x, y : Above(bare, x, y) => Above(items, x, y)
  BY <1>1, <1>2, WithoutMarkerKeepsRows
<1>4. /\ other \in Seq(AnyRow)
      /\ ToSet(other) = {x \in ToSet(items') : ~ IsMarker(x)}
      /\ \A x, y : Above(other, x, y) => Above(items', x, y)
  BY <1>1, WithoutMarkerKeepsRows
<1>. HIDE DEF bare, other
<1>5. ASSUME NEW x, NEW y, Above(bare, x, y), Above(other, y, x),
             ~ IsReplaced(other, x), ~ IsReplaced(other, y)
      PROVE  FALSE
  <2>1. Above(items, x, y) /\ Above(items', y, x)
    BY <1>3, <1>4, <1>5
  <2>2. /\ x \in ToSet(items) /\ y \in ToSet(items)
        /\ x \in Row /\ y \in Row
        /\ x # y
    BY <1>1, <1>3, <1>5, <2>1, AboveInSet, TidyFacts DEF Distinct
  <2>3. CASE x \in Messages /\ y \in Messages
    <3>1. ToSet(other) \cap Messages = ToSet(items') \cap Messages
      BY <1>4, RowFacts
    <3>2. ~ IsReplaced(items', x) /\ ~ IsReplaced(items', y)
      BY <1>5, <3>1 DEF IsReplaced
    <3>3. Above(items, y, x)
      BY <2>1, <2>2, <2>3, <3>2 DEF Effect
    <3>. QED
      BY <1>1, <2>1, <3>3, TidyFacts, AboveAsymmetric
  <2>4. CASE ~ (x \in Messages /\ y \in Messages)
    <3>1. Fits(x, y) /\ Fits(y, x)
      BY <1>1, <2>1, TidyFacts
    <3>2. x.clock \in Int /\ y.clock \in Int
      BY <2>2, RowFacts DEF AnyRow, RowShape
    <3>3. x.clock = y.clock
      BY <3>1, <3>2 DEF Fits
    <3>4. \A r \in Row : \/ r \in Messages /\ r.clock >= 0
                         \/ r = FetchMore /\ r.clock = -1
                         \/ r = ChatIdentifier /\ r.clock = -2
      BY RowFacts DEF Row, FetchMore, ChatIdentifier
    <3>. QED
      BY <2>2, <2>4, <3>2, <3>3, <3>4
  <2>. QED
    BY <2>3, <2>4
<1>6. SUFFICES ASSUME NEW j \in DOMAIN bare, NEW i \in 1..(j - 1), NEW l \in DOMAIN other,
                      bare[i] = other[l], NEW k \in 1..(l - 1), bare[j] = other[k],
                      ~ IsReplaced(other, bare[i]), ~ IsReplaced(other, bare[j])
               PROVE  FALSE
  BY <1>2, PromisedIsAboutRows DEF Promised!SameOrder, bare, other
<1>7. i \in DOMAIN bare /\ i < j /\ k \in DOMAIN other /\ k < l
  BY <1>3, <1>4
<1>8. Above(bare, bare[i], bare[j]) /\ Above(other, bare[j], bare[i])
  BY <1>6, <1>7 DEF Above
<1>. QED
  BY <1>5, <1>6, <1>8

LEMMA StepIsPromised ==
  ASSUME IInv, [Next]_vars
  PROVE  [Promised!Next]_Rows
<1>1. CASE UNCHANGED vars
  BY <1>1 DEF vars, Rows
<1>2. CASE Next
  <2>1. IInv' /\ Effect(items, items')
    BY <1>2, NextKeepsInvariant
  <2>2. /\ items \in Seq(AnyRow) /\ Tidy(items)
        /\ items' \in Seq(AnyRow) /\ Tidy(items')
    BY <2>1 DEF IInv, TypeOK, AnyRow, Tidy
  <2>3. Rows = WithoutMarker(items) /\ Rows' = WithoutMarker(items')
    BY DEF Rows
  <2>4. ToSet(Rows) = {x \in ToSet(items) : ~ IsMarker(x)}
    BY <2>2, <2>3, WithoutMarkerKeepsRows
  <2>5. /\ ToSet(Rows') = {x \in ToSet(items') : ~ IsMarker(x)}
        /\ ToSet(Rows') \subseteq Row
        /\ InOrder(Rows')
    BY <2>2, <2>3, WithoutMarkerKeepsRows, RowsAreInOrder
  <2>6. Promised!SameOrder(Rows, Rows')
    BY <2>1, RowsKeepOrder
  <2>7. \A x \in Messages : ~ IsMarker(x)
    BY RowFacts
  <2>8. \/ \A x \in ToSet(Rows) \cap Messages : x \in ToSet(Rows') \/ IsReplaced(Rows', x)
        \/ ToSet(Rows') = {ChatIdentifier}
        \/ \E r \in Messages : ToSet(Rows') = ToSet(Rows) \ {r}
    <3>1. CASE \A x \in Messages \cap ToSet(items) :
                 x \in ToSet(items') \/ IsReplaced(items', x)
      <4>1. ToSet(Rows') \cap Messages = ToSet(items') \cap Messages
        BY <2>5, <2>7
      <4>2. \A x : IsReplaced(items', x) => IsReplaced(Rows', x)
        BY <4>1 DEF IsReplaced
      <4>3. \A x \in ToSet(Rows) \cap Messages :
              x \in ToSet(Rows') \/ IsReplaced(Rows', x)
        BY <2>4, <3>1, <4>1, <4>2
      <4>. QED
        BY <4>3
    <3>2. CASE ToSet(items') = {ChatIdentifier}
      <4>1. ~ IsMarker(ChatIdentifier)
        BY RowFacts
      <4>. QED
        BY <2>5, <3>2, <4>1
    <3>3. CASE \E r \in Messages :
                 \A x : ~ IsMarker(x) => (x \in ToSet(items') <=> x \in ToSet(items) \ {r})
      <4>1. PICK r \in Messages :
              \A x : ~ IsMarker(x) => (x \in ToSet(items') <=> x \in ToSet(items) \ {r})
        BY <3>3
      <4>2. ToSet(Rows') = ToSet(Rows) \ {r}
        BY <2>4, <2>5, <4>1
      <4>. QED
        BY <4>2
    <3>. QED
      BY <2>1, <3>1, <3>2, <3>3 DEF Effect
  <2>. QED
    BY <2>5, <2>6, <2>8, PromisedIsAboutRows
       DEF Promised!Next, Promised!Add, Promised!Clear, Promised!TakeAway
<1>. QED
  BY <1>1, <1>2

LEMMA InitIsPromised ==
  ASSUME Init
  PROVE  Promised!Init
<1>1. IInv /\ ToSet(items) \cap Messages = {}
  BY InitHolds
<1>2. /\ items \in Seq(AnyRow) /\ Tidy(items)
      /\ Rows = WithoutMarker(items)
  BY <1>1, TypeFacts DEF Rows
<1>3. ToSet(Rows) \subseteq ToSet(items) /\ ToSet(Rows) \subseteq Row /\ InOrder(Rows)
  BY <1>2, WithoutMarkerKeepsRows, RowsAreInOrder
<1>4. ToSet(Rows) \subseteq {FetchMore, ChatIdentifier}
  BY <1>1, <1>3 DEF Row
<1>. QED
  BY <1>3, <1>4, PromisedIsAboutRows DEF Promised!Init

(***************************************************************************)
(* The list implements OrderedRows: whatever is loaded, sent, deleted or   *)
(* cleared, the view gets rows in order, and one that stays is never moved *)
(* past another one.                                                       *)
(***************************************************************************)
THEOREM RowsAreAsPromised == Spec => ImplementsOrderedRows
BY InitIsPromised, Invariance, StepIsPromised, PTL
   DEF Spec, ImplementsOrderedRows, Promised!Spec
=============================================================================
