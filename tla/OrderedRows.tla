----------------------------- MODULE OrderedRows -----------------------------
(***************************************************************************)
(* What the message list of a chat promises to the view: rows, always      *)
(* presented with the newest first, to which messages are added, with the  *)
(* rows they replace leaving, and from which single rows are taken.        *)
(* Nothing else changes it, and a row that stays is never moved past       *)
(* another one that stays.                                                 *)
(***************************************************************************)
EXTENDS MessageRows

VARIABLE rows

\* Whether a message of a list has replaced a row, which may come back later.
ReplacedIn(list, row) == \E message \in ToSet(list) \cap Messages : GoesFor(row, message)

\* No two rows of the one list are the other way round in the other, unless one
\* of them was replaced.
SameOrder(list, other) ==
  \A j \in DOMAIN list : \A i \in 1..(j - 1) :
    \/ \A l \in DOMAIN other : list[i] = other[l] => \A k \in 1..(l - 1) : list[j] # other[k]
    \/ ReplacedIn(other, list[i])
    \/ ReplacedIn(other, list[j])

Init == ToSet(rows) \subseteq {FetchMore, ChatIdentifier} /\ InOrder(rows)

\* Messages are added, and a row leaves only for a message that replaces it and
\* is there; of the two rows below the history each may come or go.
Add ==
  \A row \in ToSet(rows) \cap Messages : row \in ToSet(rows') \/ ReplacedIn(rows', row)

TakeAway(r) == ToSet(rows') = ToSet(rows) \ {r}

Clear == ToSet(rows') = {ChatIdentifier}

Next ==
  /\ ToSet(rows') \subseteq Row
  /\ InOrder(rows')
  /\ SameOrder(rows, rows')
  /\ Add \/ Clear \/ \E r \in Messages : TakeAway(r)

Spec == Init /\ [][Next]_rows
=============================================================================
