----------------------------- MODULE MessageRows -----------------------------
(***************************************************************************)
(* The rows of the message list of a chat and their order.                 *)
(*                                                                         *)
(* A row has the clock and the id of its message.  Of an id only its place *)
(* among the ids of the messages with the same clock matters, so ids are   *)
(* numbers from 1 here; 0 is the empty id.                                 *)
(***************************************************************************)
EXTENDS Integers, FiniteSets, SequencesExt

CONSTANTS
  Messages,
  AlbumMessages, \* the messages that are images of the album
  Replaces       \* the message whose place a message takes, if it takes one

ASSUME MessagesAssumption ==
  /\ IsFiniteSet(Messages)
  /\ Messages \subseteq [clock : Nat, id : Nat \ {0}]

ASSUME AlbumAssumption == AlbumMessages \subseteq Messages

\* No message: the empty id.
NoMessage == [clock |-> -1, id |-> 0]

ASSUME ReplacesAssumption == Replaces \in [Messages -> Messages \cup {NoMessage}]

\* The rows below the history have clocks of their own.
FetchMore == [clock |-> -1, id |-> 1]

ChatIdentifier == [clock |-> -2, id |-> 1]

Row == Messages \cup {FetchMore, ChatIdentifier}

\* isGreaterThan
IsGreaterThan(lhs, rhs) ==
  \/ lhs.clock > rhs.clock
  \/ /\ lhs.clock = rhs.clock
     /\ lhs.id > rhs.id

\* Three messages or more have the clock of this row.
Crowded(row) ==
  \E a, b, c \in Messages :
    /\ a # b /\ b # c /\ a # c
    /\ {a.clock, b.clock, c.clock} = {row.clock}

\* Whether a row may be shown above another one.
Precedes(upper, lower) ==
  /\ upper # lower
  /\ \/ IsGreaterThan(upper, lower)
     \/ upper.clock = lower.clock /\ Crowded(upper)

\* Whether a row goes for a message: the one it replaces is the row, or they are
\* both in the row of the album.
GoesFor(row, message) ==
  \/ row = Replaces[message]
  \/ row \in AlbumMessages /\ Replaces[message] \in AlbumMessages

InOrder(list) == \A i, j \in DOMAIN list : i < j => Precedes(list[i], list[j])
=============================================================================
