--------------------------- MODULE MCMessageModel ---------------------------
(* Instances of MessageModel for TLC. *)
EXTENDS MessageModel

Message(clock, id) == [clock |-> clock, id |-> id]

\* Two messages of the first clock and three of the second.
PairAndCrowd ==
  {Message(1, id) : id \in 1..2} \cup {Message(2, id) : id \in 1..3}

\* The album is one message of each clock, with others in between.
SpreadAlbum == {Message(1, 1), Message(2, 2)}

\* A message replaces one of its own clock, which itself replaces an older one,
\* and that one replaces an image of the album.
ChainAndImage ==
  [message \in Messages |->
     CASE message = Message(2, 3) -> Message(2, 1)
       [] message = Message(2, 1) -> Message(1, 2)
       [] message = Message(1, 2) -> Message(1, 1)
       [] OTHER -> NoMessage]

\* A message that replaces another one may come deleted for me.
Replacement == {Message(2, 3)}
=============================================================================
