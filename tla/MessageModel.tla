----------------------------- MODULE MessageModel -----------------------------
(***************************************************************************)
(* The list model behind the view of a chat: the rows the messages module  *)
(* inserts and removes, newest first, with the marker that separates the   *)
(* new messages from the old ones.  The marker row copies the clock of the *)
(* row of the first unseen message and has the empty id.                   *)
(*                                                                         *)
(* Images that were sent together are one row: the row of the image that   *)
(* came first, which lists the ids of all of them.  The model has one such *)
(* album.                                                                  *)
(***************************************************************************)
EXTENDS MessageRows

CONSTANT DeletedForMe  \* the messages that may come with the flag deletedForMe

IsMarker(row) == row.id = 0

\* initNewMessagesMarkerItem
MarkerOf(row) == [clock |-> row.clock, id |-> 0]

Markers == {MarkerOf(row) : row \in Messages}

VARIABLES
  items,               \* the rows, newest first
  albumMessageIds,     \* the images listed in the row of the album
  firstUnseenMessageId \* the message the marker belongs to

vars == <<items, albumMessageIds, firstUnseenMessageId>>

TypeOK ==
  /\ items \in Seq(Row \cup Markers)
  /\ albumMessageIds \subseteq AlbumMessages
  /\ firstUnseenMessageId \in Messages \cup {NoMessage}
----------------------------------------------------------------------------
(* The operations of the model *)

\* Whether a row shows a message, when these images are listed in the album's.
Shows(row, images, id) ==
  \/ row = id
  \/ row \in AlbumMessages /\ id \in images

\* findIndexForMessageId: the row of a message, or 0.
FindIndexForMessageId(list, images, id) ==
  SelectInSeq(list, LAMBDA row : Shows(row, images, id))

\* removeNewMessagesMarker: the marker that is found from the oldest row up.
WithoutMarker(list) ==
  LET marker == SelectLastInSeq(list, IsMarker) IN
  IF marker = 0 THEN list ELSE RemoveAt(list, marker)

\* resetNewMessagesMarker: the marker is put right below the first unseen message.
ResetNewMessagesMarker(list, images, unseen) ==
  LET bare == WithoutMarker(list)
      index == FindIndexForMessageId(bare, images, unseen) IN
  IF index = 0 THEN bare ELSE InsertAt(bare, index + 1, MarkerOf(bare[index]))

\* A variant: the marker stays where it was.
RemoveItemLeavingMarker(list, images, id) ==
  LET index == FindIndexForMessageId(list, images, id) IN
  IF index = 0 THEN list ELSE RemoveAt(list, index)

\* removeItem
RemoveItem(list, images, id) ==
  LET index == FindIndexForMessageId(list, images, id) IN
  IF index = 0
  THEN list
  ELSE ResetNewMessagesMarker(RemoveAt(list, index), images, firstUnseenMessageId)

\* The rows of a set, the greatest first.
Sorted(rows) ==
  [i \in 1..Cardinality(rows) |->
     CHOOSE row \in rows :
       Cardinality({other \in rows : IsGreaterThan(other, row)}) = i - 1]

\* The new rows the merge passes before it comes to the i-th row of the list.
Passed(list, new, i) ==
  {row \in new : \E k \in 1..(i - 1) : IsGreaterThan(row, list[k])}

\* The new rows it inserts in front of that row: those that are greater.
InFrontOf(list, new, i) ==
  {row \in new \ Passed(list, new, i) : IsGreaterThan(row, list[i])}

\* The rest, which is inserted at the end.
Rest(list, new) == new \ Passed(list, new, Len(list) + 1)

\* A variant: new rows take the place of the row they should come before.
MergedReplacing(list, new) ==
  LET insertedAt(i) == Sorted(InFrontOf(list, new, i)) IN
  FlattenSeq([i \in DOMAIN list |->
                IF insertedAt(i) = <<>> THEN <<list[i]>> ELSE insertedAt(i)])
    \o Sorted(Rest(list, new))

\* The two-pointer merge: new rows are inserted in front of the first row they
\* are greater than.
Merged(list, new) ==
  FlattenSeq([i \in DOMAIN list |-> Append(Sorted(InFrontOf(list, new, i)), list[i])])
    \o Sorted(Rest(list, new))

\* A variant: rows that exist already are inserted again.
FilterNothing(list, new) == new

\* filterExistingItems
FilterExistingItems(list, new) == new \ ToSet(list)

\* insertItemsBasedOnClock
InsertItemsBasedOnClock(list, new) == Merged(list, FilterExistingItems(list, new))
----------------------------------------------------------------------------
(* The messages module *)

ReplacedBy(messages) == {Replaces[message] : message \in messages}

\* A variant: every message of the list is taken for an image of the album.
ListEveryMessage(messages) == albumMessageIds \cup messages

\* updateAlbumIfExists: the images the row of the album lists with these.
ImagesWith(messages) == albumMessageIds \cup (messages \cap AlbumMessages)

\* A variant: every image of an album is a row of its own.
RowsWithoutAlbum(others, images) == {others \cup images}

\* updateItemsByAlbum: the image that comes first gets a row, the others join it.
RowsOf(others, images) ==
  IF images = {} THEN {others} ELSE {others \cup {first} : first \in images}

(***************************************************************************)
(* createMessageItemsFromMessageDtos, for messages in any order: the rows  *)
(* it makes, the messages whose rows it removes from the model, and the    *)
(* images that are listed in the end.                                      *)
(*                                                                         *)
(* While the album has a row in the model its images join that row and get *)
(* none.  A message that gets a row removes the one of the message it      *)
(* replaces: if that is an image of the album, then the album's, with all  *)
(* that are listed; the images after it start a row of their own, and      *)
(* those before it joined the one that is gone.                            *)
(***************************************************************************)
ItemsOf(messages, deletedForMe) ==
  LET page == messages \ deletedForMe
      images == page \cap AlbumMessages
      others == page \ AlbumMessages
      albumRow == ToSet(items) \cap AlbumMessages
      albumStays == ReplacedBy(others) \cap albumMessageIds = {}
      joined == IF albumRow = {}
                THEN {{}}
                ELSE {before \in SUBSET images :
                        ReplacedBy(others) \cap (albumMessageIds \cup before) # {}} IN
  (IF albumRow # {} /\ albumStays
   THEN {[rows |-> others, gone |-> ReplacedBy(others), images |-> ImagesWith(page)]}
   ELSE {})
  \cup
  UNION {{[rows |-> rows, gone |-> albumRow \cup ReplacedBy(rows), images |-> images \ before] :
            rows \in RowsOf(others, images \ before)} : before \in joined}

\* The rows that are not these.
Without(list, gone) ==
  FlattenSeq([i \in DOMAIN list |-> IF list[i] \in gone THEN <<>> ELSE <<list[i]>>])

\* The list after the loop: each removal puts the marker in its place, with the
\* images that are listed by then.
WithoutReplaced(list, gone, images) ==
  IF ToSet(list) \cap gone = {}
  THEN list
  ELSE ResetNewMessagesMarker(Without(list, gone), images, firstUnseenMessageId)

\* A variant: replaced messages are removed last.
ListWithReplacedLast(made, more) ==
  LET fixed == {ChatIdentifier} \cup (IF more THEN {FetchMore} ELSE {})
      kept == RemoveItem(RemoveItem(items, made.images, FetchMore), made.images, ChatIdentifier) IN
  WithoutReplaced(InsertItemsBasedOnClock(kept, made.rows \cup fixed), made.gone, made.images)

\* What newMessagesLoaded makes of the list with the items made of a page; more
\* says whether older messages can be requested from a store node.
ListWith(made, more) ==
  LET fixed == {ChatIdentifier} \cup (IF more THEN {FetchMore} ELSE {})
      left == WithoutReplaced(items, made.gone, made.images)
      kept == RemoveItem(RemoveItem(left, made.images, FetchMore), made.images, ChatIdentifier) IN
  ResetNewMessagesMarker(InsertItemsBasedOnClock(kept, made.rows \cup fixed),
                         made.images, firstUnseenMessageId)

\* newMessagesLoaded with a page that is not empty
NewMessagesLoaded(messages, deletedForMe, more) ==
  /\ \E made \in ItemsOf(messages, deletedForMe) :
       /\ albumMessageIds' = made.images
       /\ items' = ListWith(made, more)
  /\ UNCHANGED firstUnseenMessageId

\* messagesAdded: the marker is only looked at when a row is removed.  The images
\* of the list may have been listed by then, or not.
MessagesAdded(messages, deletedForMe) ==
  /\ \E made \in ItemsOf(messages, deletedForMe) :
       /\ albumMessageIds' = made.images
       /\ \E listed \in {albumMessageIds, made.images} :
            items' = InsertItemsBasedOnClock(WithoutReplaced(items, made.gone, listed),
                                             made.rows)
  /\ UNCHANGED firstUnseenMessageId

\* onSendingMessageSuccess: who sends a message has seen the others.
OnSendingMessageSuccess(message) ==
  /\ \E made \in ItemsOf({message}, {}) :
       /\ albumMessageIds' = made.images
       /\ items' = WithoutMarker(InsertItemsBasedOnClock(
                      WithoutReplaced(items, made.gone, made.images), made.rows))
  /\ firstUnseenMessageId' = NoMessage

\* setFirstUnseenMessageId and resetNewMessagesMarker: on the answer to the
\* question for the first unseen message, when a message is marked as unread,
\* and, with NoMessage, when a chat without unviewed messages is left.
SetFirstUnseenMessage(message) ==
  /\ firstUnseenMessageId' = message
  /\ items' = ResetNewMessagesMarker(items, albumMessageIds, message)
  /\ UNCHANGED albumMessageIds

\* onMessagesDeleted, for one message: the row it is found in is removed.
OnMessageDeleted(message) ==
  /\ items' = RemoveItem(items, albumMessageIds, message)
  /\ albumMessageIds' = IF message \in albumMessageIds THEN {} ELSE albumMessageIds
  /\ UNCHANGED firstUnseenMessageId

\* onHistoryCleared
OnHistoryCleared ==
  /\ items' = InsertItemsBasedOnClock(<<>>, {ChatIdentifier})
  /\ albumMessageIds' = {}
  /\ UNCHANGED firstUnseenMessageId

\* updateChatIdentifier
UpdateChatIdentifier ==
  /\ items' = InsertItemsBasedOnClock(RemoveItem(items, albumMessageIds, ChatIdentifier),
                                      {ChatIdentifier})
  /\ UNCHANGED <<albumMessageIds, firstUnseenMessageId>>

\* updateChatFetchMoreMessages, and onMailserverSynced when nothing is left.
UpdateChatFetchMoreMessages(more) ==
  /\ items' = InsertItemsBasedOnClock(RemoveItem(items, albumMessageIds, FetchMore),
                                      IF more THEN {FetchMore} ELSE {})
  /\ UNCHANGED <<albumMessageIds, firstUnseenMessageId>>

\* viewDidLoad
Init ==
  /\ \E more \in SUBSET {FetchMore} :
       items = InsertItemsBasedOnClock(InsertItemsBasedOnClock(<<>>, more),
                                       {ChatIdentifier})
  /\ albumMessageIds = {}
  /\ firstUnseenMessageId = NoMessage

Next ==
  \/ \E messages \in SUBSET Messages \ {{}} :
       \E deletedForMe \in SUBSET (messages \cap DeletedForMe) :
         \/ \E more \in BOOLEAN : NewMessagesLoaded(messages, deletedForMe, more)
         \/ MessagesAdded(messages, deletedForMe)
  \/ \E message \in Messages : OnSendingMessageSuccess(message) \/ OnMessageDeleted(message)
  \/ \E message \in Messages \cup {NoMessage} : SetFirstUnseenMessage(message)
  \/ \E more \in BOOLEAN : UpdateChatFetchMoreMessages(more)
  \/ OnHistoryCleared
  \/ UpdateChatIdentifier

Spec == Init /\ [][Next]_vars
----------------------------------------------------------------------------
(* Properties *)

\* The list without the marker.
Rows == WithoutMarker(items)

(***************************************************************************)
(* "newest messages should be first" (test/nim/message_model_test.nim:49): *)
(* whatever was inserted before and wherever the marker stands, the rows   *)
(* are in the order of their clocks, no message has two of them, and rows  *)
(* with the same clock are in the order of their ids, unless three         *)
(* messages or more have that clock.                                       *)
(***************************************************************************)
NewestFirst == InOrder(Rows)

(***************************************************************************)
(* "newest messages should be first, break ties by message id"             *)
(* (test/nim/message_model_test.nim:49).  The code does not: the empty id  *)
(* of the marker is less than that of every message with its clock, so a   *)
(* message that comes later is inserted above the marker although another  *)
(* one below the marker is greater.                                        *)
(***************************************************************************)
TiesBrokenById ==
  \A i, j \in DOMAIN Rows : i < j => IsGreaterThan(Rows[i], Rows[j])

(***************************************************************************)
(* The images of an album share one row, which is one of theirs.           *)
(***************************************************************************)
AlbumIsOneRow ==
  LET albumRows == ToSet(items) \cap AlbumMessages IN
  /\ albumRows \subseteq albumMessageIds
  /\ Cardinality(albumRows) = (IF albumMessageIds = {} THEN 0 ELSE 1)

(***************************************************************************)
(* Whatever page is loaded next, it is on screen then as a whole but for   *)
(* the messages that are deleted for me, wherever its messages belong      *)
(* among those that are there: the merge drops none, at either end, an     *)
(* image is shown by a row of its own or by the row of its album, and a    *)
(* message of the page is shown even when another one of the page replaces *)
(* it, since only what was on the list before the page is removed.  Images *)
(* may only be missing from a page with a message that replaces an image:  *)
(* they may have joined a row that it took away.                           *)
(***************************************************************************)
LoadedPageIsShown ==
  \A messages \in SUBSET Messages \ {{}} :
    \A deletedForMe \in SUBSET (messages \cap DeletedForMe), more \in BOOLEAN :
      \A made \in ItemsOf(messages, deletedForMe) :
        LET page == messages \ deletedForMe
            missing == page \ (ToSet(ListWith(made, more)) \cup made.images) IN
        \/ missing = {}
        \/ missing \subseteq AlbumMessages /\ ReplacedBy(page) \cap AlbumMessages # {}

\* getNewMessagesCount: the number of rows above the marker.
NewMessagesCount ==
  LET marker == SelectLastInSeq(items, IsMarker) IN
  IF marker = 0 THEN 0 ELSE marker - 1

(***************************************************************************)
(* The marker separates the new messages from the old ones, although       *)
(* messagesAdded inserts rows without looking at it: of the rows the view  *)
(* counts as new messages one is that of the first unseen message, those   *)
(* that are newer than it are counted, and those that are older are not.   *)
(* Of the other rows with the same clock nothing is said: one that comes   *)
(* later is put above the marker, whose id is empty.                       *)
(***************************************************************************)
MarkerSeparatesNew ==
  NewMessagesCount > 0 =>
    LET unseen == FindIndexForMessageId(items, albumMessageIds, firstUnseenMessageId) IN
    /\ unseen \in 1..NewMessagesCount
    /\ \A i \in DOMAIN items :
         items[i].clock # items[unseen].clock =>
           (i <= NewMessagesCount <=> items[i].clock > items[unseen].clock)

\* The list without the marker is the list of rows the view is promised.
Promised == INSTANCE OrderedRows WITH rows <- Rows

(***************************************************************************)
(* Every operation does to the rows what OrderedRows says: the merge moves *)
(* no row, a row that leaves in the same step does so for a message that   *)
(* replaces it and is on the list then, and a removal takes one row.       *)
(***************************************************************************)
ImplementsOrderedRows == Promised!Spec
=============================================================================
