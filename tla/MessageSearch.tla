---------------------------- MODULE MessageSearch ----------------------------
(***************************************************************************)
(* The messages module of an open chat: how it finds a message that the    *)
(* user jumped to, by loading page after page until the message is in the  *)
(* list, and how it decides whether the view shows its loading state.      *)
(*                                                                         *)
(* Three kinds of requests run in the thread pool and are answered in any  *)
(* order: the page read of the cursor, the lookup of the message that is   *)
(* searched for, and the question which message is the first unseen one.   *)
(* Every answer is handled on the main thread, between two steps of the    *)
(* user.                                                                   *)
(*                                                                         *)
(* The history of the chat and its cursor are those of MessageCursor.  The *)
(* page read is taken together with its answer, and messages that arrive   *)
(* meanwhile and signals that drop the cursor are left out: MessageLoading *)
(* is about those.                                                         *)
(***************************************************************************)
EXTENDS MessageCursor

CONSTANTS
  NoMessage,     \* the empty message id
  Invisible,     \* ids the lookup refuses: unknown to status-go, not a visual message
  Elsewhere,     \* ids of messages that belong to another chat
  MaxLookups,    \* bound on searches that are started
  MaxUnseen,     \* bound on questions for the first unseen message
  MaxFailures,   \* bound on page reads and unseen questions that fail
  MaxClears      \* bound on the times the history of the chat is cleared

MessageId == Position \cup Invisible \cup Elsewhere

ASSUME SearchAssumption ==
  /\ NoMessage \notin MessageId
  /\ {Invisible \cap Position, Elsewhere \cap Position, Invisible \cap Elsewhere} = {{}}
  /\ {MaxLookups, MaxUnseen, MaxFailures, MaxClears} \subseteq Nat

VARIABLES
  stored,        \* status-go: the messages of the chat in the database
  cursor,        \* service: the message cursor of the chat
  pageReads,     \* thread pool: the limits of the page reads in flight
  lookups,       \* thread pool: asyncGetMessageById requests in flight
  unseenAsked,   \* thread pool: first-unseen requests in flight
  shown,         \* view: the messages in the model
  loading,       \* view: the loading flag, which also stops scrolling
  messageSearchOngoing, \* view: a search is going on
  searchedMessageId,    \* controller: what the search looks for
  loadingMessagesPerPageFactor, \* controller: page size of the search
  getMessageRequestId,   \* module: the lookup whose answer counts
  initialMessagesLoaded, \* module: a page has been answered
  firstUnseenMessageState, \* module: the first unseen message's state
  counts         \* how many of each bounded event have happened

searchVars == <<messageSearchOngoing, searchedMessageId, loadingMessagesPerPageFactor>>
vars == <<stored, cursor, pageReads, lookups, unseenAsked, shown, loading, searchVars,
          getMessageRequestId, initialMessagesLoaded, firstUnseenMessageState, counts>>

Bounds == [lookups |-> MaxLookups, unseen |-> MaxUnseen, failures |-> MaxFailures,
           clears |-> MaxClears]

TypeOK ==
  /\ stored \subseteq Position
  /\ cursor \in MessageCursor \cup {NoCursor}
  /\ pageReads \subseteq Nat
  /\ lookups \subseteq [id : Nat, target : MessageId]
  /\ unseenAsked \in Nat
  /\ shown \subseteq Position
  /\ {loading, messageSearchOngoing, initialMessagesLoaded} \subseteq BOOLEAN
  /\ searchedMessageId \in MessageId \cup {NoMessage}
  /\ loadingMessagesPerPageFactor \in Nat \ {0}
  /\ getMessageRequestId \in Nat
  /\ firstUnseenMessageState \in
       [initialized : BOOLEAN, fetching : BOOLEAN, scrollToWhenFetched : BOOLEAN]
  /\ counts \in [DOMAIN Bounds -> Nat]

Count(what) ==
  /\ counts[what] < Bounds[what]
  /\ counts' = [counts EXCEPT ![what] = @ + 1]
----------------------------------------------------------------------------
(* Helpers of the module *)

\* reevaluateViewLoadingState, at the end of a handler.
ReevaluateViewLoadingState ==
  loading' = \/ ~initialMessagesLoaded'
             \/ ~firstUnseenMessageState'.initialized
             \/ firstUnseenMessageState'.fetching
             \/ messageSearchOngoing'

\* asyncLoadMoreMessagesForChat, from the cursor and the reads given.
AsyncLoadMoreMessages(cur, reads, limit) ==
  IF IsFetchable(InitOrGet(cur))
  THEN /\ cursor' = SetPending(InitOrGet(cur))
       /\ pageReads' = reads \cup {limit}
  ELSE cursor' = InitOrGet(cur) /\ pageReads' = reads

\* A search looks further: one page more than the last time.
SearchFurther(cur, reads) ==
  /\ loadingMessagesPerPageFactor' = loadingMessagesPerPageFactor + 1
  /\ AsyncLoadMoreMessages(cur, reads, loadingMessagesPerPageFactor')
  /\ UNCHANGED <<searchedMessageId, messageSearchOngoing>>

\* A variant: the page size of the search stays.
EndSearchKeepingFactor ==
  /\ searchedMessageId' = NoMessage
  /\ messageSearchOngoing' = FALSE
  /\ UNCHANGED loadingMessagesPerPageFactor

EndSearch ==
  /\ searchedMessageId' = NoMessage
  /\ loadingMessagesPerPageFactor' = 1
  /\ messageSearchOngoing' = FALSE

\* checkIfMessageLoadedAndScroll: is the searched message among items?  While a
\* page is pending, loadMoreMessages answers true: the search waits for it.
CheckIfMessageLoadedAndScroll(items, cur, reads) ==
  IF /\ searchedMessageId \notin items \cup {NoMessage}
     /\ ~InitOrGet(cur).mostRecent
  THEN SearchFurther(cur, reads)
  ELSE /\ cursor' = cur
       /\ pageReads' = reads
       /\ IF searchedMessageId = NoMessage THEN UNCHANGED searchVars ELSE EndSearch

\* A variant: a page does not look for the searched message.
NewMessagesLoadedUnsearched(messages, cur, reads) ==
  /\ shown' = shown \cup messages
  /\ cursor' = cur
  /\ pageReads' = reads
  /\ initialMessagesLoaded' = TRUE
  /\ UNCHANGED searchVars

\* A variant: an empty page does not end the initial loading.
NewMessagesLoadedUnlessEmpty(messages, cur, reads) ==
  /\ shown' = shown \cup messages
  /\ IF messages = {}
     THEN cursor' = cur /\ pageReads' = reads /\ UNCHANGED searchVars
     ELSE CheckIfMessageLoadedAndScroll(shown', cur, reads)
  /\ initialMessagesLoaded' = (initialMessagesLoaded \/ messages # {})

\* newMessagesLoaded: an empty page only ends the initial loading.
NewMessagesLoaded(messages, cur, reads) ==
  /\ shown' = shown \cup messages
  /\ IF messages = {}
     THEN cursor' = cur /\ pageReads' = reads /\ UNCHANGED searchVars
     ELSE CheckIfMessageLoadedAndScroll(shown', cur, reads)
  /\ initialMessagesLoaded' = TRUE

\* scrollToMessage: one search at a time.
ScrollToMessage(m) ==
  IF m = NoMessage \/ messageSearchOngoing
  THEN UNCHANGED <<searchVars, lookups, getMessageRequestId, counts>>
  ELSE /\ Count("lookups")
       /\ getMessageRequestId' = counts'["lookups"]
       /\ lookups' = lookups \cup {[id |-> getMessageRequestId', target |-> m]}
       /\ searchedMessageId' = m
       /\ messageSearchOngoing' = TRUE
       /\ UNCHANGED loadingMessagesPerPageFactor

\* getAsyncFirstUnseenMessageId, with the wish to scroll to its answer.
AskFirstUnseen(scroll) ==
  /\ Count("unseen")
  /\ unseenAsked' = unseenAsked + 1
  /\ firstUnseenMessageState' = [firstUnseenMessageState EXCEPT
                                   !.fetching = TRUE, !.scrollToWhenFetched = scroll]
----------------------------------------------------------------------------
(* The user *)

\* setActiveItem, then onMadeActive.  A chat with a cursor is told at once
\* that its messages are loaded; unviewed says whether it has unviewed ones.
MakeActive(unviewed) ==
  /\ IF cursor = NoCursor
     THEN /\ AsyncLoadMoreMessages(cursor, pageReads, 1)
          /\ UNCHANGED <<shown, searchVars, initialMessagesLoaded>>
     ELSE NewMessagesLoaded({}, cursor, pageReads)
  /\ IF ~firstUnseenMessageState.initialized \/ unviewed
     THEN AskFirstUnseen(TRUE)
     ELSE UNCHANGED <<unseenAsked, firstUnseenMessageState, counts>>
  /\ ReevaluateViewLoadingState
  /\ UNCHANGED <<stored, lookups, getMessageRequestId>>

\* The view asks for more only when it is not loading.
LoadMoreMessages ==
  /\ cursor # NoCursor
  /\ ~loading
  /\ AsyncLoadMoreMessages(cursor, pageReads, loadingMessagesPerPageFactor)
  /\ UNCHANGED <<stored, lookups, unseenAsked, shown, loading, searchVars,
                 getMessageRequestId, initialMessagesLoaded,
                 firstUnseenMessageState, counts>>

\* jumpToMessage: to a quoted, pinned or mentioning message, or from the
\* activity center.
JumpToMessage(m) ==
  /\ cursor # NoCursor
  /\ ~messageSearchOngoing
  /\ ScrollToMessage(m)
  /\ UNCHANGED <<stored, cursor, pageReads, unseenAsked, shown, loading,
                 initialMessagesLoaded, firstUnseenMessageState>>

\* addNewMessagesMarker: unread messages came in while nobody looked.
AddNewMessagesMarker ==
  /\ cursor # NoCursor
  /\ AskFirstUnseen(FALSE)
  /\ UNCHANGED <<stored, cursor, pageReads, lookups, shown, loading, searchVars,
                 getMessageRequestId, initialMessagesLoaded>>

\* The history of the chat is cleared, here or on a paired device.
HistoryCleared ==
  /\ cursor # NoCursor
  /\ Count("clears")
  /\ stored' = {}
  /\ shown' = {}
  /\ UNCHANGED <<cursor, pageReads, lookups, unseenAsked, loading, searchVars,
                 getMessageRequestId, initialMessagesLoaded, firstUnseenMessageState>>
----------------------------------------------------------------------------
(* Answers *)

\* A page of at most limit messages, from the cursor down.
PageLoaded(limit) ==
  LET candidates == {m \in stored : cursor.value = Empty \/ m <= cursor.value} IN
  /\ limit \in pageReads
  /\ \E next \in NextPositions(candidates, limit) :
       NewMessagesLoaded({m \in candidates : m > next}, SetValue(cursor, next),
                         pageReads \ {limit})
  /\ UNCHANGED firstUnseenMessageState
  /\ ReevaluateViewLoadingState
  /\ UNCHANGED <<stored, lookups, unseenAsked, getMessageRequestId, counts>>

\* A failed page read reaches no module and leaves the cursor pending.
PageFailed(limit) ==
  /\ limit \in pageReads
  /\ Count("failures")
  /\ pageReads' = pageReads \ {limit}
  /\ UNCHANGED <<stored, cursor, lookups, unseenAsked, shown, loading, searchVars,
                 getMessageRequestId, initialMessagesLoaded, firstUnseenMessageState>>

\* A variant: every answer counts, also that of an earlier search.
IsCurrentLookupAlways(lookup) == lookup \in lookups

IsCurrentLookup(lookup) == lookup.id = getMessageRequestId

\* onGetMessageById.  On an error the search ends, but its message id stays and
\* the loading state is not looked at.
GetMessageByIdAnswered(lookup) ==
  /\ lookup \in lookups
  /\ lookups' = lookups \ {lookup}
  /\ UNCHANGED <<stored, unseenAsked, shown, getMessageRequestId,
                 initialMessagesLoaded, firstUnseenMessageState, counts>>
  /\ \/ /\ ~IsCurrentLookup(lookup)
        /\ UNCHANGED <<cursor, pageReads, searchVars, loading>>
     \/ /\ IsCurrentLookup(lookup)
        /\ lookup.target \in Invisible
        /\ messageSearchOngoing' = FALSE
        /\ UNCHANGED <<cursor, pageReads, searchedMessageId,
                       loadingMessagesPerPageFactor, loading>>
     \/ /\ IsCurrentLookup(lookup)
        /\ lookup.target \notin Invisible
        /\ CheckIfMessageLoadedAndScroll(shown, cursor, pageReads)
        /\ ReevaluateViewLoadingState

\* onFirstUnseenMessageLoaded, for the unseen message m or for none.
FirstUnseenMessageLoaded(m) ==
  /\ unseenAsked > 0
  /\ unseenAsked' = unseenAsked - 1
  /\ IF firstUnseenMessageState.scrollToWhenFetched
     THEN ScrollToMessage(m)
     ELSE UNCHANGED <<searchVars, lookups, getMessageRequestId, counts>>
  /\ firstUnseenMessageState' = [firstUnseenMessageState EXCEPT
                                   !.initialized = TRUE, !.fetching = FALSE]
  /\ UNCHANGED initialMessagesLoaded
  /\ ReevaluateViewLoadingState
  /\ UNCHANGED <<stored, cursor, pageReads, shown>>

\* onGetFirstUnseenMessageIdFor with an error: only logged.
FirstUnseenMessageFailed ==
  /\ unseenAsked > 0
  /\ Count("failures")
  /\ unseenAsked' = unseenAsked - 1
  /\ UNCHANGED <<stored, cursor, pageReads, lookups, shown, loading, searchVars,
                 getMessageRequestId, initialMessagesLoaded, firstUnseenMessageState>>
----------------------------------------------------------------------------
Init ==
  /\ stored \in {1..n : n \in 0..MaxClock}
  /\ cursor = NoCursor
  /\ pageReads = {}
  /\ lookups = {}
  /\ unseenAsked = 0
  /\ shown = {}
  /\ loading = FALSE
  /\ messageSearchOngoing = FALSE
  /\ searchedMessageId = NoMessage
  /\ loadingMessagesPerPageFactor = 1
  /\ getMessageRequestId = 0
  /\ initialMessagesLoaded = FALSE
  /\ firstUnseenMessageState =
       [initialized |-> FALSE, fetching |-> FALSE, scrollToWhenFetched |-> FALSE]
  /\ counts = [b \in DOMAIN Bounds |-> 0]

User ==
  \/ \E unviewed \in BOOLEAN : MakeActive(unviewed)
  \/ LoadMoreMessages
  \/ \E m \in MessageId : JumpToMessage(m)
  \/ AddNewMessagesMarker
  \/ HistoryCleared

LookupAnswered == \E lookup \in lookups : GetMessageByIdAnswered(lookup)

UnseenAnswered == \E m \in stored \cup {NoMessage} : FirstUnseenMessageLoaded(m)

PageAnswered == \E limit \in pageReads : PageLoaded(limit)

Failure == FirstUnseenMessageFailed \/ \E limit \in pageReads : PageFailed(limit)

Next == User \/ LookupAnswered \/ UnseenAnswered \/ PageAnswered \/ Failure

Spec == Init /\ [][Next]_vars

\* The pool answers every request it does not fail.
FairSpec ==
  /\ Spec
  /\ WF_vars(LookupAnswered)
  /\ WF_vars(UnseenAnswered)
  /\ WF_vars(PageAnswered)
----------------------------------------------------------------------------
(* Properties *)

(***************************************************************************)
(* A search that goes on has something that will carry it on: its lookup,  *)
(* or a page that will look for the message again.  Failed reads and an    *)
(* empty history are the exceptions: newMessagesLoaded does not look for   *)
(* the message in an empty page, and hears nothing of a failed one.        *)
(***************************************************************************)
SearchGoesOn ==
  messageSearchOngoing /\ counts["failures"] = 0 /\ stored # {} =>
    \/ pageReads # {}
    \/ \E lookup \in lookups : lookup.id = getMessageRequestId

\* A step that ends the search for a message that status-go knows.
EndsSearch ==
  /\ messageSearchOngoing
  /\ ~messageSearchOngoing'
  /\ searchedMessageId \notin Invisible

(***************************************************************************)
(* The search for a message that can be shown is given up only when the    *)
(* whole history is loaded: "If failed to `loadMoreMessages`, then the     *)
(* most recent message is already loaded.  Then message is not found."     *)
(* (messages/module.nim:248).  Neither the answer to another search's      *)
(* lookup nor a page that is still pending ends it.                        *)
(***************************************************************************)
SearchEndsForAReason ==
  [][EndsSearch => /\ searchedMessageId' = NoMessage
                   /\ searchedMessageId \in shown' \/ cursor'.mostRecent]_vars

(***************************************************************************)
(* The larger pages of a search (loadingMessagesPerPageFactor) are asked   *)
(* for by that search alone: as long as the factor is larger, the search   *)
(* goes on or its lookup was refused, and a page is pending or the whole   *)
(* history is loaded, so that a user who scrolls gets none.  A refused     *)
(* lookup ends the search on screen only (messages/module.nim:527): it     *)
(* leaves the id and the factor, and the pages go on looking for the       *)
(* message until the history is at its end.                                *)
(***************************************************************************)
FactorBelongsToSearch ==
  loadingMessagesPerPageFactor > 1 =>
    /\ messageSearchOngoing \/ searchedMessageId \in Invisible
    /\ ~IsFetchable(InitOrGet(cursor))

(***************************************************************************)
(* Every search in a chat that has messages comes to an end                *)
(* (messageSearchOngoing disables a new one), unless a request fails.  In  *)
(* a chat without messages a search whose lookup is answered before the    *)
(* first page goes on for ever: the page is empty and does not look for    *)
(* the message.                                                            *)
(***************************************************************************)
SearchEnds ==
  messageSearchOngoing ~> ~messageSearchOngoing \/ stored = {} \/ counts["failures"] > 0

(***************************************************************************)
(* The loading state, which hides the list and stops scrolling, ends,      *)
(* unless it is that of such a search, a request fails, or a lookup is     *)
(* refused: onGetMessageById does not look at the loading state then.      *)
(***************************************************************************)
LoadingEnds ==
  loading ~> \/ ~loading
             \/ messageSearchOngoing /\ stored = {}
             \/ counts["failures"] > 0
             \/ searchedMessageId \in Invisible
=============================================================================
