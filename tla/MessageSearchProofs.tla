------------------------ MODULE MessageSearchProofs ------------------------
(***************************************************************************)
(* Theorems about MessageSearch, for any length of the history, any ids    *)
(* and any bounds: the safety properties of a search.                      *)
(***************************************************************************)
EXTENDS MessageSearch, FiniteSetTheorems, TLAPS

\* A cursor and its reads: a page is asked for with a cursor and a size.
ReadsOK(cur, reads) ==
  /\ cur \in MessageCursor \cup {NoCursor}
  /\ reads \subseteq Nat \ {0}
  /\ reads # {} => cur # NoCursor

\* Somebody will answer a pending cursor.
Answered(cur, reads) == cur # NoCursor /\ cur.pending => reads # {}

\* A cursor stands on a message, so a page from it down is not empty.
OnMessage(cur, messages) ==
  cur # NoCursor /\ messages # {} => cur.value \in messages \cup {Empty}

\* Nobody can ask for a page: one is pending, or there is none left.
Settled(cur) == ~IsFetchable(InitOrGet(cur))

\* A search has a message it looks for, and a message that is looked for has a
\* search, or its lookup was refused.
SearchHasTarget ==
  /\ messageSearchOngoing => searchedMessageId # NoMessage
  /\ searchedMessageId # NoMessage =>
       messageSearchOngoing \/ searchedMessageId \in Invisible

\* The lookups are numbered in the order of their searches; the current one is
\* that of the search that goes on.
LookupsAreNumbered ==
  /\ getMessageRequestId = counts["lookups"]
  /\ \A l \in lookups :
       /\ l.id <= getMessageRequestId
       /\ l.id = getMessageRequestId /\ messageSearchOngoing => l.target = searchedMessageId

\* The inductive invariant.
IInv ==
  /\ TypeOK
  /\ ReadsOK(cursor, pageReads)
  /\ counts["failures"] = 0 => Answered(cursor, pageReads)
  /\ OnMessage(cursor, stored)
  /\ SearchHasTarget
  /\ LookupsAreNumbered
  /\ FactorBelongsToSearch
  /\ SearchGoesOn

USE MaxClockAssumption, NoCursorAssumption, SearchAssumption

----------------------------------------------------------------------------
(* The operators *)

LEMMA PositionIsId == Position \subseteq MessageId /\ Position \subseteq Nat \ {0}
BY DEF Position, MessageId

LEMMA CursorOf ==
  ASSUME NEW cur \in MessageCursor \cup {NoCursor}
  PROVE  /\ InitOrGet(cur) \in MessageCursor
         /\ InitOrGet(cur).value = IF cur = NoCursor THEN Empty ELSE cur.value
         /\ cur = NoCursor => IsFetchable(InitOrGet(cur)) /\ ~InitOrGet(cur).mostRecent
         /\ cur # NoCursor => InitOrGet(cur) = cur
BY DEF InitOrGet, InitMessageCursor, MessageCursor, CursorValue, IsFetchable

\* A load keeps what is known of the cursor, and is answered if it is not refused.
LEMMA LoadKeeps ==
  ASSUME NEW cur, NEW reads, NEW limit \in Nat \ {0},
         ReadsOK(cur, reads), AsyncLoadMoreMessages(cur, reads, limit), UNCHANGED stored
  PROVE  /\ ReadsOK(cursor', pageReads')
         /\ cursor' # NoCursor
         /\ Settled(cursor')
         /\ OnMessage(cur, stored) => OnMessage(cursor', stored')
         /\ reads \subseteq pageReads'
         /\ Answered(cur, reads) => Answered(cursor', pageReads')
         /\ Answered(cur, reads) /\ ~InitOrGet(cur).mostRecent => pageReads' # {}
<1>1. InitOrGet(cur) \in MessageCursor
  BY CursorOf DEF ReadsOK
<1>2. CASE IsFetchable(InitOrGet(cur))
  <2>1. cursor' = SetPending(InitOrGet(cur)) /\ pageReads' = reads \cup {limit}
    BY <1>2 DEF AsyncLoadMoreMessages
  <2>2. cursor' \in MessageCursor /\ cursor'.value = InitOrGet(cur).value
    BY <1>1, <2>1 DEF SetPending, MessageCursor
  <2>3. limit \in pageReads' /\ pageReads' \subseteq Nat \ {0}
    BY <2>1 DEF ReadsOK
  <2>4. Settled(cursor')
    <3>1. cursor'.pending
      BY <1>1, <2>1 DEF SetPending, MessageCursor
    <3>2. InitOrGet(cursor') = cursor'
      BY <2>2, CursorOf
    <3> QED
      BY <3>1, <3>2 DEF Settled, IsFetchable
  <2> QED
    BY <2>1, <2>2, <2>3, <2>4, CursorOf DEF ReadsOK, OnMessage, Answered
<1>3. CASE ~IsFetchable(InitOrGet(cur))
  <2>1. cursor' = cur /\ cur # NoCursor /\ pageReads' = reads /\ InitOrGet(cur) = cur
    BY <1>3, CursorOf DEF AsyncLoadMoreMessages, ReadsOK
  <2>2. Settled(cursor')
    BY <1>3, <2>1 DEF Settled
  <2> QED
    BY <1>3, <2>1, <2>2 DEF ReadsOK, OnMessage, Answered, IsFetchable
<1> QED
  BY <1>2, <1>3

\* Where a page or a lookup looks for the searched message.
LEMMA CheckKeeps ==
  ASSUME TypeOK, SearchHasTarget, FactorBelongsToSearch, NEW items, NEW cur, NEW reads,
         ReadsOK(cur, reads), CheckIfMessageLoadedAndScroll(items, cur, reads), UNCHANGED stored
  PROVE  /\ ReadsOK(cursor', pageReads')
         /\ OnMessage(cur, stored) => OnMessage(cursor', stored')
         /\ Answered(cur, reads) => Answered(cursor', pageReads')
         /\ Answered(cur, reads) /\ messageSearchOngoing' => pageReads' # {}
         /\ searchedMessageId' \in MessageId \cup {NoMessage}
         /\ loadingMessagesPerPageFactor' \in Nat \ {0}
         /\ messageSearchOngoing' \in BOOLEAN
         /\ FactorBelongsToSearch'
         /\ messageSearchOngoing' => messageSearchOngoing /\ UNCHANGED searchedMessageId
         /\ SearchHasTarget'
         /\ messageSearchOngoing /\ ~messageSearchOngoing' =>
              /\ searchedMessageId' = NoMessage
              /\ searchedMessageId \in items \/ cursor'.mostRecent
<1>0. /\ searchedMessageId \in MessageId \cup {NoMessage}
      /\ loadingMessagesPerPageFactor \in Nat \ {0}
      /\ messageSearchOngoing \in BOOLEAN
  BY DEF TypeOK
<1>1. CASE searchedMessageId \notin items \cup {NoMessage} /\ ~InitOrGet(cur).mostRecent
  <2>1. SearchFurther(cur, reads)
    BY <1>1 DEF CheckIfMessageLoadedAndScroll
  <2>2. /\ UNCHANGED <<searchedMessageId, messageSearchOngoing>>
        /\ loadingMessagesPerPageFactor' \in Nat \ {0}
    BY <1>0, <2>1 DEF SearchFurther
  <2>3. AsyncLoadMoreMessages(cur, reads, loadingMessagesPerPageFactor')
    BY <2>1 DEF SearchFurther
  <2>4. /\ ReadsOK(cursor', pageReads')
        /\ OnMessage(cur, stored) => OnMessage(cursor', stored')
        /\ Answered(cur, reads) => Answered(cursor', pageReads')
        /\ Answered(cur, reads) => pageReads' # {}
        /\ Settled(cursor')
    BY <1>1, <2>2, <2>3, LoadKeeps
  <2>5. FactorBelongsToSearch' /\ SearchHasTarget'
    BY <1>1, <2>2, <2>4 DEF FactorBelongsToSearch, SearchHasTarget, Settled
  <2> QED
    BY <1>0, <1>1, <2>2, <2>4, <2>5
<1>2. CASE ~(searchedMessageId \notin items \cup {NoMessage} /\ ~InitOrGet(cur).mostRecent)
  <2>1. /\ cursor' = cur /\ pageReads' = reads
        /\ IF searchedMessageId = NoMessage THEN UNCHANGED searchVars ELSE EndSearch
    BY <1>2 DEF CheckIfMessageLoadedAndScroll
  <2>2. OnMessage(cur, stored) => OnMessage(cursor', stored')
    BY <2>1 DEF OnMessage
  <2>3. CASE searchedMessageId = NoMessage
    <3>1. NoMessage \notin Invisible
      BY DEF MessageId
    <3>2. ~(loadingMessagesPerPageFactor > 1)
      BY <2>3, <3>1 DEF FactorBelongsToSearch, SearchHasTarget
    <3>3. FactorBelongsToSearch' /\ SearchHasTarget'
      BY <2>1, <2>3, <3>2 DEF searchVars, FactorBelongsToSearch, SearchHasTarget
    <3> QED
      BY <1>0, <2>1, <2>2, <2>3, <3>3 DEF searchVars, SearchHasTarget
  <2>4. CASE searchedMessageId # NoMessage
    <3>1. EndSearch
      BY <2>1, <2>4
    <3>2. searchedMessageId \in items \/ cursor'.mostRecent
      BY <1>2, <2>1, <2>4, CursorOf DEF ReadsOK
    <3>3. /\ searchedMessageId' = NoMessage /\ loadingMessagesPerPageFactor' = 1
          /\ messageSearchOngoing' = FALSE
      BY <3>1 DEF EndSearch
    <3>6. ~messageSearchOngoing' /\ messageSearchOngoing' \in BOOLEAN
          /\ searchedMessageId' \in MessageId \cup {NoMessage}
      BY <3>3, Zenon
    <3>7. loadingMessagesPerPageFactor' \in Nat \ {0}
      BY <3>3
    <3>4. FactorBelongsToSearch' /\ SearchHasTarget'
      BY <3>3 DEF FactorBelongsToSearch, SearchHasTarget
    <3>5. ReadsOK(cursor', pageReads') /\ (Answered(cur, reads) => Answered(cursor', pageReads'))
      BY <2>1
    <3> QED
      BY <2>2, <3>2, <3>3, <3>4, <3>5, <3>6, <3>7, Zenon
  <2> QED
    BY <2>3, <2>4
<1> QED
  BY <1>1, <1>2

\* A counted event.
LEMMA CountKeeps ==
  ASSUME TypeOK, NEW what \in DOMAIN Bounds, Count(what)
  PROVE  /\ counts' \in [DOMAIN Bounds -> Nat]
         /\ counts'[what] = counts[what] + 1
         /\ \A other \in DOMAIN Bounds \ {what} : counts'[other] = counts[other]
BY DEF TypeOK, Count

\* A search is started, or not: the new lookup has a new number.
LEMMA ScrollKeeps ==
  ASSUME TypeOK, SearchHasTarget, LookupsAreNumbered, FactorBelongsToSearch,
         NEW m \in MessageId \cup {NoMessage}, ScrollToMessage(m), UNCHANGED cursor
  PROVE  /\ lookups' \subseteq [id : Nat, target : MessageId]
         /\ getMessageRequestId' \in Nat
         /\ counts' \in [DOMAIN Bounds -> Nat]
         /\ counts'["failures"] = counts["failures"]
         /\ searchedMessageId' \in MessageId \cup {NoMessage}
         /\ messageSearchOngoing' \in BOOLEAN
         /\ UNCHANGED loadingMessagesPerPageFactor
         /\ FactorBelongsToSearch' /\ SearchHasTarget' /\ LookupsAreNumbered'
         /\ messageSearchOngoing => UNCHANGED <<messageSearchOngoing, lookups, getMessageRequestId>>
         /\ ~messageSearchOngoing /\ messageSearchOngoing' =>
              \E lookup \in lookups' : lookup.id = getMessageRequestId'
<1>1. CASE m = NoMessage \/ messageSearchOngoing
  <2>1. UNCHANGED <<searchVars, lookups, getMessageRequestId, counts>>
    BY <1>1 DEF ScrollToMessage
  <2> QED
    BY <2>1 DEF searchVars, TypeOK, SearchHasTarget, LookupsAreNumbered, FactorBelongsToSearch
<1>2. CASE ~(m = NoMessage \/ messageSearchOngoing)
  <2> DEFINE new == [id |-> getMessageRequestId', target |-> m]
  <2>1. /\ Count("lookups")
        /\ getMessageRequestId' = counts'["lookups"]
        /\ lookups' = lookups \cup {new}
        /\ searchedMessageId' = m /\ m \in MessageId /\ m # NoMessage
        /\ messageSearchOngoing' = TRUE
        /\ UNCHANGED loadingMessagesPerPageFactor
    BY <1>2 DEF ScrollToMessage
  <2>2. {"lookups", "failures"} \subseteq DOMAIN Bounds
    BY DEF Bounds
  <2>3. /\ counts' \in [DOMAIN Bounds -> Nat]
        /\ counts'["lookups"] = counts["lookups"] + 1
        /\ counts'["failures"] = counts["failures"]
    BY <2>1, <2>2, CountKeeps
  <2>4. /\ getMessageRequestId \in Nat
        /\ getMessageRequestId' = getMessageRequestId + 1
    BY <2>1, <2>3 DEF LookupsAreNumbered, TypeOK
  <2>5. new \in [id : Nat, target : MessageId] /\ lookups' \subseteq [id : Nat, target : MessageId]
    BY <2>1, <2>4 DEF TypeOK
  <2>6. ASSUME NEW l \in lookups'
        PROVE  /\ l.id <= getMessageRequestId'
               /\ l.id = getMessageRequestId' => l.target = searchedMessageId'
    <3>1. CASE l = new
      BY <2>1, <2>4, <3>1
    <3>2. CASE l \in lookups
      <4>1. l.id \in Nat /\ l.id <= getMessageRequestId
        BY <3>2 DEF LookupsAreNumbered, TypeOK
      <4> QED
        BY <2>4, <4>1
    <3> QED
      BY <2>1, <3>1, <3>2
  <2>7. LookupsAreNumbered'
    BY <2>1, <2>6 DEF LookupsAreNumbered
  <2>8. new \in lookups' /\ new.id = getMessageRequestId'
    BY <2>1
  <2>9. FactorBelongsToSearch' /\ SearchHasTarget'
    BY <2>1 DEF FactorBelongsToSearch, SearchHasTarget
  <2> QED
    BY <1>2, <2>1, <2>3, <2>4, <2>5, <2>7, <2>8, <2>9
<1> QED
  BY <1>1, <1>2
----------------------------------------------------------------------------
(* The steps *)

LEMMA InitHolds == Init => IInv
<1> SUFFICES ASSUME Init
             PROVE  IInv
  OBVIOUS
<1>1. stored \subseteq Position
  BY DEF Init, Position
<1>2. TypeOK
  <2>1. {loading, messageSearchOngoing, initialMessagesLoaded} \subseteq BOOLEAN
    BY DEF Init
  <2>2. firstUnseenMessageState \in
          [initialized : BOOLEAN, fetching : BOOLEAN, scrollToWhenFetched : BOOLEAN]
    BY DEF Init
  <2>3. counts \in [DOMAIN Bounds -> Nat]
    BY DEF Init
  <2>4. /\ pageReads \subseteq Nat /\ lookups \subseteq [id : Nat, target : MessageId]
        /\ shown \subseteq Position /\ cursor \in MessageCursor \cup {NoCursor}
    BY DEF Init
  <2> QED
    BY <1>1, <2>1, <2>2, <2>3, <2>4 DEF Init, TypeOK
<1>3. ReadsOK(cursor, pageReads) /\ Answered(cursor, pageReads) /\ OnMessage(cursor, stored)
  BY DEF Init, ReadsOK, Answered, OnMessage
<1>4. SearchHasTarget /\ FactorBelongsToSearch /\ SearchGoesOn
  BY DEF Init, SearchHasTarget, FactorBelongsToSearch, SearchGoesOn
<1>5. LookupsAreNumbered
  BY DEF Init, LookupsAreNumbered, Bounds
<1> QED
  BY <1>2, <1>3, <1>4, <1>5 DEF IInv

LEMMA LoadingIsBoolean ==
  ASSUME ReevaluateViewLoadingState
  PROVE  loading' \in BOOLEAN
BY DEF ReevaluateViewLoadingState

\* The question for the first unseen message is counted like a lookup.
LEMMA AskKeeps ==
  ASSUME TypeOK, NEW scroll \in BOOLEAN, AskFirstUnseen(scroll)
  PROVE  /\ unseenAsked' \in Nat
         /\ firstUnseenMessageState' \in
              [initialized : BOOLEAN, fetching : BOOLEAN, scrollToWhenFetched : BOOLEAN]
         /\ counts' \in [DOMAIN Bounds -> Nat]
         /\ counts'["lookups"] = counts["lookups"] /\ counts'["failures"] = counts["failures"]
<1>1. Count("unseen") /\ {"unseen", "lookups", "failures"} \subseteq DOMAIN Bounds
  BY DEF AskFirstUnseen, Bounds
<1>2. /\ counts' \in [DOMAIN Bounds -> Nat]
      /\ counts'["lookups"] = counts["lookups"] /\ counts'["failures"] = counts["failures"]
  BY <1>1, CountKeeps
<1>3. /\ unseenAsked' = unseenAsked + 1 /\ unseenAsked \in Nat
      /\ firstUnseenMessageState' = [firstUnseenMessageState EXCEPT
                                       !.fetching = TRUE, !.scrollToWhenFetched = scroll]
      /\ firstUnseenMessageState \in
           [initialized : BOOLEAN, fetching : BOOLEAN, scrollToWhenFetched : BOOLEAN]
  BY DEF AskFirstUnseen, TypeOK
<1>4. firstUnseenMessageState' \in
        [initialized : BOOLEAN, fetching : BOOLEAN, scrollToWhenFetched : BOOLEAN]
  BY <1>3, Zenon
<1> QED
  BY <1>2, <1>3, <1>4

\* What a step that leaves the search alone keeps of it.
LEMMA SearchUntouched ==
  ASSUME IInv, UNCHANGED <<searchVars, lookups, getMessageRequestId>>,
         counts'["lookups"] = counts["lookups"], Settled(cursor) => Settled(cursor')
  PROVE  SearchHasTarget' /\ LookupsAreNumbered' /\ FactorBelongsToSearch'
BY DEF IInv, searchVars, SearchHasTarget, LookupsAreNumbered, FactorBelongsToSearch, Settled

\* A search that is still going on keeps what carries it on.
LEMMA CarriedOn ==
  ASSUME SearchGoesOn, UNCHANGED <<stored, lookups, getMessageRequestId, messageSearchOngoing>>,
         counts'["failures"] = counts["failures"], pageReads \subseteq pageReads'
  PROVE  SearchGoesOn'
BY DEF SearchGoesOn

LEMMA MakeActiveKeeps ==
  ASSUME IInv, NEW unviewed \in BOOLEAN, MakeActive(unviewed)
  PROVE  IInv'
<1> USE DEF MakeActive
<1>1. /\ unseenAsked' \in Nat
      /\ firstUnseenMessageState' \in
           [initialized : BOOLEAN, fetching : BOOLEAN, scrollToWhenFetched : BOOLEAN]
      /\ counts' \in [DOMAIN Bounds -> Nat]
      /\ counts'["lookups"] = counts["lookups"] /\ counts'["failures"] = counts["failures"]
  <2>1. CASE AskFirstUnseen(TRUE)
    BY <2>1, AskKeeps DEF IInv
  <2>2. CASE UNCHANGED <<unseenAsked, firstUnseenMessageState, counts>>
    BY <2>2 DEF IInv, TypeOK
  <2> QED
    BY <2>1, <2>2
<1>2. UNCHANGED <<stored, lookups, getMessageRequestId>> /\ loading' \in BOOLEAN
  BY LoadingIsBoolean
<1>3. /\ ReadsOK(cursor', pageReads') /\ OnMessage(cursor', stored')
      /\ Answered(cursor, pageReads) => Answered(cursor', pageReads')
      /\ pageReads \subseteq pageReads'
      /\ Settled(cursor) => Settled(cursor')
      /\ UNCHANGED searchVars
      /\ shown' \subseteq Position /\ initialMessagesLoaded' \in BOOLEAN
  <2>1. CASE cursor = NoCursor
    <3>1. /\ AsyncLoadMoreMessages(cursor, pageReads, 1)
          /\ UNCHANGED <<shown, searchVars, initialMessagesLoaded>>
      BY <2>1
    <3>2. shown' \subseteq Position /\ initialMessagesLoaded' \in BOOLEAN
      BY <3>1 DEF IInv, TypeOK
    <3> QED
      BY <1>2, <3>1, <3>2, LoadKeeps DEF IInv
  <2>2. CASE cursor # NoCursor
    <3>1. NewMessagesLoaded({}, cursor, pageReads)
      BY <2>2
    <3>2. UNCHANGED <<cursor, pageReads, searchVars>> /\ shown' = shown
          /\ initialMessagesLoaded' = TRUE
      BY <3>1 DEF NewMessagesLoaded
    <3> QED
      BY <1>2, <3>2 DEF IInv, TypeOK
  <2> QED
    BY <2>1, <2>2
<1> HIDE DEF MakeActive
<1>4. TypeOK'
  BY <1>1, <1>2, <1>3 DEF IInv, TypeOK, ReadsOK, searchVars
<1>5. SearchHasTarget' /\ LookupsAreNumbered' /\ FactorBelongsToSearch' /\ SearchGoesOn'
  BY <1>1, <1>2, <1>3, SearchUntouched, CarriedOn DEF IInv, searchVars
<1> QED
  BY <1>1, <1>3, <1>4, <1>5 DEF IInv

LEMMA LoadMoreMessagesKeeps ==
  ASSUME IInv, LoadMoreMessages
  PROVE  IInv'
<1>1. /\ AsyncLoadMoreMessages(cursor, pageReads, loadingMessagesPerPageFactor)
      /\ UNCHANGED <<stored, lookups, unseenAsked, shown, loading, searchVars,
                     getMessageRequestId, initialMessagesLoaded,
                     firstUnseenMessageState, counts>>
  BY DEF LoadMoreMessages
<1>2. loadingMessagesPerPageFactor \in Nat \ {0} /\ ReadsOK(cursor, pageReads)
  BY DEF IInv, TypeOK
<1>3. /\ ReadsOK(cursor', pageReads') /\ OnMessage(cursor', stored')
      /\ Answered(cursor, pageReads) => Answered(cursor', pageReads')
      /\ pageReads \subseteq pageReads'
      /\ Settled(cursor')
  BY <1>1, <1>2, LoadKeeps DEF IInv
<1>4. TypeOK'
  BY <1>1, <1>3 DEF IInv, TypeOK, ReadsOK, searchVars
<1>5. SearchHasTarget' /\ LookupsAreNumbered' /\ FactorBelongsToSearch' /\ SearchGoesOn'
  BY <1>1, <1>3, SearchUntouched, CarriedOn DEF IInv, searchVars
<1> QED
  BY <1>1, <1>3, <1>4, <1>5 DEF IInv

\* A search that is started is carried on by its lookup.
LEMMA StartedGoesOn ==
  ASSUME SearchGoesOn, counts'["failures"] = counts["failures"], UNCHANGED <<stored, pageReads>>,
         messageSearchOngoing => UNCHANGED <<messageSearchOngoing, lookups, getMessageRequestId>>,
         ~messageSearchOngoing /\ messageSearchOngoing' =>
           \E lookup \in lookups' : lookup.id = getMessageRequestId'
  PROVE  SearchGoesOn'
BY DEF SearchGoesOn

LEMMA JumpToMessageKeeps ==
  ASSUME IInv, NEW m \in MessageId, JumpToMessage(m)
  PROVE  IInv'
<1>1. /\ ScrollToMessage(m)
      /\ UNCHANGED <<stored, cursor, pageReads, unseenAsked, shown, loading,
                     initialMessagesLoaded, firstUnseenMessageState>>
  BY DEF JumpToMessage
<1>2. TypeOK'
  BY <1>1, ScrollKeeps DEF IInv, TypeOK
<1>3. SearchHasTarget' /\ LookupsAreNumbered' /\ FactorBelongsToSearch'
      /\ counts'["failures"] = counts["failures"]
  BY <1>1, ScrollKeeps DEF IInv
<1>4. SearchGoesOn'
  BY <1>1, <1>3, ScrollKeeps, StartedGoesOn DEF IInv
<1> QED
  BY <1>1, <1>2, <1>3, <1>4 DEF IInv

LEMMA AddNewMessagesMarkerKeeps ==
  ASSUME IInv, AddNewMessagesMarker
  PROVE  IInv'
<1>1. /\ AskFirstUnseen(FALSE)
      /\ UNCHANGED <<stored, cursor, pageReads, lookups, shown, loading, searchVars,
                     getMessageRequestId, initialMessagesLoaded>>
  BY DEF AddNewMessagesMarker
<1>2. TypeOK' /\ counts'["failures"] = counts["failures"] /\ counts'["lookups"] = counts["lookups"]
  BY <1>1, AskKeeps DEF IInv, TypeOK, searchVars
<1>3. SearchHasTarget' /\ LookupsAreNumbered' /\ FactorBelongsToSearch' /\ SearchGoesOn'
  BY <1>1, <1>2, SearchUntouched, CarriedOn DEF IInv, searchVars, Settled
<1> QED
  BY <1>1, <1>2, <1>3 DEF IInv

LEMMA HistoryClearedKeeps ==
  ASSUME IInv, HistoryCleared
  PROVE  IInv'
<1>1. /\ Count("clears") /\ stored' = {} /\ shown' = {}
      /\ UNCHANGED <<cursor, pageReads, lookups, unseenAsked, loading, searchVars,
                     getMessageRequestId, initialMessagesLoaded, firstUnseenMessageState>>
  BY DEF HistoryCleared
<1>2. {"clears", "failures", "lookups"} \subseteq DOMAIN Bounds
  BY DEF Bounds
<1>3. counts' \in [DOMAIN Bounds -> Nat] /\ counts'["lookups"] = counts["lookups"]
      /\ counts'["failures"] = counts["failures"]
  BY <1>1, <1>2, CountKeeps DEF IInv
<1>4. TypeOK'
  BY <1>1, <1>3 DEF IInv, TypeOK, searchVars
<1>5. SearchHasTarget' /\ LookupsAreNumbered' /\ FactorBelongsToSearch'
  BY <1>1, <1>3, SearchUntouched DEF Settled
<1> QED
  BY <1>1, <1>3, <1>4, <1>5 DEF IInv, OnMessage, SearchGoesOn

\* What SearchEndsForAReason says of one step.
EndsForAReason ==
  EndsSearch => /\ searchedMessageId' = NoMessage
                /\ searchedMessageId \in shown' \/ cursor'.mostRecent

LEMMA PageIsNotEmpty ==
  ASSUME NEW candidates \in SUBSET Position, candidates # {}, NEW limit \in Nat \ {0},
         NEW next \in NextPositions(candidates, limit)
  PROVE  {m \in candidates : m > next} # {}
<1>1. CASE next = Empty
  <2>1. PICK m \in candidates : TRUE
    OBVIOUS
  <2>2. m > next
    BY <1>1, <2>1, PositionIsId DEF Empty
  <2> QED
    BY <2>1, <2>2
<1>2. CASE next # Empty
  <2>1. Cardinality({m \in candidates : m > next}) = limit
    BY <1>2 DEF NextPositions
  <2> QED
    BY <2>1, FS_EmptySet
<1> QED
  BY <1>1, <1>2

LEMMA PageLoadedKeeps ==
  ASSUME IInv, NEW limit \in pageReads, PageLoaded(limit)
  PROVE  IInv' /\ EndsForAReason
<1> DEFINE candidates == {m \in stored : cursor.value = Empty \/ m <= cursor.value}
           cur(next) == SetValue(cursor, next)
           reads == pageReads \ {limit}
           page(next) == {m \in candidates : m > next}
<1>1. /\ cursor \in MessageCursor /\ cursor # NoCursor /\ limit \in Nat \ {0}
      /\ stored \subseteq Position
  BY DEF IInv, ReadsOK, TypeOK
<1>2. PICK next \in NextPositions(candidates, limit) : NewMessagesLoaded(page(next), cur(next), reads)
  BY DEF PageLoaded
<1>3. /\ UNCHANGED <<firstUnseenMessageState, stored, lookups, unseenAsked,
                     getMessageRequestId, counts>>
      /\ loading' \in BOOLEAN
  BY LoadingIsBoolean DEF PageLoaded
<1>4. next \in stored \cup {Empty} /\ next \in CursorValue
  BY <1>1 DEF NextPositions, CursorValue
<1>5. /\ cur(next) \in MessageCursor /\ cur(next).pending = FALSE
      /\ cur(next).value \in {next, cursor.value}
  BY <1>1, <1>4 DEF SetValue, MessageCursor
<1>6. /\ ReadsOK(cur(next), reads) /\ Answered(cur(next), reads)
      /\ OnMessage(cur(next), stored)
  <2>1. ReadsOK(cur(next), reads)
    BY <1>5 DEF IInv, ReadsOK
  <2>2. Answered(cur(next), reads)
    BY <1>5, Zenon DEF Answered
  <2> QED
    BY <1>1, <1>4, <1>5, <2>1, <2>2 DEF IInv, OnMessage
<1>7. stored # {} => page(next) # {}
  <2> SUFFICES ASSUME stored # {}
               PROVE  page(next) # {}
    OBVIOUS
  <2>1. PICK m \in stored : cursor.value = Empty \/ m = cursor.value
    BY <1>1 DEF IInv, OnMessage
  <2>2. m \in candidates
    BY <1>1, <2>1, PositionIsId
  <2>3. candidates \in SUBSET Position /\ candidates # {}
    BY <1>1, <2>2
  <2> HIDE DEF candidates
  <2> QED
    BY <1>1, <2>3, PageIsNotEmpty
<1>8. shown' \subseteq Position /\ initialMessagesLoaded' \in BOOLEAN /\ shown' = shown \cup page(next)
  BY <1>1, <1>2 DEF NewMessagesLoaded, IInv, TypeOK
<1> HIDE DEF candidates, cur, reads, page
<1>9. CASE page(next) = {}
  <2>1. cursor' = cur(next) /\ pageReads' = reads /\ UNCHANGED searchVars
    BY <1>2, <1>9 DEF NewMessagesLoaded
  <2>2. TypeOK'
    BY <1>3, <1>5, <1>6, <1>8, <2>1 DEF IInv, TypeOK, ReadsOK, searchVars
  <2>5. Settled(cursor')
    <3>1. stored = {}
      BY <1>7, <1>9
    <3>2. candidates = {}
      BY <3>1 DEF candidates
    <3>3. next = Empty
      BY <1>1, <1>2, <3>2, FS_EmptySet DEF NextPositions
    <3>4. cur(next).mostRecent
      BY <1>1, <3>3 DEF cur, SetValue, MessageCursor
    <3>5. InitOrGet(cursor') = cursor'
      BY <1>5, <2>1, CursorOf
    <3> QED
      BY <2>1, <3>4, <3>5 DEF Settled, IsFetchable
  <2>3. SearchHasTarget' /\ LookupsAreNumbered' /\ FactorBelongsToSearch'
    BY <1>3, <2>1, <2>5, SearchUntouched
  <2>4. SearchGoesOn' /\ EndsForAReason
    BY <1>3, <1>7, <1>9, <2>1 DEF SearchGoesOn, EndsForAReason, EndsSearch, searchVars
  <2> QED
    BY <1>3, <1>6, <2>1, <2>2, <2>3, <2>4 DEF IInv
<1>10. CASE page(next) # {}
  <2>1. CheckIfMessageLoadedAndScroll(shown', cur(next), reads)
    BY <1>2, <1>10 DEF NewMessagesLoaded
  <2>2. /\ ReadsOK(cursor', pageReads') /\ OnMessage(cursor', stored')
        /\ Answered(cursor', pageReads')
        /\ messageSearchOngoing' => pageReads' # {}
        /\ searchedMessageId' \in MessageId \cup {NoMessage}
        /\ loadingMessagesPerPageFactor' \in Nat \ {0}
        /\ messageSearchOngoing' \in BOOLEAN
        /\ FactorBelongsToSearch'
        /\ messageSearchOngoing' => messageSearchOngoing /\ UNCHANGED searchedMessageId
        /\ SearchHasTarget'
        /\ messageSearchOngoing /\ ~messageSearchOngoing' =>
             /\ searchedMessageId' = NoMessage
             /\ searchedMessageId \in shown' \/ cursor'.mostRecent
    BY <1>3, <1>6, <2>1, CheckKeeps DEF IInv
  <2>3. TypeOK'
    BY <1>3, <1>8, <2>2 DEF IInv, TypeOK, ReadsOK
  <2>4. LookupsAreNumbered'
    BY <1>3, <2>2 DEF IInv, LookupsAreNumbered
  <2>5. SearchGoesOn' /\ EndsForAReason
    BY <2>2 DEF SearchGoesOn, EndsForAReason, EndsSearch
  <2> QED
    BY <2>2, <2>3, <2>4, <2>5 DEF IInv
<1> QED
  BY <1>9, <1>10

\* A failure is counted, and takes the promise back that a search goes on.
LEMMA FailureKeeps ==
  ASSUME IInv, Count("failures"),
         UNCHANGED <<stored, cursor, lookups, shown, loading, searchVars, getMessageRequestId,
                     initialMessagesLoaded, firstUnseenMessageState>>,
         pageReads' \subseteq pageReads, unseenAsked' \in Nat
  PROVE  IInv' /\ EndsForAReason
<1>1. {"failures", "lookups"} \subseteq DOMAIN Bounds
  BY DEF Bounds
<1>2. /\ counts' \in [DOMAIN Bounds -> Nat] /\ counts'["lookups"] = counts["lookups"]
      /\ counts'["failures"] > 0
  <2>1. counts["failures"] \in Nat
    BY <1>1 DEF IInv, TypeOK
  <2> QED
    BY <1>1, <2>1, CountKeeps DEF IInv
<1>3. TypeOK'
  BY <1>2 DEF IInv, TypeOK, searchVars
<1>4. SearchHasTarget' /\ LookupsAreNumbered' /\ FactorBelongsToSearch'
  BY <1>2, SearchUntouched DEF Settled
<1>5. ReadsOK(cursor', pageReads') /\ OnMessage(cursor', stored')
  BY DEF IInv, ReadsOK
<1>6. SearchGoesOn' /\ EndsForAReason
  BY <1>2 DEF SearchGoesOn, EndsForAReason, EndsSearch, searchVars
<1> QED
  BY <1>2, <1>3, <1>4, <1>5, <1>6 DEF IInv

LEMMA GetMessageByIdAnsweredKeeps ==
  ASSUME IInv, NEW lookup \in lookups, GetMessageByIdAnswered(lookup)
  PROVE  IInv' /\ EndsForAReason
<1>1. /\ lookups' = lookups \ {lookup}
      /\ UNCHANGED <<stored, unseenAsked, shown, getMessageRequestId,
                     initialMessagesLoaded, firstUnseenMessageState, counts>>
  BY DEF GetMessageByIdAnswered
<1>2. CASE ~IsCurrentLookup(lookup) /\ UNCHANGED <<cursor, pageReads, searchVars, loading>>
  <2>1. TypeOK'
    BY <1>1, <1>2 DEF IInv, TypeOK, searchVars
  <2>2. SearchHasTarget' /\ FactorBelongsToSearch' /\ LookupsAreNumbered'
    BY <1>1, <1>2 DEF IInv, SearchHasTarget, FactorBelongsToSearch, LookupsAreNumbered, searchVars
  <2>3. SearchGoesOn' /\ EndsForAReason
    BY <1>1, <1>2 DEF IInv, SearchGoesOn, EndsForAReason, EndsSearch, IsCurrentLookup, searchVars
  <2> QED
    BY <1>1, <1>2, <2>1, <2>2, <2>3 DEF IInv
<1>3. CASE /\ IsCurrentLookup(lookup) /\ lookup.target \in Invisible
           /\ messageSearchOngoing' = FALSE
           /\ UNCHANGED <<cursor, pageReads, searchedMessageId,
                          loadingMessagesPerPageFactor, loading>>
  <2>1. TypeOK'
    <3>1. {loading', messageSearchOngoing', initialMessagesLoaded'} \subseteq BOOLEAN
      BY <1>1, <1>3 DEF IInv, TypeOK
    <3> QED
      BY <1>1, <1>3, <3>1 DEF IInv, TypeOK
  <2>4. SearchHasTarget' /\ FactorBelongsToSearch'
    <3>1. messageSearchOngoing => searchedMessageId \in Invisible
      BY <1>3 DEF IInv, LookupsAreNumbered, IsCurrentLookup
    <3> QED
      BY <1>3, <3>1 DEF IInv, SearchHasTarget, FactorBelongsToSearch
  <2>2. SearchHasTarget' /\ FactorBelongsToSearch' /\ LookupsAreNumbered' /\ SearchGoesOn'
    BY <1>1, <1>3, <2>4 DEF IInv, LookupsAreNumbered, SearchGoesOn
  <2>3. EndsForAReason
    BY <1>3 DEF IInv, LookupsAreNumbered, IsCurrentLookup, EndsForAReason, EndsSearch
  <2> QED
    BY <1>1, <1>3, <2>1, <2>2, <2>3 DEF IInv
<1>4. CASE /\ IsCurrentLookup(lookup) /\ lookup.target \notin Invisible
           /\ CheckIfMessageLoadedAndScroll(shown, cursor, pageReads)
           /\ ReevaluateViewLoadingState
  <2>1. /\ ReadsOK(cursor', pageReads') /\ OnMessage(cursor', stored')
        /\ Answered(cursor, pageReads) => Answered(cursor', pageReads')
        /\ Answered(cursor, pageReads) /\ messageSearchOngoing' => pageReads' # {}
        /\ searchedMessageId' \in MessageId \cup {NoMessage}
        /\ loadingMessagesPerPageFactor' \in Nat \ {0}
        /\ messageSearchOngoing' \in BOOLEAN
        /\ FactorBelongsToSearch'
        /\ messageSearchOngoing' => messageSearchOngoing /\ UNCHANGED searchedMessageId
        /\ SearchHasTarget'
        /\ messageSearchOngoing /\ ~messageSearchOngoing' =>
             /\ searchedMessageId' = NoMessage
             /\ searchedMessageId \in shown \/ cursor'.mostRecent
    BY <1>1, <1>4, CheckKeeps DEF IInv
  <2>2. TypeOK'
    <3>1. loading' \in BOOLEAN
      BY <1>4, LoadingIsBoolean
    <3> QED
      BY <1>1, <2>1, <3>1 DEF IInv, TypeOK, ReadsOK
  <2>3. LookupsAreNumbered'
    BY <1>1, <2>1 DEF IInv, LookupsAreNumbered
  <2>4. SearchGoesOn' /\ EndsForAReason
    BY <1>1, <2>1 DEF IInv, SearchGoesOn, EndsForAReason, EndsSearch
  <2> QED
    BY <1>1, <2>1, <2>2, <2>3, <2>4 DEF IInv
<1> QED
  BY <1>2, <1>3, <1>4 DEF GetMessageByIdAnswered

LEMMA FirstUnseenMessageLoadedKeeps ==
  ASSUME IInv, NEW m \in stored \cup {NoMessage}, FirstUnseenMessageLoaded(m)
  PROVE  IInv' /\ EndsForAReason
<1>1. /\ unseenAsked > 0 /\ unseenAsked' = unseenAsked - 1
      /\ firstUnseenMessageState' = [firstUnseenMessageState EXCEPT
                                       !.initialized = TRUE, !.fetching = FALSE]
      /\ UNCHANGED <<initialMessagesLoaded, stored, cursor, pageReads, shown>>
      /\ loading' \in BOOLEAN
  BY LoadingIsBoolean DEF FirstUnseenMessageLoaded
<1>2. /\ unseenAsked' \in Nat
      /\ firstUnseenMessageState' \in
           [initialized : BOOLEAN, fetching : BOOLEAN, scrollToWhenFetched : BOOLEAN]
  <2>1. unseenAsked' \in Nat
    BY <1>1 DEF IInv, TypeOK
  <2>2. firstUnseenMessageState \in
          [initialized : BOOLEAN, fetching : BOOLEAN, scrollToWhenFetched : BOOLEAN]
    BY DEF IInv, TypeOK
  <2>3. firstUnseenMessageState' \in
          [initialized : BOOLEAN, fetching : BOOLEAN, scrollToWhenFetched : BOOLEAN]
    BY <1>1, <2>2, Zenon
  <2> QED
    BY <2>1, <2>3
<1>3. CASE ScrollToMessage(m)
  <2>1. m \in MessageId \cup {NoMessage}
    BY PositionIsId DEF IInv, TypeOK
  <2>2. TypeOK'
    BY <1>1, <1>2, <1>3, <2>1, ScrollKeeps DEF IInv, TypeOK
  <2>3. SearchHasTarget' /\ LookupsAreNumbered' /\ FactorBelongsToSearch'
        /\ counts'["failures"] = counts["failures"]
    BY <1>1, <1>3, <2>1, ScrollKeeps DEF IInv
  <2>4. messageSearchOngoing => UNCHANGED messageSearchOngoing
    BY <1>1, <1>3, <2>1, ScrollKeeps DEF IInv
  <2>5. SearchGoesOn'
    BY <1>1, <1>3, <2>1, <2>3, ScrollKeeps, StartedGoesOn DEF IInv
  <2> QED
    BY <1>1, <2>2, <2>3, <2>4, <2>5 DEF IInv, EndsForAReason, EndsSearch
<1>4. CASE UNCHANGED <<searchVars, lookups, getMessageRequestId, counts>>
  <2>1. TypeOK'
    BY <1>1, <1>2, <1>4 DEF IInv, TypeOK, searchVars
  <2>2. SearchHasTarget' /\ LookupsAreNumbered' /\ FactorBelongsToSearch' /\ SearchGoesOn'
    BY <1>1, <1>4, SearchUntouched, CarriedOn DEF IInv, searchVars, Settled
  <2> QED
    BY <1>1, <1>4, <2>1, <2>2 DEF IInv, EndsForAReason, EndsSearch, searchVars
<1> QED
  BY <1>3, <1>4 DEF FirstUnseenMessageLoaded
----------------------------------------------------------------------------
LEMMA UserKeeps ==
  ASSUME IInv, User
  PROVE  IInv' /\ EndsForAReason
<1>1. CASE \E unviewed \in BOOLEAN : MakeActive(unviewed)
  <2>1. PICK unviewed \in BOOLEAN : MakeActive(unviewed)
    BY <1>1
  <2>2. messageSearchOngoing' = messageSearchOngoing
    BY <2>1 DEF MakeActive, NewMessagesLoaded, searchVars
  <2> QED
    BY <2>1, <2>2, MakeActiveKeeps DEF EndsForAReason, EndsSearch
<1>2. CASE LoadMoreMessages
  BY <1>2, LoadMoreMessagesKeeps DEF LoadMoreMessages, EndsForAReason, EndsSearch, searchVars
<1>3. CASE \E m \in MessageId : JumpToMessage(m)
  BY <1>3, JumpToMessageKeeps DEF JumpToMessage, EndsForAReason, EndsSearch
<1>4. CASE AddNewMessagesMarker
  BY <1>4, AddNewMessagesMarkerKeeps
     DEF AddNewMessagesMarker, EndsForAReason, EndsSearch, searchVars
<1>5. CASE HistoryCleared
  BY <1>5, HistoryClearedKeeps DEF HistoryCleared, EndsForAReason, EndsSearch, searchVars
<1> QED
  BY <1>1, <1>2, <1>3, <1>4, <1>5 DEF User

LEMMA StepKeeps ==
  ASSUME IInv, [Next]_vars
  PROVE  IInv' /\ (EndsForAReason \/ UNCHANGED vars)
<1>1. CASE User
  BY <1>1, UserKeeps
<1>2. CASE LookupAnswered
  BY <1>2, GetMessageByIdAnsweredKeeps DEF LookupAnswered
<1>3. CASE UnseenAnswered
  BY <1>3, FirstUnseenMessageLoadedKeeps DEF UnseenAnswered
<1>4. CASE PageAnswered
  BY <1>4, PageLoadedKeeps DEF PageAnswered
<1>5. CASE FirstUnseenMessageFailed
  <2>1. unseenAsked' \in Nat /\ pageReads' \subseteq pageReads
    BY <1>5 DEF FirstUnseenMessageFailed, IInv, TypeOK
  <2> QED
    BY <1>5, <2>1, FailureKeeps DEF FirstUnseenMessageFailed
<1>6. CASE \E limit \in pageReads : PageFailed(limit)
  <2>1. PICK limit \in pageReads : PageFailed(limit)
    BY <1>6
  <2>2. unseenAsked' \in Nat /\ pageReads' \subseteq pageReads
    BY <2>1 DEF PageFailed, IInv, TypeOK
  <2> QED
    BY <2>1, <2>2, FailureKeeps DEF PageFailed
<1>7. CASE UNCHANGED vars
  <2>1. TypeOK' /\ ReadsOK(cursor', pageReads') /\ OnMessage(cursor', stored')
        /\ SearchHasTarget' /\ LookupsAreNumbered' /\ FactorBelongsToSearch'
    BY <1>7 DEF vars, searchVars, IInv, TypeOK, ReadsOK, OnMessage, SearchHasTarget,
                LookupsAreNumbered, FactorBelongsToSearch
  <2>2. SearchGoesOn' /\ (counts'["failures"] = 0 => Answered(cursor', pageReads'))
    BY <1>7 DEF vars, searchVars, IInv, SearchGoesOn
  <2> QED
    BY <1>7, <2>1, <2>2 DEF IInv
<1> QED
  BY <1>1, <1>2, <1>3, <1>4, <1>5, <1>6, <1>7 DEF Next, Failure

\* The inductive invariant holds in every behaviour.
THEOREM Invariance == Spec => []IInv
<1>1. IInv /\ [Next]_vars => IInv'
  BY StepKeeps
<1> QED
  BY InitHolds, <1>1, PTL DEF Spec

\* The variables have the values the module says.
THEOREM TypeCorrect == Spec => []TypeOK
<1>1. IInv => TypeOK
  BY DEF IInv
<1> QED
  BY Invariance, <1>1, PTL

\* A search that goes on has a page or a lookup that carries it on
\* (checkIfMessageLoadedAndScroll, onGetMessageById).
THEOREM SearchIsCarriedOn == Spec => []SearchGoesOn
<1>1. IInv => SearchGoesOn
  BY DEF IInv
<1> QED
  BY Invariance, <1>1, PTL

\* The larger pages of a search are its own: while the page size is larger, the
\* search goes on or its lookup was refused, and no other page can be asked for
\* (checkIfMessageLoadedAndScroll, resetLoadingMessagesPerPageFactor).
THEOREM LargePagesAreSearched == Spec => []FactorBelongsToSearch
<1>1. IInv => FactorBelongsToSearch
  BY DEF IInv
<1> QED
  BY Invariance, <1>1, PTL

\* A search for a message that can be shown ends when the message is in the list
\* or the history is loaded to its end, and not by the answer to another search's
\* lookup (onGetMessageById).
THEOREM NoSearchIsGivenUp == Spec => SearchEndsForAReason
<1>1. IInv /\ [Next]_vars =>
        [EndsSearch => /\ searchedMessageId' = NoMessage
                       /\ searchedMessageId \in shown' \/ cursor'.mostRecent]_vars
  BY StepKeeps DEF EndsForAReason
<1> QED
  BY Invariance, <1>1, PTL DEF Spec, SearchEndsForAReason
=============================================================================
