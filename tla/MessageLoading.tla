--------------------------- MODULE MessageLoading ---------------------------
(***************************************************************************)
(* How the history of a chat gets from the status-go database to the       *)
(* message list of the chat.                                               *)
(*                                                                         *)
(* Four parties interleave:                                                *)
(*   - status-go stores messages and then announces them with a signal;    *)
(*   - the thread pool runs the tasks that read one page of history;       *)
(*   - the main thread handles, in the order they were posted, the signals *)
(*     of status-go and the answers of the tasks;                          *)
(*   - the user opens chats and scrolls, also on the main thread.          *)
(*                                                                         *)
(* A message is its position in the total order of the cursors (see        *)
(* MessageCursor), so a page is a set of positions.                        *)
(***************************************************************************)
EXTENDS MessageCursor, Sequences

CONSTANTS
  Chats,         \* the channels of one section
  NoChat,        \* the active item of a section that has none
  Limits,        \* the page sizes a load may ask for
  LateArrivals,  \* may a message arrive that is older than one stored before?
  MaxFailures,   \* bound on page reads that fail
  MaxResets,     \* bound on history imports and backups, which drop cursors
  MaxPrefetches, \* bound on chats loaded by the service before they are opened
  MaxEdits       \* bound on messages announced again because they were edited

ASSUME ConstantsAssumption ==
  /\ NoChat \notin Chats
  /\ Limits \subseteq Nat \ {0}
  /\ LateArrivals \in BOOLEAN
  /\ {MaxFailures, MaxResets, MaxPrefetches, MaxEdits} \subseteq Nat

VARIABLES
  stored,       \* status-go: the messages of each chat in the database
  unannounced,  \* status-go: those whose signal has not been sent yet
  tasks,        \* thread pool: the page reads that are not yet answered
  started,      \* number of tasks started so far, the id of the next one
  events,       \* main thread: posted signals and answers, oldest first
  cursor,       \* service: msgCursor
  pinnedCursor, \* service: pinnedMsgCursor
  active,       \* section: the active chat
  listening,    \* chats whose messages module is loaded and handles events
  shown,        \* messages module: the messages in the view's model
  initialMessagesLoaded, \* messages module: the flag that ends the loading state
  counts,       \* how many of each bounded event have happened
  failed,       \* history: chats with a page read that failed
  disturbed,    \* history: chats whose load was cut across by a reset, a
                \* prefetch or a failure
  raced         \* history: messages skipped as older than the cursor although
                \* the page in flight does not hold them

serviceVars == <<cursor, pinnedCursor>>
poolVars    == <<tasks, started>>
viewVars    == <<active, listening, shown, initialMessagesLoaded>>
historyVars == <<failed, disturbed, raced>>
vars == <<stored, unannounced, poolVars, events, serviceVars, viewVars, counts,
          historyVars>>
----------------------------------------------------------------------------
(* Types *)

Task == [id : Nat, kind : {"messages", "pinned"}, chat : Chats,
         from : CursorValue, stage : {"queued", "read", "posted", "failed"},
         page : SUBSET Position, next : CursorValue]

Event == [type : {"message", "answer", "reload", "channelImported", "backupDone"},
          chat : Chats \cup {NoChat}, msg : CursorValue, task : Nat]

Bounds == [failures |-> MaxFailures, resets |-> MaxResets,
           prefetches |-> MaxPrefetches, edits |-> MaxEdits]

TypeOK ==
  /\ stored \in [Chats -> SUBSET Position]
  /\ unannounced \in [Chats -> SUBSET Position]
  /\ tasks \subseteq Task
  /\ started \in Nat
  /\ events \in Seq(Event)
  /\ cursor \in [Chats -> MessageCursor \cup {NoCursor}]
  /\ pinnedCursor \in [Chats -> MessageCursor \cup {NoCursor}]
  /\ active \in Chats \cup {NoChat}
  /\ listening \subseteq Chats
  /\ shown \in [Chats -> SUBSET Position]
  /\ initialMessagesLoaded \in [Chats -> BOOLEAN]
  /\ counts \in [DOMAIN Bounds -> Nat]
  /\ failed \subseteq Chats
  /\ disturbed \subseteq Chats
  /\ raced \in [Chats -> SUBSET Position]
----------------------------------------------------------------------------
(* The service's helpers *)

Count(what) ==
  /\ counts[what] < Bounds[what]
  /\ counts' = [counts EXCEPT ![what] = @ + 1]

StartTask(kind, c, from) ==
  [id |-> started, kind |-> kind, chat |-> c, from |-> from,
   stage |-> "queued", page |-> {}, next |-> Empty]

(***************************************************************************)
(* asyncLoadMoreMessagesForChat: nothing is started while a read is        *)
(* pending or when there is nothing older.  cur is the cursor table before *)
(* the call.                                                               *)
(***************************************************************************)
AsyncLoadMoreMessagesForChat(cur, c) ==
  LET msgCursor == InitOrGet(cur[c]) IN
  IF IsFetchable(msgCursor)
  THEN /\ cursor' = [cur EXCEPT ![c] = SetPending(msgCursor)]
       /\ tasks' = tasks \cup {StartTask("messages", c, msgCursor.value)}
       /\ started' = started + 1
  ELSE /\ cursor' = [cur EXCEPT ![c] = msgCursor]
       /\ UNCHANGED poolVars

\* A variant: an empty page does not end the loading state.
NewMessagesLoadedUnlessEmpty(c, page) ==
  IF c \in listening /\ page # {}
  THEN /\ shown' = [shown EXCEPT ![c] = @ \cup page]
       /\ initialMessagesLoaded' = [initialMessagesLoaded EXCEPT ![c] = TRUE]
  ELSE UNCHANGED <<shown, initialMessagesLoaded>>

\* newMessagesLoaded, of the messages module if the chat has one loaded.
NewMessagesLoaded(c, page) ==
  IF c \in listening
  THEN /\ shown' = [shown EXCEPT ![c] = @ \cup page]
       /\ initialMessagesLoaded' = [initialMessagesLoaded EXCEPT ![c] = TRUE]
  ELSE UNCHANGED <<shown, initialMessagesLoaded>>

(***************************************************************************)
(* asyncLoadInitialMessagesForChat: a chat that already has a cursor is    *)
(* told, with an empty list, that its messages are loaded.                 *)
(***************************************************************************)
AsyncLoadInitialMessagesForChat(cur, c) ==
  \/ /\ cur[c] # NoCursor
     /\ NewMessagesLoaded(c, {})
     /\ cursor' = cur
     /\ UNCHANGED poolVars
  \/ /\ cur[c] = NoCursor
     /\ AsyncLoadMoreMessagesForChat(cur, c)
     /\ UNCHANGED <<shown, initialMessagesLoaded>>

\* asyncLoadPinnedMessagesForChat; remaining is the task set without the
\* answer being handled.
AsyncLoadPinnedMessagesForChat(c, remaining) ==
  LET pinned == InitOrGet(pinnedCursor[c]) IN
  IF IsFetchable(pinned)
  THEN /\ pinnedCursor' = [pinnedCursor EXCEPT ![c] = SetPending(pinned)]
       /\ tasks' = remaining \cup {StartTask("pinned", c, pinned.value)}
       /\ started' = started + 1
  ELSE /\ pinnedCursor' = [pinnedCursor EXCEPT ![c] = pinned]
       /\ tasks' = remaining
       /\ UNCHANGED started
----------------------------------------------------------------------------
(* status-go *)

Post(type, c, m, id) ==
  events' = Append(events, [type |-> type, chat |-> c, msg |-> m, task |-> id])

\* A message is saved; its signal follows later.
StoreMessage(c, m) ==
  /\ m \notin stored[c]
  /\ LateArrivals \/ \A s \in stored[c] : s < m
  /\ stored' = [stored EXCEPT ![c] = @ \cup {m}]
  /\ unannounced' = [unannounced EXCEPT ![c] = @ \cup {m}]
  /\ UNCHANGED <<poolVars, events, serviceVars, viewVars, counts, historyVars>>

AnnounceMessage(c, m) ==
  /\ m \in unannounced[c]
  /\ unannounced' = [unannounced EXCEPT ![c] = @ \ {m}]
  /\ Post("message", c, m, 0)
  /\ UNCHANGED <<stored, poolVars, serviceVars, viewVars, counts, historyVars>>

\* An edit announces a stored message again.
EditMessage(c, m) ==
  /\ m \in stored[c] \ unannounced[c]
  /\ Count("edits")
  /\ Post("message", c, m, 0)
  /\ UNCHANGED <<stored, unannounced, poolVars, serviceVars, viewVars, historyVars>>

\* History archives or a Discord community were imported: every chat of the
\* section may have got messages that are never announced one by one.
ImportCommunity(new) ==
  /\ Count("resets")
  /\ stored' = [c \in Chats |-> stored[c] \cup new[c]]
  /\ Post("reload", NoChat, Empty, 0)
  /\ disturbed' = Chats
  /\ UNCHANGED <<unannounced, poolVars, serviceVars, viewVars, failed, raced>>

\* A Discord channel was imported into chat c.
ImportChannel(c, new) ==
  /\ Count("resets")
  /\ stored' = [stored EXCEPT ![c] = @ \cup new]
  /\ Post("channelImported", c, Empty, 0)
  /\ disturbed' = disturbed \cup {c}
  /\ UNCHANGED <<unannounced, poolVars, serviceVars, viewVars, failed, raced>>

\* A local backup of messages was restored.
RestoreBackup(new) ==
  /\ Count("resets")
  /\ stored' = [c \in Chats |-> stored[c] \cup new[c]]
  /\ Post("backupDone", NoChat, Empty, 0)
  /\ disturbed' = Chats
  /\ UNCHANGED <<unannounced, poolVars, serviceVars, viewVars, failed, raced>>
----------------------------------------------------------------------------
(* The thread pool *)

Replace(t, u) == tasks' = (tasks \ {t}) \cup {u}

\* The messages a read from the given position can return.
Readable(c, from) ==
  IF from = Empty THEN stored[c] ELSE {m \in stored[c] : m <= from}

\* fetchMessages: the newest messages at or below the position of the task.
ReadPage(t) ==
  /\ t.kind = "messages"
  /\ t.stage = "queued"
  /\ \E limit \in Limits, next \in CursorValue :
       /\ next \in NextPositions(Readable(t.chat, t.from), limit)
       /\ Replace(t, [t EXCEPT !.stage = "read", !.next = next,
                               !.page = {m \in Readable(t.chat, t.from) : m > next}])
  /\ UNCHANGED <<stored, unannounced, started, events, serviceVars, viewVars,
                 counts, historyVars>>

\* The pinned messages are read and the answer is posted: one page of at most
\* MESSAGES_PER_PAGE_MAX pins, which holds all of them.
ReadPinned(t) ==
  /\ t.kind = "pinned"
  /\ t.stage = "queued"
  /\ Replace(t, [t EXCEPT !.stage = "posted"])
  /\ Post("answer", t.chat, Empty, t.id)
  /\ UNCHANGED <<stored, unannounced, started, serviceVars, viewVars, counts,
                 historyVars>>

\* The reactions are read as well, and the answer is posted.
FinishTask(t) ==
  /\ t.stage = "read"
  /\ Replace(t, [t EXCEPT !.stage = "posted"])
  /\ Post("answer", t.chat, Empty, t.id)
  /\ UNCHANGED <<stored, unannounced, started, serviceVars, viewVars, counts,
                 historyVars>>

\* One of the two reads fails: the answer carries the error.
FailTask(t) ==
  /\ t.stage \in {"queued", "read"}
  /\ Count("failures")
  /\ Replace(t, [t EXCEPT !.stage = "failed"])
  /\ Post("answer", t.chat, Empty, t.id)
  /\ IF t.kind = "messages"
     THEN failed' = failed \cup {t.chat} /\ disturbed' = disturbed \cup {t.chat}
     ELSE UNCHANGED <<failed, disturbed>>
  /\ UNCHANGED <<stored, unannounced, started, serviceVars, viewVars, raced>>
----------------------------------------------------------------------------
(* The main thread: the oldest posted event *)

Dequeue(type) ==
  /\ events # <<>>
  /\ Head(events).type = type
  /\ events' = Tail(events)

\* The page in flight for c has been read and does not hold m.
PageMisses(c, m) ==
  \E t \in tasks : /\ t.kind = "messages"
                   /\ t.chat = c
                   /\ t.stage \in {"read", "posted"}
                   /\ m \notin t.page
                   /\ m > t.next

\* handleMessagesUpdate: a message at or below the cursor is left for a later
\* page; any other is handed to the messages module.
HandleMessage(c, m) ==
  /\ Dequeue("message")
  /\ Head(events).chat = c
  /\ Head(events).msg = m
  /\ IF cursor[c] # NoCursor /\ ~IsLessThan(cursor[c], m)
     THEN /\ cursor' = [cursor EXCEPT ![c] = MakeObsolete(@)]
          /\ raced' = [raced EXCEPT ![c] =
                         IF PageMisses(c, m) THEN @ \cup {m} ELSE @]
          /\ UNCHANGED shown
     ELSE /\ shown' = [shown EXCEPT ![c] =
                         IF c \in listening THEN @ \cup {m} ELSE @]
          /\ UNCHANGED <<cursor, raced>>
  /\ UNCHANGED <<stored, unannounced, poolVars, pinnedCursor, active, listening,
                 initialMessagesLoaded, counts, failed, disturbed>>

Answered(t) ==
  /\ Dequeue("answer")
  /\ t.id = Head(events).task

\* onAsyncLoadMoreMessagesForChat on success.  The first page of a chat also
\* starts the load of its pinned messages.
HandleMessagesLoaded(t) ==
  LET c == t.chat
      msgCursor == InitOrGet(cursor[c]) IN
  /\ Answered(t)
  /\ t.kind = "messages"
  /\ t.stage = "posted"
  /\ IF msgCursor.value = Empty
     THEN AsyncLoadPinnedMessagesForChat(c, tasks \ {t})
     ELSE tasks' = tasks \ {t} /\ UNCHANGED <<started, pinnedCursor>>
  /\ cursor' = [cursor EXCEPT ![c] = SetValue(msgCursor, t.next)]
  /\ NewMessagesLoaded(c, t.page)
  /\ UNCHANGED <<stored, unannounced, active, listening, counts, historyVars>>

\* onAsyncLoadMoreMessagesForChat on an error: the event it emits names no
\* chat, so no messages module takes it, and the cursor stays pending.
HandleMessagesFailed(t) ==
  /\ Answered(t)
  /\ t.kind = "messages"
  /\ t.stage = "failed"
  /\ tasks' = tasks \ {t}
  /\ UNCHANGED <<stored, unannounced, started, serviceVars, viewVars, counts,
                 historyVars>>

\* onAsyncLoadPinnedMessagesForChat.
HandlePinnedAnswer(t) ==
  /\ Answered(t)
  /\ t.kind = "pinned"
  /\ t.stage \in {"posted", "failed"}
  /\ tasks' = tasks \ {t}
  /\ pinnedCursor' =
       IF t.stage = "posted"
       THEN [pinnedCursor EXCEPT ![t.chat] = SetValue(InitOrGet(@), t.next)]
       ELSE pinnedCursor
  /\ UNCHANGED <<stored, unannounced, started, cursor, viewVars, counts, historyVars>>

\* handleMessagesReload: the cursors of the section are dropped and its active
\* chat is loaded again from the top.
HandleReload ==
  LET dropped == [c \in Chats |-> NoCursor] IN
  /\ Dequeue("reload")
  /\ pinnedCursor' = dropped
  /\ IF active = NoChat
     THEN cursor' = dropped /\ UNCHANGED <<poolVars, shown, initialMessagesLoaded>>
     ELSE AsyncLoadInitialMessagesForChat(dropped, active)
  /\ UNCHANGED <<stored, unannounced, active, listening, counts, historyVars>>

\* DiscordChannelImportFinished: the chat is loaded again, open or not.
HandleChannelImported(c) ==
  /\ Dequeue("channelImported")
  /\ Head(events).chat = c
  /\ AsyncLoadMoreMessagesForChat([cursor EXCEPT ![c] = NoCursor], c)
  /\ UNCHANGED <<stored, unannounced, pinnedCursor, viewVars, counts, historyVars>>

\* LocalMessageBackupDone: every cursor is dropped, nothing is loaded.
HandleBackupDone ==
  /\ Dequeue("backupDone")
  /\ cursor' = [c \in Chats |-> NoCursor]
  /\ pinnedCursor' = [c \in Chats |-> NoCursor]
  /\ UNCHANGED <<stored, unannounced, poolVars, viewVars, counts, historyVars>>
----------------------------------------------------------------------------
(* The main thread: the user *)

\* setActiveItem: the initial messages are asked for first, then the chat's
\* module is loaded, which is when it starts to handle events.
SetActiveItem(c) ==
  /\ active' = c
  /\ AsyncLoadInitialMessagesForChat(cursor, c)
  /\ listening' = listening \cup {c}
  /\ UNCHANGED <<stored, unannounced, events, pinnedCursor, counts, historyVars>>

\* loadMoreMessages: the user scrolls up, or a search for a message goes on.
LoadMoreMessages(c) ==
  /\ c \in listening
  /\ AsyncLoadMoreMessagesForChat(cursor, c)
  /\ UNCHANGED <<stored, unannounced, events, pinnedCursor, viewVars, counts,
                 historyVars>>

\* spectateCommunity: the service loads the channels it did not know, before
\* any of them is opened.
PrefetchChat(c) ==
  /\ c \notin listening
  /\ cursor[c] = NoCursor
  /\ Count("prefetches")
  /\ AsyncLoadInitialMessagesForChat(cursor, c)
  /\ disturbed' = disturbed \cup {c}
  /\ UNCHANGED <<stored, unannounced, events, pinnedCursor, active, listening,
                 failed, raced>>
----------------------------------------------------------------------------
Init ==
  /\ stored \in [Chats -> SUBSET Position]
  /\ unannounced = [c \in Chats |-> {}]
  /\ tasks = {}
  /\ started = 0
  /\ events = <<>>
  /\ cursor = [c \in Chats |-> NoCursor]
  /\ pinnedCursor = [c \in Chats |-> NoCursor]
  /\ active = NoChat
  /\ listening = {}
  /\ shown = [c \in Chats |-> {}]
  /\ initialMessagesLoaded = [c \in Chats |-> FALSE]
  /\ counts = [b \in DOMAIN Bounds |-> 0]
  /\ failed = {}
  /\ disturbed = {}
  /\ raced = [c \in Chats |-> {}]

StatusGo ==
  \/ \E c \in Chats, m \in Position :
       StoreMessage(c, m) \/ AnnounceMessage(c, m) \/ EditMessage(c, m)
  \/ \E new \in [Chats -> SUBSET Position] : ImportCommunity(new) \/ RestoreBackup(new)
  \/ \E c \in Chats, new \in SUBSET Position : ImportChannel(c, new)

ThreadPool ==
  \E t \in tasks : ReadPage(t) \/ ReadPinned(t) \/ FinishTask(t) \/ FailTask(t)

MainThread ==
  \/ \E c \in Chats, m \in Position : HandleMessage(c, m)
  \/ \E t \in tasks : \/ HandleMessagesLoaded(t)
                      \/ HandleMessagesFailed(t)
                      \/ HandlePinnedAnswer(t)
  \/ \E c \in Chats : HandleChannelImported(c)
  \/ HandleReload
  \/ HandleBackupDone

User ==
  \E c \in Chats : SetActiveItem(c) \/ LoadMoreMessages(c) \/ PrefetchChat(c)

Next == StatusGo \/ ThreadPool \/ MainThread \/ User

Spec == Init /\ [][Next]_vars
----------------------------------------------------------------------------
(* Safety *)

InFlight(c) == {t \in tasks : t.kind = "messages" /\ t.chat = c}

Pending(c) == cursor[c] # NoCursor /\ cursor[c].pending

\* A chat whose loads say that there is nothing more to fetch.
Exhausted(c) == cursor[c] # NoCursor /\ cursor[c].mostRecent

\* The signal of message m of chat c is still to be sent or to be handled.
Undelivered(c, m) ==
  \/ m \in unannounced[c]
  \/ \E i \in DOMAIN events : /\ events[i].type = "message"
                             /\ events[i].chat = c
                             /\ events[i].msg = m

\* The page task t reads, or the pages that follow it, bring message m.
Brings(t, m) ==
  IF t.stage = "queued"
  THEN t.from = Empty \/ m <= t.from
  ELSE m \in t.page \/ m <= t.next

\* What keeps a stored message from being forgotten.
Accounted(c, m) ==
  \/ m \in shown[c]
  \/ m \in raced[c]
  \/ Undelivered(c, m)
  \/ \E t \in InFlight(c) : Brings(t, m)
  \/ cursor[c] = NoCursor
  \/ IsFetchable(cursor[c]) /\ (cursor[c].value = Empty \/ m <= cursor[c].value)

(***************************************************************************)
(* A chat that waits for a page has that page on its way: the pending flag *)
(* of service.nim, which turns every further load into a no-op, is never   *)
(* left set with nobody to clear it, unless a read failed.                 *)
(***************************************************************************)
PendingIsAnswered == \A c \in Chats \ failed : Pending(c) => InFlight(c) # {}

(***************************************************************************)
(* One page read at a time per chat, as long as nothing cuts across the    *)
(* load: the answer being handled is the answer to the cursor's question.  *)
(***************************************************************************)
SingleFlight ==
  \A c \in Chats \ disturbed : \A t, u \in InFlight(c) : t = u

(***************************************************************************)
(* No message of the history is forgotten: each one is on screen, or its   *)
(* signal is on its way, or a page in flight or a later page will bring    *)
(* it.  The one exception is a message that arrives late, behind the       *)
(* cursor, while the page that should have held it is in flight.           *)
(***************************************************************************)
NoGap == \A c \in Chats \ disturbed : \A m \in stored[c] : Accounted(c, m)

(***************************************************************************)
(* A load that is refused because nothing is left to fetch means that all  *)
(* of the chat is in the view: "If failed to `loadMoreMessages`, then the  *)
(* most recent message is already loaded" (messages/module.nim:248).       *)
(***************************************************************************)
ExhaustedMeansAllShown ==
  \A c \in listening \ failed : Exhausted(c) =>
    \A m \in stored[c] : m \in shown[c] \/ Undelivered(c, m)

\* A step that moves no undisturbed cursor forward.
CursorGoesBack ==
  \A c \in Chats \ disturbed' :
    cursor[c] # NoCursor /\ cursor[c].value # Empty =>
      /\ cursor'[c] # NoCursor
      /\ cursor'[c].value \in 1..cursor[c].value

(***************************************************************************)
(* The cursor of a chat only ever moves towards older messages.            *)
(***************************************************************************)
CursorOnlyGoesBack == [][CursorGoesBack]_vars
----------------------------------------------------------------------------
(* The inductive invariant behind the safety properties *)

\* A read that failed is remembered for its chat.
FailuresAreKnown ==
  /\ failed \subseteq disturbed
  /\ \A t \in tasks : t.kind = "messages" /\ t.stage = "failed" => t.chat \in failed

\* The position that comes with a page is older than the one it was read from.
PagesGoBack ==
  \A t \in tasks : t.kind = "messages" /\ t.stage \in {"read", "posted"} =>
    \/ t.next = Empty
    \/ t.from = Empty
    \/ t.next < t.from

\* A posted event that drops the cursor of a chat has disturbed the chat.
ResetsDisturb ==
  \A i \in DOMAIN events :
    /\ events[i].type \in {"reload", "backupDone"} => disturbed = Chats
    /\ events[i].type = "channelImported" => events[i].chat \in disturbed

\* A chat that was never disturbed: its module is there for every answer, and
\* the read in flight asks for what follows the cursor.
Undisturbed(c) ==
  /\ cursor[c] # NoCursor => c \in listening
  /\ Pending(c) => ~cursor[c].mostRecent
  /\ \A t \in InFlight(c) : Pending(c) /\ t.from = cursor[c].value

(***************************************************************************)
(* What every step of service.nim's loading relies on and keeps: the       *)
(* safety properties above follow from it, and it is the invariant that    *)
(* MessageLoadingProofs proves inductive.                                  *)
(***************************************************************************)
IInv ==
  /\ TypeOK
  /\ FailuresAreKnown
  /\ PagesGoBack
  /\ ResetsDisturb
  /\ \A c \in Chats \ disturbed : Undisturbed(c)
  /\ PendingIsAnswered
  /\ SingleFlight
  /\ NoGap
----------------------------------------------------------------------------
(* Liveness *)

\* The pool runs its tasks, the main thread handles its events and status-go
\* sends its signals; a user who wants more keeps scrolling, which the view
\* only passes on once it has stopped loading.
Fairness ==
  /\ WF_vars(\E t \in tasks : ReadPage(t) \/ ReadPinned(t) \/ FinishTask(t))
  /\ WF_vars(MainThread)
  /\ WF_vars(\E c \in Chats, m \in Position : AnnounceMessage(c, m))
  /\ \A c \in Chats :
       WF_vars(initialMessagesLoaded[c] /\ LoadMoreMessages(c))

FairSpec == Spec /\ Fairness

(***************************************************************************)
(* Every load ends, whatever resets cut across it.                         *)
(***************************************************************************)
PendingEnds == \A c \in Chats : Pending(c) ~> ~Pending(c)

(***************************************************************************)
(* A chat that is opened stops showing its loading state.  The exceptions  *)
(* are the disturbed chats: spectateCommunity loads a chat before it is    *)
(* opened, and a first page that comes before the messages module listens  *)
(* is lost together with the news that the chat is loaded.                 *)
(***************************************************************************)
OpenedChatStopsLoading ==
  \A c \in Chats : active = c ~> initialMessagesLoaded[c] \/ c \in disturbed

(***************************************************************************)
(* A user who keeps scrolling gets to see the whole history of an opened   *)
(* chat, with the same exceptions.                                         *)
(***************************************************************************)
HistoryIsShown ==
  \A c \in Chats : \A m \in Position :
    active = c /\ m \in stored[c] ~> m \in shown[c] \cup raced[c] \/ c \in disturbed
=============================================================================
