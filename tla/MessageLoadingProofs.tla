------------------------ MODULE MessageLoadingProofs ------------------------
(***************************************************************************)
(* Proofs about MessageLoading, for any number of chats, messages, page    *)
(* sizes, failures, resets and edits.                                      *)
(***************************************************************************)
EXTENDS MessageLoading, FiniteSetTheorems, TLAPS

USE MaxClockAssumption, NoCursorAssumption, ConstantsAssumption
----------------------------------------------------------------------------
(* The cursor operators *)

\* The operations of message_cursor.nim return cursors.
LEMMA CursorOperations ==
  ASSUME NEW cur \in MessageCursor \cup {NoCursor}, NEW v \in CursorValue
  PROVE  /\ InitOrGet(cur) \in MessageCursor
         /\ SetValue(InitOrGet(cur), v) \in MessageCursor
         /\ SetPending(InitOrGet(cur)) \in MessageCursor
         /\ cur # NoCursor => MakeObsolete(cur) \in MessageCursor
BY DEF InitOrGet, InitMessageCursor, SetValue, SetPending, MakeObsolete,
       MessageCursor, CursorValue, Position, Empty

\* A new task is a task.
LEMMA StartTaskType ==
  ASSUME started \in Nat, NEW kind \in {"messages", "pinned"}, NEW c \in Chats,
         NEW from \in CursorValue
  PROVE  StartTask(kind, c, from) \in Task
BY DEF StartTask, Task, CursorValue, Position, Empty

\* Posting an event keeps the queue a queue.
LEMMA PostType ==
  ASSUME events \in Seq(Event), NEW c \in Chats \cup {NoChat}, NEW m \in CursorValue,
         NEW id \in Nat,
         NEW type \in {"message", "answer", "reload", "channelImported", "backupDone"},
         Post(type, c, m, id)
  PROVE  events' \in Seq(Event)
<1>1. [type |-> type, chat |-> c, msg |-> m, task |-> id] \in Event
  BY DEF Event
<1> QED
  BY <1>1 DEF Post

\* Taking the oldest event keeps the queue a queue.
LEMMA DequeueType ==
  ASSUME events \in Seq(Event), NEW type, Dequeue(type)
  PROVE  events' \in Seq(Event)
BY DEF Dequeue

\* Counting a bounded event keeps the counts natural.
LEMMA CountType ==
  ASSUME counts \in [DOMAIN Bounds -> Nat], NEW what \in DOMAIN Bounds, Count(what)
  PROVE  counts' \in [DOMAIN Bounds -> Nat]
BY DEF Count

\* Starting the load of a page keeps the types of what it changes.
LEMMA LoadMoreType ==
  ASSUME TypeOK, NEW c \in Chats,
         NEW cur \in [Chats -> MessageCursor \cup {NoCursor}],
         AsyncLoadMoreMessagesForChat(cur, c)
  PROVE  /\ cursor' \in [Chats -> MessageCursor \cup {NoCursor}]
         /\ tasks' \subseteq Task
         /\ started' \in Nat
<1> DEFINE msgCursor == InitOrGet(cur[c])
<1>1. /\ msgCursor \in MessageCursor
      /\ SetPending(msgCursor) \in MessageCursor
  BY CursorOperations DEF CursorValue, Empty
<1>2. msgCursor.value \in CursorValue
  BY <1>1 DEF MessageCursor
<1>3. StartTask("messages", c, msgCursor.value) \in Task
  BY <1>2, StartTaskType DEF TypeOK
<1>4. CASE IsFetchable(msgCursor)
  <2>1. /\ cursor' = [cur EXCEPT ![c] = SetPending(msgCursor)]
        /\ tasks' = tasks \cup {StartTask("messages", c, msgCursor.value)}
        /\ started' = started + 1
    BY <1>4 DEF AsyncLoadMoreMessagesForChat
  <2> QED
    BY <1>1, <1>3, <2>1 DEF TypeOK
<1>5. CASE ~IsFetchable(msgCursor)
  <2>1. cursor' = [cur EXCEPT ![c] = msgCursor] /\ UNCHANGED poolVars
    BY <1>5 DEF AsyncLoadMoreMessagesForChat
  <2> QED
    BY <1>1, <2>1 DEF TypeOK, poolVars
<1> QED
  BY <1>4, <1>5

\* The view keeps its types when it takes a page.
LEMMA NewMessagesLoadedType ==
  ASSUME TypeOK, NEW c \in Chats, NEW page \in SUBSET Position,
         NewMessagesLoaded(c, page)
  PROVE  /\ shown' \in [Chats -> SUBSET Position]
         /\ initialMessagesLoaded' \in [Chats -> BOOLEAN]
<1>1. shown \in [Chats -> SUBSET Position] /\ initialMessagesLoaded \in [Chats -> BOOLEAN]
  BY DEF TypeOK
<1>2. CASE c \in listening
  <2>1. /\ shown' = [shown EXCEPT ![c] = @ \cup page]
        /\ initialMessagesLoaded' = [initialMessagesLoaded EXCEPT ![c] = TRUE]
    BY <1>2 DEF NewMessagesLoaded
  <2> QED
    BY <1>1, <2>1
<1>3. CASE c \notin listening
  <2>1. UNCHANGED <<shown, initialMessagesLoaded>>
    BY <1>3 DEF NewMessagesLoaded
  <2> QED
    BY <1>1, <2>1
<1> QED
  BY <1>2, <1>3

\* So does asking for the initial messages of a chat.
LEMMA LoadInitialType ==
  ASSUME TypeOK, NEW c \in Chats,
         NEW cur \in [Chats -> MessageCursor \cup {NoCursor}],
         AsyncLoadInitialMessagesForChat(cur, c)
  PROVE  /\ cursor' \in [Chats -> MessageCursor \cup {NoCursor}]
         /\ tasks' \subseteq Task
         /\ started' \in Nat
         /\ initialMessagesLoaded' \in [Chats -> BOOLEAN]
         /\ shown' \in [Chats -> SUBSET Position]
<1>1. CASE cur[c] # NoCursor
  <2>1. NewMessagesLoaded(c, {}) /\ cursor' = cur /\ UNCHANGED poolVars
    BY <1>1 DEF AsyncLoadInitialMessagesForChat
  <2> QED
    BY <2>1, NewMessagesLoadedType DEF TypeOK, poolVars
<1>2. CASE cur[c] = NoCursor
  <2>1. /\ AsyncLoadMoreMessagesForChat(cur, c)
        /\ UNCHANGED <<shown, initialMessagesLoaded>>
    BY <1>2 DEF AsyncLoadInitialMessagesForChat
  <2> QED
    BY <2>1, LoadMoreType DEF TypeOK
<1> QED
  BY <1>1, <1>2

\* And asking for the pinned messages.
LEMMA LoadPinnedType ==
  ASSUME TypeOK, NEW c \in Chats, NEW remaining \in SUBSET Task,
         AsyncLoadPinnedMessagesForChat(c, remaining)
  PROVE  /\ pinnedCursor' \in [Chats -> MessageCursor \cup {NoCursor}]
         /\ tasks' \subseteq Task
         /\ started' \in Nat
<1> DEFINE pinned == InitOrGet(pinnedCursor[c])
<1>1. /\ pinned \in MessageCursor
      /\ SetPending(pinned) \in MessageCursor
  BY CursorOperations DEF CursorValue, Empty, TypeOK
<1>2. pinned.value \in CursorValue
  BY <1>1 DEF MessageCursor
<1>3. StartTask("pinned", c, pinned.value) \in Task
  BY <1>2, StartTaskType DEF TypeOK
<1>4. CASE IsFetchable(pinned)
  <2>1. /\ pinnedCursor' = [pinnedCursor EXCEPT ![c] = SetPending(pinned)]
        /\ tasks' = remaining \cup {StartTask("pinned", c, pinned.value)}
        /\ started' = started + 1
    BY <1>4 DEF AsyncLoadPinnedMessagesForChat
  <2> QED
    BY <1>1, <1>3, <2>1 DEF TypeOK
<1>5. CASE ~IsFetchable(pinned)
  <2>1. /\ pinnedCursor' = [pinnedCursor EXCEPT ![c] = pinned]
        /\ tasks' = remaining
        /\ UNCHANGED started
    BY <1>5 DEF AsyncLoadPinnedMessagesForChat
  <2> QED
    BY <1>1, <2>1 DEF TypeOK
<1> QED
  BY <1>4, <1>5
----------------------------------------------------------------------------
(* Type correctness *)

\* The pages of status-go are messages of the chat.
LEMMA ReadPageType ==
  ASSUME TypeOK, NEW t \in tasks, ReadPage(t)
  PROVE  tasks' \subseteq Task
<1>1. PICK limit \in Limits, next \in CursorValue :
        Replace(t, [t EXCEPT !.stage = "read", !.next = next,
                            !.page = {m \in Readable(t.chat, t.from) : m > next}])
  BY DEF ReadPage
<1>2. t \in Task
  BY DEF TypeOK
<1>3. Readable(t.chat, t.from) \subseteq Position
  BY <1>2 DEF TypeOK, Task, Readable
<1> DEFINE page == {m \in Readable(t.chat, t.from) : m > next}
<1>4. page \in SUBSET Position
  BY <1>3
<1> HIDE DEF page
<1>5. [t EXCEPT !.stage = "read", !.next = next, !.page = page] \in Task
  BY <1>2, <1>4 DEF Task
<1> QED
  BY <1>1, <1>5 DEF Replace, TypeOK, page

\* Every step of the system keeps every variable in its type.
LEMMA TypeStep == TypeOK /\ [Next]_vars => TypeOK'
<1> SUFFICES ASSUME TypeOK, [Next]_vars
             PROVE  TypeOK'
  OBVIOUS
<1> USE DEF poolVars, serviceVars, viewVars, historyVars
<1>1. ASSUME NEW c \in Chats, NEW m \in Position, StoreMessage(c, m)
      PROVE  TypeOK'
  BY <1>1 DEF StoreMessage, TypeOK
<1>2. ASSUME NEW c \in Chats, NEW m \in Position, AnnounceMessage(c, m)
      PROVE  TypeOK'
  <2>1. events' \in Seq(Event)
    BY <1>2, PostType DEF AnnounceMessage, TypeOK, CursorValue
  <2> QED
    BY <1>2, <2>1 DEF AnnounceMessage, TypeOK
<1>3. ASSUME NEW c \in Chats, NEW m \in Position, EditMessage(c, m)
      PROVE  TypeOK'
  <2>1. events' \in Seq(Event) /\ counts' \in [DOMAIN Bounds -> Nat]
    BY <1>3, PostType, CountType DEF EditMessage, TypeOK, CursorValue, Bounds
  <2> QED
    BY <1>3, <2>1 DEF EditMessage, TypeOK
<1>4. ASSUME NEW new \in [Chats -> SUBSET Position], ImportCommunity(new)
      PROVE  TypeOK'
  <2>1. events' \in Seq(Event) /\ counts' \in [DOMAIN Bounds -> Nat]
    BY <1>4, PostType, CountType DEF ImportCommunity, TypeOK, CursorValue, Empty, Bounds
  <2> QED
    BY <1>4, <2>1 DEF ImportCommunity, TypeOK
<1>5. ASSUME NEW new \in [Chats -> SUBSET Position], RestoreBackup(new)
      PROVE  TypeOK'
  <2>1. events' \in Seq(Event) /\ counts' \in [DOMAIN Bounds -> Nat]
    BY <1>5, PostType, CountType DEF RestoreBackup, TypeOK, CursorValue, Empty, Bounds
  <2> QED
    BY <1>5, <2>1 DEF RestoreBackup, TypeOK
<1>6. ASSUME NEW c \in Chats, NEW new \in SUBSET Position, ImportChannel(c, new)
      PROVE  TypeOK'
  <2>1. events' \in Seq(Event) /\ counts' \in [DOMAIN Bounds -> Nat]
    BY <1>6, PostType, CountType DEF ImportChannel, TypeOK, CursorValue, Empty, Bounds
  <2> QED
    BY <1>6, <2>1 DEF ImportChannel, TypeOK
<1>7. ASSUME NEW t \in tasks, ReadPage(t)
      PROVE  TypeOK'
  BY <1>7, ReadPageType DEF ReadPage, TypeOK
<1>8. ASSUME NEW t \in tasks, ReadPinned(t)
      PROVE  TypeOK'
  <2>1. tasks' \subseteq Task
    BY <1>8 DEF ReadPinned, Replace, Task, TypeOK
  <2>2. events' \in Seq(Event)
    BY <1>8, PostType DEF ReadPinned, TypeOK, Task, CursorValue, Empty
  <2> QED
    BY <1>8, <2>1, <2>2 DEF ReadPinned, TypeOK
<1>9. ASSUME NEW t \in tasks, FinishTask(t)
      PROVE  TypeOK'
  <2>1. tasks' \subseteq Task
    BY <1>9 DEF FinishTask, Replace, Task, TypeOK
  <2>2. events' \in Seq(Event)
    BY <1>9, PostType DEF FinishTask, TypeOK, Task, CursorValue, Empty
  <2> QED
    BY <1>9, <2>1, <2>2 DEF FinishTask, TypeOK
<1>10. ASSUME NEW t \in tasks, FailTask(t)
       PROVE  TypeOK'
  <2>1. tasks' \subseteq Task
    BY <1>10 DEF FailTask, Replace, Task, TypeOK
  <2>2. events' \in Seq(Event) /\ counts' \in [DOMAIN Bounds -> Nat]
    BY <1>10, PostType, CountType DEF FailTask, TypeOK, Task, CursorValue, Empty, Bounds
  <2>3. failed' \subseteq Chats /\ disturbed' \subseteq Chats
    BY <1>10 DEF FailTask, TypeOK, Task
  <2> QED
    BY <1>10, <2>1, <2>2, <2>3 DEF FailTask, TypeOK
<1>11. ASSUME NEW c \in Chats, NEW m \in Position, HandleMessage(c, m)
       PROVE  TypeOK'
  <2>1. events' \in Seq(Event)
    BY <1>11, DequeueType DEF HandleMessage, TypeOK
  <2>2. CASE cursor[c] # NoCursor /\ ~IsLessThan(cursor[c], m)
    <3>1. MakeObsolete(cursor[c]) \in MessageCursor
      BY <2>2, CursorOperations DEF TypeOK, CursorValue, Empty
    <3>2. /\ cursor' = [cursor EXCEPT ![c] = MakeObsolete(@)]
          /\ raced' = [raced EXCEPT ![c] = IF PageMisses(c, m) THEN @ \cup {m} ELSE @]
          /\ UNCHANGED shown
      BY <1>11, <2>2 DEF HandleMessage
    <3>3. raced' \in [Chats -> SUBSET Position]
      BY <3>2 DEF TypeOK
    <3>4. cursor' \in [Chats -> MessageCursor \cup {NoCursor}]
      BY <3>1, <3>2 DEF TypeOK
    <3> QED
      BY <1>11, <2>1, <3>2, <3>3, <3>4 DEF HandleMessage, TypeOK
  <2>3. CASE ~(cursor[c] # NoCursor /\ ~IsLessThan(cursor[c], m))
    <3>1. /\ shown' = [shown EXCEPT ![c] = IF c \in listening THEN @ \cup {m} ELSE @]
          /\ UNCHANGED <<cursor, raced>>
      BY <1>11, <2>3 DEF HandleMessage
    <3>2. shown' \in [Chats -> SUBSET Position]
      BY <3>1 DEF TypeOK
    <3> QED
      BY <1>11, <2>1, <3>1, <3>2 DEF HandleMessage, TypeOK
  <2> QED
    BY <2>2, <2>3
<1>12. ASSUME NEW t \in tasks, HandleMessagesLoaded(t)
       PROVE  TypeOK'
  <2> DEFINE c == t.chat
             msgCursor == InitOrGet(cursor[c])
  <2>1. events' \in Seq(Event)
    BY <1>12, DequeueType DEF HandleMessagesLoaded, Answered, TypeOK
  <2>2. t \in Task /\ c \in Chats
    BY DEF TypeOK, Task
  <2>3. SetValue(msgCursor, t.next) \in MessageCursor
    BY <2>2, CursorOperations DEF TypeOK, Task
  <2>4. cursor' \in [Chats -> MessageCursor \cup {NoCursor}]
    BY <1>12, <2>2, <2>3 DEF HandleMessagesLoaded, TypeOK
  <2>5. /\ shown' \in [Chats -> SUBSET Position]
        /\ initialMessagesLoaded' \in [Chats -> BOOLEAN]
    BY <1>12, <2>2, NewMessagesLoadedType DEF HandleMessagesLoaded, Task
  <2>6. /\ pinnedCursor' \in [Chats -> MessageCursor \cup {NoCursor}]
        /\ tasks' \subseteq Task
        /\ started' \in Nat
    <3>1. CASE msgCursor.value = Empty
      <4>1. tasks \ {t} \in SUBSET Task
        BY DEF TypeOK
      <4>2. AsyncLoadPinnedMessagesForChat(c, tasks \ {t})
        BY <1>12, <3>1 DEF HandleMessagesLoaded
      <4> QED
        BY <2>2, <4>1, <4>2, LoadPinnedType
    <3>2. CASE msgCursor.value # Empty
      <4>1. tasks' = tasks \ {t} /\ UNCHANGED <<started, pinnedCursor>>
        BY <1>12, <3>2 DEF HandleMessagesLoaded
      <4> QED
        BY <4>1 DEF TypeOK
    <3> QED
      BY <3>1, <3>2
  <2> QED
    BY <1>12, <2>1, <2>4, <2>5, <2>6 DEF HandleMessagesLoaded, TypeOK
<1>13. ASSUME NEW t \in tasks, HandleMessagesFailed(t)
       PROVE  TypeOK'
  <2>1. events' \in Seq(Event)
    BY <1>13, DequeueType DEF HandleMessagesFailed, Answered, TypeOK
  <2> QED
    BY <1>13, <2>1 DEF HandleMessagesFailed, TypeOK
<1>14. ASSUME NEW t \in tasks, HandlePinnedAnswer(t)
       PROVE  TypeOK'
  <2>1. events' \in Seq(Event)
    BY <1>14, DequeueType DEF HandlePinnedAnswer, Answered, TypeOK
  <2>2. t \in Task
    BY DEF TypeOK
  <2>3. SetValue(InitOrGet(pinnedCursor[t.chat]), t.next) \in MessageCursor
    BY <2>2, CursorOperations DEF TypeOK, Task
  <2>4. pinnedCursor' \in [Chats -> MessageCursor \cup {NoCursor}]
    BY <1>14, <2>2, <2>3 DEF HandlePinnedAnswer, TypeOK
  <2> QED
    BY <1>14, <2>1, <2>4 DEF HandlePinnedAnswer, TypeOK
<1>15. ASSUME NEW c \in Chats, HandleChannelImported(c)
       PROVE  TypeOK'
  <2>1. events' \in Seq(Event)
    BY <1>15, DequeueType DEF HandleChannelImported, TypeOK
  <2>2. [cursor EXCEPT ![c] = NoCursor] \in [Chats -> MessageCursor \cup {NoCursor}]
    BY DEF TypeOK
  <2>3. /\ cursor' \in [Chats -> MessageCursor \cup {NoCursor}]
        /\ tasks' \subseteq Task
        /\ started' \in Nat
    BY <1>15, <2>2, LoadMoreType DEF HandleChannelImported
  <2> QED
    BY <1>15, <2>1, <2>3 DEF HandleChannelImported, TypeOK
<1>16. ASSUME HandleReload
       PROVE  TypeOK'
  <2> DEFINE dropped == [c \in Chats |-> NoCursor]
  <2>1. events' \in Seq(Event)
    BY <1>16, DequeueType DEF HandleReload, TypeOK
  <2>2. dropped \in [Chats -> MessageCursor \cup {NoCursor}]
    OBVIOUS
  <2>3. pinnedCursor' = dropped
    BY <1>16 DEF HandleReload
  <2>4. CASE active = NoChat
    BY <1>16, <2>1, <2>2, <2>3, <2>4 DEF HandleReload, TypeOK
  <2>5. CASE active # NoChat
    <3>1. active \in Chats /\ AsyncLoadInitialMessagesForChat(dropped, active)
      BY <1>16, <2>5 DEF HandleReload, TypeOK
    <3>2. /\ cursor' \in [Chats -> MessageCursor \cup {NoCursor}]
          /\ tasks' \subseteq Task
          /\ started' \in Nat
          /\ initialMessagesLoaded' \in [Chats -> BOOLEAN]
          /\ shown' \in [Chats -> SUBSET Position]
      BY <2>2, <3>1, LoadInitialType
    <3> QED
      BY <1>16, <2>1, <2>2, <2>3, <3>2 DEF HandleReload, TypeOK
  <2> QED
    BY <2>4, <2>5
<1>17. ASSUME HandleBackupDone
       PROVE  TypeOK'
  <2>1. events' \in Seq(Event)
    BY <1>17, DequeueType DEF HandleBackupDone, TypeOK
  <2> QED
    BY <1>17, <2>1 DEF HandleBackupDone, TypeOK
<1>18. ASSUME NEW c \in Chats, SetActiveItem(c)
       PROVE  TypeOK'
  <2>1. /\ cursor' \in [Chats -> MessageCursor \cup {NoCursor}]
        /\ tasks' \subseteq Task
        /\ started' \in Nat
        /\ initialMessagesLoaded' \in [Chats -> BOOLEAN]
        /\ shown' \in [Chats -> SUBSET Position]
    BY <1>18, LoadInitialType DEF SetActiveItem, TypeOK
  <2> QED
    BY <1>18, <2>1 DEF SetActiveItem, TypeOK
<1>19. ASSUME NEW c \in Chats, LoadMoreMessages(c)
       PROVE  TypeOK'
  <2>1. /\ cursor' \in [Chats -> MessageCursor \cup {NoCursor}]
        /\ tasks' \subseteq Task
        /\ started' \in Nat
    BY <1>19, LoadMoreType DEF LoadMoreMessages, TypeOK
  <2> QED
    BY <1>19, <2>1 DEF LoadMoreMessages, TypeOK
<1>20. ASSUME NEW c \in Chats, PrefetchChat(c)
       PROVE  TypeOK'
  <2>1. /\ cursor' \in [Chats -> MessageCursor \cup {NoCursor}]
        /\ tasks' \subseteq Task
        /\ started' \in Nat
        /\ initialMessagesLoaded' \in [Chats -> BOOLEAN]
        /\ shown' \in [Chats -> SUBSET Position]
    BY <1>20, LoadInitialType DEF PrefetchChat, TypeOK
  <2>2. counts' \in [DOMAIN Bounds -> Nat]
    BY <1>20, CountType DEF PrefetchChat, TypeOK, Bounds
  <2> QED
    BY <1>20, <2>1, <2>2 DEF PrefetchChat, TypeOK
<1>21. CASE UNCHANGED vars
  BY <1>21 DEF vars, TypeOK
<1> QED
  BY <1>1, <1>2, <1>3, <1>4, <1>5, <1>6, <1>7, <1>8, <1>9, <1>10, <1>11, <1>12,
     <1>13, <1>14, <1>15, <1>16, <1>17, <1>18, <1>19, <1>20, <1>21
  DEF Next, StatusGo, ThreadPool, MainThread, User

\* The initial states have the types.
LEMMA TypeInit == Init => TypeOK
BY DEF Init, TypeOK, Bounds

\* Every variable of the loading of a chat keeps its type.
THEOREM TypeCorrect == Spec => []TypeOK
BY TypeInit, TypeStep, PTL DEF Spec
----------------------------------------------------------------------------
(* What a step does to the events and the tasks *)

\* A posted event does not take away the signals that are on their way.
LEMMA PostKeepsSignals ==
  ASSUME events \in Seq(Event), NEW type, NEW e, NEW m0, NEW id, Post(type, e, m0, id),
         NEW c, NEW m, Undelivered(c, m), unannounced' = unannounced
  PROVE  Undelivered(c, m)'
<1>1. CASE m \in unannounced[c]
  BY <1>1 DEF Undelivered
<1>2. CASE \E i \in DOMAIN events : /\ events[i].type = "message"
                                   /\ events[i].chat = c
                                   /\ events[i].msg = m
  <2>1. PICK i \in DOMAIN events : /\ events[i].type = "message"
                                   /\ events[i].chat = c
                                   /\ events[i].msg = m
    BY <1>2
  <2>2. i \in DOMAIN events' /\ events'[i] = events[i]
    BY <2>1 DEF Post
  <2> QED
    BY <2>1, <2>2 DEF Undelivered
<1> QED
  BY <1>1, <1>2 DEF Undelivered

\* Handling an event takes away no signal but its own.
LEMMA DequeueKeepsSignals ==
  ASSUME events \in Seq(Event), NEW type, Dequeue(type),
         NEW c, NEW m, Undelivered(c, m), unannounced' = unannounced,
         \/ type # "message"
         \/ Head(events).chat # c
         \/ Head(events).msg # m
  PROVE  Undelivered(c, m)'
<1>1. CASE m \in unannounced[c]
  BY <1>1 DEF Undelivered
<1>2. CASE \E i \in DOMAIN events : /\ events[i].type = "message"
                                   /\ events[i].chat = c
                                   /\ events[i].msg = m
  <2>1. PICK i \in DOMAIN events : /\ events[i].type = "message"
                                   /\ events[i].chat = c
                                   /\ events[i].msg = m
    BY <1>2
  <2>2. /\ events # <<>>
        /\ Head(events).type = type
        /\ events' = Tail(events)
    BY DEF Dequeue
  <2>3. i # 1
    BY <2>1, <2>2
  <2>4. i - 1 \in DOMAIN events' /\ events'[i - 1] = events[i]
    BY <2>1, <2>2, <2>3
  <2> QED
    BY <2>1, <2>4 DEF Undelivered
<1> QED
  BY <1>1, <1>2 DEF Undelivered

\* What asynchronously loading a page changes: at most one new task, which
\* asks for what follows the cursor of its chat.
LEMMA LoadMoreEffect ==
  ASSUME TypeOK, NEW c \in Chats,
         NEW cur \in [Chats -> MessageCursor \cup {NoCursor}],
         AsyncLoadMoreMessagesForChat(cur, c)
  PROVE  /\ \A d \in Chats \ {c} : cursor'[d] = cur[d]
         /\ \/ /\ IsFetchable(InitOrGet(cur[c]))
               /\ cursor'[c] = SetPending(InitOrGet(cur[c]))
               /\ tasks' = tasks \cup {StartTask("messages", c, InitOrGet(cur[c]).value)}
            \/ /\ cur[c] # NoCursor
               /\ ~IsFetchable(cur[c])
               /\ cursor'[c] = cur[c]
               /\ tasks' = tasks
<1>1. CASE IsFetchable(InitOrGet(cur[c]))
  BY <1>1 DEF AsyncLoadMoreMessagesForChat
<1>2. CASE ~IsFetchable(InitOrGet(cur[c]))
  <2>1. cur[c] # NoCursor
    BY <1>2 DEF IsFetchable, InitOrGet, InitMessageCursor
  <2>2. InitOrGet(cur[c]) = cur[c]
    BY <2>1 DEF InitOrGet
  <2> QED
    BY <1>2, <2>1, <2>2 DEF AsyncLoadMoreMessagesForChat, poolVars
<1> QED
  BY <1>1, <1>2

\* Asking for the initial messages leaves a chat that has a cursor alone.
LEMMA LoadInitialEffect ==
  ASSUME TypeOK, NEW c \in Chats,
         NEW cur \in [Chats -> MessageCursor \cup {NoCursor}],
         AsyncLoadInitialMessagesForChat(cur, c)
  PROVE  /\ \A d \in Chats \ {c} : cursor'[d] = cur[d]
         /\ \A d \in Chats : shown'[d] = shown[d]
         /\ \/ /\ cur[c] = NoCursor
               /\ cursor'[c] = SetPending(InitMessageCursor)
               /\ tasks' = tasks \cup {StartTask("messages", c, Empty)}
            \/ /\ cur[c] # NoCursor
               /\ cursor' = cur
               /\ tasks' = tasks
<1>1. CASE cur[c] # NoCursor
  <2>1. NewMessagesLoaded(c, {}) /\ cursor' = cur /\ UNCHANGED poolVars
    BY <1>1 DEF AsyncLoadInitialMessagesForChat
  <2>2. \A d \in Chats : shown'[d] = shown[d]
    BY <2>1 DEF NewMessagesLoaded, TypeOK
  <2> QED
    BY <1>1, <2>1, <2>2 DEF poolVars
<1>2. CASE cur[c] = NoCursor
  <2>1. /\ AsyncLoadMoreMessagesForChat(cur, c)
        /\ UNCHANGED <<shown, initialMessagesLoaded>>
    BY <1>2 DEF AsyncLoadInitialMessagesForChat
  <2>2. InitOrGet(cur[c]) = InitMessageCursor
    BY <1>2 DEF InitOrGet
  <2>3. InitMessageCursor.value = Empty
    BY DEF InitMessageCursor
  <2>4. /\ \A d \in Chats \ {c} : cursor'[d] = cur[d]
        /\ cursor'[c] = SetPending(InitMessageCursor)
        /\ tasks' = tasks \cup {StartTask("messages", c, Empty)}
    BY <1>2, <2>1, <2>2, <2>3, LoadMoreEffect
  <2> QED
    BY <1>2, <2>1, <2>4
<1> QED
  BY <1>1, <1>2

\* Asking for the pinned messages starts no load of messages.
LEMMA LoadPinnedEffect ==
  ASSUME NEW c \in Chats, NEW remaining,
         AsyncLoadPinnedMessagesForChat(c, remaining)
  PROVE  \/ tasks' = remaining
         \/ tasks' = remaining \cup {StartTask("pinned", c, InitOrGet(pinnedCursor[c]).value)}
BY DEF AsyncLoadPinnedMessagesForChat

\* What a step does to the tasks: it keeps them, starts new ones, or moves one
\* to a later stage.
TaskMoves(u) ==
  \/ u \in tasks
  \/ u.stage = "queued"
  \/ \E t \in tasks :
       /\ u.kind = t.kind /\ u.chat = t.chat /\ u.from = t.from
       /\ \/ u.kind = "pinned"
          \/ u.stage = "failed" /\ u.chat \in failed'
          \/ u.stage = "posted" /\ t.stage = "read" /\ u.next = t.next
          \/ u.stage = "read" /\ (u.next = Empty \/ u.from = Empty \/ u.next < u.from)

\* The position a page read returns is older than the one it started from.
LEMMA NextIsOlder ==
  ASSUME TypeOK, NEW c \in Chats, NEW from \in CursorValue, NEW limit \in Limits,
         NEW next \in NextPositions(Readable(c, from), limit)
  PROVE  next = Empty \/ from = Empty \/ next < from
<1> DEFINE candidates == Readable(c, from)
           newer == {m \in candidates : m > next}
<1>1. SUFFICES ASSUME next # Empty, from # Empty
               PROVE  next < from
  OBVIOUS
<1>2. next \in candidates /\ Cardinality(newer) = limit
  BY <1>1 DEF NextPositions
<1>3. newer # {}
  <2>1. limit \in Nat /\ limit # 0
    OBVIOUS
  <2> QED
    BY <1>2, <2>1, FS_EmptySet
<1>4. PICK m \in candidates : m > next
  BY <1>3
<1>5. /\ m \in stored[c] /\ m <= from
      /\ next \in stored[c]
  BY <1>1, <1>2, <1>4 DEF Readable
<1>6. stored[c] \subseteq Nat /\ from \in Nat
  BY DEF TypeOK, Position, CursorValue, Empty
<1> QED
  BY <1>4, <1>5, <1>6

\* Every task after a step is an old one, a new one, or an old one moved on.
LEMMA TasksMove ==
  ASSUME TypeOK, [Next]_vars
  PROVE  \A u \in tasks' : TaskMoves(u)
<1> USE DEF poolVars
<1>1. ASSUME NEW c \in Chats,
             NEW cur \in [Chats -> MessageCursor \cup {NoCursor}],
             \/ AsyncLoadMoreMessagesForChat(cur, c)
             \/ AsyncLoadInitialMessagesForChat(cur, c)
      PROVE  \A u \in tasks' : TaskMoves(u)
  <2>1. \E from : tasks' \subseteq tasks \cup {StartTask("messages", c, from)}
    BY <1>1, LoadMoreEffect, LoadInitialEffect
  <2> QED
    BY <2>1 DEF TaskMoves, StartTask
<1>2. ASSUME UNCHANGED poolVars
      PROVE  \A u \in tasks' : TaskMoves(u)
  BY <1>2 DEF TaskMoves
<1>3. ASSUME NEW t \in tasks, ReadPage(t)
      PROVE  \A u \in tasks' : TaskMoves(u)
  <2>1. t \in Task
    BY DEF TypeOK
  <2>2. PICK limit \in Limits, next \in CursorValue :
          /\ next \in NextPositions(Readable(t.chat, t.from), limit)
          /\ Replace(t, [t EXCEPT !.stage = "read", !.next = next,
                                  !.page = {m \in Readable(t.chat, t.from) : m > next}])
    BY <1>3 DEF ReadPage
  <2>3. next = Empty \/ t.from = Empty \/ next < t.from
    BY <2>1, <2>2, NextIsOlder DEF Task
  <2> QED
    BY <2>1, <2>2, <2>3 DEF Replace, TaskMoves, Task
<1>4. ASSUME NEW t \in tasks, ReadPinned(t)
      PROVE  \A u \in tasks' : TaskMoves(u)
  <2>1. t \in Task
    BY DEF TypeOK
  <2> QED
    BY <1>4, <2>1 DEF ReadPinned, Replace, TaskMoves, Task
<1>5. ASSUME NEW t \in tasks, FinishTask(t)
      PROVE  \A u \in tasks' : TaskMoves(u)
  <2>1. t \in Task
    BY DEF TypeOK
  <2> QED
    BY <1>5, <2>1 DEF FinishTask, Replace, TaskMoves, Task
<1>6. ASSUME NEW t \in tasks, FailTask(t)
      PROVE  \A u \in tasks' : TaskMoves(u)
  <2>1. t \in Task
    BY DEF TypeOK
  <2>2. t.kind = "pinned" \/ t.chat \in failed'
    BY <1>6, <2>1 DEF FailTask, Task
  <2> QED
    BY <1>6, <2>1, <2>2 DEF FailTask, Replace, TaskMoves, Task
<1>7. ASSUME NEW t \in tasks, HandleMessagesLoaded(t)
      PROVE  \A u \in tasks' : TaskMoves(u)
  <2>1. t.chat \in Chats
    BY DEF TypeOK, Task
  <2>2. \E from : tasks' \subseteq tasks \cup {StartTask("pinned", t.chat, from)}
    BY <1>7, <2>1, LoadPinnedEffect DEF HandleMessagesLoaded
  <2> QED
    BY <2>2 DEF TaskMoves, StartTask
<1>8. ASSUME NEW t \in tasks, HandleMessagesFailed(t) \/ HandlePinnedAnswer(t)
      PROVE  \A u \in tasks' : TaskMoves(u)
  BY <1>8 DEF HandleMessagesFailed, HandlePinnedAnswer, TaskMoves
<1>9. ASSUME NEW c \in Chats, HandleChannelImported(c)
      PROVE  \A u \in tasks' : TaskMoves(u)
  <2>1. [cursor EXCEPT ![c] = NoCursor] \in [Chats -> MessageCursor \cup {NoCursor}]
    BY DEF TypeOK
  <2> QED
    BY <1>1, <1>9, <2>1 DEF HandleChannelImported
<1>10. ASSUME HandleReload
       PROVE  \A u \in tasks' : TaskMoves(u)
  <2> DEFINE dropped == [c \in Chats |-> NoCursor]
  <2>1. dropped \in [Chats -> MessageCursor \cup {NoCursor}]
    OBVIOUS
  <2>2. CASE active = NoChat
    BY <1>2, <1>10, <2>2 DEF HandleReload
  <2>3. CASE active # NoChat
    <3>1. active \in Chats /\ AsyncLoadInitialMessagesForChat(dropped, active)
      BY <1>10, <2>3 DEF HandleReload, TypeOK
    <3> QED
      BY <1>1, <2>1, <3>1
  <2> QED
    BY <2>2, <2>3
<1>11. ASSUME NEW c \in Chats, SetActiveItem(c) \/ LoadMoreMessages(c) \/ PrefetchChat(c)
       PROVE  \A u \in tasks' : TaskMoves(u)
  <2>1. cursor \in [Chats -> MessageCursor \cup {NoCursor}]
    BY DEF TypeOK
  <2> QED
    BY <1>1, <1>11, <2>1 DEF SetActiveItem, LoadMoreMessages, PrefetchChat
<1>12. ASSUME StatusGo \/ HandleBackupDone \/ UNCHANGED vars
       PROVE  \A u \in tasks' : TaskMoves(u)
  <2>1. UNCHANGED poolVars
    BY <1>12 DEF StatusGo, StoreMessage, AnnounceMessage, EditMessage, ImportCommunity,
       RestoreBackup, ImportChannel, HandleBackupDone, vars
  <2> QED
    BY <1>2, <2>1
<1>13. ASSUME NEW c \in Chats, NEW m \in Position, HandleMessage(c, m)
       PROVE  \A u \in tasks' : TaskMoves(u)
  BY <1>2, <1>13 DEF HandleMessage
<1> QED
  BY <1>3, <1>4, <1>5, <1>6, <1>7, <1>8, <1>9, <1>10, <1>11, <1>12, <1>13
  DEF Next, ThreadPool, MainThread, User

\* No step forgets that a chat failed or was disturbed.
LEMMA HistoryGrows ==
  ASSUME TypeOK, [Next]_vars
  PROVE  failed \subseteq failed' /\ disturbed \subseteq disturbed'
<1> USE DEF historyVars
<1>1. ASSUME StatusGo PROVE failed \subseteq failed' /\ disturbed \subseteq disturbed'
  BY <1>1 DEF StatusGo, StoreMessage, AnnounceMessage, EditMessage, ImportCommunity,
     RestoreBackup, ImportChannel, TypeOK
<1>2. ASSUME ThreadPool PROVE failed \subseteq failed' /\ disturbed \subseteq disturbed'
  BY <1>2 DEF ThreadPool, ReadPage, ReadPinned, FinishTask, FailTask
<1>3. ASSUME MainThread PROVE failed \subseteq failed' /\ disturbed \subseteq disturbed'
  BY <1>3 DEF MainThread, HandleMessage, HandleMessagesLoaded, HandleMessagesFailed,
     HandlePinnedAnswer, HandleChannelImported, HandleReload, HandleBackupDone
<1>4. ASSUME User PROVE failed \subseteq failed' /\ disturbed \subseteq disturbed'
  BY <1>4 DEF User, SetActiveItem, LoadMoreMessages, PrefetchChat
<1> QED
  BY <1>1, <1>2, <1>3, <1>4 DEF Next, vars

\* The failure of a page read stays known.
LEMMA FailuresAreKnownStep ==
  ASSUME TypeOK, FailuresAreKnown, [Next]_vars
  PROVE  FailuresAreKnown'
<1>1. failed' \subseteq disturbed'
  <2>1. ASSUME NEW t \in tasks, FailTask(t) PROVE failed' \subseteq disturbed'
    BY <2>1 DEF FailTask, FailuresAreKnown
  <2>2. ASSUME UNCHANGED failed PROVE failed' \subseteq disturbed'
    BY <2>2, HistoryGrows DEF FailuresAreKnown
  <2>3. ASSUME StatusGo \/ MainThread \/ User \/ UNCHANGED vars PROVE UNCHANGED failed
    BY <2>3 DEF StatusGo, StoreMessage, AnnounceMessage, EditMessage, ImportCommunity,
       RestoreBackup, ImportChannel, MainThread, HandleMessage, HandleMessagesLoaded,
       HandleMessagesFailed, HandlePinnedAnswer, HandleChannelImported, HandleReload,
       HandleBackupDone, User, SetActiveItem, LoadMoreMessages, PrefetchChat,
       historyVars, vars
  <2>4. ASSUME NEW t \in tasks, ReadPage(t) \/ ReadPinned(t) \/ FinishTask(t)
        PROVE  UNCHANGED failed
    BY <2>4 DEF ReadPage, ReadPinned, FinishTask, historyVars
  <2> QED
    BY <2>1, <2>2, <2>3, <2>4 DEF Next, ThreadPool
<1>2. ASSUME NEW u \in tasks', u.kind = "messages", u.stage = "failed"
      PROVE  u.chat \in failed'
  <2>1. TaskMoves(u)
    BY TasksMove
  <2>2. CASE u \in tasks
    BY <1>2, <2>2, HistoryGrows DEF FailuresAreKnown
  <2> QED
    BY <1>2, <2>1, <2>2 DEF TaskMoves
<1> QED
  BY <1>1, <1>2 DEF FailuresAreKnown

\* The pages of a chat keep going back in time.
LEMMA PagesGoBackStep ==
  ASSUME TypeOK, PagesGoBack, [Next]_vars
  PROVE  PagesGoBack'
<1>1. SUFFICES ASSUME NEW u \in tasks', u.kind = "messages", u.stage \in {"read", "posted"}
               PROVE  u.next = Empty \/ u.from = Empty \/ u.next < u.from
  BY DEF PagesGoBack
<1>2. TaskMoves(u)
  BY TasksMove
<1>3. CASE u \in tasks
  BY <1>1, <1>3 DEF PagesGoBack
<1>4. CASE \E t \in tasks : /\ t.kind = "messages" /\ u.from = t.from
                           /\ t.stage = "read" /\ u.next = t.next
  BY <1>4 DEF PagesGoBack
<1> QED
  BY <1>1, <1>2, <1>3, <1>4 DEF TaskMoves

\* Posting an event keeps every posted reset disturbing, if the event itself
\* does not reset an undisturbed chat.
LEMMA PostKeepsResets ==
  ASSUME events \in Seq(Event), ResetsDisturb, disturbed \subseteq disturbed',
         disturbed' \subseteq Chats, NEW type, NEW c, NEW m, NEW id, Post(type, c, m, id),
         type \in {"reload", "backupDone"} => disturbed' = Chats,
         type = "channelImported" => c \in disturbed'
  PROVE  ResetsDisturb'
<1>1. ASSUME NEW i \in DOMAIN events'
      PROVE  /\ events'[i].type \in {"reload", "backupDone"} => disturbed' = Chats
             /\ events'[i].type = "channelImported" => events'[i].chat \in disturbed'
  <2>1. \/ i \in DOMAIN events /\ events'[i] = events[i]
        \/ events'[i] = [type |-> type, chat |-> c, msg |-> m, task |-> id]
    BY <1>1 DEF Post
  <2>2. CASE i \in DOMAIN events /\ events'[i] = events[i]
    BY <2>2 DEF ResetsDisturb
  <2>3. CASE events'[i] = [type |-> type, chat |-> c, msg |-> m, task |-> id]
    BY <2>3
  <2> QED
    BY <2>1, <2>2, <2>3
<1> QED
  BY <1>1 DEF ResetsDisturb

\* Handling an event keeps every posted reset disturbing.
LEMMA DequeueKeepsResets ==
  ASSUME events \in Seq(Event), ResetsDisturb, UNCHANGED disturbed, NEW type, Dequeue(type)
  PROVE  ResetsDisturb'
<1>1. ASSUME NEW i \in DOMAIN events'
      PROVE  /\ events'[i].type \in {"reload", "backupDone"} => disturbed' = Chats
             /\ events'[i].type = "channelImported" => events'[i].chat \in disturbed'
  <2>1. events # <<>> /\ events' = Tail(events)
    BY DEF Dequeue
  <2>2. i + 1 \in DOMAIN events /\ events'[i] = events[i + 1]
    BY <1>1, <2>1
  <2> QED
    BY <2>2 DEF ResetsDisturb
<1> QED
  BY <1>1 DEF ResetsDisturb

\* Only a chat that is already disturbed is reset.
LEMMA ResetsDisturbStep ==
  ASSUME TypeOK, ResetsDisturb, [Next]_vars
  PROVE  ResetsDisturb'
<1> USE DEF historyVars
<1>0. /\ disturbed \subseteq disturbed' /\ disturbed' \subseteq Chats
      /\ events \in Seq(Event)
  BY HistoryGrows, TypeStep DEF TypeOK
<1>1. ASSUME UNCHANGED events
      PROVE  ResetsDisturb'
  BY <1>0, <1>1 DEF ResetsDisturb
<1>2. ASSUME StatusGo
      PROVE  ResetsDisturb'
  <2>1. ASSUME NEW c \in Chats, NEW m \in Position,
               StoreMessage(c, m) \/ AnnounceMessage(c, m) \/ EditMessage(c, m)
        PROVE  ResetsDisturb'
    BY <1>0, <1>1, <2>1, PostKeepsResets DEF StoreMessage, AnnounceMessage, EditMessage
  <2>2. ASSUME NEW new \in [Chats -> SUBSET Position], ImportCommunity(new) \/ RestoreBackup(new)
        PROVE  ResetsDisturb'
    BY <1>0, <2>2, PostKeepsResets DEF ImportCommunity, RestoreBackup
  <2>3. ASSUME NEW c \in Chats, NEW new \in SUBSET Position, ImportChannel(c, new)
        PROVE  ResetsDisturb'
    BY <1>0, <2>3, PostKeepsResets DEF ImportChannel
  <2> QED
    BY <1>2, <2>1, <2>2, <2>3 DEF StatusGo
<1>3. ASSUME ThreadPool
      PROVE  ResetsDisturb'
  <2>1. ASSUME NEW t \in tasks, ReadPage(t)
        PROVE  ResetsDisturb'
    BY <1>1, <2>1 DEF ReadPage
  <2>2. ASSUME NEW t \in tasks, ReadPinned(t) \/ FinishTask(t) \/ FailTask(t)
        PROVE  ResetsDisturb'
    <3>1. Post("answer", t.chat, Empty, t.id)
      BY <2>2 DEF ReadPinned, FinishTask, FailTask
    <3> QED
      BY <1>0, <3>1, PostKeepsResets
  <2> QED
    BY <1>3, <2>1, <2>2 DEF ThreadPool
<1>4. ASSUME MainThread
      PROVE  ResetsDisturb'
  BY <1>0, <1>4, DequeueKeepsResets
  DEF MainThread, HandleMessage, HandleMessagesLoaded, HandleMessagesFailed, Answered,
      HandlePinnedAnswer, HandleChannelImported, HandleReload, HandleBackupDone
<1>5. ASSUME User \/ UNCHANGED vars
      PROVE  ResetsDisturb'
  BY <1>1, <1>5 DEF User, SetActiveItem, LoadMoreMessages, PrefetchChat, vars
<1> QED
  BY <1>2, <1>3, <1>4, <1>5 DEF Next
----------------------------------------------------------------------------
(* A chat that waits for a page has it on its way *)

\* A cursor that starts to wait, or waits on, has a page in flight.
LEMMA LoadMoreIsAnswered ==
  ASSUME TypeOK, PendingIsAnswered, NEW c \in Chats,
         NEW cur \in [Chats -> MessageCursor \cup {NoCursor}],
         \A d \in Chats : cur[d] \in {cursor[d], NoCursor},
         AsyncLoadMoreMessagesForChat(cur, c) \/ AsyncLoadInitialMessagesForChat(cur, c),
         UNCHANGED failed
  PROVE  PendingIsAnswered'
<1> SUFFICES ASSUME NEW d \in Chats \ failed, Pending(d)'
             PROVE  InFlight(d)' # {}
  BY DEF PendingIsAnswered
<1>1. \/ \E from : tasks' = tasks \cup {StartTask("messages", c, from)}
      \/ tasks' = tasks /\ cursor' = cur
      \/ tasks' = tasks /\ cursor'[c] = cur[c]
  BY LoadMoreEffect, LoadInitialEffect
<1>2. \A e \in Chats \ {c} : cursor'[e] = cur[e]
  BY LoadMoreEffect, LoadInitialEffect
<1>3. CASE d = c /\ \E from : tasks' = tasks \cup {StartTask("messages", c, from)}
  <2>1. PICK from : tasks' = tasks \cup {StartTask("messages", c, from)}
    BY <1>3
  <2>2. StartTask("messages", c, from) \in InFlight(c)'
    BY <2>1 DEF InFlight, StartTask
  <2> QED
    BY <1>3, <2>2
<1>4. CASE cursor'[d] = cur[d]
  <2>1. Pending(d)
    BY <1>4 DEF Pending
  <2>2. InFlight(d) # {}
    BY <2>1 DEF PendingIsAnswered
  <2>3. tasks \subseteq tasks'
    BY <1>1
  <2> QED
    BY <2>2, <2>3 DEF InFlight
<1> QED
  BY <1>1, <1>2, <1>3, <1>4

\* Moving a task to its next stage keeps it in flight.
LEMMA ReplaceIsAnswered ==
  ASSUME TypeOK, PendingIsAnswered, NEW t \in tasks, NEW u, Replace(t, u),
         u.kind = t.kind, u.chat = t.chat, UNCHANGED cursor, failed \subseteq failed'
  PROVE  PendingIsAnswered'
<1> SUFFICES ASSUME NEW d \in Chats \ failed', Pending(d)'
             PROVE  InFlight(d)' # {}
  BY DEF PendingIsAnswered
<1>1. PICK v \in tasks : v.kind = "messages" /\ v.chat = d
  BY DEF Pending, PendingIsAnswered, InFlight
<1>2. CASE v = t
  BY <1>1, <1>2 DEF Replace, InFlight
<1>3. CASE v # t
  BY <1>1, <1>3 DEF Replace, InFlight
<1> QED
  BY <1>2, <1>3

\* Every step keeps an answer on its way to every cursor that waits for one.
LEMMA PendingIsAnsweredStep ==
  ASSUME TypeOK, FailuresAreKnown, PendingIsAnswered, [Next]_vars
  PROVE  PendingIsAnswered'
<1> USE DEF poolVars, serviceVars, viewVars, historyVars
<1>1. ASSUME UNCHANGED <<cursor, tasks, failed>>
      PROVE  PendingIsAnswered'
  BY <1>1 DEF PendingIsAnswered, Pending, InFlight
<1>2. ASSUME StatusGo \/ UNCHANGED vars
      PROVE  PendingIsAnswered'
  <2>1. UNCHANGED <<cursor, tasks, failed>>
    BY <1>2 DEF StatusGo, StoreMessage, AnnounceMessage, EditMessage, ImportCommunity,
       RestoreBackup, ImportChannel, vars
  <2> QED
    BY <1>1, <2>1
<1>3. ASSUME NEW t \in tasks, ReadPage(t) \/ ReadPinned(t) \/ FinishTask(t) \/ FailTask(t)
      PROVE  PendingIsAnswered'
  <2>1. t \in Task
    BY DEF TypeOK
  <2>2. \E u : Replace(t, u) /\ u.kind = t.kind /\ u.chat = t.chat
    <3>1. CASE ReadPage(t)
      <4>1. PICK next, page :
              Replace(t, [t EXCEPT !.stage = "read", !.next = next, !.page = page])
        BY <3>1 DEF ReadPage
      <4> DEFINE u == [t EXCEPT !.stage = "read", !.next = next, !.page = page]
      <4>2. u.kind = t.kind /\ u.chat = t.chat
        BY <2>1 DEF Task
      <4> HIDE DEF u
      <4>3. Replace(t, u)
        BY <4>1 DEF u
      <4> QED
        BY <4>2, <4>3
    <3>2. CASE ReadPinned(t) \/ FinishTask(t) \/ FailTask(t)
      <4>1. \E stage \in {"posted", "failed"} : Replace(t, [t EXCEPT !.stage = stage])
        BY <3>2 DEF ReadPinned, FinishTask, FailTask
      <4> QED
        BY <2>1, <4>1 DEF Task
    <3> QED
      BY <1>3, <3>1, <3>2
  <2>3. UNCHANGED cursor /\ failed \subseteq failed'
    BY <1>3 DEF ReadPage, ReadPinned, FinishTask, FailTask
  <2> QED
    BY <2>2, <2>3, ReplaceIsAnswered
<1>4. ASSUME NEW c \in Chats, NEW m \in Position, HandleMessage(c, m)
      PROVE  PendingIsAnswered'
  <2>1. /\ UNCHANGED <<tasks, failed>>
        /\ \A d \in Chats : Pending(d)' => Pending(d)
    BY <1>4 DEF HandleMessage, Pending, MakeObsolete, MessageCursor, TypeOK
  <2> QED
    BY <2>1 DEF PendingIsAnswered, InFlight
<1>5. ASSUME NEW t \in tasks, HandleMessagesLoaded(t)
      PROVE  PendingIsAnswered'
  <2>1. t.chat \in Chats /\ t.next \in CursorValue
    BY DEF TypeOK, Task
  <2>2. ~Pending(t.chat)'
    <3>1. cursor'[t.chat] = SetValue(InitOrGet(cursor[t.chat]), t.next)
      BY <1>5, <2>1 DEF HandleMessagesLoaded, TypeOK
    <3>2. InitOrGet(cursor[t.chat]) \in MessageCursor
      BY <2>1, CursorOperations DEF TypeOK
    <3> QED
      BY <3>1, <3>2 DEF Pending, SetValue, MessageCursor
  <2>3. ASSUME NEW d \in Chats, d # t.chat
        PROVE  cursor'[d] = cursor[d]
    BY <1>5, <2>3 DEF HandleMessagesLoaded, TypeOK
  <2>4. tasks \ {t} \subseteq tasks'
    BY <1>5, <2>1, LoadPinnedEffect DEF HandleMessagesLoaded
  <2>5. UNCHANGED failed
    BY <1>5 DEF HandleMessagesLoaded
  <2> QED
    BY <2>2, <2>3, <2>4, <2>5 DEF PendingIsAnswered, Pending, InFlight
<1>6. ASSUME NEW t \in tasks, HandleMessagesFailed(t)
      PROVE  PendingIsAnswered'
  <2>1. t.chat \in failed
    BY <1>6 DEF HandleMessagesFailed, FailuresAreKnown
  <2>2. tasks' = tasks \ {t} /\ UNCHANGED <<cursor, failed>>
    BY <1>6 DEF HandleMessagesFailed
  <2> QED
    BY <2>1, <2>2 DEF PendingIsAnswered, Pending, InFlight
<1>7. ASSUME NEW t \in tasks, HandlePinnedAnswer(t)
      PROVE  PendingIsAnswered'
  <2>1. t.kind = "pinned" /\ tasks' = tasks \ {t} /\ UNCHANGED <<cursor, failed>>
    BY <1>7 DEF HandlePinnedAnswer
  <2> QED
    BY <2>1 DEF PendingIsAnswered, Pending, InFlight
<1>8. ASSUME NEW c \in Chats, HandleChannelImported(c)
      PROVE  PendingIsAnswered'
  <2> DEFINE cur == [cursor EXCEPT ![c] = NoCursor]
  <2>1. /\ cur \in [Chats -> MessageCursor \cup {NoCursor}]
        /\ \A d \in Chats : cur[d] \in {cursor[d], NoCursor}
    BY DEF TypeOK
  <2>2. AsyncLoadMoreMessagesForChat(cur, c) /\ UNCHANGED failed
    BY <1>8 DEF HandleChannelImported
  <2> HIDE DEF cur
  <2> QED
    BY <2>1, <2>2, LoadMoreIsAnswered
<1>9. ASSUME HandleReload
      PROVE  PendingIsAnswered'
  <2> DEFINE dropped == [c \in Chats |-> NoCursor]
  <2>1. /\ dropped \in [Chats -> MessageCursor \cup {NoCursor}]
        /\ \A d \in Chats : dropped[d] \in {cursor[d], NoCursor}
    OBVIOUS
  <2>2. CASE active = NoChat
    <3>1. cursor' = dropped
      BY <1>9, <2>2 DEF HandleReload
    <3> QED
      BY <3>1 DEF PendingIsAnswered, Pending
  <2>3. CASE active # NoChat
    <3>1. /\ active \in Chats
          /\ AsyncLoadInitialMessagesForChat(dropped, active)
          /\ UNCHANGED failed
      BY <1>9, <2>3 DEF HandleReload, TypeOK
    <3> HIDE DEF dropped
    <3> QED
      BY <2>1, <3>1, LoadMoreIsAnswered
  <2> QED
    BY <2>2, <2>3
<1>10. ASSUME HandleBackupDone
       PROVE  PendingIsAnswered'
  BY <1>10 DEF HandleBackupDone, PendingIsAnswered, Pending
<1>11. ASSUME NEW c \in Chats, SetActiveItem(c) \/ LoadMoreMessages(c) \/ PrefetchChat(c)
       PROVE  PendingIsAnswered'
  <2>1. cursor \in [Chats -> MessageCursor \cup {NoCursor}]
    BY DEF TypeOK
  <2>2. /\ AsyncLoadMoreMessagesForChat(cursor, c) \/ AsyncLoadInitialMessagesForChat(cursor, c)
        /\ UNCHANGED failed
    BY <1>11 DEF SetActiveItem, LoadMoreMessages, PrefetchChat
  <2> QED
    BY <2>1, <2>2, LoadMoreIsAnswered
<1> QED
  BY <1>2, <1>3, <1>4, <1>5, <1>6, <1>7, <1>8, <1>9, <1>10, <1>11
  DEF Next, ThreadPool, MainThread, User
----------------------------------------------------------------------------
(* A chat whose load nothing has cut across *)

\* The parts of the invariant that hold of such a chat.
Held(c) ==
  /\ Undisturbed(c)
  /\ \A t, u \in InFlight(c) : t = u
  /\ \A m \in stored[c] : Accounted(c, m)

\* A step that does not concern the load of chat c.
Quiet(c) ==
  /\ cursor'[c] = cursor[c]
  /\ InFlight(c)' = InFlight(c)
  /\ stored'[c] = stored[c]
  /\ shown[c] \subseteq shown'[c]
  /\ raced[c] \subseteq raced'[c]
  /\ listening \subseteq listening'
  /\ \A m \in Position : Undelivered(c, m) => Undelivered(c, m)'

\* Such a step keeps what holds of the chat.
LEMMA QuietHolds ==
  ASSUME TypeOK, NEW c \in Chats, Held(c), Quiet(c)
  PROVE  Held(c)'
<1>1. Pending(c)' = Pending(c)
  BY DEF Quiet, Pending
<1>2. Undisturbed(c)'
  BY <1>1 DEF Held, Undisturbed, Quiet
<1>3. \A t, u \in InFlight(c)' : t = u
  BY DEF Held, Quiet
<1>4. ASSUME NEW m \in stored'[c]
      PROVE  Accounted(c, m)'
  <2>1. m \in Position /\ Accounted(c, m)
    BY <1>4 DEF Held, Quiet, TypeOK
  <2> QED
    BY <2>1 DEF Accounted, Quiet, Brings
<1> QED
  BY <1>2, <1>3, <1>4 DEF Held

\* Moving on a task of another chat, or of pins, or dropping it, does not
\* concern the loads of a chat.
LEMMA OtherTasks ==
  ASSUME NEW c \in Chats, NEW t \in tasks, t.kind # "messages" \/ t.chat # c,
         \/ tasks' = tasks \ {t}
         \/ \E u : tasks' = (tasks \ {t}) \cup {u} /\ (u.kind # "messages" \/ u.chat # c)
  PROVE  InFlight(c)' = InFlight(c)
BY DEF InFlight

\* status-go's steps hold what they store for the signal.
LEMMA StatusGoHolds ==
  ASSUME TypeOK, NEW d \in Chats, Held(d), d \notin disturbed', StatusGo
  PROVE  Held(d)'
<1> USE DEF poolVars, serviceVars, viewVars, historyVars
<1>1. ASSUME NEW c \in Chats, NEW m \in Position, StoreMessage(c, m)
      PROVE  Held(d)'
  <2>1. /\ UNCHANGED <<cursor, tasks, shown, raced, listening, events>>
        /\ \A n \in Position : Undelivered(d, n) => Undelivered(d, n)'
    BY <1>1 DEF StoreMessage, Undelivered, TypeOK
  <2>2. CASE d # c
    <3>1. stored'[d] = stored[d]
      BY <1>1, <2>2 DEF StoreMessage, TypeOK
    <3> QED
      BY <2>1, <3>1, QuietHolds DEF Quiet, InFlight
  <2>3. CASE d = c
    <3>1. /\ stored'[d] = stored[d] \cup {m}
          /\ m \in unannounced'[d]
      BY <1>1, <2>3 DEF StoreMessage, TypeOK
    <3>2. Accounted(d, m)'
      BY <3>1 DEF Accounted, Undelivered
    <3>3. ASSUME NEW n \in stored[d] PROVE Accounted(d, n)'
      <4>1. Accounted(d, n) /\ n \in Position
        BY DEF Held, TypeOK
      <4> QED
        BY <2>1, <4>1 DEF Accounted, InFlight
    <3>4. Undisturbed(d)' /\ \A t, u \in InFlight(d)' : t = u
      BY <2>1 DEF Held, Undisturbed, InFlight, Pending
    <3> QED
      BY <3>1, <3>2, <3>3, <3>4 DEF Held
  <2> QED
    BY <2>2, <2>3
<1>2. ASSUME NEW c \in Chats, NEW m \in Position, AnnounceMessage(c, m)
      PROVE  Held(d)'
  <2>1. /\ UNCHANGED <<stored, cursor, tasks, shown, raced, listening>>
        /\ Post("message", c, m, 0)
        /\ unannounced' = [unannounced EXCEPT ![c] = @ \ {m}]
    BY <1>2 DEF AnnounceMessage
  <2>2. ASSUME NEW n \in Position, Undelivered(d, n)
        PROVE  Undelivered(d, n)'
    <3>1. CASE \E i \in DOMAIN events : /\ events[i].type = "message"
                                       /\ events[i].chat = d
                                       /\ events[i].msg = n
      <4>1. PICK i \in DOMAIN events : /\ events[i].type = "message"
                                       /\ events[i].chat = d
                                       /\ events[i].msg = n
        BY <3>1
      <4>2. i \in DOMAIN events' /\ events'[i] = events[i]
        BY <2>1, <4>1 DEF Post, TypeOK
      <4> QED
        BY <4>1, <4>2 DEF Undelivered
    <3>2. CASE n \in unannounced[d] /\ (d # c \/ n # m)
      <4>1. n \in unannounced'[d]
        BY <2>1, <3>2 DEF TypeOK
      <4> QED
        BY <4>1 DEF Undelivered
    <3>3. CASE d = c /\ n = m
      <4> DEFINE e == [type |-> "message", chat |-> c, msg |-> m, task |-> 0]
      <4>1. Len(events) + 1 \in DOMAIN events' /\ events'[Len(events) + 1] = e
        BY <2>1 DEF Post, TypeOK
      <4> QED
        BY <3>3, <4>1 DEF Undelivered
    <3> QED
      BY <2>2, <3>1, <3>2, <3>3 DEF Undelivered
  <2> QED
    BY <2>1, <2>2, QuietHolds DEF Quiet, InFlight
<1>3. ASSUME NEW c \in Chats, NEW m \in Position, EditMessage(c, m)
      PROVE  Held(d)'
  <2>1. /\ UNCHANGED <<stored, unannounced, cursor, tasks, shown, raced, listening>>
        /\ Post("message", c, m, 0)
    BY <1>3 DEF EditMessage
  <2>2. \A n \in Position : Undelivered(d, n) => Undelivered(d, n)'
    BY <2>1, PostKeepsSignals DEF TypeOK
  <2> QED
    BY <2>1, <2>2, QuietHolds DEF Quiet, InFlight
<1>4. ASSUME NEW new \in [Chats -> SUBSET Position], ImportCommunity(new) \/ RestoreBackup(new)
      PROVE  Held(d)'
  BY <1>4 DEF ImportCommunity, RestoreBackup
<1>5. ASSUME NEW c \in Chats, NEW new \in SUBSET Position, ImportChannel(c, new)
      PROVE  Held(d)'
  <2>1. /\ UNCHANGED <<unannounced, cursor, tasks, shown, raced, listening>>
        /\ Post("channelImported", c, Empty, 0)
        /\ d # c
        /\ stored' = [stored EXCEPT ![c] = @ \cup new]
    BY <1>5 DEF ImportChannel
  <2>2. \A n \in Position : Undelivered(d, n) => Undelivered(d, n)'
    BY <2>1, PostKeepsSignals DEF TypeOK
  <2>3. stored'[d] = stored[d]
    BY <2>1 DEF TypeOK
  <2> QED
    BY <2>1, <2>2, <2>3, QuietHolds DEF Quiet, InFlight
<1> QED
  BY <1>1, <1>2, <1>3, <1>4, <1>5 DEF StatusGo

\* The pool's steps keep what the reads of the chat will bring.
LEMMA ThreadPoolHolds ==
  ASSUME TypeOK, FailuresAreKnown, NEW d \in Chats, Held(d), d \notin disturbed',
         ThreadPool
  PROVE  Held(d)'
<1> USE DEF serviceVars, viewVars, historyVars
<1>1. PICK t \in tasks : ReadPage(t) \/ ReadPinned(t) \/ FinishTask(t) \/ FailTask(t)
  BY DEF ThreadPool
<1>2. t \in Task
  BY DEF TypeOK
<1>3. /\ UNCHANGED <<stored, unannounced, cursor, shown, raced, listening>>
      /\ \A m \in Position : Undelivered(d, m) => Undelivered(d, m)'
  <2>1. UNCHANGED <<stored, unannounced, cursor, shown, raced, listening>>
    BY <1>1 DEF ReadPage, ReadPinned, FinishTask, FailTask
  <2>2. UNCHANGED events \/ Post("answer", t.chat, Empty, t.id)
    BY <1>1 DEF ReadPage, ReadPinned, FinishTask, FailTask
  <2> QED
    BY <2>1, <2>2, PostKeepsSignals DEF Undelivered, TypeOK
<1>4. PICK u : /\ Replace(t, u)
               /\ u.kind = t.kind /\ u.chat = t.chat /\ u.from = t.from
               /\ t.kind = "messages" /\ t.chat = d =>
                    \A m \in stored[d] : Brings(t, m) => Brings(u, m)
  <2>1. CASE ReadPage(t)
    <3>1. PICK next \in CursorValue :
            Replace(t, [t EXCEPT !.stage = "read", !.next = next,
                                !.page = {m \in Readable(t.chat, t.from) : m > next}])
      BY <2>1 DEF ReadPage
    <3> DEFINE page == {m \in Readable(t.chat, t.from) : m > next}
               u == [t EXCEPT !.stage = "read", !.next = next, !.page = page]
    <3>2. /\ u.kind = t.kind /\ u.chat = t.chat /\ u.from = t.from
          /\ u.stage = "read" /\ u.next = next /\ u.page = page
      BY <1>2 DEF Task
    <3>3. ASSUME t.chat = d, NEW m \in stored[d], Brings(t, m)
          PROVE  m \in page \/ m <= next
      <4>1. t.stage = "queued"
        BY <2>1 DEF ReadPage
      <4>2. m \in Readable(t.chat, t.from)
        BY <3>3, <4>1 DEF Brings, Readable
      <4>3. m \in Nat /\ next \in Nat
        BY DEF TypeOK, Position, CursorValue, Empty
      <4> QED
        BY <4>2, <4>3
    <3>4. Replace(t, u)
      BY <3>1
    <3> HIDE DEF u, page
    <3>5. t.chat = d => \A m \in stored[d] : Brings(t, m) => Brings(u, m)
      BY <3>2, <3>3 DEF Brings
    <3> QED
      BY <3>2, <3>4, <3>5
  <2>2. CASE ReadPinned(t)
    <3> DEFINE u == [t EXCEPT !.stage = "posted"]
    <3>1. u.kind = t.kind /\ u.chat = t.chat /\ u.from = t.from
      BY <1>2 DEF Task
    <3>2. Replace(t, u) /\ t.kind # "messages"
      BY <2>2 DEF ReadPinned
    <3> HIDE DEF u
    <3> QED
      BY <3>1, <3>2
  <2>3. CASE FinishTask(t)
    <3> DEFINE u == [t EXCEPT !.stage = "posted"]
    <3>1. /\ u.kind = t.kind /\ u.chat = t.chat /\ u.from = t.from
          /\ u.stage = "posted" /\ u.page = t.page /\ u.next = t.next
      BY <1>2 DEF Task
    <3>2. Replace(t, u) /\ t.stage = "read"
      BY <2>3 DEF FinishTask
    <3> HIDE DEF u
    <3>3. \A m \in stored[d] : Brings(t, m) => Brings(u, m)
      BY <3>1, <3>2 DEF Brings
    <3> QED
      BY <3>1, <3>2, <3>3
  <2>4. CASE FailTask(t)
    <3> DEFINE u == [t EXCEPT !.stage = "failed"]
    <3>1. u.kind = t.kind /\ u.chat = t.chat /\ u.from = t.from
      BY <1>2 DEF Task
    <3>2. Replace(t, u) /\ ~(t.kind = "messages" /\ t.chat = d)
      BY <2>4 DEF FailTask
    <3> HIDE DEF u
    <3> QED
      BY <3>1, <3>2
  <2> QED
    BY <1>1, <2>1, <2>2, <2>3, <2>4
<1>5. CASE ~(t.kind = "messages" /\ t.chat = d)
  <2>1. InFlight(d)' = InFlight(d)
    BY <1>4, <1>5, OtherTasks DEF Replace
  <2> QED
    BY <1>3, <2>1, QuietHolds DEF Quiet
<1>6. CASE t.kind = "messages" /\ t.chat = d
  <2>1. InFlight(d) = {t}
    BY <1>6 DEF Held, InFlight
  <2>2. InFlight(d)' = {u}
    BY <1>4, <1>6, <2>1 DEF InFlight, Replace
  <2>3. Undisturbed(d)'
    BY <1>3, <1>4, <2>1, <2>2 DEF Held, Undisturbed, Pending
  <2>4. ASSUME NEW m \in stored[d]
        PROVE  Accounted(d, m)'
    <3>1. Accounted(d, m) /\ m \in Position
      BY DEF Held, TypeOK
    <3>2. CASE \E v \in InFlight(d) : Brings(v, m)
      <4>1. Brings(t, m)
        BY <2>1, <3>2
      <4>2. Brings(u, m)
        BY <1>4, <1>6, <4>1
      <4>3. \E v \in InFlight(d)' : Brings(v, m)
        BY <2>2, <4>2
      <4> QED
        BY <4>3 DEF Accounted, Brings
    <3>3. CASE ~\E v \in InFlight(d) : Brings(v, m)
      BY <1>3, <3>1, <3>3 DEF Accounted
    <3> QED
      BY <3>2, <3>3
  <2> QED
    BY <1>3, <2>2, <2>3, <2>4 DEF Held
<1> QED
  BY <1>5, <1>6

\* Loading a page of the chat: the new read asks for what the cursor has not
\* brought yet.
LEMMA LoadHolds ==
  ASSUME TypeOK, NEW c \in Chats, Held(c),
         AsyncLoadMoreMessagesForChat(cursor, c) \/ AsyncLoadInitialMessagesForChat(cursor, c),
         c \in listening', UNCHANGED <<stored, unannounced, events, raced>>,
         shown'[c] = shown[c]
  PROVE  Held(c)'
<1> DEFINE cur == InitOrGet(cursor[c])
           u == StartTask("messages", c, cur.value)
<1>1. cursor \in [Chats -> MessageCursor \cup {NoCursor}] /\ cur \in MessageCursor
  BY CursorOperations DEF TypeOK, CursorValue, Empty
<1>2. \/ /\ IsFetchable(cur)
         /\ cursor'[c] = SetPending(cur)
         /\ tasks' = tasks \cup {u}
      \/ cursor'[c] = cursor[c] /\ cursor[c] # NoCursor /\ tasks' = tasks
  <2>1. CASE AsyncLoadMoreMessagesForChat(cursor, c)
    BY <1>1, <2>1, LoadMoreEffect
  <2>2. CASE AsyncLoadInitialMessagesForChat(cursor, c)
    <3>1. CASE cursor[c] # NoCursor
      BY <1>1, <2>2, <3>1, LoadInitialEffect
    <3>2. CASE cursor[c] = NoCursor
      <4>1. cur = InitMessageCursor /\ cur.value = Empty /\ IsFetchable(cur)
        BY <3>2 DEF InitOrGet, InitMessageCursor, IsFetchable
      <4> QED
        BY <1>1, <2>2, <3>2, <4>1, LoadInitialEffect
    <3> QED
      BY <3>1, <3>2
  <2> QED
    BY <2>1, <2>2
<1>3. CASE cursor'[c] = cursor[c] /\ cursor[c] # NoCursor /\ tasks' = tasks
  <2>1. Undisturbed(c)' /\ \A t, v \in InFlight(c)' : t = v
    BY <1>3 DEF Held, Undisturbed, InFlight, Pending
  <2>2. \A m \in stored[c] : Accounted(c, m)'
    BY <1>3 DEF Held, Accounted, InFlight, Undelivered, Brings
  <2> QED
    BY <2>1, <2>2 DEF Held
<1>4. CASE IsFetchable(cur) /\ cursor'[c] = SetPending(cur) /\ tasks' = tasks \cup {u}
  <2>1. ~Pending(c)
    BY <1>4 DEF Pending, IsFetchable, InitOrGet
  <2>2. InFlight(c) = {}
    BY <2>1 DEF Held, Undisturbed
  <2>3. /\ u.kind = "messages" /\ u.chat = c /\ u.from = cur.value
        /\ u.stage = "queued"
    BY DEF StartTask
  <2> HIDE DEF u
  <2>4. InFlight(c)' = {u}
    BY <1>4, <2>2, <2>3 DEF InFlight
  <2>5. /\ cursor'[c] \in MessageCursor /\ cursor'[c].value = cur.value
        /\ cursor'[c].pending /\ ~cursor'[c].mostRecent
    BY <1>1, <1>4 DEF SetPending, MessageCursor, IsFetchable
  <2>6. Undisturbed(c)'
    <3>1. cursor'[c] # NoCursor
      BY <2>5
    <3> QED
      BY <2>3, <2>4, <2>5, <3>1 DEF Undisturbed, Pending
  <2>7. ASSUME NEW m \in stored[c]
        PROVE  Accounted(c, m)'
    <3>1. Accounted(c, m)
      BY DEF Held
    <3>2. CASE m \in shown[c] \/ m \in raced[c] \/ Undelivered(c, m)
      BY <3>2 DEF Accounted, Undelivered
    <3>3. CASE \/ cursor[c] = NoCursor
               \/ /\ IsFetchable(cursor[c])
                  /\ cursor[c].value = Empty \/ m <= cursor[c].value
      <4>1. cur.value = Empty \/ m <= cur.value
        BY <3>3 DEF InitOrGet, InitMessageCursor
      <4>2. Brings(u, m)
        BY <2>3, <4>1 DEF Brings
      <4>3. \E t \in InFlight(c)' : Brings(t, m)
        BY <2>4, <4>2
      <4> QED
        BY <4>3 DEF Accounted, Brings
    <3> QED
      BY <2>2, <3>1, <3>2, <3>3 DEF Accounted
  <2> QED
    BY <2>4, <2>6, <2>7 DEF Held
<1> QED
  BY <1>2, <1>3, <1>4

\* Loading pages of one chat does not concern the loads of another.
LEMMA LoadIsQuiet ==
  ASSUME TypeOK, NEW c \in Chats, NEW d \in Chats \ {c},
         NEW cur \in [Chats -> MessageCursor \cup {NoCursor}], cur[d] = cursor[d],
         AsyncLoadMoreMessagesForChat(cur, c) \/ AsyncLoadInitialMessagesForChat(cur, c)
  PROVE  cursor'[d] = cursor[d] /\ InFlight(d)' = InFlight(d)
<1>1. cursor'[d] = cursor[d]
  BY LoadMoreEffect, LoadInitialEffect
<1>2. tasks' = tasks \/ \E from : tasks' = tasks \cup {StartTask("messages", c, from)}
  BY LoadMoreEffect, LoadInitialEffect
<1>3. InFlight(d)' = InFlight(d)
  <2>1. CASE tasks' = tasks
    BY <2>1 DEF InFlight
  <2>2. CASE \E from : tasks' = tasks \cup {StartTask("messages", c, from)}
    BY <2>2 DEF InFlight, StartTask
  <2> QED
    BY <1>2, <2>1, <2>2
<1> QED
  BY <1>1, <1>3

\* The user's steps start the reads that follow the cursor.
LEMMA UserHolds ==
  ASSUME TypeOK, NEW d \in Chats, Held(d), d \notin disturbed', User
  PROVE  Held(d)'
<1> USE DEF historyVars, viewVars
<1>1. cursor \in [Chats -> MessageCursor \cup {NoCursor}]
  BY DEF TypeOK
<1>2. PICK c \in Chats : SetActiveItem(c) \/ LoadMoreMessages(c) \/ PrefetchChat(c)
  BY DEF User
<1>3. /\ AsyncLoadMoreMessagesForChat(cursor, c) \/ AsyncLoadInitialMessagesForChat(cursor, c)
      /\ UNCHANGED <<stored, unannounced, events, raced>>
      /\ listening \subseteq listening'
  BY <1>2 DEF SetActiveItem, LoadMoreMessages, PrefetchChat
<1>4. shown'[d] = shown[d]
  BY <1>1, <1>2, LoadInitialEffect DEF SetActiveItem, LoadMoreMessages, PrefetchChat
<1>5. CASE d # c
  <2>1. cursor'[d] = cursor[d] /\ InFlight(d)' = InFlight(d)
    BY <1>1, <1>3, <1>5, LoadIsQuiet
  <2> QED
    BY <1>3, <1>4, <2>1, QuietHolds DEF Quiet, Undelivered
<1>6. CASE d = c
  <2>1. ~PrefetchChat(c)
    BY <1>6 DEF PrefetchChat
  <2>2. c \in listening'
    BY <1>2, <2>1 DEF SetActiveItem, LoadMoreMessages
  <2> QED
    BY <1>3, <1>4, <1>6, <2>2, LoadHolds
<1> QED
  BY <1>5, <1>6

\* A message that is left for a later page will be brought by one, or by the
\* read in flight, unless that read has passed it.
LEMMA MessageHolds ==
  ASSUME TypeOK, FailuresAreKnown, PendingIsAnswered,
         NEW d \in Chats, Held(d), d \notin disturbed,
         NEW c \in Chats, NEW m \in Position, HandleMessage(c, m)
  PROVE  Held(d)'
<1>1. /\ UNCHANGED <<stored, unannounced, tasks, listening>>
      /\ Dequeue("message")
      /\ Head(events).chat = c /\ Head(events).msg = m
  BY DEF HandleMessage, poolVars
<1>2. \A n \in Position : (d # c \/ n # m) /\ Undelivered(d, n) => Undelivered(d, n)'
  BY <1>1, DequeueKeepsSignals DEF TypeOK
<1>3. CASE d # c
  <2>1. cursor'[d] = cursor[d] /\ shown'[d] = shown[d] /\ raced'[d] = raced[d]
    BY <1>3 DEF HandleMessage, TypeOK
  <2> QED
    BY <1>1, <1>2, <1>3, <2>1, QuietHolds DEF Quiet, InFlight
<1>4. CASE d = c /\ cursor[d] # NoCursor /\ ~IsLessThan(cursor[d], m)
  <2>1. /\ cursor'[d] = MakeObsolete(cursor[d])
        /\ raced'[d] = IF PageMisses(d, m) THEN raced[d] \cup {m} ELSE raced[d]
        /\ UNCHANGED shown
    BY <1>4 DEF HandleMessage, TypeOK
  <2>2. cursor[d] \in MessageCursor
    BY <1>4 DEF TypeOK
  <2>3. /\ cursor'[d] \in MessageCursor
        /\ cursor'[d].value = cursor[d].value
        /\ cursor'[d].pending = cursor[d].pending
        /\ cursor'[d].mostRecent = FALSE
    BY <2>1, <2>2 DEF MakeObsolete, MessageCursor
  <2>4. m <= cursor[d].value
    BY <1>4, <2>2 DEF IsLessThan, MessageCursor, CursorValue, Position, Empty
  <2>5. Undisturbed(d)' /\ \A t, u \in InFlight(d)' : t = u
    BY <1>1, <1>4, <2>3 DEF Held, Undisturbed, Pending, InFlight
  <2>6. ASSUME NEW n \in stored[d], n # m
        PROVE  Accounted(d, n)'
    <3>1. n \in Position /\ Accounted(d, n)
      BY DEF Held, TypeOK
    <3>2. cursor'[d] # NoCursor /\ (IsFetchable(cursor[d]) => IsFetchable(cursor'[d]))
      BY <2>3 DEF IsFetchable
    <3> QED
      BY <1>1, <1>2, <1>4, <2>1, <2>3, <2>6, <3>1, <3>2
      DEF Accounted, InFlight, Brings
  <2>7. Accounted(d, m)'
    <3>1. CASE ~cursor[d].pending
      BY <2>3, <2>4, <3>1 DEF Accounted, IsFetchable
    <3>2. CASE cursor[d].pending
      <4>1. PICK t \in InFlight(d) : t.from = cursor[d].value /\ t.stage # "failed"
        BY <1>4, <3>2 DEF PendingIsAnswered, Pending, FailuresAreKnown, Held,
           Undisturbed, InFlight
      <4>2. t \in Task /\ t \in InFlight(d)'
        BY <1>1 DEF InFlight, TypeOK
      <4>3. CASE t.stage = "queued"
        BY <2>4, <4>1, <4>2, <4>3 DEF Accounted, Brings
      <4>4. CASE t.stage # "queued" /\ (m \in t.page \/ m <= t.next)
        BY <4>2, <4>4 DEF Accounted, Brings
      <4>5. CASE t.stage # "queued" /\ m \notin t.page /\ ~(m <= t.next)
        <5>1. m > t.next
          BY <4>2, <4>5 DEF Task, CursorValue, Position, Empty
        <5>2. PageMisses(d, m)
          BY <4>1, <4>2, <4>5, <5>1 DEF PageMisses, InFlight, Task
        <5> QED
          BY <2>1, <5>2 DEF Accounted
      <4> QED
        BY <4>3, <4>4, <4>5
    <3> QED
      BY <3>1, <3>2
  <2> QED
    BY <1>1, <2>5, <2>6, <2>7 DEF Held
<1>5. CASE d = c /\ ~(cursor[d] # NoCursor /\ ~IsLessThan(cursor[d], m))
  <2>1. /\ shown'[d] = IF d \in listening THEN shown[d] \cup {m} ELSE shown[d]
        /\ UNCHANGED <<cursor, raced>>
    BY <1>5 DEF HandleMessage, TypeOK
  <2>2. Undisturbed(d)' /\ \A t, u \in InFlight(d)' : t = u
    BY <1>1, <2>1 DEF Held, Undisturbed, Pending, InFlight
  <2>3. ASSUME NEW n \in stored[d], n # m
        PROVE  Accounted(d, n)'
    <3>1. n \in Position /\ Accounted(d, n)
      BY DEF Held, TypeOK
    <3> QED
      BY <1>1, <1>2, <2>1, <2>3, <3>1 DEF Accounted, InFlight, Brings
  <2>4. Accounted(d, m)'
    <3>1. CASE d \in listening
      BY <2>1, <3>1 DEF Accounted
    <3>2. CASE d \notin listening
      <4>1. cursor[d] = NoCursor
        BY <3>2 DEF Held, Undisturbed
      <4> QED
        BY <2>1, <4>1 DEF Accounted
    <3> QED
      BY <3>1, <3>2
  <2> QED
    BY <1>1, <2>2, <2>3, <2>4 DEF Held
<1> QED
  BY <1>3, <1>4, <1>5

\* The position of a page that arrives is older than the cursor's: the cursor
\* moves back to it, or nothing is left.
LEMMA LoadedCursor ==
  ASSUME TypeOK, PagesGoBack, NEW t \in tasks, HandleMessagesLoaded(t),
         Held(t.chat)
  PROVE  LET c == t.chat IN
         /\ cursor[c] \in MessageCursor /\ cursor'[c] \in MessageCursor
         /\ cursor[c].value = t.from
         /\ ~cursor'[c].pending
         /\ t.next = Empty => cursor'[c].value = cursor[c].value
         /\ t.next # Empty => /\ cursor'[c].value = t.next
                              /\ ~cursor'[c].mostRecent
                              /\ cursor[c].value = Empty \/ t.next < cursor[c].value
<1> DEFINE c == t.chat
<1>1. t \in Task /\ c \in Chats /\ t.next \in CursorValue
  BY DEF TypeOK, Task
<1>2. t \in InFlight(c) /\ t.stage = "posted"
  BY DEF HandleMessagesLoaded, InFlight
<1>3. Pending(c) /\ t.from = cursor[c].value /\ ~cursor[c].mostRecent
  BY <1>2 DEF Held, Undisturbed
<1>4. cursor[c] \in MessageCursor /\ InitOrGet(cursor[c]) = cursor[c]
  BY <1>1, <1>3 DEF TypeOK, Pending, InitOrGet
<1>5. cursor'[c] = SetValue(cursor[c], t.next)
  BY <1>1, <1>4 DEF HandleMessagesLoaded, TypeOK
<1>6. t.next = Empty \/ t.from = Empty \/ t.next < t.from
  BY <1>2 DEF PagesGoBack, InFlight
<1>7. cursor[c].value \in Nat /\ t.next \in Nat
  BY <1>1, <1>4 DEF MessageCursor, CursorValue, Position, Empty
<1>8. t.next # Empty => t.next # cursor[c].value
  BY <1>3, <1>6, <1>7
<1>9. cursor'[c] \in MessageCursor
  BY <1>1, <1>4, <1>5, CursorOperations
<1>10. CASE t.next = Empty
  BY <1>3, <1>4, <1>5, <1>9, <1>10 DEF SetValue, MessageCursor
<1>11. CASE t.next # Empty
  <2>1. cursor'[c] = [cursor[c] EXCEPT !.value = t.next, !.pending = FALSE]
    BY <1>5, <1>8, <1>11 DEF SetValue
  <2> QED
    BY <1>3, <1>4, <1>6, <1>9, <1>11, <2>1 DEF MessageCursor
<1> QED
  BY <1>10, <1>11

\* A page that arrives shows its messages and leaves the older ones to the
\* cursor.
LEMMA LoadedHolds ==
  ASSUME TypeOK, PagesGoBack, NEW d \in Chats, Held(d), d \notin disturbed,
         NEW t \in tasks, HandleMessagesLoaded(t)
  PROVE  Held(d)'
<1> USE DEF historyVars
<1>1. /\ UNCHANGED <<stored, unannounced, raced, listening>>
      /\ Dequeue("answer")
  BY DEF HandleMessagesLoaded, Answered
<1>2. \A m \in Position : Undelivered(d, m) => Undelivered(d, m)'
  BY <1>1, DequeueKeepsSignals DEF TypeOK
<1>3. t.chat \in Chats /\ t.kind = "messages" /\ t.stage = "posted" /\ t \in Task
  BY DEF HandleMessagesLoaded, TypeOK, Task
<1>4. \/ tasks' = tasks \ {t}
      \/ \E from : tasks' = (tasks \ {t}) \cup {StartTask("pinned", t.chat, from)}
  BY <1>3, LoadPinnedEffect DEF HandleMessagesLoaded
<1>5. CASE d # t.chat
  <2>1. cursor'[d] = cursor[d]
    BY <1>3, <1>5 DEF HandleMessagesLoaded, TypeOK
  <2>2. shown[d] \subseteq shown'[d]
    BY <1>3, <1>5 DEF HandleMessagesLoaded, NewMessagesLoaded, TypeOK
  <2>3. InFlight(d)' = InFlight(d)
    BY <1>3, <1>4, <1>5 DEF InFlight, StartTask
  <2> QED
    BY <1>1, <1>2, <2>1, <2>2, <2>3, QuietHolds DEF Quiet
<1>6. CASE d = t.chat
  <2>1. t \in InFlight(d) /\ InFlight(d) = {t}
    BY <1>3, <1>6 DEF InFlight, Held
  <2>2. InFlight(d)' = {}
    BY <1>4, <2>1 DEF InFlight, StartTask
  <2>3. Pending(d) /\ d \in listening
    BY <2>1 DEF Held, Undisturbed, Pending
  <2>4. shown'[d] = shown[d] \cup t.page
    BY <1>3, <1>6, <2>3 DEF HandleMessagesLoaded, NewMessagesLoaded, TypeOK
  <2>5. /\ cursor[d] \in MessageCursor /\ cursor'[d] \in MessageCursor
        /\ ~cursor'[d].pending
        /\ t.next # Empty => cursor'[d].value = t.next /\ ~cursor'[d].mostRecent
    BY <1>6, LoadedCursor
  <2>6. Undisturbed(d)' /\ \A u, v \in InFlight(d)' : u = v
    BY <1>1, <2>2, <2>3, <2>5 DEF Undisturbed, Pending
  <2>7. ASSUME NEW m \in stored[d]
        PROVE  Accounted(d, m)'
    <3>1. m \in Position /\ Accounted(d, m)
      BY DEF Held, TypeOK
    <3>2. CASE m \in shown[d] \/ m \in raced[d] \/ Undelivered(d, m)
      BY <1>1, <1>2, <2>4, <3>1, <3>2 DEF Accounted
    <3>3. CASE Brings(t, m)
      <4>1. m \in t.page \/ m <= t.next
        BY <1>3, <3>3 DEF Brings
      <4>2. CASE m \in t.page
        BY <2>4, <4>2 DEF Accounted
      <4>3. CASE m <= t.next
        <5>1. t.next # Empty
          BY <3>1, <4>3 DEF Position, Empty
        <5> QED
          BY <2>5, <4>3, <5>1 DEF Accounted, IsFetchable
      <4> QED
        BY <4>1, <4>2, <4>3
    <3>4. ~(cursor[d] = NoCursor) /\ ~IsFetchable(cursor[d])
      BY <2>3 DEF Pending, IsFetchable
    <3> QED
      BY <2>1, <3>1, <3>2, <3>3, <3>4 DEF Accounted
  <2> QED
    BY <1>1, <2>2, <2>6, <2>7 DEF Held
<1> QED
  BY <1>5, <1>6

\* The main thread's steps keep what holds of an undisturbed chat.
LEMMA MainThreadHolds ==
  ASSUME TypeOK, FailuresAreKnown, PagesGoBack, ResetsDisturb, PendingIsAnswered,
         NEW d \in Chats, Held(d), d \notin disturbed', disturbed \subseteq disturbed',
         MainThread
  PROVE  Held(d)'
<1> USE DEF historyVars, viewVars, serviceVars
<1>0. events # <<>> => Head(events) = events[1] /\ 1 \in DOMAIN events
  BY DEF TypeOK
<1>1. ASSUME NEW c \in Chats, NEW m \in Position, HandleMessage(c, m)
      PROVE  Held(d)'
  BY <1>1, MessageHolds
<1>2. ASSUME NEW t \in tasks, HandleMessagesLoaded(t)
      PROVE  Held(d)'
  BY <1>2, LoadedHolds
<1>3. ASSUME NEW t \in tasks, HandleMessagesFailed(t) \/ HandlePinnedAnswer(t)
      PROVE  Held(d)'
  <2>1. /\ UNCHANGED <<stored, unannounced, cursor, shown, raced, listening>>
        /\ tasks' = tasks \ {t} /\ Dequeue("answer")
    BY <1>3 DEF HandleMessagesFailed, HandlePinnedAnswer, Answered
  <2>2. t.kind # "messages" \/ t.chat # d
    BY <1>3 DEF HandleMessagesFailed, HandlePinnedAnswer, FailuresAreKnown
  <2>3. \A m \in Position : Undelivered(d, m) => Undelivered(d, m)'
    BY <2>1, DequeueKeepsSignals DEF TypeOK
  <2> QED
    BY <2>1, <2>2, <2>3, OtherTasks, QuietHolds DEF Quiet
<1>4. ASSUME NEW c \in Chats, HandleChannelImported(c)
      PROVE  Held(d)'
  <2> DEFINE cur == [cursor EXCEPT ![c] = NoCursor]
  <2>1. d # c
    BY <1>0, <1>4 DEF HandleChannelImported, Dequeue, ResetsDisturb
  <2>2. /\ UNCHANGED <<stored, unannounced, shown, raced, listening>>
        /\ AsyncLoadMoreMessagesForChat(cur, c) /\ Dequeue("channelImported")
    BY <1>4 DEF HandleChannelImported
  <2>3. cur \in [Chats -> MessageCursor \cup {NoCursor}] /\ cur[d] = cursor[d]
    BY <2>1 DEF TypeOK
  <2>4. cursor'[d] = cursor[d] /\ InFlight(d)' = InFlight(d)
    BY <2>1, <2>2, <2>3, LoadIsQuiet
  <2>5. \A m \in Position : Undelivered(d, m) => Undelivered(d, m)'
    BY <2>2, DequeueKeepsSignals DEF TypeOK
  <2> QED
    BY <2>2, <2>4, <2>5, QuietHolds DEF Quiet
<1>5. ~HandleReload /\ ~HandleBackupDone
  BY <1>0 DEF HandleReload, HandleBackupDone, Dequeue, ResetsDisturb
<1> QED
  BY <1>1, <1>2, <1>3, <1>4, <1>5 DEF MainThread
----------------------------------------------------------------------------
(* The theorems *)

\* The invariant holds at the start.
LEMMA IInvInit == Init => IInv
<1> SUFFICES ASSUME Init PROVE IInv
  OBVIOUS
<1>1. /\ tasks = {} /\ events = <<>> /\ failed = {} /\ disturbed = {}
      /\ \A c \in Chats : cursor[c] = NoCursor
  BY DEF Init
<1>2. FailuresAreKnown /\ PagesGoBack /\ PendingIsAnswered /\ SingleFlight
  BY <1>1 DEF FailuresAreKnown, PagesGoBack, PendingIsAnswered, SingleFlight,
     Pending, InFlight
<1>3. ResetsDisturb
  BY <1>1 DEF ResetsDisturb
<1>4. \A c \in Chats : Undisturbed(c)
  BY <1>1 DEF Undisturbed, Pending, InFlight
<1>5. NoGap
  BY <1>1 DEF NoGap, Accounted
<1> QED
  BY <1>2, <1>3, <1>4, <1>5, TypeInit DEF IInv

\* The invariant is what holds of the whole service and of every chat whose
\* load nothing has cut across.
LEMMA IInvParts ==
  IInv <=> /\ TypeOK /\ FailuresAreKnown /\ PagesGoBack /\ ResetsDisturb
           /\ PendingIsAnswered
           /\ \A c \in Chats \ disturbed : Held(c)
BY DEF IInv, Held, SingleFlight, NoGap

\* Every step keeps the invariant.
LEMMA IInvStep == IInv /\ [Next]_vars => IInv'
<1> SUFFICES ASSUME IInv, [Next]_vars PROVE IInv'
  OBVIOUS
<1>1. /\ TypeOK /\ FailuresAreKnown /\ PagesGoBack /\ ResetsDisturb
      /\ PendingIsAnswered
      /\ \A c \in Chats \ disturbed : Held(c)
  BY IInvParts
<1>2. TypeOK' /\ FailuresAreKnown' /\ PagesGoBack' /\ ResetsDisturb' /\ PendingIsAnswered'
  BY <1>1, TypeStep, FailuresAreKnownStep, PagesGoBackStep, ResetsDisturbStep,
     PendingIsAnsweredStep
<1>3. ASSUME NEW d \in Chats, d \notin disturbed'
      PROVE  Held(d)'
  <2>1. d \notin disturbed /\ disturbed \subseteq disturbed' /\ Held(d)
    BY <1>1, <1>3, HistoryGrows
  <2>2. CASE UNCHANGED vars
    <3>1. Quiet(d)
      BY <2>2 DEF vars, poolVars, serviceVars, viewVars, historyVars, Quiet,
         InFlight, Undelivered
    <3> QED
      BY <1>1, <2>1, <3>1, QuietHolds
  <2> QED
    BY <1>1, <1>3, <2>1, <2>2, StatusGoHolds, ThreadPoolHolds, MainThreadHolds,
       UserHolds DEF Next
<1> QED
  BY <1>2, <1>3 DEF IInv, Held, SingleFlight, NoGap

\* The invariant holds in every state of every behaviour.
THEOREM Invariance == Spec => []IInv
BY IInvInit, IInvStep, PTL DEF Spec

\* A chat that waits for a page has it on its way, unless a read of the chat
\* failed: the pending flag of message_cursor.nim is never left behind.
THEOREM PendingHasAnswer == Spec => []PendingIsAnswered
<1>1. IInv => PendingIsAnswered
  BY DEF IInv
<1> QED
  BY Invariance, <1>1, PTL

\* At most one page read of a chat is in flight while nothing cuts across its
\* load, although loads are asked for by the section, by scrolling and by
\* searching.
THEOREM OneReadAtATime == Spec => []SingleFlight
<1>1. IInv => SingleFlight
  BY DEF IInv
<1> QED
  BY Invariance, <1>1, PTL

\* No stored message is forgotten between the pages, the signals and the
\* cursor of its chat.
THEOREM NothingForgotten == Spec => []NoGap
<1>1. IInv => NoGap
  BY DEF IInv
<1> QED
  BY Invariance, <1>1, PTL

\* A step that is not the arrival of a page leaves the position of the cursor
\* of an undisturbed chat.
LEMMA CursorStays ==
  ASSUME IInv, NEW d \in Chats, d \notin disturbed', disturbed \subseteq disturbed',
         cursor[d] # NoCursor, Next,
         ~\E t \in tasks : HandleMessagesLoaded(t) /\ t.chat = d
  PROVE  cursor'[d] # NoCursor /\ cursor'[d].value = cursor[d].value
<1> USE DEF serviceVars
<1>1. /\ cursor \in [Chats -> MessageCursor \cup {NoCursor}]
      /\ cursor[d] \in MessageCursor /\ InitOrGet(cursor[d]) = cursor[d]
      /\ TypeOK /\ ResetsDisturb
      /\ events # <<>> => Head(events) = events[1] /\ 1 \in DOMAIN events
  BY DEF IInv, TypeOK, InitOrGet
<1>2. ASSUME NEW c \in Chats,
             AsyncLoadMoreMessagesForChat(cursor, c) \/ AsyncLoadInitialMessagesForChat(cursor, c)
      PROVE  cursor'[d] # NoCursor /\ cursor'[d].value = cursor[d].value
  <2>1. cursor'[d] = cursor[d] \/ cursor'[d] = SetPending(cursor[d])
    BY <1>1, <1>2, LoadMoreEffect, LoadInitialEffect
  <2> QED
    BY <1>1, <2>1 DEF SetPending, MessageCursor
<1>3. CASE StatusGo
  BY <1>3 DEF StatusGo, StoreMessage, AnnounceMessage, EditMessage, ImportCommunity,
     RestoreBackup, ImportChannel
<1>4. CASE ThreadPool
  BY <1>4 DEF ThreadPool, ReadPage, ReadPinned, FinishTask, FailTask
<1>5. CASE User
  BY <1>2, <1>5 DEF User, SetActiveItem, LoadMoreMessages, PrefetchChat
<1>6. ASSUME NEW c \in Chats, NEW m \in Position, HandleMessage(c, m)
      PROVE  cursor'[d] # NoCursor /\ cursor'[d].value = cursor[d].value
  <2>1. cursor'[d] = cursor[d] \/ cursor'[d] = MakeObsolete(cursor[d])
    BY <1>1, <1>6 DEF HandleMessage
  <2> QED
    BY <1>1, <2>1 DEF MakeObsolete, MessageCursor
<1>7. ASSUME NEW t \in tasks,
             HandleMessagesLoaded(t) \/ HandleMessagesFailed(t) \/ HandlePinnedAnswer(t)
      PROVE  cursor'[d] # NoCursor /\ cursor'[d].value = cursor[d].value
  BY <1>1, <1>7 DEF HandleMessagesLoaded, HandleMessagesFailed, HandlePinnedAnswer
<1>8. ASSUME NEW c \in Chats, HandleChannelImported(c)
      PROVE  cursor'[d] # NoCursor /\ cursor'[d].value = cursor[d].value
  <2> DEFINE cur == [cursor EXCEPT ![c] = NoCursor]
  <2>1. d # c
    BY <1>1, <1>8 DEF HandleChannelImported, Dequeue, ResetsDisturb
  <2>2. /\ cur \in [Chats -> MessageCursor \cup {NoCursor}] /\ cur[d] = cursor[d]
        /\ AsyncLoadMoreMessagesForChat(cur, c)
    BY <1>1, <1>8, <2>1 DEF HandleChannelImported
  <2> HIDE DEF cur
  <2> QED
    BY <1>1, <2>1, <2>2, LoadIsQuiet
<1>9. ~HandleReload /\ ~HandleBackupDone
  BY <1>1 DEF HandleReload, HandleBackupDone, Dequeue, ResetsDisturb
<1> QED
  BY <1>3, <1>4, <1>5, <1>6, <1>7, <1>8, <1>9 DEF Next, MainThread

\* The cursor of an undisturbed chat only moves towards older messages: a page
\* is never asked for twice, and none is skipped forward.
THEOREM CursorMovesBack == Spec => CursorOnlyGoesBack
<1>1. ASSUME IInv, Next
      PROVE  CursorGoesBack
  <2> SUFFICES ASSUME NEW d \in Chats, d \notin disturbed',
                      cursor[d] # NoCursor, cursor[d].value # Empty
               PROVE  cursor'[d] # NoCursor /\ cursor'[d].value \in 1..cursor[d].value
    BY DEF CursorGoesBack
  <2>1. TypeOK /\ PagesGoBack /\ disturbed \subseteq disturbed' /\ Held(d)
    BY <1>1, IInvParts, HistoryGrows
  <2>2. cursor[d].value \in 1..MaxClock
    BY <2>1 DEF TypeOK, MessageCursor, CursorValue, Position, Empty
  <2>3. CASE \E t \in tasks : HandleMessagesLoaded(t) /\ t.chat = d
    <3>1. PICK t \in tasks : HandleMessagesLoaded(t) /\ t.chat = d
      BY <2>3
    <3>2. /\ cursor'[d] \in MessageCursor
          /\ t.next = Empty => cursor'[d].value = cursor[d].value
          /\ t.next # Empty => cursor'[d].value = t.next /\ t.next < cursor[d].value
      BY <2>1, <3>1, LoadedCursor
    <3>3. t.next \in CursorValue
      BY <2>1 DEF TypeOK, Task
    <3> QED
      BY <2>2, <3>2, <3>3 DEF CursorValue, Position, Empty
  <2>4. CASE ~\E t \in tasks : HandleMessagesLoaded(t) /\ t.chat = d
    <3>1. cursor'[d] # NoCursor /\ cursor'[d].value = cursor[d].value
      BY <1>1, <2>1, <2>4, CursorStays
    <3> QED
      BY <2>2, <3>1
  <2> QED
    BY <2>3, <2>4
<1> QED
  BY <1>1, Invariance, PTL DEF CursorOnlyGoesBack, Spec
=============================================================================
