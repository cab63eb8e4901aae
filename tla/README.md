# Verification of the Status desktop client

This directory holds TLA+ models of two cores of the Status desktop client, the
TLC configurations that check them on small instances, and TLAPS proofs about
them for every value of their constants:

- **the chat** (Nim, `src/src/`): the path a message takes from the status-go
  database to the rows of the chat view, the search that jumps to a message, and
  which chats are on screen and in memory;
- **the Ethereum provider of the browser** (JavaScript and QML,
  `src/ui/app/AppLayouts/Browser/provider/` and
  `src/ui/StatusQ/src/CustomWebView/js/`): how a page gets its provider, what it
  is told of accounts, chain and connection, and how its requests are answered.

## 1. The system

The client (`src/docs/architecture.md`) is a Qt application whose logic is in
Nim. Calls go down, events come up:

    QML  ->  module (view / module / controller)  ->  service  ->  status-go RPC
    QML  <-  module  <-  EventEmitter  <-  service  <-  signals, task answers

- Every handler runs on the **main thread**, to its end. A handler is therefore
  one atomic step of a model; what interleaves is the order of handlers.
- Long calls run as tasks in a **thread pool** (`core/tasks`). A task answers by
  posting a call of a slot to the main thread's queue (`tasks/qt.nim`, `finish`).
  Tasks run in parallel and finish in any order.
- **status-go** stores data and posts signals to the same queue.
- The **EventEmitter** calls its handlers synchronously, so an emit and what its
  handlers do belong to the step of the emitter.
- The browser injects scripts into every **document**. They talk over one Qt web
  channel, which all documents share, to an adapter object of the application:

      page  ->  wrapper  ->  web channel  ->  adapter  ->  manager  ->  connector
      page  <-  wrapper  <-  web channel  <-  adapter  <-  manager  <-  connector

  A document runs its handlers one at a time; documents and the application run
  side by side. A signal of the adapter is sent at once, its changed properties
  are collected and sent when the document has said that it is idle.

### Inventory

| Component | State | Operations | Hard behaviour | What makes it correct |
|---|---|---|---|---|
| Message service, loading (`app_service/service/message`) | a cursor per chat: position, pending, most recent | load more, initial load, pinned load, page answers, new messages, imports, backups | answers after a cursor was dropped, late messages, failed reads | one read at a time; nothing is forgotten; pending ends |
| Messages module (`chat_content/messages`) | searched id, page size factor, first-unseen state, loading flag | jump, search step, page, unseen answer, clear | three kinds of answers in any order; failure of one | a search ends, and for a reason; loading ends |
| Message list (`shared_models/message_model.nim`) | rows, marker, albums | merge of a page, arrival, removal, marker | ties, duplicates, marker moving with its message | sorted, no duplicates, page complete |
| Chat sections (`main/chat_section`, `main/module.nim`) | active section; per section the active chat, rows with flags; record on disk | open, create, leave, hide, switch, join, leave a community, start | changes behind the screen, nested handlers, restart | what is active is shown, exists, and is the record |
| Loader deactivator (`global/loader_deactivator.nim`) | queue of chats with a view | add a chat | limit; two records of the same fact (queue, flags) | no more views than the limit |
| Event emitter (`core/eventemitter.nim`) | handlers per event | on, once, disconnect, emit | handlers that change during an emit | every connected handler once |
| Task runner (`core/tasks`) | queue of the pool | start, run, finish | a task that raises never answers | each request answered once |
| Chat service | chats cache, unread counters, channel groups | hydrate, update, clear, leave, mark read | stale reads over newer signals | counters follow the events |
| Community service | communities, requests to join, archives | diff of updates, join, leave, import | partial failures, revealed accounts | events for each difference |
| Pinned messages | number and list per chat | page, pin, unpin signals | page against signals | the number is the size of the list |
| Activity center | notifications, cursor, unseen flag | page, signal, read all | page against signals | no notification lost |
| Contacts | contact table, request states, status timers | requests, answers, blocks | crossing requests, timeouts | both sides agree at the end |
| Wallet activity | session id, entries | start, update, more, answers | answers of other sessions, offset gaps | entries are one session's prefix |
| Market leaderboard | page, tokens, loading flag | request, page answer, price updates | answers matched by page only | the tokens are those of the last request |
| Wallet accounts, tokens, networks, transactions | caches of status-go's data, routes | refresh, route, send | answers of superseded requests | only the last request counts |
| Provider: injection (`ethereum_injector.js`, `bootstrap_*.js`, `qwebchannel.js`, `eip6963_announcer.js`) | scripts that have run, channels, timers, `window.ethereum` | each script; timers; init answers; discovery | no order of scripts; an event and a timer do the same; retries | one provider, that hears its channel; who asks is told |
| Provider: state (`ConnectorManager.qml`, `ConnectorBridge.qml`, the wrapper's properties) | accounts, chain, connection; sent, cached and copied properties | connected, disconnected, chain and account switched, address changed; property updates; signals | signals overtake properties; silent reset of the chain | events tell the state; the copy is one state; no repeated connect |
| Provider: requests (`ethereum_wrapper.js`) | ids, entries, promises, timeout checker of each document; calls | request, answer, timeout, disconnect, unload | answers in any order and late, shared channel, timeout against answer | each promise settled once, by its answer, in the end |
| Connector, WalletConnect | pending dapp requests | approve, reject, timeout | an answer after a timeout | each request is answered once |
| Onboarding, accounts, keycard | flow state | steps, card events | long flows, card pulled out | no state without an exit |
| Settings, profile and the like | cached copy of settings | get, set | none of interest | cache equals store |
| Signals manager, backend wrappers | none | decode, forward | none | - |
| other QML, StatusQ, status-go, builds | - | - | - | not in scope |

The hazards that these behaviours expose the code to, each at its line, are
listed in `PROJECT.json`, with the properties that cover them.

## 2. The modules

| Module | What it models |
|---|---|
| `MessageCursor` | the cursor of one chat (`message_cursor.nim`) and the page that status-go reads from it; pure operators used by the next two |
| `MessageLoading` | the loading of histories: service, thread pool, status-go's signals, the section that opens chats, the module that shows them |
| `MessageLoadingProofs` | theorems about `MessageLoading` |
| `MessageSearch` | one open chat: jumping to a message, first-unseen questions, the loading flag |
| `MessageRows` | a row of the message list, the two rows below the history, the order of rows |
| `MessageModel` | the rows of the message list with the marker and an album |
| `MessageModelProofs` | theorems about `MessageModel` |
| `SequenceLemmas` | facts about the sequence operators that `MessageModel` is built from: induction, `FlattenSeq`, `InsertAt`, `RemoveAt`, what is above what |
| `OrderedRows` | what the list promises: an ordered set of rows. An abstract specification, implemented by `MessageModel` |
| `ChatSections` | sections, active chats, flags of rows, the queue of views, the record on disk |
| `ChatSectionsProofs` | theorems about `ChatSections` |
| `MessageSearchProofs` | theorems about `MessageSearch` |
| `ProviderInjection` | one document: the scripts, the transport, the channels, the installation, the announcements |
| `ProviderInjectionProofs` | theorems about `ProviderInjection` |
| `ConnectorManager` | the manager's state, the signals and properties on the web channel, the wrapper's copy |
| `ConnectorManagerProofs` | theorems about `ConnectorManager` |
| `EthereumProvider` | the requests of all documents over the shared channel |
| `EthereumProviderProofs` | theorems about `EthereumProvider` |
| `ProviderRequests` | what a page is promised of its requests. An abstract specification, implemented by `EthereumProvider` |
| `MC*` | values of constants for TLC |

The definitions named "a variant" in a module are plausible wrong versions of
the definition that follows them. They are used by no specification; the
`mutants` of `PROJECT.json` substitute them to show that each property can fail.

### MessageCursor and MessageLoading

A message is its position in the order of cursors (clock, then id), so a page is
a set of positions, and the cursor's value is a position or `Empty`.
The order in which things happen is that of the code: a message is **stored**,
then **announced** (a signal is posted), then **handled**; a page task is
**queued**, **read**, **posted**, then **handled**. Events are handled first in,
first out, as the Qt queue does.

| Action | Code |
|---|---|
| `StoreMessage`, `AnnounceMessage`, `EditMessage`, `ImportCommunity`, `ImportChannel`, `RestoreBackup` | status-go, as the signals used by the service show it (external) |
| `ReadPage`, `ReadPinned`, `FinishTask`, `FailTask` | `async_tasks.nim`, on a pool thread |
| `HandleMessage` | `handleMessagesUpdate` |
| `HandleMessagesLoaded`, `HandleMessagesFailed`, `HandlePinnedAnswer` | the slots for task answers |
| `HandleReload`, `HandleChannelImported`, `HandleBackupDone` | the signal handlers that drop cursors |
| `SetActiveItem`, `LoadMoreMessages`, `PrefetchChat` | the user, and the community service |

Left out of these modules: leaving a chat, chats of other sections, own
messages, the counter of pinned messages, edits of texts, search of texts,
reactions. Pinned messages are assumed to fit one page. `disturbed`, `failed`
and `raced` are history variables: they say which chats had their load cut
across, a read that failed, and a message that was skipped.

### MessageSearch

The page read is taken with its answer in one step and new arrivals are left
out, because `MessageLoading` is about those; the lookup, the page and the
first-unseen question are still answered in any order. `MESSAGES_PER_PAGE` is
scaled to 1, so that `loadingMessagesPerPageFactor` is the page size.
`Invisible` ids are those the lookup refuses (an error, or a message that is
not visual); `Elsewhere` ids exist but in another chat. A refused lookup ends the
search on screen only: it leaves the searched id and the page size, and each page
that comes goes on looking and asks for the next, larger one, until the history is
at its end. `FactorBelongsToSearch` therefore does not say that the size is the
usual one when no search is shown; it says that nobody else can ask for a page while
it is larger. A cursor that is dropped meanwhile (`MessageLoading` has that) is left
out here: after a refused lookup, the next page the user asks for is a larger one
then. A search is not given up
while a page is pending: `asyncLoadMoreMessagesForChat` answers true then
(`service.nim:255`).

### MessageModel and OrderedRows

A row has a clock and an id; `isGreaterThan` compares the clocks, then the ids. The
marker row of a message has its clock and the empty id (0); the two rows below the
history have the clocks -1 and -2, as in the code. `Merged` is the two-pointer
merge: before each row of the list come the new rows that are greater than it and
were not passed before, greatest first, and the rest comes at the end. Every
operation that looks for a message takes the images of the album as a parameter,
because the code lists the new images in the album's row before it merges a page
and resets the marker. `Messages` is the set of messages that can occur, so that an
instance can have ties where they matter without a message for every pair. One
album is modelled. Details of rows that do not move them are left out.

`ItemsOf` is the loop `createMessageItemsFromMessageDtos`. It skips what comes with
`deletedForMe` (any part of the constant `DeletedForMe`, chosen anew each time), and
a message that gets a row removes the row of the message it replaces
(`message.replace`, here the constant function `Replaces`, as status-go decides it)
from the model, before any new row is in. The result says which rows the loop makes,
which rows are gone, and which images are listed at its end. The messages may come
in any order, which matters where an image of the album is replaced: its row goes
with all images that are listed in it, also those of the page that joined it a
moment ago; images that come later start a new row. `newMessagesLoaded`,
`messagesAdded` and `onSendingMessageSuccess` are one action each: the removals, with
the reset of the marker after each, and the merge are one step.

`ImplementsOrderedRows` is the refinement: the list without its marker (`Rows`)
behaves as `OrderedRows`, which promises more than an order: a row that stays is
never moved past another one that stays, also not by a merge, a deletion or a
reset of the marker, and in a step that adds messages a row leaves only when a
message that is on the list after the step replaces it. A replaced message may come
back with a later page (and with it, among rows of one clock, at another place),
which is why `SameOrder` exempts the rows that a message on the list replaces.

`LoadedPageIsShown` asks of every reachable state what `newMessagesLoaded` would
make of every page, with every choice of `deletedForMe` and every order of the
loop. All messages of the page that are not deleted for me are shown then, also one
that another message of the page replaces, since only what was on the list before
is removed. Images may be missing when a message of the page replaces an image: they
joined the row it took away, and come back only with another page.

The marker takes part in the merge with its empty id. A message that comes later
and has the clock of the first unseen one is therefore put above the marker, and so
above every row below it, also above one with the same clock and a greater id. Hence
`MarkerSeparatesNew` speaks of rows with other clocks than the first unseen
message's, and `NewestFirst` leaves ties open where three messages or more have one
clock (`Crowded`); with two of them the marker's message is one of the two, and the
order of the ids holds. `TiesBrokenById` is the property without that exemption.

### ChatSections

`isCurrentSectionActive` of each section is derived from `activeSection`. A
handler is an operator from the state of the views to the next one, since
handlers call each other (leaving a community switches the section, which sets
the active chat, which records it and moves the queue). The rows' order is the
user's, so any chat may be the first. Loading of messages is left to
`MessageLoading`. The start of the program puts no section on screen: that is
the following step. Joining a community and switching to it are two steps, of
which the code does the second right after the first or not at all.
`Categorised` says which communities have categories. `createdBehind` is a history
variable: the chats that arrived with a "created" event in a section whose rows
were built and that was not on screen; such a row gets its flags, but no place in
the queue. `OpenChat` is for chats that have a row. `communityJoined` opens the first
chat of a community without looking whether it has one; it has put the section on
screen just before, which builds the rows of the community's chats, and that the
chat is among them is taken for granted here.

### ProviderInjection

The six scripts are one action each, in any order, so that what a script finds is
what happens to have run; a timer is its number of retries. `new QWebChannel`
takes the transport over and sends an init message (`MakeChannel`). All init
messages have the id 0, so an answer goes to the channel that has the transport.
The bridge's observer runs at the end of the turn in which the bridge script ran,
with no handler in between, hence `RunBridge` sends what was kept. On the desktop
the engine has a transport of its own; `Init` covers it with the two halves of
the transport as run. An application that never answers is not modelled beyond
the absence of fairness, and one that answers without the object `ethereumProvider`
(an early return of `setupEthereumProvider`) is left out: `ConnectorBridge.qml`
registers the object together with the channel.

| Action | Code |
|---|---|
| `RunPage`, `RunBridge`, `Send` | `bootstrap_page.js`, `bootstrap_bridge.js` |
| `RunInjector`, `RetryTimer`, `InstallTimer` | `ethereum_injector.js` |
| `MakeChannel`, `ReceiveInit` | `qwebchannel.js` and `setupEthereumProvider` |
| `Install` | `install` of `ethereum_wrapper.js` |
| `RunAnnouncer`, `Discover`, `AnnounceTimer` | `eip6963_announcer.js` |
| `PageDefinesEthereum` | the page (external) |

### ConnectorManager

The handlers of the manager are one action each; the signals a handler emits are
an operator (`SetConnectedSignals` and the like) and reach the document's `wire`
in their order. `SendProperties` is the publisher of Qt's web channel, known here
from the client side of the protocol (`propertyUpdate` and `idle` messages of
`qwebchannel.js`): external. `told` is what the listeners of the page heard last.
`past` (the states since the document is there) and `silent` (the chain was reset
since it was last announced) are history variables. Signals for other dapps are
not steps; one document listens at a time, since two documents share nothing but
what the manager emits.

### EthereumProvider and ProviderRequests

A document is one load of a page in a tab or a frame. Time is abstracted to
whether a request is older than `requestTimeout` (`Age`, oldest first).
`MakeInvalidRequest` is a call that throws after its id was taken. The answer is
kept as the set of requests whose response resolved a promise, which the code
does not see, so that a swapped answer shows. `beforeunload` is an action of its
own, because the page may stay. `ImplementsProviderRequests` maps the promises to
their settlement and `watched` to the requests of documents that are open and
look for timeouts.

## 3. The runs

| Run | Instance | Shows |
|---|---|---|
| `loading_safety` | 1 chat, 3 positions, pages of 1 or 2, late messages, 1 failure, 1 edit | one read at a time, no message forgotten, cursors only go back |
| `loading_resets` | 1 chat, 2 positions, pages of 1 or 2, 1 reset, 1 prefetch, fairness | types, a pending cursor is answered; every load ends, the loading state ends, who keeps scrolling sees everything |
| `loading_late_message` | as `loading_safety` without failures and edits | violation: a late message is lost |
| `search` | 4 positions, 3 lookups, 2 unseen questions, 1 failure, 1 clear, fairness | a search has something that carries it on, ends for a reason, nobody else gets its larger pages; searches and loading states end |
| `list_order` | 2 clocks, a pair of messages with the first and three with the second, an album over both, three of them replacing another message, one that may come deleted | types, newest first, the album in one row, the marker separates new from old, what a page is not to hide is shown, the list implements `OrderedRows` |
| `list_ties` | the same | violation: with three messages of one clock and the marker, ties are not broken by id |
| `sections` | 2 sections of 2 chats, queue of 2 | types, the active chat is shown and recorded, a switch shows a chat, the queue counts what it can |
| `sections_categories` | a community with categories | violation: a deleted channel stays active |
| `provider_injection` | one discovery request, 3, 2 and 2 retries, fairness | types, the wrapper hears its channel, init is answered, one wrapper; a provider comes, who asks is told |
| `provider_state` | 2 accounts, 2 chains, 4 reports | types, the events tell the state, the copy is one state, connect is not repeated |
| `provider_stale` | the same, 2 reports | violation: the copy stays behind |
| `provider_requests` | 2 documents of 2 ids, 3 requests, 1 disconnect, fairness | types, an entry for every pending promise, no answer lost, none swapped; the implementation of `ProviderRequests`, safety and liveness |

**Bounds.** Three positions give a first page, a middle one and a last one, with
a late message before, in and behind the one in flight; pages of 1 and 2 give
changing page sizes. Two positions are enough for the runs that are about
cursors dropped between a question and its answer. One reset or prefetch suffices to have two reads of one
chat in flight, one of each generation; more would repeat it. A second chat
shares nothing but the resets, which one chat shows; the proofs cover any number.
Four positions let a search need three pages of sizes 2, 3 and 4, and three
lookups let an answer arrive for a search that was followed by two others. Two
sections with two chats and a queue of two let a section be pushed out of the
queue completely by the other one while it is not on screen. A pair with one
clock and three messages with another give the list both kinds of ties, and an
album of one message of each clock has others between and around its images; so the
marker and the album can lie inside a page, at its ends or between two pages. A
message replaces one of its own clock, which replaces an older one, which replaces
an image of the album (`ChainAndImage`); so a replaced message can replace one
itself, and come before it, after it or in the same page, and the row of the album
can go while its images come. The first of them may come deleted for me.

Two documents of two ids are the smallest instance in which an answer can be late
in its own document (an earlier id) and strange in the other (the same id); three
requests let both happen at once, a disconnect reject what is pending in between.
Four reports let the provider connect, change, disconnect and connect again while
messages of the first report are still on the wire. The retries are scaled down
from 30, 30 and 50: the scripts are six, and the retries that matter are none
left, one left and more than one.

`CHECK_DEADLOCK FALSE` is set for the provider's runs only: a document that has
its provider, has asked and been told has nothing left to do, and the requests and
reports are bounded. In the models of the chat the user can always go on.

**Fairness.** `MessageLoading.Fairness`: the pool runs its tasks, the main thread
handles its events, status-go sends signals for what it stored. Each is weak
fairness of a queue's worker, which the code's event loop and pool provide. The
weak fairness of `LoadMoreMessages` after the initial page is the user who keeps
scrolling, needed only by `HistoryIsShown`. `MessageSearch.FairSpec`: the pool
answers every request. Nothing is assumed of failures, resets or other steps of
the user. `EthereumProvider.Fairness`: time passes and the timeout checker's interval
fires; nobody has to answer a call, since the user may be asked first.
`ProviderInjection.Fairness`: the scripts are run, armed timers fire and the
application answers init messages that reach it; the page has to do nothing.
`HistoryIsShown` and `OpenedChatStopsLoading` exempt the chats in
`disturbed`, `SearchEnds` and `LoadingEnds` the behaviours with a failed request
or an empty chat: in each of these cases the code gives no such guarantee. `ProviderComes` exempts
retries that have run out. A task that raises outside its handler is never
answered (`threadpool.nim:66`); the tasks modelled here catch their errors.

## 4. What the runs found

Each finding in `PROJECT.json` is a violated run.

- A message that arrives late while the last page is in flight is dropped by
  `handleMessagesUpdate`, and the mark it leaves (`makeObsolete`) is overwritten
  by the answer: the chat refuses to load the message until its cursor is reset.
- A community left with categories only keeps a deleted channel as its active one.
- With three messages of one clock the marker row makes the merge put one above
  another that has the same clock and a greater id, although
  `message_model_test.nim:49` says that ties are broken by the message's id.
- The wrapper copies its properties when the signal comes, before the changed
  properties come, and so stays behind until the next signal.

Besides, seen while modelling and stated as an exemption of a property or as a
hazard with a note:

- A failed page read is announced with an empty chat id, which no view takes
  (`service.nim:668`); the cursor stays pending.
- A search that is refused leaves the searched id and the page size behind
  (`messages/module.nim:527`): the next page, also one of ordinary scrolling, is
  taken for one of the search and asks for another, until the history is loaded.
- An image that joins the row of its album is lost, until it is loaded again, when a
  later message of the same page replaces an image of that album: the row goes with
  all that is listed in it (`messages/module.nim:134`).
- All documents number their requests from 1 and hear all answers: a request is
  resolved by the response to another document's request of the same number.
  `AnswersNotSwapped` therefore compares the numbers alone.
- A chat created behind the screen has a view that nobody counts
  (`chat_section/module.nim:706`).
- `beforeunload` stops the timeout checker for good, also when the page stays.
- A change of the address resets the chain to 1 and tells nobody, also within a
  document.
- When the transport comes after the injector, its event and the injector's timer
  can make a channel each; the wrapper of the first one is deaf.
- In a page with a provider of its own, every retry of the installation makes
  another wrapper with a timer of its own.

- The channels of a spectated community are read before the modules that show them
  exist (`community/service.nim`, `spectateCommunity`). If the first page arrives
  before its module listens, no view takes it, and the chat that is opened then
  is not told that it is loaded.
- In a chat without messages (also one that is cleared), a search whose page comes
  back empty never ends, because `newMessagesLoaded` looks for the message only in
  pages that are not empty.

The properties leave these cases out and say so.

## 5. What is proved

All by TLAPS, for every set of chats and messages, page size and bound that satisfies
the assumptions in the modules (one `ASSUME` or two in each), which only say that the
identifiers differ, the bounds are numbers and the messages are finitely many.

### MessageLoadingProofs

`TypeCorrect`, `Invariance`, `PendingHasAnswer`, `OneReadAtATime`,
`NothingForgotten`, `CursorMovesBack`.

None of the last four properties is inductive alone. `IInv` adds what they rest
on. For a chat that nothing disturbed: every read in flight starts where the
cursor stands and the cursor is pending (`Undisturbed`), so a read's answer is
the answer to the cursor's question. The position that comes with a page is older
than the one it was read from (`PagesGoBack`), so an answer moves the cursor
back. A posted event that is going to drop the cursor has already marked its
chats (`ResetsDisturb`), and so has a failed read (`FailuresAreKnown`): between
the posting of such an event and its handling the guarantees are suspended, not
broken. The proof has a lemma for each action, grouped by party (status-go,
pool, main thread, user); the central one is the answer of a page, where
`NoGap` is split by where the message was: in the page, behind its end, or
announced meanwhile.

### ChatSectionsProofs

`Invariance`, `TypeCorrect`, `ActiveIsShown`, `WithinLimit`, `SwitchIsNotEmpty`,
`RecordIsKept`.

`IInv`: a visible row has its view and its chat exists; without categories the
active chat of every built section has a row (`ItemsExist`) and the one on screen
is visible alone; every view is in the queue or in `createdBehind`, and the queue is
within the limit (`LoadedAreKept`). `WithinLimit` (the views without those of
`createdBehind` that are not queued are within the limit) then follows because a
sequence of n elements has at most n different ones. The operators are proved
first (what a queue step, setting the active item and forgetting a section keep),
then one lemma per action. `Categorised = {}` is a hypothesis of
`ActiveIsShown`, `SwitchIsNotEmpty` and `RecordIsKept`; the violated run
`sections_categories` shows what happens without it. `RecordIsKept` needs in
addition that a section on screen has its rows built and its active chat recorded
(`RecordHolds`).

### MessageSearchProofs

`Invariance`, `TypeCorrect`, `SearchIsCarriedOn`, `LargePagesAreSearched`,
`NoSearchIsGivenUp`.

`IInv`: a cursor that is pending has its page read, unless a request has failed
(`Answered`); it stands on a stored message (`OnMessage`); a search has a message
it is about, and a message that is looked for has a search or was refused
(`SearchHasTarget`); lookups have numbers that have been given out
(`LookupsAreNumbered`), so that only the last one is taken. `NoSearchIsGivenUp` is
an action property that follows from it action by action.

### EthereumProviderProofs

`Invariance`, `TypeCorrect`, `EntryForEveryPending`, `AnswersAreNotLost`,
`AnswersMatch`, `PromisesAreKept`.

The properties that are checked are nearly inductive together. What they miss is
that ids a document has not used belong to requests that were not made, and that a
document that is not loaded has used none (`IdsAreFresh`), and that only pending
requests are counted as old (`TimedOutHaveEntry`). From the invariant each
step of the provider is a step of `ProviderRequests` under the mapping or leaves
its variables alone (`PromisesAreKept`, the safety part).

### ConnectorManagerProofs

`Invariance`, `TypeCorrect`, `EventsAreRight`, `CopyIsWhole`, `ConnectIsToldOnce`.

`EventsTellState` only speaks of an empty wire. The invariant says what the wire
holds: the *last* event of each kind on it says what the manager is now, and if
there is none, the page was told so already; between two connects there is a
disconnect; all properties anywhere were the manager's at one time. The signals of
a handler are `Telling`: they say of each of the three things how it changes or
nothing if it does not. Signals that are `Telling` keep the invariant
(`ReportKeeps`), whatever was on the wire; each handler's signals are then shown to
be `Telling`, those of `OnConnected` one part after another.

### ProviderInjectionProofs

`Invariance`, `TypeCorrect`, `DeafOnlyWhenLate`, `InitAnswerComes`, `WrapperIsOne`.

The invariant bounds the channels by what can still make one: a timer that is set
means that no channel was made by it, and the event comes once. `TypeCorrect`
therefore includes that there are never more than two channels.

### MessageModelProofs

`Invariance`, `TypeCorrect`, `NewestIsFirst`, `AlbumHasOneRow`, `MarkerSeparates`,
`PagesAreShown`, `RowsAreAsPromised`: every property of the run `list_order`, for any
finite set of messages, any ids and clocks, any album, and any messages that replace
others or come deleted for me. `TiesAreBroken`: the
property that `list_ties` refutes holds where no three messages have one clock.

The list is reasoned about by what is in it and what is `Above` what in it, never by
indices. `Tidy` says that whatever is above a row `Fits` there; from it follows
that no row is there twice. It is not inductive alone: the merge compares a new
message with the marker as if it were a message, and puts it where it belongs only
because the marker is `Tied`, that is, below the row of the first unseen message and
with its clock. That row is then the third message of its clock, so what looks out of
order is what `Crowded` allows. `Tied` depends on the images of the album, so
`OneAlbumRow` is part of `IInv` as well: deleting one image removes the row of all of
them, and the marker must not stay behind as that of another image.

`SortedLists`: the rows of a finite set, taken by the number of rows that are
greater, are all of them in descending order (that number is an injection into
as many numbers as there are rows, hence onto). `MergedOrder`: the merge drops
nothing, adds nothing else, and what is above what in its result. From these
`InsertKeepsTidy`, `ResetTiesMarker`, `RemoveItemTakesOne` and
`WithoutReplacedKeepsRest` say what the operations of the list keep,
`ItemsOfKeepAlbum` what the loop makes of a page, and one lemma for each action puts
them together. `Effect` is what every step does to the messages; the refinement
follows from it and from the order of both lists.

`MergedOrder` needs to know what `FlattenSeq` returns, which is a recursive function
over sequences of any length. `SequenceLemmas` proves it (`FlattenSeqJoins`) by
induction: `NaturalInduction` is stated for a *set* of natural numbers, so that it
needs no operator parameter, and comes from the fact that < is well founded on them.

### Only model-checked

- Liveness (`PendingEnds`, `HistoryIsShown`, `OpenedChatStopsLoading`,
  `SearchEnds`, `LoadingEnds`, `ProviderComes`, `AskedIsAnnounced` and the
  liveness of `ProviderRequests`): fairness is out of the prover's reach.
  Every other property of the runs is proved.

## 6. What could follow

In the order of what it would add:

1. `PinnedMessages`: the pinned page against pin and unpin signals and the counter
   `numOfPinnedMessagesPerChat`.
2. `ChatService`: hydrate against signals, unread counters, mark-all-read and its
   late answer, leave and rejoin; composed with `MessageLoading` for the cursor
   that a late answer brings back after leaving.
3. `EventEmitter`: handlers that connect, disconnect and run once during an emit.
4. The wallet's activity sessions, the market leaderboard's pages, the connector's
   queue of requests (the other side of `EthereumProvider`).
5. The diff of two community states into events; reactions as toggles.

## 7. Not modelled

Wallet, market, the connector's own queue, contacts, onboarding, keycards, devices
and the activity center are not modelled; section 6 and the components in
`PROJECT.json` say what they would be about. The settings and profile services
forward calls with a cached copy. The signals manager and the backend wrappers
only convert. The repository's other JavaScript and TypeScript is data and
libraries (translations, the emoji list, the vendored chart library): there is no
behaviour of this program in it. Other QML, StatusQ, status-go (a submodule that
is not part of the repository's files), builds and tests are outside.
