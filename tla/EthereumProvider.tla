-------------------------- MODULE EthereumProvider --------------------------
(***************************************************************************)
(* The requests of the Ethereum provider that the browser injects into     *)
(* pages: the wrapper in each document, which numbers its requests from 1  *)
(* and keeps the pending ones; the connector, which works on any number of *)
(* calls at a time; and the web channel between them, which all documents  *)
(* share, so that what the connector emits goes to every one of them.      *)
(*                                                                         *)
(* A document stands for one load of a page in a tab or a frame.  The age  *)
(* of a request is abstracted to whether it exceeds requestTimeout.        *)
(***************************************************************************)
EXTENDS Naturals, FiniteSets, Sequences

CONSTANTS
  Document,        \* loads of pages
  MaxId,           \* bound: requests a document makes
  MaxRequests,     \* bound: requests all documents make
  MaxDisconnects   \* bound: disconnects of the provider

ASSUME RequestAssumption == {MaxId, MaxRequests, MaxDisconnects} \subseteq Nat

Id == 1..MaxId

Request == Document \X Id

\* requestCompletedEvent, with the request the response belongs to; of that
\* only the id reaches the wrapper.
Completed(r) == [kind |-> "completed", of |-> r]

Disconnected == [kind |-> "disconnected"]

Message == {Completed(r) : r \in Request} \cup {Disconnected}

VARIABLES
  phase,            \* of a document: "new", "open" or "closed"
  requestIdCounter, \* the next request id of a document
  pendingRequests,  \* the ids a document has an entry for
  timedOut,         \* those of them that are older than requestTimeout
  timeoutChecker,   \* whether the interval that looks for them is set
  promise,          \* of a request: "none", "pending", "answered" or "rejected"
  answer,           \* the request whose response resolved it, as a set
  calls,            \* calls the connector has not answered yet
  inbox,            \* signals on their way to a document
  disconnects       \* disconnects so far

vars == <<phase, requestIdCounter, pendingRequests, timedOut, timeoutChecker,
          promise, answer, calls, inbox, disconnects>>

TypeOK ==
  /\ phase \in [Document -> {"new", "open", "closed"}]
  /\ requestIdCounter \in [Document -> 1..MaxId + 1]
  /\ pendingRequests \in [Document -> SUBSET Id]
  /\ timedOut \in [Document -> SUBSET Id]
  /\ timeoutChecker \in [Document -> BOOLEAN]
  /\ promise \in [Request -> {"none", "pending", "answered", "rejected"}]
  /\ answer \in [Request -> SUBSET Request]
  /\ calls \subseteq Request
  /\ inbox \in [Document -> Seq(Message)]
  /\ disconnects \in 0..MaxDisconnects

Init ==
  /\ phase = [d \in Document |-> "new"]
  /\ requestIdCounter = [d \in Document |-> 1]
  /\ pendingRequests = [d \in Document |-> {}]
  /\ timedOut = [d \in Document |-> {}]
  /\ timeoutChecker = [d \in Document |-> FALSE]
  /\ promise = [r \in Request |-> "none"]
  /\ answer = [r \in Request |-> {}]
  /\ calls = {}
  /\ inbox = [d \in Document |-> <<>>]
  /\ disconnects = 0
----------------------------------------------------------------------------
(* The document *)

\* The constructor of EthereumProvider, in a page that has been loaded.
Open(d) ==
  /\ phase[d] = "new"
  /\ phase' = [phase EXCEPT ![d] = "open"]
  /\ timeoutChecker' = [timeoutChecker EXCEPT ![d] = TRUE]
  /\ UNCHANGED <<requestIdCounter, pendingRequests, timedOut, promise, answer, calls,
                 inbox, disconnects>>

\* The page is replaced or its tab is closed.
Close(d) ==
  /\ phase[d] = "open"
  /\ phase' = [phase EXCEPT ![d] = "closed"]
  /\ inbox' = [inbox EXCEPT ![d] = <<>>]
  /\ UNCHANGED <<requestIdCounter, pendingRequests, timedOut, timeoutChecker, promise,
                 answer, calls, disconnects>>

\* The bounds of the model: another request may be made in a document.
MayRequest(d) ==
  /\ requestIdCounter[d] <= MaxId
  /\ Cardinality({r \in Request : promise[r] # "none"}) < MaxRequests

\* request: the entry is there before the call is made.  The call's own return
\* value says nothing; the answer comes as a signal.
MakeRequest(d) ==
  LET id == requestIdCounter[d] IN
  /\ phase[d] = "open"
  /\ MayRequest(d)
  /\ requestIdCounter' = [requestIdCounter EXCEPT ![d] = id + 1]
  /\ pendingRequests' = [pendingRequests EXCEPT ![d] = @ \cup {id}]
  /\ promise' = [promise EXCEPT ![<<d, id>>] = "pending"]
  /\ calls' = calls \cup {<<d, id>>}
  /\ UNCHANGED <<phase, timedOut, timeoutChecker, answer, inbox, disconnects>>

\* request with arguments that cannot be sent: the id is used up, the entry removed.
MakeInvalidRequest(d) ==
  LET id == requestIdCounter[d] IN
  /\ phase[d] = "open"
  /\ MayRequest(d)
  /\ requestIdCounter' = [requestIdCounter EXCEPT ![d] = id + 1]
  /\ promise' = [promise EXCEPT ![<<d, id>>] = "rejected"]
  /\ UNCHANGED <<phase, pendingRequests, timedOut, timeoutChecker, answer, calls, inbox,
                 disconnects>>

\* A variant: the promises are rejected and their entries stay.
RejectRequestsKeepingEntries(d, ids) ==
  /\ promise' = [r \in Request |->
                   IF r[1] = d /\ r[2] \in ids THEN "rejected" ELSE promise[r]]
  /\ timedOut' = [timedOut EXCEPT ![d] = @ \ ids]
  /\ UNCHANGED pendingRequests

\* A variant: the map is cleared before the requests are taken from it.
RejectRequestsAfterClear(d, ids) ==
  /\ pendingRequests' = [pendingRequests EXCEPT ![d] = @ \ ids]
  /\ timedOut' = [timedOut EXCEPT ![d] = @ \ ids]
  /\ UNCHANGED promise

\* _rejectRequests, and the removal of the entries before or after it.
RejectRequests(d, ids) ==
  /\ promise' = [r \in Request |->
                   IF r[1] = d /\ r[2] \in ids THEN "rejected" ELSE promise[r]]
  /\ pendingRequests' = [pendingRequests EXCEPT ![d] = @ \ ids]
  /\ timedOut' = [timedOut EXCEPT ![d] = @ \ ids]

\* Time passes: the oldest of the younger requests exceeds requestTimeout.
Age(d) ==
  /\ phase[d] = "open"
  /\ \E id \in pendingRequests[d] \ timedOut[d] :
       /\ \A other \in pendingRequests[d] \ timedOut[d] : id <= other
       /\ timedOut' = [timedOut EXCEPT ![d] = @ \cup {id}]
  /\ UNCHANGED <<phase, requestIdCounter, pendingRequests, timeoutChecker, promise, answer,
                 calls, inbox, disconnects>>

\* _checkTimedOutRequests
CheckTimedOutRequests(d) ==
  /\ phase[d] = "open"
  /\ timeoutChecker[d]
  /\ timedOut[d] # {}
  /\ RejectRequests(d, timedOut[d])
  /\ UNCHANGED <<phase, requestIdCounter, timeoutChecker, answer, calls, inbox, disconnects>>

\* The handler of beforeunload.  The page may stay: the event also precedes a
\* navigation that is cancelled or turns out to be a download.
BeforeUnload(d) ==
  /\ phase[d] = "open"
  /\ timeoutChecker' = [timeoutChecker EXCEPT ![d] = FALSE]
  /\ RejectRequests(d, pendingRequests[d])
  /\ UNCHANGED <<phase, requestIdCounter, answer, calls, inbox, disconnects>>

\* A variant: answers are taken to come in the order of the requests.
HandleRequestCompletedInOrder(d, of) ==
  LET entry == {id \in pendingRequests[d] : \A other \in pendingRequests[d] : id <= other} IN
  /\ promise' = [r \in Request |-> IF r[1] = d /\ r[2] \in entry THEN "answered" ELSE promise[r]]
  /\ answer' = [r \in Request |-> IF r[1] = d /\ r[2] \in entry THEN {of} ELSE answer[r]]
  /\ pendingRequests' = [pendingRequests EXCEPT ![d] = @ \ entry]
  /\ timedOut' = [timedOut EXCEPT ![d] = @ \ entry]

\* handleRequestCompleted: the entry of the id is settled and removed, whichever
\* request of that id the response answers; without an entry it is ignored.
HandleRequestCompleted(d, of) ==
  LET id == of[2]
      entry == {id} \cap pendingRequests[d] IN
  /\ promise' = [r \in Request |-> IF r[1] = d /\ r[2] \in entry THEN "answered" ELSE promise[r]]
  /\ answer' = [r \in Request |-> IF r[1] = d /\ r[2] \in entry THEN {of} ELSE answer[r]]
  /\ pendingRequests' = [pendingRequests EXCEPT ![d] = @ \ {id}]
  /\ timedOut' = [timedOut EXCEPT ![d] = @ \ {id}]

\* A signal arrives in a document.
ReceiveCompleted(d) ==
  /\ inbox[d] # <<>> /\ Head(inbox[d]).kind = "completed"
  /\ inbox' = [inbox EXCEPT ![d] = Tail(@)]
  /\ HandleRequestCompleted(d, Head(inbox[d]).of)
  /\ UNCHANGED <<phase, requestIdCounter, timeoutChecker, calls, disconnects>>

\* A variant: the ids start again after a disconnect.
ReceiveDisconnectedFromZero(d) ==
  /\ inbox[d] # <<>> /\ Head(inbox[d]) = Disconnected
  /\ inbox' = [inbox EXCEPT ![d] = Tail(@)]
  /\ requestIdCounter' = [requestIdCounter EXCEPT ![d] = 0]
  /\ RejectRequests(d, pendingRequests[d])
  /\ UNCHANGED <<phase, timeoutChecker, answer, calls, disconnects>>

\* The handler of disconnectEvent.
ReceiveDisconnected(d) ==
  /\ inbox[d] # <<>> /\ Head(inbox[d]) = Disconnected
  /\ inbox' = [inbox EXCEPT ![d] = Tail(@)]
  /\ RejectRequests(d, pendingRequests[d])
  /\ UNCHANGED <<phase, requestIdCounter, timeoutChecker, answer, calls, disconnects>>
----------------------------------------------------------------------------
(* The connector *)

\* A signal of the object on the channel goes to every document that listens.
Broadcast(message) ==
  inbox' = [d \in Document |->
              IF phase[d] = "open" THEN Append(inbox[d], message) ELSE inbox[d]]

\* connectorCallRPCResult: the calls are tasks of a pool, so the answers come in
\* any order; a call of a document that is gone is answered as well.
CallResult(r) ==
  /\ r \in calls
  /\ calls' = calls \ {r}
  /\ Broadcast(Completed(r))
  /\ UNCHANGED <<phase, requestIdCounter, pendingRequests, timedOut, timeoutChecker,
                 promise, answer, disconnects>>

\* A variant: calls that are worked on are dropped.
DisconnectDroppingCalls ==
  /\ disconnects < MaxDisconnects
  /\ disconnects' = disconnects + 1
  /\ calls' = {}
  /\ Broadcast(Disconnected)
  /\ UNCHANGED <<phase, requestIdCounter, pendingRequests, timedOut, timeoutChecker,
                 promise, answer>>

\* clearState of the manager, on a signal or by the user.
Disconnect ==
  /\ disconnects < MaxDisconnects
  /\ disconnects' = disconnects + 1
  /\ Broadcast(Disconnected)
  /\ UNCHANGED <<phase, requestIdCounter, pendingRequests, timedOut, timeoutChecker,
                 promise, answer, calls>>
----------------------------------------------------------------------------
Next ==
  \/ \E d \in Document :
       \/ Open(d)
       \/ Close(d)
       \/ MakeRequest(d)
       \/ MakeInvalidRequest(d)
       \/ Age(d)
       \/ CheckTimedOutRequests(d)
       \/ BeforeUnload(d)
       \/ ReceiveCompleted(d)
       \/ ReceiveDisconnected(d)
  \/ \E r \in Request : CallResult(r)
  \/ Disconnect

Spec == Init /\ [][Next]_vars

\* Time passes and the interval fires.  Nobody has to answer a call, since the
\* user may be asked first, and nobody has to close a page.
Fairness ==
  \A d \in Document : WF_vars(Age(d)) /\ WF_vars(CheckTimedOutRequests(d))

FairSpec == Spec /\ Fairness
----------------------------------------------------------------------------
(* Properties *)

(***************************************************************************)
(* A document has an entry exactly for its promises that are not settled:  *)
(* no promise is forgotten, whatever rejects requests in between, and an   *)
(* answer that comes late finds no entry.                                  *)
(***************************************************************************)
EntryPerPendingPromise ==
  \A d \in Document, id \in Id :
    id \in pendingRequests[d] <=> promise[<<d, id>>] = "pending"

(***************************************************************************)
(* A promise that is not settled still has its answer to come: the call is *)
(* being worked on or its result is on the way to the document.            *)
(***************************************************************************)
NoAnswerLost ==
  \A d \in Document, id \in Id :
    phase[d] = "open" /\ promise[<<d, id>>] = "pending" =>
      \/ <<d, id>> \in calls
      \/ \E i \in DOMAIN inbox[d] : inbox[d][i] = Completed(<<d, id>>)

(***************************************************************************)
(* Within a document answers are never swapped, in whatever order they     *)
(* come and however late: what resolves a request is the response to it or *)
(* to the request of another document that has the same id.                *)
(***************************************************************************)
AnswersNotSwapped ==
  \A r, other \in Request : other \in answer[r] => other[2] = r[2]

\* The promises as a page sees them, and the requests of documents that live and
\* look for timeouts.
Settlement ==
  [r \in Request |-> IF promise[r] \in {"answered", "rejected"} THEN "settled" ELSE promise[r]]

Watched == {r \in Request : phase[r[1]] = "open" /\ timeoutChecker[r[1]]}

Promised == INSTANCE ProviderRequests WITH promise <- Settlement, watched <- Watched

(***************************************************************************)
(* The provider keeps what ProviderRequests promises: a promise is settled *)
(* once and for all, and with nobody but the clock to rely on every        *)
(* pending promise is settled as long as the timeouts are looked for.      *)
(***************************************************************************)
ImplementsProviderRequests == Promised!Spec
=============================================================================
