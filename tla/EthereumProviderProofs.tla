----------------------- MODULE EthereumProviderProofs -----------------------
(***************************************************************************)
(* Theorems about EthereumProvider, for every set of documents and every   *)
(* bound: the types, the entries of pending requests, the answers that are *)
(* to come, and that every step keeps what ProviderRequests promises.      *)
(***************************************************************************)
EXTENDS EthereumProvider, TLAPS

\* What is older than requestTimeout has an entry.
TimedOutHaveEntry == \A d \in Document : timedOut[d] \subseteq pendingRequests[d]

\* The ids a document has not used yet belong to requests that were not made, and
\* a document that has not been loaded has used none.
IdsAreFresh ==
  \A d \in Document :
    /\ \A id \in Id : id >= requestIdCounter[d] => promise[<<d, id>>] = "none"
    /\ phase[d] = "new" => requestIdCounter[d] = 1 /\ ~timeoutChecker[d]

\* The inductive invariant.
IInv ==
  /\ TypeOK
  /\ TimedOutHaveEntry
  /\ IdsAreFresh
  /\ EntryPerPendingPromise
  /\ NoAnswerLost
  /\ AnswersNotSwapped

USE RequestAssumption

----------------------------------------------------------------------------
(* Signals on their way to a document *)

Heard(s, message) == \E i \in DOMAIN s : s[i] = message

\* A signal that is not the first is still there when the first is taken.
LEMMA TailKeeps ==
  ASSUME NEW S, NEW s \in Seq(S), s # <<>>,
         NEW message, message # Head(s), Heard(s, message)
  PROVE  Heard(Tail(s), message)
<1>1. PICK i \in DOMAIN s : s[i] = message
  BY DEF Heard
<1>2. i \in 2..Len(s)
  BY <1>1
<1>3. i - 1 \in DOMAIN Tail(s) /\ Tail(s)[i - 1] = s[i]
  BY <1>2
<1> QED
  BY <1>1, <1>3 DEF Heard

\* A signal that is sent is there, and so are those sent before.
LEMMA AppendKeeps ==
  ASSUME NEW S, NEW s \in Seq(S), NEW last \in S, NEW message,
         Heard(s, message) \/ message = last
  PROVE  Heard(Append(s, last), message)
<1>1. CASE Heard(s, message)
  <2>1. PICK i \in DOMAIN s : s[i] = message
    BY <1>1 DEF Heard
  <2>2. i \in DOMAIN Append(s, last) /\ Append(s, last)[i] = s[i]
    BY <2>1
  <2> QED
    BY <2>1, <2>2 DEF Heard
<1>2. CASE message = last
  <2>1. Len(s) + 1 \in DOMAIN Append(s, last) /\ Append(s, last)[Len(s) + 1] = last
    OBVIOUS
  <2> QED
    BY <1>2, <2>1 DEF Heard
<1> QED
  BY <1>1, <1>2

\* NoAnswerLost says of every promise that is not settled that it is answered.
Answerable(d, id) == <<d, id>> \in calls \/ Heard(inbox[d], Completed(<<d, id>>))

LEMMA NoAnswerLostAsHeard ==
  NoAnswerLost <=>
    \A d \in Document, id \in Id :
      phase[d] = "open" /\ promise[<<d, id>>] = "pending" => Answerable(d, id)
BY DEF NoAnswerLost, Answerable, Heard
----------------------------------------------------------------------------
(* The invariant holds at first and is kept by every action of a document. *)

LEMMA InitHolds == Init => IInv
BY SMT DEF Init, IInv, TypeOK, TimedOutHaveEntry, IdsAreFresh, EntryPerPendingPromise,
       NoAnswerLost, AnswersNotSwapped, Id, Request

\* The entries stay right when those of one document are changed with its promises.
LEMMA EntriesOfOneDocument ==
  ASSUME EntryPerPendingPromise, NEW d \in Document,
         \A d1 \in Document \ {d}, id \in Id :
           /\ pendingRequests'[d1] = pendingRequests[d1]
           /\ promise'[<<d1, id>>] = promise[<<d1, id>>],
         \A id \in Id : id \in pendingRequests'[d] <=> promise'[<<d, id>>] = "pending"
  PROVE  EntryPerPendingPromise'
<1> SUFFICES ASSUME NEW d1 \in Document, NEW id \in Id
             PROVE  id \in pendingRequests'[d1] <=> promise'[<<d1, id>>] = "pending"
  BY DEF EntryPerPendingPromise
<1>1. CASE d1 = d
  BY <1>1
<1>2. CASE d1 # d
  BY <1>2 DEF EntryPerPendingPromise
<1> QED
  BY <1>1, <1>2

LEMMA OpenKeeps ==
  ASSUME IInv, NEW d \in Document, Open(d)
  PROVE  IInv'
<1> USE DEF Open
<1>1. TypeOK'
  BY DEF IInv, TypeOK
<1>2. TimedOutHaveEntry' /\ EntryPerPendingPromise' /\ AnswersNotSwapped'
  BY DEF IInv, TimedOutHaveEntry, EntryPerPendingPromise, AnswersNotSwapped
<1>3. IdsAreFresh'
  BY DEF IInv, IdsAreFresh, TypeOK
<1>4. NoAnswerLost'
  BY DEF IInv, NoAnswerLost, IdsAreFresh, TypeOK, Id
<1> QED
  BY <1>1, <1>2, <1>3, <1>4 DEF IInv

LEMMA CloseKeeps ==
  ASSUME IInv, NEW d \in Document, Close(d)
  PROVE  IInv'
<1> USE DEF Close
<1>1. TypeOK'
  BY DEF IInv, TypeOK
<1>2. TimedOutHaveEntry' /\ EntryPerPendingPromise' /\ AnswersNotSwapped'
  BY DEF IInv, TimedOutHaveEntry, EntryPerPendingPromise, AnswersNotSwapped
<1>3. IdsAreFresh'
  BY DEF IInv, IdsAreFresh, TypeOK
<1>4. NoAnswerLost'
  BY DEF IInv, NoAnswerLost, TypeOK
<1> QED
  BY <1>1, <1>2, <1>3, <1>4 DEF IInv

LEMMA MakeRequestKeeps ==
  ASSUME IInv, NEW d \in Document, MakeRequest(d)
  PROVE  IInv'
<1> DEFINE id == requestIdCounter[d]
<1> USE DEF MakeRequest
<1>0. id \in Id /\ <<d, id>> \in Request
  BY DEF IInv, TypeOK, MayRequest, Id, Request
<1>1. TypeOK'
  <2>1. requestIdCounter' \in [Document -> 1..MaxId + 1]
    BY <1>0 DEF IInv, TypeOK, Id
  <2>2. pendingRequests' \in [Document -> SUBSET Id]
    BY <1>0 DEF IInv, TypeOK
  <2>3. promise' \in [Request -> {"none", "pending", "answered", "rejected"}]
    BY <1>0 DEF IInv, TypeOK
  <2> QED
    BY <1>0, <2>1, <2>2, <2>3 DEF IInv, TypeOK
<1>2. TimedOutHaveEntry' /\ AnswersNotSwapped'
  BY DEF IInv, TypeOK, TimedOutHaveEntry, AnswersNotSwapped
<1>3. \A d1 \in Document, id1 \in Id :
        promise'[<<d1, id1>>] = IF d1 = d /\ id1 = id THEN "pending" ELSE promise[<<d1, id1>>]
  BY <1>0 DEF IInv, TypeOK, Request
<1>4. EntryPerPendingPromise'
  <2>1. \A d1 \in Document : pendingRequests'[d1] =
          IF d1 = d THEN pendingRequests[d] \cup {id} ELSE pendingRequests[d1]
    BY DEF IInv, TypeOK
  <2>2. EntryPerPendingPromise
    BY DEF IInv
  <2>3. ASSUME NEW id1 \in Id
        PROVE  id1 \in pendingRequests'[d] <=> promise'[<<d, id1>>] = "pending"
    <3>1. id1 \in pendingRequests[d] <=> promise[<<d, id1>>] = "pending"
      BY <2>2 DEF EntryPerPendingPromise
    <3> QED
      BY <1>3, <2>1, <3>1
  <2> QED
    BY <1>3, <2>1, <2>2, <2>3, EntriesOfOneDocument
<1>5. IdsAreFresh'
  BY <1>0, <1>3 DEF IInv, TypeOK, IdsAreFresh, Id
<1>6. NoAnswerLost'
  BY <1>0, <1>3 DEF IInv, NoAnswerLost
<1> QED
  BY <1>1, <1>2, <1>4, <1>5, <1>6 DEF IInv

LEMMA MakeInvalidRequestKeeps ==
  ASSUME IInv, NEW d \in Document, MakeInvalidRequest(d)
  PROVE  IInv'
<1> DEFINE id == requestIdCounter[d]
<1> USE DEF MakeInvalidRequest
<1>0. id \in Id /\ <<d, id>> \in Request
  BY DEF IInv, TypeOK, MayRequest, Id, Request
<1>1. TypeOK'
  <2>1. requestIdCounter' \in [Document -> 1..MaxId + 1]
    BY <1>0 DEF IInv, TypeOK, Id
  <2>2. promise' \in [Request -> {"none", "pending", "answered", "rejected"}]
    BY <1>0 DEF IInv, TypeOK
  <2> QED
    BY <2>1, <2>2 DEF IInv, TypeOK
<1>2. TimedOutHaveEntry' /\ AnswersNotSwapped'
  BY DEF IInv, TypeOK, TimedOutHaveEntry, AnswersNotSwapped
<1>3. \A d1 \in Document, id1 \in Id :
        promise'[<<d1, id1>>] = IF d1 = d /\ id1 = id THEN "rejected" ELSE promise[<<d1, id1>>]
  BY <1>0 DEF IInv, TypeOK, Request
<1>4. EntryPerPendingPromise'
  <2>1. promise[<<d, id>>] = "none"
    BY <1>0 DEF IInv, TypeOK, IdsAreFresh, Id
  <2>2. EntryPerPendingPromise
    BY DEF IInv
  <2>3. ASSUME NEW id1 \in Id
        PROVE  id1 \in pendingRequests'[d] <=> promise'[<<d, id1>>] = "pending"
    <3>1. id1 \in pendingRequests[d] <=> promise[<<d, id1>>] = "pending"
      BY <2>2 DEF EntryPerPendingPromise
    <3> QED
      BY <1>3, <2>1, <3>1
  <2> QED
    BY <1>3, <2>2, <2>3, EntriesOfOneDocument
<1>5. IdsAreFresh'
  BY <1>0, <1>3 DEF IInv, TypeOK, IdsAreFresh, Id
<1>6. NoAnswerLost'
  BY <1>0, <1>3 DEF IInv, NoAnswerLost
<1> QED
  BY <1>1, <1>2, <1>4, <1>5, <1>6 DEF IInv

LEMMA AgeKeeps ==
  ASSUME IInv, NEW d \in Document, Age(d)
  PROVE  IInv'
<1> USE DEF Age
<1>1. TypeOK'
  BY DEF IInv, TypeOK
<1>2. TimedOutHaveEntry'
  BY DEF IInv, TypeOK, TimedOutHaveEntry
<1>3. EntryPerPendingPromise' /\ AnswersNotSwapped' /\ IdsAreFresh' /\ NoAnswerLost'
  BY DEF IInv, EntryPerPendingPromise, AnswersNotSwapped, IdsAreFresh, NoAnswerLost
<1> QED
  BY <1>1, <1>2, <1>3 DEF IInv
----------------------------------------------------------------------------
(* Requests that are rejected together *)

\* What RejectRequests does to the promises and the entries.
LEMMA RejectRequestsSettles ==
  ASSUME IInv, NEW d \in Document, NEW ids \in SUBSET Id, RejectRequests(d, ids),
         ids \subseteq pendingRequests[d]
  PROVE  /\ promise' \in [Request -> {"none", "pending", "answered", "rejected"}]
         /\ pendingRequests' \in [Document -> SUBSET Id]
         /\ timedOut' \in [Document -> SUBSET Id]
         /\ TimedOutHaveEntry'
         /\ EntryPerPendingPromise'
         /\ \A d1 \in Document, id \in Id :
              promise'[<<d1, id>>] =
                IF d1 = d /\ id \in ids THEN "rejected" ELSE promise[<<d1, id>>]
         /\ \A id \in ids : promise[<<d, id>>] = "pending"
<1> USE DEF RejectRequests
<1>1. promise' \in [Request -> {"none", "pending", "answered", "rejected"}]
  BY DEF IInv, TypeOK
<1>2. /\ pendingRequests' \in [Document -> SUBSET Id]
      /\ timedOut' \in [Document -> SUBSET Id]
  BY DEF IInv, TypeOK
<1>3. TimedOutHaveEntry'
  BY DEF IInv, TypeOK, TimedOutHaveEntry
<1>4. \A d1 \in Document, id \in Id :
        promise'[<<d1, id>>] =
          IF d1 = d /\ id \in ids THEN "rejected" ELSE promise[<<d1, id>>]
  BY DEF Request
<1>5. EntryPerPendingPromise'
  <2>1. \A d1 \in Document : pendingRequests'[d1] =
          IF d1 = d THEN pendingRequests[d] \ ids ELSE pendingRequests[d1]
    BY DEF IInv, TypeOK
  <2>2. EntryPerPendingPromise
    BY DEF IInv
  <2>3. ASSUME NEW id \in Id
        PROVE  id \in pendingRequests'[d] <=> promise'[<<d, id>>] = "pending"
    <3>1. id \in pendingRequests[d] <=> promise[<<d, id>>] = "pending"
      BY <2>2 DEF EntryPerPendingPromise
    <3> QED
      BY <1>4, <2>1, <3>1
  <2> QED
    BY <1>4, <2>1, <2>2, <2>3, EntriesOfOneDocument
<1>6. \A id \in ids : promise[<<d, id>>] = "pending"
  BY DEF IInv, EntryPerPendingPromise
<1> QED
  BY <1>1, <1>2, <1>3, <1>4, <1>5, <1>6

\* Rejected requests were made, so that the fresh ids stay fresh.
LEMMA RejectRequestsKeepsFresh ==
  ASSUME IInv, NEW d \in Document, NEW ids \in SUBSET Id, RejectRequests(d, ids),
         ids \subseteq pendingRequests[d],
         UNCHANGED <<phase, requestIdCounter>>,
         \A d1 \in Document : timeoutChecker'[d1] => timeoutChecker[d1]
  PROVE  IdsAreFresh'
BY RejectRequestsSettles DEF IInv, IdsAreFresh

LEMMA CheckTimedOutRequestsKeeps ==
  ASSUME IInv, NEW d \in Document, CheckTimedOutRequests(d)
  PROVE  IInv'
<1> USE DEF CheckTimedOutRequests
<1>0. timedOut[d] \in SUBSET Id /\ timedOut[d] \subseteq pendingRequests[d]
  BY DEF IInv, TypeOK, TimedOutHaveEntry
<1>1. TypeOK' /\ TimedOutHaveEntry' /\ EntryPerPendingPromise'
  BY <1>0, RejectRequestsSettles DEF IInv, TypeOK
<1>2. IdsAreFresh'
  BY <1>0, RejectRequestsKeepsFresh
<1>3. NoAnswerLost'
  BY <1>0, RejectRequestsSettles DEF IInv, NoAnswerLost
<1>4. AnswersNotSwapped'
  BY DEF IInv, AnswersNotSwapped
<1> QED
  BY <1>1, <1>2, <1>3, <1>4 DEF IInv

LEMMA BeforeUnloadKeeps ==
  ASSUME IInv, NEW d \in Document, BeforeUnload(d)
  PROVE  IInv'
<1> USE DEF BeforeUnload
<1>0. pendingRequests[d] \in SUBSET Id
  BY DEF IInv, TypeOK
<1>1. TypeOK' /\ TimedOutHaveEntry' /\ EntryPerPendingPromise'
  BY <1>0, RejectRequestsSettles DEF IInv, TypeOK
<1>2. IdsAreFresh'
  <2>1. \A d1 \in Document : timeoutChecker'[d1] => timeoutChecker[d1]
    BY DEF IInv, TypeOK
  <2> QED
    BY <1>0, <2>1, RejectRequestsKeepsFresh
<1>3. NoAnswerLost'
  BY <1>0, RejectRequestsSettles DEF IInv, NoAnswerLost
<1>4. AnswersNotSwapped'
  BY DEF IInv, AnswersNotSwapped
<1> QED
  BY <1>1, <1>2, <1>3, <1>4 DEF IInv
----------------------------------------------------------------------------
(* Signals that arrive in a document *)

\* What HandleRequestCompleted does: the promise of the id is answered if it waits.
LEMMA HandleRequestCompletedSettles ==
  ASSUME IInv, NEW d \in Document, NEW of \in Request, HandleRequestCompleted(d, of)
  PROVE  /\ promise' \in [Request -> {"none", "pending", "answered", "rejected"}]
         /\ answer' \in [Request -> SUBSET Request]
         /\ pendingRequests' \in [Document -> SUBSET Id]
         /\ timedOut' \in [Document -> SUBSET Id]
         /\ TimedOutHaveEntry'
         /\ EntryPerPendingPromise'
         /\ AnswersNotSwapped'
         /\ \A d1 \in Document, id \in Id :
              promise'[<<d1, id>>] =
                IF d1 = d /\ id = of[2] /\ promise[<<d1, id>>] = "pending"
                THEN "answered" ELSE promise[<<d1, id>>]
<1> DEFINE entry == {of[2]} \cap pendingRequests[d]
<1> USE DEF HandleRequestCompleted
<1>1. promise' \in [Request -> {"none", "pending", "answered", "rejected"}]
  BY DEF IInv, TypeOK
<1>2. answer' \in [Request -> SUBSET Request]
  BY DEF IInv, TypeOK
<1>3. /\ pendingRequests' \in [Document -> SUBSET Id]
      /\ timedOut' \in [Document -> SUBSET Id]
  BY DEF IInv, TypeOK
<1>4. TimedOutHaveEntry'
  BY DEF IInv, TypeOK, TimedOutHaveEntry
<1>5. AnswersNotSwapped'
  BY DEF IInv, AnswersNotSwapped
<1>6. \A d1 \in Document, id \in Id :
        promise'[<<d1, id>>] = IF d1 = d /\ id \in entry THEN "answered" ELSE promise[<<d1, id>>]
  BY DEF Request
<1>7. ASSUME NEW id \in Id
      PROVE  id \in entry <=> id = of[2] /\ promise[<<d, id>>] = "pending"
  <2>1. id \in pendingRequests[d] <=> promise[<<d, id>>] = "pending"
    BY DEF IInv, EntryPerPendingPromise
  <2> QED
    BY <2>1
<1>8. EntryPerPendingPromise'
  <2>1. \A d1 \in Document : pendingRequests'[d1] =
          IF d1 = d THEN pendingRequests[d] \ {of[2]} ELSE pendingRequests[d1]
    BY DEF IInv, TypeOK
  <2>2. EntryPerPendingPromise
    BY DEF IInv
  <2>3. ASSUME NEW id \in Id
        PROVE  id \in pendingRequests'[d] <=> promise'[<<d, id>>] = "pending"
    <3>1. id \in pendingRequests[d] <=> promise[<<d, id>>] = "pending"
      BY <2>2 DEF EntryPerPendingPromise
    <3> QED
      BY <1>6, <2>1, <3>1
  <2>4. \A d1 \in Document \ {d}, id \in Id :
          /\ pendingRequests'[d1] = pendingRequests[d1]
          /\ promise'[<<d1, id>>] = promise[<<d1, id>>]
    <3> HIDE DEF entry, HandleRequestCompleted
    <3> SUFFICES ASSUME NEW d1 \in Document \ {d}, NEW id \in Id
                 PROVE  /\ pendingRequests'[d1] = pendingRequests[d1]
                        /\ promise'[<<d1, id>>] = promise[<<d1, id>>]
      OBVIOUS
    <3> QED
      BY <1>6, <2>1
  <2> QED
    BY <2>2, <2>3, <2>4, EntriesOfOneDocument
<1> HIDE DEF entry
<1> QED
  BY <1>1, <1>2, <1>3, <1>4, <1>5, <1>6, <1>7, <1>8

\* The first signal of a document is taken off its queue.
LEMMA ReceiveKeepsQueues ==
  ASSUME TypeOK, NEW d \in Document, inbox[d] # <<>>,
         inbox' = [inbox EXCEPT ![d] = Tail(@)]
  PROVE  inbox' \in [Document -> Seq(Message)] /\ Head(inbox[d]) \in Message
BY DEF TypeOK

LEMMA ReceiveCompletedKeeps ==
  ASSUME IInv, NEW d \in Document, ReceiveCompleted(d)
  PROVE  IInv'
<1> DEFINE of == Head(inbox[d]).of
<1> USE DEF ReceiveCompleted
<1>0. inbox[d] \in Seq(Message) /\ inbox' \in [Document -> Seq(Message)]
  BY ReceiveKeepsQueues DEF IInv, TypeOK
<1>1. of \in Request /\ Head(inbox[d]) = Completed(of)
  <2>1. Head(inbox[d]) \in Message
    BY ReceiveKeepsQueues DEF IInv
  <2> QED
    BY <2>1 DEF Message, Completed, Disconnected
<1>2. HandleRequestCompleted(d, of)
  OBVIOUS
<1> HIDE DEF of
<1>3. TypeOK' /\ TimedOutHaveEntry' /\ EntryPerPendingPromise' /\ AnswersNotSwapped'
  BY <1>0, <1>1, <1>2, HandleRequestCompletedSettles DEF IInv, TypeOK
<1>4. IdsAreFresh'
  BY <1>1, <1>2, HandleRequestCompletedSettles DEF IInv, IdsAreFresh
<1>5. NoAnswerLost'
  <2> SUFFICES ASSUME NEW d1 \in Document, NEW id \in Id,
                      phase'[d1] = "open", promise'[<<d1, id>>] = "pending"
               PROVE  Answerable(d1, id)'
    BY DEF NoAnswerLost, Answerable, Heard
  <2>1. promise[<<d1, id>>] = "pending" /\ ~(d1 = d /\ id = of[2])
    BY <1>1, <1>2, HandleRequestCompletedSettles
  <2>2. Answerable(d1, id)
    BY <2>1, NoAnswerLostAsHeard DEF IInv
  <2>3. CASE <<d1, id>> \in calls
    BY <2>3 DEF Answerable
  <2>4. CASE Heard(inbox[d1], Completed(<<d1, id>>))
    <3>1. CASE d1 = d
      <4>1. Completed(<<d1, id>>) # Head(inbox[d])
        BY <1>1, <2>1, <3>1 DEF Completed
      <4>2. Heard(Tail(inbox[d]), Completed(<<d1, id>>))
        BY <1>0, <2>4, <3>1, <4>1, TailKeeps
      <4>3. inbox'[d] = Tail(inbox[d])
        BY DEF IInv, TypeOK
      <4> QED
        BY <3>1, <4>2, <4>3 DEF Answerable, Heard
    <3>2. CASE d1 # d
      <4>1. inbox'[d1] = inbox[d1]
        BY <3>2 DEF IInv, TypeOK
      <4> QED
        BY <2>4, <4>1 DEF Answerable, Heard
    <3> QED
      BY <3>1, <3>2
  <2> QED
    BY <2>2, <2>3, <2>4 DEF Answerable
<1> QED
  BY <1>3, <1>4, <1>5 DEF IInv

LEMMA ReceiveDisconnectedKeeps ==
  ASSUME IInv, NEW d \in Document, ReceiveDisconnected(d)
  PROVE  IInv'
<1> USE DEF ReceiveDisconnected
<1>0. pendingRequests[d] \in SUBSET Id /\ inbox' \in [Document -> Seq(Message)]
  BY ReceiveKeepsQueues DEF IInv, TypeOK
<1>1. TypeOK' /\ TimedOutHaveEntry' /\ EntryPerPendingPromise'
  BY <1>0, RejectRequestsSettles DEF IInv, TypeOK
<1>2. IdsAreFresh'
  BY <1>0, RejectRequestsKeepsFresh
<1>3. AnswersNotSwapped'
  BY DEF IInv, AnswersNotSwapped
<1>4. NoAnswerLost'
  <2> SUFFICES ASSUME NEW d1 \in Document, NEW id \in Id,
                      phase'[d1] = "open", promise'[<<d1, id>>] = "pending"
               PROVE  Answerable(d1, id)'
    BY DEF NoAnswerLost, Answerable, Heard
  <2>1. promise[<<d1, id>>] = "pending" /\ d1 # d
    <3>1. d1 = d => id \notin pendingRequests[d]
      BY <1>0, RejectRequestsSettles
    <3>2. promise'[<<d1, id>>] = promise[<<d1, id>>]
      BY <1>0, RejectRequestsSettles
    <3> QED
      BY <3>1, <3>2 DEF IInv, EntryPerPendingPromise
  <2>2. Answerable(d1, id)
    BY <2>1, NoAnswerLostAsHeard DEF IInv
  <2>3. inbox'[d1] = inbox[d1]
    BY <2>1 DEF IInv, TypeOK
  <2> QED
    BY <2>2, <2>3 DEF Answerable, Heard
<1> QED
  BY <1>1, <1>2, <1>3, <1>4 DEF IInv
----------------------------------------------------------------------------
(* The connector *)

LEMMA BroadcastKeeps ==
  ASSUME IInv, NEW message \in Message, Broadcast(message), UNCHANGED phase
  PROVE  /\ inbox' \in [Document -> Seq(Message)]
         /\ \A d \in Document, other \in Message :
              phase[d] = "open" /\ (Heard(inbox[d], other) \/ other = message)
                => Heard(inbox'[d], other)
<1>1. inbox' \in [Document -> Seq(Message)]
  BY DEF Broadcast, IInv, TypeOK
<1>2. ASSUME NEW d \in Document, NEW other \in Message,
             phase[d] = "open", Heard(inbox[d], other) \/ other = message
      PROVE  Heard(inbox'[d], other)
  <2>1. inbox'[d] = Append(inbox[d], message)
    BY <1>2 DEF Broadcast
  <2>2. inbox[d] \in Seq(Message)
    BY DEF IInv, TypeOK
  <2> QED
    BY <1>2, <2>1, <2>2, AppendKeeps
<1> QED
  BY <1>1, <1>2

LEMMA CallResultKeeps ==
  ASSUME IInv, NEW r \in Request, CallResult(r)
  PROVE  IInv'
<1> USE DEF CallResult
<1>0. Completed(r) \in Message
  BY DEF Message
<1>1. TypeOK'
  BY <1>0, BroadcastKeeps DEF IInv, TypeOK
<1>2. TimedOutHaveEntry' /\ IdsAreFresh' /\ EntryPerPendingPromise' /\ AnswersNotSwapped'
  BY DEF IInv, TimedOutHaveEntry, IdsAreFresh, EntryPerPendingPromise, AnswersNotSwapped
<1>3. NoAnswerLost'
  <2> SUFFICES ASSUME NEW d1 \in Document, NEW id \in Id,
                      phase'[d1] = "open", promise'[<<d1, id>>] = "pending"
               PROVE  Answerable(d1, id)'
    BY DEF NoAnswerLost, Answerable, Heard
  <2>1. Answerable(d1, id)
    BY NoAnswerLostAsHeard DEF IInv
  <2>2. Completed(<<d1, id>>) \in Message
    BY DEF Message, Request
  <2>3. Heard(inbox[d1], Completed(<<d1, id>>)) \/ <<d1, id>> = r =>
          Heard(inbox'[d1], Completed(<<d1, id>>))
    BY <1>0, <2>2, BroadcastKeeps
  <2> QED
    BY <2>1, <2>3 DEF Answerable, Heard
<1> QED
  BY <1>1, <1>2, <1>3 DEF IInv

LEMMA DisconnectKeeps ==
  ASSUME IInv, Disconnect
  PROVE  IInv'
<1> USE DEF Disconnect
<1>0. Disconnected \in Message
  BY DEF Message
<1>1. TypeOK'
  BY <1>0, BroadcastKeeps DEF IInv, TypeOK
<1>2. TimedOutHaveEntry' /\ IdsAreFresh' /\ EntryPerPendingPromise' /\ AnswersNotSwapped'
  BY DEF IInv, TimedOutHaveEntry, IdsAreFresh, EntryPerPendingPromise, AnswersNotSwapped
<1>3. NoAnswerLost'
  <2> SUFFICES ASSUME NEW d1 \in Document, NEW id \in Id,
                      phase'[d1] = "open", promise'[<<d1, id>>] = "pending"
               PROVE  Answerable(d1, id)'
    BY DEF NoAnswerLost, Answerable, Heard
  <2>1. Answerable(d1, id)
    BY NoAnswerLostAsHeard DEF IInv
  <2>2. Completed(<<d1, id>>) \in Message
    BY DEF Message, Request
  <2>3. Heard(inbox[d1], Completed(<<d1, id>>)) => Heard(inbox'[d1], Completed(<<d1, id>>))
    BY <1>0, <2>2, BroadcastKeeps
  <2> QED
    BY <2>1, <2>3 DEF Answerable, Heard
<1> QED
  BY <1>1, <1>2, <1>3 DEF IInv
----------------------------------------------------------------------------
LEMMA StepKeeps == IInv /\ [Next]_vars => IInv'
<1> SUFFICES ASSUME IInv, [Next]_vars
             PROVE  IInv'
  OBVIOUS
<1>1. ASSUME NEW d \in Document, Open(d) PROVE IInv'
  BY <1>1, OpenKeeps
<1>2. ASSUME NEW d \in Document, Close(d) PROVE IInv'
  BY <1>2, CloseKeeps
<1>3. ASSUME NEW d \in Document, MakeRequest(d) PROVE IInv'
  BY <1>3, MakeRequestKeeps
<1>4. ASSUME NEW d \in Document, MakeInvalidRequest(d) PROVE IInv'
  BY <1>4, MakeInvalidRequestKeeps
<1>5. ASSUME NEW d \in Document, Age(d) PROVE IInv'
  BY <1>5, AgeKeeps
<1>6. ASSUME NEW d \in Document, CheckTimedOutRequests(d) PROVE IInv'
  BY <1>6, CheckTimedOutRequestsKeeps
<1>7. ASSUME NEW d \in Document, BeforeUnload(d) PROVE IInv'
  BY <1>7, BeforeUnloadKeeps
<1>8. ASSUME NEW d \in Document, ReceiveCompleted(d) PROVE IInv'
  BY <1>8, ReceiveCompletedKeeps
<1>9. ASSUME NEW d \in Document, ReceiveDisconnected(d) PROVE IInv'
  BY <1>9, ReceiveDisconnectedKeeps
<1>10. ASSUME NEW r \in Request, CallResult(r) PROVE IInv'
  BY <1>10, CallResultKeeps
<1>11. ASSUME Disconnect PROVE IInv'
  BY <1>11, DisconnectKeeps
<1>12. ASSUME UNCHANGED vars PROVE IInv'
  BY <1>12 DEF vars, IInv, TypeOK, TimedOutHaveEntry, IdsAreFresh, EntryPerPendingPromise,
               NoAnswerLost, AnswersNotSwapped
<1> QED
  BY <1>1, <1>2, <1>3, <1>4, <1>5, <1>6, <1>7, <1>8, <1>9, <1>10, <1>11, <1>12 DEF Next

(* The strengthened invariant holds in every state: what a document keeps   *)
(* of its requests agrees with their promises, and what is not settled has  *)
(* its answer to come.                                                      *)
THEOREM Invariance == Spec => []IInv
BY InitHolds, StepKeeps, PTL DEF Spec

(* Every variable of the provider keeps its type; in particular the ids of  *)
(* a document never pass the bound.                                         *)
THEOREM TypeCorrect == Spec => []TypeOK
<1>1. IInv => TypeOK
  BY DEF IInv
<1> QED
  BY Invariance, <1>1, PTL

(* A document has an entry exactly for its promises that are not settled,   *)
(* through any timeouts, disconnects and late answers.                      *)
THEOREM EntryForEveryPending == Spec => []EntryPerPendingPromise
<1>1. IInv => EntryPerPendingPromise
  BY DEF IInv
<1> QED
  BY Invariance, <1>1, PTL

(* A promise that is not settled has its answer to come, for any number of  *)
(* documents that share the channel.                                        *)
THEOREM AnswersAreNotLost == Spec => []NoAnswerLost
<1>1. IInv => NoAnswerLost
  BY DEF IInv
<1> QED
  BY Invariance, <1>1, PTL

(* Within a document a request is only resolved by a response of its id.    *)
THEOREM AnswersMatch == Spec => []AnswersNotSwapped
<1>1. IInv => AnswersNotSwapped
  BY DEF IInv
<1> QED
  BY Invariance, <1>1, PTL
----------------------------------------------------------------------------
(* Every step keeps what ProviderRequests promises. *)

LEMMA RequestIsPair ==
  ASSUME NEW r \in Request
  PROVE  r[1] \in Document /\ r[2] \in Id /\ r = <<r[1], r[2]>>
BY DEF Request

\* A step that settles promises, while documents may stop to watch.
LEMMA SettlingIsPromised ==
  ASSUME \A r \in Request : promise'[r] # promise[r] =>
           promise[r] = "pending" /\ promise'[r] \in {"answered", "rejected"},
         Watched' \subseteq Watched
  PROVE  [Promised!Next]_<<Settlement, Watched>>
<1> DEFINE S == {r \in Request : promise'[r] # promise[r]}
<1>1. S \in SUBSET Request
  OBVIOUS
<1>2. \A r \in S : Settlement[r] = "pending"
  BY DEF Settlement
<1>3. Settlement' = [r \in Request |-> IF r \in S THEN "settled" ELSE Settlement[r]]
  BY DEF Settlement
<1>4. Promised!Settle(S)
  BY <1>2, <1>3 DEF Promised!Settle
<1> QED
  BY <1>1, <1>4 DEF Promised!Next

\* A step that makes a request, or rejects it at once.
LEMMA MakingIsPromised ==
  ASSUME TypeOK, NEW r \in Request, promise[r] = "none",
         NEW now \in {"pending", "rejected"},
         promise' = [promise EXCEPT ![r] = now],
         UNCHANGED <<phase, timeoutChecker>>
  PROVE  [Promised!Next]_<<Settlement, Watched>>
<1>1. Watched' = Watched
  BY DEF Watched
<1>2. Settlement' =
        [Settlement EXCEPT ![r] = IF now = "pending" THEN "pending" ELSE "settled"]
  BY DEF Settlement, TypeOK
<1>3. Settlement[r] = "none"
  BY DEF Settlement
<1>4. Promised!Make(r)
  BY <1>1, <1>2, <1>3 DEF Promised!Make
<1> QED
  BY <1>4 DEF Promised!Next

LEMMA OpenIsPromised ==
  ASSUME IInv, NEW d \in Document, Open(d)
  PROVE  [Promised!Next]_<<Settlement, Watched>>
<1> DEFINE S == {r \in Request : r[1] = d}
<1>1. Watched' = Watched \cup S
  BY RequestIsPair DEF Open, Watched, IInv, TypeOK
<1>2. \A r \in S : Settlement[r] = "none"
  <2> SUFFICES ASSUME NEW r \in S
               PROVE  promise[r] = "none"
    BY DEF Settlement
  <2>1. r[2] \in Id /\ r = <<d, r[2]>>
    BY RequestIsPair
  <2> QED
    BY <2>1 DEF Open, IInv, IdsAreFresh, Id
<1>3. Settlement' = Settlement
  BY DEF Open, Settlement
<1>4. Promised!Watch(S)
  BY <1>1, <1>2, <1>3 DEF Promised!Watch
<1> QED
  BY <1>4 DEF Promised!Next

\* The promises that RejectRequests changes were pending.
LEMMA RejectRequestsPromised ==
  ASSUME IInv, NEW d \in Document, NEW ids \in SUBSET Id, RejectRequests(d, ids),
         ids \subseteq pendingRequests[d],
         Watched' \subseteq Watched
  PROVE  [Promised!Next]_<<Settlement, Watched>>
<1> SUFFICES ASSUME NEW r \in Request, promise'[r] # promise[r]
             PROVE  promise[r] = "pending" /\ promise'[r] \in {"answered", "rejected"}
  BY SettlingIsPromised
<1>1. r[1] \in Document /\ r[2] \in Id /\ r = <<r[1], r[2]>>
  BY RequestIsPair
<1>2. r[1] = d /\ r[2] \in ids /\ promise'[r] = "rejected"
  BY <1>1, RejectRequestsSettles
<1> QED
  BY <1>1, <1>2, RejectRequestsSettles

LEMMA StepIsPromised == IInv /\ [Next]_vars => [Promised!Next]_<<Settlement, Watched>>
<1> SUFFICES ASSUME IInv, [Next]_vars
             PROVE  [Promised!Next]_<<Settlement, Watched>>
  OBVIOUS
<1>1. ASSUME NEW d \in Document, Open(d)
      PROVE  [Promised!Next]_<<Settlement, Watched>>
  BY <1>1, OpenIsPromised
<1>2. ASSUME NEW d \in Document, Close(d)
      PROVE  [Promised!Next]_<<Settlement, Watched>>
  <2>1. Watched' \subseteq Watched
    BY <1>2, RequestIsPair DEF Close, Watched, IInv, TypeOK
  <2> QED
    BY <1>2, <2>1, SettlingIsPromised DEF Close
<1>3. ASSUME NEW d \in Document, MakeRequest(d)
      PROVE  [Promised!Next]_<<Settlement, Watched>>
  <2>1. requestIdCounter[d] \in Id
    BY <1>3 DEF MakeRequest, MayRequest, IInv, TypeOK, Id
  <2>2. promise[<<d, requestIdCounter[d]>>] = "none"
    BY <2>1 DEF IInv, IdsAreFresh, TypeOK, Id
  <2>3. <<d, requestIdCounter[d]>> \in Request
    BY <2>1 DEF Request
  <2> QED
    BY <1>3, <2>2, <2>3, MakingIsPromised DEF MakeRequest, IInv
<1>4. ASSUME NEW d \in Document, MakeInvalidRequest(d)
      PROVE  [Promised!Next]_<<Settlement, Watched>>
  <2>1. requestIdCounter[d] \in Id
    BY <1>4 DEF MakeInvalidRequest, MayRequest, IInv, TypeOK, Id
  <2>2. promise[<<d, requestIdCounter[d]>>] = "none"
    BY <2>1 DEF IInv, IdsAreFresh, TypeOK, Id
  <2>3. <<d, requestIdCounter[d]>> \in Request
    BY <2>1 DEF Request
  <2> QED
    BY <1>4, <2>2, <2>3, MakingIsPromised DEF MakeInvalidRequest, IInv
<1>5. ASSUME NEW d \in Document, CheckTimedOutRequests(d)
      PROVE  [Promised!Next]_<<Settlement, Watched>>
  <2>1. timedOut[d] \in SUBSET Id /\ timedOut[d] \subseteq pendingRequests[d]
    BY DEF IInv, TypeOK, TimedOutHaveEntry
  <2> QED
    BY <1>5, <2>1, RejectRequestsPromised DEF CheckTimedOutRequests, Watched
<1>6. ASSUME NEW d \in Document, BeforeUnload(d)
      PROVE  [Promised!Next]_<<Settlement, Watched>>
  <2>1. pendingRequests[d] \in SUBSET Id
    BY DEF IInv, TypeOK
  <2>2. Watched' \subseteq Watched
    BY <1>6, RequestIsPair DEF BeforeUnload, Watched, IInv, TypeOK
  <2> QED
    BY <1>6, <2>1, <2>2, RejectRequestsPromised DEF BeforeUnload
<1>7. ASSUME NEW d \in Document, ReceiveDisconnected(d)
      PROVE  [Promised!Next]_<<Settlement, Watched>>
  <2>1. pendingRequests[d] \in SUBSET Id
    BY DEF IInv, TypeOK
  <2> QED
    BY <1>7, <2>1, RejectRequestsPromised DEF ReceiveDisconnected, Watched
<1>8. ASSUME NEW d \in Document, ReceiveCompleted(d)
      PROVE  [Promised!Next]_<<Settlement, Watched>>
  <2>1. PICK of \in Request : HandleRequestCompleted(d, of)
    <3>1. Head(inbox[d]) \in Message
      BY <1>8, ReceiveKeepsQueues DEF ReceiveCompleted, IInv
    <3> QED
      BY <1>8, <3>1 DEF ReceiveCompleted, Message, Completed, Disconnected
  <2>2. ASSUME NEW r \in Request, promise'[r] # promise[r]
        PROVE  promise[r] = "pending" /\ promise'[r] \in {"answered", "rejected"}
    <3>1. r[1] \in Document /\ r[2] \in Id /\ r = <<r[1], r[2]>>
      BY RequestIsPair
    <3> QED
      BY <2>1, <2>2, <3>1, HandleRequestCompletedSettles
  <2>3. Watched' = Watched
    BY <1>8 DEF ReceiveCompleted, Watched
  <2> QED
    BY <2>2, <2>3, SettlingIsPromised
<1>9. ASSUME UNCHANGED <<promise, phase, timeoutChecker>>
      PROVE  [Promised!Next]_<<Settlement, Watched>>
  BY <1>9 DEF Settlement, Watched
<1>10. ASSUME NEW d \in Document, Age(d) PROVE UNCHANGED <<promise, phase, timeoutChecker>>
  BY <1>10 DEF Age
<1>11. ASSUME NEW r \in Request, CallResult(r)
       PROVE  UNCHANGED <<promise, phase, timeoutChecker>>
  BY <1>11 DEF CallResult
<1>12. ASSUME Disconnect PROVE UNCHANGED <<promise, phase, timeoutChecker>>
  BY <1>12 DEF Disconnect
<1>13. ASSUME UNCHANGED vars PROVE UNCHANGED <<promise, phase, timeoutChecker>>
  BY <1>13 DEF vars
<1> QED
  BY <1>1, <1>2, <1>3, <1>4, <1>5, <1>6, <1>7, <1>8, <1>9, <1>10, <1>11, <1>12, <1>13 DEF Next

(* The provider implements the safety part of ProviderRequests: for any     *)
(* documents, answers, timeouts and disconnects a promise is made once,     *)
(* settled at most once and never taken back.                               *)
THEOREM PromisesAreKept == Spec => Promised!Safety
<1>1. Init => Promised!Init
  BY RequestIsPair DEF Init, Promised!Init, Settlement, Watched
<1> QED
  BY Invariance, StepIsPromised, <1>1, PTL DEF Spec, Promised!Safety
=============================================================================
