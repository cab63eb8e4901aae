---------------------- MODULE ProviderInjectionProofs ----------------------
(***************************************************************************)
(* Theorems about ProviderInjection, for any numbers of retries and any    *)
(* requests of the page: a document makes no more than two channels, and   *)
(* the safety properties of its wrapper.                                   *)
(***************************************************************************)
EXTENDS ProviderInjection, TLAPS

\* The injector makes a channel with its timer and one on the event: what has
\* already been used up of the two.
ChannelsAreCounted ==
  /\ "injector" \notin run => channels = 0 /\ retry = Off /\ ~listening
  /\ listening => channels <= 1 /\ (retry # Off => channels = 0)
  /\ ~listening => channels <= 2 /\ (retry # Off => channels <= 1)

\* Every channel has sent one init message.
InitsAreCounted == pending + answers <= channels

\* Wrapper objects that were made for nothing belong to a page with a provider.
ObjectsAreCounted ==
  /\ ethereum = "none" => objects = 0
  /\ ethereum = "status" => objects = 1

\* The inductive invariant.
IInv ==
  /\ TypeOK
  /\ ChannelsAreCounted
  /\ InitsAreCounted
  /\ InitIsAnswered
  /\ ObjectsAreCounted

USE RetriesAssumption DEF Off, Channel

----------------------------------------------------------------------------
LEMMA InitHolds == Init => IInv
<1> SUFFICES ASSUME Init
             PROVE  IInv
  OBVIOUS
<1>1. run \subseteq Script /\ "injector" \notin run
  BY DEF Init, Script
<1>2. retry \in Off..InitRetries - 1 /\ Off \in Off..InstallRetries - 1
      /\ Off \in Off..AnnounceRetries
  BY DEF Init
<1>3. waiting \subseteq 1..channels /\ {pending, answers} \subseteq {0} \cup Channel
      /\ {ethereumProvider, installed} \subseteq 0..channels
  BY DEF Init
<1>4. TypeOK
  BY <1>1, <1>2, <1>3 DEF Init, TypeOK
<1>5. ChannelsAreCounted /\ InitsAreCounted /\ InitIsAnswered /\ ObjectsAreCounted
  BY <1>1 DEF Init, ChannelsAreCounted, InitsAreCounted, InitIsAnswered, ObjectsAreCounted
<1> QED
  BY <1>4, <1>5 DEF IInv

\* A channel is made while there may be another one.
LEMMA MakeChannelKeeps ==
  ASSUME TypeOK, InitsAreCounted, channels <= 1, MakeChannel
  PROVE  /\ channels' = channels + 1
         /\ waiting' \subseteq 1..channels'
         /\ {pending', answers'} \subseteq {0} \cup Channel
         /\ pending' + answers' <= channels'
         /\ pending' + answers' > 0
BY DEF TypeOK, InitsAreCounted, MakeChannel, Send

\* The timer of the injector, with its first attempt.
LEMMA RetryInitKeeps ==
  ASSUME IInv, NEW left \in 0..InitRetries, channels <= 1, RetryInit(left)
  PROVE  /\ channels' \in {channels, channels + 1}
         /\ retry' # Off => channels' = channels
         /\ retry' \in Off..InitRetries - 1
         /\ waiting' \subseteq 1..channels'
         /\ {pending', answers'} \subseteq {0} \cup Channel
         /\ InitsAreCounted'
         /\ InitIsAnswered'
<1>1. CASE CanInitialize(run)
  BY <1>1, MakeChannelKeeps
     DEF RetryInit, IInv, TypeOK, InitsAreCounted, InitIsAnswered
<1>2. CASE ~CanInitialize(run)
  <2>1. retry' = left - 1 /\ UNCHANGED transport
    BY <1>2 DEF RetryInit
  <2>2. channels' = channels /\ waiting' = waiting /\ pending' = pending /\ answers' = answers
    BY <2>1 DEF transport
  <2>3. retry' \in Off..InitRetries - 1
    BY <2>1
  <2> QED
    BY <2>2, <2>3 DEF IInv, TypeOK, InitsAreCounted, InitIsAnswered
<1> QED
  BY <1>1, <1>2

LEMMA RunInjectorKeeps ==
  ASSUME IInv, RunInjector
  PROVE  IInv'
<1> USE DEF RunInjector, installation, announcements
<1>1. channels = 0 /\ InitRetries \in 0..InitRetries
  BY DEF IInv, ChannelsAreCounted
<1>2. TypeOK'
  BY <1>1, RetryInitKeeps DEF IInv, TypeOK, Script
<1>3. ChannelsAreCounted'
  BY <1>1, RetryInitKeeps DEF IInv, TypeOK, ChannelsAreCounted
<1>4. InitsAreCounted' /\ InitIsAnswered'
  BY <1>1, RetryInitKeeps
<1>5. ObjectsAreCounted'
  BY DEF IInv, ObjectsAreCounted
<1> QED
  BY <1>2, <1>3, <1>4, <1>5 DEF IInv

LEMMA RetryTimerKeeps ==
  ASSUME IInv, RetryTimer
  PROVE  IInv'
<1> USE DEF RetryTimer, installation, announcements
<1>1. channels <= 1 /\ retry \in 0..InitRetries
  BY DEF IInv, TypeOK, ChannelsAreCounted
<1>2. TypeOK'
  BY <1>1, RetryInitKeeps DEF IInv, TypeOK
<1>3. ChannelsAreCounted'
  BY <1>1, RetryInitKeeps DEF IInv, TypeOK, ChannelsAreCounted
<1>4. InitsAreCounted' /\ InitIsAnswered'
  BY <1>1, RetryInitKeeps
<1>5. ObjectsAreCounted'
  BY DEF IInv, ObjectsAreCounted
<1> QED
  BY <1>2, <1>3, <1>4, <1>5 DEF IInv

LEMMA RunPageKeeps ==
  ASSUME IInv, RunPage
  PROVE  IInv'
<1> USE DEF RunPage, installation, announcements
<1>1. CASE listening /\ CanInitialize(run')
  <2>1. channels <= 1 /\ MakeChannel /\ (retry # Off => channels = 0)
    BY <1>1 DEF IInv, ChannelsAreCounted
  <2>2. TypeOK'
    <3>1. TypeOK /\ InitsAreCounted
      BY DEF IInv
    <3>2. channels' = channels + 1 /\ waiting' \subseteq 1..channels'
          /\ {pending', answers'} \subseteq {0} \cup Channel
      BY <2>1, <3>1, MakeChannelKeeps
    <3>3. run' \subseteq Script
      BY <3>1 DEF TypeOK, Script
    <3>4. {ethereumProvider', installed'} \subseteq 0..channels'
      BY <2>1, <3>1, <3>2 DEF TypeOK
    <3>5. channels' \in {0} \cup Channel
      BY <2>1, <3>1, <3>2 DEF TypeOK
    <3>6. UNCHANGED <<retry, installs, objects, ethereum, announcing, announced>>
          /\ listening' \in BOOLEAN
      OBVIOUS
    <3> HIDE DEF RunPage
    <3> QED
      BY <3>1, <3>2, <3>3, <3>4, <3>5, <3>6 DEF TypeOK
  <2>3. ChannelsAreCounted'
    BY <1>1, <2>1, MakeChannelKeeps DEF IInv, TypeOK, ChannelsAreCounted
  <2>4. InitsAreCounted' /\ InitIsAnswered'
    BY <2>1, MakeChannelKeeps DEF IInv, InitsAreCounted, InitIsAnswered
  <2>5. ObjectsAreCounted'
    BY DEF IInv, ObjectsAreCounted
  <2> QED
    BY <2>2, <2>3, <2>4, <2>5 DEF IInv
<1>2. CASE ~(listening /\ CanInitialize(run'))
  <2>1. UNCHANGED transport
    BY <1>2
  <2>2. TypeOK'
    BY <2>1 DEF transport, IInv, TypeOK, Script
  <2>3. ChannelsAreCounted' /\ InitsAreCounted' /\ InitIsAnswered' /\ ObjectsAreCounted'
    BY <2>1 DEF transport, IInv, TypeOK, ChannelsAreCounted, InitsAreCounted, InitIsAnswered,
                ObjectsAreCounted
  <2> QED
    BY <2>2, <2>3 DEF IInv
<1> QED
  BY <1>1, <1>2

LEMMA RunBridgeKeeps ==
  ASSUME IInv, RunBridge
  PROVE  IInv'
<1> USE DEF RunBridge, installation, announcements
<1>1. TypeOK'
  BY DEF IInv, TypeOK, Script, ChannelsAreCounted, InitsAreCounted
<1>2. ChannelsAreCounted' /\ InitsAreCounted' /\ InitIsAnswered' /\ ObjectsAreCounted'
  BY DEF IInv, TypeOK, ChannelsAreCounted, InitsAreCounted, InitIsAnswered, ObjectsAreCounted
<1> QED
  BY <1>1, <1>2 DEF IInv
----------------------------------------------------------------------------
\* An attempt to install the wrapper on a channel.
LEMMA InstallKeeps ==
  ASSUME IInv, NEW c \in Channel, NEW left \in 0..InstallRetries, NEW provider \in 0..channels,
         Install(c, left, provider)
  PROVE  /\ installs' \in [Channel -> Off..InstallRetries - 1]
         /\ objects' \in Nat
         /\ ethereum' \in {"none", "status", "page"}
         /\ installed' \in 0..channels
         /\ ObjectsAreCounted'
BY DEF Install, IInv, TypeOK, ObjectsAreCounted

LEMMA ReceiveInitKeeps ==
  ASSUME IInv, ReceiveInit
  PROVE  IInv'
<1> USE DEF ReceiveInit, announcements
<1>1. InitsAreCounted' /\ InitIsAnswered' /\ ChannelsAreCounted'
  BY DEF IInv, TypeOK, InitsAreCounted, InitIsAnswered, ChannelsAreCounted
<1>2. CASE channels \in waiting
  <2>1. channels \in Channel /\ channels \in 0..channels /\ InstallRetries \in 0..InstallRetries
    BY <1>2 DEF IInv, TypeOK
  <2>2. TypeOK' /\ ObjectsAreCounted'
    BY <1>2, <2>1, InstallKeeps DEF IInv, TypeOK
  <2> QED
    BY <1>1, <2>2 DEF IInv
<1>3. CASE channels \notin waiting
  <2>1. TypeOK' /\ ObjectsAreCounted'
    BY <1>3 DEF IInv, TypeOK, ObjectsAreCounted, installation
  <2> QED
    BY <1>1, <2>1 DEF IInv
<1> QED
  BY <1>2, <1>3

LEMMA InstallTimerKeeps ==
  ASSUME IInv, NEW c \in Channel, InstallTimer(c)
  PROVE  IInv'
<1> USE DEF InstallTimer, transport, announcements
<1>1. installs[c] \in 0..InstallRetries /\ ethereumProvider \in 0..channels
  BY DEF IInv, TypeOK
<1>2. TypeOK' /\ ObjectsAreCounted'
  BY <1>1, InstallKeeps DEF IInv, TypeOK
<1>3. InitsAreCounted' /\ InitIsAnswered' /\ ChannelsAreCounted'
  BY DEF IInv, InitsAreCounted, InitIsAnswered, ChannelsAreCounted
<1> QED
  BY <1>2, <1>3 DEF IInv

LEMMA PageDefinesEthereumKeeps ==
  ASSUME IInv, PageDefinesEthereum
  PROVE  IInv'
BY DEF PageDefinesEthereum, transport, announcements, IInv, TypeOK, InitsAreCounted,
       InitIsAnswered, ChannelsAreCounted, ObjectsAreCounted
----------------------------------------------------------------------------
\* Steps that leave the transport and the installation alone.
LEMMA OtherStepsKeep ==
  ASSUME IInv, UNCHANGED <<retry, listening, transport, ethereumProvider, installation>>,
         run' \in SUBSET Script, "injector" \in run' <=> "injector" \in run,
         announcing' \in [Announcement -> Off..AnnounceRetries],
         announced' \in SUBSET Announcement
  PROVE  IInv'
<1> USE DEF transport, installation
<1>1. TypeOK'
  BY DEF IInv, TypeOK
<1>2. InitsAreCounted' /\ InitIsAnswered' /\ ChannelsAreCounted' /\ ObjectsAreCounted'
  BY DEF IInv, InitsAreCounted, InitIsAnswered, ChannelsAreCounted, ObjectsAreCounted
<1> QED
  BY <1>1, <1>2 DEF IInv

LEMMA RunLibraryKeeps ==
  ASSUME IInv, NEW script \in Script, RunLibrary(script)
  PROVE  IInv'
BY OtherStepsKeep DEF RunLibrary, announcements, IInv, TypeOK, Script

LEMMA RunAnnouncerKeeps ==
  ASSUME IInv, RunAnnouncer
  PROVE  IInv'
<1>1. announcing' \in [Announcement -> Off..AnnounceRetries]
  BY DEF RunAnnouncer, IInv, TypeOK, Announcement
<1> QED
  BY <1>1, OtherStepsKeep DEF RunAnnouncer, IInv, TypeOK, Script

LEMMA AnnounceKeeps ==
  ASSUME IInv, NEW a \in Announcement, NEW left \in 0..AnnounceRetries, Announce(a, left)
  PROVE  /\ announcing' \in [Announcement -> Off..AnnounceRetries]
         /\ announced' \in SUBSET Announcement
BY DEF Announce, IInv, TypeOK

LEMMA DiscoverKeeps ==
  ASSUME IInv, NEW a \in Announcement, Discover(a)
  PROVE  IInv'
<1>1. AnnounceRetries \in 0..AnnounceRetries
  OBVIOUS
<1> QED
  BY <1>1, AnnounceKeeps, OtherStepsKeep DEF Discover, IInv, TypeOK

LEMMA AnnounceTimerKeeps ==
  ASSUME IInv, NEW a \in Announcement, AnnounceTimer(a)
  PROVE  IInv'
<1>1. announcing[a] \in 0..AnnounceRetries
  BY DEF AnnounceTimer, IInv, TypeOK
<1> QED
  BY <1>1, AnnounceKeeps, OtherStepsKeep DEF AnnounceTimer, IInv, TypeOK

LEMMA StepKeeps == IInv /\ [Next]_vars => IInv'
<1> SUFFICES ASSUME IInv, [Next]_vars
             PROVE  IInv'
  OBVIOUS
<1>1. ASSUME NEW script \in Script, RunLibrary(script) PROVE IInv'
  BY <1>1, RunLibraryKeeps
<1>2. ASSUME NEW c \in Channel, InstallTimer(c) PROVE IInv'
  BY <1>2, InstallTimerKeeps
<1>3. ASSUME NEW a \in Announcement, Discover(a) \/ AnnounceTimer(a) PROVE IInv'
  BY <1>3, DiscoverKeeps, AnnounceTimerKeeps
<1>4. ASSUME UNCHANGED vars PROVE IInv'
  BY <1>4, OtherStepsKeep DEF vars, announcements, IInv, TypeOK
<1> QED
  BY <1>1, <1>2, <1>3, <1>4, RunInjectorKeeps, RunPageKeeps, RunBridgeKeeps, RunAnnouncerKeeps,
     RetryTimerKeeps, ReceiveInitKeeps, PageDefinesEthereumKeeps DEF Next
----------------------------------------------------------------------------
(* The invariant holds in every state: channels, init messages and wrapper  *)
(* objects are as many as the timer and the event can have made.            *)
THEOREM Invariance == Spec => []IInv
BY InitHolds, StepKeeps, PTL DEF Spec

(* For any numbers of retries a document makes no more than two channels,   *)
(* and the provider and the wrapper are those of one of them.               *)
THEOREM TypeCorrect == Spec => []TypeOK
<1>1. IInv => TypeOK
  BY DEF IInv
<1> QED
  BY Invariance, <1>1, PTL

(* A wrapper is only deaf when the transport came after the injector.       *)
THEOREM DeafOnlyWhenLate == Spec => []WrapperHears
<1>1. IInv => WrapperHears
  BY DEF IInv, TypeOK, ChannelsAreCounted, WrapperHears
<1> QED
  BY Invariance, <1>1, PTL

(* The channel that has the transport is never left without an answer to    *)
(* come, in whatever order scripts and answers take their turns.            *)
THEOREM InitAnswerComes == Spec => []InitIsAnswered
<1>1. IInv => InitIsAnswered
  BY DEF IInv
<1> QED
  BY Invariance, <1>1, PTL

(* A document has at most one wrapper, unless the page has a provider.      *)
THEOREM WrapperIsOne == Spec => []OneWrapper
<1>1. IInv => OneWrapper
  BY DEF IInv, TypeOK, ObjectsAreCounted, OneWrapper
<1> QED
  BY Invariance, <1>1, PTL
=============================================================================
