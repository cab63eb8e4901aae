------------------------- MODULE ProviderInjection -------------------------
(***************************************************************************)
(* How a document gets its Ethereum provider.  Six scripts are injected:   *)
(* the two halves of the transport (bootstrap_page, bootstrap_bridge),     *)
(* qwebchannel, the wrapper, the announcer and the injector, which makes a *)
(* channel over the transport and installs the wrapper on the object it    *)
(* finds there.  No order of the scripts is relied upon; instead there are *)
(* timers that try again and an event.                                     *)
(*                                                                         *)
(* Where the web engine has a transport of its own, the two halves of the  *)
(* transport count as run from the start.                                  *)
(***************************************************************************)
EXTENDS Integers, FiniteSets

CONSTANTS
  InitRetries,      \* retries of the injector: 30
  InstallRetries,   \* retries of an installation: 30
  AnnounceRetries,  \* retries of an announcement: 50
  Discovery         \* bound: requests of the page for announcements

ASSUME RetriesAssumption ==
  {InitRetries, InstallRetries, AnnounceRetries} \subseteq Nat \ {0}

Script == {"page", "bridge", "qwebchannel", "wrapper", "announcer", "injector"}

Channel == 1..2

\* The announcements: one when the DOM is loaded and one for every request.
CONSTANT Loaded

ASSUME LoadedAssumption == Loaded \notin Discovery

Announcement == Discovery \cup {Loaded}

\* A timer that is not set; a timer that is set has its number of retries.
Off == -1

VARIABLES
  run,              \* the scripts that have run
  retry,            \* the timer of the injector
  listening,        \* whether the injector waits for qtWebChannelReady
  channels,         \* how many channels were made; the last has the transport
  waiting,          \* the channels that still have the callback of their init
  pending,          \* init messages the transport keeps for the bridge
  answers,          \* init messages that have reached the bridge
  ethereumProvider, \* the channel whose object is window.ethereumProvider, or 0
  installs,         \* the timers of the installations, one for each channel
  objects,          \* wrapper objects that were constructed
  installed,        \* the channel the installed wrapper is connected to, or 0
  ethereum,         \* window.ethereum: "none", "status" or "page"
  announcing,       \* the timers of the announcements
  announced         \* announcements that were made

transport == <<channels, waiting, pending, answers>>

installation == <<installs, objects, installed, ethereum>>

announcements == <<announcing, announced>>

vars == <<run, retry, listening, transport, ethereumProvider, installation, announcements>>

TypeOK ==
  /\ run \subseteq Script
  /\ retry \in Off..InitRetries - 1
  /\ listening \in BOOLEAN
  /\ channels \in {0} \cup Channel
  /\ waiting \subseteq 1..channels
  /\ {pending, answers} \subseteq {0} \cup Channel
  /\ {ethereumProvider, installed} \subseteq 0..channels
  /\ installs \in [Channel -> Off..InstallRetries - 1]
  /\ objects \in Nat
  /\ ethereum \in {"none", "status", "page"}
  /\ announcing \in [Announcement -> Off..AnnounceRetries]
  /\ announced \subseteq Announcement

Init ==
  /\ run \in {{}, {"page", "bridge"}}
  /\ retry = Off
  /\ listening = FALSE
  /\ channels = 0
  /\ waiting = {}
  /\ pending = 0
  /\ answers = 0
  /\ ethereumProvider = 0
  /\ installs = [c \in Channel |-> Off]
  /\ objects = 0
  /\ installed = 0
  /\ ethereum = "none"
  /\ announcing = [a \in Announcement |-> Off]
  /\ announced = {}
----------------------------------------------------------------------------
(* The transport and the channels *)

\* A variant: what cannot be sent yet is dropped.
SendOrDrop ==
  IF "bridge" \in run THEN answers' = answers + 1 /\ UNCHANGED pending
  ELSE UNCHANGED <<answers, pending>>

\* send: an init message goes to the bridge, or is kept until there is one.
Send ==
  IF "bridge" \in run THEN answers' = answers + 1 /\ UNCHANGED pending
  ELSE pending' = pending + 1 /\ UNCHANGED answers

\* new QWebChannel, which takes the transport over and sends its init message.
MakeChannel ==
  /\ channels' = channels + 1
  /\ waiting' = waiting \cup {channels + 1}
  /\ Send

\* What initializeWebChannel needs to succeed.
CanInitialize(scripts) == {"page", "qwebchannel"} \subseteq scripts

\* A variant: the timer is set again although the channel has been made.
RetryInitAlways(left) ==
  /\ IF CanInitialize(run) THEN MakeChannel ELSE UNCHANGED transport
  /\ retry' = left - 1

\* retry, with the retries that are left.
RetryInit(left) ==
  IF CanInitialize(run)
  THEN MakeChannel /\ retry' = Off
  ELSE UNCHANGED transport /\ retry' = left - 1

RunInjector ==
  /\ "injector" \notin run
  /\ run' = run \cup {"injector"}
  /\ listening' = TRUE
  /\ RetryInit(InitRetries)
  /\ UNCHANGED <<ethereumProvider, installation, announcements>>

RetryTimer ==
  /\ retry # Off
  /\ RetryInit(retry)
  /\ UNCHANGED <<run, listening, ethereumProvider, installation, announcements>>

\* bootstrap_page: there is a transport, and those who wait for it are told.
RunPage ==
  /\ "page" \notin run
  /\ run' = run \cup {"page"}
  /\ listening' = FALSE
  /\ IF listening /\ CanInitialize(run') THEN MakeChannel ELSE UNCHANGED transport
  /\ UNCHANGED <<retry, ethereumProvider, installation, announcements>>

\* bootstrap_bridge: the messages kept so far are sent in the same turn.
RunBridge ==
  /\ "bridge" \notin run
  /\ run' = run \cup {"bridge"}
  /\ answers' = answers + pending
  /\ pending' = 0
  /\ UNCHANGED <<retry, listening, channels, waiting, ethereumProvider, installation,
                 announcements>>

RunLibrary(script) ==
  /\ script \in {"qwebchannel", "wrapper"} \ run
  /\ run' = run \cup {script}
  /\ UNCHANGED <<retry, listening, transport, ethereumProvider, installation, announcements>>
----------------------------------------------------------------------------
(* The installation *)

\* A variant: install does not look whether it has been done.
InstallAgain(c, left, provider) ==
  LET done == "wrapper" \in run /\ ethereum = "none" IN
  /\ installs' = [installs EXCEPT ![c] = IF done THEN Off ELSE left - 1]
  /\ objects' = IF "wrapper" \in run THEN objects + 1 ELSE objects
  /\ IF done THEN installed' = provider /\ ethereum' = "status"
     ELSE UNCHANGED <<installed, ethereum>>

\* install: a wrapper object is made whenever the wrapper is not installed, also
\* when the page has a provider of its own and the object is of no use.
Install(c, left, provider) ==
  LET makes == "wrapper" \in run /\ ethereum # "status"
      done == "wrapper" \in run /\ ethereum # "page" IN
  /\ installs' = [installs EXCEPT ![c] = IF done THEN Off ELSE left - 1]
  /\ objects' = IF makes THEN objects + 1 ELSE objects
  /\ IF makes /\ done THEN installed' = provider /\ ethereum' = "status"
     ELSE UNCHANGED <<installed, ethereum>>

\* The answer to an init message.  All have the id 0, so it is taken for the
\* answer to the channel that has the transport, and calls setupEthereumProvider.
\* When that has been called the answer is an error in the message handler.  The
\* application registers its ethereumProvider before it loads a page
\* (ConnectorBridge.qml), so no answer comes without it.
ReceiveInit ==
  /\ answers > 0
  /\ answers' = answers - 1
  /\ waiting' = waiting \ {channels}
  /\ IF channels \in waiting
     THEN ethereumProvider' = channels /\ Install(channels, InstallRetries, channels)
     ELSE UNCHANGED <<ethereumProvider, installation>>
  /\ UNCHANGED <<run, retry, listening, channels, pending, announcements>>

InstallTimer(c) ==
  /\ installs[c] # Off
  /\ Install(c, installs[c], ethereumProvider)
  /\ UNCHANGED <<run, retry, listening, transport, ethereumProvider, announcements>>

\* A script of the page defines window.ethereum.
PageDefinesEthereum ==
  /\ ethereum = "none"
  /\ ethereum' = "page"
  /\ UNCHANGED <<run, retry, listening, transport, ethereumProvider, installs, objects,
                 installed, announcements>>
----------------------------------------------------------------------------
(* The announcer *)

\* The script; the announcement follows when the document is loaded.
RunAnnouncer ==
  /\ "announcer" \notin run
  /\ run' = run \cup {"announcer"}
  /\ announcing' = [announcing EXCEPT ![Loaded] = AnnounceRetries]
  /\ UNCHANGED <<retry, listening, transport, ethereumProvider, installation, announced>>

\* A variant: what has been announced once is not announced again.
AnnounceOnce(a, left) ==
  /\ announcing' = [announcing EXCEPT ![a] = IF ethereum = "none" THEN left - 1 ELSE Off]
  /\ announced' = IF ethereum = "none" \/ announced # {} THEN announced ELSE {a}

\* announceProvider, with the retries that are left.
Announce(a, left) ==
  /\ announcing' = [announcing EXCEPT ![a] = IF ethereum = "none" THEN left - 1 ELSE Off]
  /\ announced' = IF ethereum = "none" THEN announced ELSE announced \cup {a}

\* eip6963:requestProvider
Discover(a) ==
  /\ "announcer" \in run
  /\ a \in Discovery \ announced /\ announcing[a] = Off
  /\ Announce(a, AnnounceRetries)
  /\ UNCHANGED <<run, retry, listening, transport, ethereumProvider, installation>>

AnnounceTimer(a) ==
  /\ announcing[a] # Off
  /\ Announce(a, announcing[a])
  /\ UNCHANGED <<run, retry, listening, transport, ethereumProvider, installation>>
----------------------------------------------------------------------------
Next ==
  \/ RunInjector
  \/ RunPage
  \/ RunBridge
  \/ \E script \in Script : RunLibrary(script)
  \/ RunAnnouncer
  \/ RetryTimer
  \/ ReceiveInit
  \/ \E c \in Channel : InstallTimer(c)
  \/ PageDefinesEthereum
  \/ \E a \in Announcement : Discover(a) \/ AnnounceTimer(a)

Spec == Init /\ [][Next]_vars

\* All scripts are run, timers fire and the application answers.
Fairness ==
  /\ WF_vars(RunInjector) /\ WF_vars(RunPage) /\ WF_vars(RunBridge)
  /\ \A script \in Script : WF_vars(RunLibrary(script))
  /\ WF_vars(RunAnnouncer)
  /\ WF_vars(RetryTimer) /\ WF_vars(ReceiveInit)
  /\ \A c \in Channel : WF_vars(InstallTimer(c))
  /\ \A a \in Announcement : WF_vars(AnnounceTimer(a))

FairSpec == Spec /\ Fairness
----------------------------------------------------------------------------
(* Properties *)

(***************************************************************************)
(* The installed wrapper is connected to the channel that has the          *)
(* transport, so that it hears answers and events, unless the transport    *)
(* came after the injector: then the event and the timer that is still set *)
(* can make a channel each, and the wrapper of the first one is deaf.      *)
(***************************************************************************)
WrapperHears == installed # 0 /\ listening => installed = channels

(***************************************************************************)
(* A channel that has the transport and is not set up has its init message *)
(* answered or kept for the bridge, whatever answers to an earlier channel *)
(* it has taken.                                                           *)
(***************************************************************************)
InitIsAnswered == channels \in waiting => pending + answers > 0

(***************************************************************************)
(* A document gets one wrapper however often a channel is set up, unless   *)
(* the page has a provider of its own: then every retry makes another.     *)
(***************************************************************************)
OneWrapper == ethereum # "page" => objects <= 1

\* The retries of the injector, or of the installation, were too few.
GaveUp ==
  \/ "injector" \in run /\ channels = 0 /\ retry = Off
  \/ ethereumProvider # 0 /\ \A c \in Channel : installs[c] = Off

(***************************************************************************)
(* Whatever the order of the scripts, a document ends up with a provider   *)
(* as long as the retries do not run out.                                  *)
(***************************************************************************)
ProviderComes == <>(ethereum # "none" \/ GaveUp)

(***************************************************************************)
(* A page that asked before there was a provider, and gets one while the   *)
(* retries last, is announced it, every time.  One that asks later is told *)
(* at once.                                                                *)
(***************************************************************************)
AskedIsAnnounced ==
  \A a \in Announcement :
    (announcing[a] # Off /\ ethereum # "none") ~> a \in announced
=============================================================================
