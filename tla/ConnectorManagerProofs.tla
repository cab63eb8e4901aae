----------------------- MODULE ConnectorManagerProofs -----------------------
(***************************************************************************)
(* Theorems about ConnectorManager, for any accounts, chains and number of *)
(* reports: what the events say and what the wrapper copies.               *)
(***************************************************************************)
EXTENDS ConnectorManager, Integers, TLAPS

\* The kinds of events that say something of the accounts, the chain and the
\* connection.
OfAccounts == {"accountsChanged"}

OfChain == {"chainChanged"}

OfConnection == {"connect", "disconnect"}

\* None of the messages is of the kinds.
Without(messages, kinds) == \A i \in DOMAIN messages : messages[i].kind \notin kinds

\* The last message of the kinds.
IsLast(messages, kinds, i) ==
  /\ i \in DOMAIN messages
  /\ messages[i].kind \in kinds
  /\ \A j \in DOMAIN messages : j > i => messages[j].kind \notin kinds

\* When everything is received, the page has been told the accounts,
AccountsAreTold ==
  /\ \A i \in DOMAIN wire : IsLast(wire, OfAccounts, i) => wire[i].accounts = accounts
  /\ Without(wire, OfAccounts) => told.accounts \in {Untold, accounts}

\* the chain, if it was not reset silently,
ChainIsTold ==
  \/ silent
  \/ /\ \A i \in DOMAIN wire : IsLast(wire, OfChain, i) => wire[i].chain = dappChainId
     /\ Without(wire, OfChain) => told.chain \in {Untold, dappChainId}

\* and whether there is a connection.
ConnectionIsTold ==
  /\ \A i \in DOMAIN wire :
       IsLast(wire, OfConnection, i) => (wire[i].kind = "connect" <=> connected)
  /\ Without(wire, OfConnection) =>
       (told.connection # "none" => (told.connection = "connect" <=> connected))

\* Between two connect messages there is a disconnect message.
ConnectsAlternate ==
  \A i \in DOMAIN wire : wire[i].kind = "connect" =>
    /\ \A j \in DOMAIN wire :
         j < i /\ wire[j].kind = "connect" =>
           \E k \in DOMAIN wire : j < k /\ k < i /\ wire[k].kind = "disconnect"
    /\ (\A j \in DOMAIN wire : j < i => wire[j].kind \notin OfConnection) =>
         told.connection # "connect"

\* Every set of properties that is anywhere was once the manager's.
PropertiesArePast ==
  /\ {Current, sent, cache} \subseteq past
  /\ \A i \in DOMAIN wire : wire[i].kind = "propertyUpdate" => wire[i].properties \in past
  /\ CopyIsOneState

\* The inductive invariant.
IInv ==
  /\ TypeOK
  /\ AccountsAreTold
  /\ ChainIsTold
  /\ ConnectionIsTold
  /\ ConnectsAlternate
  /\ PropertiesArePast
  /\ initialConnectionDone = connected

USE ManagerAssumption
----------------------------------------------------------------------------
(* Sequences of messages *)

\* What a message of each kind carries.
LEMMA MessageFacts ==
  ASSUME NEW message \in Message
  PROVE  /\ message.kind = "accountsChanged" => message.accounts \in Accounts
         /\ message.kind = "chainChanged" => message.chain \in Chain
         /\ message.kind = "propertyUpdate" => message.properties \in Properties
         /\ message = Connect <=> message.kind = "connect"
BY DEF Message, ProviderStateChanged, Connect, Disconnect, ChainChanged, AccountsChanged,
       PropertyUpdate

\* A sequence of messages that is another one with signals sent behind it.
Behind(all, before, signals) ==
  /\ {all, before, signals} \subseteq Seq(Message)
  /\ DOMAIN all \subseteq Nat \ {0} /\ DOMAIN signals \subseteq Nat \ {0}
  /\ Len(before) \in Nat /\ DOMAIN before = 1..Len(before)
  /\ DOMAIN before \subseteq DOMAIN all
  /\ \A i \in DOMAIN before : all[i] = before[i]
  /\ \A i \in DOMAIN signals : i + Len(before) \in DOMAIN all /\ all[i + Len(before)] = signals[i]
  /\ \A i \in DOMAIN all :
       \/ i \in DOMAIN before
       \/ i - Len(before) \in DOMAIN signals /\ all[i] = signals[i - Len(before)]

LEMMA Sending ==
  ASSUME NEW before \in Seq(Message), NEW signals \in Seq(Message), NEW all,
         all = before \o signals
  PROVE  Behind(all, before, signals)
<1>1. {all, before, signals} \subseteq Seq(Message)
  OBVIOUS
<1>2. /\ Len(before) \in Nat /\ DOMAIN before = 1..Len(before)
      /\ Len(signals) \in Nat /\ DOMAIN signals = 1..Len(signals)
      /\ DOMAIN all = 1..Len(before) + Len(signals)
  OBVIOUS
<1>3. /\ \A i \in 1..Len(before) : all[i] = before[i]
      /\ \A i \in 1..Len(signals) : all[i + Len(before)] = signals[i]
  OBVIOUS
<1>4. ASSUME NEW i \in DOMAIN all, i \notin DOMAIN before
      PROVE  i - Len(before) \in DOMAIN signals /\ all[i] = signals[i - Len(before)]
  <2>1. i - Len(before) \in 1..Len(signals) /\ (i - Len(before)) + Len(before) = i
    BY <1>2, <1>4
  <2> QED
    BY <1>2, <1>3, <2>1
<1>5. \A i \in DOMAIN signals : i + Len(before) \in DOMAIN all
  BY <1>2
<1> QED
  BY <1>1, <1>2, <1>3, <1>4, <1>5 DEF Behind

\* Signals that are not of the kinds do not change what the last one says.
LEMMA SendingOthers ==
  ASSUME NEW before \in Seq(Message), NEW signals \in Seq(Message), NEW kinds,
         Without(signals, kinds)
  PROVE  /\ \A i \in DOMAIN (before \o signals) : IsLast(before \o signals, kinds, i) =>
              i \in DOMAIN before /\ IsLast(before, kinds, i)
                /\ (before \o signals)[i] = before[i]
         /\ Without(before \o signals, kinds) => Without(before, kinds)
<1> DEFINE all == before \o signals
<1>1. Behind(all, before, signals)
  BY Sending
<1> HIDE DEF all
<1>2. ASSUME NEW i \in DOMAIN all, IsLast(all, kinds, i)
      PROVE  i \in DOMAIN before /\ IsLast(before, kinds, i) /\ all[i] = before[i]
  <2>1. i \in DOMAIN before
    BY <1>1, <1>2 DEF IsLast, Without, Behind
  <2> QED
    BY <1>1, <1>2, <2>1 DEF IsLast, Behind
<1>3. Without(all, kinds) => Without(before, kinds)
  BY <1>1 DEF Without, Behind
<1> QED
  BY <1>2, <1>3 DEF all

\* Of signals that have one of the kinds, the last one is the last of all.
LEMMA SendingLast ==
  ASSUME NEW before \in Seq(Message), NEW signals \in Seq(Message), NEW kinds,
         ~Without(signals, kinds)
  PROVE  /\ ~Without(before \o signals, kinds)
         /\ \A i \in DOMAIN (before \o signals) : IsLast(before \o signals, kinds, i) =>
              \E k \in DOMAIN signals :
                IsLast(signals, kinds, k) /\ (before \o signals)[i] = signals[k]
<1> DEFINE all == before \o signals
<1>1. PICK n \in DOMAIN signals : signals[n].kind \in kinds
  BY DEF Without
<1>2. Behind(all, before, signals)
  BY Sending
<1> HIDE DEF all
<1>3. ~Without(all, kinds)
  BY <1>1, <1>2 DEF Without, Behind
<1>4. ASSUME NEW i \in DOMAIN all, IsLast(all, kinds, i)
      PROVE  \E k \in DOMAIN signals : IsLast(signals, kinds, k) /\ all[i] = signals[k]
  <2>1. i \notin DOMAIN before
    BY <1>1, <1>2, <1>4 DEF IsLast, Behind
  <2> DEFINE k == i - Len(before)
  <2>2. k \in DOMAIN signals /\ all[i] = signals[k] /\ i \in Nat /\ Len(before) \in Nat
    BY <1>2, <2>1 DEF Behind
  <2>3. ASSUME NEW j \in DOMAIN signals, j > k
        PROVE  signals[j].kind \notin kinds
    <3>1. j + Len(before) \in DOMAIN all /\ all[j + Len(before)] = signals[j] /\ j \in Nat
      BY <1>2 DEF Behind
    <3> QED
      BY <1>4, <2>2, <2>3, <3>1 DEF IsLast
  <2> QED
    BY <1>4, <2>2, <2>3 DEF IsLast
<1> QED
  BY <1>3, <1>4 DEF all

\* The first message is received.
LEMMA Receiving ==
  ASSUME NEW messages \in Seq(Message), messages # <<>>
  PROVE  /\ Head(messages) \in Message /\ Head(messages) = messages[1]
         /\ Tail(messages) \in Seq(Message)
         /\ 1 \in DOMAIN messages
         /\ \A i \in DOMAIN Tail(messages) :
              i \in Nat \ {0} /\ i + 1 \in DOMAIN messages /\ Tail(messages)[i] = messages[i + 1]
         /\ \A i \in DOMAIN messages : i \in Nat /\ (i # 1 =>
              i - 1 \in DOMAIN Tail(messages) /\ Tail(messages)[i - 1] = messages[i])
OBVIOUS

LEMMA ReceivingFirst ==
  ASSUME NEW messages \in Seq(Message), messages # <<>>, NEW kinds
  PROVE  /\ \A i \in DOMAIN Tail(messages) : IsLast(Tail(messages), kinds, i) =>
              /\ i + 1 \in DOMAIN messages /\ IsLast(messages, kinds, i + 1)
              /\ Tail(messages)[i] = messages[i + 1]
         /\ Without(Tail(messages), kinds) /\ Head(messages).kind \notin kinds =>
              Without(messages, kinds)
         /\ Without(Tail(messages), kinds) /\ Head(messages).kind \in kinds =>
              IsLast(messages, kinds, 1)
<1> DEFINE rest == Tail(messages)
<1>1. /\ Head(messages) = messages[1] /\ 1 \in DOMAIN messages
      /\ \A i \in DOMAIN rest :
           i \in Nat \ {0} /\ i + 1 \in DOMAIN messages /\ rest[i] = messages[i + 1]
      /\ \A i \in DOMAIN messages : i \in Nat /\ (i # 1 =>
           i - 1 \in DOMAIN rest /\ rest[i - 1] = messages[i])
  BY Receiving
<1> HIDE DEF rest
<1>2. ASSUME NEW i \in DOMAIN rest, IsLast(rest, kinds, i)
      PROVE  IsLast(messages, kinds, i + 1)
  <2>1. ASSUME NEW j \in DOMAIN messages, j > i + 1
        PROVE  messages[j].kind \notin kinds
    <3>1. j - 1 \in DOMAIN rest /\ rest[j - 1] = messages[j] /\ j - 1 > i
      BY <1>1, <2>1
    <3> QED
      BY <1>2, <3>1 DEF IsLast
  <2> QED
    BY <1>1, <1>2, <2>1 DEF IsLast
<1>3. Without(rest, kinds) /\ messages[1].kind \notin kinds => Without(messages, kinds)
  BY <1>1 DEF Without
<1>4. ASSUME Without(rest, kinds), messages[1].kind \in kinds
      PROVE  IsLast(messages, kinds, 1)
  <2>1. ASSUME NEW j \in DOMAIN messages, j > 1
        PROVE  messages[j].kind \notin kinds
    <3>1. j - 1 \in DOMAIN rest /\ rest[j - 1] = messages[j]
      BY <1>1, <2>1
    <3> QED
      BY <1>4, <3>1 DEF Without
  <2> QED
    BY <1>1, <1>4, <2>1 DEF IsLast
<1> QED
  BY <1>1, <1>2, <1>3, <1>4 DEF rest
----------------------------------------------------------------------------
(* What the manager says *)

LEMMA MessageTypes ==
  /\ {ProviderStateChanged, Connect, Disconnect} \subseteq Message
  /\ \A chain \in Chain : ChainChanged(chain) \in Message
  /\ \A list \in Accounts : AccountsChanged(list) \in Message
  /\ \A properties \in Properties : PropertyUpdate(properties) \in Message
BY DEF Message

LEMMA UpdateAccountsFacts ==
  ASSUME NEW list \in Accounts, NEW signals, signals = UpdateAccountsSignals(list)
  PROVE  /\ signals \in Seq(Message)
         /\ Without(signals, OfChain \cup OfConnection \cup {"propertyUpdate"})
         /\ \A k \in DOMAIN signals : IsLast(signals, OfAccounts, k) => signals[k].accounts = list
         /\ Without(signals, OfAccounts) => list = accounts
<1>1. CASE list = accounts
  BY <1>1 DEF UpdateAccountsSignals, Without
<1>2. CASE list # accounts
  <2>1. signals = <<ProviderStateChanged, AccountsChanged(list)>>
    BY <1>2 DEF UpdateAccountsSignals
  <2>2. signals \in Seq(Message)
    BY <2>1, MessageTypes
  <2>3. /\ DOMAIN signals = {1, 2}
        /\ signals[1].kind = "providerStateChanged"
        /\ signals[2].kind = "accountsChanged" /\ signals[2].accounts = list
    BY <2>1 DEF ProviderStateChanged, AccountsChanged
  <2> QED
    BY <2>2, <2>3 DEF Without, IsLast, OfAccounts, OfChain, OfConnection
<1> QED
  BY <1>1, <1>2

LEMMA SetChainFacts ==
  ASSUME NEW chain \in Chain, NEW signals, signals = SetChainSignals(chain)
  PROVE  /\ signals \in Seq(Message)
         /\ Without(signals, OfAccounts \cup OfConnection \cup {"propertyUpdate"})
         /\ \A k \in DOMAIN signals : IsLast(signals, OfChain, k) => signals[k].chain = chain
         /\ Without(signals, OfChain) => chain = dappChainId
<1>1. CASE chain = dappChainId
  BY <1>1 DEF SetChainSignals, Without
<1>2. CASE chain # dappChainId
  <2>1. signals = <<ProviderStateChanged, ChainChanged(chain)>>
    BY <1>2 DEF SetChainSignals
  <2>2. signals \in Seq(Message)
    BY <2>1, MessageTypes
  <2>3. /\ DOMAIN signals = {1, 2}
        /\ signals[1].kind = "providerStateChanged"
        /\ signals[2].kind = "chainChanged" /\ signals[2].chain = chain
    BY <2>1 DEF ProviderStateChanged, ChainChanged
  <2> QED
    BY <2>2, <2>3 DEF Without, IsLast, OfAccounts, OfChain, OfConnection
<1> QED
  BY <1>1, <1>2

LEMMA SetConnectedFacts ==
  ASSUME initialConnectionDone = connected, connected \in BOOLEAN,
         NEW signals, signals = SetConnectedSignals
  PROVE  /\ signals \in Seq(Message)
         /\ Without(signals, OfAccounts \cup OfChain \cup {"propertyUpdate"})
         /\ connected => Without(signals, OfConnection)
         /\ ~connected => signals = <<ProviderStateChanged, Connect>>
<1>1. CASE connected
  <2>1. signals = <<>>
    BY <1>1 DEF SetConnectedSignals
  <2> QED
    BY <1>1, <2>1 DEF Without
<1>2. CASE ~connected
  <2>1. signals = <<ProviderStateChanged, Connect>>
    BY <1>2 DEF SetConnectedSignals
  <2>2. signals \in Seq(Message)
    BY <2>1, MessageTypes
  <2>3. /\ DOMAIN signals = {1, 2}
        /\ signals[1].kind = "providerStateChanged" /\ signals[2].kind = "connect"
    BY <2>1 DEF ProviderStateChanged, Connect
  <2>4. Without(signals, OfAccounts \cup OfChain \cup {"propertyUpdate"})
    BY <2>3 DEF Without, OfAccounts, OfChain
  <2> QED
    BY <1>2, <2>1, <2>2, <2>4
<1> QED
  BY <1>1, <1>2
----------------------------------------------------------------------------
(* The steps of the manager *)

\* Signals that tell how the state changes.
Telling(signals) ==
  /\ signals \in Seq(Message)
  /\ Without(signals, {"propertyUpdate"})
  /\ Without(signals, OfAccounts) => accounts' = accounts
  /\ \A k \in DOMAIN signals : IsLast(signals, OfAccounts, k) => signals[k].accounts = accounts'
  /\ silent' \/ (/\ Without(signals, OfChain) => ~silent /\ dappChainId' = dappChainId
                 /\ \A k \in DOMAIN signals :
                      IsLast(signals, OfChain, k) => signals[k].chain = dappChainId')
  /\ Without(signals, OfConnection) => connected' = connected
  /\ \A k \in DOMAIN signals : IsLast(signals, OfConnection, k) =>
       (signals[k].kind = "connect" <=> connected')
  /\ \A k \in DOMAIN signals : signals[k].kind = "connect" =>
       ~connected /\ \A j \in DOMAIN signals : j # k => signals[j].kind \notin OfConnection

LEMMA TellingAccounts ==
  ASSUME IInv, NEW signals, Telling(signals), Emit(signals)
  PROVE  AccountsAreTold'
<1>1. wire \in Seq(Message) /\ signals \in Seq(Message) /\ wire' = wire \o signals /\ told' = told
  BY DEF IInv, TypeOK, Telling, Emit
<1>2. CASE Without(signals, OfAccounts)
  <2>1. accounts' = accounts
    BY <1>2 DEF Telling
  <2>2. ASSUME NEW i \in DOMAIN wire', IsLast(wire', OfAccounts, i)
        PROVE  wire'[i].accounts = accounts'
    <3>1. i \in DOMAIN wire /\ IsLast(wire, OfAccounts, i) /\ wire'[i] = wire[i]
      BY <1>1, <1>2, <2>2, SendingOthers
    <3> QED
      BY <2>1, <3>1 DEF IInv, AccountsAreTold
  <2>3. Without(wire', OfAccounts) => Without(wire, OfAccounts)
    BY <1>1, <1>2, SendingOthers
  <2> QED
    BY <1>1, <2>1, <2>2, <2>3 DEF IInv, AccountsAreTold
<1>3. CASE ~Without(signals, OfAccounts)
  <2>1. ~Without(wire', OfAccounts)
    BY <1>1, <1>3, SendingLast
  <2>2. ASSUME NEW i \in DOMAIN wire', IsLast(wire', OfAccounts, i)
        PROVE  wire'[i].accounts = accounts'
    <3>1. PICK k \in DOMAIN signals : IsLast(signals, OfAccounts, k) /\ wire'[i] = signals[k]
      BY <1>1, <1>3, <2>2, SendingLast
    <3> QED
      BY <3>1 DEF Telling
  <2> QED
    BY <2>1, <2>2 DEF AccountsAreTold
<1> QED
  BY <1>2, <1>3

LEMMA TellingChain ==
  ASSUME IInv, NEW signals, Telling(signals), Emit(signals)
  PROVE  ChainIsTold'
<1> SUFFICES ASSUME ~silent'
             PROVE  ChainIsTold'
  BY DEF ChainIsTold
<1>1. wire \in Seq(Message) /\ signals \in Seq(Message) /\ wire' = wire \o signals /\ told' = told
  BY DEF IInv, TypeOK, Telling, Emit
<1>2. CASE Without(signals, OfChain)
  <2>1. dappChainId' = dappChainId /\ ~silent
    BY <1>2 DEF Telling
  <2>2. ASSUME NEW i \in DOMAIN wire', IsLast(wire', OfChain, i)
        PROVE  wire'[i].chain = dappChainId'
    <3>1. i \in DOMAIN wire /\ IsLast(wire, OfChain, i) /\ wire'[i] = wire[i]
      BY <1>1, <1>2, <2>2, SendingOthers
    <3> QED
      BY <2>1, <3>1 DEF IInv, ChainIsTold
  <2>3. Without(wire', OfChain) => Without(wire, OfChain)
    BY <1>1, <1>2, SendingOthers
  <2> QED
    BY <1>1, <2>1, <2>2, <2>3 DEF IInv, ChainIsTold
<1>3. CASE ~Without(signals, OfChain)
  <2>1. ~Without(wire', OfChain)
    BY <1>1, <1>3, SendingLast
  <2>2. ASSUME NEW i \in DOMAIN wire', IsLast(wire', OfChain, i)
        PROVE  wire'[i].chain = dappChainId'
    <3>1. PICK k \in DOMAIN signals : IsLast(signals, OfChain, k) /\ wire'[i] = signals[k]
      BY <1>1, <1>3, <2>2, SendingLast
    <3> QED
      BY <3>1 DEF Telling
  <2> QED
    BY <2>1, <2>2 DEF ChainIsTold
<1> QED
  BY <1>2, <1>3

LEMMA TellingConnection ==
  ASSUME IInv, NEW signals, Telling(signals), Emit(signals)
  PROVE  ConnectionIsTold'
<1>1. wire \in Seq(Message) /\ signals \in Seq(Message) /\ wire' = wire \o signals /\ told' = told
  BY DEF IInv, TypeOK, Telling, Emit
<1>2. CASE Without(signals, OfConnection)
  <2>1. connected' = connected
    BY <1>2 DEF Telling
  <2>2. ASSUME NEW i \in DOMAIN wire', IsLast(wire', OfConnection, i)
        PROVE  wire'[i].kind = "connect" <=> connected'
    <3>1. i \in DOMAIN wire /\ IsLast(wire, OfConnection, i) /\ wire'[i] = wire[i]
      BY <1>1, <1>2, <2>2, SendingOthers
    <3> QED
      BY <2>1, <3>1 DEF IInv, ConnectionIsTold
  <2>3. Without(wire', OfConnection) => Without(wire, OfConnection)
    BY <1>1, <1>2, SendingOthers
  <2> QED
    BY <1>1, <2>1, <2>2, <2>3 DEF IInv, ConnectionIsTold
<1>3. CASE ~Without(signals, OfConnection)
  <2>1. ~Without(wire', OfConnection)
    BY <1>1, <1>3, SendingLast
  <2>2. ASSUME NEW i \in DOMAIN wire', IsLast(wire', OfConnection, i)
        PROVE  wire'[i].kind = "connect" <=> connected'
    <3>1. PICK k \in DOMAIN signals : IsLast(signals, OfConnection, k) /\ wire'[i] = signals[k]
      BY <1>1, <1>3, <2>2, SendingLast
    <3> QED
      BY <3>1 DEF Telling
  <2> QED
    BY <2>1, <2>2 DEF ConnectionIsTold
<1> QED
  BY <1>2, <1>3

\* A connect is only sent without a connection, and then the last one that was
\* sent or told is no connect.
LEMMA TellingAlternates ==
  ASSUME IInv, NEW signals, Telling(signals), Emit(signals)
  PROVE  ConnectsAlternate'
<1>1. /\ wire \in Seq(Message) /\ signals \in Seq(Message) /\ wire' = wire \o signals
      /\ told' = told
  BY DEF IInv, TypeOK, Telling, Emit
<1> DEFINE n == Len(wire)
<1>2. /\ n \in Nat /\ DOMAIN wire = 1..n /\ DOMAIN wire' \subseteq Nat
      /\ DOMAIN wire \subseteq DOMAIN wire'
      /\ \A i \in DOMAIN wire : wire'[i] = wire[i]
      /\ \A i \in DOMAIN wire' :
           \/ i \in DOMAIN wire
           \/ i - n \in DOMAIN signals /\ wire'[i] = signals[i - n]
      /\ DOMAIN signals \subseteq Nat \ {0}
  <2>1. Behind(wire', wire, signals)
    BY <1>1, Sending
  <2>2. DOMAIN wire' \subseteq Nat \ {0} /\ DOMAIN signals \subseteq Nat \ {0}
    BY <2>1, Zenon DEF Behind
  <2>3. /\ Len(wire) \in Nat /\ DOMAIN wire = 1..Len(wire)
        /\ DOMAIN wire \subseteq DOMAIN wire'
        /\ \A i \in DOMAIN wire : wire'[i] = wire[i]
        /\ \A i \in DOMAIN wire' :
             \/ i \in DOMAIN wire
             \/ i - Len(wire) \in DOMAIN signals /\ wire'[i] = signals[i - Len(wire)]
    BY <2>1, Zenon DEF Behind
  <2> QED
    BY <2>2, <2>3
<1> HIDE DEF n
<1>3. ASSUME NEW i \in DOMAIN wire', wire'[i].kind = "connect"
      PROVE  /\ \A j \in DOMAIN wire' :
                  j < i /\ wire'[j].kind = "connect" =>
                    \E k \in DOMAIN wire' : j < k /\ k < i /\ wire'[k].kind = "disconnect"
             /\ (\A j \in DOMAIN wire' : j < i => wire'[j].kind \notin OfConnection) =>
                  told'.connection # "connect"
  <2>1. CASE i \in DOMAIN wire
    <3>1. wire[i].kind = "connect"
      BY <1>2, <1>3, <2>1
    <3>2. \A j \in DOMAIN wire' : j < i => j \in DOMAIN wire
      BY <1>2, <2>1
    <3>3. /\ \A j \in DOMAIN wire : j < i /\ wire[j].kind = "connect" =>
               \E k \in DOMAIN wire : j < k /\ k < i /\ wire[k].kind = "disconnect"
          /\ (\A j \in DOMAIN wire : j < i => wire[j].kind \notin OfConnection) =>
               told.connection # "connect"
      BY <2>1, <3>1 DEF IInv, ConnectsAlternate
    <3> QED
      BY <1>1, <1>2, <3>2, <3>3
  <2>2. CASE i \notin DOMAIN wire
    <3>1. i - n \in DOMAIN signals /\ signals[i - n].kind = "connect" /\ i > n
      BY <1>2, <1>3, <2>2
    <3>2. /\ ~connected
          /\ \A j \in DOMAIN signals : j # i - n => signals[j].kind \notin OfConnection
      BY <3>1 DEF Telling
    <3>3. ASSUME NEW j \in DOMAIN wire', j < i, wire'[j].kind \in OfConnection
          PROVE  j \in DOMAIN wire /\ wire[j].kind = wire'[j].kind
      BY <1>2, <3>2, <3>3
    <3>4. ASSUME NEW j \in DOMAIN wire', j < i, wire'[j].kind = "connect"
          PROVE  \E k \in DOMAIN wire' : j < k /\ k < i /\ wire'[k].kind = "disconnect"
      <4>1. j \in DOMAIN wire /\ wire[j].kind = "connect"
        BY <3>3, <3>4 DEF OfConnection
      <4>2. ~IsLast(wire, OfConnection, j)
        BY <3>2, <4>1 DEF IInv, ConnectionIsTold
      <4>3. PICK k \in DOMAIN wire : k > j /\ wire[k].kind \in OfConnection
        BY <4>1, <4>2 DEF IsLast, OfConnection
      <4>4. CASE wire[k].kind = "disconnect"
        BY <1>2, <3>1, <4>3, <4>4
      <4>5. CASE wire[k].kind = "connect"
        <5>1. PICK l \in DOMAIN wire : j < l /\ l < k /\ wire[l].kind = "disconnect"
          BY <4>1, <4>3, <4>5 DEF IInv, ConnectsAlternate
        <5> QED
          BY <1>2, <3>1, <4>3, <5>1
      <4> QED
        BY <4>3, <4>4, <4>5 DEF OfConnection
    <3>5. ASSUME \A j \in DOMAIN wire' : j < i => wire'[j].kind \notin OfConnection
          PROVE  told'.connection # "connect"
      <4>1. Without(wire, OfConnection)
        BY <1>2, <3>1, <3>5 DEF Without
      <4> QED
        BY <1>1, <3>2, <4>1 DEF IInv, ConnectionIsTold
    <3> QED
      BY <3>4, <3>5
  <2> QED
    BY <2>1, <2>2
<1> QED
  BY <1>3 DEF ConnectsAlternate
LEMMA CurrentFacts ==
  ASSUME TypeOK
  PROVE  Current \in Properties
BY DEF TypeOK, Current, Properties

LEMMA TellingProperties ==
  ASSUME IInv, NEW signals, Telling(signals), Emit(signals)
  PROVE  PropertiesArePast'
<1>1. /\ wire \in Seq(Message) /\ signals \in Seq(Message) /\ wire' = wire \o signals
      /\ past' = past \cup {Current'}
      /\ UNCHANGED <<sent, cache, copy>>
  BY DEF IInv, TypeOK, Telling, Emit
<1>2. ASSUME NEW i \in DOMAIN wire', wire'[i].kind = "propertyUpdate"
      PROVE  wire'[i].properties \in past'
  <2>1. i \in DOMAIN wire /\ wire'[i] = wire[i]
    <3>1. Behind(wire', wire, signals)
      BY <1>1, Sending
    <3> QED
      BY <1>2, <3>1 DEF Telling, Without, Behind
  <2> QED
    BY <1>1, <1>2, <2>1 DEF IInv, PropertiesArePast
<1> QED
  BY <1>1, <1>2 DEF IInv, PropertiesArePast, CopyIsOneState

\* A report of the connector.
LEMMA ReportKeeps ==
  ASSUME IInv, NEW signals, Telling(signals), Emit(signals),
         dappChainId' \in Chain, accounts' \in Accounts, connected' \in BOOLEAN,
         silent' \in BOOLEAN, initialConnectionDone' = connected'
  PROVE  IInv'
<1>1. TypeOK'
  <2>1. wire' \in Seq(Message)
    BY Sending DEF IInv, TypeOK, Emit, Telling
  <2>2. Current' \in Properties
    BY DEF Current, Properties
  <2>3. reports' \in 0..MaxReports
    BY DEF IInv, TypeOK, Emit
  <2>4. {sent', cache'} \cup past' \subseteq Properties
    BY <2>2 DEF IInv, TypeOK, Emit
  <2>5. {connected', initialConnectionDone', idle', silent'} \subseteq BOOLEAN
    BY DEF IInv, TypeOK, Emit
  <2>6. UNCHANGED <<copy, told>>
    BY DEF Emit
  <2> QED
    BY <2>1, <2>3, <2>4, <2>5, <2>6 DEF IInv, TypeOK
<1> QED
  BY <1>1, TellingAccounts, TellingChain, TellingConnection, TellingAlternates,
     TellingProperties DEF IInv

\* The signals of onConnected, one part after another.
LEMMA ConnectedTells ==
  ASSUME IInv, NEW list \in Accounts, NEW chain \in Chain, accounts' = list,
         dappChainId' = chain, connected' = TRUE, silent' = (silent /\ chain = dappChainId)
  PROVE  Telling(UpdateAccountsSignals(list) \o SetChainSignals(chain) \o SetConnectedSignals)
<1> DEFINE a == UpdateAccountsSignals(list)
           c == SetChainSignals(chain)
           d == SetConnectedSignals
           ac == a \o c
           all == ac \o d
<1>1. /\ a \in Seq(Message)
      /\ Without(a, OfChain \cup OfConnection \cup {"propertyUpdate"})
      /\ \A k \in DOMAIN a : IsLast(a, OfAccounts, k) => a[k].accounts = list
      /\ Without(a, OfAccounts) => list = accounts
  BY UpdateAccountsFacts
<1>2. /\ c \in Seq(Message)
      /\ Without(c, OfAccounts \cup OfConnection \cup {"propertyUpdate"})
      /\ \A k \in DOMAIN c : IsLast(c, OfChain, k) => c[k].chain = chain
      /\ Without(c, OfChain) => chain = dappChainId
  BY SetChainFacts
<1>3. initialConnectionDone = connected /\ connected \in BOOLEAN /\ silent \in BOOLEAN
  BY DEF IInv, TypeOK
<1>4. /\ d \in Seq(Message)
      /\ Without(d, OfAccounts \cup OfChain \cup {"propertyUpdate"})
      /\ connected => Without(d, OfConnection)
      /\ ~connected => d = <<ProviderStateChanged, Connect>>
  BY <1>3, SetConnectedFacts
<1> HIDE DEF a, c, d
<1>5. ac \in Seq(Message) /\ Behind(ac, a, c)
  BY <1>1, <1>2, Sending DEF Behind
<1>6. Without(ac, OfConnection \cup {"propertyUpdate"})
  BY <1>1, <1>2, <1>5 DEF Without, Behind
<1>7. ASSUME NEW i \in DOMAIN ac, IsLast(ac, OfAccounts, i)
      PROVE  ac[i].accounts = list
  <2>1. i \in DOMAIN a /\ IsLast(a, OfAccounts, i) /\ ac[i] = a[i]
    <3>1. Without(c, OfAccounts)
      BY <1>2 DEF Without
    <3> QED
      BY <1>1, <1>2, <1>7, <3>1, SendingOthers
  <2> QED
    BY <1>1, <2>1
<1>8. Without(ac, OfAccounts) => list = accounts
  <2>1. Without(c, OfAccounts)
    BY <1>2 DEF Without
  <2> QED
    BY <1>1, <1>2, <2>1, SendingOthers
<1>9. Without(a, OfChain)
  BY <1>1 DEF Without
<1>10. ASSUME NEW i \in DOMAIN ac, IsLast(ac, OfChain, i)
       PROVE  ac[i].chain = chain
  <2>1. ~Without(c, OfChain)
    BY <1>1, <1>2, <1>9, <1>10, SendingOthers DEF IsLast, Without
  <2>2. PICK k \in DOMAIN c : IsLast(c, OfChain, k) /\ ac[i] = c[k]
    BY <1>1, <1>2, <1>10, <2>1, SendingLast
  <2> QED
    BY <1>2, <2>2
<1>11. Without(ac, OfChain) => chain = dappChainId
  BY <1>1, <1>2, SendingLast
<1> HIDE DEF ac, all
<1>12. /\ all \in Seq(Message) /\ DOMAIN ac \subseteq DOMAIN all
       /\ Len(ac) \in Nat
       /\ \A i \in DOMAIN ac : all[i] = ac[i]
       /\ \A i \in DOMAIN d : i + Len(ac) \in DOMAIN all /\ all[i + Len(ac)] = d[i]
       /\ DOMAIN all \subseteq Nat
       /\ \A i \in DOMAIN all :
            \/ i \in DOMAIN ac /\ all[i] = ac[i]
            \/ i - Len(ac) \in DOMAIN d /\ all[i] = d[i - Len(ac)]
  <2>1. Behind(all, ac, d)
    BY <1>4, <1>5, Sending DEF all
  <2> QED
    BY <2>1 DEF Behind
<1>13. Without(all, {"propertyUpdate"})
  BY <1>4, <1>6, <1>12 DEF Without
<1>14. Without(d, OfAccounts) /\ Without(d, OfChain)
  BY <1>4 DEF Without
<1>15. /\ Without(all, OfAccounts) => accounts' = accounts
       /\ \A k \in DOMAIN all : IsLast(all, OfAccounts, k) => all[k].accounts = accounts'
  BY <1>4, <1>5, <1>7, <1>8, <1>14, SendingOthers DEF all
<1>16. silent' \/ /\ Without(all, OfChain) => ~silent /\ dappChainId' = dappChainId
                  /\ \A k \in DOMAIN all : IsLast(all, OfChain, k) => all[k].chain = dappChainId'
  <2>1. Without(all, OfChain) => chain = dappChainId
    BY <1>4, <1>5, <1>11, <1>14, SendingOthers DEF all
  <2>2. \A k \in DOMAIN all : IsLast(all, OfChain, k) => all[k].chain = chain
    BY <1>4, <1>5, <1>10, <1>14, SendingOthers DEF all
  <2> QED
    BY <1>3, <2>1, <2>2
<1>17. ASSUME connected PROVE Telling(all)
  <2>1. Without(all, OfConnection)
    BY <1>4, <1>6, <1>12, <1>17 DEF Without
  <2>2. connected' = connected
    BY <1>3, <1>17
  <2>3. \A k \in DOMAIN all : all[k].kind \notin OfConnection /\ ~(all[k].kind = "connect")
    BY <2>1 DEF Without, OfConnection
  <2>4. all \in Seq(Message)
    BY <1>12
  <2> QED
    BY <1>13, <1>15, <1>16, <2>1, <2>2, <2>3, <2>4, Zenon DEF Telling, IsLast
<1>18. ASSUME ~connected PROVE Telling(all)
  <2>1. /\ DOMAIN d = {1, 2}
        /\ d[1].kind = "providerStateChanged" /\ d[2].kind = "connect"
    BY <1>4, <1>18 DEF ProviderStateChanged, Connect
  <2>2. /\ all[Len(ac) + 2].kind = "connect" /\ Len(ac) + 2 \in DOMAIN all
        /\ \A i \in DOMAIN all : i # Len(ac) + 2 => all[i].kind \notin OfConnection
    <3>1. 2 + Len(ac) \in DOMAIN all /\ all[2 + Len(ac)] = d[2]
      BY <1>12, <2>1
    <3>2. ASSUME NEW i \in DOMAIN all, i # Len(ac) + 2
          PROVE  all[i].kind \notin OfConnection
      <4>1. CASE i \in DOMAIN ac /\ all[i] = ac[i]
        BY <1>6, <4>1 DEF Without
      <4>2. CASE i - Len(ac) \in DOMAIN d /\ all[i] = d[i - Len(ac)]
        BY <1>12, <2>1, <3>2, <4>2 DEF OfConnection
      <4> QED
        BY <1>12, <4>1, <4>2
    <3>3. 2 + Len(ac) = Len(ac) + 2
      BY <1>12
    <3> QED
      BY <2>1, <3>1, <3>2, <3>3
  <2>3. /\ ~Without(all, OfConnection)
        /\ \A k \in DOMAIN all : IsLast(all, OfConnection, k) => all[k].kind = "connect"
        /\ \A k \in DOMAIN all : all[k].kind = "connect" =>
             \A j \in DOMAIN all : j # k => all[j].kind \notin OfConnection
    BY <2>2 DEF Without, IsLast, OfConnection
  <2>4. connected' /\ ~connected
    BY <1>18
  <2>5. all \in Seq(Message)
    BY <1>12
  <2> QED
    BY <1>13, <1>15, <1>16, <2>3, <2>4, <2>5, Zenon DEF Telling
<1>19. Telling(all)
  BY <1>17, <1>18, Zenon
<1> QED
  BY <1>19, Zenon DEF all, ac, a, c, d

LEMMA OnConnectedKeeps ==
  ASSUME IInv, NEW list \in Accounts, NEW chain \in Chain, OnConnected(list, chain)
  PROVE  IInv'
<1>1. /\ accounts' = list /\ dappChainId' = chain /\ connected' = TRUE
      /\ initialConnectionDone' = TRUE /\ silent' = (silent /\ chain = dappChainId)
      /\ Emit(UpdateAccountsSignals(list) \o SetChainSignals(chain) \o SetConnectedSignals)
  BY DEF OnConnected
<1>2. Telling(UpdateAccountsSignals(list) \o SetChainSignals(chain) \o SetConnectedSignals)
  BY <1>1, ConnectedTells
<1>3. silent' \in BOOLEAN
  BY <1>1
<1> QED
  BY <1>1, <1>2, <1>3, ReportKeeps

LEMMA ClearStateKeeps ==
  ASSUME IInv, ClearState
  PROVE  IInv'
<1> DEFINE signals == <<ProviderStateChanged, Disconnect, AccountsChanged({})>>
<1>1. /\ accounts' = {} /\ connected' = FALSE /\ initialConnectionDone' = FALSE
      /\ UNCHANGED <<dappChainId, silent>>
      /\ Emit(signals)
  BY DEF ClearState
<1>2. {} \in Accounts
  BY DEF Accounts
<1>3. signals \in Seq(Message)
  BY <1>2, MessageTypes
<1>4. /\ DOMAIN signals = {1, 2, 3}
      /\ signals[1].kind = "providerStateChanged" /\ signals[2].kind = "disconnect"
      /\ signals[3].kind = "accountsChanged" /\ signals[3].accounts = {}
  BY DEF ProviderStateChanged, Disconnect, AccountsChanged
<1>5. silent \in BOOLEAN /\ dappChainId \in Chain
  BY DEF IInv, TypeOK
<1> HIDE DEF signals
<1>6. /\ Without(signals, {"propertyUpdate"}) /\ Without(signals, OfChain)
      /\ ~Without(signals, OfAccounts) /\ ~Without(signals, OfConnection)
  BY <1>4 DEF Without, OfChain, OfAccounts, OfConnection
<1>7. \A k \in DOMAIN signals : IsLast(signals, OfAccounts, k) => signals[k].accounts = {}
  BY <1>4 DEF IsLast, OfAccounts
<1>8. \A k \in DOMAIN signals : signals[k].kind # "connect"
  BY <1>4
<1>9. \A k \in DOMAIN signals : ~IsLast(signals, OfChain, k)
  BY <1>6 DEF IsLast, Without
<1>10. Telling(signals)
  BY <1>1, <1>3, <1>5, <1>6, <1>7, <1>8, <1>9 DEF Telling
<1> QED
  BY <1>1, <1>2, <1>5, <1>10, ReportKeeps

LEMMA OnChainIdSwitchedKeeps ==
  ASSUME IInv, NEW chain \in Chain, OnChainIdSwitched(chain)
  PROVE  IInv'
<1> DEFINE signals == SetChainSignals(chain)
<1>1. /\ dappChainId' = chain /\ silent' = FALSE /\ chain # dappChainId
      /\ UNCHANGED <<accounts, connected, initialConnectionDone>>
      /\ Emit(signals)
  BY DEF OnChainIdSwitched
<1>2. /\ signals \in Seq(Message)
      /\ Without(signals, OfAccounts \cup OfConnection \cup {"propertyUpdate"})
      /\ \A k \in DOMAIN signals : IsLast(signals, OfChain, k) => signals[k].chain = chain
      /\ ~Without(signals, OfChain)
  BY <1>1, SetChainFacts
<1>3. /\ accounts \in Accounts /\ connected \in BOOLEAN /\ initialConnectionDone = connected
  BY DEF IInv, TypeOK
<1> HIDE DEF signals
<1>4. /\ Without(signals, {"propertyUpdate"})
      /\ \A k \in DOMAIN signals : signals[k].kind \notin OfAccounts \cup OfConnection
      /\ \A k \in DOMAIN signals : signals[k].kind # "connect"
  BY <1>2 DEF Without, OfConnection
<1>5. Telling(signals)
  BY <1>1, <1>2, <1>4 DEF Telling, IsLast
<1> QED
  BY <1>1, <1>3, <1>5, ReportKeeps

LEMMA OnAccountChangedKeeps ==
  ASSUME IInv, NEW list \in Accounts, OnAccountChanged(list)
  PROVE  IInv'
<1> DEFINE signals == UpdateAccountsSignals(list)
<1>1. /\ accounts' = list /\ list # accounts
      /\ UNCHANGED <<dappChainId, connected, initialConnectionDone, silent>>
      /\ Emit(signals)
  BY DEF OnAccountChanged
<1>2. /\ signals \in Seq(Message)
      /\ Without(signals, OfChain \cup OfConnection \cup {"propertyUpdate"})
      /\ \A k \in DOMAIN signals : IsLast(signals, OfAccounts, k) => signals[k].accounts = list
      /\ ~Without(signals, OfAccounts)
  BY <1>1, UpdateAccountsFacts
<1>3. /\ dappChainId \in Chain /\ connected \in BOOLEAN /\ initialConnectionDone = connected
      /\ silent \in BOOLEAN
  BY DEF IInv, TypeOK
<1> HIDE DEF signals
<1>4. /\ Without(signals, {"propertyUpdate"})
      /\ \A k \in DOMAIN signals : signals[k].kind \notin OfChain \cup OfConnection
      /\ \A k \in DOMAIN signals : signals[k].kind # "connect"
  BY <1>2 DEF Without, OfConnection
<1>5. Telling(signals)
  BY <1>1, <1>2, <1>3, <1>4 DEF Telling, IsLast
<1> QED
  BY <1>1, <1>3, <1>5, ReportKeeps

LEMMA UpdateDAppUrlKeeps ==
  ASSUME IInv, UpdateDAppUrl
  PROVE  IInv'
<1>1. /\ dappChainId' = Mainnet /\ silent' = (silent \/ dappChainId # Mainnet)
      /\ UNCHANGED <<accounts, connected, initialConnectionDone>>
      /\ Emit(<<>>)
  BY DEF UpdateDAppUrl
<1>2. /\ dappChainId \in Chain /\ connected \in BOOLEAN /\ initialConnectionDone = connected
      /\ silent \in BOOLEAN /\ accounts \in Accounts
  BY DEF IInv, TypeOK
<1>3. <<>> \in Seq(Message) /\ DOMAIN <<>> = {}
  OBVIOUS
<1>4. Telling(<<>>)
  BY <1>1, <1>2, <1>3 DEF Telling, Without
<1> QED
  BY <1>1, <1>2, <1>4, ReportKeeps

\* Another document starts with nothing told.
LEMMA NavigateKeeps ==
  ASSUME IInv, Navigate
  PROVE  IInv'
<1>1. /\ dappChainId' = Mainnet /\ reports' = reports + 1 /\ reports < MaxReports
      /\ UNCHANGED <<accounts, connected, initialConnectionDone>>
      /\ sent' = Current' /\ cache' = Current' /\ past' = {Current'}
      /\ idle' = TRUE /\ wire' = <<>> /\ copy' = Null /\ told' = Nothing /\ silent' = FALSE
  BY DEF Navigate
<1>2. /\ connected \in BOOLEAN /\ initialConnectionDone = connected /\ accounts \in Accounts
      /\ reports \in Nat
  BY DEF IInv, TypeOK
<1>3. Current' \in Properties
  BY <1>1, <1>2 DEF Current, Properties
<1>4. wire' \in Seq(Message) /\ DOMAIN wire' = {}
  BY <1>1
<1>5. copy' \in Copies
  BY <1>1 DEF Null, Copies, Accounts
<1>6. told' \in [connection : {"none", "connect", "disconnect"},
                 accounts : Accounts \cup {Untold}, chain : Chain \cup {Untold}]
  BY <1>1 DEF Nothing
<1>7. TypeOK'
  <2>1. /\ dappChainId' \in Chain /\ accounts' \in Accounts
        /\ {connected', initialConnectionDone', idle', silent'} \subseteq BOOLEAN
    BY <1>1, <1>2
  <2>2. {sent', cache'} \cup past' \subseteq Properties
    BY <1>1, <1>3
  <2>3. reports' \in 0..MaxReports
    BY <1>1, <1>2
  <2> QED
    BY <1>4, <1>5, <1>6, <2>1, <2>2, <2>3 DEF TypeOK
<1>8. told'.accounts = Untold /\ told'.chain = Untold /\ told'.connection = "none"
  BY <1>1 DEF Nothing
<1>9. AccountsAreTold' /\ ChainIsTold' /\ ConnectionIsTold' /\ ConnectsAlternate'
  BY <1>4, <1>8 DEF AccountsAreTold, ChainIsTold, ConnectionIsTold, ConnectsAlternate
<1>10. PropertiesArePast'
  BY <1>1, <1>4 DEF PropertiesArePast, CopyIsOneState, Null
<1> QED
  BY <1>1, <1>2, <1>7, <1>9, <1>10 DEF IInv
----------------------------------------------------------------------------
(* The steps of the web channel and the document *)

LEMMA SendPropertiesKeeps ==
  ASSUME IInv, SendProperties
  PROVE  IInv'
<1> DEFINE signals == <<PropertyUpdate(Current)>>
<1>1. /\ wire' = Append(wire, PropertyUpdate(Current)) /\ sent' = Current /\ idle' = FALSE
      /\ UNCHANGED <<dappChainId, accounts, connected, initialConnectionDone>>
      /\ UNCHANGED <<cache, copy, told, past, silent, reports>>
  BY DEF SendProperties, manager
<1>2. Current \in Properties /\ Current' = Current
  BY <1>1, CurrentFacts DEF IInv, Current
<1>3. wire \in Seq(Message) /\ PropertyUpdate(Current) \in Message
  BY <1>2, MessageTypes DEF IInv, TypeOK
<1>4. /\ signals \in Seq(Message) /\ DOMAIN signals = {1}
      /\ signals[1].kind = "propertyUpdate" /\ signals[1].properties = Current
  BY <1>3 DEF PropertyUpdate
<1>5. wire' = wire \o signals
  BY <1>1, <1>3
<1> HIDE DEF signals
<1>6. Behind(wire', wire, signals)
  BY <1>3, <1>4, <1>5, Sending
<1>7. wire' \in Seq(Message)
  BY <1>1, <1>3
<1>8. TypeOK'
  <2>1. {sent', cache'} \cup past' \subseteq Properties
    BY <1>1, <1>2 DEF IInv, TypeOK
  <2> QED
    BY <1>1, <1>7, <2>1 DEF IInv, TypeOK
<1>9. Without(signals, OfAccounts) /\ Without(signals, OfChain) /\ Without(signals, OfConnection)
  BY <1>4 DEF Without, OfAccounts, OfChain, OfConnection
<1>10. AccountsAreTold'
  BY <1>1, <1>3, <1>4, <1>5, <1>9, SendingOthers DEF IInv, AccountsAreTold
<1>11. ChainIsTold'
  BY <1>1, <1>3, <1>4, <1>5, <1>9, SendingOthers DEF IInv, ChainIsTold
<1>12. ConnectionIsTold'
  BY <1>1, <1>3, <1>4, <1>5, <1>9, SendingOthers DEF IInv, ConnectionIsTold
<1>13. ConnectsAlternate'
  <2>1. /\ \A i \in DOMAIN wire : i \in DOMAIN wire' /\ wire'[i] = wire[i]
        /\ \A i \in DOMAIN wire' : wire'[i].kind = "connect" => i \in DOMAIN wire
    BY <1>4, <1>6 DEF Behind
  <2>2. ASSUME NEW i \in DOMAIN wire', wire'[i].kind = "connect",
               NEW j \in DOMAIN wire', j < i, wire'[j].kind = "connect"
        PROVE  \E k \in DOMAIN wire' : j < k /\ k < i /\ wire'[k].kind = "disconnect"
    <3>1. PICK k \in DOMAIN wire : j < k /\ k < i /\ wire[k].kind = "disconnect"
      BY <2>1, <2>2 DEF IInv, ConnectsAlternate
    <3> QED
      BY <2>1, <3>1
  <2>3. ASSUME NEW i \in DOMAIN wire', wire'[i].kind = "connect",
               \A j \in DOMAIN wire' : j < i => wire'[j].kind \notin OfConnection
        PROVE  told'.connection # "connect"
    <3>1. \A j \in DOMAIN wire : j < i => wire[j].kind \notin OfConnection
      BY <2>1, <2>3
    <3> QED
      BY <1>1, <2>1, <2>3, <3>1 DEF IInv, ConnectsAlternate
  <2> QED
    BY <2>2, <2>3 DEF ConnectsAlternate
<1>14. PropertiesArePast'
  <2>1. ASSUME NEW i \in DOMAIN wire', wire'[i].kind = "propertyUpdate"
        PROVE  wire'[i].properties \in past'
    <3>1. CASE i \in DOMAIN wire
      BY <1>1, <1>6, <2>1, <3>1 DEF IInv, PropertiesArePast, Behind
    <3>2. CASE i \notin DOMAIN wire
      BY <1>1, <1>4, <1>6, <2>1, <3>2 DEF IInv, PropertiesArePast, Behind
    <3> QED
      BY <3>1, <3>2
  <2> QED
    BY <1>1, <1>2, <2>1 DEF IInv, PropertiesArePast, CopyIsOneState
<1> QED
  BY <1>1, <1>8, <1>10, <1>11, <1>12, <1>13, <1>14 DEF IInv

\* What a message does to what the page has been told.
LEMMA ReceiveTells ==
  ASSUME IInv, Receive
  PROVE  /\ wire # <<>> /\ wire \in Seq(Message) /\ wire' = Tail(wire) /\ Head(wire) \in Message
         /\ told'.accounts = IF Head(wire).kind = "accountsChanged"
                             THEN Head(wire).accounts ELSE told.accounts
         /\ told'.chain = IF Head(wire).kind = "chainChanged" THEN Head(wire).chain ELSE told.chain
         /\ told'.connection = IF Head(wire).kind \in {"connect", "disconnect"}
                               THEN Head(wire).kind ELSE told.connection
         /\ UNCHANGED <<dappChainId, accounts, connected, initialConnectionDone, silent>>
<1>1. /\ wire # <<>> /\ wire' = Tail(wire) /\ wire \in Seq(Message)
      /\ UNCHANGED <<dappChainId, accounts, connected, initialConnectionDone, silent>>
  BY DEF Receive, IInv, TypeOK, manager
<1>2. Head(wire) \in Message
  BY <1>1, Receiving
<1>3. told \in [connection : {"none", "connect", "disconnect"},
                accounts : Accounts \cup {Untold}, chain : Chain \cup {Untold}]
  BY DEF IInv, TypeOK
<1>4. CASE HandlePropertyUpdate(Head(wire))
  BY <1>1, <1>2, <1>4 DEF HandlePropertyUpdate
<1>5. CASE HandleProviderStateChanged(Head(wire))
  BY <1>1, <1>2, <1>5 DEF HandleProviderStateChanged
<1>6. CASE HandleEvent(Head(wire))
  BY <1>1, <1>2, <1>3, <1>6 DEF HandleEvent
<1> QED
  BY <1>1, <1>4, <1>5, <1>6 DEF Receive

LEMMA ReceiveIsTyped ==
  ASSUME IInv, Receive
  PROVE  TypeOK'
<1>1. TypeOK
  BY DEF IInv
<1>2. /\ wire # <<>> /\ wire' = Tail(wire) /\ wire \in Seq(Message)
      /\ UNCHANGED <<dappChainId, accounts, connected, initialConnectionDone>>
      /\ UNCHANGED <<sent, past, silent, reports>>
  BY <1>1 DEF Receive, TypeOK, manager
<1>3. Head(wire) \in Message /\ wire' \in Seq(Message)
  BY <1>2, Receiving
<1>4. CASE HandlePropertyUpdate(Head(wire))
  <2>1. cache' \in Properties /\ idle' = TRUE /\ UNCHANGED <<copy, told>>
    BY <1>3, <1>4, MessageFacts DEF HandlePropertyUpdate
  <2> QED
    BY <1>1, <1>2, <1>3, <2>1 DEF TypeOK
<1>5. CASE HandleProviderStateChanged(Head(wire))
  <2>1. copy' \in Copies /\ UNCHANGED <<cache, idle, told>>
    BY <1>1, <1>5 DEF HandleProviderStateChanged, CopyProperties, TypeOK, Properties, Copies
  <2> QED
    BY <1>1, <1>2, <1>3, <2>1 DEF TypeOK
<1>6. CASE HandleEvent(Head(wire))
  <2>1. told' \in [connection : {"none", "connect", "disconnect"},
                   accounts : Accounts \cup {Untold}, chain : Chain \cup {Untold}]
    <3>1. told \in [connection : {"none", "connect", "disconnect"},
                    accounts : Accounts \cup {Untold}, chain : Chain \cup {Untold}]
      BY <1>1 DEF TypeOK
    <3>2. CASE Head(wire).kind = "chainChanged"
      BY <1>3, <1>6, <3>1, <3>2, MessageFacts DEF HandleEvent
    <3>3. CASE Head(wire).kind = "accountsChanged"
      BY <1>3, <1>6, <3>1, <3>3, MessageFacts DEF HandleEvent
    <3>4. CASE Head(wire).kind \in {"connect", "disconnect"}
      BY <1>3, <1>6, <3>1, <3>4 DEF HandleEvent
    <3>5. CASE Head(wire).kind \notin {"chainChanged", "accountsChanged", "connect", "disconnect"}
      BY <1>6, <3>1, <3>5 DEF HandleEvent
    <3> QED
      BY <3>2, <3>3, <3>4, <3>5
  <2>2. UNCHANGED <<cache, idle, copy>>
    BY <1>6 DEF HandleEvent
  <2> QED
    BY <1>1, <1>2, <1>3, <2>1, <2>2 DEF TypeOK
<1> QED
  BY <1>4, <1>5, <1>6 DEF Receive

\* The events that are left, with the one that was received, say what they said.
LEMMA ReceiveKeepsTold ==
  ASSUME IInv, Receive
  PROVE  AccountsAreTold' /\ ChainIsTold' /\ ConnectionIsTold'
<1> DEFINE first == Head(wire)
<1>1. /\ wire # <<>> /\ wire \in Seq(Message) /\ wire' = Tail(wire)
      /\ UNCHANGED <<dappChainId, accounts, connected, initialConnectionDone, silent>>
  BY ReceiveTells
<1>2. first = wire[1] /\ 1 \in DOMAIN wire
  BY <1>1, Receiving
<1>3. AccountsAreTold'
  <2>1. told'.accounts = IF first.kind = "accountsChanged" THEN first.accounts ELSE told.accounts
    BY ReceiveTells
  <2>2. /\ \A i \in DOMAIN wire : IsLast(wire, OfAccounts, i) => wire[i].accounts = accounts
        /\ Without(wire, OfAccounts) => told.accounts \in {Untold, accounts}
    BY DEF IInv, AccountsAreTold
  <2>3. /\ \A i \in DOMAIN wire' : IsLast(wire', OfAccounts, i) =>
             /\ i + 1 \in DOMAIN wire /\ IsLast(wire, OfAccounts, i + 1)
             /\ wire'[i] = wire[i + 1]
        /\ Without(wire', OfAccounts) /\ first.kind \notin OfAccounts => Without(wire, OfAccounts)
        /\ Without(wire', OfAccounts) /\ first.kind \in OfAccounts => IsLast(wire, OfAccounts, 1)
    BY <1>1, ReceivingFirst
  <2>4. \A i \in DOMAIN wire' : IsLast(wire', OfAccounts, i) => wire'[i].accounts = accounts
    BY <2>2, <2>3
  <2>5. Without(wire', OfAccounts) => told'.accounts \in {Untold, accounts}
    <3>1. first.kind \in OfAccounts <=> first.kind = "accountsChanged"
      BY DEF OfAccounts
    <3> HIDE DEF first
    <3> QED
      BY <1>2, <2>1, <2>2, <2>3, <3>1
  <2> QED
    BY <1>1, <2>4, <2>5 DEF AccountsAreTold
<1>4. ChainIsTold'
  <2>1. told'.chain = IF first.kind = "chainChanged" THEN first.chain ELSE told.chain
    BY ReceiveTells
  <2>2. \/ silent
        \/ /\ \A i \in DOMAIN wire : IsLast(wire, OfChain, i) => wire[i].chain = dappChainId
           /\ Without(wire, OfChain) => told.chain \in {Untold, dappChainId}
    BY DEF IInv, ChainIsTold
  <2>3. /\ \A i \in DOMAIN wire' : IsLast(wire', OfChain, i) =>
             /\ i + 1 \in DOMAIN wire /\ IsLast(wire, OfChain, i + 1)
             /\ wire'[i] = wire[i + 1]
        /\ Without(wire', OfChain) /\ first.kind \notin OfChain => Without(wire, OfChain)
        /\ Without(wire', OfChain) /\ first.kind \in OfChain => IsLast(wire, OfChain, 1)
    BY <1>1, ReceivingFirst
  <2>4. CASE silent
    BY <1>1, <2>4 DEF ChainIsTold
  <2>5. CASE ~silent
    <3>1. \A i \in DOMAIN wire' : IsLast(wire', OfChain, i) => wire'[i].chain = dappChainId
      BY <2>2, <2>3, <2>5
    <3>2. first.kind \in OfChain <=> first.kind = "chainChanged"
      BY DEF OfChain
    <3>3. Without(wire', OfChain) => told'.chain \in {Untold, dappChainId}
      <4> HIDE DEF first
      <4> QED
        BY <1>2, <2>1, <2>2, <2>3, <2>5, <3>2
    <3> QED
      BY <1>1, <3>1, <3>3 DEF ChainIsTold
  <2> QED
    BY <2>4, <2>5
<1>5. ConnectionIsTold'
  <2>1. told'.connection = IF first.kind \in {"connect", "disconnect"}
                           THEN first.kind ELSE told.connection
    BY ReceiveTells
  <2>2. /\ \A i \in DOMAIN wire :
             IsLast(wire, OfConnection, i) => (wire[i].kind = "connect" <=> connected)
        /\ Without(wire, OfConnection) =>
             (told.connection # "none" => (told.connection = "connect" <=> connected))
    BY DEF IInv, ConnectionIsTold
  <2>3. /\ \A i \in DOMAIN wire' : IsLast(wire', OfConnection, i) =>
             /\ i + 1 \in DOMAIN wire /\ IsLast(wire, OfConnection, i + 1)
             /\ wire'[i] = wire[i + 1]
        /\ Without(wire', OfConnection) /\ first.kind \notin OfConnection =>
             Without(wire, OfConnection)
        /\ Without(wire', OfConnection) /\ first.kind \in OfConnection =>
             IsLast(wire, OfConnection, 1)
    BY <1>1, ReceivingFirst
  <2>4. \A i \in DOMAIN wire' :
          IsLast(wire', OfConnection, i) => (wire'[i].kind = "connect" <=> connected)
    BY <2>2, <2>3
  <2>5. Without(wire', OfConnection) =>
          (told'.connection # "none" => (told'.connection = "connect" <=> connected))
    <3>1. first.kind \in OfConnection <=> first.kind \in {"connect", "disconnect"}
      BY DEF OfConnection
    <3> HIDE DEF first
    <3> QED
      BY <1>2, <2>1, <2>2, <2>3, <3>1
  <2> QED
    BY <1>1, <2>4, <2>5 DEF ConnectionIsTold
<1> QED
  BY <1>3, <1>4, <1>5

LEMMA ReceiveKeepsAlternation ==
  ASSUME IInv, Receive
  PROVE  ConnectsAlternate'
<1>1. /\ wire # <<>> /\ wire \in Seq(Message) /\ wire' = Tail(wire)
      /\ told'.connection = IF Head(wire).kind \in {"connect", "disconnect"}
                            THEN Head(wire).kind ELSE told.connection
  BY ReceiveTells
<1>2. /\ Head(wire) = wire[1] /\ 1 \in DOMAIN wire
      /\ \A i \in DOMAIN wire' :
           i \in Nat \ {0} /\ i + 1 \in DOMAIN wire /\ wire'[i] = wire[i + 1]
      /\ \A i \in DOMAIN wire : i \in Nat /\ (i # 1 =>
           i - 1 \in DOMAIN wire' /\ wire'[i - 1] = wire[i])
  BY <1>1, Receiving
<1>3. ASSUME NEW i \in DOMAIN wire', wire'[i].kind = "connect",
             NEW j \in DOMAIN wire', j < i, wire'[j].kind = "connect"
      PROVE  \E k \in DOMAIN wire' : j < k /\ k < i /\ wire'[k].kind = "disconnect"
  <2>1. /\ i + 1 \in DOMAIN wire /\ wire[i + 1].kind = "connect"
        /\ j + 1 \in DOMAIN wire /\ wire[j + 1].kind = "connect" /\ j + 1 < i + 1
    BY <1>2, <1>3
  <2>2. PICK k \in DOMAIN wire : j + 1 < k /\ k < i + 1 /\ wire[k].kind = "disconnect"
    BY <2>1 DEF IInv, ConnectsAlternate
  <2>3. k - 1 \in DOMAIN wire' /\ wire'[k - 1] = wire[k] /\ j < k - 1 /\ k - 1 < i
    BY <1>2, <2>2
  <2> QED
    BY <2>2, <2>3
<1>4. ASSUME NEW i \in DOMAIN wire', wire'[i].kind = "connect",
             \A j \in DOMAIN wire' : j < i => wire'[j].kind \notin OfConnection
      PROVE  told'.connection # "connect"
  <2>1. i + 1 \in DOMAIN wire /\ wire[i + 1].kind = "connect" /\ 1 < i + 1
    BY <1>2, <1>4
  <2>2. ASSUME NEW j \in DOMAIN wire, j < i + 1, j # 1
        PROVE  wire[j].kind \notin OfConnection
    <3>1. j - 1 \in DOMAIN wire' /\ wire'[j - 1] = wire[j] /\ j - 1 < i
      BY <1>2, <2>2
    <3> QED
      BY <1>4, <3>1
  <2>3. CASE wire[1].kind = "connect"
    <3>1. PICK k \in DOMAIN wire : 1 < k /\ k < i + 1 /\ wire[k].kind = "disconnect"
      BY <1>2, <2>1, <2>3 DEF IInv, ConnectsAlternate
    <3> QED
      BY <1>2, <2>2, <3>1 DEF OfConnection
  <2>4. CASE wire[1].kind = "disconnect"
    BY <1>1, <1>2, <2>4
  <2>5. CASE wire[1].kind \notin OfConnection
    <3>1. \A j \in DOMAIN wire : j < i + 1 => wire[j].kind \notin OfConnection
      BY <2>2, <2>5
    <3>2. told.connection # "connect"
      BY <2>1, <3>1 DEF IInv, ConnectsAlternate
    <3> QED
      BY <1>1, <1>2, <2>5, <3>2 DEF OfConnection
  <2> QED
    BY <2>3, <2>4, <2>5 DEF OfConnection
<1> QED
  BY <1>3, <1>4 DEF ConnectsAlternate

LEMMA ReceiveKeepsProperties ==
  ASSUME IInv, Receive
  PROVE  PropertiesArePast'
<1>1. /\ wire # <<>> /\ wire' = Tail(wire) /\ wire \in Seq(Message)
      /\ UNCHANGED <<dappChainId, accounts, connected>> /\ UNCHANGED <<sent, past>>
  BY DEF Receive, IInv, TypeOK, manager
<1>2. /\ Head(wire) = wire[1] /\ 1 \in DOMAIN wire /\ Head(wire) \in Message
      /\ \A i \in DOMAIN wire' : i + 1 \in DOMAIN wire /\ wire'[i] = wire[i + 1]
  BY <1>1, Receiving
<1>3. /\ {Current, sent, cache} \subseteq past
      /\ \A i \in DOMAIN wire : wire[i].kind = "propertyUpdate" => wire[i].properties \in past
      /\ CopyIsOneState
  BY DEF IInv, PropertiesArePast
<1>4. Current' = Current
  BY <1>1 DEF Current
<1>5. cache' \in past /\ (copy' = Null \/ copy' \in past)
  <2>1. CASE HandlePropertyUpdate(Head(wire))
    BY <1>2, <1>3, <2>1 DEF HandlePropertyUpdate, CopyIsOneState
  <2>2. CASE HandleProviderStateChanged(Head(wire))
    <3>1. CopyProperties = cache
      BY DEF CopyProperties, IInv, TypeOK, Properties
    <3> QED
      BY <1>3, <2>2, <3>1 DEF HandleProviderStateChanged
  <2>3. CASE HandleEvent(Head(wire))
    BY <1>3, <2>3 DEF HandleEvent, CopyIsOneState
  <2> QED
    BY <2>1, <2>2, <2>3 DEF Receive
<1>6. \A i \in DOMAIN wire' : wire'[i].kind = "propertyUpdate" => wire'[i].properties \in past
  BY <1>2, <1>3
<1> QED
  BY <1>1, <1>3, <1>4, <1>5, <1>6 DEF PropertiesArePast, CopyIsOneState

LEMMA ReceiveKeeps ==
  ASSUME IInv, Receive
  PROVE  IInv'
<1>1. initialConnectionDone' = connected'
  BY ReceiveTells DEF IInv
<1> QED
  BY <1>1, ReceiveIsTyped, ReceiveKeepsTold, ReceiveKeepsAlternation, ReceiveKeepsProperties
  DEF IInv
----------------------------------------------------------------------------
LEMMA InitHolds ==
  ASSUME Init
  PROVE  IInv
<1>1. /\ dappChainId = Mainnet /\ accounts = {} /\ connected = FALSE
      /\ initialConnectionDone = FALSE /\ sent = Current /\ idle = TRUE /\ wire = <<>>
      /\ cache = Current /\ copy = Null /\ told = Nothing /\ past = {Current}
      /\ silent = FALSE /\ reports = 0
  BY DEF Init
<1>2. Current \in Properties
  BY <1>1 DEF Current, Properties, Accounts
<1>3. copy \in Copies
  BY <1>1 DEF Null, Copies, Accounts
<1>4. told \in [connection : {"none", "connect", "disconnect"},
                accounts : Accounts \cup {Untold}, chain : Chain \cup {Untold}]
  BY <1>1 DEF Nothing
<1>5. wire \in Seq(Message) /\ DOMAIN wire = {}
  BY <1>1
<1>6. accounts \in Accounts /\ reports \in 0..MaxReports
  BY <1>1 DEF Accounts
<1>7. {sent, cache} \cup past \subseteq Properties
  BY <1>1, <1>2
<1>8. TypeOK
  BY <1>1, <1>3, <1>4, <1>5, <1>6, <1>7 DEF TypeOK
<1>9. told.accounts = Untold /\ told.chain = Untold /\ told.connection = "none"
  BY <1>1 DEF Nothing
<1>10. AccountsAreTold /\ ChainIsTold /\ ConnectionIsTold /\ ConnectsAlternate
  BY <1>5, <1>9 DEF AccountsAreTold, ChainIsTold, ConnectionIsTold, ConnectsAlternate
<1>11. PropertiesArePast
  BY <1>1, <1>5 DEF PropertiesArePast, CopyIsOneState
<1> QED
  BY <1>1, <1>8, <1>10, <1>11 DEF IInv

LEMMA Step ==
  ASSUME IInv, [Next]_vars
  PROVE  IInv'
<1>1. CASE UNCHANGED vars
  BY <1>1 DEF vars, manager, IInv, TypeOK, AccountsAreTold, ChainIsTold, ConnectionIsTold,
     ConnectsAlternate, PropertiesArePast, CopyIsOneState, IsLast, Without, Current
<1>2. CASE Next
  BY <1>2, OnConnectedKeeps, ClearStateKeeps, OnChainIdSwitchedKeeps, OnAccountChangedKeeps,
     UpdateDAppUrlKeeps, NavigateKeeps, SendPropertiesKeeps, ReceiveKeeps DEF Next
<1> QED
  BY <1>1, <1>2
----------------------------------------------------------------------------
(* The theorems *)

\* The strengthening holds in every behaviour: the events on the wire, with
\* what was told before, lead the page to the state of the manager.
THEOREM Invariance == Spec => []IInv
BY InitHolds, Step, PTL DEF Spec

\* The state has its types.
THEOREM TypeCorrect == Spec => []TypeOK
BY Invariance, PTL DEF IInv

\* A page that has received every event knows the accounts, the connection
\* and, unless it was reset silently, the chain.
THEOREM EventsAreRight == Spec => []EventsTellState
<1>1. ASSUME IInv
      PROVE  EventsTellState
  <2>1. wire = <<>> => Without(wire, OfAccounts) /\ Without(wire, OfChain)
                         /\ Without(wire, OfConnection)
    BY DEF Without
  <2> QED
    BY <1>1, <2>1 DEF IInv, AccountsAreTold, ChainIsTold, ConnectionIsTold, EventsTellState
<1> QED
  BY <1>1, Invariance, PTL

\* The properties of the wrapper all come from one state of the manager.
THEOREM CopyIsWhole == Spec => []CopyIsOneState
<1>1. IInv => CopyIsOneState
  BY DEF IInv, PropertiesArePast
<1> QED
  BY <1>1, Invariance, PTL

\* A connect event never follows a connect event.
THEOREM ConnectIsToldOnce == Spec => ConnectNotRepeated
<1>1. ASSUME IInv, wire # <<>>, Head(wire) = Connect
      PROVE  told.connection # "connect"
  <2>1. /\ wire[1] = Connect /\ 1 \in DOMAIN wire
        /\ \A i \in DOMAIN wire : i \in Nat \ {0}
    BY <1>1, Receiving DEF IInv, TypeOK
  <2>2. wire[1].kind = "connect" /\ \A j \in DOMAIN wire : ~(j < 1)
    BY <2>1 DEF Connect
  <2> QED
    BY <1>1, <2>1, <2>2 DEF IInv, ConnectsAlternate
<1>2. IInv => [wire # <<>> /\ Head(wire) = Connect /\ wire' = Tail(wire)
                 => told.connection # "connect"]_vars
  BY <1>1
<1> QED
  BY <1>2, Invariance, PTL DEF ConnectNotRepeated
=============================================================================
