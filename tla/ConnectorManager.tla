-------------------------- MODULE ConnectorManager --------------------------
(***************************************************************************)
(* The state of the Ethereum provider: the manager, which follows what the *)
(* connector reports about the dapp on screen; the adapter, whose          *)
(* properties are bound to the state of the manager; the web channel to    *)
(* the document, on which a signal is sent at once and changed properties  *)
(* are collected and sent later; and the wrapper in the document, which    *)
(* copies the properties when it is told to.                               *)
(*                                                                         *)
(* There is one document at a time.  Signals about other dapps, which      *)
(* shouldProcessSignal drops, are not steps of the model.                  *)
(***************************************************************************)
EXTENDS Naturals, FiniteSets, Sequences

CONSTANTS
  Account,     \* accounts that can be shared with a dapp
  Chain,       \* chain ids
  Mainnet,     \* the chain id 1
  Unset,       \* a property of the wrapper that is null
  Untold,      \* what a document has not been told yet
  MaxReports   \* bound: reports of the connector and changes of the address

\* The list of accounts has at most one element.
Accounts == {{}} \cup {{account} : account \in Account}

ASSUME ManagerAssumption ==
  /\ Mainnet \in Chain
  /\ Unset \notin Chain
  /\ Untold \notin Chain \cup Accounts
  /\ MaxReports \in Nat

\* The properties of the adapter, and the values the wrapper can have for them.
Properties == [chainId : Chain, accounts : Accounts, connected : BOOLEAN]

Copies == [chainId : Chain \cup {Unset}, accounts : Accounts, connected : BOOLEAN]

ProviderStateChanged == [kind |-> "providerStateChanged"]

Connect == [kind |-> "connect"]

Disconnect == [kind |-> "disconnect"]

ChainChanged(chain) == [kind |-> "chainChanged", chain |-> chain]

AccountsChanged(list) == [kind |-> "accountsChanged", accounts |-> list]

PropertyUpdate(properties) == [kind |-> "propertyUpdate", properties |-> properties]

Message ==
  {ProviderStateChanged, Connect, Disconnect}
    \cup {ChainChanged(chain) : chain \in Chain}
    \cup {AccountsChanged(list) : list \in Accounts}
    \cup {PropertyUpdate(properties) : properties \in Properties}

VARIABLES
  dappChainId, accounts, connected, initialConnectionDone, \* the manager
  sent,      \* the properties the document was sent last
  idle,      \* whether the document has said that it is idle
  wire,      \* messages on their way to the document
  cache,     \* the property cache of the document
  copy,      \* the properties of the wrapper
  told,      \* what the events said last: connection, accounts and chain
  past,      \* the states the manager has been in since the document is there
  silent,    \* whether the chain was reset since it was last announced
  reports    \* reports so far

manager == <<dappChainId, accounts, connected, initialConnectionDone>>

vars == <<manager, sent, idle, wire, cache, copy, told, past, silent, reports>>

TypeOK ==
  /\ dappChainId \in Chain
  /\ accounts \in Accounts
  /\ {connected, initialConnectionDone, idle, silent} \subseteq BOOLEAN
  /\ {sent, cache} \cup past \subseteq Properties
  /\ wire \in Seq(Message)
  /\ copy \in Copies
  /\ told \in [connection : {"none", "connect", "disconnect"},
               accounts : Accounts \cup {Untold}, chain : Chain \cup {Untold}]
  /\ reports \in 0..MaxReports

\* The bindings of the adapter.
Current == [chainId |-> dappChainId, accounts |-> accounts, connected |-> connected]

Null == [chainId |-> Unset, accounts |-> {}, connected |-> FALSE]

Nothing == [connection |-> "none", accounts |-> Untold, chain |-> Untold]

Init ==
  /\ dappChainId = Mainnet
  /\ accounts = {}
  /\ connected = FALSE
  /\ initialConnectionDone = FALSE
  /\ sent = Current
  /\ idle = TRUE
  /\ wire = <<>>
  /\ cache = Current
  /\ copy = Null
  /\ told = Nothing
  /\ past = {Current}
  /\ silent = FALSE
  /\ reports = 0
----------------------------------------------------------------------------
(* The manager.  The operators give the signals an operation emits and what *)
(* it does to the state.                                                    *)

\* updateAccounts: the lists are compared as sets.
UpdateAccountsSignals(list) ==
  IF list = accounts THEN <<>> ELSE <<ProviderStateChanged, AccountsChanged(list)>>

\* The part of onConnected and onChainIdSwitched that sets the chain.
SetChainSignals(chain) ==
  IF chain = dappChainId THEN <<>> ELSE <<ProviderStateChanged, ChainChanged(chain)>>

\* A variant: every connection is announced, also one that is known.
AlwaysConnectSignals == <<ProviderStateChanged, Connect>>

\* setConnected(true)
SetConnectedSignals ==
  IF connected THEN <<>>
  ELSE IF initialConnectionDone THEN <<ProviderStateChanged>>
  ELSE <<ProviderStateChanged, Connect>>

\* The end of a handler: the signals have been sent.
Emit(signals) ==
  /\ reports < MaxReports
  /\ reports' = reports + 1
  /\ wire' = wire \o signals
  /\ past' = past \cup {Current'}
  /\ UNCHANGED <<sent, idle, cache, copy, told>>

\* onConnected; a report without a chain keeps the chain.
OnConnected(list, chain) ==
  /\ accounts' = list
  /\ dappChainId' = chain
  /\ connected' = TRUE
  /\ initialConnectionDone' = TRUE
  /\ silent' = (silent /\ chain = dappChainId)
  /\ Emit(UpdateAccountsSignals(list) \o SetChainSignals(chain) \o SetConnectedSignals)

\* A variant: the accounts become null instead of an empty list.
ClearStateToNull ==
  /\ accounts # {} \/ connected
  /\ accounts' = Unset
  /\ connected' = FALSE
  /\ initialConnectionDone' = FALSE
  /\ UNCHANGED <<dappChainId, silent>>
  /\ Emit(<<ProviderStateChanged, Disconnect>>)

\* A variant: the disconnect is announced but not that the accounts are gone.
ClearStateQuietly ==
  /\ accounts # {} \/ connected
  /\ accounts' = {}
  /\ connected' = FALSE
  /\ initialConnectionDone' = FALSE
  /\ UNCHANGED <<dappChainId, silent>>
  /\ Emit(<<ProviderStateChanged, Disconnect>>)

\* clearState, on onDisconnected or by disconnect.
ClearState ==
  /\ accounts # {} \/ connected
  /\ accounts' = {}
  /\ connected' = FALSE
  /\ initialConnectionDone' = FALSE
  /\ UNCHANGED <<dappChainId, silent>>
  /\ Emit(<<ProviderStateChanged, Disconnect, AccountsChanged({})>>)

OnChainIdSwitched(chain) ==
  /\ chain # dappChainId
  /\ dappChainId' = chain
  /\ silent' = FALSE
  /\ UNCHANGED <<accounts, connected, initialConnectionDone>>
  /\ Emit(SetChainSignals(chain))

OnAccountChanged(list) ==
  /\ list # accounts
  /\ accounts' = list
  /\ UNCHANGED <<dappChainId, connected, initialConnectionDone, silent>>
  /\ Emit(UpdateAccountsSignals(list))

\* updateDAppUrl when the address changes within the document: the chain is
\* reset, and nobody is told.
UpdateDAppUrl ==
  /\ dappChainId' = Mainnet
  /\ silent' = (silent \/ dappChainId # Mainnet)
  /\ UNCHANGED <<accounts, connected, initialConnectionDone>>
  /\ Emit(<<>>)

\* updateDAppUrl when another document is loaded, which reads the properties
\* when its channel is set up.
Navigate ==
  /\ reports < MaxReports
  /\ reports' = reports + 1
  /\ dappChainId' = Mainnet
  /\ UNCHANGED <<accounts, connected, initialConnectionDone>>
  /\ sent' = Current'
  /\ cache' = Current'
  /\ past' = {Current'}
  /\ idle' = TRUE
  /\ wire' = <<>>
  /\ copy' = Null
  /\ told' = Nothing
  /\ silent' = FALSE
----------------------------------------------------------------------------
(* The web channel and the document *)

\* The properties that have changed are sent, to a document that is idle, some
\* time after the signals of the handler that changed them.
SendProperties ==
  /\ idle
  /\ sent # Current
  /\ wire' = Append(wire, PropertyUpdate(Current))
  /\ sent' = Current
  /\ idle' = FALSE
  /\ UNCHANGED <<manager, cache, copy, told, past, silent, reports>>

\* handlePropertyUpdate: the cache is updated and the document says it is idle.
HandlePropertyUpdate(message) ==
  /\ message.kind = "propertyUpdate"
  /\ cache' = message.properties
  /\ idle' = TRUE
  /\ UNCHANGED <<copy, told>>

\* A variant: an address is never taken back.
CopyKeepingAddress ==
  [chainId |-> cache.chainId,
   accounts |-> IF cache.accounts = {} THEN copy.accounts ELSE cache.accounts,
   connected |-> cache.connected]

\* What the wrapper reads from the cache: selectedAddress is set or null.
CopyProperties ==
  [chainId |-> cache.chainId, accounts |-> cache.accounts, connected |-> cache.connected]

\* The handler of providerStateChanged.
HandleProviderStateChanged(message) ==
  /\ message.kind = "providerStateChanged"
  /\ copy' = CopyProperties
  /\ UNCHANGED <<cache, idle, told>>

\* The handlers that pass an event on to the listeners of the page.
HandleEvent(message) ==
  /\ told' = CASE message.kind = "chainChanged" -> [told EXCEPT !.chain = message.chain]
               [] message.kind = "accountsChanged" -> [told EXCEPT !.accounts = message.accounts]
               [] message.kind \in {"connect", "disconnect"} ->
                    [told EXCEPT !.connection = message.kind]
               [] OTHER -> told
  /\ message.kind \notin {"propertyUpdate", "providerStateChanged"}
  /\ UNCHANGED <<cache, idle, copy>>

Receive ==
  /\ wire # <<>>
  /\ wire' = Tail(wire)
  /\ \/ HandlePropertyUpdate(Head(wire))
     \/ HandleProviderStateChanged(Head(wire))
     \/ HandleEvent(Head(wire))
  /\ UNCHANGED <<manager, sent, past, silent, reports>>
----------------------------------------------------------------------------
Next ==
  \/ \E list \in Accounts, chain \in Chain : OnConnected(list, chain)
  \/ ClearState
  \/ \E chain \in Chain : OnChainIdSwitched(chain)
  \/ \E list \in Accounts : OnAccountChanged(list)
  \/ UpdateDAppUrl
  \/ Navigate
  \/ SendProperties
  \/ Receive

Spec == Init /\ [][Next]_vars
----------------------------------------------------------------------------
(* Properties *)

(***************************************************************************)
(* When nothing is on its way, the last events of each kind the page has   *)
(* heard describe the state the manager is in, whatever was reported and   *)
(* in whatever order: a page that goes by the events is never wrong about  *)
(* the accounts and the connection, and about the chain only when a change *)
(* of the address has reset it since it was announced.                     *)
(***************************************************************************)
EventsTellState ==
  wire = <<>> =>
    /\ told.accounts \in {Untold, accounts}
    /\ told.connection # "none" => (told.connection = "connect" <=> connected)
    /\ silent \/ told.chain \in {Untold, dappChainId}

(***************************************************************************)
(* The wrapper has all its properties from one state the manager was in,   *)
(* never the chain of one and the accounts of another, although they are   *)
(* copied from a cache that is updated apart from the signals.             *)
(***************************************************************************)
CopyIsOneState == copy = Null \/ copy \in past

(***************************************************************************)
(* A page is told of a connection once: another connect event comes only   *)
(* after a disconnect event.                                               *)
(***************************************************************************)
ConnectNotRepeated ==
  [][wire # <<>> /\ Head(wire) = Connect /\ wire' = Tail(wire)
       => told.connection # "connect"]_vars

(***************************************************************************)
(* "Provider state changed - update all properties at once"                *)
(* (ethereum_wrapper.js:149), "Notify to re-read all properties"           *)
(* (ConnectorManager.qml:23): when a page has heard of a change and        *)
(* nothing is on its way any more, the wrapper has the state of the        *)
(* manager.                                                                *)
(***************************************************************************)
PropertiesReread ==
  wire = <<>> /\ sent = Current /\ copy # Null => copy = Current
=============================================================================
