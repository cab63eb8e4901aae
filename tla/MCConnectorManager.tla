------------------------- MODULE MCConnectorManager -------------------------
(* Instances of ConnectorManager for TLC. *)
EXTENDS ConnectorManager

CONSTANTS a1, a2, chain2

TwoAccounts == {a1, a2}

TwoChains == {Mainnet, chain2}
=============================================================================
