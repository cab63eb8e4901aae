------------------------- MODULE MCEthereumProvider -------------------------
(* Instances of EthereumProvider for TLC: two loads of pages. *)
EXTENDS EthereumProvider

CONSTANTS d1, d2

TwoDocuments == {d1, d2}
=============================================================================
