------------------------ MODULE MCProviderInjection ------------------------
(* Instances of ProviderInjection for TLC: a page that asks once. *)
EXTENDS ProviderInjection

CONSTANT asked

OneDiscovery == {asked}
=============================================================================
