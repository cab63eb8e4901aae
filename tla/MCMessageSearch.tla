-------------------------- MODULE MCMessageSearch --------------------------
(* Instances of MessageSearch for TLC. *)
EXTENDS MessageSearch

CONSTANTS unknown, foreign

OneUnknown == {unknown}

OneForeign == {foreign}
=============================================================================
