-------------------------- MODULE MCMessageLoading --------------------------
(* Instances of MessageLoading for TLC. *)
EXTENDS MessageLoading

CONSTANT c1

OneChat == {c1}

OneOrTwo == {1, 2}
=============================================================================
