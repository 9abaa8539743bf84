-------------------------- MODULE MCDeliveryDeadline --------------------------
(***************************************************************************)
(* Two requests, and servers whose clocks may be one tick apart.           *)
(***************************************************************************)
EXTENDS DeliveryDeadline, TLC

Symmetry == Permutations(Extension)
=============================================================================
