---------------------------- MODULE MCExternalRefund ----------------------------
(***************************************************************************)
(* ExternalRefund with two deals that one charge funded, or only one of    *)
(* them did, and two calls at a time.                                      *)
(***************************************************************************)
EXTENDS ExternalRefund
=============================================================================
