---------------------------- MODULE MCCampaignOffers ----------------------------
(***************************************************************************)
(* One campaign with two creators, one of whose offers may fail to expire. *)
(***************************************************************************)
EXTENDS CampaignOffers
=============================================================================
