------------------------------- MODULE BlobStore -------------------------------
(***************************************************************************)
(* The store the images are kept in, as its callers use it: a copy gets a  *)
(* URL of its own (addRandomSuffix), and a URL that was deleted is never   *)
(* handed out again.                                                       *)
(***************************************************************************)
CONSTANTS
  Blob,     \* URLs the store may hand out
  NoBlob    \* null, or a URL that is not the store's

ASSUME NoBlobIsNoBlob == NoBlob \notin Blob

VARIABLES
  store,    \* images in the store
  used      \* URLs handed out so far

\* put
Put(b) ==
  /\ b \in Blob \ used
  /\ store' = store \cup {b}
  /\ used' = used \cup {b}

\* del
Del(b) == store' = store \ {b} /\ UNCHANGED used
=============================================================================
