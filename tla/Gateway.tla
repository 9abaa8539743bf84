-------------------------------- MODULE Gateway --------------------------------
(***************************************************************************)
(* All that crosses the payment gateway: the money of refunded deals going *)
(* back (ExternalRefund) and, beside it, the checkouts a campaign is       *)
(* funded by (F).  The two share no row.  FundingSpec is a behaviour of    *)
(* the checkouts while the refunds stand still.                            *)
(***************************************************************************)
EXTENDS ExternalRefund

CONSTANTS
  Session,    \* funding sessions, named by their tx_ref
  NoSession   \* "no session"

ASSUME NoSessionIsNothing == NoSession \notin Session

VARIABLES campaign, accepted, held, heldFor, session, checkout, owed, settler

F == INSTANCE FundingSession WITH charge <- checkout, run <- settler

FundingSpec ==
  F!Init /\ Init /\ [][F!Next /\ UNCHANGED vars]_<< F!vars, vars >>

FairFundingSpec == FundingSpec /\ F!Fairness

----------------------------------------------------------------------------
\* What the sessions say of the money is so (FundingSession.SessionsTellTheMoney).
SessionsTellTheMoney == F!SessionsTellTheMoney

\* Two checkouts of a campaign are never on offer at once (FundingSession.OneOpenSession).
OneOpenSession == F!OneOpenSession

\* A payment still to be answered is honoured in the end, or its failed hold is on record
\* (FundingSession.PaidIsHonoured).
PaidIsHonoured == F!PaidIsHonoured
=============================================================================
