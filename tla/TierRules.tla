-------------------------------- MODULE TierRules --------------------------------
(***************************************************************************)
(* Which tier a creator's numbers select: tier-rules.ts and the pure part  *)
(* of tier-assignment.ts.                                                  *)
(***************************************************************************)
EXTENDS Integers

CONSTANTS
  Tier,      \* pricing_tier rows: [followers, engagement, price, active]
  Numbers,   \* what TikTok or an admin may say: [followers, engagement]
  Missing,   \* a number that is null, negative or unreadable
  NoFloor,   \* a tier without an engagement threshold
  NoTier

ASSUME NumbersAreNumbers ==
  Numbers \subseteq [followers : Nat \cup {Missing}, engagement : Nat \cup {Missing}]
ASSUME TiersAreTiers ==
  \A t \in Tier : t.followers \in Nat /\ t.price \in Nat \ {0} /\ t.active \in BOOLEAN
ASSUME NoTierIsNoTier == NoTier \notin Tier

----------------------------------------------------------------------------
\* tierNumbers
IsUsable(n) == n.followers # Missing /\ n.engagement # Missing

\* byHighestFirst.  Two tiers with the same floor and price are told apart by their names;
\* no ladder here has such two.
Higher(s, t) ==
  \/ s.followers > t.followers
  \/ s.followers = t.followers /\ s.price > t.price

Matches(t, n) ==
  /\ t.active
  /\ n.followers >= t.followers
  /\ \/ t.engagement = NoFloor
     \/ n.engagement >= t.engagement

Eligible(n) == IF IsUsable(n) THEN { t \in Tier : Matches(t, n) } ELSE {}

\* selectTier
SelectTier(n) ==
  IF Eligible(n) = {} THEN NoTier
  ELSE CHOOSE t \in Eligible(n) : \A s \in Eligible(n) : ~Higher(s, t)
=============================================================================
