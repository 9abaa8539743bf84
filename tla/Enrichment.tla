------------------------------ MODULE Enrichment ------------------------------
(***************************************************************************)
(* The machines around the deals: the cover of a video (CoverImage), and,  *)
(* as instances, the tier of a creator, the address on an account, the     *)
(* reminders of the daily run, and the figures of a brand.  No two of them *)
(* share a row, so each is proved about on its own (EnrichmentProofs), and *)
(* MCEnrichment runs one at a time.                                        *)
(***************************************************************************)
EXTENDS CoverImage, TierRules, FiniteSets, SequencesExt

CONSTANT Worker                                       \* CreatorTiers

CONSTANTS Caller, Address, Own, MaxAttempts, MaxCodes \* EmailOtp

CONSTANTS Creator, Overdue, Owner, Jobs, Cron, BatchLimit, MaxTries, Silent, Muting,
          MaxFaults                                   \* Reminders

CONSTANTS DealRow, Null, NoPost, MaxDeals             \* InsightModel

\* Finitely many tiers, so one of those that match is the highest.
ASSUME TiersAreFew == IsFiniteSet(Tier)

\* OTP_MAX_ATTEMPTS lets a code be typed at all.
ASSUME CodesMayBeTyped == MaxAttempts \in Nat \ {0} /\ MaxCodes \in Nat

ASSUME OverdueHaveOwners == Overdue \in Seq(ToSet(Overdue)) /\ Owner \in [ToSet(Overdue) -> Creator]

\* What a post counts is a number, where it was measured.
ASSUME CountsAreNumbers ==
  /\ Null \notin Nat
  /\ \A r \in DealRow :
       /\ r.price \in Nat
       /\ r.videos \in Seq(ToSet(r.videos))
       /\ \A n \in DOMAIN r.videos : r.videos[n] # Null =>
            \A f \in {"views", "likes", "comments", "shares"} : r.videos[n].counts[f] \in Nat \cup {Null}

VARIABLES profile, told, run, missed                  \* CreatorTiers
VARIABLES email, handle, codes, inbox, minted, call   \* EmailOtp
VARIABLES measured, muted, mailed, served, cron, faults, uncertain  \* Reminders
VARIABLE  books                                       \* InsightModel

T == INSTANCE CreatorTiers WITH mishap <- missed

A == INSTANCE EmailOtp

R == INSTANCE Reminders WITH Run <- Cron, run <- cron, mishap <- uncertain

I == INSTANCE InsightModel WITH Row <- DealRow

----------------------------------------------------------------------------
\* A creator was last told the tier brands are priced by, once all is announced
\* (CreatorTiers.ToldTheTier).
ToldTheTier == T!ToldTheTier

\* A refresh never takes a tier away, nor lowers the one it judged by
\* (CreatorTiers.NoRefreshLowersATier).
NoRefreshLowersATier == T!NoRefreshLowersATier

\* The address on the account is one whose mail its owner reads (EmailOtp.AddressIsReadable).
AddressIsReadable == A!AddressIsReadable

\* One mail an interval, and none believed sent that was not (Reminders.MailsMatchTheRecord).
MailsMatchTheRecord == R!MailsMatchTheRecord

\* The groups a brand looks at share out the figures of the whole (InsightModel.InsightsAddUp).
InsightsAddUp == I!InsightsAddUp
=============================================================================
