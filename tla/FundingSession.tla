--------------------------- MODULE FundingSession ---------------------------
(***************************************************************************)
(* Funding one campaign through a hosted checkout: fund-session.ts opens   *)
(* and dismisses sessions, settle-funding.ts turns a paid one into held    *)
(* escrow, expire-funding-sessions.ts sweeps the abandoned ones.           *)
(*                                                                         *)
(* Every statement of the two long functions is a step of its own, because *)
(* no transaction spans them: the session row is read, the gateway asked,  *)
(* the row claimed, the money held and the row marked, each on its own.    *)
(* The gateway redelivers an event until it is answered, so several        *)
(* settlers may work on one session, one of them with an old answer.       *)
(* An amount is modelled by the set of deals it is the sum of.             *)
(***************************************************************************)
EXTENDS Naturals, FiniteSets

CONSTANTS
  Deal,       \* the campaign's deals
  Session,    \* funding sessions, named by their tx_ref
  Worker,     \* server invocations that may run at the same time
  NoSession   \* "no session", which is not one of them

VARIABLES
  campaign,   \* campaign.status, from confirmed on
  accepted,   \* deals whose offer was accepted, whether held since or not
  held,       \* deals whose price is in escrow
  heldFor,    \* the session whose settlement held them
  session,    \* funding_session rows
  charge,     \* what the gateway knows of each checkout
  owed,       \* events the gateway still has to deliver
  run         \* what each worker is doing

vars == << campaign, accepted, held, heldFor, session, charge, owed, run >>

----------------------------------------------------------------------------
SessionStatus == { "none", "initialized", "verified", "consumed", "failed", "expired" }

\* none: no checkout.  mismatched: charged, but another amount, currency,
\* reference or mode than the session's.
ChargeStatus == { "none", "open", "declined", "paid", "mismatched" }

\* Why a session failed: the charge was not what it should be, or the hold was
\* refused or broke.
Reason == { "none", "charge", "hold" }

NoRow == [status |-> "none", quoted |-> {}, reason |-> "none"]

Row == [status : SessionStatus, quoted : SUBSET Deal, reason : Reason]

Verdict == { "declined", "paid", "mismatched" }

\* by: the return page or a webhook event.  thrown: the error is rethrown after
\* the row is marked, so the event is not answered.
Idle == [pc |-> "idle", s |-> NoSession, by |-> "none", quoted |-> {},
         reason |-> "none", thrown |-> FALSE]

Run ==
  [pc     : { "idle", "quote", "insert", "begun", "verify", "claim", "hold",
              "recheck", "fail", "consume" },
   s      : Session \cup {NoSession},
   by     : {"none", "page"} \cup Verdict,
   quoted : SUBSET Deal,
   reason : Reason,
   thrown : BOOLEAN]

Fundable == accepted \ held

NoneOpen == \A s \in Session : session[s].status # "initialized"

Init ==
  /\ campaign = "confirmed"
  /\ accepted = {}
  /\ held     = {}
  /\ heldFor  = NoSession
  /\ session  = [s \in Session |-> NoRow]
  /\ charge   = [s \in Session |-> "none"]
  /\ owed     = {}
  /\ run      = [w \in Worker |-> Idle]

----------------------------------------------------------------------------
\* The campaign and its deals

\* Acceptance looks at the offer alone, never at the campaign.
AcceptOffer(d) ==
  /\ d \notin accepted
  /\ accepted' = accepted \cup {d}
  /\ UNCHANGED << campaign, held, heldFor, session, charge, owed, run >>

CancelCampaign ==
  /\ campaign = "confirmed"
  /\ campaign' = "cancelled"
  /\ UNCHANGED << accepted, held, heldFor, session, charge, owed, run >>

CompleteCampaign ==
  /\ campaign = "funded"
  /\ Fundable = {}
  /\ campaign' = "completed"
  /\ UNCHANGED << accepted, held, heldFor, session, charge, owed, run >>

\* holdForCampaign, here a single step: EscrowLedger shows that it funds all the
\* accepted deals at once or nothing.
HoldAccepted(s) ==
  /\ campaign = "confirmed"
  /\ Fundable # {}
  /\ campaign' = "funded"
  /\ held' = held \cup Fundable
  /\ heldFor' = s

\* POST /fund, which no session is involved in.
FundDirectly ==
  /\ HoldAccepted(NoSession)
  /\ UNCHANGED << accepted, session, charge, owed, run >>

----------------------------------------------------------------------------
\* The gateway

\* A payer may retry in place after a decline, and may pay a checkout whose
\* session was dismissed here.  Only an inserted session's URL is ever shown.
Charged(s, verdict) ==
  /\ session[s].status # "none"
  /\ charge[s] \in {"open", "declined"} \ {verdict}
  /\ charge' = [charge EXCEPT ![s] = verdict]
  /\ owed' = owed \cup {<< s, verdict >>}
  /\ UNCHANGED << campaign, accepted, held, heldFor, session, run >>

----------------------------------------------------------------------------
\* createFundingSession: check, quote and open a checkout, insert the row

CheckCampaign(w) ==
  /\ run[w] = Idle
  /\ campaign = "confirmed"
  /\ NoneOpen
  /\ run' = [run EXCEPT ![w] = [Idle EXCEPT !.pc = "quote"]]
  /\ UNCHANGED << campaign, accepted, held, heldFor, session, charge, owed >>

Quote(w, s) ==
  /\ run[w].pc = "quote"
  /\ Fundable # {}
  /\ charge[s] = "none"
  /\ charge' = [charge EXCEPT ![s] = "open"]
  /\ run' = [run EXCEPT ![w] = [Idle EXCEPT !.pc = "insert", !.s = s,
                                            !.quoted = Fundable]]
  /\ UNCHANGED << campaign, accepted, held, heldFor, session, owed >>

\* Nothing is accepted, or the gateway opens no checkout.
QuoteFails(w) ==
  /\ run[w].pc = "quote"
  /\ run' = [run EXCEPT ![w] = Idle]
  /\ UNCHANGED << campaign, accepted, held, heldFor, session, charge, owed >>

\* Mutant: no unique index on the campaign's open session.
InsertAnyway == TRUE

\* funding_session_open_unique
MayInsert == NoneOpen

\* On a conflict the winner's session is shown instead and this checkout is
\* abandoned.
InsertSession(w) ==
  /\ run[w].pc = "insert"
  /\ session' = [s \in Session |->
       IF s = run[w].s /\ MayInsert
         THEN [NoRow EXCEPT !.status = "initialized", !.quoted = run[w].quoted]
         ELSE session[s]]
  /\ run' = [run EXCEPT ![w] = Idle]
  /\ UNCHANGED << campaign, accepted, held, heldFor, charge, owed >>

\* cancelFundingSession, and the sweep of sessions a day old (time is not
\* modelled): the same conditional update.
ExpireSession(s) ==
  /\ session[s].status = "initialized"
  /\ session' = [session EXCEPT ![s].status = "expired"]
  /\ UNCHANGED << campaign, accepted, held, heldFor, charge, owed, run >>

----------------------------------------------------------------------------
\* settleFundingSession

\* The return page settles a session it saw unsettled and not failed.
OpenReturnPage(w, s) ==
  /\ run[w] = Idle
  /\ session[s].status \in {"initialized", "expired", "verified"}
  /\ run' = [run EXCEPT ![w] = [Idle EXCEPT !.pc = "begun", !.s = s, !.by = "page"]]
  /\ UNCHANGED << campaign, accepted, held, heldFor, session, charge, owed >>

\* Redelivered until it is answered, and perhaps while it still is being handled.
DeliverWebhook(w, s, verdict) ==
  /\ run[w] = Idle
  /\ << s, verdict >> \in owed
  /\ run' = [run EXCEPT ![w] = [Idle EXCEPT !.pc = "begun", !.s = s, !.by = verdict]]
  /\ UNCHANGED << campaign, accepted, held, heldFor, session, charge, owed >>

\* A final outcome answers the event with a 200; pending, or an exception, does not.
Answer(w) ==
  /\ run' = [run EXCEPT ![w] = Idle]
  /\ owed' = owed \ {<< run[w].s, run[w].by >>}

GoTo(w, pc) ==
  /\ run' = [run EXCEPT ![w].pc = pc]
  /\ UNCHANGED owed

FailWith(w, reason) ==
  /\ run' = [run EXCEPT ![w].pc = "fail", ![w].reason = reason]
  /\ UNCHANGED owed

\* Mutant: a failed session is final.
SettledIfFailedToo(status) == status \in {"consumed", "failed"}

AlreadySettled(status) == status = "consumed"

ReadSession(w) ==
  /\ run[w].pc = "begun"
  /\ IF AlreadySettled(session[run[w].s].status)
       THEN Answer(w) ELSE GoTo(w, "verify")
  /\ UNCHANGED << campaign, accepted, held, heldFor, session, charge >>

IsChargeOfSession(c) == c = "paid"

\* The gateway answers with the charge as it is now, whatever the event said.
Verify(w) ==
  /\ run[w].pc = "verify"
  /\ charge[run[w].s] # "open"
  /\ IF IsChargeOfSession(charge[run[w].s])
       THEN GoTo(w, "claim") ELSE FailWith(w, "charge")
  /\ UNCHANGED << campaign, accepted, held, heldFor, session, charge >>

\* Not charged yet, or the gateway cannot be reached: pending.
VerifyPending(w) ==
  /\ run[w].pc = "verify"
  /\ run' = [run EXCEPT ![w] = Idle]
  /\ UNCHANGED << campaign, accepted, held, heldFor, session, charge, owed >>

Claimable == { "initialized", "expired", "verified", "failed" }

ClaimSession(w) ==
  /\ run[w].pc = "claim"
  /\ IF session[run[w].s].status \in Claimable
       THEN /\ session' = [session EXCEPT ![run[w].s].status = "verified",
                                          ![run[w].s].reason = "none"]
            /\ GoTo(w, "hold")
       ELSE Answer(w) /\ UNCHANGED session
  /\ UNCHANGED << campaign, accepted, held, heldFor, charge >>

Hold(w) ==
  /\ run[w].pc = "hold"
  /\ HoldAccepted(run[w].s)
  /\ GoTo(w, "consume")
  /\ UNCHANGED << accepted, session, charge >>

\* The ledger refuses: no longer confirmed, or nothing accepted.
HoldRefused(w) ==
  /\ run[w].pc = "hold"
  /\ \/ campaign # "confirmed" /\ GoTo(w, "recheck")
     \/ campaign = "confirmed" /\ Fundable = {} /\ FailWith(w, "hold")
  /\ UNCHANGED << campaign, accepted, held, heldFor, session, charge >>

\* The provider fails or retries run out (a ledger error, answered), or another
\* exception, rethrown, which may also come after the hold was committed.
HoldBreaks(w) ==
  /\ run[w].pc = "hold"
  /\ \E thrown \in BOOLEAN :
       /\ run' = [run EXCEPT ![w].pc = "fail", ![w].reason = "hold",
                             ![w].thrown = thrown]
       /\ \/ UNCHANGED << campaign, held, heldFor >>
          \/ thrown /\ HoldAccepted(run[w].s)
  /\ UNCHANGED << accepted, session, charge, owed >>

\* Mutant: any campaign that is no longer fundable counts as funded.
FundedByAnyone == campaign # "confirmed"

FundedMeanwhile == campaign = "funded"

Recheck(w) ==
  /\ run[w].pc = "recheck"
  /\ IF FundedMeanwhile THEN GoTo(w, "consume") ELSE FailWith(w, "hold")
  /\ UNCHANGED << campaign, accepted, held, heldFor, session, charge >>

\* Both marks are unconditional updates.
MarkConsumed(w) ==
  /\ run[w].pc = "consume"
  /\ session' = [session EXCEPT ![run[w].s].status = "consumed"]
  /\ Answer(w)
  /\ UNCHANGED << campaign, accepted, held, heldFor, charge >>

MarkFailed(w) ==
  /\ run[w].pc = "fail"
  /\ session' = [session EXCEPT ![run[w].s].status = "failed",
                                ![run[w].s].reason = run[w].reason]
  /\ IF run[w].thrown
       THEN run' = [run EXCEPT ![w] = Idle] /\ UNCHANGED owed
       ELSE Answer(w)
  /\ UNCHANGED << campaign, accepted, held, heldFor, charge >>

\* An invocation dies between any two statements.
Crash(w) ==
  /\ run[w] # Idle
  /\ run' = [run EXCEPT ![w] = Idle]
  /\ UNCHANGED << campaign, accepted, held, heldFor, session, charge, owed >>

----------------------------------------------------------------------------
Settle(w) ==
  \/ ReadSession(w) \/ Verify(w) \/ ClaimSession(w) \/ Hold(w) \/ HoldRefused(w)
  \/ Recheck(w) \/ MarkConsumed(w) \/ MarkFailed(w)

Create(w) ==
  \/ CheckCampaign(w) \/ QuoteFails(w) \/ InsertSession(w)
  \/ \E s \in Session : Quote(w, s)

Next ==
  \/ \E d \in Deal : AcceptOffer(d)
  \/ CancelCampaign \/ CompleteCampaign \/ FundDirectly
  \/ \E s \in Session, verdict \in Verdict : Charged(s, verdict)
  \/ \E s \in Session : ExpireSession(s)
  \/ \E w \in Worker :
       \/ Create(w) \/ Settle(w)
       \/ VerifyPending(w) \/ HoldBreaks(w) \/ Crash(w)
       \/ \E s \in Session : \/ OpenReturnPage(w, s)
                             \/ \E verdict \in Verdict : DeliverWebhook(w, s, verdict)

Spec == Init /\ [][Next]_vars

\* An event is delivered again and again until it is answered, an invocation that
\* runs takes its next step, and neither side is down for good.  Nobody has to pay,
\* accept or open a page.
Step(w) == run[w] # Idle /\ (Create(w) \/ Settle(w) \/ VerifyPending(w))

Outage(w) == \/ Crash(w) /\ ~Step(w)
             \/ VerifyPending(w) /\ charge[run[w].s] # "open"

Fairness ==
  /\ \A w \in Worker : WF_vars(Step(w))
  /\ \A s \in Session : SF_vars(\E w \in Worker : DeliverWebhook(w, s, "paid"))
  /\ <>[][~\E w \in Worker : Outage(w)]_vars

FairSpec == Spec /\ Fairness

----------------------------------------------------------------------------
\* Properties

TypeOK ==
  /\ campaign \in {"confirmed", "cancelled", "funded", "completed"}
  /\ accepted \in SUBSET Deal
  /\ held     \in SUBSET Deal
  /\ heldFor  \in Session \cup {NoSession}
  /\ session  \in [Session -> Row]
  /\ charge   \in [Session -> ChargeStatus]
  /\ owed     \in SUBSET (Session \X Verdict)
  /\ run      \in [Worker -> Run]

\* Value is given only for a charge the gateway confirmed as the session's own:
\* however old the answer a settler acts on, no escrow is held and no session
\* passes for paid on the word of a webhook.
ValueOnlyForPaidCharges ==
  \A s \in Session :
    session[s].status \in {"verified", "consumed"} \/ heldFor = s
      => charge[s] = "paid"

\* A session passes for consumed only if the campaign really is in escrow,
\* whichever settler, of this or another session, put it there.
ConsumedMeansFunded ==
  \A s \in Session :
    session[s].status = "consumed" => campaign \in {"funded", "completed"}

\* What the sessions say of the money is so: neither value without a confirmed charge, nor a
\* session consumed beside a campaign that never got its escrow, in whatever order two
\* invocations, late payments and dismissals meet.
SessionsTellTheMoney == ValueOnlyForPaidCharges /\ ConsumedMeansFunded

\* Two requests that both saw no open session never leave two checkouts on offer.
OneOpenSession ==
  \A s, t \in Session :
    session[s].status = "initialized" /\ session[t].status = "initialized" => s = t

\* A payment whose event is still to be answered is never ignored, even after a
\* decline, a dismissal or a crash: the campaign is funded, or it was cancelled, or
\* the session says that the hold failed, for a person to refund.
PaidIsHonoured ==
  \A s \in Session :
    << s, "paid" >> \in owed ~> \/ campaign # "confirmed"
                               \/ session[s].reason = "hold"
=============================================================================
