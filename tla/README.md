# Verification of creator-marketplace

TLA+ models of the marketplace's state machines, the TLC runs that check them on
small instances, and theorems about them that TLAPS proves for every value of
the constants. Paths below are relative to the repository root (`src/`).

## 1. The system

A Next.js application over one Postgres database (Drizzle). Server invocations
share nothing but the database, so all concurrency is transactions on rows, and
every external party (payment holds, the Chapa gateway, webhooks, TikTok, the
image store, the mail provider, the cron caller) is reached from inside or
between them.

| Component | Source | State | Operations | What makes it correct |
|---|---|---|---|---|
| Deal state machine | `lib/deals/state-machine.ts` | `deal.status`, `deal_event` | `transitionDeal`, `recordDealsCreated` | only legal moves, each under the row lock |
| Escrow ledger | `lib/payment/ledger.ts` | `ledger_entry` (append-only) | `holdForCampaign`, `payoutForDeal`, `refundDeal` | rows and statuses agree; balance is the held money; nothing paid twice |
| Payment provider, hold store | `lib/payment/mock-provider.ts`, `pg-hold-store.ts` | `provider_hold`, idempotency results in memory | `hold`, `capturePayout`, `captureCommission`, `releaseHold` | no overdraw; a retry replays instead of repeating |
| Money screens | `lib/payment/escrow.ts`, `lib/campaigns/budget.ts`, `lib/admin/overview.ts`, dashboards | none (read) | sums over rows or over statuses | every page says the same of a campaign's money |
| Funding | `lib/campaigns/fund-campaign.ts`, `fund-session.ts`, `settle-funding.ts`, `expire-funding-sessions.ts` | `funding_session`, gateway charges | create, settle (redirect, webhook, poll), cancel, expire | a paid charge is held once, for what was paid |
| Campaign, cart and offers | `lib/campaigns/*`, `lib/deals/accept-offer.ts`, `decline-offer.ts`, `expire-offers.ts` | cart items, budget, `campaign.status`, `offer_expires_at` | cart edits, brief, confirm, accept, decline, sweep, cancel, complete | commitments within the budget; an offer is answered once, in time, and on the terms shown |
| Deliverables and review | `lib/deals/submit-deliverable.ts`, `approve-deliverable.ts`, `reject-deliverable.ts`, `resolve-dispute.ts`, `lib/deliverables/*` | submissions, versions, evidence | submit, approve, reject, resolve | a decision is about what the reviewer saw |
| Deal pages, history, insights | `lib/deals/detail.ts`, `brand-detail.ts`, `lib/campaigns/insight-*.ts`, `performance.ts`, `lib/brands/insight*.ts` | none (read) | pages, lists, reports | screens agree on whose turn it is; reports count everything once |
| Deadline requests | `lib/deals/deadline-requests.ts`, `deadline.ts` | `deadline_request`, dates of `deal` | propose, decide, close | one open request, decided by the other side |
| Wallet | `lib/wallet/*` | `withdrawal` | request, settle (webhook, poll), sweep | a creator never gets more than was earned |
| External refund | `lib/refunds/external-refund.ts`, `lib/admin/payments.ts` | `refund` | issue, retry, settle event | one gateway refund per refunded deal |
| Scheduler, reminders, notifications | `lib/scheduler/*`, `lib/deals/metric-reminders.ts`, `lib/notifications/*` | `notification`, its delivery stamp | run jobs, remind, mail, stamp | one failing job never stops another; one reminder an interval |
| Cover images | `lib/deliverables/thumbnail.ts` | `thumbnail_url`, the blob store | copy, save, clean up | no row shows a deleted image, no image is left over |
| Creators and tiers | `lib/creators/*`, `app/api/admin/creators/*` | numbers, tier, review flag | onboard, refresh, correct, assign, dismiss | the creator knows the price; a refresh never lowers it |
| Accounts | `lib/creators/email-otp.ts`, `credentials.ts`, `lib/auth.ts`, `lib/authz.ts` | `verification`, `user.email` | request, peek and consume a code, set an address | the address is one its owner reads |
| The rest | `lib/audit/*`, `lib/validation/*`, `lib/chapa/*`, discovery, `app/*` | audit rows, profiles | CRUD and queries | section 7 |

Calls between components: an approval (`approve-deliverable`) or an admin
resolution (`resolve-dispute`) calls the ledger, which calls the provider and
`transitionDeal` inside one serializable transaction; a brand's approval then
calls `advanceCampaignIfComplete` outside it. Settling a funding session calls
`holdForCampaign`. A refund is followed by an external refund. A submission is
answered first and its cover image fetched behind the answer. The cron endpoint
runs the expiry, reminder, funding-session and withdrawal sweeps in sequence.

The behaviours that are hard: two callers on one deal or campaign (row locks in
two different orders); reads that precede the lock they rely on; a serializable
transaction retried after the provider, which is not rolled back, already acted;
a call dying half-way; duplicated, late or reordered gateway events; sweeps
racing the events they stand in for; pages and forms of any age; figures derived
in several places from the same rows. `PROJECT.json` lists them line by line
under "hazards".

## 2. The modules

| Module | Models | Kind |
|---|---|---|
| `DealStates` | statuses, transition table, derived sets | vocabulary |
| `CommissionSplit` | `computeSplit` | pure functions |
| `EscrowLedger` | ledger calls, provider, deal and campaign rows | state machine |
| `EscrowPromise` | what the money path promises its callers | abstract specification |
| `EscrowRefinement` | `EscrowLedger` implements `EscrowPromise` | refinement |
| `EscrowInvariant` | the inductive invariant of `EscrowLedger` | invariant |
| `MoneyScreens` | what every page says of a campaign's money (extends `EscrowLedger`) | state functions |
| `FundingSession` | hosted checkouts, their settlement and their expiry | state machine |
| `Withdrawal` | a creator's withdrawals, their settlement and the sweep | state machine |
| `WithdrawalClaims` | a comment of the code that does not hold | claim |
| `CampaignOffers` | cart, brief, confirmation, answers, the expiry sweep | state machine |
| `DeliverableReview` | the videos of a deal, their versions, decisions and evidence | state machine |
| `CollaborationHistory` | the review report, over the ordered evidence (extends `DeliverableReview`) | state machine |
| `DealPages` | what each screen of a deal says and offers (extends `CollaborationHistory`) | state functions |
| `DeliveryDeadline` | the delivery date, extensions and punctuality | state machine |
| `ExternalRefund` | refunds through the gateway, their retry and their events | state machine |
| `Gateway` | funding and external refunds side by side: the sessions as an instance | composition |
| `Reminders` | the cron run, its reminders, their mails and stamps | state machine |
| `BlobStore`, `CoverImage` | the image store; the runs that fetch a video's cover | state machines |
| `TierRules`, `CreatorTiers` | which tier numbers select; a creator's tier over time | pure functions, state machine |
| `EmailOtp` | one-time passwords and the address they protect | state machine |
| `InsightModel` | the figures of the insight pages and of the table of videos | pure functions over any books |
| `Enrichment` | covers, tiers, addresses, reminders and insights side by side, the last four as instances | composition |
| `EscrowLedgerProofs`, `CampaignOffersProofs`, `WithdrawalProofs`, `GatewayProofs`, `DeliverableReviewProofs`, `DeliveryDeadlineProofs`, `EnrichmentProofs`, and `SumFacts` about finite sums | section 4 | proofs |
| `MC...` | the instances TLC checks | instances |

Definitions commented "Mutant" are deliberately wrong variants of the definition
below them: a missing lock, a dropped check, a fresh key on retry. No
specification uses them; putting one in place of the original makes TLC refute
the property that guards against that mistake (`PROJECT.json`, "mutants").

How the modules compose: `CampaignOffers` ends with accepted offers, where
`EscrowLedger` begins. `FundingSession` takes `holdForCampaign` as one step that
holds all accepted deals or none; that atomicity is what `EscrowLedger` checks
(`KeepsThePromise`: the deals of one funding move together). The transitions of a
deal in `DeliverableReview` and `DeliveryDeadline` are the actions
`SubmitDeliverable`, `RequestRevision` and the commits of `EscrowLedger`, each of
them one transaction under the deal's row lock. `ExternalRefund` starts where a
refund has committed there. The jobs that `Reminders` only lets take their turn
are actions of `CampaignOffers`, `FundingSession` and `Withdrawal`.
`Gateway` puts funding and refunds beside each other, which share no row: in a run of
funding no refund is due, and the refunds of `ExternalRefund` run without sessions.
`CollaborationHistory` and `DealPages` read the very state of `DeliverableReview`,
`MoneyScreens` that of `EscrowLedger`. `Enrichment` puts five machines that share no row
side by side; in `MCEnrichment` a behaviour is one of them while the others stand still.

### EscrowLedger and MoneyScreens

State: `dealStatus`, `campaignStatus`, `rows` (committed `ledger_entry` rows per
deal and type), `holdRef` (the `provider_ref` of the deal's hold row),
`escrowed` (the sum the code re-reads), `balanceAfter` (of the newest row),
`provider` (the hold store), `call` (what each worker is doing). Campaigns start
confirmed with their deals pending, the state `confirmCampaign` leaves.

A ledger call is begun, takes its first row lock (and with it the snapshot all
its reads see), judges the status, locks the rest, calls the provider once per
step, and commits. Locks are not a variable: who holds a row follows from where
each call is (`LocksDeal`, `LocksCampaign`). What differs from the code:

- The rows a transaction inserts become visible in its commit action, all at
  once, with the status changes; uncommitted writes are visible to nobody.
- `SnapshotValid` is Postgres's serializable check for the one predicate the
  calls conflict on, the campaign's rows. A transaction whose snapshot is stale
  cannot commit; it fails (`SerializationFailure`) and is begun again under the
  same keys, at most `MaxRetries` times. A serialization failure may also strike
  a transaction whose snapshot is good, since Postgres reports false conflicts.
- `SelectDeals` reads the deals' current statuses, not those of the snapshot. An
  offer accepted between the two is a row the transaction may or may not see;
  either order of the two transactions gives the same result.
- A provider operation is one step: the get and the put of the hold store run
  under the deal's row lock, which every caller of that hold owns.
- `Fault` stands for every error that is not retried: a stale deliverable
  version, a database or provider outage, an invocation killed.
- Endpoints that move no money are one action each, enabled while no call has
  the row locked.

`EscrowPromise` knows money (none, held, paid, returned) per deal and a phase per
campaign. The refinement reads the money off the ledger rows alone, never off
the status, so a row too many or too few maps to no promised value.

`MoneyScreens` defines each figure as its page does: the budget page adds prices
by status, the escrow figures and the dashboards add signed rows, the admin's
list compares the sum with the newest `balance_after`, the worklist picks
statuses. `ScreensReconcile` states the equations between them.

### FundingSession

State: `session` (the `funding_session` rows), `charge` (what the gateway knows
of each checkout), `owed` (events the gateway redelivers until they are
answered), `campaign`, `accepted`, `held`, and `run`, the place of each server
invocation in `createFundingSession` or `settleFundingSession`. No transaction
spans either function, so each statement is an action and an invocation may die
between any two (`Crash`). An amount is the set of deals it sums, which is what
the comparison of amounts can tell apart up to equal prices. Time is left out:
the sweep may expire a session at any moment, a superset of what it does.
`verdict` is what an event says; what counts is what the gateway answers when
asked (`Verify`), later than the event and perhaps different from it.

### Withdrawal

State: `row` (the `withdrawal` rows of one creator, with their age as the sweep
tells it apart), `transfer` (the gateway), `earned`, and `run` as above. The
reservation is the one serializable transaction: it commits only if the rows are
those of its snapshot (`MayCommit`), and may fail without cause. `GrowOld` does
not age the row of a request that is still running: a request lives as long as
its invocation, at most minutes, and the sweep looks at rows an hour old.
`SendFails` lets the gateway take a transfer and the answer be lost.

### CampaignOffers

State: `price` (what each creator's tier costs now), `campaign` (status and
budget), `edit` (the budget an edit of the brief is about to write), `cart` and
`deal` rows, `terms` and the version each creator's open `page` shows, `sweep`
(the offers each run of the expiry job still has to look at) and `now`. A
transaction under the campaign's or the deal's lock is one action; the edit of
the brief is two (`LoadBrief`, `SaveBrief`), since it reads before it writes, and
a sweep works from a list made before any lock. `Broken` creators' offers may
fail to expire each time; the job goes on to the next. Prices are multiplied by
the number of videos as the code does, so a repriced row keeps its unit price
and the row's CHECK is a property (`OffersAreTheCart`), not an assumption.

### DeliverableReview, CollaborationHistory and DealPages

State: `video` (deliverable rows: version, link, verdict, open review cycle),
`history` (`deliverable_event`), `landed` (what the event of each request
recorded), `form`, `heard`, `page` (what people have in front of them), `metric`.
Each server function is one transaction under the deal's row lock, hence one
action; what interleaves are forms and pages of any age. A link is named by the
request that brought it, so two submissions never share one. `Land` is the common
end of a first submission and a replacement: the evidence, the new review cycle
when the last video is there, the event a retry is answered from, and the answer,
which may be lost (`Receive`). The unique indexes of `deliverable_event` are the
guard `Fits`: a transaction that would break one rolls back. That no step the
status permits is ever refused by them is part of `FreshPagesWork`.
`RecordMetrics` has no guard on the status, as in the code.

`CollaborationHistory` adds the order of the evidence (`trail`, by `seq`) and the
statuses the deal went through (`walk`), and defines the report as
`insight-history.ts` computes it: which reviews were answered, are awaited, were
interrupted or left out. `TheReportAddsUp` compares it with the rows.
`DealPages` says, for each of the places that derive it (the two pages of a deal,
the lists, the two dashboards, the progress rail), whose turn it is and which
forms are offered. Wording is reduced to that.

### DeliveryDeadline

State: `deal` (window, funding time, original and current date, the first
delivery with the date it was judged by, whether a date was missed), `request`
(`deadline_request` rows), `now`. Servers read clocks that differ by at most
`Skew`: each action takes its own `t \in Clock`. The date a client echoes is not
an input, since a stale one is refused without effect. The CHECK constraint on
decision times is part of `Close`: a delivery or a refund on a server whose clock
is behind the one that took the proposal is rolled back, and so not a step.

### ExternalRefund

State: `due` (deals refunded in the ledger), `row`, `gateway` (per deal, the
refunds the gateway accepted and what became of each), `events`, `run` (each call
between claim, request and mark) and `mishap`. Nothing here is a transaction. An
event names the charge, so it settles every refund of the campaign under way.
`mishap` is a history variable: the deals touched by an overlap of two calls, a
lost answer, a death, or an event out of place. The properties say that nothing
else can go wrong, which is the strongest that holds.

### Reminders

State: `measured` (videos with metrics), `muted`, `mailed` and `served` (mails
sent, and rows stamped as delivered, in this interval), `run` (the job, the
place in it, and the list each cron run works through) and `mishap` as above.
`OtherJob` is a job of another module, which may fail or hang (`TimesOut`) without
keeping the next from its turn, as the harness isolates them.

### CoverImage

State: the row's `version` and `thumb`, the `store`, and `task`, one run behind
each submission, at one of its calls. A copy gets a URL of its own. An update that
throws may have run, or may still run after its caller gave it up (`LateSave`).

### CreatorTiers

State: `profile` (numbers, tier, review flag, the age of the numbers), `told` (the
tier of the last notice) and `run`. A refresh reads, asks TikTok, and writes
without reading again; the admin routes lock the row and write their notice after
the commit. `TierRules` is `selectTier` over a ladder given as a constant.

### EmailOtp

State: `codes` (the user's `verification` rows; the identifier has no unique
index, so there may be two), `inbox` (codes that reached a mailbox the user
reads), `email`, and `call`, the place of each overlapping request. `saveRow` is
two steps, because its delete sees only the rows committed before it.

### InsightModel

State: `books`, any deals with any videos (measured, half measured, repeated,
missing): how they came about is the matter of the other modules. A report is one
repeatable-read snapshot, so it is a function of the books: `CampaignPage` for one
campaign, `Overall` and `OneOf` for a selection, `Table` for the campaign page's
list of videos. Ratios are kept as fractions.

## 3. The runs

| Run | Question | Instance |
|---|---|---|
| `escrow_ledger` | is the money path safe, do all pages agree on it, does it keep its promise, is the invariant inductive in practice | 1 campaign, 2 deals (3 and 10 santim at 15 %), 2 workers, 3 references, 1 retry |
| `escrow_live` | does every ledger call end | the same with 2 references, no retry, no symmetry |
| `funding_session` | do the sessions tell the money, is one checkout on offer | 1 deal, 2 sessions, 2 workers |
| `funding_live` | is every payment honoured | 1 deal, 1 session, 2 workers |
| `withdrawal` | does a creator get no more than was earned, does every withdrawal end | 2 withdrawals of 1, earnings of 1, 2 workers |
| `wallet_claim_balance` | is the balance never negative, as a comment says (it is not, section 5) | 2 withdrawals, amounts 1 and 2, earnings up to 2 |
| `campaign_offers` | do offers stay within the budget and are they what was carted, are answers informed and final, do lapsed offers end | 2 creators, 2 prices, 2 budgets, 2 overlapping sweeps of 2 offers, 1 broken offer, 1 aborted run |
| `deliverable_review` | are decisions about what was seen, is the evidence complete and never in the way, do screens and report tell it | 2 videos, 4 forms, 2 pages |
| `delivery_deadline` | was the date agreed, is punctuality true | 2 extensions, time 0..5, clocks 1 apart, with and without a window |
| `external_refund` | is a deal refunded once, does the row tell what the gateway did, does every refund end | 2 deals, 1 charge, 2 calls, at most 3 accepted refunds |
| `reminders` | is everyone reminded | 2 cron runs, 2 creators, 3 videos, batches of 2, 2 tries, 2 faults |
| `enrichment` | does the creator know the tier and keep it, is no image broken or left over, is the address readable, is there one reminder an interval, do the insights add up | 3 tiers (one closed), 5 kinds of numbers, 3 requests; 3 cover runs, 3 images, 3 versions; 2 requests, 2 codes, 2 tries, an own and a misspelt address; the cron runs of `reminders` with 1 fault; any 2 deals of 2 campaigns and 2 creators with 5 kinds of video |

Why the bounds are enough. Two workers give every conflict: a row lock, a
snapshot, a stale answer and a key are each relations between two calls. Two
deals are the fewest with which a campaign is partly accepted, partly paid, and a
hold can be taken for another's; the two prices are the fewest that show a
commission rounding to zero and one rounding up. One retry is enough for a
replay; three references let a funding fail once and still be repeated. Two
sessions are the fewest that compete for the one open place and for the hold. Two
withdrawals of one earning cannot both be paid, which is the conflict the
reservation is serializable for. Two creators and two budgets let a cart fit one
budget and not the other, and let the sweep find one offer broken and one not;
a window of 1 in a time of 2 lets an offer lapse before, at and after its answer.
Four forms fill both videos and replace two of them, so versions reach three and
cycles follow each other; a request lands at most once, so the forms bound
everything else. Two extensions give a chain (one extension of an extended date),
and the time bound lets a date pass before, between and after them. Two deals of
one charge are the fewest for which an event about one settles the other; a third
accepted refund lets a failed one be repeated beside a second call's. Three
overdue videos and batches of two leave one outside the list, and one creator
with two of them. Three cover runs are one for the first submission, one for a
replacement and one for either sent again. Two deals are the fewest between which
a post can be repeated, within one campaign or across two. Two tries of a code
(the code allows five) are the fewest with a try that counts and one that burns.

Symmetry is used in safety runs only, where no definition chooses among the
members of the set; the liveness runs use none. Deadlock checking is off where
the system really may stop: every deal settled, no checkout left to open, no
earnings left, all offers answered, all refunds done, all covers fetched, time at
its bound. In `deliverable_review` a page can always be opened and in `reminders`
cron always starts again, so it stays on there.

Fairness:

- Escrow (`CallsEnd`): a running invocation takes its next step (weak fairness on
  `Progress`, including the failure of a transaction whose snapshot is stale),
  and Postgres serves the waiters of a row lock in turn (strong fairness on
  `Lock`). Nothing forces a call to begin, a party to act or a fault to happen.
  It says that no deadlock detector is needed: funding never waits for a deal
  whose payout waits for the campaign, because a payout's status check refuses
  before it would wait.
- Funding (`PaidIsHonoured`): the gateway redelivers an event until it is answered
  with a 200 (the route answers 503 for what is pending), a running invocation
  takes its next step, and crashes and failing verifications end. Nobody has to
  pay, accept or open a page.
- Wallet (`EveryWithdrawalEnds`): cron keeps starting sweeps (`vercel.json`), time
  passes, the gateway decides what it accepted, and outages end. No webhook need
  arrive: the route answers 200 to a payout event whatever came of it, so
  nothing relies on a redelivery.
- Offers (`LapsedOffersEnd`): time passes, cron keeps starting the job, a run takes
  its next offer, and only the `Broken` offers may fail for ever (strong fairness
  for the others). The assumption `BatchOutlastsBroken` is needed: the list is
  ordered by age, and as many broken offers as a batch holds would hide the rest.
- External refunds (`DueIsSettledOrShown`): a running call goes on, the gateway
  finishes what it accepted and delivers an event until it is acknowledged. No
  admin need retry anything, so the property ends in a row that can be retried.
- Reminders (`EveryoneIsReminded`): cron starts a run every day and a run goes on;
  creators who are not `Silent` answer in the end a mail they get. The assumption
  `BatchOutlastsSilent` is needed for the same reason as above.

## 4. What is proved

TLAPS, for every value of the constants under the named assumptions of the
modules (prices in `Nat \ {0}`, rates in `0..10000`, retries in `Nat`, at least
one video, finitely many deals and creators, positive budgets, dates,
windows, bounds and counts natural, every overdue video owned by a creator, the null
values outside their sets). `PROJECT.json`
lists each theorem with the property it states. Every safety proof has one shape:
an inductive invariant, checked by TLC first, one lemma per part of it and action
that can disturb it, and a last step that derives the property.

**The money path** (`EscrowLedgerProofs`). `SplitIsExact`: both legs lie within the
price and add up to it. `InvariantHolds` is `Spec => []IInv` with the `IInv` of
`EscrowInvariant`, which the run `escrow_ledger` checks as well. Its parts, each
needing those before it:

- `TypeOK` (`TypeCorrect`), in which `remaining \in Nat` already says that no
  interleaving of failed and repeated captures overdraws a hold; `CallShape`, what
  a call at each place is about; `LocksExclude`, that no two calls hold one row.
- `LedgerMatchesStatus` (`LedgerStaysWithStatus`): each commit inserts exactly the
  rows that turn what the old status owes into what the new one owes
  (`RowsAddUp`), because `transitionDeal`'s table is checked in the same commit.
- `ChecksStillHold`: what a call judged under its locks is true until it commits,
  because nobody else moves a locked row. `FundedPhase` follows from it and gives
  `CampaignStatusIsTrue`; `BalancesAgree` needs the snapshot check of the commit.
- `HoldsAreSound`, and `RefsAreMinted` in four parts: rows refer to holds of
  their own; what a funding keeps for replay is untouched, refers to no deal, and
  is shared with no other call. A reference is new when it is minted, which is all
  the freshness the proof uses.
- `LegsHappened`: what a call's replayed keys stand for really happened at the
  provider, however many other calls ran between two attempts. With the checks
  that still hold it gives `SettledMoneyIsAtProvider`.

`LedgerKeepsThePromise` is the refinement: under `IInv` every step, read off the
rows, is a step of `EscrowPromise` or a stutter, and the initial states agree.
`RetriesStrandNoHold` is an action property under `IInv`. `EveryPageReconciles` is
about sums: `ScreensInv` adds to `IInv` that a funding has inserted the prices of the
deals it has placed holds for (`InsertedIsPlaced`), and that a campaign's sum is the
price of its deals in escrow (`EscrowIsHeld`). The rest is bookkeeping per deal
(`DealAddsUp`: what the rows a status owes amount to) and the laws of sums: the table
of posted rows is summed column by column (`FourColumns`), and a page that counts
statuses sums the same function (`PriceOfSome`).

**Funding and external refunds** (`GatewayProofs`, over `Gateway`, which instantiates
`FundingSession` next to `ExternalRefund`). `SessionsAreRight`, `OneCheckoutOnOffer`: a
paid charge stays paid, so a settler's place in the code carries what it once
learned (`claim` and `hold`: the charge is paid; `consume`: the campaign is
funded), however old that answer is. `RefundTypeCorrect`, `MoneyGoesBackOnce`,
`RowsTruthful`: the invariant (`Orderly`) follows a deal without a mishap through
its one call, and ties the call's place to the row and to the gateway's record;
a mishap is only ever added, so nothing need be known of the other deals but
that events tell what happened and that settled rows have a refund behind them.

**The wallet** (`WithdrawalProofs`). `WalletTypeCorrect`, `PaidMeansArrived`: a
transfer that arrived never changes, so the settler about to write `paid` still
knows it arrived. `NeverSendsMoreThanEarned` is about a sum over rows. What may
still be paid only shrinks while no row is added, and a reservation commits only
if it has seen every row; so `BudgetInv` keeps what a reader has read
(`ReadingsLast`), that a request asks for no more than that (`RequestsAreSound`),
and that the earnings cover every row that may be paid (`EarningsCover`).

**Cart and offers** (`CampaignOffersProofs`). `OffersTypeCorrect`, `OneAgreement`,
`AnswersAreFinal`, `OffersStayWithinBudget`. `OffersInv`: a cart row keeps the CHECK
on its total, a draft has no offers, and offers copy the cart. The confirmation
compares the very sum the property is about; afterwards the offers that commit
budget only become fewer, the budget changes no more (`MayUpdate`), and a smaller
set of natural numbers has no larger sum.

**Deliverables, evidence and screens** (`DeliverableReviewProofs`). `ReviewInv`
(for `RowsAreRight`, `DecisionsWereSeen`, `AnswersNeverChange`) says that a page
shows a version that was once the current one, with its link while it still is
(versions only grow), that what a creator heard is what the event would answer,
and which rows are judged at each status. `HistoryIsWhole` needs `HistoryFits`: an
open review cycle has not ended and is that of its row (`CyclesAreOpen`), evidence
names only versions and cycles of the past (`EvidenceIsPast`), a past cycle ended
in one way (`CyclesEnd`), and each version is on record once (`VersionsOnRecord`).
`EvidenceNeverRefuses` is the part of `FreshPagesWork` without `ENABLED`: no unique
index of the evidence stands in the way of a step that status and page permit
(`EndsAreFinal`). `EveryScreenAgrees` is about `HistorySpec`: the walk of statuses
fits the status it ends in (`WalkFits`), and what is not shown for lack of a link
is exactly what has none (`LinksAreThere`); the rest is a case per status.

`TheReportIsRight`, too, is about `HistorySpec`. `ReportInv` says that the trail is
the evidence, each row once (`TrailTells`); five facts about its order (reviews open
in turn and before what ends them, a decision comes before the interruptions it
causes, a change request before the versions that answer it and last on the version
that waits); and what is on record of each cycle and each change request
(`CyclesAreTold`, `ChangesAreTold`). One lemma sums up what any step may add
(`StepAdds`). The rows of a step are listed by `InOrder`, a `CHOOSE` over finite
functions: `ListsExist` shows by a smallest counterexample that such a list exists
for every finite set of rows that are pairwise ordered, so that the trail grows by
exactly the new rows (`TrailGrows`) and keeps its order (`OrderKept`). The figures
then follow from the first row of each kind (`FirstsInOrder`) and from a count of the
versions sent back (`RoundsAreReplacements`).

**Delivery dates** (`DeliveryDeadlineProofs`). `DeadlineInv` says that the accepted
extensions form a chain from the original date to the one in force: the dates
replaced and the dates proposed are the same set, but for its two ends (`Chain`,
which needs no induction over the length), that each replaced a date before the
one in force (`AcceptedIsPast`), and that the flag for a missed date is what the
requests tell (`MissedIsRecorded`).

**Around the deals** (`EnrichmentProofs`, over `Enrichment`).

- Covers. `NeverABrokenImage`: a copy still to be saved is known to its own run alone
  (`Unspent`), what was looked up still holds when the image is deleted (`LookedUp`),
  and nobody knows a URL the store has not handed out (`URLsAreKnown`).
  `NoImageIsOrphaned` adds that every stored image the row does not show is minded by a
  run that will delete it, or marked as a mishap (`Minded`).
- Tiers. `TheTierIsTold`: until something is lost or two notices meet, the last notice told
  the tier of the profile, or the only one under way will (`NoticeIsComing`). `TiersAreKept` needs that a
  ladder has a highest tier among those that match (`HighestExists`, `SelectedTier`).
- Addresses. `TheAddressIsReadable`: each code was made up once, for one address
  (`CodesAreFor`, a function nobody stores), and every request carries what is right
  of it (`CarriesRight`), whichever rows overlapping saves leave behind.
- Reminders. `OneReminderAnInterval`: a creator who lost nothing has at most one run at
  work on them; before its mail none was sent, and one that was sent is recorded or
  about to be (`OneMailFor`). Whatever is lost is in `mishap` from then on.
- Insights. `TheInsightsAddUp`: groups that share out a set of deals share out its
  videos, and both sums and the sums of what is known follow the groups
  (`TotalOfGroups`, `SumIfAnyOfGroups`, `NumberOfGroups`); a deal is in a group's ratio if
  it is in that of the whole (`IncludedInGroup`), because repeats are sought first.

**Sums** (`SumFacts`). The models write a sum as `SumFunctionOnSet`, a recursive
function over finite sets that the library proves nothing about. `SumsExist` shows
by a least counterexample (`LeastNumber`, `SmallestSet`) that the recursion has the
values it should, and `TotalAgree`, `TotalRemove`, `TotalSubset`, `TotalPlus`,
`TotalSplit`, `TotalColumn` and `TotalOfGroups` are the laws the proofs above cite.

Only model-checked:

- Liveness, which the prover does not reach: `CallsEnd`, `PaidIsHonoured`,
  `EveryWithdrawalEnds`, `LapsedOffersEnd`, `DueIsSettledOrShown`,
  `EveryoneIsReminded`.
- `FreshPagesWork`, which says `ENABLED`; the part that does not is
  `EvidenceNeverRefuses`.

## 5. What the claims show

`wallet_claim_balance` checks a sentence of the repository that TLC finds violated;
"findings" quotes the line: a request that marks its row `processing` late takes a
failure that a webhook settled back in flight, after the money was reserved again.

Other places where the models do what a comment denies. The models contain these
behaviours, and the properties are stated around them:

- A refund after an approval that died between its two captures records the whole
  price, while the provider releases only the rest of the hold
  (`lib/payment/ledger.ts:205-207` against 591).
- The settlement compares the charge with the session's amount, never with the
  deals; an offer accepted after the quote is held with the others although nobody
  paid for it (`fund-session.ts:28-30`, `182`; `settle-funding.ts:262`).
- A dismissed checkout stays payable. It and its successor can both be paid; both
  sessions end consumed and nothing marks the second payment for a refund
  (`settle-funding.ts:268-270`).
- The client reports an unreadable answer as a refusal, so a transfer that was taken
  is written off and the money is available again (`withdraw.ts:214`).
- A refund row that is still `pending` can be claimed again, so two retries at the
  same moment both ask the gateway (`external-refund.ts:61-66` says they cannot).
- A creator with several overdue videos gets one reminder only while the mail goes
  out and is stamped; a muted or failed mail is asked for again
  (`metric-reminders.ts`). The list of the oldest unmeasured videos does not drain
  if as many silent ones as a batch holds are older (`pending-metrics.ts:91-95`); the
  job that refreshes numbers has the same order and the same limit of 50.
- Correcting a creator's numbers reassigns the tier and leaves the review flag, which
  assigning it by hand clears (`assign-tier/route.ts:147-151`). A refresh judges by
  the tier it read: it may lower one an admin raised meanwhile
  (`refresh-stats.ts:41-44`).
- An update of a cover that was given up may run after the cleanup looked, and leave
  the row with a deleted image (`thumbnail.ts:326-329`).
- "A real address can never be overwritten through this path" (`credentials.ts:66`):
  two requests that each consumed a code and both read the placeholder write one
  after the other. Both addresses are the user's own, which is what
  `AddressIsReadable` says.
- The campaign's own insights do not see a post used again in another campaign, the
  brand's do; `InsightsAddUp` says that this is the only difference. The note under
  the table of videos counts those of declined and expired deals as "paid for"
  (`performance.ts`, no status in `campaignVideosQuery`).
- The brand dashboard's meter shows gross holds, refunded ones included, where the
  budget page shows what is still committed; `ScreensReconcile` states the exact
  difference. The creator dashboard counts accepted deals among those ready to
  deliver, which the deal page does not let them do (`dashboard.ts:650-652`).

Further behaviour of this kind that no sentence denies: an approval that fails
after its capture leaves a hold that no later approval can use; a funding that
fails leaves a live hold nothing refers to; a settler with an old answer marks a
consumed session failed; a settler that comes after the campaign was completed
marks a paid session failed; the sweep gives up a row that stayed pending for a
day though its transfer is queued; two overlapping requests for a code leave two
rows, or put a counted-up old code back over a new one.

## 6. The plan

Done: the escrow core with its promise and the screens over it, funding, the
wallet, cart and offers, the review of deliverables with its pages and its
report, delivery dates, external refunds, reminders and the cron run, cover
images, tiers, one-time passwords, and the insights. Left:

1. A refinement from `CampaignOffers` to the offers of `EscrowLedger`.
2. Smaller parts: the batch of the refresh job, the history of a creator's numbers,
   payout methods, the pool of five connections (`db/index.ts`, `pg-hold-store.ts`).

## 7. What is not modelled

Not at all: authentication and roles (every operation is taken as called by the
party its guard admits), validation, discovery, the audit log, the flag on a deal,
brand profiles, the encoding and the signatures of the gateway client.
`PROJECT.json` gives the reason for each component.

Within what is modelled: texts, reasons, notes, currencies and the mails of a
step; the `deliverable_metric` history; the history of a creator's numbers and the
picture copied with a refresh; the creator's payout method; the password; the
filters, shares and order of the insight pages; the weekly buckets of the charts.

More than half of the repository is presentation (`app/`, `components/`, mail
templates), seed data and shapes of inputs: it keeps no state and takes no
decision a property could be about, and a definition for it would be a
transcription. What those parts decide (whose turn it is, which form is offered,
which sum is shown) is in `DealPages` and `MoneyScreens`; the rest stays outside.
