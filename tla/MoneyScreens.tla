---------------------------- MODULE MoneyScreens ----------------------------
(***************************************************************************)
(* What the pages say about the money: the campaign page (budget.ts,       *)
(* escrow.ts), the brand's dashboard, the creator's, and the admin's       *)
(* overview and worklist.  Some count deals by their status, some sum the  *)
(* ledger's rows, and no page asks another.                                *)
(***************************************************************************)
EXTENDS EscrowLedger

----------------------------------------------------------------------------
\* Sums over the ledger's rows

AmountOf(d, t) ==
  CASE t = "hold"           -> Price[d]
    [] t = "release_payout" -> -PayoutOf(d)
    [] t = "commission"     -> -CommissionOf(d)
    [] t = "refund"         -> -Price[d]

\* What a deal's rows of a type add to a campaign's sum
Posted == [e \in Deal \X EntryType |-> rows[e[1]][e[2]] * AmountOf(e[1], e[2])]

SumOf(D, T) == SumFunctionOnSet(Posted, D \X T)

\* sumEscrowedByCampaign, and the admin's and the brand's "held"
Held(D) == SumOf(D, EntryType)

\* sumSettledByCampaign
Settled(D) ==
  [ paidOut    |-> -SumOf(D, {"release_payout"}),
    commission |-> -SumOf(D, {"commission"}),
    refunded   |-> -SumOf(D, {"refund"}) ]

\* earningsQuery, for a creator with the deals D
Earnings(D) == [ paidOut |-> -SumOf(D, {"release_payout"}), inEscrow |-> SumOf(D, EntryType) ]

\* The brand dashboard's meters and its spend chart: gross holds, refunded ones included
GrossHolds(D) == SumOf(D, {"hold"})

\* reconciled: the sum against the newest row's balance_after
Reconciled(c) == Held(DealsOf(c)) = balanceAfter[c]

----------------------------------------------------------------------------
\* Sums over the deals

PriceOf(D) == SumFunctionOnSet(Price, D)

\* sumCommittedByDeals
Committed(D) == PriceOf({ d \in D : dealStatus[d] \in CommittingStatuses })

\* The admin's worklist, of the deals nobody flagged
Worklist == { d \in Deal : dealStatus[d] \in RefundableFrom }

----------------------------------------------------------------------------
\* Properties

\* Offers out or answered, whose price the budget counts and the ledger does not
NotFunded(D) == { d \in D : dealStatus[d] \in {"pending", "accepted"} }

\* Whatever calls interleave, are retried or die half-way, the pages agree on a campaign's
\* money at every moment.  The sum the ledger's guard re-reads is what the admin's rows add
\* up to, and what the deals on the worklist cost; what the budget page counts as committed
\* is what the ledger holds and has paid, commission included, and the offers not funded
\* yet; gross holds exceed that by exactly what was refunded; and the creators' dashboards
\* share out the brand's figures without a rest.
ScreensReconcile ==
  \A c \in Campaign :
    LET D == DealsOf(c)  s == Settled(D) IN
    /\ Reconciled(c)
    /\ escrowed[c] = Held(D)
    /\ Held(D) = PriceOf(D \cap Worklist)
    /\ Committed(D) = Held(D) + s.paidOut + s.commission + PriceOf(NotFunded(D))
    /\ GrossHolds(D) = Committed(D) + s.refunded - PriceOf(NotFunded(D))
    /\ s.paidOut = SumFunctionOnSet([d \in D |-> Earnings({d}).paidOut], D)
    /\ Held(D) = SumFunctionOnSet([d \in D |-> Earnings({d}).inEscrow], D)
=============================================================================
