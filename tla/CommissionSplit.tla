--------------------------- MODULE CommissionSplit --------------------------
(***************************************************************************)
(* How one deal's price is split between the creator and the platform.     *)
(* Prices are integer santim, rates integer basis points (15.00% = 1500).  *)
(*                                                                         *)
(* Source: computeSplit, src/lib/payment/ledger.ts                         *)
(***************************************************************************)
EXTENDS Integers

FullRateBp == 10000

\* Math.round(total * rateBp / 10000): half rounds up, for natural numbers.
Commission(total, rateBp) ==
  (2 * (total * rateBp) + FullRateBp) \div (2 * FullRateBp)

\* Subtraction, never a second multiplication, so the two legs always add up.
Payout(total, rateBp) == total - Commission(total, rateBp)
=============================================================================
