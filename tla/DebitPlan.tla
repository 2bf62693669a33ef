----------------------------- MODULE DebitPlan -----------------------------
(***************************************************************************)
(* What a debit plan is: the wallet pays first, then the linked bank       *)
(* accounts in priority order, each as much as it has available, until the *)
(* amount is covered.  This is the reference definition: SourcingEngine    *)
(* computes it with a loop, TransferService executes it leg by leg.        *)
(***************************************************************************)
EXTENDS Integers

Smaller(a, b) == IF a <= b THEN a ELSE b

\* The wallet leg: everything available, at most the amount.
WalletShare(ledger, amount) == Smaller(ledger, amount)

\* What is still to be sourced before and after each of the n accounts.  There
\* is exactly one such function: each account contributes all it can.
Remainders(first, avail, n) ==
    {rem \in [0..n -> 0..first] :
        /\ rem[0] = first
        /\ \A i \in 1..n : rem[i] = rem[i - 1] - Smaller(avail[i], rem[i - 1])}

\* The bank legs those remainders stand for; an amount of 0 is no leg.
BankShares(rem, n) == [i \in 1..n |-> rem[i - 1] - rem[i]]

\* The legs add up to the amount: a running total goes from the wallet leg
\* over the n accounts to it.
AddsUp(first, shares, n, amount) ==
    \E total \in [0..n -> 0..amount] :
        /\ total[0] = first
        /\ \A i \in 1..n : total[i] = total[i - 1] + shares[i]
        /\ total[n] = amount

=============================================================================
