---------------------------- MODULE MCWithdrawals ----------------------------
(***************************************************************************)
(* Instances of Withdrawals for TLC, with the properties that sum over     *)
(* rows and the refinement of the abstract payout.                         *)
(***************************************************************************)
EXTENDS Withdrawals, FiniteSetsExt, TLC

\* Requests of one worker are interchangeable, and so are the cron runs.
Symmetric == Permutations(Txn) \union Permutations(Poller)

\* What the rows of a worker keep out of the wallet.
Withheld(w) ==
    MapThenSumSet(LAMBDA t : row[t].amount,
        {t \in Txn : row[t].worker = w
                     /\ row[t].status \in {"processing", "completed", "reversed"}})

\* The books balance: a wallet is what it started with minus the withdrawals
\* that are open, paid or reversed; a failed one leaves no trace in it.
WalletBooks == \A w \in Worker : wallet[w] = Balance - Withheld(w)
=============================================================================
