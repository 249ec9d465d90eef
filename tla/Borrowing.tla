------------------------------ MODULE Borrowing ------------------------------
(***************************************************************************)
(* What a borrower is promised about a loan, whoever decides, books, pays  *)
(* or cuts, and whatever the risk cron writes meanwhile: it is lent once,  *)
(* what is owed then is the principal, and every payment takes off what    *)
(* was paid until nothing is owed; nothing else changes the debt.          *)
(***************************************************************************)
EXTENDS Integers

CONSTANTS Loan,       \* loans
          Principal   \* the amount of every loan

VARIABLES stage,      \* stage[l]: "none", "agreed" or "lent"
          owed,       \* owed[l]: what is left to pay of loan l
          paid        \* paid[l]: what was paid for it

vars == <<stage, owed, paid>>

Init ==
    /\ stage = [l \in Loan |-> "none"]
    /\ owed = [l \in Loan |-> 0]
    /\ paid = [l \in Loan |-> 0]

\* The loan is granted, or asked for, and nothing is paid out yet.
Agree(l) ==
    /\ stage[l] = "none"
    /\ stage' = [stage EXCEPT ![l] = "agreed"]
    /\ UNCHANGED <<owed, paid>>

\* The money is lent; a loan may be granted and lent at once.
Lend(l) ==
    /\ stage[l] # "lent"
    /\ stage' = [stage EXCEPT ![l] = "lent"]
    /\ owed' = [owed EXCEPT ![l] = Principal]
    /\ UNCHANGED paid

\* A payment; what exceeds the debt is not promised back.
Repay(l) ==
    /\ stage[l] = "lent"
    /\ \E n \in 1..Principal :
         /\ owed' = [owed EXCEPT ![l] = IF n >= @ THEN 0 ELSE @ - n]
         /\ paid' = [paid EXCEPT ![l] = @ + n]
    /\ UNCHANGED stage

Next == \E l \in Loan : Agree(l) \/ Lend(l) \/ Repay(l)

Spec == Init /\ [][Next]_vars
=============================================================================
