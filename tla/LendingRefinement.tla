-------------------------- MODULE LendingRefinement --------------------------
(***************************************************************************)
(* The loans of Lending as those of Borrowing.                             *)
(***************************************************************************)
EXTENDS Lending

\* A loan whose row was never made, was made, or was booked.
LoanStage(l) ==
    IF Fresh(l) THEN "none" ELSE IF booked[l] = 0 THEN "agreed" ELSE "lent"

\* Nothing is owed on a row before the loan is booked, whatever the row says.
Rest(l) == IF booked[l] = 0 THEN 0 ELSE loan[l].out

Abstract == INSTANCE Borrowing WITH
    stage <- [l \in Loan |-> LoanStage(l)],
    owed <- [l \in Loan |-> Rest(l)],
    paid <- received

\* Of requests that do not overlap no repayment is lost and no debt changes without one,
\* whatever the risk cron reads before and writes after them, and a loan is lent once,
\* with all of the principal owed (bank-loans.service.ts:217, :353; loans.service.ts;
\* job-completion.service.ts:265; bank-risk-flagging.cron.ts:98).
ImplementsBorrowing == Abstract!Spec
=============================================================================
