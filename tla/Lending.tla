------------------------------- MODULE Lending -------------------------------
(***************************************************************************)
(* Loans: an application filed with a bank (employer-loan-applications),   *)
(* its decision (bank-applications.service.ts), disbursement and           *)
(* repayment (bank-loans.service.ts), the hourly risk cron                 *)
(* (bank-risk-flagging.cron.ts), the loan a worker takes from the app      *)
(* (loans.service.ts) and the cut a job payment makes on it                *)
(* (job-completion.service.ts).                                            *)
(*                                                                         *)
(* Every handler reads without a lock and writes what it computed from     *)
(* what it read; a request is a process that holds what it has seen.       *)
(* Prisma reads a row and the rows it includes by separate queries.        *)
(* Amounts are in units of one instalment.                                 *)
(***************************************************************************)
EXTENDS Integers, FiniteSets

CONSTANTS
    Application,  \* rows of LoanApplication
    Loan,         \* ids that new loans take
    Request,      \* requests in flight
    Principal,    \* the amount of every loan
    Months,       \* instalments of a loan disbursed by a bank
    Cuts          \* what a job payment can take off a loan

ASSUME LendAssumption ==
    Principal \in Nat \ {0} /\ Months \in Nat \ {0} /\ Cuts \subseteq Nat

VARIABLES
    kind,         \* Application -> who applies
    app,          \* Application -> LoanApplication.status
    loan,         \* Loan -> the row, by the columns below
    rep,          \* Loan -> month -> LoanRepayment.status, "none": no such row
    late,         \* Loan -> month -> how late an instalment is (LateLevel)
    req,          \* Request -> what it is doing and what it has seen
    flagging,     \* the rows the risk cron has read and not yet handled
    sent,         \* Loan -> transfers of its principal that Squad accepted
    booked,       \* Loan -> committed disbursements
    received,     \* Loan -> repayments somebody was told are accepted
    bank          \* Bank.totalActiveLoans and totalDisbursedNaira

lendVars == <<kind, app, loan, rep, late, req, flagging, sent, booked,
              received, bank>>
-----------------------------------------------------------------------------
Month == 1..Months

\* Days overdue as the cron tells them apart: 0, 1 to 7, 8 to 29, 30 and more.
LateLevel == 0..3

NoLoanRow == [by |-> "nobody", of |-> "none", status |-> "none",
              risk |-> "green", out |-> 0, told |-> FALSE]

Open == {"active", "at_risk"}

LoanRow ==
    [by : {"nobody", "bank", "worker"},  \* who created it: bankId is set or not
     of : {"none", "worker", "business"},
     status : {"none", "pending", "approved", "active", "at_risk", "defaulted",
               "repaid"},
     risk : {"green", "yellow", "red"},
     out : 0..Principal,                 \* outstandingBalance
     told : BOOLEAN]                     \* the notification ntf_<loan>_repaid

Seen == [status : Open, risk : {"green", "yellow", "red"}, out : 0..Principal]

Idle == [at |-> "idle"]

Doing ==
    {Idle}
    \union [at : {"decide"}, a : Application]
    \union [at : {"transfer", "book"}, l : Loan]
    \union [at : {"due"}, l : Loan, i : Month]
    \union [at : {"mark"}, l : Loan, i : Month, seen : Seen]
    \union [at : {"cut"}, l : Loan, out : 0..Principal]
    \union [at : {"wanted"}]

Flag == [l : Loan, status : Open, risk : {"green", "yellow", "red"},
         due : 0..Months, missed : BOOLEAN, days : LateLevel]

LendTypeOK ==
    /\ kind \in [Application -> {"worker", "business"}]
    /\ app \in [Application -> {"none", "pending", "approved", "rejected"}]
    /\ loan \in [Loan -> LoanRow]
    /\ rep \in [Loan -> [Month -> {"none", "scheduled", "missed", "paid"}]]
    /\ late \in [Loan -> [Month -> LateLevel]]
    /\ req \in [Request -> Doing]
    /\ flagging \subseteq Flag
    /\ sent \in [Loan -> Nat] /\ booked \in [Loan -> Nat]
    /\ received \in [Loan -> Nat]
    /\ bank \in [active : Int, total : Nat]

\* Nothing in src/ files an application for a worker; the seed data does.
LendInit ==
    /\ kind \in [Application -> {"worker", "business"}]
    /\ app = [a \in Application |-> IF kind[a] = "worker" THEN "pending" ELSE "none"]
    /\ loan = [l \in Loan |-> NoLoanRow]
    /\ rep = [l \in Loan |-> [i \in Month |-> "none"]]
    /\ late = [l \in Loan |-> [i \in Month |-> 0]]
    /\ req = [r \in Request |-> Idle]
    /\ flagging = {}
    /\ sent = [l \in Loan |-> 0] /\ booked = [l \in Loan |-> 0]
    /\ received = [l \in Loan |-> 0]
    /\ bank = [active |-> 0, total |-> 0]
-----------------------------------------------------------------------------
Reply(r) == req' = [req EXCEPT ![r] = Idle]
Turn(r, what) == req[r].at = "idle" /\ req' = [req EXCEPT ![r] = what]
Fresh(l) == loan[l].status = "none"

rows == <<loan, rep, late>>
books == <<sent, booked, received, bank>>

(* Applications *)

\* POST /v1/employer/loan-applications.
Apply(a) ==
    /\ kind[a] = "business" /\ app[a] = "none"
    /\ app' = [app EXCEPT ![a] = "pending"]
    /\ UNCHANGED <<kind, rows, req, flagging, books>>

\* An officer opens the application to approve or to reject it: 409 unless pending.
OpenApplication(r, a) ==
    /\ app[a] = "pending"
    /\ Turn(r, [at |-> "decide", a |-> a])
    /\ UNCHANGED <<kind, app, rows, flagging, books>>

\* The transaction of approve: a new loan, then the status, which is not checked again.
Approve(r, l) ==
    /\ req[r].at = "decide" /\ Fresh(l)
    /\ loan' = [loan EXCEPT ![l] =
                  [NoLoanRow EXCEPT !.by = "bank", !.of = kind[req[r].a],
                                    !.status = "approved", !.out = Principal]]
    /\ app' = [app EXCEPT ![req[r].a] = "approved"]
    /\ Reply(r)
    /\ UNCHANGED <<kind, rep, late, flagging, books>>

Reject(r) ==
    /\ req[r].at = "decide"
    /\ app' = [app EXCEPT ![req[r].a] = "rejected"]
    /\ Reply(r)
    /\ UNCHANGED <<kind, rows, flagging, books>>
-----------------------------------------------------------------------------
(* Disbursement by the bank *)

\* The read of disburse.  Squad pays a worker who has a default account; a
\* business, or a worker without one, is only booked.
OpenDisburse(r, l) ==
    /\ loan[l].by = "bank" /\ loan[l].status = "approved"
    /\ \/ loan[l].of = "worker" /\ Turn(r, [at |-> "transfer", l |-> l])
       \/ Turn(r, [at |-> "book", l |-> l])
    /\ UNCHANGED <<kind, app, rows, flagging, books>>

\* The transfer has a new reference each time; a refusal answers 502.
SendLoan(r) ==
    /\ req[r].at = "transfer"
    /\ \/ /\ sent' = [sent EXCEPT ![req[r].l] = @ + 1]
          /\ req' = [req EXCEPT ![r].at = "book"]
       \/ Reply(r) /\ UNCHANGED sent
    /\ UNCHANGED <<kind, app, rows, flagging, booked, received, bank>>

\* Variant: as if the numbers of a schedule were not unique.
ScheduleFree(l) == FALSE

\* The ids of the instalments are derived from the loan's (rep_<loan>_<i>), so
\* the transaction of a second disbursement breaks on them and is rolled back.
ScheduleTaken(l) == \E i \in Month : rep[l][i] # "none"

Book(r) ==
    LET l == req[r].l IN
    /\ req[r].at = "book"
    /\ ~ ScheduleTaken(l)
    /\ loan' = [loan EXCEPT ![l].status = "active", ![l].risk = "green",
                            ![l].out = Principal]
    /\ rep' = [rep EXCEPT ![l] = [i \in Month |-> "scheduled"]]
    /\ booked' = [booked EXCEPT ![l] = @ + 1]
    /\ bank' = [active |-> bank.active + 1, total |-> bank.total + Principal]
    /\ Reply(r)
    /\ UNCHANGED <<kind, app, late, flagging, sent, received>>

BookFails(r) ==
    /\ req[r].at = "book" /\ ScheduleTaken(req[r].l)
    /\ Reply(r)
    /\ UNCHANGED <<kind, app, rows, flagging, books>>
-----------------------------------------------------------------------------
(* Repayment *)

\* markRepaymentPaid reads the instalment, then the loan it belongs to.
OpenRepayment(r, l, i) ==
    /\ rep[l][i] \in {"scheduled", "missed"}
    /\ Turn(r, [at |-> "due", l |-> l, i |-> i])
    /\ UNCHANGED <<kind, app, rows, flagging, books>>

ReadLoan(r) ==
    /\ req[r].at = "due"
    /\ LET l == req[r].l IN
       IF loan[l].status \in Open
       THEN req' = [req EXCEPT ![r] =
                      [at |-> "mark", l |-> l, i |-> req[r].i,
                       seen |-> [status |-> loan[l].status, risk |-> loan[l].risk,
                                 out |-> loan[l].out]]]
       ELSE Reply(r)
    /\ UNCHANGED <<kind, app, rows, flagging, books>>

\* Variant: as if an instalment were taken off twice.
LeftTwice(seen, amount) == IF 2 * amount >= seen.out THEN 0 ELSE seen.out - 2 * amount

\* What is left after amount; an override may exceed the instalment.
Left(seen, amount) == IF amount >= seen.out THEN 0 ELSE seen.out - amount

\* The transaction: absolute values from what was read.  The worker's message of
\* full repayment has a fixed id, so a second one breaks the transaction.
MarkPaid(r, amount) ==
    LET l == req[r].l
        seen == req[r].seen
        out == Left(seen, amount)
        all == out = 0
        tells == all /\ loan[l].of = "worker" IN
    /\ req[r].at = "mark"
    /\ ~ (tells /\ loan[l].told)
    /\ rep' = [rep EXCEPT ![l][req[r].i] = "paid"]
    /\ loan' = [loan EXCEPT ![l].out = out,
                            ![l].status = IF all THEN "repaid" ELSE seen.status,
                            ![l].risk = IF all THEN "green" ELSE seen.risk,
                            ![l].told = @ \/ tells]
    /\ bank' = [bank EXCEPT !.active = IF all THEN @ - 1 ELSE @]
    /\ received' = [received EXCEPT ![l] = @ + amount]
    /\ Reply(r)
    /\ UNCHANGED <<kind, app, late, flagging, sent, booked>>

MarkFails(r, amount) ==
    /\ req[r].at = "mark"
    /\ Left(req[r].seen, amount) = 0 /\ loan[req[r].l].of = "worker"
    /\ loan[req[r].l].told
    /\ Reply(r)
    /\ UNCHANGED <<kind, app, rows, flagging, books>>

\* A job of the worker is paid: the active loan is read and cut in one
\* transaction, which does not keep others from writing the row in between.
SeeLoan(r, l) ==
    /\ loan[l].of = "worker" /\ loan[l].status = "active" /\ loan[l].out > 0
    /\ Turn(r, [at |-> "cut", l |-> l, out |-> loan[l].out])
    /\ UNCHANGED <<kind, app, rows, flagging, books>>

CutLoan(r, part) ==
    LET l == req[r].l
        cut == IF part > req[r].out THEN req[r].out ELSE part
        out == req[r].out - cut IN
    /\ req[r].at = "cut"
    /\ loan' = [loan EXCEPT ![l].out = out,
                            ![l].status = IF out = 0 THEN "repaid" ELSE "active"]
    /\ received' = [received EXCEPT ![l] = @ + cut]
    /\ Reply(r)
    /\ UNCHANGED <<kind, app, rep, late, flagging, sent, booked, bank>>
-----------------------------------------------------------------------------
(* The worker's own loan, from the app *)

\* LoansService.apply reads that no loan blocks (approved and at_risk ones do not).
Want(r) ==
    /\ ~ \E l \in Loan : loan[l].of = "worker" /\ loan[l].status \in {"pending", "active"}
    /\ Turn(r, [at |-> "wanted"])
    /\ UNCHANGED <<kind, app, rows, flagging, books>>

\* An excellent score and a small principal approve it on the spot, into the
\* wallet; otherwise it stays pending: it has no bank, and nobody decides it.
Take(r, l) ==
    /\ req[r].at = "wanted" /\ Fresh(l)
    /\ \E auto \in BOOLEAN :
         /\ loan' = [loan EXCEPT ![l] =
               [NoLoanRow EXCEPT !.by = "worker", !.of = "worker", !.out = Principal,
                                 !.status = IF auto THEN "active" ELSE "pending"]]
         /\ booked' = [booked EXCEPT ![l] = IF auto THEN 1 ELSE 0]
    /\ Reply(r)
    /\ UNCHANGED <<kind, app, rep, late, flagging, sent, received, bank>>
-----------------------------------------------------------------------------
(* Time and the risk cron *)

\* Instalments are a month apart: a later one is overdue only when the one before
\* it is overdue by at least 8 days.
GrowLate(l, i) ==
    /\ rep[l][i] # "none" /\ late[l][i] < 3
    /\ i > 1 => late[l][i - 1] >= 2
    /\ late' = [late EXCEPT ![l][i] = @ + 1]
    /\ UNCHANGED <<kind, app, loan, rep, req, flagging, books>>

Unpaid(l) == {i \in Month : rep[l][i] \in {"scheduled", "missed"}}
First(S) == CHOOSE i \in S : \A j \in S : i <= j

\* The row of findMany: the loan with its earliest unpaid instalment, if any.
FlagOf(l) ==
    LET i == IF Unpaid(l) = {} THEN 0 ELSE First(Unpaid(l)) IN
    [l |-> l, status |-> loan[l].status, risk |-> loan[l].risk, due |-> i,
     missed |-> i # 0 /\ rep[l][i] = "missed",
     days |-> IF i = 0 THEN 0 ELSE late[l][i]]

\* Variant: as if a loan that is at risk were not read again.
CronReadsActive ==
    /\ flagging = {}
    /\ flagging' = {FlagOf(l) : l \in {k \in Loan : loan[k].by = "bank"
                                                     /\ loan[k].status = "active"}}
    /\ flagging' # {}
    /\ UNCHANGED <<kind, app, rows, req, books>>

CronReads ==
    /\ flagging = {}
    /\ flagging' = {FlagOf(l) : l \in {k \in Loan : loan[k].by = "bank"
                                                     /\ loan[k].status \in Open}}
    /\ flagging' # {}
    /\ UNCHANGED <<kind, app, rows, req, books>>

Derive(days) ==
    CASE days = 3 -> [status |-> "defaulted", risk |-> "red"]
      [] days = 2 -> [status |-> "at_risk", risk |-> "red"]
      [] days = 1 -> [status |-> "at_risk", risk |-> "yellow"]
      [] days = 0 -> [status |-> "active", risk |-> "green"]

\* One loan of the batch, as it was read: status and risk, and the instalment is
\* marked missed, whatever has become of either since.
FlagLoan(f) ==
    LET now == Derive(f.days)
        miss == f.due # 0 /\ f.days > 0 /\ ~ f.missed IN
    /\ f \in flagging
    /\ flagging' = flagging \ {f}
    /\ IF now.status # f.status \/ now.risk # f.risk \/ miss
       THEN loan' = [loan EXCEPT ![f.l].status = now.status, ![f.l].risk = now.risk]
       ELSE UNCHANGED loan
    /\ IF miss
       THEN rep' = [rep EXCEPT ![f.l][f.due] = "missed"]
       ELSE UNCHANGED rep
    /\ UNCHANGED <<kind, app, late, req, books>>
-----------------------------------------------------------------------------
Officer(r) ==
    \/ \E a \in Application : OpenApplication(r, a)
    \/ \E l \in Loan : Approve(r, l) \/ OpenDisburse(r, l)
    \/ Reject(r) \/ SendLoan(r) \/ Book(r) \/ BookFails(r)
    \/ \E l \in Loan, i \in Month : OpenRepayment(r, l, i)
    \/ ReadLoan(r)
    \/ \E amount \in 1..Principal : MarkPaid(r, amount) \/ MarkFails(r, amount)

Worker(r) ==
    \/ Want(r)
    \/ \E l \in Loan : Take(r, l) \/ SeeLoan(r, l)
    \/ \E part \in Cuts : CutLoan(r, part)

LendNext ==
    \/ \E a \in Application : Apply(a)
    \/ \E r \in Request : Officer(r) \/ Worker(r)
    \/ \E l \in Loan, i \in Month : GrowLate(l, i)
    \/ CronReads
    \/ \E f \in flagging : FlagLoan(f)

\* Nest runs the cron every hour; nothing obliges anybody else to act.
LendFair == WF_lendVars(CronReads) /\ WF_lendVars(\E f \in flagging : FlagLoan(f))
-----------------------------------------------------------------------------
(* The money of a loan is booked once, and the books of the bank say what was
   disbursed, however many officers press the button together: what protects
   them is the id of the instalments (bank-loans.service.ts:217). *)
DisbursedOnce ==
    /\ \A l \in Loan : booked[l] <= 1
    /\ bank.total = Principal * Cardinality({l \in Loan : loan[l].by = "bank"
                                                           /\ booked[l] = 1})

(* Nobody owes less than was lent and not repaid: handlers that overwrite each
   other's balance lose a repayment, never a debt; and a loan called repaid has
   nothing outstanding. *)
OwedCoversRest ==
    \A l \in Loan :
        /\ loan[l].status # "none" => loan[l].out + received[l] >= Principal
        /\ loan[l].status = "repaid" => loan[l].out = 0

(* A loan of a bank whose earliest unpaid instalment is thirty days late is
   defaulted, repaid or paid up to there in the end, whatever handlers write over
   what the cron wrote. *)
Overdue(l) ==
    /\ loan[l].by = "bank" /\ loan[l].status \in Open
    /\ Unpaid(l) # {} /\ late[l][First(Unpaid(l))] = 3

OverdueDefaults == \A l \in Loan : Overdue(l) ~> ~ Overdue(l)

LendSpec == LendInit /\ [][LendNext]_lendVars /\ LendFair
=============================================================================
