------------------------------ MODULE JobEscrow ------------------------------
(***************************************************************************)
(* A job from its creation to the payment of the workers who did it, and   *)
(* the employer's money on the way: reserved when the job is published,    *)
(* refunded when it is cancelled, moved to a worker when a session is      *)
(* completed (employer-jobs.service.ts, job-reservation.service.ts,        *)
(* jobs.service.ts, applications.service.ts, sessions.service.ts,          *)
(* employer-work-sessions.service.ts, job-completion.service.ts and the    *)
(* crons auto-release and pending-verification-timeout).                   *)
(*                                                                         *)
(* Every handler has the same shape: it reads the rows it needs, checks    *)
(* them, and only then opens a transaction, which under READ COMMITTED     *)
(* reads again without locks before it writes.  Here a handler is a task   *)
(* of an agent (a request or a run of a cron): it starts with the first    *)
(* read, some operations then look at the rows inside the transaction, and *)
(* the writes, made from what was seen, commit in one step.  Agents        *)
(* interleave between these steps; one agent alone makes the system        *)
(* serial.                                                                 *)
(***************************************************************************)
EXTENDS Integers, FiniteSets

CONSTANTS
    Agent,      \* handlers that may be under way at the same time
    Worker,     \* workers
    Job,        \* jobs of one employer
    Pay,        \* what a job can pay each worker
    Slots,      \* values of maxWorkers
    Funds,      \* the employer's wallet at the start
    Debt,       \* outstanding balance of each worker's loan at the start
    Percent,    \* repaymentPercentPerJob, in percent
    Ops,        \* operations that are exercised
    OffFeed,    \* whether workers apply to jobs the feed does not list
    MixedUse,   \* whether jobs of several slots also get single-slot accepts
    Idle,       \* the state of an agent without a task
    Nobody      \* the worker of a task about a job

ASSUME RowsAssumption == IsFiniteSet(Worker) /\ IsFiniteSet(Job)
ASSUME PayAssumption == Pay \subseteq Nat \ {0}
ASSUME SlotsAssumption == Slots \subseteq Nat \ {0}
ASSUME MoneyAssumption == Funds \in Nat /\ Debt \in Nat /\ Percent \in 0..100
ASSUME ModeAssumption == OffFeed \in BOOLEAN /\ MixedUse \in BOOLEAN
ASSUME NobodyAssumption == Nobody \notin Worker

VARIABLES
    wallet,     \* Employer.walletBalanceNaira
    paused,     \* Employer.payoutsPaused
    job,        \* the Job rows
    app,        \* the status of each worker's application to each job
    session,    \* the WorkSession of each application, with its open dispute
    balance,    \* Worker.walletBalance, as far as job payments feed it
    debt,       \* Loan.outstandingBalance of each worker
    payments,   \* how often each application was paid a positive amount
    arrears,    \* applications with a job_payment row left pending
    task        \* what each agent is doing

money == <<wallet, balance, debt, payments, arrears>>
vars == <<money, paused, job, app, session, task>>
-----------------------------------------------------------------------------
Item == Worker \X Job

JobStatus == {"none", "draft", "open", "accepted", "in_progress",
              "pending_verification", "completed", "cancelled"}

JobRow == [status : JobStatus, pay : Nat, slots : Nat, reserved : Int,
           accepted : Nat, filled : BOOLEAN, assigned : BOOLEAN]

AppStatus == {"none", "applied", "accepted", "rejected", "withdrawn",
              "in_progress", "pending_verification", "completed"}

\* Applications of workers who still have work or its payment before them.
InFlight == {"accepted", "in_progress", "pending_verification"}

\* hold is holdReleaseAt (null, ahead or past); out is clockOutAt (null, or on
\* either side of the cutoff of the timeout cron).
SessionRow == [status : {"none", "in_progress", "completed"},
               review : {"auto_review", "employer_confirmed", "disputed",
                         "auto_released"},
               hold : {"none", "running", "due"},
               out : {"none", "recent", "old"},
               pending : Nat, disbursed : Nat, dispute : BOOLEAN]

OpName == {"create", "update", "publish", "cancel", "accept", "accept_slot",
           "reject", "apply", "withdraw", "clock_in", "clock_out", "confirm",
           "dispute", "auto_release", "timeout", "pause"}

\* What a handler remembers of the rows it has read.
Seen == [amount : Nat, count : Nat, status : JobStatus, last : BOOLEAN,
         ok : BOOLEAN]

Blank == [amount |-> 0, count |-> 0, status |-> "none", last |-> FALSE,
          ok |-> FALSE]

\* A task is "asked" when its checks have passed, "locked" when it holds the
\* lock of its session row, "read" when it has read inside the transaction, and
\* "mark" when the auto-release cron has yet to set the verification state.
Task == [op : OpName, stage : {"asked", "locked", "read", "skip", "mark"},
         worker : Worker \union {Nobody}, job : Job, seen : Seen]

ASSUME IdleAssumption == Idle \notin Task

TypeOK ==
    /\ wallet \in Int
    /\ paused \in BOOLEAN
    /\ job \in [Job -> JobRow]
    /\ app \in [Item -> AppStatus]
    /\ session \in [Item -> SessionRow]
    /\ balance \in [Worker -> Int]
    /\ debt \in [Worker -> Nat]
    /\ payments \in [Item -> Nat]
    /\ arrears \subseteq Item
    /\ task \in [Agent -> Task \union {Idle}]

NoSession == [status |-> "none", review |-> "auto_review", hold |-> "none",
              out |-> "none", pending |-> 0, disbursed |-> 0,
              dispute |-> FALSE]

Init ==
    /\ wallet = Funds
    /\ paused = FALSE
    /\ job = [j \in Job |-> [status |-> "none", pay |-> 0, slots |-> 0,
                             reserved |-> 0, accepted |-> 0, filled |-> FALSE,
                             assigned |-> FALSE]]
    /\ app = [i \in Item |-> "none"]
    /\ session = [i \in Item |-> NoSession]
    /\ balance = [w \in Worker |-> 0]
    /\ debt = [w \in Worker |-> Debt]
    /\ payments = [i \in Item |-> 0]
    /\ arrears = {}
    /\ task = [a \in Agent |-> Idle]
-----------------------------------------------------------------------------
(***************************************************************************)
(* Tasks.                                                                  *)
(***************************************************************************)

\* A handler passes its checks and remembers what it saw.
Start(a, op, w, j, seen) ==
    /\ op \in Ops
    /\ task[a] = Idle
    /\ task' = [task EXCEPT ![a] = [op |-> op, stage |-> "asked", worker |-> w,
                                    job |-> j, seen |-> seen]]
    /\ UNCHANGED <<money, paused, job, app, session>>

\* A handler reads inside its transaction.
Look(a, stage, seen) ==
    /\ task' = [task EXCEPT ![a].stage = stage, ![a].seen = seen]
    /\ UNCHANGED <<money, paused, job, app, session>>

At(a, op, stage) == task[a] # Idle /\ task[a].op = op /\ task[a].stage = stage

Done(a) == task' = [task EXCEPT ![a] = Idle]

ItemOf(a) == <<task[a].worker, task[a].job>>

\* Variant: the completion reads before the session row is written.
UnlockedAlways(a, i) == TRUE

\* Only confirm writes its session row before it reads: until it commits, no
\* other agent can write that row.
Unlocked(a, i) ==
    \A b \in Agent \ {a} :
        task[b] # Idle => ~(/\ task[b].op = "confirm" /\ ItemOf(b) = i
                            /\ task[b].stage \in {"locked", "read", "skip"})

\* A refused check inside the transaction, an error or a crash of the server
\* ends a task with nothing written since its last commit.
Abort(a) ==
    /\ task[a] # Idle
    /\ Done(a)
    /\ UNCHANGED <<money, paused, job, app, session>>
-----------------------------------------------------------------------------
(***************************************************************************)
(* The employer's side: EmployerJobsService and JobReservationService.     *)
(***************************************************************************)

\* Variant: any positive balance will do.
AffordableAny(amount) == wallet > 0

\* reserveOrThrow: the balance is compared with the amount in an unlocked read
\* (Affordable), then decremented as it is at that time, and the reserve is set.
Affordable(amount) == wallet >= amount

\* create, which publishes at once when postNow (the flag ok) is set.
StartCreate(a) ==
    \E j \in Job, pay \in Pay, slots \in Slots, postNow \in BOOLEAN :
        /\ job[j].status = "none"
        /\ Start(a, "create", Nobody, j,
                 [Blank EXCEPT !.amount = pay, !.count = slots, !.ok = postNow])

\* The unlocked read of the wallet.  A draft needs none.
ReadCreate(a) ==
    /\ At(a, "create", "asked")
    /\ task[a].seen.ok => Affordable(task[a].seen.amount * task[a].seen.count)
    /\ Look(a, "read", task[a].seen)

Create(a) ==
    LET seen == task[a].seen
        reserve == IF seen.ok THEN seen.amount * seen.count ELSE 0
    IN  /\ At(a, "create", "read")
        /\ job[task[a].job].status = "none"
        /\ job' = [job EXCEPT ![task[a].job] =
                     [status |-> IF seen.ok THEN "open" ELSE "draft",
                      pay |-> seen.amount, slots |-> seen.count,
                      reserved |-> reserve, accepted |-> 0, filled |-> FALSE,
                      assigned |-> FALSE]]
        /\ wallet' = wallet - reserve
        /\ Done(a)
        /\ UNCHANGED <<paused, app, session, balance, debt, payments, arrears>>

\* Variant: the pay of an open job may change.
StartUpdateReserved(a) ==
    \E j \in Job, pay \in Pay :
        /\ job[j].status \in {"draft", "open"}
        /\ Start(a, "update", Nobody, j, [Blank EXCEPT !.amount = pay])

\* update: the pay of a draft or an open job may change while nothing is
\* reserved for it.
StartUpdate(a) ==
    \E j \in Job, pay \in Pay :
        /\ job[j].status \in {"draft", "open"}
        /\ pay # job[j].pay => job[j].reserved <= 0
        /\ Start(a, "update", Nobody, j, [Blank EXCEPT !.amount = pay])

Update(a) ==
    /\ At(a, "update", "asked")
    /\ job' = [job EXCEPT ![task[a].job].pay = task[a].seen.amount]
    /\ Done(a)
    /\ UNCHANGED <<money, paused, app, session>>

\* publish: the amount comes from the job as it was read first.
StartPublish(a) ==
    \E j \in Job :
        /\ job[j].status = "draft"
        /\ Start(a, "publish", Nobody, j,
                 [Blank EXCEPT !.amount = job[j].pay * job[j].slots])

ReadPublish(a) ==
    /\ At(a, "publish", "asked")
    /\ Affordable(task[a].seen.amount)
    /\ Look(a, "read", task[a].seen)

Publish(a) ==
    /\ At(a, "publish", "read")
    /\ job' = [job EXCEPT ![task[a].job].status = "open",
                          ![task[a].job].reserved = task[a].seen.amount]
    /\ wallet' = wallet - task[a].seen.amount
    /\ Done(a)
    /\ UNCHANGED <<paused, app, session, balance, debt, payments, arrears>>

\* Variant: a job that is over can be cancelled.
CancellableLate == {"draft", "open", "accepted", "completed"}

Cancellable == {"draft", "open", "accepted"}

StartCancel(a) ==
    \E j \in Job :
        /\ job[j].status \in Cancellable
        /\ Start(a, "cancel", Nobody, j, Blank)

\* refund reads the reserve inside the transaction, again without a lock.
ReadCancel(a) ==
    /\ At(a, "cancel", "asked")
    /\ LET reserved == job[task[a].job].reserved
       IN  Look(a, "read", [task[a].seen EXCEPT
                              !.amount = IF reserved > 0 THEN reserved ELSE 0])

\* Variant: the reserve is paid back but stays on the job.
CancelKeepingReserve(a) ==
    /\ At(a, "cancel", "read")
    /\ wallet' = wallet + task[a].seen.amount
    /\ job' = [job EXCEPT ![task[a].job].status = "cancelled"]
    /\ app' = [i \in Item |->
                IF i[2] = task[a].job /\ app[i] \in {"applied", "accepted"}
                THEN "rejected" ELSE app[i]]
    /\ Done(a)
    /\ UNCHANGED <<paused, session, balance, debt, payments, arrears>>

\* cancel: what was reserved goes back to the wallet and the applications that
\* have not led to a session are rejected.
Cancel(a) ==
    /\ At(a, "cancel", "read")
    /\ wallet' = wallet + task[a].seen.amount
    /\ job' = [job EXCEPT ![task[a].job].status = "cancelled",
                          ![task[a].job].reserved = IF task[a].seen.amount > 0
                                                    THEN 0 ELSE @]
    /\ app' = [i \in Item |->
                IF i[2] = task[a].job /\ app[i] \in {"applied", "accepted"}
                THEN "rejected" ELSE app[i]]
    /\ Done(a)
    /\ UNCHANGED <<paused, session, balance, debt, payments, arrears>>

\* acceptApplication, for the first worker of a job; the status of the job is
\* not looked at.
StartAccept(a) ==
    \E w \in Worker, j \in Job :
        /\ ~job[j].assigned
        /\ MixedUse \/ job[j].slots = 1
        /\ app[<<w, j>>] = "applied"
        /\ Start(a, "accept", w, j, Blank)

\* The other candidates are turned down with the same commit.
Decide(chosen, alone) ==
    app' = [i \in Item |->
             IF i = chosen THEN "accepted"
             ELSE IF alone /\ i[2] = chosen[2] /\ app[i] = "applied"
                  THEN "rejected" ELSE app[i]]

Accept(a) ==
    /\ At(a, "accept", "asked")
    /\ Decide(ItemOf(a), TRUE)
    /\ job' = [job EXCEPT ![task[a].job].status = "accepted",
                          ![task[a].job].assigned = TRUE]
    /\ Done(a)
    /\ UNCHANGED <<money, paused, session>>

\* acceptApplicationSlot, for jobs of several slots: whether this is the last
\* slot is decided from the first read.
StartAcceptSlot(a) ==
    \E w \in Worker, j \in Job :
        /\ job[j].slots > 1
        /\ job[j].accepted < job[j].slots
        /\ app[<<w, j>>] = "applied"
        /\ Start(a, "accept_slot", w, j,
                 [Blank EXCEPT !.last = job[j].accepted + 1 >= job[j].slots])

\* The count is read again in the transaction; the read takes no lock.
ReadAcceptSlot(a) ==
    /\ At(a, "accept_slot", "asked")
    /\ LET row == job[task[a].job]
       IN  /\ row.accepted < row.slots
           /\ Look(a, "read", [task[a].seen EXCEPT !.count = row.accepted + 1,
                                                   !.status = row.status])

\* Variant: the counter is not advanced.
AcceptSlotUncounted(a) ==
    LET seen == task[a].seen
        full == seen.count >= job[task[a].job].slots
    IN  /\ At(a, "accept_slot", "read")
        /\ Decide(ItemOf(a), seen.last)
        /\ job' = [job EXCEPT ![task[a].job].status = IF full THEN "accepted" ELSE seen.status]
        /\ Done(a)
        /\ UNCHANGED <<money, paused, session>>

AcceptSlot(a) ==
    LET seen == task[a].seen
        full == seen.count >= job[task[a].job].slots
    IN  /\ At(a, "accept_slot", "read")
        /\ Decide(ItemOf(a), seen.last)
        /\ job' = [job EXCEPT ![task[a].job].status =
                                    IF full THEN "accepted" ELSE seen.status,
                              ![task[a].job].accepted = seen.count,
                              ![task[a].job].filled = full]
        /\ Done(a)
        /\ UNCHANGED <<money, paused, session>>

StartReject(a) ==
    \E w \in Worker, j \in Job :
        /\ app[<<w, j>>] = "applied"
        /\ Start(a, "reject", w, j, Blank)

Reject(a) ==
    /\ At(a, "reject", "asked")
    /\ app' = [app EXCEPT ![ItemOf(a)] = "rejected"]
    /\ Done(a)
    /\ UNCHANGED <<money, paused, job, session>>

\* setPaused (employer-payouts.service.ts).
SetPaused ==
    /\ "pause" \in Ops
    /\ paused' = ~paused
    /\ UNCHANGED <<money, job, app, session, task>>
-----------------------------------------------------------------------------
(***************************************************************************)
(* The worker's side: JobsService, ApplicationsService, SessionsService.   *)
(* Refusals that depend on data only (start time, geofence, accuracy of    *)
(* the position, the uploaded photo) are requests that are not made.       *)
(***************************************************************************)

\* apply asks only that the job is not filled and that the worker has not
\* applied before; the feed shows open jobs.
StartApply(a) ==
    \E w \in Worker, j \in Job :
        /\ job[j].status # "none"
        /\ ~job[j].filled
        /\ OffFeed \/ job[j].status = "open"
        /\ app[<<w, j>>] = "none"
        /\ Start(a, "apply", w, j, Blank)

\* The unique index on worker and job turns a second application away.
Apply(a) ==
    /\ At(a, "apply", "asked")
    /\ app[ItemOf(a)] = "none"
    /\ app' = [app EXCEPT ![ItemOf(a)] = "applied"]
    /\ Done(a)
    /\ UNCHANGED <<money, paused, job, session>>

StartWithdraw(a) ==
    \E w \in Worker, j \in Job :
        /\ app[<<w, j>>] = "applied"
        /\ Start(a, "withdraw", w, j, Blank)

Withdraw(a) ==
    /\ At(a, "withdraw", "asked")
    /\ app' = [app EXCEPT ![ItemOf(a)] = "withdrawn"]
    /\ Done(a)
    /\ UNCHANGED <<money, paused, job, session>>

StartClockIn(a) ==
    \E w \in Worker, j \in Job :
        /\ app[<<w, j>>] = "accepted"
        /\ session[<<w, j>>].status = "none"
        /\ Start(a, "clock_in", w, j, [Blank EXCEPT !.amount = job[j].pay])

\* clockIn: the session starts with the pay that was read, unless another
\* session of the application exists (its id is unique).
ClockIn(a) ==
    /\ At(a, "clock_in", "asked")
    /\ session[ItemOf(a)].status = "none"
    /\ session' = [session EXCEPT ![ItemOf(a)] =
                     [NoSession EXCEPT !.status = "in_progress",
                                       !.pending = task[a].seen.amount]]
    /\ app' = [app EXCEPT ![ItemOf(a)] = "in_progress"]
    /\ job' = [job EXCEPT ![task[a].job].status = "in_progress",
                          ![task[a].job].filled = TRUE]
    /\ Done(a)
    /\ UNCHANGED <<money, paused>>

\* Variant: a session that is over can be clocked out of again.
StartClockOutAgain(a) ==
    \E w \in Worker, j \in Job :
        /\ session[<<w, j>>].status # "none"
        /\ Start(a, "clock_out", w, j, Blank)

\* The status of a session stays in_progress until its completion, so a worker
\* can clock out again while the hold runs, or after a dispute.
StartClockOut(a) ==
    \E w \in Worker, j \in Job :
        /\ session[<<w, j>>].status = "in_progress"
        /\ Start(a, "clock_out", w, j, Blank)

\* clockOut: the session is put up for review, with a new hold.
ClockOut(a) ==
    LET i == ItemOf(a)
    IN  /\ At(a, "clock_out", "asked")
        /\ Unlocked(a, i)
        /\ session' = [session EXCEPT ![i].review = "auto_review",
                                      ![i].hold = "running",
                                      ![i].out = "recent"]
        /\ job' = [job EXCEPT ![task[a].job].status = "pending_verification"]
        /\ app' = [app EXCEPT ![i] = "pending_verification"]
        /\ Done(a)
        /\ UNCHANGED <<money, paused>>
-----------------------------------------------------------------------------
(***************************************************************************)
(* Completion: JobCompletionService.runCompletion, called by confirm in    *)
(* its transaction and by the two crons in one of its own.                 *)
(***************************************************************************)

\* What a completion is worth: a session that is completed already falls back
\* on what was disbursed.
Due(i) == IF session[i].pending > 0 THEN session[i].pending
          ELSE session[i].disbursed

\* Whether the payment succeeds, or stays pending.
Funded(i) == ~paused /\ job[i[2]].reserved >= Due(i)

\* Variant: the worker who is being paid is counted too.
LastWorkerOfAll(i) == \A w \in Worker : app[<<w, i[2]>>] \notin InFlight

\* Whether no other worker of the job is in flight.
LastWorker(i) == \A w \in Worker \ {i[1]} : app[<<w, i[2]>>] \notin InFlight

\* Variant: the completion does not look at the application.
ReadAnyCompletion(a, i) ==
    Look(a, "read", [amount |-> Due(i), count |-> 0, status |-> job[i[2]].status,
                     last |-> LastWorker(i), ok |-> Funded(i)])

\* The reads of a completion; an application that is completed ends it.
ReadCompletion(a, i) ==
    IF app[i] = "completed" THEN Look(a, "skip", Blank)
    ELSE Look(a, "read", [amount |-> Due(i), count |-> 0,
                          status |-> job[i[2]].status,
                          last |-> LastWorker(i), ok |-> Funded(i)])

\* Variant: the cut is not limited to what is outstanding.
LoanCutUnlimited(w, amount) == (amount * Percent + 50) \div 100

\* The part of a payment that goes to the worker's loan, rounded.  The loan is
\* read after the worker's row has been updated, and so locked.
LoanCut(w, amount) ==
    LET share == (amount * Percent + 50) \div 100
    IN  IF debt[w] < share THEN debt[w] ELSE share

\* The payment itself: out of the reserve, into the worker's wallet.
PayOut(i, seen) ==
    IF seen.ok
    THEN LET cut == LoanCut(i[1], seen.amount)
         IN  /\ balance' = [balance EXCEPT ![i[1]] = @ + seen.amount - cut]
             /\ debt' = [debt EXCEPT ![i[1]] = @ - cut]
             /\ payments' = IF seen.amount > 0
                            THEN [payments EXCEPT ![i] = @ + 1] ELSE payments
             /\ UNCHANGED arrears
    ELSE /\ arrears' = arrears \union {i}
         /\ UNCHANGED <<balance, debt, payments>>

\* Variant: the reserve is not drained.
CompleteUndrained(i, seen, review, hold) ==
    /\ job' = [job EXCEPT ![i[2]].status = IF seen.last THEN "completed" ELSE seen.status]
    /\ app' = [app EXCEPT ![i] = "completed"]
    /\ session' = [session EXCEPT ![i] =
                     [@ EXCEPT !.status = "completed", !.review = review, !.hold = hold,
                               !.pending = IF seen.ok THEN 0 ELSE seen.amount,
                               !.disbursed = IF seen.ok THEN seen.amount ELSE 0]]
    /\ PayOut(i, seen)
    /\ UNCHANGED <<wallet, paused>>

\* The writes of a completion, made from what was read, with the verification
\* state and the hold its caller leaves.
Complete(i, seen, review, hold) ==
    /\ job' = [job EXCEPT ![i[2]].status = IF seen.last THEN "completed"
                                           ELSE seen.status,
                          ![i[2]].reserved = IF seen.ok THEN @ - seen.amount
                                             ELSE @]
    /\ app' = [app EXCEPT ![i] = "completed"]
    /\ session' = [session EXCEPT ![i] =
                     [@ EXCEPT !.status = "completed",
                               !.review = review, !.hold = hold,
                               !.pending = IF seen.ok THEN 0 ELSE seen.amount,
                               !.disbursed = IF seen.ok THEN seen.amount ELSE 0]]
    /\ PayOut(i, seen)
    /\ UNCHANGED <<wallet, paused>>
-----------------------------------------------------------------------------
(***************************************************************************)
(* Review: EmployerWorkSessionsService.                                    *)
(***************************************************************************)
Reviewable(i) == session[i].status # "none" /\ session[i].review = "auto_review"

StartConfirm(a) ==
    \E w \in Worker, j \in Job :
        /\ Reviewable(<<w, j>>)
        /\ Start(a, "confirm", w, j, Blank)

\* The first write of confirm is its session row, which stays locked.
LockSession(a) ==
    /\ At(a, "confirm", "asked")
    /\ Unlocked(a, ItemOf(a))
    /\ Look(a, "locked", Blank)

ReadConfirm(a) ==
    /\ At(a, "confirm", "locked")
    /\ ReadCompletion(a, ItemOf(a))

\* confirm: the session is completed, if it was not yet, and marked.
Confirm(a) ==
    LET i == ItemOf(a)
    IN  /\ \/ /\ At(a, "confirm", "read")
              /\ Complete(i, task[a].seen, "employer_confirmed", "none")
           \/ /\ At(a, "confirm", "skip")
              /\ session' = [session EXCEPT ![i].review = "employer_confirmed",
                                            ![i].hold = "none"]
              /\ UNCHANGED <<money, paused, job, app>>
        /\ Done(a)

StartDispute(a) ==
    \E w \in Worker, j \in Job :
        /\ Reviewable(<<w, j>>)
        /\ Start(a, "dispute", w, j, Blank)

\* Variant: the pay of the session is kept.
DisputeKeepingPay(a) ==
    LET i == ItemOf(a)
    IN  /\ At(a, "dispute", "asked")
        /\ Unlocked(a, i)
        /\ session' = [session EXCEPT ![i] =
                         [@ EXCEPT !.review = "disputed", !.hold = "none",
                                   !.dispute = TRUE]]
        /\ Done(a)
        /\ UNCHANGED <<money, paused, job, app>>

\* dispute: an open dispute is recorded and the pay of the session is zeroed.
\* Nothing in the code closes a dispute.
Dispute(a) ==
    LET i == ItemOf(a)
    IN  /\ At(a, "dispute", "asked")
        /\ Unlocked(a, i)
        /\ session' = [session EXCEPT ![i] =
                         [@ EXCEPT !.review = "disputed", !.hold = "none",
                                   !.pending = 0, !.dispute = TRUE]]
        /\ Done(a)
        /\ UNCHANGED <<money, paused, job, app>>
-----------------------------------------------------------------------------
(***************************************************************************)
(* The crons: AutoReleaseCron and PendingVerificationTimeoutCron.  A run   *)
(* reads all its sessions first and goes through them one by one; here     *)
(* each session is a task of its own, which may wait as long as it likes.  *)
(***************************************************************************)
HoldEnds ==
    \E i \in Item :
        /\ session[i].hold = "running"
        /\ session' = [session EXCEPT ![i].hold = "due"]
        /\ UNCHANGED <<money, paused, job, app, task>>

\* The half hour of the timeout cron passes.
CutoffPasses ==
    \E i \in Item :
        /\ session[i].out = "recent"
        /\ session' = [session EXCEPT ![i].out = "old"]
        /\ UNCHANGED <<money, paused, job, app, task>>

Releasable(i) ==
    Reviewable(i) /\ session[i].hold = "due" /\ ~session[i].dispute

\* Variant: only applications that wait for verification are released.
StartAutoReleaseWaiting(a) ==
    \E w \in Worker, j \in Job :
        /\ Releasable(<<w, j>>)
        /\ app[<<w, j>>] = "pending_verification"
        /\ Start(a, "auto_release", w, j, Blank)

StartAutoRelease(a) ==
    \E w \in Worker, j \in Job :
        /\ Releasable(<<w, j>>)
        /\ Start(a, "auto_release", w, j, Blank)

ReadAutoRelease(a) ==
    /\ At(a, "auto_release", "asked")
    /\ ReadCompletion(a, ItemOf(a))

\* The completion commits on its own; the mark comes after it.
AutoRelease(a) ==
    LET i == ItemOf(a)
    IN  /\ task[a] # Idle /\ task[a].op = "auto_release"
        /\ \/ /\ task[a].stage = "read" /\ Unlocked(a, i)
              /\ Complete(i, task[a].seen, session[i].review, session[i].hold)
           \/ task[a].stage = "skip" /\ UNCHANGED <<money, paused, job, app, session>>
        /\ task' = [task EXCEPT ![a].stage = "mark"]

\* The verification state is set whatever it has become.
MarkReleased(a) ==
    LET i == ItemOf(a)
    IN  /\ At(a, "auto_release", "mark")
        /\ Unlocked(a, i)
        /\ session' = [session EXCEPT ![i].review = "auto_released",
                                      ![i].hold = "none"]
        /\ Done(a)
        /\ UNCHANGED <<money, paused, job, app>>

StartTimeout(a) ==
    \E w \in Worker, j \in Job :
        /\ session[<<w, j>>].out = "old"
        /\ app[<<w, j>>] = "pending_verification"
        /\ session[<<w, j>>].review # "auto_review"
        /\ Start(a, "timeout", w, j, Blank)

ReadTimeout(a) ==
    /\ At(a, "timeout", "asked")
    /\ ReadCompletion(a, ItemOf(a))

Timeout(a) ==
    LET i == ItemOf(a)
    IN  /\ \/ /\ At(a, "timeout", "read") /\ Unlocked(a, i)
              /\ Complete(i, task[a].seen, session[i].review, session[i].hold)
           \/ At(a, "timeout", "skip") /\ UNCHANGED <<money, paused, job, app, session>>
        /\ Done(a)
-----------------------------------------------------------------------------
Hire(a) ==
    \/ StartCreate(a) \/ ReadCreate(a) \/ Create(a)
    \/ StartUpdate(a) \/ Update(a)
    \/ StartPublish(a) \/ ReadPublish(a) \/ Publish(a)
    \/ StartCancel(a) \/ ReadCancel(a) \/ Cancel(a)
    \/ StartAccept(a) \/ Accept(a)
    \/ StartAcceptSlot(a) \/ ReadAcceptSlot(a) \/ AcceptSlot(a)
    \/ StartReject(a) \/ Reject(a)

Labour(a) ==
    \/ StartApply(a) \/ Apply(a)
    \/ StartWithdraw(a) \/ Withdraw(a)
    \/ StartClockIn(a) \/ ClockIn(a)
    \/ StartClockOut(a) \/ ClockOut(a)

Review(a) ==
    \/ StartConfirm(a) \/ LockSession(a) \/ ReadConfirm(a) \/ Confirm(a)
    \/ StartDispute(a) \/ Dispute(a)
    \/ StartAutoRelease(a) \/ ReadAutoRelease(a) \/ AutoRelease(a)
    \/ MarkReleased(a)
    \/ StartTimeout(a) \/ ReadTimeout(a) \/ Timeout(a)

Next ==
    \/ \E a \in Agent : Hire(a) \/ Labour(a) \/ Review(a) \/ Abort(a)
    \/ SetPaused \/ HoldEnds \/ CutoffPasses

Spec == Init /\ [][Next]_vars

\* Requests and runs end; the auto-release cron comes round every minute and
\* is not for ever stopped at the same step.  Users owe nothing.
Work(a) == task[a] # Idle /\ (Hire(a) \/ Labour(a) \/ Review(a) \/ Abort(a))

Fairness ==
    /\ WF_vars(HoldEnds)
    /\ \A a \in Agent :
        /\ WF_vars(Work(a))
        /\ SF_vars(ReadAutoRelease(a))
        /\ SF_vars(AutoRelease(a))
        /\ SF_vars(MarkReleased(a))
        /\ \A i \in Item :
             SF_vars(StartAutoRelease(a) /\ task'[a].worker = i[1]
                                         /\ task'[a].job = i[2])

LiveSpec == Spec /\ Fairness
-----------------------------------------------------------------------------
(***************************************************************************)
(* Properties.                                                             *)
(***************************************************************************)

\* An application is paid at most once, however many times its session is
\* confirmed, released, timed out, clocked out of again, or its release is cut
\* short by a crash before the session is marked.
PaidOnce == \A i \in Item : payments[i] <= 1

\* The check that reserveOrThrow makes keeps the employer's wallet from going
\* negative (job-reservation.service.ts:22).
NeverOverdrawn == wallet >= 0

\* A completion always finds the pay in the reserve of the job: a short reserve
\* should be unreachable (job-completion.service.ts:175).
NeverShort ==
    \A a \in Agent :
        task[a] # Idle /\ task[a].stage = "read"
          /\ task[a].op \in {"confirm", "auto_release", "timeout"}
            => task[a].seen.amount <= job[task[a].job].reserved

\* A job never has more workers than slots: those who are hired, at work or
\* done (employer-jobs.service.ts:920).
NeverOverbooked ==
    \A j \in Job :
        Cardinality({w \in Worker : app[<<w, j>>] \in InFlight \union {"completed"}})
            <= job[j].slots

\* A job whose slots are not all given away stays open to applications
\* (employer-jobs.service.ts:866).
SlotsStayOpen ==
    \A j \in Job : job[j].slots > 1 /\ job[j].accepted < job[j].slots => ~job[j].filled

\* The counter of a job of several slots never runs behind the workers it hired
\* nor beyond its slots, however far those workers have got when the next slot
\* is given away (employer-jobs.service.ts:966).
SlotsCounted ==
    \A j \in Job : job[j].slots > 1 =>
        /\ Cardinality({w \in Worker : app[<<w, j>>] \in InFlight \union {"completed"}})
             <= job[j].accepted
        /\ job[j].accepted <= job[j].slots

\* A job of one slot is completed exactly when its worker is, and is not
\* reopened, lost or completed by anything else.
JobTracksWork ==
    \A j \in Job : job[j].slots = 1 =>
        (job[j].status = "completed" <=> \E w \in Worker : app[<<w, j>>] = "completed")

\* No money is left behind on a completed job, where no operation reaches it,
\* except to pay workers still to be paid: what a dispute withholds goes back
\* to the employer (employer-work-sessions.service.ts:314).
NothingStranded ==
    \A j \in Job :
        job[j].status = "completed" /\ (\A w \in Worker : <<w, j>> \notin arrears)
            => job[j].reserved = 0

\* An application that was turned down, withdrawn or completed stays so.
ApplicationFinal ==
    [][\A i \in Item : app[i] \in {"rejected", "withdrawn", "completed"}
                         => app'[i] = app[i]]_vars

\* A job that was cancelled or completed stays so.
JobFinal ==
    [][\A j \in Job : job[j].status \in {"cancelled", "completed"}
                        => job'[j].status = job[j].status]_vars

\* As long as a dispute is open nobody is paid for the disputed work.
DisputeBlocksPay ==
    [][\A i \in Item : session[i].dispute => payments'[i] = payments[i]]_vars

\* Work that the employer does not review is released once its hold is over,
\* unless it is disputed in the meantime or the worker clocks out again.
HoldReleases ==
    \A i \in Item :
        Releasable(i) ~> ~Releasable(i)
=============================================================================
