--------------------------- MODULE JobEscrowProofs ---------------------------
(***************************************************************************)
(* Theorems about JobEscrow, for any sets of workers and jobs and any      *)
(* amounts.                                                                *)
(***************************************************************************)
EXTENDS MCJobEscrow, CommonProofs

(***************************************************************************)
(* Types.  What the tasks about one application name is an application.    *)
(***************************************************************************)
OnItem == {"accept", "accept_slot", "reject", "apply", "withdraw", "clock_in",
           "clock_out", "confirm", "dispute", "auto_release", "timeout"}

TasksNamed ==
    \A a \in Agent : task[a] # Idle /\ task[a].op \in OnItem => task[a].worker \in Worker

TypeInv == TypeOK /\ TasksNamed

LEMMA SeenBlank ==
  /\ Blank \in Seen
  /\ \A n \in Nat : [Blank EXCEPT !.amount = n] \in Seen
  /\ \A b \in BOOLEAN : [Blank EXCEPT !.last = b] \in Seen
  BY DEF Blank, Seen, JobStatus

\* A task that starts is well formed.
LEMMA StartType ==
  ASSUME TypeInv, NEW a \in Agent, NEW op \in OpName, NEW w \in Worker \union {Nobody},
         NEW j \in Job, NEW seen \in Seen,
         op \in OnItem => w \in Worker, Start(a, op, w, j, seen)
  PROVE  TypeInv'
<1>1. DEFINE t == [op |-> op, stage |-> "asked", worker |-> w, job |-> j, seen |-> seen]
<1>2. t \in Task BY DEF Task
<1>3. task' = [task EXCEPT ![a] = t] BY DEF Start
<1>4. task' \in [Agent -> Task \union {Idle}] BY <1>2, <1>3 DEF TypeInv, TypeOK
<1>5. TypeOK' BY <1>4 DEF Start, TypeInv, TypeOK, money
<1>6. TasksNamed' BY <1>3 DEF TypeInv, TypeOK, TasksNamed
<1>7. QED BY <1>5, <1>6 DEF TypeInv

\* A task that reads stays well formed.
LEMMA LookType ==
  ASSUME TypeInv, NEW a \in Agent, task[a] # Idle, NEW seen \in Seen,
         NEW stage \in {"asked", "locked", "read", "skip", "mark"},
         Look(a, stage, seen)
  PROVE  TypeInv'
<1>1. task[a] \in Task BY DEF TypeInv, TypeOK
<1>2. /\ task'[a] \in Task
      /\ task'[a].op = task[a].op /\ task'[a].worker = task[a].worker
      /\ \A b \in Agent \ {a} : task'[b] = task[b]
      /\ task' \in [Agent -> Task \union {Idle}]
  BY <1>1 DEF Look, TypeInv, TypeOK, Task
<1>3. TypeOK' BY <1>2 DEF Look, TypeInv, TypeOK, money
<1>4. TasksNamed'
  <2> SUFFICES ASSUME NEW b \in Agent, task'[b] # Idle, task'[b].op \in OnItem
               PROVE task'[b].worker \in Worker
    BY DEF TasksNamed
  <2>1. CASE b = a BY <1>2, <2>1 DEF TypeInv, TasksNamed
  <2>2. CASE b # a BY <1>2, <2>2 DEF TypeInv, TasksNamed
  <2>3. QED BY <2>1, <2>2
<1>5. QED BY <1>3, <1>4 DEF TypeInv

\* A task that ends leaves the others well formed.
LEMMA DoneType ==
  ASSUME TypeInv, NEW a \in Agent, Done(a)
  PROVE  task' \in [Agent -> Task \union {Idle}] /\ TasksNamed'
  BY DEF Done, TypeInv, TypeOK, TasksNamed

\* The part of a payment that goes to the loan is never more than is owed.
LEMMA LoanCutBounded ==
  ASSUME TypeOK, NEW w \in Worker, NEW amount \in Nat
  PROVE  LoanCut(w, amount) \in Nat /\ LoanCut(w, amount) <= debt[w]
<1>1. DEFINE p == amount * Percent
<1>2. p \in Nat BY MoneyAssumption
<1>3. (p + 50) \div 100 \in Nat
  <2> HIDE DEF p
  <2> QED BY <1>2
<1>4. debt[w] \in Nat BY DEF TypeOK
<1>5. QED BY <1>3, <1>4 DEF LoanCut

\* What a completion sees is well formed.
LEMMA ReadCompletionType ==
  ASSUME TypeInv, NEW a \in Agent, task[a] # Idle, ItemOf(a) \in Item,
         ReadCompletion(a, ItemOf(a))
  PROVE  TypeInv'
<1>1. DEFINE i == ItemOf(a)
<1>2. session[i] \in SessionRow /\ job[i[2]] \in JobRow
  BY DEF TypeInv, TypeOK, Item
<1>3. Due(i) \in Nat BY <1>2 DEF Due, SessionRow
<1>4. LastWorker(i) \in BOOLEAN /\ Funded(i) \in BOOLEAN
  BY DEF LastWorker, Funded
<1>5. [amount |-> Due(i), count |-> 0, status |-> job[i[2]].status,
       last |-> LastWorker(i), ok |-> Funded(i)] \in Seen
  BY <1>2, <1>3, <1>4 DEF Seen, JobRow
<1>6. QED BY <1>5, LookType, SeenBlank DEF ReadCompletion

\* A completion keeps the types of all that it writes.
LEMMA CompleteType ==
  ASSUME TypeOK, NEW i \in Item, NEW seen \in Seen,
         NEW review \in {"auto_review", "employer_confirmed", "disputed", "auto_released"},
         NEW hold \in {"none", "running", "due"},
         Complete(i, seen, review, hold)
  PROVE  /\ wallet' \in Int /\ paused' \in BOOLEAN
         /\ job' \in [Job -> JobRow] /\ app' \in [Item -> AppStatus]
         /\ session' \in [Item -> SessionRow] /\ balance' \in [Worker -> Int]
         /\ debt' \in [Worker -> Nat] /\ payments' \in [Item -> Nat]
         /\ arrears' \subseteq Item
<1>1. PICK w \in Worker, j \in Job : i = <<w, j>> BY DEF Item
<1>2. i[1] = w /\ i[2] = j BY <1>1
<1>3. /\ seen.amount \in Nat /\ seen.status \in JobStatus
      /\ seen.ok \in BOOLEAN /\ seen.last \in BOOLEAN
  BY DEF Seen
<1>4. job' \in [Job -> JobRow]
  <2>1. job[j] \in JobRow BY DEF TypeOK
  <2>2. DEFINE status == IF seen.last THEN "completed" ELSE seen.status
               left == IF seen.ok THEN job[j].reserved - seen.amount ELSE job[j].reserved
  <2>3. status \in JobStatus /\ left \in Int
    BY <1>3, <2>1 DEF JobRow, JobStatus
  <2>4. job' = [job EXCEPT ![j] = [job[j] EXCEPT !.status = status, !.reserved = left]]
    BY <1>2, <2>1 DEF Complete, TypeOK, JobRow
  <2>5. [job[j] EXCEPT !.status = status, !.reserved = left] \in JobRow
    <3> HIDE DEF status, left
    <3> QED BY <2>1, <2>3 DEF JobRow
  <2>6. QED
    <3> HIDE DEF status, left
    <3> QED BY <2>4, <2>5 DEF TypeOK
<1>5. app' \in [Item -> AppStatus] BY DEF TypeOK, Complete, AppStatus
<1>6. session' \in [Item -> SessionRow]
  <2>1. session[i] \in SessionRow BY DEF TypeOK
  <2>2. [session[i] EXCEPT !.status = "completed", !.review = review, !.hold = hold,
                           !.pending = IF seen.ok THEN 0 ELSE seen.amount,
                           !.disbursed = IF seen.ok THEN seen.amount ELSE 0]
          \in SessionRow
    BY <1>3, <2>1 DEF SessionRow
  <2>3. QED BY <2>2 DEF TypeOK, Complete
<1>7. PayOut(i, seen) BY DEF Complete
<1>8. /\ balance' \in [Worker -> Int] /\ debt' \in [Worker -> Nat]
      /\ payments' \in [Item -> Nat] /\ arrears' \subseteq Item
  <2>1. CASE seen.ok
    <3>1. DEFINE cut == LoanCut(w, seen.amount)
    <3>2. cut \in Nat /\ cut <= debt[w] BY <1>3, LoanCutBounded
    <3>3. /\ balance' = [balance EXCEPT ![w] = @ + seen.amount - cut]
          /\ debt' = [debt EXCEPT ![w] = @ - cut]
          /\ payments' \in [Item -> Nat] /\ UNCHANGED arrears
      BY <1>2, <1>7, <2>1 DEF PayOut, TypeOK
    <3>4. QED
      <4> HIDE DEF cut
      <4> QED BY <1>3, <3>2, <3>3 DEF TypeOK
  <2>2. CASE ~seen.ok BY <1>7, <2>2 DEF PayOut, TypeOK
  <2>3. QED BY <2>1, <2>2
<1>9. QED BY <1>4, <1>5, <1>6, <1>8 DEF TypeOK, Complete

LEMMA TypeStart == Init => TypeInv
<1> SUFFICES ASSUME Init PROVE TypeInv
  OBVIOUS
<1>1. [status |-> "none", pay |-> 0, slots |-> 0, reserved |-> 0, accepted |-> 0,
       filled |-> FALSE, assigned |-> FALSE] \in JobRow
  BY DEF JobRow, JobStatus
<1>2. job \in [Job -> JobRow] BY <1>1 DEF Init
<1>3. NoSession \in SessionRow BY DEF NoSession, SessionRow
<1>4. session \in [Item -> SessionRow] BY <1>3 DEF Init
<1>5. app \in [Item -> AppStatus] BY DEF Init, AppStatus
<1>6. /\ wallet \in Int /\ paused \in BOOLEAN /\ debt \in [Worker -> Nat]
      /\ balance \in [Worker -> Int] /\ payments \in [Item -> Nat]
      /\ arrears \subseteq Item
  <2>1. wallet \in Int BY MoneyAssumption DEF Init
  <2>2. paused \in BOOLEAN /\ arrears \subseteq Item BY DEF Init
  <2>3. balance \in [Worker -> Int] /\ debt \in [Worker -> Nat]
    BY MoneyAssumption DEF Init
  <2>4. payments \in [Item -> Nat] BY DEF Init
  <2>5. QED BY <2>1, <2>2, <2>3, <2>4
<1>7. task \in [Agent -> Task \union {Idle}] /\ \A a \in Agent : task[a] = Idle
  BY DEF Init
<1>8. QED BY <1>2, <1>4, <1>5, <1>6, <1>7 DEF TypeOK, TypeInv, TasksNamed

\* A write to one job row keeps the type of the table.
LEMMA JobWrite ==
  ASSUME TypeOK, NEW j \in Job, NEW row \in JobRow, job' = [job EXCEPT ![j] = row]
  PROVE  job' \in [Job -> JobRow]
  BY DEF TypeOK

\* What the employer does keeps the types.
LEMMA HireType ==
  ASSUME TypeInv, NEW a \in Agent, Hire(a) PROVE TypeInv'
<1> USE DEF money
<1>1. CASE StartCreate(a)
  <2>1. PICK j \in Job, pay \in Pay, slots \in Slots, postNow \in BOOLEAN :
          Start(a, "create", Nobody, j,
                [Blank EXCEPT !.amount = pay, !.count = slots, !.ok = postNow])
    BY <1>1 DEF StartCreate
  <2>2. [Blank EXCEPT !.amount = pay, !.count = slots, !.ok = postNow] \in Seen
    BY PayAssumption, SlotsAssumption DEF Blank, Seen, JobStatus
  <2>3. QED BY <2>1, <2>2, StartType DEF OpName, OnItem
<1>2. CASE ReadCreate(a) \/ ReadPublish(a)
  <2>1. task[a] # Idle /\ Look(a, "read", task[a].seen)
    BY <1>2 DEF ReadCreate, ReadPublish, At
  <2>2. task[a].seen \in Seen BY <2>1 DEF TypeInv, TypeOK, Task
  <2>3. QED BY <2>1, <2>2, LookType
<1>3. CASE Create(a)
  <2>1. DEFINE seen == task[a].seen
               reserve == IF seen.ok THEN seen.amount * seen.count ELSE 0
  <2>2. task[a] \in Task BY <1>3 DEF Create, At, TypeInv, TypeOK
  <2>3. seen.amount \in Nat /\ seen.count \in Nat /\ seen.ok \in BOOLEAN
    BY <2>2 DEF Task, Seen
  <2>4. reserve \in Int BY <2>3
  <2>5. /\ wallet' = wallet - reserve
        /\ job' = [job EXCEPT ![task[a].job] =
                     [status |-> IF seen.ok THEN "open" ELSE "draft",
                      pay |-> seen.amount, slots |-> seen.count,
                      reserved |-> reserve, accepted |-> 0, filled |-> FALSE,
                      assigned |-> FALSE]]
        /\ Done(a)
        /\ UNCHANGED <<paused, app, session, balance, debt, payments, arrears>>
    BY <1>3 DEF Create
  <2>6. wallet' \in Int /\ job' \in [Job -> JobRow]
    <3> HIDE DEF reserve, seen
    <3>1. [status |-> IF seen.ok THEN "open" ELSE "draft",
           pay |-> seen.amount, slots |-> seen.count,
           reserved |-> reserve, accepted |-> 0, filled |-> FALSE,
           assigned |-> FALSE] \in JobRow
      BY <2>3, <2>4 DEF JobRow, JobStatus
    <3>2. wallet' \in Int BY <2>4, <2>5 DEF TypeInv, TypeOK
    <3>3. job' \in [Job -> JobRow] BY <2>2, <2>5, <3>1, JobWrite DEF TypeInv, Task
    <3>4. QED BY <3>2, <3>3
  <2>7. QED BY <2>5, <2>6, DoneType DEF TypeInv, TypeOK
<1>4. CASE StartUpdate(a)
  <2>1. PICK j \in Job, pay \in Pay :
          Start(a, "update", Nobody, j, [Blank EXCEPT !.amount = pay])
    BY <1>4 DEF StartUpdate
  <2>2. QED BY <2>1, SeenBlank, PayAssumption, StartType DEF OpName, OnItem
<1>5. CASE Update(a)
  <2>1. task[a].seen.amount \in Nat
    BY <1>5 DEF Update, At, TypeInv, TypeOK, Task, Seen
  <2>2. job' \in [Job -> JobRow] BY <1>5, <2>1 DEF Update, TypeInv, TypeOK, JobRow
  <2>3. QED BY <1>5, <2>2, DoneType DEF Update, TypeInv, TypeOK
<1>6. CASE StartPublish(a)
  <2>1. PICK j \in Job :
          Start(a, "publish", Nobody, j, [Blank EXCEPT !.amount = job[j].pay * job[j].slots])
    BY <1>6 DEF StartPublish
  <2>2. job[j].pay * job[j].slots \in Nat BY DEF TypeInv, TypeOK, JobRow
  <2>3. QED BY <2>1, <2>2, SeenBlank, StartType DEF OpName, OnItem
<1>7. CASE Publish(a)
  <2>1. task[a].seen.amount \in Nat
    BY <1>7 DEF Publish, At, TypeInv, TypeOK, Task, Seen
  <2>2. wallet' \in Int BY <1>7, <2>1 DEF Publish, TypeInv, TypeOK
  <2>3. PICK j \in Job :
          job' = [job EXCEPT ![j].status = "open", ![j].reserved = task[a].seen.amount]
    BY <1>7 DEF Publish, At, TypeInv, TypeOK, Task
  <2>4. job[j] \in JobRow BY DEF TypeInv, TypeOK
  <2>5. [job[j] EXCEPT !.status = "open", !.reserved = task[a].seen.amount] \in JobRow
    <3>1. DEFINE n == task[a].seen.amount
    <3>2. n \in Int BY <2>1
    <3>3. [job[j] EXCEPT !.status = "open", !.reserved = n] \in JobRow
      <4> HIDE DEF n
      <4> QED BY <2>4, <3>2 DEF JobRow, JobStatus
    <3>4. QED BY <3>3
  <2>6. job' = [job EXCEPT ![j] = [job[j] EXCEPT !.status = "open",
                                                 !.reserved = task[a].seen.amount]]
    BY <2>3, <2>4 DEF TypeInv, TypeOK, JobRow
  <2>7. job' \in [Job -> JobRow] BY <2>5, <2>6, JobWrite DEF TypeInv
  <2>8. QED BY <1>7, <2>2, <2>7, DoneType DEF Publish, TypeInv, TypeOK
<1>8. CASE StartCancel(a)
  BY <1>8, SeenBlank, StartType DEF StartCancel, OpName, OnItem
<1>9. CASE ReadCancel(a)
  <2>1. DEFINE reserved == job[task[a].job].reserved
               n == IF reserved > 0 THEN reserved ELSE 0
  <2>2. task[a] \in Task /\ task[a] # Idle
    BY <1>9 DEF ReadCancel, At, TypeInv, TypeOK
  <2>3. n \in Nat BY <2>2 DEF TypeInv, TypeOK, Task, JobRow
  <2>4. [task[a].seen EXCEPT !.amount = n] \in Seen
    <3> HIDE DEF n
    <3> QED BY <2>2, <2>3 DEF Task, Seen
  <2>5. QED BY <1>9, <2>2, <2>4, LookType DEF ReadCancel
<1>10. CASE Cancel(a)
  <2>1. task[a].seen.amount \in Nat
    BY <1>10 DEF Cancel, At, TypeInv, TypeOK, Task, Seen
  <2>2. wallet' \in Int /\ app' \in [Item -> AppStatus]
    BY <1>10, <2>1 DEF Cancel, TypeInv, TypeOK, AppStatus
  <2>3. PICK j \in Job :
          job' = [job EXCEPT ![j].status = "cancelled",
                             ![j].reserved = IF task[a].seen.amount > 0 THEN 0 ELSE @]
    BY <1>10 DEF Cancel, At, TypeInv, TypeOK, Task
  <2>4. job[j] \in JobRow BY DEF TypeInv, TypeOK
  <2>5. DEFINE left == IF task[a].seen.amount > 0 THEN 0 ELSE job[j].reserved
  <2>6. left \in Int BY <2>4 DEF JobRow
  <2>7. job' = [job EXCEPT ![j] = [job[j] EXCEPT !.status = "cancelled", !.reserved = left]]
    BY <2>3, <2>4 DEF TypeInv, TypeOK, JobRow
  <2>8. job' \in [Job -> JobRow]
    <3> HIDE DEF left
    <3>1. [job[j] EXCEPT !.status = "cancelled", !.reserved = left] \in JobRow
      BY <2>4, <2>6 DEF JobRow, JobStatus
    <3>2. QED BY <2>7, <3>1, JobWrite DEF TypeInv
  <2>9. QED BY <1>10, <2>2, <2>8, DoneType DEF Cancel, TypeInv, TypeOK
<1>11. CASE StartAccept(a) \/ StartReject(a)
  BY <1>11, SeenBlank, StartType DEF StartAccept, StartReject, OpName, OnItem
<1>12. CASE Accept(a)
  <2>1. app' \in [Item -> AppStatus]
    BY <1>12 DEF Accept, Decide, TypeInv, TypeOK, AppStatus
  <2>2. job' \in [Job -> JobRow]
    <3>1. PICK j \in Job :
            job' = [job EXCEPT ![j].status = "accepted", ![j].assigned = TRUE]
      BY <1>12 DEF Accept, At, TypeInv, TypeOK, Task
    <3>2. job[j] \in JobRow BY DEF TypeInv, TypeOK
    <3>3. job' = [job EXCEPT ![j] = [job[j] EXCEPT !.status = "accepted", !.assigned = TRUE]]
      BY <3>1, <3>2 DEF TypeInv, TypeOK, JobRow
    <3>4. [job[j] EXCEPT !.status = "accepted", !.assigned = TRUE] \in JobRow
      BY <3>2 DEF JobRow, JobStatus
    <3>5. QED BY <3>3, <3>4, JobWrite DEF TypeInv
  <2>3. QED BY <1>12, <2>1, <2>2, DoneType DEF Accept, TypeInv, TypeOK
<1>13. CASE StartAcceptSlot(a)
  <2>1. PICK w \in Worker, j \in Job :
          Start(a, "accept_slot", w, j,
                [Blank EXCEPT !.last = job[j].accepted + 1 >= job[j].slots])
    BY <1>13 DEF StartAcceptSlot
  <2>2. (job[j].accepted + 1 >= job[j].slots) \in BOOLEAN
    BY DEF TypeInv, TypeOK, JobRow
  <2>3. [Blank EXCEPT !.last = job[j].accepted + 1 >= job[j].slots] \in Seen
    BY <2>2, SeenBlank
  <2>4. QED BY <2>1, <2>3, StartType DEF OpName, OnItem
<1>14. CASE ReadAcceptSlot(a)
  <2>1. task[a] \in Task /\ task[a] # Idle
    BY <1>14 DEF ReadAcceptSlot, At, TypeInv, TypeOK
  <2>2. job[task[a].job] \in JobRow BY <2>1 DEF TypeInv, TypeOK, Task
  <2>3. [task[a].seen EXCEPT !.count = job[task[a].job].accepted + 1,
                             !.status = job[task[a].job].status] \in Seen
    <3>1. task[a].seen \in Seen BY <2>1 DEF Task
    <3>2. job[task[a].job].accepted + 1 \in Nat /\ job[task[a].job].status \in JobStatus
      BY <2>2 DEF JobRow
    <3>3. \A n \in Nat, x \in JobStatus :
            [task[a].seen EXCEPT !.count = n, !.status = x] \in Seen
      BY <3>1 DEF Seen
    <3>4. QED BY <3>2, <3>3
  <2>4. QED BY <1>14, <2>1, <2>3, LookType DEF ReadAcceptSlot
<1>15. CASE AcceptSlot(a)
  <2>1. DEFINE seen == task[a].seen
               full == seen.count >= job[task[a].job].slots
  <2>2. seen.count \in Nat /\ seen.status \in JobStatus
    BY <1>15 DEF AcceptSlot, At, TypeInv, TypeOK, Task, Seen
  <2>3. app' \in [Item -> AppStatus]
    BY <1>15 DEF AcceptSlot, Decide, TypeInv, TypeOK, AppStatus
  <2>4. job' = [job EXCEPT ![task[a].job].status =
                              IF full THEN "accepted" ELSE seen.status,
                           ![task[a].job].accepted = seen.count,
                           ![task[a].job].filled = full]
    BY <1>15 DEF AcceptSlot
  <2>5. full \in BOOLEAN /\ (IF full THEN "accepted" ELSE seen.status) \in JobStatus
    BY <2>2 DEF JobStatus
  <2>6. job' \in [Job -> JobRow]
    <3>1. task[a].job \in Job BY <1>15 DEF AcceptSlot, At, TypeInv, TypeOK, Task
    <3>2. PICK j \in Job, x \in JobStatus, n \in Nat, b \in BOOLEAN :
            job' = [job EXCEPT ![j].status = x, ![j].accepted = n, ![j].filled = b]
      BY <2>2, <2>4, <2>5, <3>1
    <3>3. job[j] \in JobRow BY DEF TypeInv, TypeOK
    <3>4. [job[j] EXCEPT !.status = x, !.accepted = n, !.filled = b] \in JobRow
      BY <3>3 DEF JobRow
    <3>5. job' = [job EXCEPT ![j] = [job[j] EXCEPT !.status = x, !.accepted = n,
                                                   !.filled = b]]
      BY <3>2, <3>3 DEF TypeInv, TypeOK, JobRow
    <3>6. QED BY <3>4, <3>5, JobWrite DEF TypeInv
  <2>7. QED BY <1>15, <2>3, <2>6, DoneType DEF AcceptSlot, TypeInv, TypeOK
<1>16. CASE Reject(a)
  <2>1. app' \in [Item -> AppStatus] BY <1>16 DEF Reject, TypeInv, TypeOK, AppStatus
  <2>2. QED BY <1>16, <2>1, DoneType DEF Reject, TypeInv, TypeOK
<1>17. QED
  BY <1>1, <1>2, <1>3, <1>4, <1>5, <1>6, <1>7, <1>8, <1>9, <1>10, <1>11, <1>12,
     <1>13, <1>14, <1>15, <1>16 DEF Hire

\* A write to one application or one session keeps the type of its table.
LEMMA AppWrite ==
  ASSUME TypeOK, NEW i, NEW x \in AppStatus, app' = [app EXCEPT ![i] = x]
  PROVE  app' \in [Item -> AppStatus]
  BY DEF TypeOK

LEMMA SessionWrite ==
  ASSUME TypeOK, NEW i \in Item, NEW row \in SessionRow,
         session' = [session EXCEPT ![i] = row]
  PROVE  session' \in [Item -> SessionRow]
  BY DEF TypeOK

\* A task about an application names one.
LEMMA TaskItem ==
  ASSUME TypeInv, NEW a \in Agent, task[a] # Idle, task[a].op \in OnItem
  PROVE  task[a] \in Task /\ ItemOf(a) \in Item /\ task[a].job \in Job
<1>1. task[a] \in Task /\ task[a].worker \in Worker
  BY DEF TypeInv, TypeOK, TasksNamed
<1>2. task[a].job \in Job BY <1>1 DEF Task
<1>3. QED BY <1>1, <1>2 DEF ItemOf, Item

\* What the worker does keeps the types.
LEMMA LabourType ==
  ASSUME TypeInv, NEW a \in Agent, Labour(a) PROVE TypeInv'
<1> USE DEF money
<1>1. CASE StartApply(a) \/ StartWithdraw(a) \/ StartClockOut(a)
  BY <1>1, SeenBlank, StartType
     DEF StartApply, StartWithdraw, StartClockOut, OpName, OnItem
<1>2. CASE Apply(a) \/ Withdraw(a)
  <2>1. app' \in [Item -> AppStatus]
    BY <1>2, AppWrite DEF Apply, Withdraw, TypeInv, AppStatus
  <2>2. QED BY <1>2, <2>1, DoneType DEF Apply, Withdraw, TypeInv, TypeOK
<1>3. CASE StartClockIn(a)
  <2>1. PICK w \in Worker, j \in Job :
          Start(a, "clock_in", w, j, [Blank EXCEPT !.amount = job[j].pay])
    BY <1>3 DEF StartClockIn
  <2>2. job[j].pay \in Nat BY DEF TypeInv, TypeOK, JobRow
  <2>3. QED BY <2>1, <2>2, SeenBlank, StartType DEF OpName, OnItem
<1>4. CASE ClockIn(a)
  <2>1. task[a] # Idle /\ task[a].op = "clock_in" BY <1>4 DEF ClockIn, At
  <2>2. task[a] \in Task /\ ItemOf(a) \in Item /\ task[a].job \in Job
    BY <2>1, TaskItem DEF OnItem
  <2>3. DEFINE i == ItemOf(a)
               j == task[a].job
               n == task[a].seen.amount
  <2>4. n \in Nat BY <2>2 DEF Task, Seen
  <2>5. /\ session' = [session EXCEPT ![i] =
                         [NoSession EXCEPT !.status = "in_progress", !.pending = n]]
        /\ app' = [app EXCEPT ![i] = "in_progress"]
        /\ job' = [job EXCEPT ![j].status = "in_progress", ![j].filled = TRUE]
        /\ Done(a)
        /\ UNCHANGED <<wallet, balance, debt, payments, arrears, paused>>
    BY <1>4 DEF ClockIn
  <2>6. [NoSession EXCEPT !.status = "in_progress", !.pending = n] \in SessionRow
    <3> HIDE DEF n
    <3> QED BY <2>4 DEF NoSession, SessionRow
  <2>7. session' \in [Item -> SessionRow] BY <2>2, <2>5, <2>6, SessionWrite DEF TypeInv
  <2>8. app' \in [Item -> AppStatus] BY <2>5, AppWrite DEF TypeInv, AppStatus
  <2>9. job[j] \in JobRow BY <2>2 DEF TypeInv, TypeOK
  <2>10. job' = [job EXCEPT ![j] = [job[j] EXCEPT !.status = "in_progress",
                                                  !.filled = TRUE]]
    BY <2>2, <2>5, <2>9 DEF TypeInv, TypeOK, JobRow
  <2>11. [job[j] EXCEPT !.status = "in_progress", !.filled = TRUE] \in JobRow
    BY <2>9 DEF JobRow, JobStatus
  <2>12. job' \in [Job -> JobRow] BY <2>2, <2>10, <2>11, JobWrite DEF TypeInv
  <2>13. QED BY <2>5, <2>7, <2>8, <2>12, DoneType DEF TypeInv, TypeOK
<1>5. CASE ClockOut(a)
  <2>1. task[a] # Idle /\ task[a].op = "clock_out" BY <1>5 DEF ClockOut, At
  <2>2. ItemOf(a) \in Item /\ task[a].job \in Job BY <2>1, TaskItem DEF OnItem
  <2>3. DEFINE i == ItemOf(a)
               row == [session[i] EXCEPT !.review = "auto_review", !.hold = "running",
                                         !.out = "recent"]
  <2>4. session[i] \in SessionRow BY <2>2 DEF TypeInv, TypeOK
  <2>5. row \in SessionRow BY <2>4 DEF SessionRow
  <2>6. session' = [session EXCEPT ![i] = row]
    BY <1>5, <2>2, <2>4 DEF ClockOut, TypeInv, TypeOK, SessionRow
  <2>7. session' \in [Item -> SessionRow] BY <2>2, <2>5, <2>6, SessionWrite DEF TypeInv
  <2>8. app' \in [Item -> AppStatus]
    BY <1>5, AppWrite DEF ClockOut, TypeInv, AppStatus
  <2>9. job' \in [Job -> JobRow]
    BY <1>5, <2>2 DEF ClockOut, TypeInv, TypeOK, JobRow, JobStatus
  <2>10. QED BY <1>5, <2>7, <2>8, <2>9, DoneType DEF ClockOut, TypeInv, TypeOK
<1>6. QED BY <1>1, <1>2, <1>3, <1>4, <1>5 DEF Labour

\* A change of the review fields of one session keeps the type.
LEMMA ReviewWrite ==
  ASSUME TypeOK, NEW i \in Item,
         NEW review \in {"auto_review", "employer_confirmed", "disputed", "auto_released"},
         session' = [session EXCEPT ![i].review = review, ![i].hold = "none"]
  PROVE  session' \in [Item -> SessionRow]
<1>1. session[i] \in SessionRow BY DEF TypeOK
<1>2. [session[i] EXCEPT !.review = review, !.hold = "none"] \in SessionRow
  BY <1>1 DEF SessionRow
<1>3. session' = [session EXCEPT ![i] = [session[i] EXCEPT !.review = review, !.hold = "none"]]
  BY <1>1 DEF TypeOK, SessionRow
<1>4. QED BY <1>2, <1>3, SessionWrite

\* What a review and the crons do keeps the types.
LEMMA ReviewType ==
  ASSUME TypeInv, NEW a \in Agent, Review(a) PROVE TypeInv'
<1> USE DEF money
<1>1. CASE StartConfirm(a) \/ StartDispute(a) \/ StartAutoRelease(a) \/ StartTimeout(a)
  BY <1>1, SeenBlank, StartType
     DEF StartConfirm, StartDispute, StartAutoRelease, StartTimeout, OpName, OnItem
<1>2. CASE LockSession(a)
  BY <1>2, SeenBlank, LookType DEF LockSession, At
<1>3. CASE ReadConfirm(a) \/ ReadAutoRelease(a) \/ ReadTimeout(a)
  <2>1. task[a] # Idle /\ task[a].op \in OnItem /\ ReadCompletion(a, ItemOf(a))
    BY <1>3 DEF ReadConfirm, ReadAutoRelease, ReadTimeout, At, OnItem
  <2>2. QED BY <2>1, TaskItem, ReadCompletionType
<1>4. ASSUME task[a] # Idle, task[a].op \in OnItem,
             NEW review \in {"auto_review", "employer_confirmed", "disputed",
                             "auto_released"},
             NEW hold \in {"none", "running", "due"},
             Complete(ItemOf(a), task[a].seen, review, hold)
      PROVE  /\ wallet' \in Int /\ paused' \in BOOLEAN
             /\ job' \in [Job -> JobRow] /\ app' \in [Item -> AppStatus]
             /\ session' \in [Item -> SessionRow] /\ balance' \in [Worker -> Int]
             /\ debt' \in [Worker -> Nat] /\ payments' \in [Item -> Nat]
             /\ arrears' \subseteq Item
  <2>1. ItemOf(a) \in Item /\ task[a].seen \in Seen BY <1>4, TaskItem DEF Task
  <2>2. QED BY <1>4, <2>1, CompleteType DEF TypeInv
<1>5. CASE Confirm(a)
  <2>1. task[a] # Idle /\ task[a].op \in OnItem /\ Done(a)
    BY <1>5 DEF Confirm, At, OnItem
  <2>2. CASE Complete(ItemOf(a), task[a].seen, "employer_confirmed", "none")
    BY <1>4, <2>1, <2>2, DoneType DEF TypeInv, TypeOK
  <2>3. CASE /\ session' = [session EXCEPT ![ItemOf(a)].review = "employer_confirmed",
                                           ![ItemOf(a)].hold = "none"]
             /\ UNCHANGED <<money, paused, job, app>>
    <3>1. session' \in [Item -> SessionRow]
      BY <2>1, <2>3, TaskItem, ReviewWrite DEF TypeInv
    <3>2. QED BY <2>1, <2>3, <3>1, DoneType DEF TypeInv, TypeOK
  <2>4. QED BY <1>5, <2>2, <2>3 DEF Confirm
<1>6. CASE Dispute(a)
  <2>1. task[a] # Idle /\ task[a].op \in OnItem BY <1>6 DEF Dispute, At, OnItem
  <2>2. DEFINE i == ItemOf(a)
  <2>3. i \in Item /\ session[i] \in SessionRow BY <2>1, TaskItem DEF TypeInv, TypeOK
  <2>4. [session[i] EXCEPT !.review = "disputed", !.hold = "none", !.pending = 0,
                           !.dispute = TRUE] \in SessionRow
    BY <2>3 DEF SessionRow
  <2>5. session' = [session EXCEPT ![i] =
                      [session[i] EXCEPT !.review = "disputed", !.hold = "none",
                                         !.pending = 0, !.dispute = TRUE]]
    BY <1>6, <2>3 DEF Dispute, TypeInv, TypeOK
  <2>6. session' \in [Item -> SessionRow] BY <2>3, <2>4, <2>5, SessionWrite DEF TypeInv
  <2>7. QED BY <1>6, <2>6, DoneType DEF Dispute, TypeInv, TypeOK
<1>7. CASE AutoRelease(a)
  <2>1. task[a] # Idle /\ task[a].op \in OnItem /\ task[a] \in Task
    BY <1>7, TaskItem DEF AutoRelease, OnItem
  <2>2. ItemOf(a) \in Item BY <2>1, TaskItem
  <2>3. task' = [task EXCEPT ![a].stage = "mark"] BY <1>7 DEF AutoRelease
  <2>4. /\ task' \in [Agent -> Task \union {Idle}]
        /\ \A b \in Agent : /\ task'[b] = Idle <=> task[b] = Idle
                            /\ task'[b] # Idle => /\ task'[b].op = task[b].op
                                                  /\ task'[b].worker = task[b].worker
    BY <2>1, <2>3, IdleAssumption DEF TypeInv, TypeOK, Task
  <2>5. TasksNamed' BY <2>4 DEF TypeInv, TasksNamed
  <2>6. CASE Complete(ItemOf(a), task[a].seen, session[ItemOf(a)].review,
                      session[ItemOf(a)].hold)
    <3>1. session[ItemOf(a)] \in SessionRow BY <2>2 DEF TypeInv, TypeOK
    <3>2. /\ session[ItemOf(a)].review \in {"auto_review", "employer_confirmed",
                                           "disputed", "auto_released"}
          /\ session[ItemOf(a)].hold \in {"none", "running", "due"}
      BY <3>1 DEF SessionRow
    <3>3. QED BY <1>4, <2>1, <2>4, <2>5, <2>6, <3>2 DEF TypeInv, TypeOK
  <2>7. CASE UNCHANGED <<money, paused, job, app, session>>
    BY <2>4, <2>5, <2>7 DEF TypeInv, TypeOK
  <2>8. QED BY <1>7, <2>6, <2>7 DEF AutoRelease
<1>8. CASE MarkReleased(a)
  <2>1. task[a] # Idle /\ task[a].op \in OnItem BY <1>8 DEF MarkReleased, At, OnItem
  <2>2. session' \in [Item -> SessionRow]
    BY <1>8, <2>1, TaskItem, ReviewWrite DEF MarkReleased, TypeInv
  <2>3. QED BY <1>8, <2>2, DoneType DEF MarkReleased, TypeInv, TypeOK
<1>9. CASE Timeout(a)
  <2>1. task[a] # Idle /\ task[a].op \in OnItem /\ Done(a)
    BY <1>9 DEF Timeout, At, OnItem
  <2>2. CASE Complete(ItemOf(a), task[a].seen, session[ItemOf(a)].review,
                      session[ItemOf(a)].hold)
    <3>1. session[ItemOf(a)] \in SessionRow BY <2>1, TaskItem DEF TypeInv, TypeOK
    <3>2. /\ session[ItemOf(a)].review \in {"auto_review", "employer_confirmed",
                                           "disputed", "auto_released"}
          /\ session[ItemOf(a)].hold \in {"none", "running", "due"}
      BY <3>1 DEF SessionRow
    <3>3. QED BY <1>4, <2>1, <2>2, <3>2, DoneType DEF TypeInv, TypeOK
  <2>3. CASE UNCHANGED <<money, paused, job, app, session>>
    BY <2>1, <2>3, DoneType DEF TypeInv, TypeOK
  <2>4. QED BY <1>9, <2>2, <2>3 DEF Timeout
<1>10. QED
  BY <1>1, <1>2, <1>3, <1>5, <1>6, <1>7, <1>8, <1>9 DEF Review

LEMMA TypeStep == TypeInv /\ [Next]_vars => TypeInv'
<1> SUFFICES ASSUME TypeInv, [Next]_vars PROVE TypeInv'
  OBVIOUS
<1> USE DEF money
<1>1. CASE UNCHANGED vars BY <1>1 DEF vars, TypeInv, TypeOK, TasksNamed
<1>2. ASSUME NEW a \in Agent, Hire(a) \/ Labour(a) \/ Review(a) PROVE TypeInv'
  BY <1>2, HireType, LabourType, ReviewType
<1>3. ASSUME NEW a \in Agent, Abort(a) PROVE TypeInv'
  BY <1>3, DoneType DEF Abort, TypeInv, TypeOK
<1>4. CASE SetPaused BY <1>4 DEF SetPaused, TypeInv, TypeOK, TasksNamed
<1>5. CASE HoldEnds
  BY <1>5 DEF HoldEnds, TypeInv, TypeOK, TasksNamed, SessionRow
<1>6. CASE CutoffPasses
  BY <1>6 DEF CutoffPasses, TypeInv, TypeOK, TasksNamed, SessionRow
<1>7. QED BY <1>1, <1>2, <1>3, <1>4, <1>5, <1>6 DEF Next

\* Every variable keeps its type, with any number of handlers under way.
THEOREM EscrowTypeCorrect == Spec => []TypeOK
<1>1. TypeInv => TypeOK BY DEF TypeInv
<1>2. QED BY <1>1, TypeStart, TypeStep, PTL DEF Spec
-----------------------------------------------------------------------------
(***************************************************************************)
(* One handler at a time, with crashes.  The status of an application and  *)
(* of its session go together, a payment comes only with the completion,   *)
(* and what a task has seen of its application is still so.  With two      *)
(* handlers the last part fails (README, section 6).                       *)
(***************************************************************************)
Serial == \A a, b \in Agent : a = b

AtWork == {"in_progress", "pending_verification"}

Matching(i) ==
    /\ app[i] \in AtWork <=> session[i].status = "in_progress"
    /\ app[i] = "completed" <=> session[i].status = "completed"
    /\ payments[i] = 0 \/ (payments[i] = 1 /\ app[i] = "completed")

Fresh(a) ==
    task[a] # Idle =>
        /\ task[a].op \in {"accept", "accept_slot", "reject", "withdraw"}
             => app[ItemOf(a)] = "applied"
        /\ task[a].op = "clock_in" => app[ItemOf(a)] = "accepted"
        /\ task[a].op = "clock_out" => session[ItemOf(a)].status = "in_progress"
        /\ task[a].op \in {"confirm", "auto_release", "timeout"} =>
             /\ session[ItemOf(a)].status # "none"
             /\ task[a].stage = "read" => app[ItemOf(a)] # "completed"

SerialInv ==
    /\ TypeInv
    /\ \A i \in Item : Matching(i)
    /\ \A a \in Agent : Fresh(a)

\* How a step may move an application.
Stays(i) ==
    /\ app'[i] = app[i]
    /\ session'[i].status = session[i].status
    /\ payments'[i] = payments[i]

Moves(i) ==
    \/ Stays(i)
    \/ /\ app[i] \in {"none", "applied", "accepted"}
       /\ app'[i] \in {"applied", "accepted", "rejected", "withdrawn"}
       /\ session'[i].status = session[i].status
       /\ payments'[i] = payments[i]
    \/ /\ app[i] = "accepted" /\ app'[i] = "in_progress"
       /\ session'[i].status = "in_progress"
       /\ payments'[i] = payments[i]
    \/ /\ app[i] \in AtWork /\ app'[i] = "pending_verification"
       /\ session'[i].status = session[i].status
       /\ payments'[i] = payments[i]
    \/ /\ app[i] \in AtWork /\ app'[i] = "completed"
       /\ session'[i].status = "completed"
       /\ payments'[i] \in {payments[i], payments[i] + 1}

\* Such a move keeps an application and its session together.
LEMMA MoveMatches ==
  ASSUME NEW i \in Item, Matching(i), Moves(i) PROVE Matching(i)'
  BY DEF Matching, Moves, Stays, AtWork

\* The end of a task leaves nothing to be stale.
LEMMA DoneFresh ==
  ASSUME Serial, TypeInv, NEW a \in Agent, Done(a)
  PROVE  \A b \in Agent : Fresh(b)'
<1>1. \A b \in Agent : task'[b] = Idle BY DEF Serial, Done, TypeInv, TypeOK
<1>2. QED BY <1>1 DEF Fresh

\* A completion moves its application and no other.
LEMMA CompleteMoves ==
  ASSUME SerialInv, NEW i \in Item, app[i] # "completed", session[i].status # "none",
         NEW seen, NEW review, NEW hold, Complete(i, seen, review, hold)
  PROVE  (\A k \in Item : Moves(k)) /\ session'[i].status = "completed"
<1>1. app[i] \in AtWork
  <2>1. session[i].status \in {"none", "in_progress", "completed"}
    BY DEF SerialInv, TypeInv, TypeOK, SessionRow
  <2>2. QED BY <2>1 DEF SerialInv, Matching
<1>2. app' = [app EXCEPT ![i] = "completed"] BY DEF Complete
<1>3. session[i] \in SessionRow /\ session \in [Item -> SessionRow]
  BY DEF SerialInv, TypeInv, TypeOK
<1>4. /\ session'[i].status = "completed"
      /\ \A k \in Item \ {i} : session'[k] = session[k]
  BY <1>3 DEF Complete, SessionRow
<1>5. /\ payments'[i] \in {payments[i], payments[i] + 1}
      /\ \A k \in Item \ {i} : payments'[k] = payments[k]
  BY DEF Complete, PayOut, SerialInv, TypeInv, TypeOK
<1>6. \A k \in Item \ {i} : Moves(k)
  BY <1>2, <1>4, <1>5 DEF Moves, Stays, SerialInv, TypeInv, TypeOK
<1>7. Moves(i)
  BY <1>1, <1>2, <1>4, <1>5 DEF Moves, SerialInv, TypeInv, TypeOK
<1>8. QED BY <1>4, <1>6, <1>7

\* A task that starts has just seen what it relies on.
LEMMA StartFresh ==
  ASSUME Serial, SerialInv, NEW a \in Agent, NEW op, NEW w, NEW j, NEW seen,
         Start(a, op, w, j, seen),
         op \in {"accept", "accept_slot", "reject", "withdraw"} => app[<<w, j>>] = "applied",
         op = "clock_in" => app[<<w, j>>] = "accepted",
         op = "clock_out" => session[<<w, j>>].status = "in_progress",
         op \in {"confirm", "auto_release", "timeout"} => session[<<w, j>>].status # "none"
  PROVE  (\A i \in Item : Moves(i)) /\ \A b \in Agent : Fresh(b)'
<1>1. /\ task'[a] = [op |-> op, stage |-> "asked", worker |-> w, job |-> j, seen |-> seen]
      /\ UNCHANGED <<money, app, session>>
  BY DEF Start, SerialInv, TypeInv, TypeOK
<1>2. Fresh(a)' BY <1>1 DEF Fresh, ItemOf
<1>3. QED BY <1>1, <1>2 DEF Serial, Moves, Stays, money

LEMMA StartMoves ==
  ASSUME Serial, SerialInv, NEW a \in Agent,
         StartCreate(a) \/ StartUpdate(a) \/ StartPublish(a) \/ StartCancel(a)
           \/ StartAccept(a) \/ StartAcceptSlot(a) \/ StartReject(a)
           \/ StartApply(a) \/ StartWithdraw(a) \/ StartClockIn(a) \/ StartClockOut(a)
           \/ StartConfirm(a) \/ StartDispute(a) \/ StartAutoRelease(a) \/ StartTimeout(a)
  PROVE  (\A i \in Item : Moves(i)) /\ \A b \in Agent : Fresh(b)'
<1>1. CASE StartCreate(a)
  <2>1. PICK j, seen : Start(a, "create", Nobody, j, seen) BY <1>1 DEF StartCreate
  <2>2. QED BY <2>1, StartFresh
<1>2. CASE StartUpdate(a) \/ StartPublish(a) \/ StartCancel(a)
  <2>1. CASE StartUpdate(a)
    <3>1. PICK j, seen : Start(a, "update", Nobody, j, seen) BY <2>1 DEF StartUpdate
    <3>2. QED BY <3>1, StartFresh
  <2>2. CASE StartPublish(a)
    <3>1. PICK j, seen : Start(a, "publish", Nobody, j, seen) BY <2>2 DEF StartPublish
    <3>2. QED BY <3>1, StartFresh
  <2>3. CASE StartCancel(a) BY <2>3, StartFresh DEF StartCancel
  <2>4. QED BY <1>2, <2>1, <2>2, <2>3
<1>3. CASE StartAccept(a) \/ StartReject(a) \/ StartApply(a) \/ StartWithdraw(a)
  BY <1>3, StartFresh DEF StartAccept, StartReject, StartApply, StartWithdraw
<1>4. CASE StartAcceptSlot(a) BY <1>4, StartFresh DEF StartAcceptSlot
<1>5. CASE StartClockIn(a) BY <1>5, StartFresh DEF StartClockIn
<1>6. CASE StartClockOut(a) BY <1>6, StartFresh DEF StartClockOut
<1>7. CASE StartConfirm(a) \/ StartDispute(a) \/ StartAutoRelease(a)
  BY <1>7, StartFresh
     DEF StartConfirm, StartDispute, StartAutoRelease, Reviewable, Releasable
<1>8. CASE StartTimeout(a)
  <2>1. PICK w \in Worker, j \in Job :
          app[<<w, j>>] = "pending_verification" /\ Start(a, "timeout", w, j, Blank)
    BY <1>8 DEF StartTimeout
  <2>2. <<w, j>> \in Item BY DEF Item
  <2>3. session[<<w, j>>].status # "none" BY <2>1, <2>2 DEF SerialInv, Matching, AtWork
  <2>4. QED BY <2>1, <2>3, StartFresh
<1>9. QED BY <1>1, <1>2, <1>3, <1>4, <1>5, <1>6, <1>7, <1>8

\* A task that reads has seen what its completion relies on.
LEMMA LookMoves ==
  ASSUME Serial, SerialInv, NEW a \in Agent,
         ReadCreate(a) \/ ReadPublish(a) \/ ReadCancel(a) \/ ReadAcceptSlot(a)
           \/ LockSession(a) \/ ReadConfirm(a) \/ ReadAutoRelease(a) \/ ReadTimeout(a)
  PROVE  (\A i \in Item : Moves(i)) /\ \A b \in Agent : Fresh(b)'
<1>1. PICK stage, seen :
        /\ Look(a, stage, seen)
        /\ task[a] # Idle
        /\ task[a].op \in {"confirm", "auto_release", "timeout"} /\ stage = "read"
             => app[ItemOf(a)] # "completed"
  BY DEF ReadCreate, ReadPublish, ReadCancel, ReadAcceptSlot, LockSession, ReadConfirm,
         ReadAutoRelease, ReadTimeout, ReadCompletion, At
<1>2. task[a] \in Task BY <1>1 DEF SerialInv, TypeInv, TypeOK
<1>3. /\ task'[a].op = task[a].op /\ task'[a].stage = stage
      /\ task'[a].worker = task[a].worker /\ task'[a].job = task[a].job
      /\ UNCHANGED <<money, app, session>>
  BY <1>1, <1>2 DEF Look, SerialInv, TypeInv, TypeOK, Task
<1>4. ItemOf(a)' = ItemOf(a) BY <1>3 DEF ItemOf
<1>5. Fresh(a)' BY <1>1, <1>3, <1>4 DEF Fresh, SerialInv
<1>6. QED BY <1>3, <1>5 DEF Serial, Moves, Stays, money

\* The commits of the employer's and the worker's handlers.
LEMMA CommitMoves ==
  ASSUME Serial, SerialInv, NEW a \in Agent,
         Create(a) \/ Update(a) \/ Publish(a) \/ Cancel(a) \/ Accept(a) \/ AcceptSlot(a)
           \/ Reject(a) \/ Apply(a) \/ Withdraw(a) \/ ClockIn(a) \/ ClockOut(a) \/ Dispute(a)
           \/ Abort(a)
  PROVE  (\A i \in Item : Moves(i)) /\ \A b \in Agent : Fresh(b)'
<1> USE DEF SerialInv, TypeInv, TypeOK, money
<1>1. Done(a)
  BY DEF Create, Update, Publish, Cancel, Accept, AcceptSlot, Reject, Apply, Withdraw,
         ClockIn, ClockOut, Dispute, Abort
<1>2. Fresh(a) OBVIOUS
<1>3. CASE Create(a) \/ Update(a) \/ Publish(a) \/ Abort(a)
  BY <1>1, <1>3, DoneFresh DEF Create, Update, Publish, Abort, Moves, Stays
<1>4. CASE Cancel(a)
  <2>1. \A i \in Item : \/ app'[i] = app[i]
                        \/ app[i] \in {"applied", "accepted"} /\ app'[i] = "rejected"
    <3>1. app' = [i \in Item |->
                   IF i[2] = task[a].job /\ app[i] \in {"applied", "accepted"}
                   THEN "rejected" ELSE app[i]]
      BY <1>4 DEF Cancel
    <3> HIDE DEF SerialInv, TypeInv, TypeOK
    <3>2. ASSUME NEW i \in Item
          PROVE \/ app'[i] = app[i]
                \/ app[i] \in {"applied", "accepted"} /\ app'[i] = "rejected"
      <4>1. app'[i] = IF i[2] = task[a].job /\ app[i] \in {"applied", "accepted"}
                      THEN "rejected" ELSE app[i]
        BY <3>1, Zenon
      <4>2. CASE i[2] = task[a].job /\ app[i] \in {"applied", "accepted"}
        BY <4>1, <4>2
      <4>3. CASE ~(i[2] = task[a].job /\ app[i] \in {"applied", "accepted"})
        BY <4>1, <4>3
      <4>4. QED BY <4>2, <4>3
    <3>3. QED BY <3>2
  <2>2. UNCHANGED <<session, payments>> BY <1>4 DEF Cancel
  <2>3. \A i \in Item : Moves(i) BY <2>1, <2>2 DEF Moves, Stays
  <2>4. QED BY <1>1, <2>3, DoneFresh
<1>5. CASE Accept(a) \/ AcceptSlot(a)
  <2>1. app[ItemOf(a)] = "applied" BY <1>2, <1>5 DEF Accept, AcceptSlot, At, Fresh
  <2>2. PICK alone : Decide(ItemOf(a), alone) BY <1>5 DEF Accept, AcceptSlot
  <2>3. \A i \in Item : \/ app'[i] = app[i]
                        \/ app[i] = "applied" /\ app'[i] \in {"accepted", "rejected"}
    <3> HIDE DEF SerialInv, TypeInv, TypeOK
    <3> DEFINE chosen == ItemOf(a)
               others(i) == alone /\ i[2] = chosen[2] /\ app[i] = "applied"
    <3>1. ASSUME NEW i \in Item
          PROVE \/ app'[i] = app[i]
                \/ app[i] = "applied" /\ app'[i] \in {"accepted", "rejected"}
      <4>1. app'[i] = IF i = chosen THEN "accepted"
                      ELSE IF others(i) THEN "rejected" ELSE app[i]
        BY <2>2, Zenon DEF Decide
      <4>2. CASE i = chosen BY <2>1, <4>1, <4>2
      <4>3. CASE i # chosen /\ others(i) BY <4>1, <4>3
      <4>4. CASE i # chosen /\ ~others(i) BY <4>1, <4>4
      <4>5. QED BY <4>2, <4>3, <4>4
    <3>2. QED BY <3>1
  <2>4. UNCHANGED <<session, payments>> BY <1>5 DEF Accept, AcceptSlot
  <2>5. \A i \in Item : Moves(i) BY <2>3, <2>4 DEF Moves, Stays
  <2>6. QED BY <1>1, <2>5, DoneFresh
<1>6. CASE Reject(a) \/ Apply(a) \/ Withdraw(a)
  <2>1. /\ app[ItemOf(a)] \in {"none", "applied"}
        /\ \E x \in {"applied", "rejected", "withdrawn"} :
             app' = [app EXCEPT ![ItemOf(a)] = x]
    BY <1>2, <1>6 DEF Reject, Apply, Withdraw, At, Fresh
  <2>2. UNCHANGED <<session, payments>> BY <1>6 DEF Reject, Apply, Withdraw
  <2>3. \A i \in Item : Moves(i) BY <2>1, <2>2 DEF Moves, Stays
  <2>4. QED BY <1>1, <2>3, DoneFresh
<1>7. CASE ClockIn(a)
  <2>1. app[ItemOf(a)] = "accepted" BY <1>2, <1>7 DEF ClockIn, At, Fresh
  <2>2. /\ app' = [app EXCEPT ![ItemOf(a)] = "in_progress"]
        /\ UNCHANGED payments
    BY <1>7 DEF ClockIn
  <2>3. \A i \in Item : session'[i] = IF i = ItemOf(a)
                                      THEN [NoSession EXCEPT !.status = "in_progress",
                                                             !.pending = task[a].seen.amount]
                                      ELSE session[i]
    BY <1>7 DEF ClockIn
  <2>4. \A i \in Item : session'[i].status = IF i = ItemOf(a) THEN "in_progress"
                                             ELSE session[i].status
    BY <2>3 DEF NoSession
  <2>5. \A i \in Item : Moves(i) BY <2>1, <2>2, <2>4 DEF Moves, Stays
  <2>6. QED BY <1>1, <2>5, DoneFresh
<1>8. CASE ClockOut(a)
  <2>1. session[ItemOf(a)].status = "in_progress" BY <1>2, <1>8 DEF ClockOut, At, Fresh
  <2>2. app' = [app EXCEPT ![ItemOf(a)] = "pending_verification"] /\ UNCHANGED payments
    BY <1>8 DEF ClockOut
  <2>3. \A i \in Item : session'[i].status = session[i].status
    BY <1>8 DEF ClockOut, SessionRow
  <2>4. ItemOf(a) \in Item => app[ItemOf(a)] \in AtWork BY <2>1 DEF Matching
  <2>5. \A i \in Item : Moves(i) BY <2>2, <2>3, <2>4 DEF Moves, Stays
  <2>6. QED BY <1>1, <2>5, DoneFresh
<1>9. CASE Dispute(a)
  <2>1. \A i \in Item : session'[i].status = session[i].status
    BY <1>9 DEF Dispute, SessionRow
  <2>2. UNCHANGED <<app, payments>> BY <1>9 DEF Dispute
  <2>3. \A i \in Item : Moves(i) BY <2>1, <2>2 DEF Moves, Stays
  <2>4. QED BY <1>1, <2>3, DoneFresh
<1>10. QED BY <1>3, <1>4, <1>5, <1>6, <1>7, <1>8, <1>9

\* The commits of confirm and of the crons.
LEMMA PayMoves ==
  ASSUME Serial, SerialInv, NEW a \in Agent,
         Confirm(a) \/ AutoRelease(a) \/ MarkReleased(a) \/ Timeout(a)
  PROVE  (\A i \in Item : Moves(i)) /\ \A b \in Agent : Fresh(b)'
<1> USE DEF money
<1>1. task[a] # Idle /\ task[a].op \in {"confirm", "auto_release", "timeout"}
  BY DEF Confirm, AutoRelease, MarkReleased, Timeout, At
<1>2. DEFINE i == ItemOf(a)
<1>3. i \in Item BY <1>1, TaskItem DEF OnItem, SerialInv
<1>4. Fresh(a) /\ session[i].status # "none"
      /\ (task[a].stage = "read" => app[i] # "completed")
  BY <1>1 DEF SerialInv, Fresh
<1>5. CASE Confirm(a) \/ Timeout(a)
  <2>1. Done(a) BY <1>5 DEF Confirm, Timeout
  <2>2. ASSUME NEW review, NEW hold, task[a].stage = "read",
               Complete(i, task[a].seen, review, hold)
        PROVE \A k \in Item : Moves(k)
    BY <1>3, <1>4, <2>2, CompleteMoves
  <2>3. ASSUME UNCHANGED <<app, payments>>,
               \A k \in Item : session'[k].status = session[k].status
        PROVE \A k \in Item : Moves(k)
    BY <2>3 DEF Moves, Stays
  <2>4. \A k \in Item : Moves(k)
    <3>1. CASE task[a].stage = "read" BY <1>5, <2>2, <3>1 DEF Confirm, Timeout, At
    <3>2. CASE task[a].stage = "skip" /\ Confirm(a)
      <4>1. session' = [session EXCEPT ![i].review = "employer_confirmed",
                                       ![i].hold = "none"]
            /\ UNCHANGED <<app, payments>>
        BY <3>2 DEF Confirm, At
      <4>2. \A k \in Item : session'[k].status = session[k].status
        BY <4>1 DEF SerialInv, TypeInv, TypeOK, SessionRow
      <4>3. QED BY <2>3, <4>1, <4>2
    <3>3. CASE task[a].stage = "skip" /\ Timeout(a)
      BY <2>3, <3>3 DEF Timeout, At
    <3>4. QED BY <1>5, <3>1, <3>2, <3>3 DEF Confirm, Timeout, At
  <2>5. QED BY <2>1, <2>4, DoneFresh DEF SerialInv
<1>6. CASE AutoRelease(a)
  <2>1. task[a] \in Task BY <1>1 DEF SerialInv, TypeInv, TypeOK
  <2>2. /\ task'[a].op = task[a].op /\ task'[a].stage = "mark"
        /\ task'[a].worker = task[a].worker /\ task'[a].job = task[a].job
    BY <1>6, <2>1 DEF AutoRelease, SerialInv, TypeInv, TypeOK, Task
  <2>3. ItemOf(a)' = i BY <2>2 DEF ItemOf
  <2>4. CASE task[a].stage = "read"
    <3>1. (\A k \in Item : Moves(k)) /\ session'[i].status = "completed"
      BY <1>3, <1>4, <1>6, <2>4, CompleteMoves DEF AutoRelease
    <3>2. Fresh(a)' BY <1>1, <1>6, <2>2, <2>3, <3>1 DEF Fresh, AutoRelease
    <3>3. QED BY <3>1, <3>2 DEF Serial
  <2>5. CASE UNCHANGED <<money, paused, job, app, session>>
    <3>1. Fresh(a)' BY <1>4, <1>6, <2>2, <2>3, <2>5 DEF Fresh, AutoRelease
    <3>2. QED BY <2>5, <3>1 DEF Serial, Moves, Stays
  <2>6. QED BY <1>6, <2>4, <2>5 DEF AutoRelease
<1>7. CASE MarkReleased(a)
  <2>1. Done(a) BY <1>7 DEF MarkReleased
  <2>2. \A k \in Item : session'[k].status = session[k].status
    BY <1>7 DEF MarkReleased, SerialInv, TypeInv, TypeOK, SessionRow
  <2>3. UNCHANGED <<app, payments>> BY <1>7 DEF MarkReleased
  <2>4. QED BY <2>1, <2>2, <2>3, DoneFresh DEF Moves, Stays, SerialInv
<1>8. QED BY <1>5, <1>6, <1>7

\* Every step moves applications as it should.
LEMMA SerialMoves ==
  ASSUME Serial, SerialInv, [Next]_vars
  PROVE  (\A i \in Item : Moves(i)) /\ \A b \in Agent : Fresh(b)'
<1> USE DEF money
<1>1. CASE UNCHANGED vars
  BY <1>1 DEF vars, Moves, Stays, Fresh, ItemOf, SerialInv
<1>2. ASSUME NEW a \in Agent, Hire(a) \/ Labour(a) \/ Review(a) \/ Abort(a)
      PROVE (\A i \in Item : Moves(i)) /\ \A b \in Agent : Fresh(b)'
  BY <1>2, StartMoves, LookMoves, CommitMoves, PayMoves DEF Hire, Labour, Review
<1>3. CASE SetPaused
  BY <1>3 DEF SetPaused, Moves, Stays, Fresh, ItemOf, SerialInv
<1>4. CASE HoldEnds \/ CutoffPasses
  <2>1. ASSUME NEW i \in Item PROVE session'[i].status = session[i].status
    <3>1. /\ session \in [Item -> SessionRow]
          /\ \E k \in Item : \/ session' = [session EXCEPT ![k].hold = "due"]
                             \/ session' = [session EXCEPT ![k].out = "old"]
      BY <1>4 DEF HoldEnds, CutoffPasses, SerialInv, TypeInv, TypeOK
    <3>2. QED BY <3>1 DEF SessionRow
  <2>2. UNCHANGED <<app, payments, task>> BY <1>4 DEF HoldEnds, CutoffPasses
  <2>3. ASSUME NEW b \in Agent PROVE Fresh(b)'
    <3>1. CASE task[b] # Idle /\ task[b].op \in OnItem
      <4>1. ItemOf(b) \in Item BY <3>1, TaskItem DEF SerialInv
      <4>2. ItemOf(b)' = ItemOf(b) BY <2>2 DEF ItemOf
      <4>3. QED BY <2>1, <2>2, <4>1, <4>2 DEF Fresh, SerialInv
    <3>2. CASE ~(task[b] # Idle /\ task[b].op \in OnItem)
      BY <2>2, <3>2 DEF Fresh, OnItem
    <3>3. QED BY <3>1, <3>2
  <2>4. QED BY <2>1, <2>2, <2>3 DEF Moves, Stays
<1>5. QED BY <1>1, <1>2, <1>3, <1>4 DEF Next

LEMMA SerialInvariant == ASSUME Serial PROVE Spec => []SerialInv
<1>1. Init => SerialInv
  <2>1. ASSUME Init PROVE \A i \in Item : Matching(i)
    BY <2>1 DEF Init, Matching, AtWork, NoSession
  <2>2. ASSUME Init PROVE \A a \in Agent : Fresh(a)
    BY <2>2 DEF Init, Fresh
  <2>3. QED BY <2>1, <2>2, TypeStart DEF SerialInv
<1>2. SerialInv /\ [Next]_vars => SerialInv'
  BY SerialMoves, MoveMatches, TypeStep DEF SerialInv
<1>3. QED BY <1>1, <1>2, PTL DEF Spec

\* With one handler at a time an application is paid at most once, in spite of
\* repeated clock-outs, releases cut short and all sizes of jobs.
THEOREM PaidOnceSerially == ASSUME Serial PROVE Spec => []PaidOnce
<1>1. SerialInv => PaidOnce BY DEF SerialInv, Matching, PaidOnce
<1>2. QED BY <1>1, SerialInvariant, PTL

\* With one handler at a time an application that was turned down, withdrawn or
\* completed stays so.
THEOREM ApplicationsFinalSerially == ASSUME Serial PROVE Spec => ApplicationFinal
<1>1. SerialInv /\ [Next]_vars =>
        [\A i \in Item : app[i] \in {"rejected", "withdrawn", "completed"}
                           => app'[i] = app[i]]_vars
  BY SerialMoves DEF Moves, Stays, AtWork
<1>2. QED BY <1>1, SerialInvariant, PTL DEF Spec, ApplicationFinal
-----------------------------------------------------------------------------
(***************************************************************************)
(* The wallet of the employer, one handler at a time: what a task compared *)
(* with the wallet is still there when it takes it.                        *)
(***************************************************************************)
Afforded(a) ==
    task[a] # Idle /\ task[a].stage = "read" =>
        /\ task[a].op = "create" /\ task[a].seen.ok
             => wallet >= task[a].seen.amount * task[a].seen.count
        /\ task[a].op = "publish" => wallet >= task[a].seen.amount

FundsInv == wallet >= 0 /\ \A a \in Agent : Afforded(a)

\* A step that leaves the wallet alone and lets no task read it.
LEMMA FundsStay ==
  ASSUME FundsInv, wallet' = wallet,
         \A b \in Agent : \/ task'[b] = task[b] \/ task'[b] = Idle
                          \/ task'[b].stage # "read"
                          \/ task'[b].op \notin {"create", "publish"}
  PROVE  FundsInv'
  BY DEF FundsInv, Afforded

\* A task that starts has not read inside its transaction.
LEMMA StartAsks ==
  ASSUME SerialInv, NEW a \in Agent,
         StartCreate(a) \/ StartUpdate(a) \/ StartPublish(a) \/ StartCancel(a)
           \/ StartAccept(a) \/ StartAcceptSlot(a) \/ StartReject(a)
           \/ StartApply(a) \/ StartWithdraw(a) \/ StartClockIn(a) \/ StartClockOut(a)
           \/ StartConfirm(a) \/ StartDispute(a) \/ StartAutoRelease(a) \/ StartTimeout(a)
  PROVE  /\ UNCHANGED <<money, paused, job, app, session>>
         /\ \A b \in Agent : task'[b] = task[b] \/ task'[b].stage = "asked"
<1>1. \E op, w, j, seen : Start(a, op, w, j, seen)
  <2>1. CASE StartCreate(a) BY <2>1 DEF StartCreate
  <2>2. CASE StartUpdate(a) \/ StartPublish(a) \/ StartCancel(a)
    BY <2>2 DEF StartUpdate, StartPublish, StartCancel
  <2>3. CASE StartAccept(a) \/ StartAcceptSlot(a) \/ StartReject(a)
    BY <2>3 DEF StartAccept, StartAcceptSlot, StartReject
  <2>4. CASE StartApply(a) \/ StartWithdraw(a) \/ StartClockIn(a) \/ StartClockOut(a)
    BY <2>4 DEF StartApply, StartWithdraw, StartClockIn, StartClockOut
  <2>5. CASE StartConfirm(a) \/ StartDispute(a) \/ StartAutoRelease(a) \/ StartTimeout(a)
    BY <2>5 DEF StartConfirm, StartDispute, StartAutoRelease, StartTimeout
  <2>6. QED BY <2>1, <2>2, <2>3, <2>4, <2>5
<1>2. PICK op, w, j, seen : Start(a, op, w, j, seen) BY <1>1
<1>3. task \in [Agent -> Task \union {Idle}] BY DEF SerialInv, TypeInv, TypeOK
<1>4. QED BY <1>2, <1>3 DEF Start

\* A task that looks stays the same operation, and the rows stay the same.
LEMMA LooksSame ==
  ASSUME SerialInv, NEW a \in Agent, task[a] # Idle, NEW stage, NEW seen,
         Look(a, stage, seen)
  PROVE  /\ UNCHANGED <<money, paused, job, app, session>>
         /\ task'[a] # Idle => /\ task'[a].op = task[a].op /\ task'[a].job = task[a].job
                               /\ task'[a].worker = task[a].worker
                               /\ task'[a].stage = stage /\ task'[a].seen = seen
         /\ \A b \in Agent \ {a} : task'[b] = task[b]
<1>1. task[a] \in Task /\ task \in [Agent -> Task \union {Idle}]
  BY DEF SerialInv, TypeInv, TypeOK
<1>2. QED BY <1>1 DEF Look, Task

\* What is over leaves no task behind.
LEMMA DoneIdle ==
  ASSUME Serial, SerialInv, NEW a \in Agent, Done(a)
  PROVE  \A b \in Agent : task'[b] = Idle
  BY DEF Serial, Done, SerialInv, TypeInv, TypeOK

\* The commits end their task, except the release that has yet to be marked.
LEMMA CommitEnds ==
  ASSUME Serial, SerialInv, NEW a \in Agent,
         Create(a) \/ Update(a) \/ Publish(a) \/ Cancel(a) \/ Accept(a) \/ AcceptSlot(a)
           \/ Reject(a) \/ Apply(a) \/ Withdraw(a) \/ ClockIn(a) \/ ClockOut(a) \/ Dispute(a)
           \/ Abort(a) \/ Confirm(a) \/ MarkReleased(a) \/ Timeout(a)
  PROVE  \A b \in Agent : task'[b] = Idle
<1>1. Done(a)
  BY DEF Create, Update, Publish, Cancel, Accept, AcceptSlot, Reject, Apply, Withdraw,
         ClockIn, ClockOut, Dispute, Abort, Confirm, MarkReleased, Timeout
<1>2. QED BY <1>1, DoneIdle

LEMMA ReleaseMarks ==
  ASSUME Serial, SerialInv, NEW a \in Agent, AutoRelease(a)
  PROVE  \A b \in Agent : /\ task'[b].stage = "mark" /\ task'[b].op = "auto_release"
                          /\ task'[b].worker = task[b].worker /\ task'[b].job = task[b].job
<1>1. task[a] \in Task /\ task \in [Agent -> Task \union {Idle}] /\ task[a].op = "auto_release"
  BY DEF AutoRelease, SerialInv, TypeInv, TypeOK
<1>2. task' = [task EXCEPT ![a].stage = "mark"] BY DEF AutoRelease
<1>3. QED BY <1>1, <1>2 DEF Serial, Task

LEMMA FundsStep ==
  ASSUME Serial, SerialInv, FundsInv, [Next]_vars PROVE FundsInv'
<1> USE DEF money
<1>1. CASE UNCHANGED vars BY <1>1, FundsStay DEF vars
<1>2. CASE SetPaused \/ HoldEnds \/ CutoffPasses
  BY <1>2, FundsStay DEF SetPaused, HoldEnds, CutoffPasses
<1>3. ASSUME NEW a \in Agent,
             StartCreate(a) \/ StartUpdate(a) \/ StartPublish(a) \/ StartCancel(a)
               \/ StartAccept(a) \/ StartAcceptSlot(a) \/ StartReject(a)
               \/ StartApply(a) \/ StartWithdraw(a) \/ StartClockIn(a) \/ StartClockOut(a)
               \/ StartConfirm(a) \/ StartDispute(a) \/ StartAutoRelease(a)
               \/ StartTimeout(a)
      PROVE  FundsInv'
  <2>1. wallet' = wallet /\ \A b \in Agent : task'[b] = task[b] \/ task'[b].stage = "asked"
    BY <1>3, StartAsks
  <2>2. QED BY <2>1, FundsStay
<1>4. ASSUME NEW a \in Agent,
             ReadCancel(a) \/ ReadAcceptSlot(a) \/ LockSession(a) \/ ReadConfirm(a)
               \/ ReadAutoRelease(a) \/ ReadTimeout(a)
      PROVE  FundsInv'
  <2>1. PICK stage, seen : /\ Look(a, stage, seen) /\ task[a] # Idle
                           /\ task[a].op \notin {"create", "publish"}
    BY <1>4 DEF ReadCancel, ReadAcceptSlot, LockSession, ReadConfirm, ReadAutoRelease,
                ReadTimeout, ReadCompletion, At
  <2>2. QED BY <2>1, LooksSame, FundsStay
<1>5. ASSUME NEW a \in Agent, ReadCreate(a) \/ ReadPublish(a) PROVE FundsInv'
  <2>1. /\ Look(a, "read", task[a].seen) /\ task[a] # Idle
        /\ task[a].op = "create" /\ task[a].seen.ok
             => wallet >= task[a].seen.amount * task[a].seen.count
        /\ task[a].op = "publish" => wallet >= task[a].seen.amount
    BY <1>5 DEF ReadCreate, ReadPublish, At, Affordable
  <2>2. wallet' = wallet /\ Afforded(a)'
    BY <2>1, LooksSame DEF Afforded
  <2>3. QED BY <2>2 DEF FundsInv, Serial
<1>6. ASSUME NEW a \in Agent,
             Update(a) \/ Accept(a) \/ AcceptSlot(a)
               \/ Reject(a) \/ Apply(a) \/ Withdraw(a) \/ ClockIn(a) \/ ClockOut(a)
               \/ Dispute(a) \/ Abort(a) \/ Confirm(a) \/ MarkReleased(a) \/ Timeout(a)
      PROVE  FundsInv'
  <2>1. \A b \in Agent : task'[b] = Idle BY <1>6, CommitEnds
  <2>2. wallet' = wallet
    BY <1>6 DEF Update, Accept, AcceptSlot, Reject, Apply, Withdraw, ClockIn, ClockOut,
                Dispute, Abort, Confirm, MarkReleased, Timeout, Complete
  <2>3. QED BY <2>1, <2>2, FundsStay
<1>7. ASSUME NEW a \in Agent, AutoRelease(a) PROVE FundsInv'
  <2>1. wallet' = wallet BY <1>7 DEF AutoRelease, Complete
  <2>2. QED BY <1>7, <2>1, ReleaseMarks, FundsStay
<1>8. ASSUME NEW a \in Agent, Create(a) \/ Publish(a) \/ Cancel(a) PROVE FundsInv'
  <2>1. \A b \in Agent : task'[b] = Idle BY <1>8, CommitEnds
  <2>2. /\ task[a] # Idle /\ task[a].stage = "read" /\ task[a] \in Task
        /\ task[a].seen.amount \in Nat /\ wallet \in Int /\ Afforded(a)
    BY <1>8 DEF Create, Publish, Cancel, At, SerialInv, TypeInv, TypeOK, FundsInv, Task, Seen
  <2>3. CASE Create(a)
    <3>1. wallet' = wallet - (IF task[a].seen.ok THEN task[a].seen.amount * task[a].seen.count
                              ELSE 0)
          /\ task[a].op = "create"
      BY <2>3 DEF Create, At
    <3>2. CASE task[a].seen.ok
      <4>1. wallet >= task[a].seen.amount * task[a].seen.count
        BY <2>2, <3>1, <3>2 DEF Afforded
      <4>2. task[a].seen.amount * task[a].seen.count \in Int
        BY <2>2 DEF Task, Seen
      <4>3. QED BY <2>1, <2>2, <3>1, <3>2, <4>1, <4>2 DEF FundsInv, Afforded
    <3>3. CASE ~task[a].seen.ok
      BY <2>1, <2>2, <3>1, <3>3 DEF FundsInv, Afforded
    <3>4. QED BY <3>2, <3>3
  <2>4. CASE Publish(a)
    BY <2>1, <2>2, <2>4 DEF Publish, At, FundsInv, Afforded
  <2>5. CASE Cancel(a)
    BY <2>1, <2>2, <2>5 DEF Cancel, At, FundsInv, Afforded
  <2>6. QED BY <1>8, <2>3, <2>4, <2>5
<1>9. QED
  BY <1>1, <1>2, <1>3, <1>4, <1>5, <1>6, <1>7, <1>8 DEF Next, Hire, Labour, Review

\* With one handler at a time the check that reserves money keeps the employer's
\* wallet from going negative (job-reservation.service.ts:22).
THEOREM NeverOverdrawnSerially == ASSUME Serial PROVE Spec => []NeverOverdrawn
<1>1. Init => FundsInv
  BY MoneyAssumption DEF Init, FundsInv, Afforded
<1>2. SerialInv /\ FundsInv /\ [Next]_vars => FundsInv' BY FundsStep
<1>3. FundsInv => NeverOverdrawn BY DEF FundsInv, NeverOverdrawn
<1>4. QED BY <1>1, <1>2, <1>3, SerialInvariant, PTL DEF Spec
-----------------------------------------------------------------------------
(***************************************************************************)
(* The job and its workers, one handler at a time.  A job of one slot is   *)
(* in the state its one worker is in; the counter of a job of several      *)
(* counts those it hired; what a task has read of its job is still so.     *)
(***************************************************************************)
Hired(j) == {w \in Worker : app[<<w, j>>] \in InFlight \union {"completed"}}

\* Nobody has applied to a job that is not there yet.
Unborn(j) == job[j].status = "none" => \A w \in Worker : app[<<w, j>>] = "none"

OneSlot(j) ==
    job[j].slots = 1 =>
        /\ \A w \in Worker :
             /\ app[<<w, j>>] = "accepted" => job[j].status = "accepted"
             /\ app[<<w, j>>] \in AtWork
                  => job[j].status \in {"in_progress", "pending_verification"}
             /\ app[<<w, j>>] = "completed" => job[j].status = "completed"
             /\ app[<<w, j>>] = "applied" /\ ~OffFeed => job[j].status = "open"
        /\ job[j].status = "completed" => \E w \in Worker : app[<<w, j>>] = "completed"
        /\ Hired(j) # {} => job[j].assigned
        /\ \A v, w \in Hired(j) : v = w

Counted(j) ==
    job[j].slots > 1 /\ ~MixedUse =>
        /\ IsFiniteSet(Hired(j))
        /\ Cardinality(Hired(j)) <= job[j].accepted
        /\ job[j].accepted <= job[j].slots

JobOk(j) ==
    /\ Unborn(j) /\ OneSlot(j) /\ Counted(j)
    /\ job[j].status # "none" => job[j].slots \in Slots

Completions == {"confirm", "auto_release", "timeout"}

Knows(a) ==
    LET row == job[task[a].job]
        seen == task[a].seen
    IN  task[a] # Idle =>
          /\ task[a].op = "create" => seen.count \in Slots
          /\ task[a].op = "publish" => row.status = "draft"
          /\ task[a].op = "cancel" => row.status \in Cancellable
          /\ task[a].op = "accept" => ~row.assigned /\ (MixedUse \/ row.slots = 1)
          /\ task[a].op = "accept_slot" =>
               /\ row.slots > 1
               /\ task[a].stage = "read" =>
                    /\ row.accepted < row.slots
                    /\ seen.count = row.accepted + 1
                    /\ seen.status = row.status
          /\ task[a].op = "apply" =>
               row.status # "none" /\ (OffFeed \/ row.status = "open")
          /\ task[a].op \in Completions /\ task[a].stage = "read" =>
               seen.status = row.status /\ (row.slots = 1 => seen.last)

JobInv == (\A j \in Job : JobOk(j)) /\ \A a \in Agent : Knows(a)

\* A job whose row and applications stay as they are, for what counts here.
JobStays(j) ==
    /\ job'[j].status = job[j].status /\ job'[j].slots = job[j].slots
    /\ job'[j].accepted = job[j].accepted /\ job'[j].assigned = job[j].assigned
    /\ \A w \in Worker : app'[<<w, j>>] = app[<<w, j>>]

LEMMA JobStaysOk ==
  ASSUME NEW j \in Job, JobOk(j), JobStays(j) PROVE JobOk(j)'
<1>1. Hired(j)' = Hired(j) BY DEF JobStays, Hired
<1>2. Unborn(j)' BY DEF JobStays, JobOk, Unborn
<1>3. OneSlot(j)' BY <1>1 DEF JobStays, JobOk, OneSlot
<1>4. Counted(j)' BY <1>1 DEF JobStays, JobOk, Counted
<1>5. QED BY <1>2, <1>3, <1>4 DEF JobStays, JobOk

LEMMA AllStay ==
  ASSUME JobInv, UNCHANGED <<job, app>> PROVE \A j \in Job : JobOk(j)'
<1>1. \A j \in Job : JobStays(j) BY DEF JobStays
<1>2. QED BY <1>1, JobStaysOk DEF JobInv

\* Without a task there is nothing to know.
LEMMA IdleKnows ==
  ASSUME \A b \in Agent : task'[b] = Idle PROVE \A b \in Agent : Knows(b)'
  BY DEF Knows

LEMMA SameKnows ==
  ASSUME JobInv, UNCHANGED <<job, app, task>> PROVE JobInv'
  BY AllStay DEF JobInv, Knows

\* A task that starts knows what its checks have read.
LEMMA StartKnows ==
  ASSUME Serial, SerialInv, JobInv, NEW a \in Agent, NEW op, NEW w, NEW j \in Job, NEW seen,
         Start(a, op, w, j, seen),
         op = "create" => seen.count \in Slots,
         op = "publish" => job[j].status = "draft",
         op = "cancel" => job[j].status \in Cancellable,
         op = "accept" => ~job[j].assigned /\ (MixedUse \/ job[j].slots = 1),
         op = "accept_slot" => job[j].slots > 1,
         op = "apply" => job[j].status # "none" /\ (OffFeed \/ job[j].status = "open")
  PROVE  JobInv'
<1>1. /\ task'[a] = [op |-> op, stage |-> "asked", worker |-> w, job |-> j, seen |-> seen]
      /\ UNCHANGED <<job, app>>
  BY DEF Start, SerialInv, TypeInv, TypeOK
<1>2. Knows(a)' BY <1>1 DEF Knows
<1>3. QED BY <1>1, <1>2, AllStay DEF JobInv, Serial

\* A task that looks knows what it has seen.
LEMMA LookKnows ==
  ASSUME Serial, SerialInv, JobInv, NEW a \in Agent, task[a] # Idle, NEW stage, NEW seen,
         Look(a, stage, seen),
         task[a].op = "create" => seen.count \in Slots,
         task[a].op = "accept_slot" /\ stage = "read" =>
            LET row == job[task[a].job]
            IN  /\ row.accepted < row.slots /\ seen.count = row.accepted + 1
                /\ seen.status = row.status,
         task[a].op \in Completions /\ stage = "read" =>
            LET row == job[task[a].job]
            IN  seen.status = row.status /\ (row.slots = 1 => seen.last)
  PROVE  JobInv'
<1>1. /\ UNCHANGED <<job, app>>
      /\ task'[a] # Idle => /\ task'[a].op = task[a].op /\ task'[a].job = task[a].job
                            /\ task'[a].stage = stage /\ task'[a].seen = seen
  BY LooksSame
<1>2. Knows(a) BY DEF JobInv
<1>3. Knows(a)'
  <2> SUFFICES ASSUME task'[a] # Idle PROVE Knows(a)'
    BY DEF Knows
  <2>1. /\ task'[a].op = task[a].op /\ task'[a].job = task[a].job
        /\ task'[a].stage = stage /\ task'[a].seen = seen /\ job' = job
    BY <1>1
  <2>2. QED BY <1>2, <2>1 DEF Knows
<1>4. QED BY <1>1, <1>3, AllStay DEF JobInv, Serial

LEMMA StartJobs ==
  ASSUME Serial, SerialInv, JobInv, NEW a \in Agent,
         StartCreate(a) \/ StartUpdate(a) \/ StartPublish(a) \/ StartCancel(a)
           \/ StartAccept(a) \/ StartAcceptSlot(a) \/ StartReject(a)
           \/ StartApply(a) \/ StartWithdraw(a) \/ StartClockIn(a) \/ StartClockOut(a)
           \/ StartConfirm(a) \/ StartDispute(a) \/ StartAutoRelease(a) \/ StartTimeout(a)
  PROVE  JobInv'
<1>1. CASE StartCreate(a)
  <2>1. PICK j \in Job, pay \in Pay, slots \in Slots, now \in BOOLEAN :
           Start(a, "create", Nobody, j,
                 [Blank EXCEPT !.amount = pay, !.count = slots, !.ok = now])
    BY <1>1 DEF StartCreate
  <2>2. PICK seen : seen = [Blank EXCEPT !.amount = pay, !.count = slots, !.ok = now]
    OBVIOUS
  <2>3. Start(a, "create", Nobody, j, seen) /\ seen.count \in Slots
    BY <2>1, <2>2 DEF Blank
  <2>4. QED BY <2>3, StartKnows
<1>2. CASE StartUpdate(a)
  <2>1. \E j \in Job : \E seen : Start(a, "update", Nobody, j, seen)
    BY <1>2 DEF StartUpdate
  <2>2. QED BY <2>1, StartKnows
<1>3. CASE StartPublish(a)
  <2>1. \E j \in Job : \E seen :
           job[j].status = "draft" /\ Start(a, "publish", Nobody, j, seen)
    BY <1>3 DEF StartPublish
  <2>2. QED BY <2>1, StartKnows
<1>4. CASE StartCancel(a)
  BY <1>4, StartKnows DEF StartCancel
<1>5. CASE StartAccept(a)
  BY <1>5, StartKnows DEF StartAccept
<1>6. CASE StartAcceptSlot(a)
  <2>1. \E w \in Worker, j \in Job : \E seen :
           job[j].slots > 1 /\ Start(a, "accept_slot", w, j, seen)
    BY <1>6 DEF StartAcceptSlot
  <2>2. QED BY <2>1, StartKnows
<1>7. CASE StartApply(a)
  BY <1>7, StartKnows DEF StartApply
<1>8. CASE StartReject(a) \/ StartWithdraw(a)
  BY <1>8, StartKnows DEF StartReject, StartWithdraw
<1>9. CASE StartClockIn(a)
  <2>1. \E w \in Worker, j \in Job : \E seen : Start(a, "clock_in", w, j, seen)
    BY <1>9 DEF StartClockIn
  <2>2. QED BY <2>1, StartKnows
<1>10. CASE StartClockOut(a) \/ StartConfirm(a) \/ StartDispute(a)
  BY <1>10, StartKnows DEF StartClockOut, StartConfirm, StartDispute
<1>11. CASE StartAutoRelease(a) \/ StartTimeout(a)
  BY <1>11, StartKnows DEF StartAutoRelease, StartTimeout
<1>12. QED
  BY <1>1, <1>2, <1>3, <1>4, <1>5, <1>6, <1>7, <1>8, <1>9, <1>10, <1>11

\* The application that a task about one application is about.
LEMMA TaskPair ==
  ASSUME SerialInv, NEW a \in Agent, task[a] # Idle, task[a].op \in OnItem
  PROVE  /\ task[a].worker \in Worker /\ task[a].job \in Job
         /\ ItemOf(a) = <<task[a].worker, task[a].job>> /\ ItemOf(a) \in Item
  BY DEF SerialInv, TypeInv, TypeOK, TasksNamed, Task, ItemOf, Item

\* The worker that is about to be paid is the only one of a job of one slot.
LEMMA OnlyWorker ==
  ASSUME SerialInv, JobInv, NEW w \in Worker, NEW j \in Job, app[<<w, j>>] # "completed",
         session[<<w, j>>].status # "none", job[j].slots = 1
  PROVE  LastWorker(<<w, j>>)
<1>1. <<w, j>> \in Item BY DEF Item
<1>2. app[<<w, j>>] \in AtWork
  BY <1>1 DEF SerialInv, Matching, TypeInv, TypeOK, SessionRow
<1>3. w \in Hired(j) BY <1>2 DEF Hired, InFlight, AtWork
<1>4. \A v \in Hired(j) : v = w BY <1>3 DEF JobInv, JobOk, OneSlot
<1>5. QED BY <1>4 DEF LastWorker, Hired

LEMMA LookJobs ==
  ASSUME Serial, SerialInv, JobInv, NEW a \in Agent,
         ReadCreate(a) \/ ReadPublish(a) \/ ReadCancel(a) \/ ReadAcceptSlot(a)
           \/ LockSession(a) \/ ReadConfirm(a) \/ ReadAutoRelease(a) \/ ReadTimeout(a)
  PROVE  JobInv'
<1>0. Knows(a) BY DEF JobInv
<1>1. CASE ReadCreate(a)
  <2>1. Look(a, "read", task[a].seen) /\ task[a] # Idle /\ task[a].op = "create"
    BY <1>1 DEF ReadCreate, At
  <2>2. task[a].seen.count \in Slots BY <1>0, <2>1 DEF Knows
  <2>3. QED BY <2>1, <2>2, LookKnows DEF Completions
<1>2. CASE ReadPublish(a) \/ ReadCancel(a) \/ LockSession(a)
  <2>1. PICK stage, seen :
           /\ Look(a, stage, seen) /\ task[a] # Idle
           /\ task[a].op \in {"publish", "cancel"} \/ (task[a].op = "confirm" /\ stage = "locked")
    BY <1>2 DEF ReadPublish, ReadCancel, LockSession, At
  <2>2. QED BY <2>1, LookKnows DEF Completions
<1>3. CASE ReadAcceptSlot(a)
  <2> DEFINE row == job[task[a].job]
  <2>1. /\ task[a] # Idle /\ task[a].op = "accept_slot" /\ row.accepted < row.slots
        /\ Look(a, "read", [task[a].seen EXCEPT !.count = row.accepted + 1,
                                                !.status = row.status])
    BY <1>3 DEF ReadAcceptSlot, At
  <2>2. task[a].seen \in Seen BY <2>1 DEF SerialInv, TypeInv, TypeOK, Task
  <2>3. PICK seen : seen = [task[a].seen EXCEPT !.count = row.accepted + 1,
                                                !.status = row.status]
    OBVIOUS
  <2>4. seen.count = row.accepted + 1 /\ seen.status = row.status
    BY <2>2, <2>3 DEF Seen
  <2>5. Look(a, "read", seen) BY <2>1, <2>3
  <2>6. QED BY <2>1, <2>4, <2>5, LookKnows DEF Completions
<1>4. CASE ReadConfirm(a) \/ ReadAutoRelease(a) \/ ReadTimeout(a)
  <2>1. /\ task[a] # Idle /\ task[a].op \in Completions /\ task[a].op \in OnItem
        /\ ReadCompletion(a, ItemOf(a))
    BY <1>4 DEF ReadConfirm, ReadAutoRelease, ReadTimeout, At, Completions, OnItem
  <2>2. PICK w \in Worker, j \in Job : /\ ItemOf(a) = <<w, j>> /\ task[a].job = j
    BY <2>1, TaskPair
  <2>3. CASE app[<<w, j>>] = "completed"
    <3>1. Look(a, "skip", Blank) BY <2>1, <2>2, <2>3 DEF ReadCompletion
    <3>2. QED BY <2>1, <3>1, LookKnows DEF Completions
  <2>4. CASE app[<<w, j>>] # "completed"
    <3>1. PICK seen : /\ Look(a, "read", seen) /\ seen.status = job[j].status
                      /\ seen.last = LastWorker(<<w, j>>)
      BY <2>1, <2>2, <2>4 DEF ReadCompletion
    <3>2. session[<<w, j>>].status # "none"
      BY <2>1, <2>2 DEF SerialInv, Fresh, Completions
    <3>3. job[j].slots = 1 => seen.last
      BY <2>4, <3>1, <3>2, OnlyWorker
    <3>4. QED BY <2>1, <2>2, <3>1, <3>3, LookKnows DEF Completions
  <2>5. QED BY <2>3, <2>4
<1>5. QED BY <1>1, <1>2, <1>3, <1>4

\* A change of the applications that hires nobody and lets nobody go.
LEMMA HiredSame ==
  ASSUME NEW j \in Job,
         \A w \in Worker : app'[<<w, j>>] \in InFlight \union {"completed"}
                             <=> app[<<w, j>>] \in InFlight \union {"completed"}
  PROVE  Hired(j)' = Hired(j)
  BY DEF Hired

\* The employer's commits about a job as such.
LEMMA JobCommits ==
  ASSUME Serial, SerialInv, JobInv, NEW a \in Agent,
         Create(a) \/ Update(a) \/ Publish(a) \/ Cancel(a)
  PROVE  JobInv'
<1>j. PICK j \in Job : j = task[a].job
  BY DEF Create, Update, Publish, Cancel, At, Task, SerialInv, TypeInv, TypeOK
<1>0. /\ task[a] # Idle /\ task[a] \in Task /\ Knows(a) /\ j = task[a].job
      /\ job \in [Job -> JobRow] /\ app \in [Item -> AppStatus] /\ job[j] \in JobRow
  BY <1>j DEF Create, Update, Publish, Cancel, At, Task, JobInv, SerialInv, TypeInv, TypeOK
<1>1. \A b \in Agent : Knows(b)' BY CommitEnds, IdleKnows
<1>2. \A k \in Job : JobOk(k) BY DEF JobInv
<1>3. \A w \in Worker : \A k \in Job : <<w, k>> \in Item BY DEF Item
<1>4. CASE Create(a)
  <2>1. /\ job[j].status = "none" /\ UNCHANGED app
        /\ \A k \in Job \ {j} : job'[k] = job[k]
        /\ job'[j].status \in {"open", "draft"} /\ job'[j].slots = task[a].seen.count
        /\ job'[j].accepted = 0
    BY <1>0, <1>4 DEF Create
  <2>2. \A w \in Worker : app[<<w, j>>] = "none" BY <1>0, <1>2, <2>1 DEF JobOk, Unborn
  <2>3. Hired(j)' = {} BY <2>1, <2>2 DEF Hired, InFlight
  <2>4. task[a].seen.count \in Slots BY <1>0, <1>4 DEF Create, At, Knows
  <2>5. IsFiniteSet(Hired(j))' /\ Cardinality(Hired(j))' = 0
    BY <2>3, FS_EmptySet
  <2>6. Counted(j)'
    <3>1. job'[j].slots \in Nat BY <2>1, <2>4, SlotsAssumption
    <3>2. Cardinality(Hired(j))' <= job'[j].accepted /\ job'[j].accepted <= job'[j].slots
      BY <2>1, <2>5, <3>1
    <3>3. QED BY <2>5, <3>2 DEF Counted
  <2>7. Unborn(j)' /\ OneSlot(j)'
    BY <2>1, <2>2, <2>3 DEF Unborn, OneSlot, AtWork
  <2>8. JobOk(j)' BY <2>1, <2>4, <2>6, <2>7 DEF JobOk
  <2>9. \A k \in Job \ {j} : JobOk(k)' BY <1>2, <2>1, JobStaysOk DEF JobStays
  <2>10. QED BY <1>1, <2>8, <2>9 DEF JobInv
<1>5. CASE Update(a)
  <2>1. \A k \in Job : JobStays(k) BY <1>0, <1>5 DEF Update, JobStays, JobRow
  <2>2. QED BY <1>1, <1>2, <2>1, JobStaysOk DEF JobInv
<1>6. CASE Publish(a)
  <2>1. /\ UNCHANGED app /\ \A k \in Job \ {j} : job'[k] = job[k]
        /\ job'[j].status = "open" /\ job'[j].slots = job[j].slots
        /\ job'[j].accepted = job[j].accepted /\ job'[j].assigned = job[j].assigned
    BY <1>0, <1>6 DEF Publish, JobRow
  <2>2. job[j].status = "draft" BY <1>0, <1>6 DEF Publish, At, Knows
  <2>3. Hired(j)' = Hired(j) BY <2>1, HiredSame
  <2>4. JobOk(j) BY <1>0, <1>2
  <2>5. Unborn(j)' /\ Counted(j)' BY <2>1, <2>3, <2>4 DEF JobOk, Unborn, Counted
  <2>6. OneSlot(j)' BY <2>1, <2>2, <2>3, <2>4 DEF JobOk, OneSlot
  <2>7. JobOk(j)'
    <3>1. job[j].slots \in Slots BY <2>2, <2>4 DEF JobOk
    <3>2. QED BY <2>1, <2>4, <2>5, <2>6, <3>1 DEF JobOk
  <2>8. \A k \in Job \ {j} : JobOk(k)' BY <1>2, <2>1, JobStaysOk DEF JobStays
  <2>9. QED BY <1>1, <2>7, <2>8 DEF JobInv
<1>7. CASE Cancel(a)
  <2>1. /\ \A k \in Job \ {j} : job'[k] = job[k]
        /\ job'[j].status = "cancelled" /\ job'[j].slots = job[j].slots
        /\ job'[j].accepted = job[j].accepted /\ job'[j].assigned = job[j].assigned
    BY <1>0, <1>7 DEF Cancel, JobRow
  <2>2. job[j].status \in Cancellable BY <1>0, <1>7 DEF Cancel, At, Knows
  <2>3. app' = [i \in Item |->
                 IF i[2] = task[a].job /\ app[i] \in {"applied", "accepted"}
                 THEN "rejected" ELSE app[i]]
    BY <1>7 DEF Cancel
  <2>4. ASSUME NEW w \in Worker, NEW k \in Job
        PROVE  app'[<<w, k>>] = IF k = j /\ app[<<w, k>>] \in {"applied", "accepted"}
                                THEN "rejected" ELSE app[<<w, k>>]
    <3>1. <<w, k>> \in Item /\ <<w, k>>[2] = k BY <1>3
    <3>2. app'[<<w, k>>] =
             IF <<w, k>>[2] = task[a].job /\ app[<<w, k>>] \in {"applied", "accepted"}
             THEN "rejected" ELSE app[<<w, k>>]
      BY <2>3, <3>1, Zenon
    <3>3. <<w, k>>[2] = task[a].job <=> k = j BY <1>0, <3>1
    <3>4. QED BY <3>2, <3>3
  <2>5. \A w \in Worker : \/ app'[<<w, j>>] = "rejected"
                          \/ /\ app'[<<w, j>>] = app[<<w, j>>]
                             /\ app[<<w, j>>] \notin {"applied", "accepted"}
    BY <1>0, <2>4
  <2>6. Hired(j)' \subseteq Hired(j) BY <2>5 DEF Hired, InFlight
  <2>7. JobOk(j) BY <1>0, <1>2
  <2>8. Unborn(j)' BY <2>1 DEF Unborn
  <2>9. OneSlot(j)'
    <3>1. ASSUME job[j].slots = 1, NEW w \in Worker
          PROVE  app[<<w, j>>] \notin AtWork \union {"completed"}
      BY <2>2, <2>7, <3>1 DEF JobOk, OneSlot, Cancellable
    <3>2. ASSUME job[j].slots = 1, NEW w \in Worker
          PROVE  app'[<<w, j>>] \notin AtWork \union {"completed", "accepted", "applied"}
      BY <2>5, <3>1, <3>2 DEF AtWork
    <3>3. QED BY <2>1, <2>6, <2>7, <3>2 DEF JobOk, OneSlot
  <2>10. Counted(j)'
    <3> SUFFICES ASSUME job[j].slots > 1, ~MixedUse
                 PROVE  /\ IsFiniteSet(Hired(j))' /\ job[j].accepted <= job[j].slots
                        /\ Cardinality(Hired(j))' <= job[j].accepted
      BY <2>1 DEF Counted
    <3>1. /\ IsFiniteSet(Hired(j)) /\ job[j].accepted <= job[j].slots
          /\ Cardinality(Hired(j)) <= job[j].accepted
      BY <2>7 DEF JobOk, Counted
    <3>2. /\ IsFiniteSet(Hired(j))' /\ Cardinality(Hired(j))' <= Cardinality(Hired(j))
      BY <2>6, <3>1, FS_Subset
    <3>3. Cardinality(Hired(j)) \in Nat /\ Cardinality(Hired(j))' \in Nat
      BY <3>1, <3>2, FS_CardinalityType
    <3>4. QED BY <1>0, <3>1, <3>2, <3>3 DEF JobRow
  <2>11. JobOk(j)'
    <3>1. job[j].slots \in Slots BY <2>2, <2>7 DEF JobOk, Cancellable
    <3>2. QED BY <2>1, <2>7, <2>8, <2>9, <2>10, <3>1 DEF JobOk
  <2>12. ASSUME NEW k \in Job \ {j} PROVE JobOk(k)'
    <3>1. JobStays(k) BY <2>1, <2>4 DEF JobStays
    <3>2. QED BY <1>2, <3>1, JobStaysOk
  <2>13. QED BY <1>1, <2>11, <2>12 DEF JobInv
<1>8. QED BY <1>4, <1>5, <1>6, <1>7

\* A task about one application moves that one: the others of its job stay, and
\* so do the jobs it is not about.
LEMMA OtherJobs ==
  ASSUME JobInv, NEW w \in Worker, NEW j \in Job,
         \A k \in Job \ {j} : job'[k] = job[k],
         \A v \in Worker, k \in Job \ {j} : app'[<<v, k>>] = app[<<v, k>>],
         JobOk(j)', \A b \in Agent : Knows(b)'
  PROVE  JobInv'
<1>1. ASSUME NEW k \in Job \ {j} PROVE JobOk(k)'
  <2>1. JobStays(k) BY DEF JobStays
  <2>2. QED BY <2>1, JobStaysOk DEF JobInv
<1>2. QED BY <1>1 DEF JobInv

LEMMA AppMoved ==
  ASSUME SerialInv, NEW w \in Worker, NEW j \in Job, NEW x, app' = [app EXCEPT ![<<w, j>>] = x]
  PROVE  /\ app'[<<w, j>>] = x
         /\ \A v \in Worker \ {w} : app'[<<v, j>>] = app[<<v, j>>]
         /\ \A v \in Worker, k \in Job \ {j} : app'[<<v, k>>] = app[<<v, k>>]
<1>1. app \in [Item -> AppStatus] BY DEF SerialInv, TypeInv, TypeOK
<1>2. \A v \in Worker, k \in Job : <<v, k>> \in Item BY DEF Item
<1>3. ASSUME NEW v \in Worker, NEW k \in Job
      PROVE  app'[<<v, k>>] = IF v = w /\ k = j THEN x ELSE app[<<v, k>>]
  BY <1>1, <1>2
<1>4. QED BY <1>3

\* Counting does not mind whoever is not hired, and a step of who is.
LEMMA CountStays ==
  ASSUME NEW j \in Job, Counted(j), Hired(j)' = Hired(j), job'[j].slots = job[j].slots,
         job'[j].accepted = job[j].accepted
  PROVE  Counted(j)'
  BY DEF Counted

\* The commits of apply, withdraw and reject.
LEMMA ApplyCommits ==
  ASSUME Serial, SerialInv, JobInv, NEW a \in Agent, Reject(a) \/ Apply(a) \/ Withdraw(a)
  PROVE  JobInv'
<1>1. /\ task[a] # Idle /\ task[a].op \in OnItem /\ Knows(a) /\ UNCHANGED job /\ Fresh(a)
      /\ task[a].op = "apply" \/ task[a].op \in {"reject", "withdraw"}
  BY DEF Reject, Apply, Withdraw, At, OnItem, JobInv, SerialInv
<1>2. PICK w \in Worker, j \in Job : ItemOf(a) = <<w, j>> /\ task[a].job = j
  BY <1>1, TaskPair
<1>3. PICK x : app' = [app EXCEPT ![<<w, j>>] = x]
               /\ \/ /\ x = "applied" /\ app[<<w, j>>] = "none" /\ task[a].op = "apply"
                  \/ x \in {"rejected", "withdrawn"} /\ app[<<w, j>>] = "applied"
  BY <1>1, <1>2 DEF Reject, Apply, Withdraw, At, Fresh
<1>4. JobOk(j) BY DEF JobInv
<1>5. /\ app'[<<w, j>>] = x
      /\ \A v \in Worker \ {w} : app'[<<v, j>>] = app[<<v, j>>]
      /\ \A v \in Worker, k \in Job \ {j} : app'[<<v, k>>] = app[<<v, k>>]
  BY <1>3, AppMoved
<1>6. Hired(j)' = Hired(j)
  <2>1. x \notin InFlight \union {"completed"} /\ app[<<w, j>>] \notin InFlight \union {"completed"}
    BY <1>3 DEF InFlight
  <2>2. QED BY <1>5, <2>1, HiredSame
<1>7. job[j].status # "none"
  BY <1>1, <1>2, <1>3, <1>4 DEF Knows, JobOk, Unborn
<1>8. x = "applied" /\ ~OffFeed => job[j].status = "open"
  BY <1>1, <1>2, <1>3 DEF Knows
<1>9. OneSlot(j)' BY <1>1, <1>3, <1>4, <1>5, <1>6, <1>8 DEF JobOk, OneSlot, AtWork
<1>10. JobOk(j)' BY <1>1, <1>4, <1>6, <1>7, <1>9, CountStays DEF JobOk, Unborn
<1>11. \A b \in Agent : Knows(b)' BY CommitEnds, IdleKnows
<1>12. QED BY <1>1, <1>5, <1>10, <1>11, OtherJobs

\* The two ways of accepting an application: the chosen one is accepted, those
\* turned down with it had applied.
LEMMA Decided ==
  ASSUME SerialInv, NEW w \in Worker, NEW j \in Job, NEW alone \in BOOLEAN,
         app[<<w, j>>] = "applied", Decide(<<w, j>>, alone)
  PROVE  /\ app'[<<w, j>>] = "accepted"
         /\ \A v \in Worker \ {w} :
               \/ app[<<v, j>>] = "applied" /\ app'[<<v, j>>] = "rejected"
               \/ app'[<<v, j>>] = app[<<v, j>>] /\ (alone => app[<<v, j>>] # "applied")
         /\ \A v \in Worker, k \in Job \ {j} : app'[<<v, k>>] = app[<<v, k>>]
<1>1. ASSUME NEW v \in Worker, NEW k \in Job
      PROVE  app'[<<v, k>>] =
                IF v = w /\ k = j THEN "accepted"
                ELSE IF alone /\ k = j /\ app[<<v, k>>] = "applied" THEN "rejected"
                ELSE app[<<v, k>>]
  <2>1. <<v, k>> \in Item /\ <<v, k>>[2] = k /\ <<w, j>>[2] = j
        /\ (<<v, k>> = <<w, j>> <=> v = w /\ k = j)
    BY DEF Item
  <2>2. app'[<<v, k>>] =
          IF <<v, k>> = <<w, j>> THEN "accepted"
          ELSE IF alone /\ <<v, k>>[2] = <<w, j>>[2] /\ app[<<v, k>>] = "applied"
               THEN "rejected" ELSE app[<<v, k>>]
    BY <2>1, Zenon DEF Decide
  <2>3. QED BY <2>1, <2>2
<1>2. QED BY <1>1

LEMMA AcceptCommits ==
  ASSUME Serial, SerialInv, JobInv, NEW a \in Agent, Accept(a) PROVE JobInv'
<1>1. /\ task[a] # Idle /\ task[a].op = "accept" /\ Knows(a) /\ Fresh(a)
      /\ task[a].op \in OnItem
  BY DEF Accept, At, JobInv, SerialInv, OnItem
<1>2. PICK w \in Worker, j \in Job : ItemOf(a) = <<w, j>> /\ task[a].job = j
  BY <1>1, TaskPair
<1>3. /\ app[<<w, j>>] = "applied" /\ Decide(<<w, j>>, TRUE)
      /\ ~job[j].assigned /\ (MixedUse \/ job[j].slots = 1)
  BY <1>1, <1>2 DEF Fresh, Knows, Accept
<1>4. JobOk(j) /\ job \in [Job -> JobRow] BY DEF JobInv, SerialInv, TypeInv, TypeOK
<1>5. /\ \A k \in Job \ {j} : job'[k] = job[k]
      /\ job'[j].status = "accepted" /\ job'[j].slots = job[j].slots
      /\ job'[j].accepted = job[j].accepted /\ job'[j].assigned
  BY <1>2, <1>4 DEF Accept, JobRow
<1>6. /\ app'[<<w, j>>] = "accepted"
      /\ \A v \in Worker \ {w} :
            \/ app[<<v, j>>] = "applied" /\ app'[<<v, j>>] = "rejected"
            \/ app'[<<v, j>>] = app[<<v, j>>] /\ app[<<v, j>>] # "applied"
      /\ \A v \in Worker, k \in Job \ {j} : app'[<<v, k>>] = app[<<v, k>>]
  BY <1>3, Decided
<1>7. OneSlot(j)'
  <2> SUFFICES ASSUME job[j].slots = 1 PROVE OneSlot(j)'
    BY <1>5 DEF OneSlot
  <2>1. \A v \in Worker : app[<<v, j>>] \notin InFlight \union {"completed"}
    BY <1>3, <1>4 DEF JobOk, OneSlot, Hired
  <2>2. \A v \in Worker \ {w} :
           app'[<<v, j>>] \notin InFlight \union {"completed", "applied"}
    BY <1>6, <2>1 DEF InFlight
  <2>3. \A v \in Hired(j)' : v = w BY <2>2 DEF Hired
  <2>4. QED BY <1>5, <1>6, <2>2, <2>3 DEF OneSlot, InFlight, AtWork
<1>8. Counted(j)'
  <2>1. job'[j].slots > 1 /\ ~MixedUse => FALSE BY <1>3, <1>5
  <2>2. QED BY <2>1 DEF Counted
<1>9. JobOk(j)'
  <2>1. job[j].slots \in Slots BY <1>3, <1>4 DEF JobOk, Unborn
  <2>2. QED BY <1>4, <1>5, <1>7, <1>8, <2>1 DEF JobOk, Unborn
<1>10. \A b \in Agent : Knows(b)' BY CommitEnds, IdleKnows
<1>11. QED BY <1>5, <1>6, <1>9, <1>10, OtherJobs

LEMMA AcceptSlotCommits ==
  ASSUME Serial, SerialInv, JobInv, NEW a \in Agent, AcceptSlot(a) PROVE JobInv'
<1>1. /\ task[a] # Idle /\ task[a].op = "accept_slot" /\ task[a].stage = "read"
      /\ Knows(a) /\ Fresh(a) /\ task[a].op \in OnItem /\ task[a] \in Task
  BY DEF AcceptSlot, At, JobInv, SerialInv, OnItem, TypeInv, TypeOK
<1>2. PICK w \in Worker, j \in Job : ItemOf(a) = <<w, j>> /\ task[a].job = j
  BY <1>1, TaskPair
<1>3. PICK seen \in Seen : seen = task[a].seen BY <1>1 DEF Task
<1>4. /\ app[<<w, j>>] = "applied" /\ Decide(<<w, j>>, seen.last) /\ seen.last \in BOOLEAN
      /\ job[j].slots > 1 /\ job[j].accepted < job[j].slots
      /\ seen.count = job[j].accepted + 1 /\ seen.status = job[j].status
  BY <1>1, <1>2, <1>3 DEF Fresh, Knows, AcceptSlot, Seen
<1>5. JobOk(j) /\ job \in [Job -> JobRow] BY DEF JobInv, SerialInv, TypeInv, TypeOK
<1>6. /\ \A k \in Job \ {j} : job'[k] = job[k]
      /\ job'[j].status \in {"accepted", seen.status} /\ job'[j].slots = job[j].slots
      /\ job'[j].accepted = seen.count
  BY <1>2, <1>3, <1>5 DEF AcceptSlot, JobRow
<1>7. /\ app'[<<w, j>>] = "accepted"
      /\ \A v \in Worker \ {w} :
            \/ app[<<v, j>>] = "applied" /\ app'[<<v, j>>] = "rejected"
            \/ app'[<<v, j>>] = app[<<v, j>>]
      /\ \A v \in Worker, k \in Job \ {j} : app'[<<v, k>>] = app[<<v, k>>]
  BY <1>4, Decided
<1>8. job'[j].status # "none"
  BY <1>4, <1>5, <1>6 DEF JobOk, Unborn
<1>9. Counted(j)'
  <2> SUFFICES ASSUME ~MixedUse
               PROVE  /\ IsFiniteSet(Hired(j))' /\ Cardinality(Hired(j))' <= job'[j].accepted
                      /\ job'[j].accepted <= job'[j].slots
    BY DEF Counted
  <2>1. IsFiniteSet(Hired(j)) /\ Cardinality(Hired(j)) <= job[j].accepted
    BY <1>4, <1>5 DEF JobOk, Counted
  <2>2. Hired(j)' = Hired(j) \union {w} /\ w \notin Hired(j)
    BY <1>4, <1>7 DEF Hired, InFlight
  <2>3. /\ IsFiniteSet(Hired(j) \union {w})
        /\ Cardinality(Hired(j) \union {w}) = Cardinality(Hired(j)) + 1
    BY <2>1, <2>2, FS_AddElement
  <2>4. Cardinality(Hired(j)) \in Nat BY <2>1, FS_CardinalityType
  <2>5. job[j].accepted \in Nat /\ job[j].slots \in Nat BY <1>5 DEF JobRow
  <2>6. Cardinality(Hired(j))' = Cardinality(Hired(j)) + 1 BY <2>2, <2>3
  <2>7. IsFiniteSet(Hired(j))' BY <2>2, <2>3
  <2>8. QED BY <1>4, <1>6, <2>1, <2>4, <2>5, <2>6, <2>7
<1>10. JobOk(j)'
  <2>1. OneSlot(j)' BY <1>4, <1>5, <1>6 DEF OneSlot, JobRow
  <2>2. job[j].slots \in Slots BY <1>4, <1>5 DEF JobOk, Unborn
  <2>3. QED BY <1>5, <1>6, <1>8, <1>9, <2>1, <2>2 DEF JobOk, Unborn
<1>11. \A b \in Agent : Knows(b)' BY CommitEnds, IdleKnows
<1>12. QED BY <1>6, <1>7, <1>10, <1>11, OtherJobs

\* A hired worker moves on, and with it a job of one slot.
LEMMA HiredMoves ==
  ASSUME SerialInv, JobInv, NEW w \in Worker, NEW j \in Job, NEW x, NEW status,
         app' = [app EXCEPT ![<<w, j>>] = x], w \in Hired(j),
         \A k \in Job \ {j} : job'[k] = job[k],
         job'[j].status = status, job'[j].slots = job[j].slots,
         job'[j].accepted = job[j].accepted, job'[j].assigned = job[j].assigned,
         status # "none", \A b \in Agent : Knows(b)',
         \/ x \in AtWork /\ status \in {"in_progress", "pending_verification"}
         \/ x = "completed" /\ (job[j].slots = 1 => status = "completed")
  PROVE  JobInv'
<1>1. /\ app'[<<w, j>>] = x
      /\ \A v \in Worker \ {w} : app'[<<v, j>>] = app[<<v, j>>]
      /\ \A v \in Worker, k \in Job \ {j} : app'[<<v, k>>] = app[<<v, k>>]
  BY AppMoved
<1>2. x \in InFlight \union {"completed"} BY DEF InFlight, AtWork
<1>3. app[<<w, j>>] \in InFlight \union {"completed"} BY DEF Hired
<1>4. Hired(j)' = Hired(j) BY <1>1, <1>2, <1>3, HiredSame
<1>5. JobOk(j) BY DEF JobInv
<1>6. OneSlot(j)'
  <2> SUFFICES ASSUME job[j].slots = 1 PROVE OneSlot(j)'
    BY DEF OneSlot
  <2>1. /\ Hired(j) # {} /\ job[j].assigned /\ \A v \in Hired(j) : v = w
        /\ \A v, u \in Hired(j) : v = u
    BY <1>5 DEF JobOk, OneSlot
  <2>2. \A v \in Worker \ {w} : app'[<<v, j>>] \notin InFlight \union {"completed"}
    BY <1>1, <2>1 DEF Hired
  <2>3. \A v \in Worker : app[<<v, j>>] = "applied" /\ ~OffFeed => FALSE
    <3>1. job[j].status # "open"
      BY <1>3, <1>5 DEF JobOk, OneSlot, InFlight, AtWork
    <3>2. QED BY <1>5, <3>1 DEF JobOk, OneSlot
  <2>4. \A v \in Worker \ {w} : ~(app'[<<v, j>>] = "applied" /\ ~OffFeed)
    BY <1>1, <2>3
  <2>5. x # "applied" /\ x # "accepted" BY DEF AtWork
  <2>6. CASE x \in AtWork /\ status \in {"in_progress", "pending_verification"}
    BY <1>1, <1>4, <2>1, <2>2, <2>4, <2>5, <2>6 DEF OneSlot, InFlight, AtWork
  <2>7. CASE x = "completed" /\ status = "completed"
    BY <1>1, <1>4, <2>1, <2>2, <2>4, <2>5, <2>7 DEF OneSlot, InFlight, AtWork
  <2>8. QED BY <2>6, <2>7
<1>7. job[j].slots \in Slots
  BY <1>3, <1>5 DEF JobOk, Unborn, InFlight
<1>8. JobOk(j)' BY <1>4, <1>5, <1>6, <1>7, CountStays DEF JobOk, Unborn
<1>9. QED BY <1>1, <1>8, OtherJobs

\* The commits of the worker's clock.
LEMMA ClockCommits ==
  ASSUME Serial, SerialInv, JobInv, NEW a \in Agent, ClockIn(a) \/ ClockOut(a)
  PROVE  JobInv'
<1>1. /\ task[a] # Idle /\ task[a].op \in {"clock_in", "clock_out"} /\ task[a].op \in OnItem
      /\ Fresh(a)
  BY DEF ClockIn, ClockOut, At, OnItem, SerialInv
<1>2. PICK w \in Worker, j \in Job : ItemOf(a) = <<w, j>> /\ task[a].job = j
  BY <1>1, TaskPair
<1>3. <<w, j>> \in Item BY DEF Item
<1>4. app[<<w, j>>] = "accepted" \/ app[<<w, j>>] \in AtWork
  BY <1>1, <1>2, <1>3 DEF Fresh, SerialInv, Matching
<1>5. w \in Hired(j) BY <1>4 DEF Hired, InFlight, AtWork
<1>6. job \in [Job -> JobRow] BY DEF SerialInv, TypeInv, TypeOK
<1>7. PICK x \in AtWork : app' = [app EXCEPT ![<<w, j>>] = x]
  BY <1>2 DEF ClockIn, ClockOut, AtWork
<1>8. /\ \A k \in Job \ {j} : job'[k] = job[k]
      /\ job'[j].status \in {"in_progress", "pending_verification"}
      /\ job'[j].slots = job[j].slots /\ job'[j].accepted = job[j].accepted
      /\ job'[j].assigned = job[j].assigned
  <2>1. CASE ClockIn(a) BY <1>2, <1>6, <2>1 DEF ClockIn, JobRow
  <2>2. CASE ClockOut(a) BY <1>2, <1>6, <2>2 DEF ClockOut, JobRow
  <2>3. QED BY <2>1, <2>2
<1>9. \A b \in Agent : Knows(b)' BY CommitEnds, IdleKnows
<1>10. PICK status : status = job'[j].status OBVIOUS
<1>11. QED BY <1>5, <1>7, <1>8, <1>9, <1>10, HiredMoves

\* A completion of what a task has read.
LEMMA CompleteCommits ==
  ASSUME Serial, SerialInv, JobInv, NEW a \in Agent, task[a] # Idle, task[a].stage = "read",
         task[a].op \in Completions, NEW review, NEW hold,
         Complete(ItemOf(a), task[a].seen, review, hold), \A b \in Agent : Knows(b)'
  PROVE  JobInv'
<1>1. task[a].op \in OnItem /\ Knows(a) /\ Fresh(a)
  BY DEF Completions, OnItem, JobInv, SerialInv
<1>2. PICK w \in Worker, j \in Job : ItemOf(a) = <<w, j>> /\ task[a].job = j
  BY <1>1, TaskPair
<1>3. <<w, j>> \in Item /\ <<w, j>>[2] = j BY DEF Item
<1>4. app[<<w, j>>] # "completed" /\ session[<<w, j>>].status # "none"
  BY <1>1, <1>2 DEF Fresh, Completions
<1>5. app[<<w, j>>] \in AtWork
  BY <1>3, <1>4 DEF SerialInv, Matching, TypeInv, TypeOK, SessionRow
<1>6. w \in Hired(j) BY <1>5 DEF Hired, InFlight, AtWork
<1>7. PICK seen : seen = task[a].seen OBVIOUS
<1>8. seen.status = job[j].status /\ (job[j].slots = 1 => seen.last)
  BY <1>1, <1>2, <1>7 DEF Knows
<1>9. job[j].status # "none"
  BY <1>5 DEF JobInv, JobOk, Unborn, AtWork
<1>10. job \in [Job -> JobRow] BY DEF SerialInv, TypeInv, TypeOK
<1>11. PICK status : status = IF seen.last THEN "completed" ELSE seen.status OBVIOUS
<1>12. PICK left : left = IF seen.ok THEN job[j].reserved - seen.amount ELSE job[j].reserved
  OBVIOUS
<1>13. job' = [job EXCEPT ![j].status = status, ![j].reserved = left]
  BY <1>2, <1>3, <1>7, <1>10, <1>11, <1>12 DEF Complete, JobRow
<1>14. /\ \A k \in Job \ {j} : job'[k] = job[k]
       /\ job'[j].status = status
       /\ job'[j].slots = job[j].slots /\ job'[j].accepted = job[j].accepted
       /\ job'[j].assigned = job[j].assigned
  BY <1>10, <1>13 DEF JobRow
<1>15. app' = [app EXCEPT ![<<w, j>>] = "completed"] BY <1>2 DEF Complete
<1>16. status # "none" /\ (job[j].slots = 1 => status = "completed")
  BY <1>8, <1>9, <1>11
<1>17. QED BY <1>6, <1>14, <1>15, <1>16, HiredMoves

LEMMA PayCommits ==
  ASSUME Serial, SerialInv, JobInv, NEW a \in Agent,
         Confirm(a) \/ AutoRelease(a) \/ MarkReleased(a) \/ Timeout(a) \/ Dispute(a)
           \/ Abort(a)
  PROVE  JobInv'
<1>1. \A b \in Agent : Knows(b)'
  <2>1. CASE AutoRelease(a)
    <3>1. \A b \in Agent : task'[b].stage = "mark" /\ task'[b].op = "auto_release"
      BY <2>1, ReleaseMarks
    <3>2. QED BY <3>1 DEF Knows
  <2>2. QED BY <2>1, CommitEnds, IdleKnows
<1>2. CASE UNCHANGED <<job, app>>
  BY <1>1, <1>2, AllStay DEF JobInv
<1>3. CASE \E review, hold : Complete(ItemOf(a), task[a].seen, review, hold)
                             /\ task[a] # Idle /\ task[a].stage = "read"
                             /\ task[a].op \in Completions
  BY <1>1, <1>3, CompleteCommits
<1>4. QED
  <2>1. CASE Confirm(a) BY <1>2, <1>3, <2>1 DEF Confirm, At, Completions
  <2>2. CASE AutoRelease(a) BY <1>2, <1>3, <2>2 DEF AutoRelease, Completions
  <2>3. CASE Timeout(a) BY <1>2, <1>3, <2>3 DEF Timeout, At, Completions
  <2>4. CASE MarkReleased(a) \/ Dispute(a) \/ Abort(a)
    BY <1>2, <2>4 DEF MarkReleased, Dispute, Abort
  <2>5. QED BY <2>1, <2>2, <2>3, <2>4

LEMMA JobStep == ASSUME Serial, SerialInv, JobInv, [Next]_vars PROVE JobInv'
<1>1. CASE UNCHANGED vars BY <1>1, SameKnows DEF vars
<1>2. CASE SetPaused \/ HoldEnds \/ CutoffPasses
  BY <1>2, SameKnows DEF SetPaused, HoldEnds, CutoffPasses
<1>3. ASSUME NEW a \in Agent, Hire(a) \/ Labour(a) \/ Review(a) \/ Abort(a) PROVE JobInv'
  BY <1>3, StartJobs, LookJobs, JobCommits, ApplyCommits, AcceptCommits, AcceptSlotCommits,
     ClockCommits, PayCommits DEF Hire, Labour, Review
<1>4. QED BY <1>1, <1>2, <1>3 DEF Next

LEMMA JobStart == Init => JobInv
<1> SUFFICES ASSUME Init PROVE JobInv
  OBVIOUS
<1>1. \A a \in Agent : Knows(a) BY DEF Init, Knows
<1>2. ASSUME NEW j \in Job PROVE JobOk(j)
  <2>1. job[j].slots = 0 /\ job[j].status = "none" /\ \A w \in Worker : app[<<w, j>>] = "none"
    BY DEF Init, Item
  <2>2. QED BY <2>1 DEF JobOk, Unborn, OneSlot, Counted
<1>3. QED BY <1>1, <1>2 DEF JobInv

LEMMA JobInvariant == ASSUME Serial PROVE Spec => [](SerialInv /\ JobInv)
<1>1. SerialInv /\ JobInv /\ [Next]_vars => JobInv' BY JobStep
<1>2. QED BY <1>1, JobStart, SerialInvariant, PTL DEF Spec

\* With one handler at a time a job of one slot is completed exactly when its
\* worker is, and nothing reopens, loses or completes it
\* (job-completion.service.ts:101, employer-jobs.service.ts:826).
THEOREM JobTracksWorkSerially == ASSUME Serial PROVE Spec => []JobTracksWork
<1>1. JobInv => JobTracksWork BY DEF JobInv, JobOk, OneSlot, JobTracksWork
<1>2. QED BY <1>1, JobInvariant, PTL

\* With one handler at a time, where jobs of several slots are hired slot by slot,
\* the counter is never behind the workers hired nor beyond the slots
\* (employer-jobs.service.ts:966).
THEOREM SlotsCountedSerially ==
  ASSUME Serial, ~MixedUse PROVE Spec => []SlotsCounted
<1>1. JobInv => SlotsCounted BY DEF JobInv, JobOk, Counted, Hired, SlotsCounted
<1>2. QED BY <1>1, JobInvariant, PTL

\* A job of one slot that is over has nobody who could move it.
LEMMA OverStays ==
  ASSUME Serial, ~OffFeed, Slots = {1}, SerialInv, JobInv, [Next]_vars, NEW j \in Job,
         job[j].status \in {"cancelled", "completed"}
  PROVE  job'[j].status = job[j].status
<1>1. JobOk(j) /\ job \in [Job -> JobRow] BY DEF JobInv, SerialInv, TypeInv, TypeOK
<1>2. job[j].slots = 1 BY <1>1 DEF JobOk
<1>3. \A w \in Worker : app[<<w, j>>] \notin InFlight \union {"applied"}
  BY <1>1, <1>2 DEF JobOk, OneSlot, InFlight, AtWork
<1>4. ASSUME NEW a \in Agent,
             Create(a) \/ Publish(a) \/ Cancel(a) \/ Update(a) PROVE job'[j].status = job[j].status
  <2>1. Knows(a) /\ task[a] # Idle BY <1>4 DEF JobInv, Create, Publish, Cancel, Update, At
  <2>2. CASE task[a].job # j
    BY <1>1, <1>4, <2>2 DEF Create, Publish, Cancel, Update
  <2>3. CASE task[a].job = j /\ Update(a)
    BY <1>1, <2>3 DEF Update, JobRow
  <2>4. CASE task[a].job = j /\ (Create(a) \/ Publish(a) \/ Cancel(a))
    BY <1>4, <2>1, <2>4 DEF Create, Publish, Cancel, At, Knows, Cancellable
  <2>5. QED BY <1>4, <2>2, <2>3, <2>4
<1>5. ASSUME NEW a \in Agent, Accept(a) \/ AcceptSlot(a) \/ ClockIn(a) \/ ClockOut(a)
      PROVE  job'[j].status = job[j].status
  <2>1. /\ task[a] # Idle /\ task[a].op \in OnItem /\ Fresh(a)
        /\ task[a].op \in {"accept", "accept_slot", "clock_in", "clock_out"}
    BY <1>5 DEF Accept, AcceptSlot, ClockIn, ClockOut, At, OnItem, SerialInv
  <2>2. PICK w \in Worker, k \in Job : ItemOf(a) = <<w, k>> /\ task[a].job = k
    BY <2>1, TaskPair
  <2>3. <<w, k>> \in Item BY DEF Item
  <2>4. app[<<w, k>>] \in InFlight \union {"applied"}
    BY <2>1, <2>2, <2>3 DEF Fresh, SerialInv, Matching, InFlight, AtWork
  <2>5. k # j BY <1>3, <2>4
  <2>6. QED BY <1>1, <1>5, <2>2, <2>5 DEF Accept, AcceptSlot, ClockIn, ClockOut
<1>6. ASSUME NEW a \in Agent, Confirm(a) \/ AutoRelease(a) \/ Timeout(a)
      PROVE  job'[j].status = job[j].status
  <2>1. CASE UNCHANGED job BY <2>1
  <2>2. CASE ~UNCHANGED job
    <3>1. /\ task[a] # Idle /\ task[a].op \in Completions /\ task[a].stage = "read"
          /\ \E review, hold : Complete(ItemOf(a), task[a].seen, review, hold)
      <4>1. CASE Confirm(a) BY <2>2, <4>1 DEF Confirm, At, Completions
      <4>2. CASE AutoRelease(a) BY <2>2, <4>2 DEF AutoRelease, Completions
      <4>3. CASE Timeout(a) BY <2>2, <4>3 DEF Timeout, At, Completions
      <4>4. QED BY <1>6, <4>1, <4>2, <4>3
    <3>2. PICK w \in Worker, k \in Job : ItemOf(a) = <<w, k>> /\ task[a].job = k
      BY <3>1, TaskPair DEF Completions, OnItem
    <3>3. <<w, k>> \in Item /\ <<w, k>>[2] = k BY DEF Item
    <3>4. app[<<w, k>>] # "completed" /\ session[<<w, k>>].status # "none"
      BY <3>1, <3>2 DEF SerialInv, Fresh, Completions
    <3>5. app[<<w, k>>] \in InFlight
      BY <3>3, <3>4 DEF SerialInv, Matching, TypeInv, TypeOK, SessionRow, InFlight, AtWork
    <3>6. k # j BY <1>3, <3>5
    <3>7. QED BY <1>1, <3>1, <3>2, <3>3, <3>6 DEF Complete
  <2>3. QED BY <2>1, <2>2
<1>7. ASSUME NEW a \in Agent,
             Reject(a) \/ Apply(a) \/ Withdraw(a) \/ Dispute(a) \/ MarkReleased(a) \/ Abort(a)
      PROVE  UNCHANGED job
  BY <1>7 DEF Reject, Apply, Withdraw, Dispute, MarkReleased, Abort
<1>8. ASSUME NEW a \in Agent,
             ReadCreate(a) \/ ReadPublish(a) \/ ReadCancel(a) \/ ReadAcceptSlot(a)
               \/ LockSession(a) \/ ReadConfirm(a) \/ ReadAutoRelease(a) \/ ReadTimeout(a)
      PROVE  UNCHANGED job
  BY <1>8 DEF ReadCreate, ReadPublish, ReadCancel, ReadAcceptSlot, LockSession, ReadConfirm,
              ReadAutoRelease, ReadTimeout, ReadCompletion, Look
<1>9. CASE UNCHANGED vars \/ SetPaused \/ HoldEnds \/ CutoffPasses
  BY <1>9 DEF vars, SetPaused, HoldEnds, CutoffPasses
<1>10. ASSUME NEW a \in Agent, Hire(a) \/ Labour(a) \/ Review(a) \/ Abort(a)
       PROVE job'[j].status = job[j].status
  BY <1>4, <1>5, <1>6, <1>7, <1>8, <1>10, StartAsks DEF Hire, Labour, Review
<1>11. QED BY <1>9, <1>10 DEF Next

\* With one handler at a time a job of one slot whose workers come from the feed stays
\* cancelled or completed (employer-jobs.service.ts:609, job-completion.service.ts:145).
THEOREM JobsFinalSerially ==
  ASSUME Serial, ~OffFeed, Slots = {1} PROVE Spec => JobFinal
<1>1. SerialInv /\ JobInv /\ [Next]_vars =>
        [\A j \in Job : job[j].status \in {"cancelled", "completed"}
                          => job'[j].status = job[j].status]_vars
  BY OverStays
<1>2. QED BY <1>1, JobInvariant, PTL DEF Spec, JobFinal
-----------------------------------------------------------------------------
(***************************************************************************)
(* Disputes, one handler at a time: a session in dispute that has not been *)
(* completed has nothing to pay, so a completion that reads it pays        *)
(* nothing; one that was completed is not completed again.                 *)
(***************************************************************************)
Withheld(i) ==
    session[i].status # "completed" =>
        /\ session[i].disbursed = 0
        /\ session[i].dispute => session[i].pending = 0

PaysNothing(a) ==
    task[a] # Idle /\ task[a].op \in Completions /\ task[a].stage = "read"
        => (session[ItemOf(a)].dispute => task[a].seen.amount = 0)

DisputeInv ==
    /\ \A i \in Item : Withheld(i)
    /\ \A a \in Agent : PaysNothing(a)

\* What a step may do to a session.
SameMoney(i) ==
    /\ session'[i].status = session[i].status
    /\ session'[i].pending = session[i].pending
    /\ session'[i].disbursed = session[i].disbursed
    /\ session'[i].dispute = session[i].dispute

LEMMA SameWithheld ==
  ASSUME NEW i \in Item, Withheld(i), SameMoney(i) PROVE Withheld(i)'
  BY DEF Withheld, SameMoney

\* Reads and the clock leave what a session has to pay.
LEMMA SessionsKept ==
  ASSUME SerialInv, NEW i \in Item, NEW x, NEW y,
         \/ session' = [session EXCEPT ![i].hold = x]
         \/ session' = [session EXCEPT ![i].out = x]
         \/ session' = [session EXCEPT ![i].review = x, ![i].hold = y]
  PROVE  \A k \in Item : SameMoney(k)
<1>1. session \in [Item -> SessionRow] BY DEF SerialInv, TypeInv, TypeOK
<1>2. QED BY <1>1 DEF SameMoney, SessionRow

\* A task that reads a disputed session finds nothing to pay.
LEMMA ReadPaysNothing ==
  ASSUME Serial, SerialInv, DisputeInv, NEW a \in Agent,
         ReadConfirm(a) \/ ReadAutoRelease(a) \/ ReadTimeout(a)
  PROVE  PaysNothing(a)'
<1>1. /\ task[a] # Idle /\ task[a].op \in Completions
      /\ ReadCompletion(a, ItemOf(a)) /\ task[a].op \in OnItem
  BY DEF ReadConfirm, ReadAutoRelease, ReadTimeout, At, Completions, OnItem
<1>2. ItemOf(a) \in Item BY <1>1, TaskItem DEF SerialInv
<1>3. CASE app[ItemOf(a)] = "completed"
  <2>1. Look(a, "skip", Blank) BY <1>1, <1>3 DEF ReadCompletion
  <2>2. task'[a] # Idle => task'[a].stage = "skip" BY <1>1, <2>1, LooksSame
  <2>3. QED BY <2>2 DEF PaysNothing
<1>4. CASE app[ItemOf(a)] # "completed"
  <2>1. PICK seen : /\ Look(a, "read", seen) /\ seen.amount = Due(ItemOf(a))
    <3>1. Look(a, "read", [amount |-> Due(ItemOf(a)), count |-> 0,
                           status |-> job[ItemOf(a)[2]].status,
                           last |-> LastWorker(ItemOf(a)), ok |-> Funded(ItemOf(a))])
      BY <1>1, <1>4 DEF ReadCompletion
    <3>2. QED BY <3>1
  <2>2. /\ session' = session
        /\ task'[a] # Idle => task'[a].seen = seen /\ task'[a].worker = task[a].worker
                              /\ task'[a].job = task[a].job
    BY <1>1, <2>1, LooksSame
  <2>3. task'[a] # Idle => ItemOf(a)' = ItemOf(a) BY <2>2 DEF ItemOf
  <2>4. session[ItemOf(a)].status # "completed"
    BY <1>2, <1>4 DEF SerialInv, Matching
  <2>5. session[ItemOf(a)].dispute => Due(ItemOf(a)) = 0
    BY <1>2, <2>4 DEF DisputeInv, Withheld, Due
  <2>6. QED BY <2>1, <2>2, <2>3, <2>5 DEF PaysNothing
<1>5. QED BY <1>3, <1>4

\* A completion settles its session and leaves the others.
LEMMA CompleteWithheld ==
  ASSUME SerialInv, DisputeInv, NEW i \in Item, NEW seen, NEW review, NEW hold,
         Complete(i, seen, review, hold)
  PROVE  \A k \in Item : Withheld(k)'
<1>1. session \in [Item -> SessionRow] BY DEF SerialInv, TypeInv, TypeOK
<1>2. session'[i].status = "completed" BY <1>1 DEF Complete, SessionRow
<1>3. \A k \in Item \ {i} : session'[k] = session[k] BY <1>1 DEF Complete
<1>4. QED BY <1>2, <1>3 DEF Withheld, DisputeInv

LEMMA DisputeStep ==
  ASSUME Serial, SerialInv, DisputeInv, [Next]_vars PROVE DisputeInv'
<1>1. CASE UNCHANGED vars \/ SetPaused
  BY <1>1 DEF vars, SetPaused, DisputeInv, Withheld, PaysNothing, ItemOf
<1>2. CASE HoldEnds \/ CutoffPasses
  <2>1. \A k \in Item : SameMoney(k) BY <1>2, SessionsKept DEF HoldEnds, CutoffPasses
  <2>2. \A k \in Item : Withheld(k)' BY <2>1, SameWithheld DEF DisputeInv
  <2>3. ASSUME NEW b \in Agent PROVE PaysNothing(b)'
    <3> SUFFICES ASSUME task[b] # Idle, task[b].op \in Completions, task[b].stage = "read",
                        session'[ItemOf(b)].dispute
                 PROVE  task[b].seen.amount = 0
      BY <1>2 DEF HoldEnds, CutoffPasses, PaysNothing, ItemOf
    <3>1. ItemOf(b) \in Item
      BY TaskItem DEF Completions, OnItem, SerialInv
    <3>2. session[ItemOf(b)].dispute BY <2>1, <3>1 DEF SameMoney
    <3>3. QED BY <3>2 DEF DisputeInv, PaysNothing
  <2>4. QED BY <2>2, <2>3 DEF DisputeInv
<1>3. ASSUME NEW a \in Agent,
             StartCreate(a) \/ StartUpdate(a) \/ StartPublish(a) \/ StartCancel(a)
               \/ StartAccept(a) \/ StartAcceptSlot(a) \/ StartReject(a)
               \/ StartApply(a) \/ StartWithdraw(a) \/ StartClockIn(a) \/ StartClockOut(a)
               \/ StartConfirm(a) \/ StartDispute(a) \/ StartAutoRelease(a)
               \/ StartTimeout(a)
      PROVE  DisputeInv'
  <2>1. session' = session /\ \A b \in Agent : task'[b] = task[b] \/ task'[b].stage = "asked"
    BY <1>3, StartAsks
  <2>2. QED BY <2>1 DEF DisputeInv, Withheld, PaysNothing, ItemOf
<1>4. ASSUME NEW a \in Agent,
             ReadCreate(a) \/ ReadPublish(a) \/ ReadCancel(a) \/ ReadAcceptSlot(a)
               \/ LockSession(a)
      PROVE  DisputeInv'
  <2>1. PICK stage, seen : /\ Look(a, stage, seen) /\ task[a] # Idle
                           /\ task[a].op \notin Completions \/ stage = "locked"
    BY <1>4 DEF ReadCreate, ReadPublish, ReadCancel, ReadAcceptSlot, LockSession, At,
                Completions
  <2>2. session' = session /\ PaysNothing(a)' BY <2>1, LooksSame DEF PaysNothing
  <2>3. QED BY <2>2 DEF DisputeInv, Withheld, Serial
<1>5. ASSUME NEW a \in Agent, ReadConfirm(a) \/ ReadAutoRelease(a) \/ ReadTimeout(a)
      PROVE  DisputeInv'
  <2>1. session' = session
    BY <1>5 DEF ReadConfirm, ReadAutoRelease, ReadTimeout, ReadCompletion, Look
  <2>2. PaysNothing(a)' BY <1>5, ReadPaysNothing
  <2>3. QED BY <2>1, <2>2 DEF DisputeInv, Withheld, Serial
<1>6. ASSUME NEW a \in Agent,
             Create(a) \/ Update(a) \/ Publish(a) \/ Cancel(a) \/ Accept(a) \/ AcceptSlot(a)
               \/ Reject(a) \/ Apply(a) \/ Withdraw(a) \/ ClockIn(a) \/ ClockOut(a)
               \/ Dispute(a) \/ Abort(a) \/ Confirm(a) \/ MarkReleased(a) \/ Timeout(a)
               \/ AutoRelease(a)
      PROVE  DisputeInv'
  <2>1. \A b \in Agent : PaysNothing(b)'
    <3>1. CASE AutoRelease(a) BY <3>1, ReleaseMarks DEF PaysNothing
    <3>2. CASE ~AutoRelease(a) BY <1>6, <3>2, CommitEnds DEF PaysNothing
    <3>3. QED BY <3>1, <3>2
  <2>2. session \in [Item -> SessionRow] BY DEF SerialInv, TypeInv, TypeOK
  <2>3. \A k \in Item : Withheld(k)'
    <3>1. CASE Create(a) \/ Update(a) \/ Publish(a) \/ Cancel(a) \/ Accept(a) \/ AcceptSlot(a)
                 \/ Reject(a) \/ Apply(a) \/ Withdraw(a) \/ Abort(a)
      BY <3>1 DEF Create, Update, Publish, Cancel, Accept, AcceptSlot, Reject, Apply,
                  Withdraw, Abort, DisputeInv, Withheld
    <3>2. CASE ClockIn(a)
      <4>1. PICK n : session' = [session EXCEPT ![ItemOf(a)] =
                                   [NoSession EXCEPT !.status = "in_progress", !.pending = n]]
        BY <3>2 DEF ClockIn
      <4>2. QED BY <2>2, <4>1 DEF DisputeInv, Withheld, NoSession
    <3>3. CASE ClockOut(a)
      <4>1. \A k \in Item : SameMoney(k) BY <2>2, <3>3 DEF ClockOut, SameMoney, SessionRow
      <4>2. QED BY <4>1, SameWithheld DEF DisputeInv
    <3>4. CASE Dispute(a)
      BY <2>2, <3>4 DEF Dispute, DisputeInv, Withheld, SessionRow
    <3>5. CASE MarkReleased(a)
      <4>1. \A k \in Item : SameMoney(k) BY <2>2, <3>5 DEF MarkReleased, SameMoney, SessionRow
      <4>2. QED BY <4>1, SameWithheld DEF DisputeInv
    <3>6. CASE Confirm(a) \/ Timeout(a) \/ AutoRelease(a)
      <4>1. ItemOf(a) \in Item
        BY <3>6, TaskItem DEF Confirm, Timeout, AutoRelease, At, OnItem, SerialInv
      <4>2. CASE \E seen, review, hold : Complete(ItemOf(a), seen, review, hold)
        BY <4>1, <4>2, CompleteWithheld
      <4>3. CASE session' = session BY <4>3 DEF DisputeInv, Withheld
      <4>4. CASE session' = [session EXCEPT ![ItemOf(a)].review = "employer_confirmed",
                                            ![ItemOf(a)].hold = "none"]
        <5>1. \A k \in Item : SameMoney(k) BY <4>1, <4>4, SessionsKept
        <5>2. QED BY <5>1, SameWithheld DEF DisputeInv
      <4>5. QED BY <3>6, <4>2, <4>3, <4>4 DEF Confirm, Timeout, AutoRelease
    <3>7. QED BY <1>6, <3>1, <3>2, <3>3, <3>4, <3>5, <3>6
  <2>4. QED BY <2>1, <2>3 DEF DisputeInv
<1>7. QED
  BY <1>1, <1>2, <1>3, <1>4, <1>5, <1>6 DEF Next, Hire, Labour, Review

\* Who pays and what: only a completion, and only a positive amount.
LEMMA DisputedUnpaid ==
  ASSUME Serial, SerialInv, DisputeInv, [Next]_vars, NEW i \in Item, session[i].dispute
  PROVE  payments'[i] = payments[i]
<1> USE DEF money
<1>1. CASE UNCHANGED vars \/ SetPaused \/ HoldEnds \/ CutoffPasses
  BY <1>1 DEF vars, SetPaused, HoldEnds, CutoffPasses
<1>2. ASSUME NEW a \in Agent,
             StartCreate(a) \/ StartUpdate(a) \/ StartPublish(a) \/ StartCancel(a)
               \/ StartAccept(a) \/ StartAcceptSlot(a) \/ StartReject(a)
               \/ StartApply(a) \/ StartWithdraw(a) \/ StartClockIn(a) \/ StartClockOut(a)
               \/ StartConfirm(a) \/ StartDispute(a) \/ StartAutoRelease(a)
               \/ StartTimeout(a)
      PROVE  payments' = payments
  BY <1>2, StartAsks
<1>3. ASSUME NEW a \in Agent,
             ReadCreate(a) \/ ReadPublish(a) \/ ReadCancel(a) \/ ReadAcceptSlot(a)
               \/ LockSession(a) \/ ReadConfirm(a) \/ ReadAutoRelease(a) \/ ReadTimeout(a)
      PROVE  payments' = payments
  BY <1>3 DEF ReadCreate, ReadPublish, ReadCancel, ReadAcceptSlot, LockSession, ReadConfirm,
              ReadAutoRelease, ReadTimeout, ReadCompletion, Look
<1>4. ASSUME NEW a \in Agent,
             Create(a) \/ Update(a) \/ Publish(a) \/ Cancel(a) \/ Accept(a) \/ AcceptSlot(a)
               \/ Reject(a) \/ Apply(a) \/ Withdraw(a) \/ ClockIn(a) \/ ClockOut(a)
               \/ Dispute(a) \/ Abort(a) \/ MarkReleased(a)
      PROVE  payments' = payments
  BY <1>4 DEF Create, Update, Publish, Cancel, Accept, AcceptSlot, Reject, Apply, Withdraw,
              ClockIn, ClockOut, Dispute, Abort, MarkReleased
<1>5. ASSUME NEW a \in Agent, Confirm(a) \/ Timeout(a) \/ AutoRelease(a)
      PROVE  payments'[i] = payments[i]
  <2>1. PaysNothing(a) BY DEF DisputeInv
  <2>2. task[a] # Idle /\ task[a].op \in Completions
    BY <1>5 DEF Confirm, Timeout, AutoRelease, At, Completions
  <2>3. CASE UNCHANGED payments BY <2>3
  <2>4. CASE task[a].stage = "read" /\ PayOut(ItemOf(a), task[a].seen)
    <3>1. CASE ItemOf(a) = i
      BY <2>1, <2>2, <2>4, <3>1 DEF PaysNothing, PayOut
    <3>2. CASE ItemOf(a) # i
      BY <2>4, <3>2 DEF PayOut, SerialInv, TypeInv, TypeOK
    <3>3. QED BY <3>1, <3>2
  <2>5. QED BY <1>5, <2>3, <2>4 DEF Confirm, Timeout, AutoRelease, Complete, At
<1>6. QED
  BY <1>1, <1>2, <1>3, <1>4, <1>5 DEF Next, Hire, Labour, Review

\* With one handler at a time nobody is paid for work in dispute, even by a
\* release of the auto-release cron or a confirmation after it
\* (employer-work-sessions.service.ts:314).
THEOREM DisputesBlockPaySerially == ASSUME Serial PROVE Spec => DisputeBlocksPay
<1>1. Init => DisputeInv
  BY DEF Init, DisputeInv, Withheld, PaysNothing, NoSession
<1>2. SerialInv /\ DisputeInv /\ [Next]_vars => DisputeInv' BY DisputeStep
<1>3. SerialInv /\ DisputeInv /\ [Next]_vars =>
        [\A i \in Item : session[i].dispute => payments'[i] = payments[i]]_vars
  BY DisputedUnpaid
<1>4. QED BY <1>1, <1>2, <1>3, SerialInvariant, PTL DEF Spec, DisputeBlocksPay
-----------------------------------------------------------------------------
(***************************************************************************)
(* The money, one handler at a time.  What lies in the reserves and what   *)
(* the workers have are sums over jobs and workers, in which a commit      *)
(* changes one summand by what it takes from another or from the wallet:   *)
(* a reserve is set where there was none, what a cancellation read is      *)
(* still there, and a payment gives the worker what it drains.             *)
(***************************************************************************)
Reserves == [j \in Job |-> job[j].reserved]
Receipts == [w \in Worker |-> balance[w] + Debt - debt[w]]

Conserved == wallet + Sum(Reserves, Job) + Sum(Receipts, Worker) = Funds

Unreserved == \A j \in Job : job[j].status \in {"none", "draft"} => job[j].reserved = 0

SawReserve(a) ==
    LET reserved == job[task[a].job].reserved
        seen == task[a].seen
    IN  task[a] # Idle /\ task[a].stage = "read" =>
          /\ task[a].op = "cancel" => seen.amount = IF reserved > 0 THEN reserved ELSE 0
          /\ task[a].op \in Completions /\ seen.ok => seen.amount <= reserved

MoneyInv == Conserved /\ Unreserved /\ \A a \in Agent : SawReserve(a)

LEMMA ReservesType ==
  ASSUME TypeOK
  PROVE  /\ \A j \in Job : Reserves[j] \in Int
         /\ \A w \in Worker : Receipts[w] \in Int
         /\ Sum(Reserves, Job) \in Int /\ Sum(Receipts, Worker) \in Int
<1>1. \A j \in Job : Reserves[j] \in Int
  BY DEF TypeOK, JobRow, Reserves
<1>2. \A w \in Worker : balance[w] \in Int /\ debt[w] \in Int
  BY DEF TypeOK
<1>3. \A w \in Worker : Receipts[w] \in Int
  BY <1>2, MoneyAssumption DEF Receipts
<1> QED
  BY <1>1, <1>3, SumType, RowsAssumption

\* The sums as the property writes them.
LEMMA ReservedSum == Reserved = Sum(Reserves, Job)
<1>1. Reserved = (CHOOSE g : g = [s \in SUBSET Job |->
             IF s = {} THEN 0 ELSE job[AnyOf(s)].reserved + g[s \ {AnyOf(s)}]])[Job]
  BY DEF Reserved, MapThenSumSet, MapThenFoldSet, AnyOf
<1>2. \A s \in SUBSET Job : s # {} => job[AnyOf(s)].reserved = Reserves[AnyOf(s)]
  BY FirstIn DEF Reserves
<1>3. \A g : [s \in SUBSET Job |->
                IF s = {} THEN 0 ELSE job[AnyOf(s)].reserved + g[s \ {AnyOf(s)}]]
             = [s \in SUBSET Job |-> Step(g, Reserves, s)]
  BY <1>2 DEF Step
<1>4. \A g : Adds(g, Reserves, Job) <=> g = [s \in SUBSET Job |->
             IF s = {} THEN 0 ELSE job[AnyOf(s)].reserved + g[s \ {AnyOf(s)}]]
  BY <1>3 DEF Adds
<1>5. (CHOOSE g : Adds(g, Reserves, Job)) = (CHOOSE g : g = [s \in SUBSET Job |->
             IF s = {} THEN 0 ELSE job[AnyOf(s)].reserved + g[s \ {AnyOf(s)}]])
  BY <1>4, Zenon
<1> QED
  BY <1>1, <1>5, SumComputed

LEMMA ReceivedSum == Received = Sum(Receipts, Worker)
<1>1. Received = (CHOOSE g : g = [s \in SUBSET Worker |->
             IF s = {} THEN 0
             ELSE (balance[AnyOf(s)] + Debt - debt[AnyOf(s)]) + g[s \ {AnyOf(s)}]])[Worker]
  BY DEF Received, MapThenSumSet, MapThenFoldSet, AnyOf
<1>2. \A s \in SUBSET Worker :
        s # {} => balance[AnyOf(s)] + Debt - debt[AnyOf(s)] = Receipts[AnyOf(s)]
  BY FirstIn DEF Receipts
<1>3. \A g : [s \in SUBSET Worker |->
                IF s = {} THEN 0
                ELSE (balance[AnyOf(s)] + Debt - debt[AnyOf(s)]) + g[s \ {AnyOf(s)}]]
             = [s \in SUBSET Worker |-> Step(g, Receipts, s)]
  BY <1>2 DEF Step
<1>4. \A g : Adds(g, Receipts, Worker) <=> g = [s \in SUBSET Worker |->
             IF s = {} THEN 0
             ELSE (balance[AnyOf(s)] + Debt - debt[AnyOf(s)]) + g[s \ {AnyOf(s)}]]
  BY <1>3 DEF Adds
<1>5. (CHOOSE g : Adds(g, Receipts, Worker)) = (CHOOSE g : g = [s \in SUBSET Worker |->
             IF s = {} THEN 0
             ELSE (balance[AnyOf(s)] + Debt - debt[AnyOf(s)]) + g[s \ {AnyOf(s)}]])
  BY <1>4, Zenon
<1> QED
  BY <1>1, <1>5, SumComputed

\* Nothing moves.
LEMMA MoneyStays ==
  ASSUME Conserved, UNCHANGED <<wallet, balance, debt>>,
         \A j \in Job : job'[j].reserved = job[j].reserved
  PROVE  Conserved'
<1>1. Reserves' = Reserves
  BY DEF Reserves
<1>2. Receipts' = Receipts
  BY DEF Receipts
<1> QED
  BY <1>1, <1>2 DEF Conserved

\* What leaves the wallet is reserved, and what is refunded returns to it.
LEMMA MoneyReserved ==
  ASSUME TypeOK, TypeOK', Conserved, UNCHANGED <<balance, debt>>, NEW j \in Job,
         \A k \in Job \ {j} : job'[k] = job[k],
         wallet' + job'[j].reserved = wallet + job[j].reserved
  PROVE  Conserved'
<1>1. Receipts' = Receipts
  BY DEF Receipts
<1>2. \A k \in Job : Reserves[k] \in Int /\ Reserves'[k] \in Int
  BY DEF TypeOK, JobRow, Reserves
<1>3. \A k \in Job \ {j} : Reserves'[k] = Reserves[k]
  BY DEF Reserves
<1>4. Sum(Reserves', Job) = Sum(Reserves, Job) + Reserves'[j] - Reserves[j]
  <2>1. IsFiniteSet(Job)
    BY RowsAssumption
  <2>2. \A k \in Job : Reserves[k] \in Int /\ (Reserves')[k] \in Int
    BY <1>2
  <2> QED
    BY <2>1, <2>2, <1>3, SumChange
<1>5. Reserves[j] = job[j].reserved /\ Reserves'[j] = job'[j].reserved
  BY DEF Reserves
<1>6. wallet \in Int /\ wallet' \in Int /\ Reserves[j] \in Int /\ Reserves'[j] \in Int
  BY <1>2 DEF TypeOK
<1>7. Sum(Reserves, Job) \in Int /\ Sum(Receipts, Worker) \in Int
  BY ReservesType
<1>8. wallet' + Reserves'[j] = wallet + Reserves[j]
  BY <1>5
<1> QED
  BY <1>1, <1>4, <1>6, <1>7, <1>8 DEF Conserved

\* What leaves a reserve is the worker's, in the wallet or off the loan.
LEMMA MoneyPaid ==
  ASSUME TypeOK, TypeOK', Conserved, wallet' = wallet, NEW j \in Job, NEW w \in Worker,
         \A k \in Job \ {j} : job'[k] = job[k],
         \A v \in Worker \ {w} : balance'[v] = balance[v] /\ debt'[v] = debt[v],
         job'[j].reserved + balance'[w] - debt'[w] = job[j].reserved + balance[w] - debt[w]
  PROVE  Conserved'
<1>1. \A k \in Job : Reserves[k] \in Int /\ Reserves'[k] \in Int
  BY DEF TypeOK, JobRow, Reserves
<1>2. \A k \in Job \ {j} : Reserves'[k] = Reserves[k]
  BY DEF Reserves
<1>3. Sum(Reserves', Job) = Sum(Reserves, Job) + Reserves'[j] - Reserves[j]
  <2>1. IsFiniteSet(Job)
    BY RowsAssumption
  <2> QED
    BY <1>1, <1>2, <2>1, SumChange
<1>4. \A v \in Worker : /\ balance[v] \in Int /\ debt[v] \in Int
                        /\ balance'[v] \in Int /\ debt'[v] \in Int
  BY DEF TypeOK
<1>5. \A v \in Worker : Receipts[v] \in Int /\ Receipts'[v] \in Int
  BY <1>4, MoneyAssumption DEF Receipts
<1>6. \A v \in Worker \ {w} : Receipts'[v] = Receipts[v]
  BY DEF Receipts
<1>7. Sum(Receipts', Worker) = Sum(Receipts, Worker) + Receipts'[w] - Receipts[w]
  <2>1. IsFiniteSet(Worker)
    BY RowsAssumption
  <2> QED
    BY <1>5, <1>6, <2>1, SumChange
<1>8. /\ Reserves[j] = job[j].reserved /\ Reserves'[j] = job'[j].reserved
      /\ Receipts[w] = balance[w] + Debt - debt[w]
      /\ Receipts'[w] = balance'[w] + Debt - debt'[w]
  BY DEF Reserves, Receipts
<1>9. Reserves'[j] + Receipts'[w] = Reserves[j] + Receipts[w]
  BY <1>1, <1>4, <1>8, MoneyAssumption
<1>10. wallet \in Int /\ Sum(Reserves, Job) \in Int /\ Sum(Receipts, Worker) \in Int
  BY ReservesType DEF TypeOK
<1>11. /\ Reserves[j] \in Int /\ Reserves'[j] \in Int
       /\ Receipts[w] \in Int /\ Receipts'[w] \in Int
  BY <1>1, <1>5
<1> QED
  BY <1>3, <1>7, <1>9, <1>10, <1>11 DEF Conserved

\* A step that moves no money and makes no draft.
LEMMA MoneyKept ==
  ASSUME MoneyInv, UNCHANGED <<wallet, balance, debt>>,
         \A j \in Job : job'[j].reserved = job[j].reserved,
         \A j \in Job : job'[j].status \in {"none", "draft"} => job[j].status \in {"none", "draft"},
         \A b \in Agent : SawReserve(b)'
  PROVE  MoneyInv'
<1>1. Conserved'
  BY MoneyStays DEF MoneyInv
<1>2. Unreserved'
  BY DEF MoneyInv, Unreserved
<1> QED
  BY <1>1, <1>2 DEF MoneyInv

\* Tasks that have not just read have nothing to remember.
LEMMA NoneSaw ==
  ASSUME \A b \in Agent : task'[b] = Idle \/ task'[b].stage # "read"
  PROVE  \A b \in Agent : SawReserve(b)'
  BY DEF SawReserve

\* What a cancellation or a completion reads is the reserve of its job.
LEMMA ReadsReserve ==
  ASSUME Serial, SerialInv, MoneyInv, NEW a \in Agent,
         ReadCreate(a) \/ ReadPublish(a) \/ ReadCancel(a) \/ ReadAcceptSlot(a)
           \/ LockSession(a) \/ ReadConfirm(a) \/ ReadAutoRelease(a) \/ ReadTimeout(a)
  PROVE  MoneyInv'
<1> USE DEF money
<1>1. PICK stage, seen :
        /\ Look(a, stage, seen) /\ task[a] # Idle
        /\ task[a].op = "cancel" =>
             seen.amount = IF job[task[a].job].reserved > 0 THEN job[task[a].job].reserved ELSE 0
        /\ task[a].op \in Completions /\ stage = "read" /\ seen.ok
             => seen.amount <= job[task[a].job].reserved
  <2>1. CASE ReadCreate(a) \/ ReadPublish(a) \/ ReadAcceptSlot(a) \/ LockSession(a)
    BY <2>1 DEF ReadCreate, ReadPublish, ReadAcceptSlot, LockSession, At, Completions
  <2>2. CASE ReadCancel(a)
    <3>1. /\ task[a] # Idle /\ task[a].op = "cancel" /\ task[a] \in Task
          /\ Look(a, "read", [task[a].seen EXCEPT !.amount =
               IF job[task[a].job].reserved > 0 THEN job[task[a].job].reserved ELSE 0])
      BY <2>2 DEF ReadCancel, At, SerialInv, TypeInv, TypeOK
    <3>2. PICK n : n = IF job[task[a].job].reserved > 0 THEN job[task[a].job].reserved ELSE 0
      OBVIOUS
    <3>3. PICK seen : seen = [task[a].seen EXCEPT !.amount = n]
      OBVIOUS
    <3>4. Look(a, "read", seen) /\ seen.amount = n
      BY <3>1, <3>2, <3>3 DEF Task, Seen
    <3> QED
      BY <3>1, <3>2, <3>4 DEF Completions
  <2>3. CASE ReadConfirm(a) \/ ReadAutoRelease(a) \/ ReadTimeout(a)
    <3>1. /\ task[a] # Idle /\ task[a].op \in Completions /\ task[a].op \in OnItem
          /\ ReadCompletion(a, ItemOf(a))
      BY <2>3 DEF ReadConfirm, ReadAutoRelease, ReadTimeout, At, Completions, OnItem
    <3>2. PICK w \in Worker, j \in Job : ItemOf(a) = <<w, j>> /\ task[a].job = j
      BY <3>1, TaskPair
    <3>3. CASE app[ItemOf(a)] = "completed"
      BY <3>1, <3>3 DEF ReadCompletion, Completions
    <3>4. CASE app[ItemOf(a)] # "completed"
      <4>1. Look(a, "read", [amount |-> Due(ItemOf(a)), count |-> 0,
                             status |-> job[ItemOf(a)[2]].status,
                             last |-> LastWorker(ItemOf(a)), ok |-> Funded(ItemOf(a))])
        BY <3>1, <3>4 DEF ReadCompletion
      <4>2. PICK seen : /\ Look(a, "read", seen) /\ seen.amount = Due(ItemOf(a))
                        /\ seen.ok <=> Funded(ItemOf(a))
        BY <4>1
      <4>3. Funded(ItemOf(a)) => job[j].reserved >= Due(ItemOf(a))
        BY <3>2 DEF Funded
      <4>4. seen.ok => seen.amount <= job[task[a].job].reserved
        BY <3>2, <4>2, <4>3
      <4> QED
        BY <3>1, <4>2, <4>4 DEF Completions
    <3> QED
      BY <3>3, <3>4
  <2> QED
    BY <2>1, <2>2, <2>3
<1>2. /\ UNCHANGED <<wallet, balance, debt, job>>
      /\ task'[a] # Idle => /\ task'[a].op = task[a].op /\ task'[a].job = task[a].job
                            /\ task'[a].stage = stage /\ task'[a].seen = seen
  BY <1>1, LooksSame
<1>3. SawReserve(a)'
  <2> SUFFICES ASSUME task'[a] # Idle, task'[a].stage = "read" PROVE SawReserve(a)'
    BY DEF SawReserve
  <2>1. /\ task'[a].op = task[a].op /\ task'[a].job = task[a].job
        /\ task'[a].stage = stage /\ task'[a].seen = seen /\ job' = job
    BY <1>2
  <2> QED
    BY <1>1, <2>1 DEF SawReserve
<1> QED
  BY <1>2, <1>3, MoneyKept DEF Serial

\* The employer takes money for a job, or has it back.
LEMMA ReserveMoney ==
  ASSUME Serial, SerialInv, SerialInv', JobInv, MoneyInv, NEW a \in Agent,
         Create(a) \/ Publish(a) \/ Cancel(a)
  PROVE  MoneyInv'
<1>j. PICK j \in Job : j = task[a].job
  BY DEF Create, Publish, Cancel, At, Task, SerialInv, TypeInv, TypeOK
<1>1. /\ task[a] # Idle /\ task[a].stage = "read" /\ task[a] \in Task /\ Knows(a)
      /\ SawReserve(a) /\ task[a].seen \in Seen /\ UNCHANGED <<balance, debt>>
      /\ job \in [Job -> JobRow] /\ job[j] \in JobRow /\ wallet \in Int
  BY <1>j DEF Create, Publish, Cancel, At, Task, JobInv, MoneyInv, SerialInv, TypeInv, TypeOK
<1>2. PICK seen \in Seen : seen = task[a].seen
  BY <1>1
<1>3. seen.amount \in Nat /\ seen.count \in Nat /\ seen.ok \in BOOLEAN /\ job[j].reserved \in Int
  BY <1>1 DEF Seen, JobRow
<1>4. \A k \in Job \ {j} : job'[k] = job[k]
  BY <1>j, <1>1 DEF Create, Publish, Cancel
<1>5. /\ wallet' + job'[j].reserved = wallet + job[j].reserved
      /\ job'[j].status \in {"none", "draft"} => job'[j].reserved = 0
  <2>1. CASE Create(a)
    <3>1. PICK n : n = IF seen.ok THEN seen.amount * seen.count ELSE 0
      OBVIOUS
    <3>2. seen.amount * seen.count \in Int
      BY <1>3
    <3>3. n \in Int
      BY <1>3, <3>1, <3>2
    <3>4. /\ wallet' = wallet - n /\ job'[j].reserved = n /\ job[j].status = "none"
          /\ job'[j].status = IF seen.ok THEN "open" ELSE "draft"
      BY <1>j, <1>1, <1>2, <2>1, <3>1 DEF Create
    <3>5. job[j].reserved = 0
      BY <3>4 DEF MoneyInv, Unreserved
    <3> QED
      BY <1>1, <3>1, <3>3, <3>4, <3>5
  <2>2. CASE Publish(a)
    <3>1. job[j].status = "draft"
      BY <1>j, <1>1, <2>2 DEF Publish, At, Knows
    <3>2. job[j].reserved = 0
      BY <3>1 DEF MoneyInv, Unreserved
    <3>3. /\ wallet' = wallet - seen.amount /\ job'[j].reserved = seen.amount
          /\ job'[j].status = "open"
      BY <1>j, <1>1, <1>2, <2>2 DEF Publish, JobRow
    <3> QED
      BY <1>1, <1>3, <3>2, <3>3
  <2>3. CASE Cancel(a)
    <3>1. seen.amount = IF job[j].reserved > 0 THEN job[j].reserved ELSE 0
      BY <1>j, <1>1, <1>2, <2>3 DEF Cancel, At, SawReserve
    <3>2. /\ wallet' = wallet + seen.amount /\ job'[j].status = "cancelled"
          /\ job'[j].reserved = IF seen.amount > 0 THEN 0 ELSE job[j].reserved
      BY <1>j, <1>1, <1>2, <2>3 DEF Cancel, JobRow
    <3> QED
      BY <1>1, <1>3, <3>1, <3>2
  <2> QED
    BY <2>1, <2>2, <2>3
<1>6. Conserved'
  BY <1>1, <1>4, <1>5, MoneyReserved DEF MoneyInv, SerialInv, TypeInv
<1>7. Unreserved'
  BY <1>4, <1>5 DEF MoneyInv, Unreserved
<1>8. \A b \in Agent : SawReserve(b)'
  BY CommitEnds, NoneSaw
<1> QED
  BY <1>6, <1>7, <1>8 DEF MoneyInv

\* A completion drains the reserve of its job by what it pays.
LEMMA CompleteMoney ==
  ASSUME Serial, SerialInv, SerialInv', JobInv, MoneyInv, NEW a \in Agent, task[a] # Idle,
         task[a].stage = "read", task[a].op \in Completions, NEW review, NEW hold,
         Complete(ItemOf(a), task[a].seen, review, hold), \A b \in Agent : SawReserve(b)'
  PROVE  MoneyInv'
<1>1. /\ task[a].op \in OnItem /\ Knows(a) /\ SawReserve(a) /\ task[a] \in Task
      /\ job \in [Job -> JobRow] /\ balance \in [Worker -> Int] /\ debt \in [Worker -> Nat]
  BY DEF Completions, OnItem, JobInv, MoneyInv, SerialInv, TypeInv, TypeOK
<1>2. PICK w \in Worker, j \in Job : ItemOf(a) = <<w, j>> /\ task[a].job = j
  BY <1>1, TaskPair
<1>3. PICK seen \in Seen : seen = task[a].seen
  BY <1>1 DEF Task
<1>4. /\ seen.amount \in Nat /\ seen.status \in JobStatus /\ seen.ok \in BOOLEAN
      /\ job[j].reserved \in Int /\ balance[w] \in Int /\ debt[w] \in Nat
  BY <1>1 DEF Seen, JobRow
<1>5. seen.status = job[j].status /\ (seen.ok => seen.amount <= job[j].reserved)
  BY <1>1, <1>2, <1>3 DEF Knows, SawReserve
<1>6. <<w, j>>[1] = w /\ <<w, j>>[2] = j
  OBVIOUS
<1>7. PICK status : status = IF seen.last THEN "completed" ELSE seen.status
  OBVIOUS
<1>8. PICK left : left = IF seen.ok THEN job[j].reserved - seen.amount ELSE job[j].reserved
  OBVIOUS
<1>9. job' = [job EXCEPT ![j].status = status, ![j].reserved = left]
  BY <1>1, <1>2, <1>3, <1>6, <1>7, <1>8 DEF Complete, JobRow
<1>10. /\ \A k \in Job \ {j} : job'[k] = job[k]
       /\ job'[j].status = status /\ job'[j].reserved = left
  BY <1>1, <1>9 DEF JobRow
<1>11. wallet' = wallet /\ PayOut(<<w, j>>, seen)
  BY <1>2, <1>3 DEF Complete
<1>12. /\ \A v \in Worker \ {w} : balance'[v] = balance[v] /\ debt'[v] = debt[v]
       /\ left + balance'[w] - debt'[w] = job[j].reserved + balance[w] - debt[w]
  <2>1. CASE seen.ok
    <3>1. PICK cut : cut = LoanCut(w, seen.amount)
      OBVIOUS
    <3>2. cut \in Nat
      BY <1>4, <3>1, LoanCutBounded DEF SerialInv, TypeInv
    <3>3. /\ balance' = [balance EXCEPT ![w] = @ + seen.amount - cut]
          /\ debt' = [debt EXCEPT ![w] = @ - cut]
      BY <1>6, <1>11, <2>1, <3>1 DEF PayOut
    <3>4. /\ balance'[w] = balance[w] + seen.amount - cut /\ debt'[w] = debt[w] - cut
          /\ \A v \in Worker \ {w} : balance'[v] = balance[v] /\ debt'[v] = debt[v]
      BY <1>1, <3>3
    <3> QED
      BY <1>4, <1>8, <2>1, <3>2, <3>4
  <2>2. CASE ~seen.ok
    BY <1>4, <1>8, <1>11, <2>2 DEF PayOut
  <2> QED
    BY <2>1, <2>2
<1>13. job'[j].reserved + balance'[w] - debt'[w] = job[j].reserved + balance[w] - debt[w]
  BY <1>10, <1>12
<1>14. TypeOK /\ TypeOK' /\ Conserved
  BY DEF SerialInv, TypeInv, MoneyInv
<1>15. Conserved'
  BY <1>10, <1>11, <1>12, <1>13, <1>14, MoneyPaid
<1>16. Unreserved'
  <2>1. ASSUME job'[j].status \in {"none", "draft"} PROVE job'[j].reserved = 0
    <3>1. job[j].reserved = 0
      BY <1>5, <1>7, <1>10, <2>1 DEF MoneyInv, Unreserved
    <3> QED
      BY <1>4, <1>5, <1>8, <1>10, <3>1
  <2> QED
    BY <1>10, <2>1 DEF MoneyInv, Unreserved
<1> QED
  BY <1>15, <1>16 DEF MoneyInv

\* The commits that move no money.
LEMMA OtherMoney ==
  ASSUME Serial, SerialInv, JobInv, MoneyInv, NEW a \in Agent,
         Update(a) \/ Accept(a) \/ AcceptSlot(a) \/ Reject(a) \/ Apply(a) \/ Withdraw(a)
           \/ ClockIn(a) \/ ClockOut(a) \/ Dispute(a) \/ Abort(a) \/ MarkReleased(a)
  PROVE  MoneyInv'
<1> USE DEF money
<1>1. \A b \in Agent : SawReserve(b)'
  BY CommitEnds, NoneSaw
<1>2. UNCHANGED <<wallet, balance, debt>>
  BY DEF Update, Accept, AcceptSlot, Reject, Apply, Withdraw, ClockIn, ClockOut, Dispute, Abort,
         MarkReleased
<1>3. CASE Reject(a) \/ Apply(a) \/ Withdraw(a) \/ Dispute(a) \/ Abort(a) \/ MarkReleased(a)
  <2>1. UNCHANGED job
    BY <1>3 DEF Reject, Apply, Withdraw, Dispute, Abort, MarkReleased
  <2> QED
    BY <1>1, <1>2, <2>1, MoneyKept
<1>4. CASE Update(a) \/ Accept(a) \/ AcceptSlot(a) \/ ClockIn(a) \/ ClockOut(a)
  <2>1. /\ task[a] # Idle /\ task[a] \in Task /\ Knows(a) /\ job \in [Job -> JobRow]
    BY <1>4 DEF Update, Accept, AcceptSlot, ClockIn, ClockOut, At, JobInv, SerialInv, TypeInv,
                TypeOK
  <2>2. PICK j \in Job : j = task[a].job
    BY <2>1 DEF Task
  <2>3. /\ \A k \in Job \ {j} : job'[k] = job[k]
        /\ job'[j].reserved = job[j].reserved
        /\ job'[j].status \in {"none", "draft"} => job'[j].status = job[j].status
    <3>1. CASE Update(a)
      BY <2>1, <2>2, <3>1 DEF Update, JobRow
    <3>2. CASE Accept(a)
      BY <2>1, <2>2, <3>2 DEF Accept, JobRow
    <3>3. CASE AcceptSlot(a)
      <4>1. task[a].seen.status = job[j].status
        BY <2>1, <2>2, <3>3 DEF AcceptSlot, At, Knows
      <4>2. job'[j].reserved = job[j].reserved
            /\ job'[j].status \in {"accepted", task[a].seen.status}
            /\ \A k \in Job \ {j} : job'[k] = job[k]
        BY <2>1, <2>2, <3>3 DEF AcceptSlot, JobRow
      <4> QED
        BY <4>1, <4>2
    <3>4. CASE ClockIn(a)
      BY <2>1, <2>2, <3>4 DEF ClockIn, JobRow
    <3>5. CASE ClockOut(a)
      BY <2>1, <2>2, <3>5 DEF ClockOut, JobRow
    <3> QED
      BY <1>4, <3>1, <3>2, <3>3, <3>4, <3>5
  <2>4. /\ \A k \in Job : job'[k].reserved = job[k].reserved
        /\ \A k \in Job : job'[k].status \in {"none", "draft"}
                            => job[k].status \in {"none", "draft"}
    BY <2>3
  <2> QED
    BY <1>1, <1>2, <2>4, MoneyKept
<1> QED
  BY <1>3, <1>4

LEMMA MoneyStep ==
  ASSUME Serial, SerialInv, SerialInv', JobInv, MoneyInv, [Next]_vars PROVE MoneyInv'
<1> USE DEF money
<1>1. ASSUME UNCHANGED <<wallet, balance, debt, job>>,
             \A b \in Agent : task'[b] = task[b] \/ task'[b].stage = "asked"
      PROVE  MoneyInv'
  <2>1. \A b \in Agent : SawReserve(b)'
    BY <1>1 DEF MoneyInv, SawReserve
  <2> QED
    BY <1>1, <2>1, MoneyKept
<1>2. CASE UNCHANGED vars
  BY <1>1, <1>2 DEF vars
<1>3. CASE SetPaused \/ HoldEnds \/ CutoffPasses
  BY <1>1, <1>3 DEF SetPaused, HoldEnds, CutoffPasses
<1>4. ASSUME NEW a \in Agent,
             StartCreate(a) \/ StartUpdate(a) \/ StartPublish(a) \/ StartCancel(a)
               \/ StartAccept(a) \/ StartAcceptSlot(a) \/ StartReject(a)
               \/ StartApply(a) \/ StartWithdraw(a) \/ StartClockIn(a) \/ StartClockOut(a)
               \/ StartConfirm(a) \/ StartDispute(a) \/ StartAutoRelease(a)
               \/ StartTimeout(a)
      PROVE  MoneyInv'
  BY <1>1, <1>4, StartAsks
<1>5. ASSUME NEW a \in Agent, Confirm(a) \/ AutoRelease(a) \/ Timeout(a)
      PROVE  MoneyInv'
  <2>1. \A b \in Agent : SawReserve(b)'
    <3>1. CASE AutoRelease(a)
      BY <3>1, ReleaseMarks, NoneSaw
    <3>2. CASE ~AutoRelease(a)
      BY <1>5, <3>2, CommitEnds, NoneSaw
    <3> QED
      BY <3>1, <3>2
  <2>2. CASE UNCHANGED <<wallet, balance, debt, job>>
    BY <2>1, <2>2, MoneyKept
  <2>3. CASE \E review, hold : /\ Complete(ItemOf(a), task[a].seen, review, hold)
                               /\ task[a] # Idle /\ task[a].stage = "read"
                               /\ task[a].op \in Completions
    BY <2>1, <2>3, CompleteMoney
  <2>4. CASE Confirm(a)
    BY <2>2, <2>3, <2>4 DEF Confirm, At, Completions
  <2>5. CASE AutoRelease(a)
    BY <2>2, <2>3, <2>5 DEF AutoRelease, Completions
  <2>6. CASE Timeout(a)
    BY <2>2, <2>3, <2>6 DEF Timeout, At, Completions
  <2> QED
    BY <1>5, <2>4, <2>5, <2>6
<1>6. ASSUME NEW a \in Agent, Hire(a) \/ Labour(a) \/ Review(a) \/ Abort(a) PROVE MoneyInv'
  BY <1>4, <1>5, <1>6, ReadsReserve, ReserveMoney, OtherMoney DEF Hire, Labour, Review
<1> QED
  BY <1>2, <1>3, <1>6 DEF Next

LEMMA MoneyStart == Init => MoneyInv
<1> SUFFICES ASSUME Init PROVE MoneyInv
  OBVIOUS
<1>1. \A j \in Job : Reserves[j] = 0
  BY DEF Init, Reserves
<1>2. \A w \in Worker : Receipts[w] = 0
  BY MoneyAssumption DEF Init, Receipts
<1>3. Sum(Reserves, Job) = 0 /\ Sum(Receipts, Worker) = 0
  BY <1>1, <1>2, SumZero, RowsAssumption
<1>4. Conserved
  BY <1>3, MoneyAssumption DEF Init, Conserved
<1> QED
  BY <1>4 DEF Init, MoneyInv, Unreserved, SawReserve

LEMMA MoneyInvariant == ASSUME Serial PROVE Spec => [](SerialInv /\ JobInv /\ MoneyInv)
<1>1. SerialInv /\ SerialInv' /\ JobInv /\ MoneyInv /\ [Next]_vars => MoneyInv'
  BY MoneyStep
<1> QED
  BY <1>1, MoneyStart, JobInvariant, PTL DEF Spec

\* With one handler at a time no naira is made or lost between the employer's wallet, the
\* reserves of the jobs and the workers, whatever is cancelled, disputed, cut for a loan,
\* paid twice over by a cron or cut short by a crash (job-reservation.service.ts:22,
\* job-completion.service.ts:173).
THEOREM FundsConservedSerially == ASSUME Serial PROVE Spec => []FundsConserved
<1>1. MoneyInv => FundsConserved
  BY ReservedSum, ReceivedSum DEF MoneyInv, Conserved, FundsConserved
<1> QED
  BY <1>1, MoneyInvariant, PTL
-----------------------------------------------------------------------------
(***************************************************************************)
(* Any number of handlers.  Hiring, work and completions change the        *)
(* balances by what they move (increment, decrement), so they conserve     *)
(* the money however they overlap; only cancel and publish set a reserve   *)
(* that another may have changed since it was read, and must not run.      *)
(***************************************************************************)
Started(j) == job[j].status # "none"

Empty == \A j \in Job : ~Started(j) => job[j].reserved = 0

OfJobs ==
    \A i \in Item : app[i] # "none" \/ session[i].status # "none" => Started(i[2])

Relative(a) ==
    task[a] # Idle =>
      /\ task[a].op \in Ops
      /\ task[a].op # "create" => Started(task[a].job)
      /\ /\ task[a].op \in Completions \union {"accept_slot"}
         /\ task[a].stage = "read"
         => task[a].seen.status # "none"

\* No handler sets a reserve from what it has read.
Unset == Ops \intersect {"cancel", "publish"} = {}

BookInv == (Unset => Conserved) /\ Empty /\ OfJobs /\ \A a \in Agent : Relative(a)

\* A job that is there stays.
Continued == \A j \in Job : Started(j) => Started(j)'

LEMMA BooksKept ==
  ASSUME TypeOK, BookInv, Continued, Unset => Conserved',
         \A j \in Job : ~Started(j)' => job'[j].reserved = job[j].reserved,
         \A i \in Item : app'[i] # "none" \/ session'[i].status # "none"
                           => app[i] # "none" \/ session[i].status # "none" \/ Started(i[2]),
         \A b \in Agent : Relative(b)'
  PROVE  BookInv'
<1>1. \A i \in Item : i[2] \in Job
  BY DEF Item
<1>2. Empty'
  BY DEF BookInv, Empty, Continued
<1>3. OfJobs'
  BY <1>1 DEF BookInv, OfJobs, Continued
<1> QED
  BY <1>2, <1>3 DEF BookInv

\* A task that commits remembers nothing more.
LEMMA EndsRelative ==
  ASSUME TypeOK, BookInv, Continued, NEW a \in Agent,
         Done(a) \/ (task[a] # Idle /\ task' = [task EXCEPT ![a].stage = "mark"])
  PROVE  \A b \in Agent : Relative(b)'
<1> SUFFICES ASSUME NEW b \in Agent PROVE Relative(b)'
  OBVIOUS
<1>1. Relative(b) /\ task \in [Agent -> Task \union {Idle}]
  BY DEF BookInv, TypeOK
<1>2. CASE b # a \/ Done(a)
  <2>1. task'[b] = task[b] \/ task'[b] = Idle
    BY <1>1, <1>2 DEF Done
  <2>2. task[b] # Idle => task[b].job \in Job
    BY <1>1 DEF Task
  <2> QED
    BY <1>1, <2>1, <2>2 DEF Relative, Continued, Started
<1>3. CASE b = a /\ ~Done(a)
  <2>1. /\ task[a] \in Task /\ task[a].job \in Job
        /\ task'[a].op = task[a].op /\ task'[a].job = task[a].job /\ task'[a].stage = "mark"
    BY <1>1, <1>3 DEF Task
  <2> QED
    BY <1>1, <1>3, <2>1 DEF Relative, Continued, Started
<1> QED
  BY <1>2, <1>3

\* Whatever starts is about a job that is there, but for its creation.
LEMMA StartsRelative ==
  ASSUME TypeOK, BookInv, NEW a \in Agent,
         StartCreate(a) \/ StartUpdate(a) \/ StartPublish(a) \/ StartCancel(a)
           \/ StartAccept(a) \/ StartAcceptSlot(a) \/ StartReject(a)
           \/ StartApply(a) \/ StartWithdraw(a) \/ StartClockIn(a) \/ StartClockOut(a)
           \/ StartConfirm(a) \/ StartDispute(a) \/ StartAutoRelease(a) \/ StartTimeout(a)
  PROVE  /\ UNCHANGED <<money, paused, job, app, session>>
         /\ \A b \in Agent : Relative(b)'
<1>1. PICK op, w, j, seen :
        j \in Job /\ Start(a, op, w, j, seen) /\ (op # "create" => Started(j))
  <2>1. \A w \in Worker, j \in Job :
          app[<<w, j>>] # "none" \/ session[<<w, j>>].status # "none" => Started(j)
    <3>1. \A w \in Worker, j \in Job : <<w, j>> \in Item /\ <<w, j>>[2] = j
      BY DEF Item
    <3> QED
      BY <3>1 DEF BookInv, OfJobs
  <2>2. CASE StartCreate(a)
    BY <2>2 DEF StartCreate
  <2>3. CASE StartUpdate(a) \/ StartPublish(a) \/ StartCancel(a)
    BY <2>3 DEF StartUpdate, StartPublish, StartCancel, Cancellable, Started
  <2>4. CASE StartAccept(a) \/ StartReject(a)
    BY <2>1, <2>4 DEF StartAccept, StartReject
  <2>5. CASE StartAcceptSlot(a)
    BY <2>1, <2>5 DEF StartAcceptSlot
  <2>6. CASE StartApply(a) \/ StartWithdraw(a)
    BY <2>1, <2>6 DEF StartApply, StartWithdraw, Started
  <2>7. CASE StartClockIn(a) \/ StartClockOut(a)
    BY <2>1, <2>7 DEF StartClockIn, StartClockOut
  <2>8. CASE StartConfirm(a) \/ StartDispute(a) \/ StartAutoRelease(a) \/ StartTimeout(a)
    BY <2>1, <2>8
    DEF StartConfirm, StartDispute, StartAutoRelease, StartTimeout, Reviewable, Releasable
  <2> QED
    BY <2>2, <2>3, <2>4, <2>5, <2>6, <2>7, <2>8
<1>2. UNCHANGED <<money, paused, job, app, session>> /\ op \in Ops
  BY <1>1 DEF Start
<1>3. \A b \in Agent \ {a} : task'[b] = task[b]
  BY <1>1 DEF Start, TypeOK
<1>4. /\ task'[a].op = op /\ task'[a].job = j /\ task'[a].stage = "asked"
  BY <1>1 DEF Start, TypeOK
<1>5. Relative(a)'
  BY <1>1, <1>2, <1>4 DEF Relative, Started
<1>6. \A b \in Agent \ {a} : Relative(b)'
  BY <1>2, <1>3 DEF BookInv, Relative, Started
<1> QED
  BY <1>2, <1>5, <1>6

\* What is read of a job is that it is there.
LEMMA ReadsRelative ==
  ASSUME TypeInv, BookInv, NEW a \in Agent,
         ReadCreate(a) \/ ReadPublish(a) \/ ReadCancel(a) \/ ReadAcceptSlot(a)
           \/ LockSession(a) \/ ReadConfirm(a) \/ ReadAutoRelease(a) \/ ReadTimeout(a)
  PROVE  /\ UNCHANGED <<money, paused, job, app, session>>
         /\ \A b \in Agent : Relative(b)'
<1>1. Relative(a) /\ task[a] # Idle /\ task[a] \in Task
      /\ task \in [Agent -> Task \union {Idle}]
  BY DEF BookInv, TypeInv, TypeOK, ReadCreate, ReadPublish, ReadCancel, ReadAcceptSlot,
         LockSession, ReadConfirm, ReadAutoRelease, ReadTimeout, At
<1>2. PICK stage, seen :
        /\ Look(a, stage, seen)
        /\ task[a].op \in Completions \union {"accept_slot"} /\ stage = "read"
             => seen.status # "none"
  <2>1. CASE ReadCreate(a) \/ ReadPublish(a) \/ ReadCancel(a) \/ LockSession(a)
    BY <1>1, <2>1
    DEF ReadCreate, ReadPublish, ReadCancel, LockSession, At, Relative, Completions
  <2>2. CASE ReadAcceptSlot(a)
    <3>1. PICK row : row = job[task[a].job]
      OBVIOUS
    <3>2. PICK seen : seen = [task[a].seen EXCEPT !.count = row.accepted + 1,
                                                  !.status = row.status]
      OBVIOUS
    <3>3. Look(a, "read", seen) /\ task[a].op = "accept_slot"
      BY <2>2, <3>1, <3>2 DEF ReadAcceptSlot, At
    <3>4. seen.status = row.status
      BY <1>1, <3>2 DEF Task, Seen
    <3>5. row.status # "none"
      BY <1>1, <3>1, <3>3 DEF Relative, Started
    <3> QED
      BY <3>3, <3>4, <3>5
  <2>3. CASE ReadConfirm(a) \/ ReadAutoRelease(a) \/ ReadTimeout(a)
    <3>1. ReadCompletion(a, ItemOf(a)) /\ task[a].op \in Completions
      BY <2>3 DEF ReadConfirm, ReadAutoRelease, ReadTimeout, At, Completions
    <3>2. ItemOf(a)[2] = task[a].job
      BY DEF ItemOf
    <3>3. job[ItemOf(a)[2]].status # "none"
      BY <1>1, <3>1, <3>2 DEF Relative, Started, Completions
    <3>4. CASE app[ItemOf(a)] = "completed"
      BY <3>1, <3>4 DEF ReadCompletion
    <3>5. CASE app[ItemOf(a)] # "completed"
      <4>1. PICK seen : seen = [amount |-> Due(ItemOf(a)), count |-> 0,
                                status |-> job[ItemOf(a)[2]].status,
                                last |-> LastWorker(ItemOf(a)), ok |-> Funded(ItemOf(a))]
        OBVIOUS
      <4>2. Look(a, "read", seen) /\ seen.status # "none"
        BY <3>1, <3>3, <3>5, <4>1 DEF ReadCompletion
      <4> QED
        BY <4>2
    <3> QED
      BY <3>4, <3>5
  <2> QED
    BY <2>1, <2>2, <2>3
<1>3. /\ UNCHANGED <<money, paused, job, app, session>>
      /\ \A b \in Agent \ {a} : task'[b] = task[b]
      /\ task'[a].op = task[a].op /\ task'[a].job = task[a].job
      /\ task'[a].stage = stage /\ task'[a].seen = seen
  BY <1>1, <1>2 DEF Look, Task
<1>4. Relative(a)'
  BY <1>1, <1>2, <1>3 DEF Relative, Started
<1>5. \A b \in Agent \ {a} : Relative(b)'
  BY <1>3 DEF BookInv, Relative, Started
<1> QED
  BY <1>3, <1>4, <1>5

\* A completion pays what it takes from the reserve, whatever has become of it.
LEMMA CompletesBooks ==
  ASSUME TypeInv, TypeInv', BookInv, NEW a \in Agent, task[a] # Idle,
         task[a].stage = "read", task[a].op \in Completions, NEW review, NEW hold,
         Complete(ItemOf(a), task[a].seen, review, hold)
  PROVE  /\ Continued /\ (Unset => Conserved')
         /\ \A j \in Job : ~Started(j)' => job'[j].reserved = job[j].reserved
         /\ \A i \in Item : app'[i] # "none" \/ session'[i].status # "none"
                              => app[i] # "none" \/ session[i].status # "none" \/ Started(i[2])
<1>1. /\ task[a].op \in OnItem /\ Relative(a) /\ task[a] \in Task
      /\ job \in [Job -> JobRow] /\ balance \in [Worker -> Int] /\ debt \in [Worker -> Nat]
      /\ app \in [Item -> AppStatus] /\ session \in [Item -> SessionRow]
  BY DEF Completions, OnItem, BookInv, TypeInv, TypeOK
<1>2. PICK w \in Worker, j \in Job : ItemOf(a) = <<w, j>> /\ task[a].job = j
  BY <1>1 DEF TypeInv, TasksNamed, Task, ItemOf
<1>3. PICK seen \in Seen : seen = task[a].seen
  BY <1>1 DEF Task
<1>4. /\ seen.amount \in Nat /\ seen.ok \in BOOLEAN /\ seen.status # "none" /\ Started(j)
      /\ job[j].reserved \in Int /\ balance[w] \in Int /\ debt[w] \in Nat
  BY <1>1, <1>2, <1>3 DEF Seen, JobRow, Relative, Completions
<1>5. <<w, j>>[1] = w /\ <<w, j>>[2] = j
  OBVIOUS
<1>6. PICK status : status = IF seen.last THEN "completed" ELSE seen.status
  OBVIOUS
<1>7. PICK left : left = IF seen.ok THEN job[j].reserved - seen.amount ELSE job[j].reserved
  OBVIOUS
<1>8. job' = [job EXCEPT ![j].status = status, ![j].reserved = left]
  BY <1>1, <1>2, <1>3, <1>5, <1>6, <1>7 DEF Complete, JobRow
<1>9. /\ \A k \in Job \ {j} : job'[k] = job[k]
      /\ job'[j].status = status /\ job'[j].reserved = left /\ status # "none"
  BY <1>1, <1>4, <1>6, <1>8 DEF JobRow
<1>10. wallet' = wallet /\ PayOut(<<w, j>>, seen)
  BY <1>2, <1>3 DEF Complete
<1>11. /\ \A v \in Worker \ {w} : balance'[v] = balance[v] /\ debt'[v] = debt[v]
       /\ left + balance'[w] - debt'[w] = job[j].reserved + balance[w] - debt[w]
  <2>1. CASE seen.ok
    <3>1. PICK cut : cut = LoanCut(w, seen.amount)
      OBVIOUS
    <3>2. cut \in Nat
      BY <1>4, <3>1, LoanCutBounded DEF TypeInv
    <3>3. /\ balance' = [balance EXCEPT ![w] = @ + seen.amount - cut]
          /\ debt' = [debt EXCEPT ![w] = @ - cut]
      BY <1>5, <1>10, <2>1, <3>1 DEF PayOut
    <3>4. /\ balance'[w] = balance[w] + seen.amount - cut /\ debt'[w] = debt[w] - cut
          /\ \A v \in Worker \ {w} : balance'[v] = balance[v] /\ debt'[v] = debt[v]
      BY <1>1, <3>3
    <3> QED
      BY <1>4, <1>7, <2>1, <3>2, <3>4
  <2>2. CASE ~seen.ok
    BY <1>4, <1>7, <1>10, <2>2 DEF PayOut
  <2> QED
    BY <2>1, <2>2
<1>12. job'[j].reserved + balance'[w] - debt'[w] = job[j].reserved + balance[w] - debt[w]
  BY <1>9, <1>11
<1>13. Unset => Conserved'
  <2>1. TypeOK /\ TypeOK' /\ (Unset => Conserved)
    BY DEF BookInv, TypeInv
  <2>2. /\ \A k \in Job \ {j} : job'[k] = job[k]
        /\ \A v \in Worker \ {w} : balance'[v] = balance[v] /\ debt'[v] = debt[v]
    BY <1>9, <1>11
  <2> QED
    BY <1>10, <1>12, <2>1, <2>2, MoneyPaid
<1>14. Continued /\ \A k \in Job : ~Started(k)' => job'[k].reserved = job[k].reserved
  BY <1>9 DEF Continued, Started
<1>15. \A i \in Item : i # <<w, j>> => app'[i] = app[i] /\ session'[i] = session[i]
  BY <1>1, <1>2 DEF Complete
<1> QED
  BY <1>4, <1>5, <1>13, <1>14, <1>15

\* The commits about one job that is there, which move no money.
LEMMA MovesNoMoney ==
  ASSUME TypeInv, BookInv, NEW a \in Agent,
         Update(a) \/ Accept(a) \/ AcceptSlot(a) \/ Reject(a) \/ Apply(a) \/ Withdraw(a)
           \/ ClockIn(a) \/ ClockOut(a) \/ Dispute(a) \/ Abort(a) \/ MarkReleased(a)
  PROVE  BookInv'
<1> USE DEF money
<1>1. /\ UNCHANGED <<wallet, balance, debt>> /\ Done(a) /\ task[a] # Idle
  BY DEF Update, Accept, AcceptSlot, Reject, Apply, Withdraw, ClockIn, ClockOut, Dispute, Abort,
         MarkReleased, At
<1>2. /\ task[a] \in Task /\ Relative(a) /\ job \in [Job -> JobRow]
      /\ app \in [Item -> AppStatus] /\ session \in [Item -> SessionRow]
  BY <1>1 DEF BookInv, TypeInv, TypeOK
<1>3. PICK j \in Job : j = task[a].job
  BY <1>2 DEF Task
<1>4. /\ \A k \in Job \ {j} : job'[k] = job[k]
      /\ job'[j].reserved = job[j].reserved
      /\ Started(j) => job'[j].status # "none"
  <2>1. CASE Reject(a) \/ Apply(a) \/ Withdraw(a) \/ Dispute(a) \/ Abort(a) \/ MarkReleased(a)
    <3>1. job' = job
      BY <2>1 DEF Reject, Apply, Withdraw, Dispute, Abort, MarkReleased
    <3> QED
      BY <3>1 DEF Started
  <2>2. CASE Update(a)
    BY <1>2, <1>3, <2>2 DEF Update, JobRow, Started
  <2>3. CASE Accept(a)
    BY <1>2, <1>3, <2>3 DEF Accept, JobRow
  <2>4. CASE AcceptSlot(a)
    <3>1. task[a].seen.status # "none"
      BY <1>2, <2>4 DEF AcceptSlot, At, Relative
    <3>2. job'[j].reserved = job[j].reserved
          /\ job'[j].status \in {"accepted", task[a].seen.status}
          /\ \A k \in Job \ {j} : job'[k] = job[k]
      BY <1>2, <1>3, <2>4 DEF AcceptSlot, JobRow
    <3> QED
      BY <3>1, <3>2
  <2>5. CASE ClockIn(a)
    BY <1>2, <1>3, <2>5 DEF ClockIn, JobRow
  <2>6. CASE ClockOut(a)
    BY <1>2, <1>3, <2>6 DEF ClockOut, JobRow
  <2> QED
    BY <2>1, <2>2, <2>3, <2>4, <2>5, <2>6
<1>5. Continued /\ (Unset => Conserved') /\ \A k \in Job : job'[k].reserved = job[k].reserved
  <2>1. Continued /\ \A k \in Job : job'[k].reserved = job[k].reserved
    BY <1>4 DEF Continued, Started
  <2> QED
    BY <1>1, <2>1, MoneyStays DEF BookInv
<1>6. ItemOf(a)[2] = j
  BY <1>3 DEF ItemOf
<1>7. \A i \in Item : app'[i] # "none" \/ session'[i].status # "none"
                        => app[i] # "none" \/ session[i].status # "none" \/ Started(i[2])
  <2>1. CASE Update(a) \/ Abort(a)
    BY <2>1 DEF Update, Abort
  <2>2. CASE Accept(a) \/ AcceptSlot(a)
    <3>1. Started(j)
      BY <1>2, <1>3, <2>2 DEF Accept, AcceptSlot, At, Relative
    <3> QED
      BY <1>6, <2>2, <3>1 DEF Accept, AcceptSlot, Decide
  <2>3. CASE Reject(a) \/ Apply(a) \/ Withdraw(a)
    <3>1. Started(j)
      BY <1>2, <1>3, <2>3 DEF Reject, Apply, Withdraw, At, Relative
    <3> QED
      BY <1>2, <1>6, <2>3, <3>1 DEF Reject, Apply, Withdraw
  <2>4. CASE ClockIn(a) \/ ClockOut(a)
    <3>1. Started(j)
      BY <1>2, <1>3, <2>4 DEF ClockIn, ClockOut, At, Relative
    <3> QED
      BY <1>2, <1>6, <2>4, <3>1 DEF ClockIn, ClockOut
  <2>5. CASE Dispute(a) \/ MarkReleased(a)
    <3>1. Started(j)
      BY <1>2, <1>3, <2>5 DEF Dispute, MarkReleased, At, Relative
    <3> QED
      BY <1>2, <1>6, <2>5, <3>1 DEF Dispute, MarkReleased
  <2> QED
    BY <2>1, <2>2, <2>3, <2>4, <2>5
<1>8. \A b \in Agent : Relative(b)'
  BY <1>1, <1>5, EndsRelative DEF TypeInv
<1>9. TypeOK
  BY DEF TypeInv
<1> QED
  BY <1>5, <1>7, <1>8, <1>9, BooksKept

\* A job is created once, and its reserve is what the wallet gives.
LEMMA CreatesBooks ==
  ASSUME TypeInv, TypeInv', BookInv, NEW a \in Agent, Create(a) PROVE BookInv'
<1>1. /\ task[a] # Idle /\ task[a] \in Task /\ Done(a) /\ wallet \in Int
      /\ job \in [Job -> JobRow] /\ UNCHANGED <<app, session, balance, debt>>
  BY DEF Create, At, TypeInv, TypeOK
<1>2. PICK j \in Job, seen \in Seen : j = task[a].job /\ seen = task[a].seen
  BY <1>1 DEF Task
<1>3. PICK n : n = IF seen.ok THEN seen.amount * seen.count ELSE 0
  OBVIOUS
<1>4. n \in Int
  <2>1. seen.amount \in Nat /\ seen.count \in Nat
    BY <1>2 DEF Seen
  <2>2. seen.amount * seen.count \in Int
    BY <2>1
  <2> QED
    BY <1>3, <2>2
<1>5. /\ wallet' = wallet - n /\ job'[j].reserved = n /\ ~Started(j)
      /\ job'[j].status # "none" /\ \A k \in Job \ {j} : job'[k] = job[k]
  BY <1>1, <1>2, <1>3 DEF Create, Started
<1>6. job[j].reserved = 0
  BY <1>5 DEF BookInv, Empty
<1>7. wallet' + job'[j].reserved = wallet + job[j].reserved
  BY <1>1, <1>4, <1>5, <1>6
<1>8. Unset => Conserved'
  BY <1>1, <1>5, <1>7, MoneyReserved DEF BookInv, TypeInv
<1>9. Continued /\ \A k \in Job : ~Started(k)' => job'[k].reserved = job[k].reserved
  BY <1>5 DEF Continued, Started
<1>10. \A b \in Agent : Relative(b)'
  BY <1>1, <1>9, EndsRelative DEF TypeInv
<1> QED
  BY <1>1, <1>8, <1>9, <1>10, BooksKept DEF TypeInv

\* A publication and a cancellation write the reserve of a job that is there.
LEMMA SetsBooks ==
  ASSUME TypeInv, BookInv, NEW a \in Agent, Publish(a) \/ Cancel(a) PROVE BookInv'
<1>1. /\ task[a] # Idle /\ task[a] \in Task /\ Done(a) /\ session' = session
      /\ task[a].op \in {"publish", "cancel"} /\ job \in [Job -> JobRow]
  BY DEF Publish, Cancel, At, TypeInv, TypeOK
<1>2. PICK j \in Job : j = task[a].job
  BY <1>1 DEF Task
<1>3. Relative(a)
  BY DEF BookInv
<1>4. ~Unset /\ Started(j)
  BY <1>1, <1>2, <1>3 DEF Relative, Unset
<1>5. job'[j].status # "none" /\ \A k \in Job \ {j} : job'[k] = job[k]
  <2>1. CASE Publish(a)
    BY <1>1, <1>2, <2>1 DEF Publish, JobRow
  <2>2. CASE Cancel(a)
    BY <1>1, <1>2, <2>2 DEF Cancel, JobRow
  <2> QED
    BY <2>1, <2>2
<1>6. Continued /\ \A k \in Job : ~Started(k)' => job'[k].reserved = job[k].reserved
  BY <1>4, <1>5 DEF Continued, Started
<1>7. \A i \in Item : app'[i] # "none" => app[i] # "none"
  BY DEF Publish, Cancel
<1>8. \A b \in Agent : Relative(b)'
  BY <1>1, <1>6, EndsRelative DEF TypeInv
<1> QED
  BY <1>1, <1>4, <1>6, <1>7, <1>8, BooksKept DEF TypeInv

LEMMA BookStep ==
  ASSUME TypeInv, TypeInv', BookInv, [Next]_vars
  PROVE  BookInv'
<1> USE DEF money
<1>1. ASSUME UNCHANGED <<wallet, balance, debt, job, app>>,
             \A i \in Item : session'[i].status = session[i].status,
             \A b \in Agent : Relative(b)'
      PROVE  BookInv'
  <2>1. (Unset => Conserved') /\ Continued
    BY <1>1, MoneyStays DEF BookInv, Continued, Started
  <2> QED
    BY <1>1, <2>1, BooksKept DEF TypeInv
<1>2. CASE UNCHANGED vars
  BY <1>1, <1>2 DEF vars, BookInv, Relative, Started
<1>3. CASE SetPaused \/ HoldEnds \/ CutoffPasses
  <2>1. \A b \in Agent : Relative(b)'
    BY <1>3 DEF SetPaused, HoldEnds, CutoffPasses, BookInv, Relative, Started
  <2>2. \A i \in Item : session'[i].status = session[i].status
    BY <1>3 DEF SetPaused, HoldEnds, CutoffPasses, TypeInv, TypeOK, SessionRow
  <2> QED
    BY <1>1, <1>3, <2>1, <2>2 DEF SetPaused, HoldEnds, CutoffPasses
<1>4. ASSUME NEW a \in Agent,
             StartCreate(a) \/ StartUpdate(a) \/ StartPublish(a) \/ StartCancel(a)
               \/ StartAccept(a) \/ StartAcceptSlot(a) \/ StartReject(a)
               \/ StartApply(a) \/ StartWithdraw(a) \/ StartClockIn(a) \/ StartClockOut(a)
               \/ StartConfirm(a) \/ StartDispute(a) \/ StartAutoRelease(a)
               \/ StartTimeout(a)
      PROVE  BookInv'
  BY <1>1, <1>4, StartsRelative DEF TypeInv
<1>5. ASSUME NEW a \in Agent,
             ReadCreate(a) \/ ReadPublish(a) \/ ReadCancel(a) \/ ReadAcceptSlot(a)
               \/ LockSession(a) \/ ReadConfirm(a) \/ ReadAutoRelease(a) \/ ReadTimeout(a)
      PROVE  BookInv'
  BY <1>1, <1>5, ReadsRelative
<1>6. ASSUME NEW a \in Agent, Publish(a) \/ Cancel(a) PROVE BookInv'
  BY <1>6, SetsBooks
<1>7. ASSUME NEW a \in Agent, Confirm(a) \/ AutoRelease(a) \/ Timeout(a)
      PROVE  BookInv'
  <2>1. task[a] # Idle /\ (Done(a) \/ task' = [task EXCEPT ![a].stage = "mark"])
    BY <1>7 DEF Confirm, AutoRelease, Timeout, At
  <2>2. CASE \E review, hold : /\ Complete(ItemOf(a), task[a].seen, review, hold)
                               /\ task[a].stage = "read" /\ task[a].op \in Completions
    <3>1. /\ Continued /\ (Unset => Conserved')
          /\ \A j \in Job : ~Started(j)' => job'[j].reserved = job[j].reserved
          /\ \A i \in Item : app'[i] # "none" \/ session'[i].status # "none"
                          => app[i] # "none" \/ session[i].status # "none" \/ Started(i[2])
      BY <2>1, <2>2, CompletesBooks
    <3>2. \A b \in Agent : Relative(b)'
      BY <2>1, <3>1, EndsRelative DEF TypeInv
    <3> QED
      BY <3>1, <3>2, BooksKept DEF TypeInv
  <2>3. CASE /\ UNCHANGED <<wallet, balance, debt, job, app>>
             /\ \A i \in Item : session'[i].status = session[i].status
    <3>1. Continued
      BY <2>3 DEF Continued, Started
    <3>2. \A b \in Agent : Relative(b)'
      BY <2>1, <3>1, EndsRelative DEF TypeInv
    <3> QED
      BY <1>1, <2>3, <3>2
  <2>4. CASE Confirm(a)
    <3>1. CASE At(a, "confirm", "skip")
      <4>1. \A i \in Item : session'[i].status = session[i].status
        BY <2>4, <3>1 DEF Confirm, At, TypeInv, TypeOK, SessionRow
      <4> QED
        BY <2>3, <2>4, <3>1, <4>1 DEF Confirm, At
    <3>2. CASE ~At(a, "confirm", "skip")
      BY <2>2, <2>4, <3>2 DEF Confirm, At, Completions
    <3> QED
      BY <3>1, <3>2
  <2>5. CASE AutoRelease(a)
    BY <2>2, <2>3, <2>5 DEF AutoRelease, Completions
  <2>6. CASE Timeout(a)
    BY <2>2, <2>3, <2>6 DEF Timeout, At, Completions
  <2> QED
    BY <1>7, <2>4, <2>5, <2>6
<1>8. ASSUME NEW a \in Agent, Hire(a) \/ Labour(a) \/ Review(a) \/ Abort(a) PROVE BookInv'
  BY <1>4, <1>5, <1>6, <1>7, <1>8, MovesNoMoney, CreatesBooks DEF Hire, Labour, Review
<1> QED
  BY <1>2, <1>3, <1>8 DEF Next

\* However many handlers and crons overlap, also two completions that both pay and drain
\* a reserve twice, no naira is made or lost by hiring, work, review and the crons
\* (job-completion.service.ts:173, job-reservation.service.ts:22): the reserve is changed
\* by what is paid.  A cancellation or a publication writes what it read, so they are
\* only covered by FundsConservedSerially.
THEOREM FundsConservedInParallel ==
  ASSUME Ops \intersect {"cancel", "publish"} = {} PROVE Spec => []FundsConserved
<1>1. Init => BookInv
  <2>1. Init => MoneyInv
    BY MoneyStart
  <2> QED
    BY <2>1 DEF Init, BookInv, MoneyInv, Empty, OfJobs, Relative, NoSession
<1>2. TypeInv /\ TypeInv' /\ BookInv /\ [Next]_vars => BookInv'
  BY BookStep
<1>3. TypeInv /\ BookInv => FundsConserved
  BY ReservedSum, ReceivedSum DEF BookInv, Unset, Conserved, FundsConserved
<1> QED
  BY <1>1, <1>2, <1>3, TypeStart, TypeStep, PTL DEF Spec
-----------------------------------------------------------------------------
(***************************************************************************)
(* Jobs of one slot, any number of handlers.  The reserve of such a job is *)
(* worth one pay and only falls once the job is there, so that one payment *)
(* leaves nothing for a second one; and confirm, the only handler that     *)
(* pays, holds the lock of its session while it reads and pays.  The       *)
(* auto-release cron reads without that lock and publish sets the reserve  *)
(* again from what it read: with them an application may be paid twice.    *)
(***************************************************************************)

\* An amount is nothing or the pay of the job; once the reserve is gone, anything.
Fits(n, j) == n = 0 \/ n = job[j].pay \/ job[j].reserved <= 0

Spent(j) == job[j].reserved < job[j].pay

\* A completion of the session pays nothing, now or later.
NoPay(i) == Due(i) = 0 \/ Spent(i[2])

PaysJob(j) == Started(j) => job[j].pay > 0 /\ job[j].reserved <= job[j].pay

PaysItem(i) ==
    /\ session[i].status = "none" =>
         /\ payments[i] = 0 /\ session[i].review = "auto_review"
         /\ session[i].pending = 0 /\ session[i].disbursed = 0
    /\ payments[i] <= 1
    /\ payments[i] > 0 => job[i[2]].reserved <= 0
    /\ Fits(session[i].pending, i[2]) /\ Fits(session[i].disbursed, i[2])
    /\ session[i].disbursed > 0 => payments[i] > 0
    /\ session[i].dispute => NoPay(i)
    /\ session[i].review = "disputed" => session[i].dispute
    /\ app[i] = "pending_verification" => session[i].review \in {"auto_review", "disputed"}

Locks(a, i) ==
    /\ task[a] # Idle /\ task[a].op = "confirm" /\ ItemOf(a) = i
    /\ task[a].stage \in {"locked", "read", "skip"}

\* What confirm read under its lock still holds.
Holds(a, i) ==
    /\ \A b \in Agent \ {a} : ~Locks(b, i)
    /\ task[a].stage = "read" =>
         /\ task[a].seen.amount = Due(i)
         /\ task[a].seen.ok /\ task[a].seen.amount > 0 =>
              payments[i] = 0 /\ ~session[i].dispute
    /\ task[a].stage = "skip" => app[i] # "pending_verification"

\* A run of the timeout cron pays nothing.
TimeoutPaysNothing(a) ==
    /\ NoPay(ItemOf(a))
    /\ task[a].stage = "read" =>
         /\ Fits(task[a].seen.amount, task[a].job)
         /\ task[a].seen.amount = 0 \/ (Spent(task[a].job) /\ ~task[a].seen.ok)

PaysTask(a) ==
    task[a] # Idle =>
      /\ task[a].op = "create" => task[a].seen.amount > 0 /\ task[a].seen.count = 1
      /\ task[a].op \in {"clock_in", "update"} => Fits(task[a].seen.amount, task[a].job)
      /\ task[a].op = "update" => task[a].seen.amount > 0
      /\ task[a].op \in {"confirm", "dispute", "timeout"} =>
           session[ItemOf(a)].status # "none"
      /\ task[a].op = "timeout" => TimeoutPaysNothing(a)
      /\ Locks(a, ItemOf(a)) => Holds(a, ItemOf(a))

PaysInv ==
    /\ \A j \in Job : PaysJob(j)
    /\ \A i \in Item : PaysItem(i)
    /\ \A a \in Agent : PaysTask(a)

\* The reserve of a job that is there falls or is gone, and its pay changes only without a reserve.
Falls ==
    \A j \in Job : Started(j) =>
        /\ job'[j].reserved <= job[j].reserved \/ job'[j].reserved <= 0
        /\ job'[j].pay = job[j].pay \/ (job[j].reserved <= 0 /\ job'[j].pay > 0)

LEMMA FallsFit ==
  ASSUME TypeOK, TypeOK', PaysInv, Falls, NEW j \in Job, Started(j)
  PROVE  /\ PaysJob(j)' /\ (Spent(j) => Spent(j)')
         /\ job[j].reserved <= 0 => job'[j].reserved <= 0
         /\ \A n \in Nat : Fits(n, j) =>
              n = 0 \/ n = job'[j].pay \/ job'[j].reserved <= 0
<1>1. /\ job[j].reserved \in Int /\ job[j].pay \in Nat
      /\ job'[j].reserved \in Int /\ job'[j].pay \in Nat
  BY DEF TypeOK, JobRow
<1>2. job[j].pay > 0 /\ job[j].reserved <= job[j].pay
  BY DEF PaysInv, PaysJob
<1>3. /\ job'[j].reserved <= job[j].reserved \/ job'[j].reserved <= 0
      /\ job'[j].pay = job[j].pay \/ (job[j].reserved <= 0 /\ job'[j].pay > 0)
  BY DEF Falls
<1> QED
  BY <1>1, <1>2, <1>3 DEF PaysJob, Spent, Fits

\* A step leaves what the payment of a session depends on.
Untouched(i) ==
    /\ payments'[i] = payments[i]
    /\ session'[i].status = session[i].status /\ session'[i].review = session[i].review
    /\ session'[i].pending = session[i].pending
    /\ session'[i].disbursed = session[i].disbursed
    /\ session'[i].dispute = session[i].dispute
    /\ app'[i] = "pending_verification" => app[i] = "pending_verification"

\* A step about a session that no other handler has locked.
Handled(a, i) ==
    /\ \A b \in Agent \ {a} : ~Locks(b, i)
    /\ PaysItem(i)'
    /\ session[i].status # "none" =>
         session'[i].status # "none" /\ (NoPay(i) => NoPay(i)')

LEMMA ItemStays ==
  ASSUME TypeOK, TypeOK', BookInv, PaysInv, Falls, NEW i \in Item, Untouched(i)
  PROVE  PaysItem(i)' /\ (session[i].status # "none" /\ NoPay(i) => NoPay(i)')
<1>1. /\ PaysItem(i) /\ i[2] \in Job /\ payments[i] \in Nat
      /\ session[i].pending \in Nat /\ session[i].disbursed \in Nat
  BY DEF PaysInv, TypeOK, SessionRow, Item
<1>2. Due(i)' = Due(i)
  BY DEF Due, Untouched
<1>3. CASE session[i].status = "none"
  <2>1. /\ payments'[i] = 0 /\ session'[i].review = "auto_review"
        /\ session'[i].pending = 0 /\ session'[i].disbursed = 0
    BY <1>1, <1>3 DEF PaysItem, Untouched
  <2>2. NoPay(i)'
    BY <2>1 DEF NoPay, Due
  <2> QED
    BY <1>1, <1>3, <2>1, <2>2 DEF PaysItem, Untouched, Fits
<1>4. CASE session[i].status # "none"
  <2>1. Started(i[2])
    BY <1>4 DEF BookInv, OfJobs
  <2>2. /\ Spent(i[2]) => Spent(i[2])'
        /\ job[i[2]].reserved <= 0 => job'[i[2]].reserved <= 0
        /\ \A n \in Nat : Fits(n, i[2]) =>
             n = 0 \/ n = job'[i[2]].pay \/ job'[i[2]].reserved <= 0
    BY <1>1, <2>1, FallsFit
  <2>3. NoPay(i) => NoPay(i)'
    BY <1>2, <2>2 DEF NoPay
  <2>4. Fits(session[i].pending, i[2])' /\ Fits(session[i].disbursed, i[2])'
    BY <1>1, <2>2 DEF PaysItem, Untouched, Fits
  <2>5. /\ payments'[i] = payments[i] /\ (payments[i] > 0 => job'[i[2]].reserved <= 0)
        /\ session'[i].status # "none"
    BY <1>1, <1>4, <2>2 DEF PaysItem, Untouched
  <2>6. session'[i].dispute => NoPay(i)'
    BY <1>1, <2>3 DEF PaysItem, Untouched
  <2> QED
    BY <1>1, <2>3, <2>4, <2>5, <2>6 DEF PaysItem, Untouched
<1> QED
  BY <1>3, <1>4

\* What a task that goes on remembers stays true.
LEMMA TaskStays ==
  ASSUME TypeInv, TypeOK', BookInv, PaysInv, Falls, NEW b \in Agent, task'[b] = task[b],
         \A i \in Item : session[i].status # "none" =>
           /\ session'[i].status # "none"
           /\ NoPay(i) => NoPay(i)',
         \A i \in Item : Locks(b, i) => Untouched(i) /\ \A c \in Agent \ {b} : ~Locks(c, i)'
  PROVE  PaysTask(b)'
<1> SUFFICES ASSUME task[b] # Idle PROVE PaysTask(b)'
  BY DEF PaysTask
<1>1. /\ task[b] \in Task /\ task[b].job \in Job /\ task[b].seen.amount \in Nat
      /\ PaysTask(b) /\ Relative(b)
  BY DEF TypeInv, TypeOK, Task, Seen, PaysInv, BookInv
<1>2. task[b].op \in OnItem => ItemOf(b) \in Item /\ ItemOf(b)[2] = task[b].job
  BY <1>1 DEF TypeInv, TasksNamed, ItemOf, Item
<1>3. ItemOf(b)' = ItemOf(b)
  BY DEF ItemOf
<1>4. task[b].op # "create" =>
        /\ Spent(task[b].job) => Spent(task[b].job)'
        /\ \A n \in Nat : Fits(n, task[b].job) =>
             n = 0 \/ n = job'[task[b].job].pay \/ job'[task[b].job].reserved <= 0
  BY <1>1, FallsFit DEF Relative, TypeInv
<1>5. task[b].op \in {"clock_in", "update"} => Fits(task[b].seen.amount, task[b].job)'
  BY <1>1, <1>4 DEF PaysTask, Fits
<1>6. task[b].op \in {"confirm", "dispute", "timeout"} => session'[ItemOf(b)].status # "none"
  BY <1>1, <1>2 DEF PaysTask, OnItem
<1>7. task[b].op = "timeout" => TimeoutPaysNothing(b)'
  <2> SUFFICES ASSUME task[b].op = "timeout" PROVE TimeoutPaysNothing(b)'
    OBVIOUS
  <2>1. TimeoutPaysNothing(b) /\ NoPay(ItemOf(b)) /\ session[ItemOf(b)].status # "none"
    BY <1>1 DEF PaysTask, TimeoutPaysNothing
  <2>2. NoPay(ItemOf(b))'
    BY <1>2, <1>3, <2>1 DEF OnItem
  <2>3. task[b].stage = "read" =>
          /\ Fits(task[b].seen.amount, task[b].job)'
          /\ task[b].seen.amount = 0 \/ (Spent(task[b].job)' /\ ~task[b].seen.ok)
    BY <1>1, <1>4, <2>1 DEF TimeoutPaysNothing, Fits
  <2> QED
    BY <2>2, <2>3 DEF TimeoutPaysNothing
<1>8. Locks(b, ItemOf(b))' => Holds(b, ItemOf(b))'
  <2> SUFFICES ASSUME Locks(b, ItemOf(b)) PROVE Holds(b, ItemOf(b))'
    BY <1>3 DEF Locks
  <2>1. PICK i \in Item : i = ItemOf(b)
    BY <1>2 DEF Locks, OnItem
  <2>2. Untouched(i) /\ Holds(b, i) /\ \A c \in Agent \ {b} : ~Locks(c, i)'
    BY <1>1, <2>1 DEF PaysTask
  <2>3. Due(i)' = Due(i)
    BY <2>2 DEF Untouched, Due
  <2> QED
    BY <1>3, <2>1, <2>2, <2>3 DEF Holds, Untouched
<1> QED
  BY <1>1, <1>3, <1>5, <1>6, <1>7, <1>8 DEF PaysTask

\* Where no row that pays depends on changes, nor another task, only the task of a counts.
LEMMA RowsStay ==
  ASSUME TypeInv, TypeInv', BookInv, PaysInv, NEW a \in Agent,
         UNCHANGED <<money, paused, job, app, session>>,
         \A b \in Agent \ {a} : task'[b] = task[b],
         \A b \in Agent \ {a}, i \in Item : Locks(b, i) => ~Locks(a, i)',
         PaysTask(a)'
  PROVE  PaysInv'
<1> USE DEF money
<1>1. Falls
  BY DEF Falls, TypeInv, TypeOK, JobRow
<1>2. \A i \in Item : Untouched(i)
  BY DEF Untouched
<1>3. \A i \in Item : PaysItem(i)' /\ (session[i].status # "none" /\ NoPay(i) => NoPay(i)')
  BY <1>1, <1>2, ItemStays DEF TypeInv
<1>4. \A j \in Job : PaysJob(j)'
  BY DEF PaysInv, PaysJob, Started
<1>5. ASSUME NEW b \in Agent \ {a} PROVE PaysTask(b)'
  <2>1. \A i \in Item : Locks(b, i) => \A c \in Agent \ {b} : ~Locks(c, i)'
    <3> SUFFICES ASSUME NEW i \in Item, Locks(b, i), NEW c \in Agent \ {b} PROVE ~Locks(c, i)'
      OBVIOUS
    <3>1. CASE c = a
      BY <3>1
    <3>2. CASE c # a
      <4>1. ~Locks(c, i)
        BY DEF PaysInv, PaysTask, Holds, Locks
      <4> QED
        BY <3>2, <4>1 DEF Locks, ItemOf
    <3> QED
      BY <3>1, <3>2
  <2> QED
    BY <1>1, <1>2, <1>3, <2>1, TaskStays DEF TypeInv
<1> QED
  BY <1>3, <1>4, <1>5 DEF PaysInv

\* A handler that commits about a session commits alone.
LEMMA CommitPays ==
  ASSUME TypeInv, TypeInv', BookInv, PaysInv, NEW a \in Agent, Done(a), Falls,
         \A j \in Job : ~Started(j) => PaysJob(j)',
         \A i \in Item : Untouched(i) \/ Handled(a, i)
  PROVE  PaysInv'
<1>1. task'[a] = Idle /\ \A b \in Agent \ {a} : task'[b] = task[b]
  BY DEF Done, TypeInv, TypeOK
<1>2. \A i \in Item : /\ PaysItem(i)'
                      /\ session[i].status # "none" =>
                           session'[i].status # "none" /\ (NoPay(i) => NoPay(i)')
  <2> SUFFICES ASSUME NEW i \in Item
               PROVE  /\ PaysItem(i)'
                      /\ session[i].status # "none" =>
                           session'[i].status # "none" /\ (NoPay(i) => NoPay(i)')
    OBVIOUS
  <2>1. CASE Untouched(i)
    BY <2>1, ItemStays DEF TypeInv, Untouched
  <2>2. CASE Handled(a, i)
    BY <2>2 DEF Handled
  <2> QED
    BY <2>1, <2>2
<1>3. \A j \in Job : PaysJob(j)'
  BY FallsFit DEF TypeInv
<1>4. PaysTask(a)'
  BY <1>1 DEF PaysTask
<1>5. ASSUME NEW b \in Agent \ {a} PROVE PaysTask(b)'
  <2>1. \A i \in Item : Locks(b, i) => Untouched(i) /\ \A c \in Agent \ {b} : ~Locks(c, i)'
    <3> SUFFICES ASSUME NEW i \in Item, Locks(b, i)
                 PROVE  Untouched(i) /\ \A c \in Agent \ {b} : ~Locks(c, i)'
      OBVIOUS
    <3>1. Untouched(i)
      BY DEF Handled
    <3>2. \A c \in Agent \ {b} : ~Locks(c, i)
      BY DEF PaysInv, PaysTask, Holds, Locks
    <3> QED
      BY <1>1, <3>1, <3>2 DEF Locks, ItemOf
  <2> QED
    BY <1>1, <1>2, <2>1, TaskStays DEF TypeInv
<1> QED
  BY <1>2, <1>3, <1>4, <1>5 DEF PaysInv

\* A handler starts with what it will need to be true.
Asked(a, op, w, j, seen) ==
    /\ Start(a, op, w, j, seen)
    /\ op = "create" => seen.amount > 0 /\ seen.count = 1
    /\ op \in {"clock_in", "update"} => Fits(seen.amount, j)
    /\ op = "update" => seen.amount > 0
    /\ op \in {"confirm", "dispute", "timeout"} => session[<<w, j>>].status # "none"
    /\ op = "timeout" => NoPay(<<w, j>>)

\* What a handler reads first.
LEMMA StartsPay ==
  ASSUME TypeInv, TypeInv', BookInv, PaysInv, Slots = {1}, NEW a \in Agent,
         StartCreate(a) \/ StartUpdate(a) \/ StartPublish(a) \/ StartCancel(a)
           \/ StartAccept(a) \/ StartAcceptSlot(a) \/ StartReject(a)
           \/ StartApply(a) \/ StartWithdraw(a) \/ StartClockIn(a) \/ StartClockOut(a)
           \/ StartConfirm(a) \/ StartDispute(a) \/ StartAutoRelease(a) \/ StartTimeout(a)
  PROVE  PaysInv'
<1>1. PICK op, w, j, seen : Asked(a, op, w, j, seen)
  <2>1. CASE StartCreate(a)
    <3>1. PICK j \in Job, pay \in Pay, slots \in Slots, postNow \in BOOLEAN :
            Start(a, "create", Nobody, j,
                  [Blank EXCEPT !.amount = pay, !.count = slots, !.ok = postNow])
      BY <2>1 DEF StartCreate
    <3>2. pay > 0 /\ slots = 1
      BY PayAssumption
    <3>3. PICK seen : seen = [Blank EXCEPT !.amount = pay, !.count = slots, !.ok = postNow]
      OBVIOUS
    <3>4. seen.amount = pay /\ seen.count = slots
      BY <3>3 DEF Blank
    <3>5. Start(a, "create", Nobody, j, seen)
      BY <3>1, <3>3
    <3>6. Asked(a, "create", Nobody, j, seen)
      BY <3>2, <3>4, <3>5 DEF Asked
    <3> QED
      BY <3>6
  <2>2. CASE StartUpdate(a)
    <3>1. PICK j \in Job, pay \in Pay :
            /\ pay # job[j].pay => job[j].reserved <= 0
            /\ Start(a, "update", Nobody, j, [Blank EXCEPT !.amount = pay])
      BY <2>2 DEF StartUpdate
    <3>2. pay > 0 /\ Fits(pay, j)
      BY <3>1, PayAssumption DEF Fits
    <3>3. PICK seen : seen = [Blank EXCEPT !.amount = pay]
      OBVIOUS
    <3>4. seen.amount = pay
      BY <3>3 DEF Blank
    <3>5. Start(a, "update", Nobody, j, seen)
      BY <3>1, <3>3
    <3>6. Asked(a, "update", Nobody, j, seen)
      BY <3>2, <3>4, <3>5 DEF Asked
    <3> QED
      BY <3>6
  <2>3. CASE StartPublish(a) \/ StartCancel(a)
    <3>1. PICK j, seen : \/ Start(a, "publish", Nobody, j, seen)
                         \/ Start(a, "cancel", Nobody, j, seen)
      BY <2>3 DEF StartPublish, StartCancel
    <3> QED
      BY <3>1 DEF Asked
  <2>4. CASE StartAccept(a) \/ StartReject(a) \/ StartApply(a) \/ StartWithdraw(a)
               \/ StartClockOut(a) \/ StartAutoRelease(a) \/ StartAcceptSlot(a)
    <3>1. PICK w, j, seen :
            \/ Start(a, "accept", w, j, seen) \/ Start(a, "accept_slot", w, j, seen)
            \/ Start(a, "reject", w, j, seen) \/ Start(a, "apply", w, j, seen)
            \/ Start(a, "withdraw", w, j, seen) \/ Start(a, "clock_out", w, j, seen)
            \/ Start(a, "auto_release", w, j, seen)
      BY <2>4 DEF StartAccept, StartReject, StartApply, StartWithdraw, StartClockOut,
                  StartAutoRelease, StartAcceptSlot
    <3> QED
      BY <3>1 DEF Asked
  <2>5. CASE StartClockIn(a)
    <3>1. PICK w \in Worker, j \in Job :
            Start(a, "clock_in", w, j, [Blank EXCEPT !.amount = job[j].pay])
      BY <2>5 DEF StartClockIn
    <3>2. PICK seen : seen = [Blank EXCEPT !.amount = job[j].pay]
      OBVIOUS
    <3>3. seen.amount = job[j].pay
      BY <3>2 DEF Blank
    <3>4. Fits(seen.amount, j)
      BY <3>3 DEF Fits
    <3>5. Start(a, "clock_in", w, j, seen)
      BY <3>1, <3>2
    <3>6. Asked(a, "clock_in", w, j, seen)
      BY <3>4, <3>5 DEF Asked
    <3> QED
      BY <3>6
  <2>6. CASE StartConfirm(a) \/ StartDispute(a)
    <3>1. PICK w, j :
            /\ session[<<w, j>>].status # "none"
            /\ Start(a, "confirm", w, j, Blank) \/ Start(a, "dispute", w, j, Blank)
      BY <2>6 DEF StartConfirm, StartDispute, Reviewable
    <3> QED
      BY <3>1 DEF Asked
  <2>7. CASE StartTimeout(a)
    <3>1. PICK w \in Worker, j \in Job :
            /\ app[<<w, j>>] = "pending_verification"
            /\ session[<<w, j>>].review # "auto_review"
            /\ Start(a, "timeout", w, j, Blank)
      BY <2>7 DEF StartTimeout
    <3>2. PICK i \in Item : i = <<w, j>>
      BY DEF Item
    <3>3. PaysItem(i)
      BY DEF PaysInv
    <3>4. session[i].status # "none" /\ NoPay(i)
      BY <3>1, <3>2, <3>3 DEF PaysItem
    <3> QED
      BY <3>1, <3>2, <3>4 DEF Asked
  <2> QED
    BY <2>1, <2>2, <2>3, <2>4, <2>5, <2>6, <2>7
<1> USE DEF Asked
<1>2. UNCHANGED <<money, paused, job, app, session>> /\ \A b \in Agent \ {a} : task'[b] = task[b]
  BY <1>1 DEF Start, TypeInv, TypeOK
<1>3. /\ task'[a].op = op /\ task'[a].stage = "asked" /\ task'[a].seen = seen
      /\ task'[a].job = j /\ task'[a].worker = w
  BY <1>1 DEF Start, TypeInv, TypeOK
<1>4. ItemOf(a)' = <<w, j>>
  BY <1>3 DEF ItemOf
<1>5. PaysTask(a)'
  <2>1. ~Locks(a, ItemOf(a))'
    BY <1>3 DEF Locks
  <2>2. op = "timeout" => TimeoutPaysNothing(a)'
    <3>1. op = "timeout" => NoPay(<<w, j>>)
      BY <1>1
    <3>2. NoPay(ItemOf(a))' <=> NoPay(<<w, j>>)
      BY <1>2, <1>4 DEF NoPay, Due, Spent
    <3>3. task'[a].stage # "read"
      BY <1>3
    <3> QED
      BY <3>1, <3>2, <3>3 DEF TimeoutPaysNothing
  <2>3. op \in {"clock_in", "update"} => Fits(task[a].seen.amount, task[a].job)'
    BY <1>1, <1>2, <1>3 DEF Fits
  <2>4. op \in {"confirm", "dispute", "timeout"} => session'[<<w, j>>].status # "none"
    BY <1>1, <1>2
  <2> QED
    BY <1>1, <1>3, <1>4, <2>1, <2>2, <2>3, <2>4 DEF PaysTask
<1>6. \A i \in Item : ~Locks(a, i)'
  BY <1>3 DEF Locks
<1> QED
  BY <1>2, <1>5, <1>6, RowsStay

LEMMA Looked ==
  ASSUME TypeInv, NEW a \in Agent, task[a] # Idle, NEW stage, NEW seen, Look(a, stage, seen)
  PROVE  /\ UNCHANGED <<money, paused, job, app, session>>
         /\ \A b \in Agent \ {a} : task'[b] = task[b]
         /\ task'[a].op = task[a].op /\ task'[a].stage = stage /\ task'[a].seen = seen
         /\ task'[a].job = task[a].job /\ ItemOf(a)' = ItemOf(a)
         /\ NoPay(ItemOf(a))' = NoPay(ItemOf(a)) /\ Due(ItemOf(a))' = Due(ItemOf(a))
         /\ \A n : Fits(n, task[a].job) =>
              \/ n = 0 \/ n = job'[task[a].job].pay
              \/ job'[task[a].job].reserved <= 0
         /\ Spent(task[a].job)' = Spent(task[a].job)
<1>1. task[a] \in Task /\ task \in [Agent -> Task \union {Idle}]
  BY DEF TypeInv, TypeOK
<1>2. /\ UNCHANGED <<money, paused, job, app, session>>
      /\ \A b \in Agent \ {a} : task'[b] = task[b]
      /\ task'[a] = [task[a] EXCEPT !.stage = stage, !.seen = seen]
  BY <1>1 DEF Look, Task
<1>3. /\ task'[a].op = task[a].op /\ task'[a].stage = stage /\ task'[a].seen = seen
      /\ task'[a].job = task[a].job /\ task'[a].worker = task[a].worker
  BY <1>1, <1>2 DEF Task
<1>4. ItemOf(a)' = ItemOf(a)
  BY <1>3 DEF ItemOf
<1> QED
  BY <1>2, <1>3, <1>4 DEF NoPay, Due, Fits, Spent

\* What a handler reads inside its transaction.  Confirm is then alone with its session,
\* and pays only what is left in the reserve; a run of the timeout cron finds nothing.
LEMMA ReadsPay ==
  ASSUME TypeInv, TypeInv', BookInv, PaysInv, Ops \intersect {"auto_release", "publish"} = {},
         NEW a \in Agent,
         ReadCreate(a) \/ ReadPublish(a) \/ ReadCancel(a) \/ ReadAcceptSlot(a)
           \/ LockSession(a) \/ ReadConfirm(a) \/ ReadAutoRelease(a) \/ ReadTimeout(a)
  PROVE  PaysInv'
<1>1. /\ task[a] # Idle /\ task[a] \in Task /\ task[a].op \in Ops
      /\ PaysTask(a) /\ Relative(a) /\ task[a].job \in Job
  BY DEF PaysInv, BookInv, Relative, TypeInv, TypeOK, Task, ReadCreate, ReadPublish, ReadCancel,
         ReadAcceptSlot, LockSession, ReadConfirm, ReadAutoRelease, ReadTimeout, At
<1>0. PICK i, j : i = ItemOf(a) /\ j = task[a].job
  OBVIOUS
<1>2. task[a].op \in {"confirm", "timeout"} => i \in Item /\ i[2] = j /\ j \in Job
  BY <1>0, <1>1 DEF TypeInv, TasksNamed, OnItem, ItemOf, Item
<1>3. CASE ReadCreate(a) \/ ReadPublish(a) \/ ReadCancel(a) \/ ReadAcceptSlot(a)
  <2>1. PICK seen : /\ Look(a, "read", seen)
                    /\ task[a].op \in {"create", "publish", "cancel", "accept_slot"}
                    /\ task[a].op = "create" => seen = task[a].seen
    BY <1>3 DEF ReadCreate, ReadPublish, ReadCancel, ReadAcceptSlot, At
  <2>2. /\ UNCHANGED <<money, paused, job, app, session>>
        /\ \A b \in Agent \ {a} : task'[b] = task[b]
        /\ task'[a].op = task[a].op /\ task'[a].seen = seen
    BY <1>0, <1>1, <2>1, Looked
  <2>3. \A k \in Item : ~Locks(a, k)'
    BY <2>1, <2>2 DEF Locks
  <2>4. PaysTask(a)'
    BY <1>0, <1>1, <2>1, <2>2 DEF PaysTask, Locks
  <2> QED
    BY <2>2, <2>3, <2>4, RowsStay
<1>4. CASE LockSession(a)
  <2>1. Look(a, "locked", Blank) /\ task[a].op = "confirm" /\ Unlocked(a, i)
    BY <1>0, <1>4 DEF LockSession, At
  <2>2. /\ UNCHANGED <<money, paused, job, app, session>>
        /\ \A b \in Agent \ {a} : task'[b] = task[b]
        /\ task'[a].op = task[a].op /\ task'[a].stage = "locked" /\ ItemOf(a)' = i
    BY <1>0, <1>1, <2>1, Looked
  <2>3. \A b \in Agent \ {a} : ~Locks(b, i) /\ ~Locks(b, i)'
    BY <2>1, <2>2 DEF Unlocked, Locks, ItemOf
  <2>4. \A b \in Agent \ {a}, k \in Item : Locks(b, k) => ~Locks(a, k)'
    BY <2>2, <2>3 DEF Locks
  <2>5. PaysTask(a)'
    BY <1>0, <1>1, <2>1, <2>2, <2>3 DEF PaysTask, Holds
  <2> QED
    BY <2>2, <2>4, <2>5, RowsStay
<1>5. CASE ReadConfirm(a)
  <2>1. /\ task[a].op = "confirm" /\ task[a].stage = "locked"
        /\ ReadCompletion(a, i) /\ Locks(a, i) /\ i \in Item /\ i[2] = j
    BY <1>0, <1>1, <1>2, <1>5 DEF ReadConfirm, At, Locks
  <2>2. /\ \A b \in Agent \ {a} : ~Locks(b, i)
        /\ session[i].status # "none" /\ PaysItem(i)
    BY <1>0, <1>1, <2>1 DEF PaysTask, Holds, PaysInv
  <2>3. PICK stage, seen :
          /\ Look(a, stage, seen)
          /\ stage \in {"read", "skip"}
          /\ stage = "skip" => app[i] # "pending_verification"
          /\ stage = "read" => seen.amount = Due(i) /\ (seen.ok => job[j].reserved >= Due(i))
    <3>1. CASE app[i] = "completed"
      BY <2>1, <3>1 DEF ReadCompletion
    <3>2. CASE app[i] # "completed"
      <4>1. PICK seen : seen = [amount |-> Due(i), count |-> 0, status |-> job[i[2]].status,
                                last |-> LastWorker(i), ok |-> Funded(i)]
        OBVIOUS
      <4>2. Look(a, "read", seen)
        BY <2>1, <3>2, <4>1 DEF ReadCompletion
      <4>3. seen.amount = Due(i) /\ (seen.ok => job[j].reserved >= Due(i))
        BY <2>1, <4>1 DEF Funded
      <4> QED
        BY <4>2, <4>3
    <3> QED
      BY <3>1, <3>2
  <2>4. stage = "read" /\ seen.ok /\ seen.amount > 0 => payments[i] = 0 /\ ~session[i].dispute
    <3> SUFFICES ASSUME stage = "read", seen.ok, Due(i) > 0
                 PROVE  payments[i] = 0 /\ ~session[i].dispute
      BY <2>3
    <3>1. /\ Due(i) \in Nat /\ job[j].reserved \in Int /\ job[j].pay \in Nat
          /\ payments[i] \in Nat
      BY <1>0, <1>1, <2>1 DEF Due, TypeInv, TypeOK, SessionRow, JobRow
    <3>2. Fits(Due(i), j) /\ job[j].reserved >= Due(i)
      BY <2>1, <2>2, <2>3 DEF PaysItem, Due
    <3>3. ~ Spent(j) /\ job[j].reserved > 0
      BY <3>1, <3>2 DEF Fits, Spent
    <3> QED
      BY <2>1, <2>2, <3>1, <3>3 DEF PaysItem, NoPay
  <2>5. /\ UNCHANGED <<money, paused, job, app, session>>
        /\ \A b \in Agent \ {a} : task'[b] = task[b]
        /\ task'[a].op = "confirm" /\ task'[a].stage = stage /\ task'[a].seen = seen
        /\ ItemOf(a)' = i /\ Due(i)' = Due(i)
    BY <1>0, <1>1, <2>1, <2>3, Looked
  <2>6. \A b \in Agent \ {a}, k \in Item : Locks(b, k) => ~Locks(a, k)'
    BY <2>2, <2>5 DEF Locks
  <2>7. Holds(a, i)'
    <3>1. \A b \in Agent \ {a} : ~Locks(b, i)'
      BY <2>2, <2>5 DEF Locks, ItemOf
    <3>2. payments' = payments
      BY <2>5 DEF money
    <3> QED
      BY <2>3, <2>4, <2>5, <3>1, <3>2 DEF Holds
  <2>8. PaysTask(a)'
    BY <2>2, <2>5, <2>7 DEF PaysTask
  <2> QED
    BY <2>5, <2>6, <2>8, RowsStay
<1>6. CASE ReadTimeout(a)
  <2>1. /\ task[a].op = "timeout" /\ ReadCompletion(a, i) /\ i \in Item /\ i[2] = j
        /\ NoPay(i) /\ session[i].status # "none" /\ PaysItem(i)
    BY <1>0, <1>1, <1>2, <1>6 DEF ReadTimeout, At, PaysTask, TimeoutPaysNothing, PaysInv
  <2>2. PICK stage, seen :
          /\ Look(a, stage, seen)
          /\ stage = "read" => seen.amount = Due(i) /\ (seen.ok => job[j].reserved >= Due(i))
    <3>1. CASE app[i] = "completed"
      BY <2>1, <3>1 DEF ReadCompletion
    <3>2. CASE app[i] # "completed"
      <4>1. PICK seen : seen = [amount |-> Due(i), count |-> 0, status |-> job[i[2]].status,
                                last |-> LastWorker(i), ok |-> Funded(i)]
        OBVIOUS
      <4>2. Look(a, "read", seen)
        BY <2>1, <3>2, <4>1 DEF ReadCompletion
      <4>3. seen.amount = Due(i) /\ (seen.ok => job[j].reserved >= Due(i))
        BY <2>1, <4>1 DEF Funded
      <4> QED
        BY <4>2, <4>3
    <3> QED
      BY <3>1, <3>2
  <2>3. /\ UNCHANGED <<money, paused, job, app, session>>
        /\ \A b \in Agent \ {a} : task'[b] = task[b]
        /\ task'[a].op = "timeout" /\ task'[a].stage = stage /\ task'[a].seen = seen
        /\ task'[a].job = j /\ ItemOf(a)' = i
    BY <1>0, <1>1, <2>1, <2>2, Looked
  <2>4. stage = "read" => /\ Fits(seen.amount, j)
                          /\ seen.amount = 0 \/ (Spent(j) /\ ~seen.ok)
    <3> SUFFICES ASSUME stage = "read"
                 PROVE  Fits(Due(i), j) /\ (Due(i) = 0 \/ (Spent(j) /\ ~seen.ok))
      BY <2>2
    <3>1. Due(i) \in Nat /\ job[j].reserved \in Int /\ job[j].pay \in Nat
      BY <1>0, <1>1, <2>1 DEF Due, TypeInv, TypeOK, SessionRow, JobRow
    <3>2. Fits(Due(i), j)
      BY <2>1 DEF PaysItem, Due
    <3> QED
      BY <2>1, <2>2, <3>1, <3>2 DEF Fits, NoPay, Spent
  <2>5. TimeoutPaysNothing(a)'
    <3>1. NoPay(i)'
      BY <2>1, <2>3 DEF NoPay, Due, Spent
    <3>2. stage = "read" => Fits(task[a].seen.amount, task[a].job)'
      BY <2>3, <2>4 DEF Fits
    <3>3. stage = "read" => seen.amount = 0 \/ (Spent(task[a].job)' /\ ~seen.ok)
      BY <2>3, <2>4 DEF Spent
    <3> QED
      BY <2>3, <3>1, <3>2, <3>3 DEF TimeoutPaysNothing
  <2>6. \A k \in Item : ~Locks(a, k)'
    BY <2>3 DEF Locks
  <2>7. PaysTask(a)'
    BY <2>1, <2>3, <2>5 DEF PaysTask, Locks
  <2> QED
    BY <2>3, <2>6, <2>7, RowsStay
<1>7. CASE ReadAutoRelease(a)
  BY <1>0, <1>1, <1>7 DEF ReadAutoRelease, At
<1> QED
  BY <1>3, <1>4, <1>5, <1>6, <1>7

\* Commits that pay nothing and leave the sessions alone.
LEMMA MovesPay ==
  ASSUME TypeInv, TypeInv', BookInv, PaysInv, NEW a \in Agent,
         Create(a) \/ Update(a) \/ Cancel(a) \/ Accept(a) \/ AcceptSlot(a) \/ Reject(a)
           \/ Apply(a) \/ Withdraw(a) \/ Abort(a)
  PROVE  PaysInv'
<1>1. /\ task[a] # Idle /\ Done(a) /\ session' = session /\ payments' = payments
  BY DEF Create, Update, Cancel, Accept, AcceptSlot, Reject, Apply, Withdraw, Abort, At, money
<1>2. /\ task[a] \in Task /\ PaysTask(a) /\ Relative(a) /\ job \in [Job -> JobRow]
      /\ app \in [Item -> AppStatus]
  BY <1>1 DEF TypeInv, TypeOK, PaysInv, BookInv
<1>3. PICK j \in Job, seen \in Seen : j = task[a].job /\ seen = task[a].seen
  BY <1>2 DEF Task
<1>4. \A i \in Item : Untouched(i)
  <2>1. \A i \in Item : app'[i] = "pending_verification" => app[i] = "pending_verification"
    BY <1>2 DEF Create, Update, Cancel, Accept, AcceptSlot, Decide, Reject, Apply, Withdraw, Abort
  <2> QED
    BY <1>1, <2>1 DEF Untouched
<1>5. job[j].reserved \in Int /\ job[j].pay \in Nat
  BY <1>2 DEF JobRow
<1>6. CASE Reject(a) \/ Apply(a) \/ Withdraw(a) \/ Abort(a)
  <2>1. job' = job
    BY <1>6 DEF Reject, Apply, Withdraw, Abort
  <2>2. Falls /\ \A k \in Job : ~Started(k) => PaysJob(k)'
    BY <1>2, <2>1 DEF Falls, PaysJob, Started, JobRow
  <2> QED
    BY <1>1, <1>4, <2>2, CommitPays
<1>7. CASE Create(a)
  <2>1. PICK n : n = IF seen.ok THEN seen.amount * seen.count ELSE 0
    OBVIOUS
  <2>2. /\ ~Started(j) /\ \A k \in Job \ {j} : job'[k] = job[k]
        /\ job'[j].pay = seen.amount /\ job'[j].reserved = n
    BY <1>2, <1>3, <1>7, <2>1 DEF Create, Started
  <2>3. seen.amount > 0 /\ seen.count = 1 /\ seen.amount \in Nat
    BY <1>1, <1>2, <1>3, <1>7 DEF PaysTask, Create, At, Seen
  <2>4. n \in Nat /\ n <= seen.amount
    BY <2>1, <2>3
  <2>5. Falls
    BY <1>2, <2>2 DEF Falls, JobRow
  <2>6. \A k \in Job : ~Started(k) => PaysJob(k)'
    BY <2>2, <2>3, <2>4 DEF PaysJob, Started
  <2> QED
    BY <1>1, <1>4, <2>5, <2>6, CommitPays
<1>8. ASSUME \A k \in Job \ {j} : job'[k] = job[k],
             Started(j),
             /\ job'[j].reserved <= job[j].reserved \/ job'[j].reserved <= 0
             /\ job'[j].pay = job[j].pay \/ (job[j].reserved <= 0 /\ job'[j].pay > 0)
      PROVE  PaysInv'
  <2>1. Falls
    BY <1>2, <1>8 DEF Falls, JobRow
  <2>2. \A k \in Job : ~Started(k) => PaysJob(k)'
    BY <1>8 DEF PaysJob, Started
  <2> QED
    BY <1>1, <1>4, <2>1, <2>2, CommitPays
<1>9. CASE Update(a)
  <2>1. /\ \A k \in Job \ {j} : job'[k] = job[k]
        /\ job'[j].pay = seen.amount /\ job'[j].reserved = job[j].reserved
    BY <1>2, <1>3, <1>9 DEF Update, JobRow
  <2>2. Fits(seen.amount, j) /\ seen.amount > 0 /\ Started(j)
    BY <1>1, <1>2, <1>3, <1>9 DEF PaysTask, Relative, Update, At
  <2> QED
    BY <1>5, <1>8, <2>1, <2>2 DEF Fits
<1>10. CASE Cancel(a)
  <2>1. /\ \A k \in Job \ {j} : job'[k] = job[k]
        /\ job'[j].pay = job[j].pay /\ job'[j].reserved \in {0, job[j].reserved}
    BY <1>2, <1>3, <1>10 DEF Cancel, JobRow
  <2>2. Started(j)
    BY <1>2, <1>3, <1>10 DEF Relative, Cancel, At
  <2> QED
    BY <1>5, <1>8, <2>1, <2>2
<1>11. CASE Accept(a) \/ AcceptSlot(a)
  <2>1. /\ \A k \in Job \ {j} : job'[k] = job[k]
        /\ job'[j].pay = job[j].pay /\ job'[j].reserved = job[j].reserved
    <3>1. CASE Accept(a)
      BY <1>2, <1>3, <3>1 DEF Accept, JobRow
    <3>2. CASE AcceptSlot(a)
      BY <1>2, <1>3, <3>2 DEF AcceptSlot, JobRow
    <3> QED
      BY <1>11, <3>1, <3>2
  <2>2. Started(j)
    BY <1>2, <1>3, <1>11 DEF Relative, Accept, AcceptSlot, At
  <2> QED
    BY <1>5, <1>8, <2>1, <2>2
<1> QED
  BY <1>6, <1>7, <1>9, <1>10, <1>11

\* The rows that a completion writes.
LEMMA CompleteRows ==
  ASSUME TypeOK, TypeOK', NEW i \in Item, NEW seen \in Seen, NEW review, NEW hold,
         Complete(i, seen, review, hold), Started(i[2]), seen.status # "none"
  PROVE  /\ Falls /\ \A j \in Job : ~Started(j) => ~Started(j)'
         /\ job'[i[2]].pay = job[i[2]].pay
         /\ job'[i[2]].reserved = IF seen.ok THEN job[i[2]].reserved - seen.amount
                                  ELSE job[i[2]].reserved
         /\ \A k \in Item : k # i => Untouched(k)
         /\ app'[i] = "completed" /\ session'[i].status = "completed"
         /\ session'[i].review = review /\ session'[i].dispute = session[i].dispute
         /\ session'[i].pending = IF seen.ok THEN 0 ELSE seen.amount
         /\ session'[i].disbursed = IF seen.ok THEN seen.amount ELSE 0
         /\ payments'[i] = IF seen.ok /\ seen.amount > 0 THEN payments[i] + 1 ELSE payments[i]
<1>1. PICK j \in Job : j = i[2]
  BY DEF Item
<1>2. /\ job \in [Job -> JobRow] /\ session \in [Item -> SessionRow]
      /\ app \in [Item -> AppStatus] /\ payments \in [Item -> Nat]
      /\ job[j].reserved \in Int /\ seen.amount \in Nat /\ seen.ok \in BOOLEAN
  BY DEF TypeOK, JobRow, Seen
<1>3. PICK status, left : /\ status = IF seen.last THEN "completed" ELSE seen.status
                          /\ left = IF seen.ok THEN job[j].reserved - seen.amount
                                    ELSE job[j].reserved
  OBVIOUS
<1>4. job' = [job EXCEPT ![j].status = status, ![j].reserved = left]
  BY <1>1, <1>2, <1>3 DEF Complete, JobRow
<1>5. /\ \A k \in Job \ {j} : job'[k] = job[k]
      /\ job'[j].pay = job[j].pay /\ job'[j].reserved = left
  BY <1>2, <1>4 DEF JobRow
<1>6. left \in Int /\ left <= job[j].reserved
  BY <1>2, <1>3
<1>7. Falls /\ \A k \in Job : ~Started(k) => ~Started(k)'
  <2>1. \A k \in Job : job[k].reserved <= job[k].reserved
    BY <1>2 DEF JobRow
  <2> QED
    BY <1>1, <1>5, <1>6, <2>1 DEF Falls, Started
<1>8. /\ app' = [app EXCEPT ![i] = "completed"]
      /\ \A k \in Item \ {i} : session'[k] = session[k]
      /\ session'[i].status = "completed"
      /\ session'[i].review = review /\ session'[i].dispute = session[i].dispute
      /\ session'[i].pending = IF seen.ok THEN 0 ELSE seen.amount
      /\ session'[i].disbursed = IF seen.ok THEN seen.amount ELSE 0
  BY <1>2 DEF Complete, SessionRow
<1>9. payments' = IF seen.ok /\ seen.amount > 0 THEN [payments EXCEPT ![i] = @ + 1]
                  ELSE payments
  BY DEF Complete, PayOut
<1>10. \A k \in Item : k # i => Untouched(k)
  BY <1>2, <1>8, <1>9 DEF Untouched
<1>11. payments'[i] = IF seen.ok /\ seen.amount > 0 THEN payments[i] + 1 ELSE payments[i]
  BY <1>2, <1>9
<1> QED
  BY <1>1, <1>2, <1>3, <1>5, <1>7, <1>8, <1>10, <1>11

\* The handlers of the worker and the dispute change a session, but pay nothing.
LEMMA WorkPays ==
  ASSUME TypeInv, TypeInv', BookInv, PaysInv, NEW a \in Agent,
         ClockIn(a) \/ ClockOut(a) \/ Dispute(a) \/ (At(a, "confirm", "skip") /\ Confirm(a))
  PROVE  PaysInv'
<1>1. /\ task[a] # Idle /\ Done(a) /\ payments' = payments
      /\ task[a].op \in {"clock_in", "clock_out", "dispute", "confirm"}
  BY DEF ClockIn, ClockOut, Dispute, Confirm, At, money
<1>2. /\ task[a] \in Task /\ PaysTask(a) /\ Relative(a) /\ job \in [Job -> JobRow]
      /\ app \in [Item -> AppStatus] /\ session \in [Item -> SessionRow]
  BY <1>1 DEF TypeInv, TypeOK, PaysInv, BookInv
<1>3. PICK i \in Item, j \in Job : i = ItemOf(a) /\ i[2] = j /\ j = task[a].job
  <2>1. PICK w \in Worker, j \in Job : w = task[a].worker /\ j = task[a].job
    BY <1>1, <1>2 DEF TypeInv, TasksNamed, OnItem, Task
  <2>2. <<w, j>> \in Item /\ ItemOf(a) = <<w, j>> /\ <<w, j>>[2] = j
    BY <2>1 DEF ItemOf, Item
  <2> QED
    BY <2>1, <2>2
<1>4. PaysItem(i) /\ Started(j)
  BY <1>1, <1>2, <1>3 DEF PaysInv, Relative
<1>5. \A k \in Job : job'[k].reserved = job[k].reserved /\ job'[k].pay = job[k].pay
  <2>1. CASE ClockIn(a)
    BY <1>2, <1>3, <2>1 DEF ClockIn, JobRow
  <2>2. CASE ClockOut(a)
    BY <1>2, <1>3, <2>2 DEF ClockOut, JobRow
  <2>3. CASE Dispute(a) \/ (At(a, "confirm", "skip") /\ Confirm(a))
    BY <2>3 DEF Dispute, Confirm, At
  <2> QED
    BY <2>1, <2>2, <2>3
<1>6. Started(j)' /\ \A k \in Job \ {j} : job'[k] = job[k]
  <2>1. CASE ClockIn(a)
    BY <1>2, <1>3, <2>1 DEF ClockIn, JobRow, Started
  <2>2. CASE ClockOut(a)
    BY <1>2, <1>3, <2>2 DEF ClockOut, JobRow, Started
  <2>3. CASE Dispute(a) \/ (At(a, "confirm", "skip") /\ Confirm(a))
    BY <1>4, <2>3 DEF Dispute, Confirm, At, Started
  <2> QED
    BY <2>1, <2>2, <2>3
<1>7. Falls /\ \A k \in Job : ~Started(k) => PaysJob(k)'
  BY <1>2, <1>4, <1>5, <1>6 DEF Falls, PaysJob, Started, JobRow
<1>8. ASSUME NEW k \in Item, k # i PROVE Untouched(k)
  <2>1. session'[k] = session[k] /\ app'[k] = app[k]
    BY <1>2, <1>3, <1>8 DEF ClockIn, ClockOut, Dispute, Confirm, At
  <2> QED
    BY <1>1, <2>1 DEF Untouched
<1>9. ASSUME \A b \in Agent \ {a} : ~Locks(b, i), PaysItem(i)',
             session[i].status # "none" => session'[i].status # "none" /\ (NoPay(i) => NoPay(i)')
      PROVE  PaysInv'
  BY <1>1, <1>7, <1>8, <1>9, CommitPays DEF Handled
<1>10. (\A n : Fits(n, j) => n = 0 \/ n = job'[j].pay \/ job'[j].reserved <= 0)
       /\ (Spent(j) => Spent(j)')
  BY <1>5 DEF Fits, Spent
<1>11. CASE ClockIn(a)
  <2>1. /\ session[i].status = "none" /\ Fits(task[a].seen.amount, j)
        /\ session'[i] = [NoSession EXCEPT !.status = "in_progress",
                                           !.pending = task[a].seen.amount]
        /\ app'[i] = "in_progress"
    BY <1>2, <1>3, <1>11 DEF ClockIn, At, PaysTask
  <2>2. /\ session'[i].status = "in_progress" /\ session'[i].pending = task[a].seen.amount
        /\ session'[i].disbursed = 0 /\ session'[i].dispute = FALSE
        /\ session'[i].review = "auto_review"
    BY <2>1 DEF NoSession
  <2>3. \A b \in Agent \ {a} : ~Locks(b, i)
    BY <2>1 DEF Locks, PaysInv, PaysTask
  <2>4. PaysItem(i)'
    BY <1>1, <1>3, <1>4, <1>10, <2>1, <2>2 DEF PaysItem, Fits
  <2> QED
    BY <1>9, <2>1, <2>3, <2>4
<1>12. CASE ClockOut(a)
  <2>1. /\ session'[i].status = session[i].status /\ session'[i].review = "auto_review"
        /\ session'[i].pending = session[i].pending
        /\ session'[i].disbursed = session[i].disbursed
        /\ session'[i].dispute = session[i].dispute
    BY <1>2, <1>3, <1>12 DEF ClockOut, SessionRow
  <2>2. \A b \in Agent \ {a} : ~Locks(b, i)
    BY <1>3, <1>12 DEF ClockOut, Unlocked, Locks
  <2>3. NoPay(i) => NoPay(i)'
    BY <1>3, <1>10, <2>1 DEF NoPay, Due
  <2>4. PaysItem(i)'
    BY <1>1, <1>3, <1>4, <1>5, <1>10, <2>1, <2>3 DEF PaysItem, Fits
  <2> QED
    BY <1>9, <2>1, <2>2, <2>3, <2>4
<1>13. CASE Dispute(a)
  <2>1. /\ session'[i].status = session[i].status /\ session'[i].review = "disputed"
        /\ session'[i].pending = 0
        /\ session'[i].disbursed = session[i].disbursed
        /\ session'[i].dispute = TRUE /\ app' = app
    BY <1>2, <1>3, <1>13 DEF Dispute, SessionRow
  <2>2. \A b \in Agent \ {a} : ~Locks(b, i)
    BY <1>3, <1>13 DEF Dispute, Unlocked, Locks
  <2>3. session[i].status # "none"
    BY <1>1, <1>2, <1>3, <1>13 DEF Dispute, At, PaysTask
  <2>4. NoPay(i)'
    <3>1. /\ session[i].disbursed \in Nat /\ job[j].reserved \in Int /\ job[j].pay \in Nat
          /\ job[j].pay > 0
      BY <1>2, <1>4 DEF SessionRow, JobRow, PaysInv, PaysJob
    <3>2. Due(i)' = session[i].disbursed
      BY <2>1 DEF Due
    <3>3. session[i].disbursed > 0 => Spent(j)
      BY <1>3, <1>4, <3>1 DEF PaysItem, Spent
    <3> QED
      BY <1>3, <1>10, <3>1, <3>2, <3>3 DEF NoPay
  <2>5. PaysItem(i)'
    BY <1>1, <1>3, <1>4, <1>5, <1>10, <2>1, <2>3, <2>4 DEF PaysItem, Fits
  <2> QED
    BY <1>9, <2>1, <2>2, <2>4, <2>5
<1>14. CASE At(a, "confirm", "skip") /\ Confirm(a)
  <2>1. /\ session'[i].status = session[i].status /\ session'[i].review = "employer_confirmed"
        /\ session'[i].pending = session[i].pending
        /\ session'[i].disbursed = session[i].disbursed
        /\ session'[i].dispute = session[i].dispute /\ app' = app
    BY <1>2, <1>3, <1>14 DEF Confirm, At, SessionRow
  <2>2. Holds(a, i) /\ session[i].status # "none"
    BY <1>1, <1>2, <1>3, <1>14 DEF At, PaysTask, Locks
  <2>3. app[i] # "pending_verification"
    BY <1>14, <2>2 DEF At, Holds
  <2>4. NoPay(i) => NoPay(i)'
    BY <1>3, <1>10, <2>1 DEF NoPay, Due
  <2>5. PaysItem(i)'
    BY <1>1, <1>3, <1>4, <1>5, <1>10, <2>1, <2>2, <2>3, <2>4 DEF PaysItem, Fits
  <2> QED
    BY <1>9, <2>1, <2>2, <2>4, <2>5 DEF Holds
<1> QED
  BY <1>11, <1>12, <1>13, <1>14

\* A completion pays the only pay of the job, once, or nothing.
LEMMA CompletesPay ==
  ASSUME TypeInv, TypeInv', BookInv, PaysInv, NEW a \in Agent, Done(a), task[a] # Idle,
         task[a].stage = "read", task[a].op \in {"confirm", "timeout"},
         NEW review, NEW hold, Complete(ItemOf(a), task[a].seen, review, hold),
         task[a].op = "confirm" => review = "employer_confirmed",
         task[a].op = "timeout" =>
           review = session[ItemOf(a)].review /\ Unlocked(a, ItemOf(a))
  PROVE  PaysInv'
<1>1. /\ task[a] \in Task /\ PaysTask(a) /\ Relative(a) /\ TypeOK /\ TypeOK'
  BY DEF TypeInv, TypeOK, PaysInv, BookInv
<1>2. PICK i \in Item, j \in Job : i = ItemOf(a) /\ i[2] = j /\ j = task[a].job
  BY <1>1 DEF TypeInv, TasksNamed, OnItem, ItemOf, Item, Task
<1>3. PICK seen \in Seen : seen = task[a].seen
  BY <1>1 DEF Task
<1>4. PaysItem(i) /\ PaysJob(j) /\ Started(j) /\ seen.status # "none" /\ session[i].status # "none"
  BY <1>1, <1>2, <1>3 DEF PaysInv, PaysTask, Relative, Completions
<1>5. /\ Falls /\ \A k \in Job : ~Started(k) => ~Started(k)'
      /\ job'[j].pay = job[j].pay
      /\ job'[j].reserved = IF seen.ok THEN job[j].reserved - seen.amount ELSE job[j].reserved
      /\ \A k \in Item : k # i => Untouched(k)
      /\ app'[i] = "completed" /\ session'[i].status = "completed"
      /\ session'[i].review = review /\ session'[i].dispute = session[i].dispute
      /\ session'[i].pending = IF seen.ok THEN 0 ELSE seen.amount
      /\ session'[i].disbursed = IF seen.ok THEN seen.amount ELSE 0
      /\ payments'[i] = IF seen.ok /\ seen.amount > 0 THEN payments[i] + 1 ELSE payments[i]
  <2>1. Complete(i, seen, review, hold)
    BY <1>2, <1>3
  <2> QED
    BY <1>1, <1>2, <1>4, <2>1, CompleteRows
<1>6. /\ seen.amount \in Nat /\ seen.ok \in BOOLEAN /\ payments[i] \in Nat
      /\ job[j].reserved \in Int /\ job[j].pay \in Nat /\ job[j].pay > 0
      /\ job[j].reserved <= job[j].pay /\ session[i].dispute \in BOOLEAN
  BY <1>1, <1>4 DEF TypeOK, Seen, JobRow, SessionRow, PaysJob
<1>7. /\ \A b \in Agent \ {a} : ~Locks(b, i)
      /\ Fits(seen.amount, j) /\ (NoPay(i) => seen.amount = 0 \/ Spent(j))
      /\ seen.ok /\ seen.amount > 0 => payments[i] = 0 /\ ~session[i].dispute
      /\ review = "disputed" => session[i].dispute
  <2>1. CASE task[a].op = "confirm"
    <3>1. Holds(a, i) /\ review = "employer_confirmed"
      BY <1>1, <1>2, <2>1 DEF PaysTask, Locks
    <3>2. seen.amount = Due(i) /\ Fits(Due(i), j)
      BY <1>2, <1>3, <1>4, <3>1 DEF Holds, PaysItem, Due
    <3> QED
      BY <1>2, <1>3, <3>1, <3>2 DEF Holds, NoPay
  <2>2. CASE task[a].op = "timeout"
    <3>1. TimeoutPaysNothing(a) /\ Unlocked(a, i) /\ review = session[i].review
      BY <1>1, <1>2, <2>2 DEF PaysTask
    <3>2. Fits(seen.amount, j) /\ (seen.amount = 0 \/ (Spent(j) /\ ~seen.ok))
      BY <1>2, <1>3, <3>1 DEF TimeoutPaysNothing
    <3>3. \A b \in Agent \ {a} : ~Locks(b, i)
      BY <3>1 DEF Unlocked, Locks
    <3> QED
      BY <1>4, <1>6, <3>1, <3>2, <3>3 DEF PaysItem
  <2> QED
    BY <2>1, <2>2
<1>8. /\ Spent(j) => Spent(j)'
      /\ job[j].reserved <= 0 => job'[j].reserved <= 0
      /\ Fits(seen.amount, j) =>
           seen.amount = 0 \/ seen.amount = job'[j].pay \/ job'[j].reserved <= 0
      /\ seen.ok /\ seen.amount > 0 => job'[j].reserved <= 0
  BY <1>5, <1>6, <1>7 DEF Spent, Fits
<1>9. NoPay(i) => NoPay(i)'
  <2>1. seen.amount = 0 => Due(i)' = 0
    BY <1>5, <1>6 DEF Due
  <2> QED
    BY <1>2, <1>7, <1>8, <2>1 DEF NoPay
<1>10. PaysItem(i)'
  <2>1. payments'[i] <= 1
    BY <1>4, <1>5, <1>6, <1>7 DEF PaysItem
  <2>2. payments'[i] > 0 => job'[j].reserved <= 0
    BY <1>2, <1>4, <1>5, <1>6, <1>8 DEF PaysItem
  <2>3. Fits(session[i].pending, i[2])' /\ Fits(session[i].disbursed, i[2])'
    BY <1>2, <1>5, <1>6, <1>7, <1>8 DEF Fits
  <2>4. session'[i].disbursed > 0 => payments'[i] > 0
    BY <1>5, <1>6
  <2>5. session'[i].dispute => NoPay(i)'
    BY <1>4, <1>5, <1>9 DEF PaysItem
  <2>6. session'[i].review = "disputed" => session'[i].dispute
    BY <1>5, <1>7
  <2> QED
    BY <1>2, <1>5, <2>1, <2>2, <2>3, <2>4, <2>5, <2>6 DEF PaysItem
<1>11. \A k \in Item : Untouched(k) \/ Handled(a, k)
  BY <1>5, <1>7, <1>9, <1>10 DEF Handled
<1>12. \A k \in Job : ~Started(k) => PaysJob(k)'
  BY <1>5 DEF PaysJob
<1> QED
  BY <1>5, <1>11, <1>12, CommitPays

LEMMA PaysStep ==
  ASSUME Slots = {1}, Ops \intersect {"auto_release", "publish"} = {},
         TypeInv, TypeInv', BookInv, PaysInv, [Next]_vars
  PROVE  PaysInv'
<1>1. CASE UNCHANGED task /\ UNCHANGED <<job, app, payments>>
             /\ \A i \in Item : /\ session'[i].status = session[i].status
                                /\ session'[i].review = session[i].review
                                /\ session'[i].pending = session[i].pending
                                /\ session'[i].disbursed = session[i].disbursed
                                /\ session'[i].dispute = session[i].dispute
  <2>1. Falls
    BY <1>1 DEF Falls, TypeInv, TypeOK, JobRow
  <2>2. \A i \in Item : Untouched(i)
    BY <1>1 DEF Untouched
  <2>3. \A i \in Item : PaysItem(i)' /\ (session[i].status # "none" /\ NoPay(i) => NoPay(i)')
    BY <2>1, <2>2, ItemStays DEF TypeInv
  <2>4. \A j \in Job : PaysJob(j)'
    BY <1>1 DEF PaysInv, PaysJob, Started
  <2>5. ASSUME NEW b \in Agent PROVE PaysTask(b)'
    <3>1. \A i \in Item : Locks(b, i) => \A c \in Agent \ {b} : ~Locks(c, i)'
      BY <1>1 DEF PaysInv, PaysTask, Holds, Locks, ItemOf
    <3> QED
      BY <1>1, <2>1, <2>2, <2>3, <3>1, TaskStays DEF TypeInv
  <2> QED
    BY <2>3, <2>4, <2>5 DEF PaysInv
<1>2. CASE UNCHANGED vars
  BY <1>1, <1>2 DEF vars, money
<1>3. CASE SetPaused \/ HoldEnds \/ CutoffPasses
  <2>1. UNCHANGED <<job, app, payments, task>>
    BY <1>3 DEF SetPaused, HoldEnds, CutoffPasses, money
  <2>2. \A i \in Item : /\ session'[i].status = session[i].status
                        /\ session'[i].review = session[i].review
                        /\ session'[i].pending = session[i].pending
                        /\ session'[i].disbursed = session[i].disbursed
                        /\ session'[i].dispute = session[i].dispute
    BY <1>3 DEF SetPaused, HoldEnds, CutoffPasses, TypeInv, TypeOK, SessionRow
  <2> QED
    BY <1>1, <2>1, <2>2
<1>4. ASSUME NEW a \in Agent, Confirm(a) \/ AutoRelease(a) \/ Timeout(a) PROVE PaysInv'
  <2>1. task[a] # Idle /\ task[a].op \in Ops
    BY <1>4 DEF Confirm, AutoRelease, Timeout, At, BookInv, Relative
  <2>2. CASE Confirm(a)
    <3>1. CASE At(a, "confirm", "skip")
      BY <2>2, <3>1, WorkPays
    <3>2. CASE ~At(a, "confirm", "skip")
      <4>1. /\ At(a, "confirm", "read") /\ Done(a)
            /\ Complete(ItemOf(a), task[a].seen, "employer_confirmed", "none")
        BY <2>2, <3>2 DEF Confirm
      <4> QED
        BY <2>1, <4>1, CompletesPay DEF At
    <3> QED
      BY <3>1, <3>2
  <2>3. CASE Timeout(a)
    <3>1. CASE At(a, "timeout", "skip")
      <4>1. Done(a) /\ UNCHANGED <<money, paused, job, app, session>>
        BY <2>3, <3>1 DEF Timeout, At
      <4>2. Falls /\ \A j \in Job : ~Started(j) => PaysJob(j)'
        BY <4>1 DEF Falls, PaysJob, Started, TypeInv, TypeOK, JobRow
      <4>3. \A i \in Item : Untouched(i)
        BY <4>1 DEF Untouched, money
      <4> QED
        BY <4>1, <4>2, <4>3, CommitPays
    <3>2. CASE ~At(a, "timeout", "skip")
      <4>1. /\ At(a, "timeout", "read") /\ Done(a) /\ Unlocked(a, ItemOf(a))
            /\ Complete(ItemOf(a), task[a].seen, session[ItemOf(a)].review,
                        session[ItemOf(a)].hold)
        BY <2>3, <3>2 DEF Timeout
      <4> QED
        BY <2>1, <4>1, CompletesPay DEF At
    <3> QED
      BY <3>1, <3>2
  <2>4. CASE AutoRelease(a)
    BY <2>1, <2>4 DEF AutoRelease
  <2> QED
    BY <1>4, <2>2, <2>3, <2>4
<1>5. ASSUME NEW a \in Agent, Publish(a) \/ MarkReleased(a) PROVE FALSE
  BY <1>5 DEF Publish, MarkReleased, At, BookInv, Relative
<1>6. ASSUME NEW a \in Agent, Hire(a) PROVE PaysInv'
  BY <1>5, <1>6, StartsPay, ReadsPay, MovesPay DEF Hire
<1>7. ASSUME NEW a \in Agent, Labour(a) PROVE PaysInv'
  BY <1>7, StartsPay, MovesPay, WorkPays DEF Labour
<1>8. ASSUME NEW a \in Agent, Review(a) PROVE PaysInv'
  BY <1>4, <1>5, <1>8, StartsPay, ReadsPay, WorkPays DEF Review
<1>9. ASSUME NEW a \in Agent, Abort(a) PROVE PaysInv'
  BY <1>9, MovesPay
<1> QED
  BY <1>2, <1>3, <1>6, <1>7, <1>8, <1>9 DEF Next

LEMMA PaysStart == Init => TypeInv /\ BookInv /\ PaysInv
<1>1. Init => BookInv
  <2>1. Init => MoneyInv
    BY MoneyStart
  <2> QED
    BY <2>1 DEF Init, BookInv, MoneyInv, Empty, OfJobs, Relative, NoSession
<1>2. ASSUME Init PROVE PaysInv
  <2>1. \A j \in Job : PaysJob(j)
    BY <1>2 DEF Init, PaysJob, Started
  <2>2. \A i \in Item : PaysItem(i)
    BY <1>2 DEF Init, PaysItem, NoSession, Fits
  <2>3. \A a \in Agent : PaysTask(a)
    BY <1>2 DEF Init, PaysTask
  <2> QED
    BY <2>1, <2>2, <2>3 DEF PaysInv
<1> QED
  BY <1>1, <1>2, TypeStart

\* However many handlers overlap - two confirms that both passed their check, runs of the
\* timeout cron, clock-outs and disputes that commit after a completion - an application to
\* a job of one slot is paid at most once (job-completion.service.ts:159 reads it without a
\* lock, employer-work-sessions.service.ts writes the session first).  The auto-release
\* cron reads before it takes a lock and is excluded: run je_paid_twice shows it pay twice.
THEOREM PaidOnceInParallel ==
  ASSUME Slots = {1}, Ops \intersect {"auto_release", "publish"} = {}
  PROVE  Spec => []PaidOnce
<1>1. TypeInv /\ TypeInv' /\ BookInv /\ PaysInv /\ [Next]_vars => BookInv' /\ PaysInv'
  BY BookStep, PaysStep
<1>2. PaysInv => PaidOnce
  BY DEF PaysInv, PaysItem, PaidOnce
<1> QED
  BY <1>1, <1>2, PaysStart, TypeStep, PTL DEF Spec

\* Only a completion pays.
LEMMA OnlyCompletesPay ==
  ASSUME [Next]_vars, payments' # payments
  PROVE  \E a \in Agent : Confirm(a) \/ AutoRelease(a) \/ Timeout(a)
<1> USE DEF money
<1>1. PICK a \in Agent : Hire(a) \/ Labour(a) \/ Review(a)
  <2>1. Next
    BY DEF vars
  <2>2. ~ (SetPaused \/ HoldEnds \/ CutoffPasses) /\ \A a \in Agent : ~ Abort(a)
    BY DEF SetPaused, HoldEnds, CutoffPasses, Abort
  <2> QED
    BY <2>1, <2>2 DEF Next
<1>2. ~ Hire(a)
  BY DEF Hire, StartCreate, ReadCreate, Create, StartUpdate, Update, StartPublish, ReadPublish,
         Publish, StartCancel, ReadCancel, Cancel, StartAccept, Accept, StartAcceptSlot,
         ReadAcceptSlot, AcceptSlot, StartReject, Reject, Start, Look
<1>3. ~ Labour(a)
  BY DEF Labour, StartApply, Apply, StartWithdraw, Withdraw, StartClockIn, ClockIn,
         StartClockOut, ClockOut, Start
<1> QED
  BY <1>1, <1>2, <1>3
  DEF Review, StartConfirm, LockSession, ReadConfirm, StartDispute, Dispute, StartAutoRelease,
      ReadAutoRelease, MarkReleased, StartTimeout, ReadTimeout, ReadCompletion, Start, Look

\* However many handlers overlap, nobody is paid for work under dispute: the dispute takes
\* the pay out of the session (employer-work-sessions.service.ts:359) and waits for the
\* lock of a confirm that is already paying.
THEOREM DisputesBlockPayInParallel ==
  ASSUME Slots = {1}, Ops \intersect {"auto_release", "publish"} = {}
  PROVE  Spec => DisputeBlocksPay
<1>1. TypeInv /\ TypeInv' /\ BookInv /\ PaysInv /\ [Next]_vars => BookInv' /\ PaysInv'
  BY BookStep, PaysStep
<1>2. ASSUME TypeInv, TypeInv', BookInv, PaysInv, [Next]_vars, NEW i \in Item, session[i].dispute
      PROVE  payments'[i] = payments[i]
  <2> SUFFICES ASSUME payments' # payments PROVE payments'[i] = payments[i]
    OBVIOUS
  <2>1. PICK a \in Agent : Confirm(a) \/ AutoRelease(a) \/ Timeout(a)
    BY <1>2, OnlyCompletesPay
  <2>2. task[a] # Idle /\ task[a].op \in Ops \intersect {"confirm", "timeout"} /\ task[a] \in Task
    BY <1>2, <2>1 DEF Confirm, AutoRelease, Timeout, At, BookInv, Relative, TypeInv, TypeOK
  <2>3. PICK seen \in Seen : seen = task[a].seen
    BY <2>2 DEF Task
  <2>4. task[a].stage = "read" /\ PayOut(ItemOf(a), seen) /\ PaysTask(a)
    BY <1>2, <2>1, <2>2, <2>3
    DEF Confirm, AutoRelease, Timeout, At, Complete, PaysInv, money
  <2>5. payments' = IF seen.ok /\ seen.amount > 0
                    THEN [payments EXCEPT ![ItemOf(a)] = @ + 1] ELSE payments
    BY <2>4 DEF PayOut
  <2>6. ItemOf(a) = i => ~ (seen.ok /\ seen.amount > 0)
    <3>1. CASE task[a].op = "confirm"
      BY <1>2, <2>2, <2>3, <2>4, <3>1 DEF PaysTask, Locks, Holds
    <3>2. CASE task[a].op = "timeout"
      BY <2>2, <2>3, <2>4, <3>2 DEF PaysTask, TimeoutPaysNothing
    <3> QED
      BY <2>2, <3>1, <3>2
  <2> QED
    BY <1>2, <2>5, <2>6 DEF TypeInv, TypeOK
<1>3. TypeInv /\ TypeInv' /\ BookInv /\ PaysInv /\ [Next]_vars
        => [\A i \in Item : session[i].dispute => payments'[i] = payments[i]]_vars
  BY <1>2
<1> QED
  BY <1>1, <1>3, PaysStart, TypeStep, PTL DEF Spec, DisputeBlocksPay
-----------------------------------------------------------------------------
(***************************************************************************)
(* The reserve of a job of one slot, one handler at a time: from its       *)
(* publication until its worker is paid it is the pay of the job, and it   *)
(* is empty before and after, unless the payment is withheld.              *)
(***************************************************************************)
Going == {"open", "accepted", "in_progress", "pending_verification"}

\* Work that is over was paid from the reserve, or its pay is withheld in it.
Resolved(w, j) ==
    \/ payments[<<w, j>>] = 1 /\ job[j].reserved = 0
    \/ /\ payments[<<w, j>>] = 0 /\ job[j].reserved = job[j].pay
       /\ <<w, j>> \in arrears \/ session[<<w, j>>].dispute

\* Work that is not over is worth the pay of the job, or nothing in a dispute.
Promised(w, j) ==
    \/ session[<<w, j>>].pending = job[j].pay
    \/ session[<<w, j>>].pending = 0 /\ session[<<w, j>>].dispute

Escrowed(j) ==
    /\ job[j].status # "none" => job[j].pay > 0
    /\ job[j].status \in {"none", "draft", "cancelled"} => job[j].reserved = 0
    /\ job[j].status \in Going => job[j].reserved = job[j].pay
    /\ \A w \in Worker :
         /\ app[<<w, j>>] = "completed" => Resolved(w, j)
         /\ session[<<w, j>>].status = "in_progress" => Promised(w, j)

\* What a task has seen of the pay is still so.
SawPay(a) ==
    LET row == job[task[a].job]
        seen == task[a].seen
    IN  task[a] # Idle =>
          /\ task[a].op = "create" => seen.amount > 0
          /\ task[a].op = "update" =>
               /\ seen.amount > 0 /\ row.status \in {"draft", "open"}
               /\ row.status = "open" => seen.amount = row.pay
          /\ task[a].op \in {"publish", "clock_in"} => seen.amount = row.pay
          /\ task[a].op \in Completions /\ task[a].stage = "read"
               => seen.amount = Due(ItemOf(a))

EscrowInv == (\A j \in Job : Escrowed(j)) /\ \A a \in Agent : SawPay(a)

\* A job of one slot and each of its workers go together.
LEMMA OneWorker ==
  ASSUME SerialInv, JobInv, ~OffFeed, Slots = {1}, NEW w \in Worker, NEW j \in Job
  PROVE  /\ <<w, j>> \in Item
         /\ job[j].status # "none" => job[j].slots = 1
         /\ app[<<w, j>>] = "applied" => job[j].status = "open"
         /\ app[<<w, j>>] = "accepted" => job[j].status = "accepted"
         /\ app[<<w, j>>] \in AtWork => job[j].status \in {"in_progress", "pending_verification"}
         /\ app[<<w, j>>] = "completed" => job[j].status = "completed"
         /\ session[<<w, j>>].status = "in_progress" => app[<<w, j>>] \in AtWork
         /\ w \in Hired(j) => \A v \in Hired(j) : v = w
<1>1. <<w, j>> \in Item
  BY DEF Item
<1>2. Unborn(j) /\ OneSlot(j) /\ (job[j].status # "none" => job[j].slots = 1)
  BY DEF JobInv, JobOk
<1>3. Matching(<<w, j>>)
  BY <1>1 DEF SerialInv
<1>4. CASE job[j].status = "none"
  BY <1>1, <1>2, <1>3, <1>4 DEF Unborn, Hired, InFlight, AtWork, Matching
<1>5. CASE job[j].status # "none"
  BY <1>1, <1>2, <1>3, <1>5 DEF OneSlot, Matching
<1> QED
  BY <1>4, <1>5

\* What a step may do to the work of an application without settling it.
KeepsPay(w, j) ==
    /\ app'[<<w, j>>] = "completed" => app[<<w, j>>] = "completed"
    /\ payments'[<<w, j>>] = payments[<<w, j>>]
    /\ <<w, j>> \in arrears => <<w, j>> \in arrears'
    /\ session[<<w, j>>].dispute => session'[<<w, j>>].dispute
    /\ session'[<<w, j>>].status = "in_progress" =>
         /\ session[<<w, j>>].status = "in_progress"
         /\ \/ session'[<<w, j>>].pending = session[<<w, j>>].pending
            \/ session'[<<w, j>>].pending = 0 /\ session'[<<w, j>>].dispute

LEMMA EscrowKept ==
  ASSUME NEW j \in Job, Escrowed(j), \A w \in Worker : KeepsPay(w, j),
         job'[j].status = job[j].status \/ {job[j].status, job'[j].status} \subseteq Going,
         job'[j].pay = job[j].pay, job'[j].reserved = job[j].reserved
  PROVE  Escrowed(j)'
<1>1. /\ job'[j].status # "none" => job'[j].pay > 0
      /\ job'[j].status \in {"none", "draft", "cancelled"} => job'[j].reserved = 0
      /\ job'[j].status \in Going => job'[j].reserved = job'[j].pay
  BY DEF Escrowed, Going
<1>2. ASSUME NEW w \in Worker, app'[<<w, j>>] = "completed" PROVE Resolved(w, j)'
  <2>1. KeepsPay(w, j) /\ Resolved(w, j)
    BY <1>2 DEF KeepsPay, Escrowed
  <2> QED
    BY <2>1 DEF KeepsPay, Resolved
<1>3. ASSUME NEW w \in Worker, session'[<<w, j>>].status = "in_progress"
      PROVE  Promised(w, j)'
  <2>1. KeepsPay(w, j) /\ Promised(w, j)
    BY <1>3 DEF KeepsPay, Escrowed
  <2> QED
    BY <1>3, <2>1 DEF KeepsPay, Promised
<1> QED
  BY <1>1, <1>2, <1>3 DEF Escrowed

\* A job whose work has not begun may change its pay and its reserve.
LEMMA EscrowSet ==
  ASSUME SerialInv, JobInv, ~OffFeed, Slots = {1}, NEW j \in Job,
         \A w \in Worker : KeepsPay(w, j),
         job[j].status \in {"none", "draft", "open", "accepted"},
         job'[j].status # "none" => job'[j].pay > 0,
         job'[j].status \in {"none", "draft", "cancelled"} => job'[j].reserved = 0,
         job'[j].status \in Going => job'[j].reserved = job'[j].pay
  PROVE  Escrowed(j)'
<1>1. ASSUME NEW w \in Worker
      PROVE  app[<<w, j>>] # "completed" /\ session[<<w, j>>].status # "in_progress"
  BY OneWorker DEF AtWork
<1>2. ASSUME NEW w \in Worker
      PROVE  app'[<<w, j>>] # "completed" /\ session'[<<w, j>>].status # "in_progress"
  BY <1>1 DEF KeepsPay
<1> QED
  BY <1>2 DEF Escrowed

\* A commit that leaves the sessions and the payments leaves the work.
LEMMA WorkKept ==
  ASSUME SerialInv, SerialInv', UNCHANGED <<session, payments, arrears>>
  PROVE  \A w \in Worker, j \in Job : KeepsPay(w, j)
<1>1. ASSUME NEW w \in Worker, NEW j \in Job PROVE KeepsPay(w, j)
  <2>1. <<w, j>> \in Item
    BY DEF Item
  <2>2. Matching(<<w, j>>) /\ Matching(<<w, j>>)'
    BY <2>1 DEF SerialInv
  <2> QED
    BY <2>2 DEF Matching, KeepsPay
<1> QED
  BY <1>1

\* So does a step that leaves what the sessions have to pay.
LEMMA SessionsKeepPay ==
  ASSUME SerialInv, SerialInv', UNCHANGED <<payments, arrears>>,
         \A i \in Item : SameMoney(i)
  PROVE  \A w \in Worker, j \in Job : KeepsPay(w, j)
<1>1. ASSUME NEW w \in Worker, NEW j \in Job PROVE KeepsPay(w, j)
  <2>1. <<w, j>> \in Item
    BY DEF Item
  <2>2. Matching(<<w, j>>) /\ Matching(<<w, j>>)' /\ SameMoney(<<w, j>>)
    BY <2>1 DEF SerialInv
  <2> QED
    BY <2>2 DEF Matching, KeepsPay, SameMoney
<1> QED
  BY <1>1

LEMMA NoneSawPay ==
  ASSUME \A b \in Agent : task'[b] = Idle \/ (task'[b].stage # "read"
                                              /\ task'[b].op \in Completions)
  PROVE  \A b \in Agent : SawPay(b)'
  BY DEF SawPay, Completions

\* A task that starts has seen the pay.
LEMMA StartSees ==
  ASSUME Serial, SerialInv, EscrowInv, NEW a \in Agent, NEW op, NEW w, NEW j \in Job, NEW seen,
         Start(a, op, w, j, seen),
         op = "create" => seen.amount > 0,
         op = "update" => /\ seen.amount > 0 /\ job[j].status \in {"draft", "open"}
                          /\ job[j].status = "open" => seen.amount = job[j].pay,
         op \in {"publish", "clock_in"} => seen.amount = job[j].pay
  PROVE  EscrowInv'
<1>1. /\ task'[a] = [op |-> op, stage |-> "asked", worker |-> w, job |-> j, seen |-> seen]
      /\ UNCHANGED <<money, job, app, session>>
  BY DEF Start, SerialInv, TypeInv, TypeOK
<1>2. SawPay(a)'
  BY <1>1 DEF SawPay
<1>3. \A k \in Job : Escrowed(k)'
  BY <1>1 DEF EscrowInv, Escrowed, Resolved, Promised, money
<1> QED
  BY <1>2, <1>3 DEF EscrowInv, Serial

LEMMA StartPays ==
  ASSUME Serial, ~OffFeed, Slots = {1}, SerialInv, JobInv, EscrowInv, NEW a \in Agent,
         StartCreate(a) \/ StartUpdate(a) \/ StartPublish(a) \/ StartCancel(a)
           \/ StartAccept(a) \/ StartAcceptSlot(a) \/ StartReject(a)
           \/ StartApply(a) \/ StartWithdraw(a) \/ StartClockIn(a) \/ StartClockOut(a)
           \/ StartConfirm(a) \/ StartDispute(a) \/ StartAutoRelease(a) \/ StartTimeout(a)
  PROVE  EscrowInv'
<1>0. job \in [Job -> JobRow]
  BY DEF SerialInv, TypeInv, TypeOK
<1>1. CASE StartCreate(a)
  <2>1. PICK j \in Job, pay \in Pay, slots \in Slots, now \in BOOLEAN :
           Start(a, "create", Nobody, j,
                 [Blank EXCEPT !.amount = pay, !.count = slots, !.ok = now])
    BY <1>1 DEF StartCreate
  <2>2. PICK seen : seen = [Blank EXCEPT !.amount = pay, !.count = slots, !.ok = now]
    OBVIOUS
  <2>3. pay > 0
    BY PayAssumption
  <2>4. Start(a, "create", Nobody, j, seen) /\ seen.amount > 0
    BY <2>1, <2>2, <2>3 DEF Blank
  <2> QED
    BY <2>4, StartSees
<1>2. CASE StartUpdate(a)
  <2>1. PICK j \in Job, pay \in Pay :
           /\ job[j].status \in {"draft", "open"}
           /\ pay # job[j].pay => job[j].reserved <= 0
           /\ Start(a, "update", Nobody, j, [Blank EXCEPT !.amount = pay])
    BY <1>2 DEF StartUpdate
  <2>2. PICK seen : seen = [Blank EXCEPT !.amount = pay]
    OBVIOUS
  <2>3. pay > 0 /\ seen.amount = pay
    BY <2>2, PayAssumption DEF Blank
  <2>4. job[j].status = "open" => pay = job[j].pay
    <3>1. job[j].status = "open" => job[j].reserved = job[j].pay /\ job[j].pay > 0
      BY DEF EscrowInv, Escrowed, Going
    <3>2. job[j].pay \in Int
      BY <1>0 DEF JobRow
    <3> QED
      BY <2>1, <3>1, <3>2
  <2> QED
    BY <2>1, <2>2, <2>3, <2>4, StartSees
<1>3. CASE StartPublish(a)
  <2>1. PICK j \in Job :
           /\ job[j].status = "draft"
           /\ Start(a, "publish", Nobody, j, [Blank EXCEPT !.amount = job[j].pay * job[j].slots])
    BY <1>3 DEF StartPublish
  <2>2. job[j].slots = 1 /\ job[j].pay \in Int
    BY <1>0, <2>1 DEF JobInv, JobOk, JobRow
  <2>3. job[j].pay * job[j].slots = job[j].pay
    BY <2>2
  <2>4. PICK seen : seen = [Blank EXCEPT !.amount = job[j].pay]
    OBVIOUS
  <2>5. Start(a, "publish", Nobody, j, seen) /\ seen.amount = job[j].pay
    BY <2>1, <2>3, <2>4 DEF Blank
  <2> QED
    BY <2>5, StartSees
<1>4. CASE StartClockIn(a)
  <2>1. PICK w \in Worker, j \in Job :
           Start(a, "clock_in", w, j, [Blank EXCEPT !.amount = job[j].pay])
    BY <1>4 DEF StartClockIn
  <2>2. PICK seen : seen = [Blank EXCEPT !.amount = job[j].pay]
    OBVIOUS
  <2>3. Start(a, "clock_in", w, j, seen) /\ seen.amount = job[j].pay
    BY <2>1, <2>2 DEF Blank
  <2> QED
    BY <2>3, StartSees
<1>5. CASE StartCancel(a) \/ StartAccept(a) \/ StartReject(a) \/ StartApply(a)
             \/ StartWithdraw(a)
  BY <1>5, StartSees DEF StartCancel, StartAccept, StartReject, StartApply, StartWithdraw
<1>6. CASE StartAcceptSlot(a)
  <2>1. \E w \in Worker, j \in Job : \E seen : Start(a, "accept_slot", w, j, seen)
    BY <1>6 DEF StartAcceptSlot
  <2> QED
    BY <2>1, StartSees
<1>7. CASE StartClockOut(a) \/ StartConfirm(a) \/ StartDispute(a)
  BY <1>7, StartSees DEF StartClockOut, StartConfirm, StartDispute
<1>8. CASE StartAutoRelease(a) \/ StartTimeout(a)
  BY <1>8, StartSees DEF StartAutoRelease, StartTimeout
<1> QED
  BY <1>1, <1>2, <1>3, <1>4, <1>5, <1>6, <1>7, <1>8

\* A completion that reads sees what is due.
LEMMA LookPays ==
  ASSUME Serial, SerialInv, EscrowInv, NEW a \in Agent,
         ReadCreate(a) \/ ReadPublish(a) \/ ReadCancel(a) \/ ReadAcceptSlot(a)
           \/ LockSession(a) \/ ReadConfirm(a) \/ ReadAutoRelease(a) \/ ReadTimeout(a)
  PROVE  EscrowInv'
<1> USE DEF money
<1>1. PICK stage, seen :
        /\ Look(a, stage, seen) /\ task[a] # Idle
        /\ task[a].op \in {"create", "publish"} => seen = task[a].seen
        /\ task[a].op \notin {"update", "clock_in"}
        /\ task[a].op \in Completions /\ stage = "read" => seen.amount = Due(ItemOf(a))
  <2>1. CASE ReadCreate(a) \/ ReadPublish(a) \/ ReadAcceptSlot(a) \/ LockSession(a)
               \/ ReadCancel(a)
    BY <2>1 DEF ReadCreate, ReadPublish, ReadAcceptSlot, LockSession, ReadCancel, At,
                Completions
  <2>2. CASE ReadConfirm(a) \/ ReadAutoRelease(a) \/ ReadTimeout(a)
    <3>1. task[a] # Idle /\ task[a].op \in Completions /\ ReadCompletion(a, ItemOf(a))
      BY <2>2 DEF ReadConfirm, ReadAutoRelease, ReadTimeout, At, Completions
    <3>2. CASE app[ItemOf(a)] = "completed"
      BY <3>1, <3>2 DEF ReadCompletion, Completions
    <3>3. CASE app[ItemOf(a)] # "completed"
      <4>1. Look(a, "read", [amount |-> Due(ItemOf(a)), count |-> 0,
                             status |-> job[ItemOf(a)[2]].status,
                             last |-> LastWorker(ItemOf(a)), ok |-> Funded(ItemOf(a))])
        BY <3>1, <3>3 DEF ReadCompletion
      <4>2. PICK seen : Look(a, "read", seen) /\ seen.amount = Due(ItemOf(a))
        BY <4>1
      <4> QED
        BY <3>1, <4>2 DEF Completions
    <3> QED
      BY <3>2, <3>3
  <2> QED
    BY <2>1, <2>2
<1>2. /\ UNCHANGED <<job, app, session, payments, arrears>>
      /\ task'[a] # Idle => /\ task'[a].op = task[a].op /\ task'[a].job = task[a].job
                            /\ task'[a].worker = task[a].worker
                            /\ task'[a].stage = stage /\ task'[a].seen = seen
  BY <1>1, LooksSame
<1>3. SawPay(a)'
  <2> SUFFICES ASSUME task'[a] # Idle PROVE SawPay(a)'
    BY DEF SawPay
  <2>1. /\ task'[a].op = task[a].op /\ task'[a].job = task[a].job
        /\ task'[a].stage = stage /\ task'[a].seen = seen /\ job' = job
        /\ ItemOf(a)' = ItemOf(a) /\ Due(ItemOf(a))' = Due(ItemOf(a)) /\ SawPay(a)
    BY <1>2 DEF ItemOf, Due, EscrowInv
  <2> QED
    BY <1>1, <2>1 DEF SawPay, Completions
<1>4. \A k \in Job : Escrowed(k)'
  BY <1>2 DEF EscrowInv, Escrowed, Resolved, Promised
<1> QED
  BY <1>3, <1>4 DEF EscrowInv, Serial

\* The employer's commits about a job.
LEMMA HirePays ==
  ASSUME Serial, ~OffFeed, Slots = {1}, SerialInv, SerialInv', JobInv, MoneyInv, EscrowInv,
         NEW a \in Agent,
         Create(a) \/ Update(a) \/ Publish(a) \/ Cancel(a) \/ Accept(a) \/ AcceptSlot(a)
  PROVE  EscrowInv'
<1> USE DEF money
<1>j. PICK j \in Job : j = task[a].job
  BY DEF Create, Update, Publish, Cancel, Accept, AcceptSlot, At, Task, SerialInv, TypeInv,
         TypeOK
<1>0. /\ task[a] # Idle /\ task[a] \in Task /\ Knows(a) /\ SawPay(a) /\ SawReserve(a)
      /\ Fresh(a) /\ job \in [Job -> JobRow] /\ job[j] \in JobRow
  BY <1>j DEF Create, Update, Publish, Cancel, Accept, AcceptSlot, At, Task, JobInv, MoneyInv,
              EscrowInv, SerialInv, TypeInv, TypeOK
<1>1. PICK seen \in Seen : seen = task[a].seen
  BY <1>0 DEF Task
<1>2. seen.amount \in Nat /\ seen.ok \in BOOLEAN /\ job[j].reserved \in Int /\ job[j].pay \in Nat
  BY <1>0 DEF Seen, JobRow
<1>3. UNCHANGED <<session, payments, arrears>>
  BY DEF Create, Update, Publish, Cancel, Accept, AcceptSlot
<1>4. \A w \in Worker, k \in Job : KeepsPay(w, k)
  BY <1>3, WorkKept
<1>5. \A b \in Agent : task'[b] = Idle
  BY CommitEnds
<1>6. \A b \in Agent : SawPay(b)'
  BY <1>5, NoneSawPay
<1>7. \A k \in Job \ {j} : job'[k] = job[k]
  BY <1>j, <1>0 DEF Create, Update, Publish, Cancel, Accept, AcceptSlot
<1>8. \A k \in Job \ {j} : Escrowed(k)'
  BY <1>4, <1>7, EscrowKept DEF EscrowInv
<1>9. Escrowed(j)
  BY DEF EscrowInv
<1>10. Escrowed(j)'
  <2>1. CASE Create(a)
    <3>1. /\ job[j].status = "none" /\ seen.count \in Slots /\ seen.amount > 0
          /\ job'[j].status = IF seen.ok THEN "open" ELSE "draft"
          /\ job'[j].pay = seen.amount
          /\ job'[j].reserved = IF seen.ok THEN seen.amount * seen.count ELSE 0
      BY <1>j, <1>0, <1>1, <2>1 DEF Create, At, Knows, SawPay
    <3>2. seen.count = 1 /\ seen.amount * seen.count = seen.amount
      BY <1>2, <3>1
    <3>3. job'[j].reserved = IF seen.ok THEN seen.amount ELSE 0
      BY <3>1, <3>2
    <3> QED
      BY <1>4, <3>1, <3>3, EscrowSet DEF Going
  <2>2. CASE Update(a)
    <3>1. /\ job[j].status \in {"draft", "open"} /\ seen.amount > 0
          /\ job[j].status = "open" => seen.amount = job[j].pay
          /\ job'[j].status = job[j].status /\ job'[j].pay = seen.amount
          /\ job'[j].reserved = job[j].reserved
      BY <1>j, <1>0, <1>1, <2>2 DEF Update, At, SawPay, JobRow
    <3>2. CASE job[j].status = "open"
      BY <1>4, <1>9, <3>1, <3>2, EscrowKept
    <3>3. CASE job[j].status = "draft"
      <4>1. job'[j].reserved = 0
        BY <1>9, <3>1, <3>3 DEF Escrowed
      <4> QED
        BY <1>4, <3>1, <3>3, <4>1, EscrowSet DEF Going
    <3> QED
      BY <3>1, <3>2, <3>3
  <2>3. CASE Publish(a)
    <3>1. /\ job[j].status = "draft" /\ seen.amount = job[j].pay
          /\ job'[j].status = "open" /\ job'[j].pay = job[j].pay
          /\ job'[j].reserved = seen.amount
      BY <1>j, <1>0, <1>1, <2>3 DEF Publish, At, Knows, SawPay, JobRow
    <3>2. job[j].pay > 0
      BY <1>9, <3>1 DEF Escrowed
    <3> QED
      BY <1>4, <3>1, <3>2, EscrowSet
  <2>4. CASE Cancel(a)
    <3>1. /\ job[j].status \in Cancellable
          /\ seen.amount = IF job[j].reserved > 0 THEN job[j].reserved ELSE 0
          /\ job'[j].status = "cancelled" /\ job'[j].pay = job[j].pay
          /\ job'[j].reserved = IF seen.amount > 0 THEN 0 ELSE job[j].reserved
      BY <1>j, <1>0, <1>1, <2>4 DEF Cancel, At, Knows, SawReserve, JobRow
    <3>2. job[j].pay > 0 /\ (job[j].reserved = 0 \/ job[j].reserved = job[j].pay)
      BY <1>9, <3>1 DEF Escrowed, Cancellable, Going
    <3>3. job'[j].reserved = 0
      BY <1>2, <3>1, <3>2
    <3> QED
      BY <1>4, <3>1, <3>2, <3>3, EscrowSet DEF Cancellable, Going
  <2>5. CASE Accept(a)
    <3>1. task[a].op \in OnItem /\ task[a].op = "accept"
      BY <2>5 DEF Accept, At, OnItem
    <3>2. PICK w \in Worker : ItemOf(a) = <<w, j>>
      BY <1>j, <1>0, <3>1, TaskPair
    <3>3. app[<<w, j>>] = "applied"
      BY <1>0, <3>1, <3>2 DEF Fresh
    <3>4. job[j].status = "open"
      BY <3>3, OneWorker
    <3>5. /\ job'[j].status = "accepted" /\ job'[j].pay = job[j].pay
          /\ job'[j].reserved = job[j].reserved
      BY <1>j, <1>0, <2>5 DEF Accept, JobRow
    <3>6. {job[j].status, job'[j].status} \subseteq Going
      BY <3>4, <3>5 DEF Going
    <3> QED
      BY <1>4, <1>9, <3>5, <3>6, EscrowKept
  <2>6. CASE AcceptSlot(a)
    <3>1. job[j].slots > 1 /\ task[a].op \in OnItem /\ task[a].op = "accept_slot"
      BY <1>j, <1>0, <2>6 DEF AcceptSlot, At, Knows, OnItem
    <3>2. PICK w \in Worker : ItemOf(a) = <<w, j>>
      BY <1>j, <1>0, <3>1, TaskPair
    <3>3. app[<<w, j>>] = "applied"
      BY <1>0, <3>1, <3>2 DEF Fresh
    <3>4. job[j].slots = 1
      BY <3>3, OneWorker
    <3> QED
      BY <3>1, <3>4
  <2> QED
    BY <2>1, <2>2, <2>3, <2>4, <2>5, <2>6
<1> QED
  BY <1>6, <1>8, <1>10 DEF EscrowInv

\* The clock: work that starts is promised the pay that was read.
LEMMA ClockPays ==
  ASSUME Serial, ~OffFeed, Slots = {1}, SerialInv, SerialInv', JobInv, EscrowInv,
         NEW a \in Agent, ClockIn(a) \/ ClockOut(a)
  PROVE  EscrowInv'
<1> USE DEF money
<1>0. /\ task[a] # Idle /\ task[a] \in Task /\ SawPay(a) /\ task[a].op \in OnItem
      /\ Fresh(a) /\ job \in [Job -> JobRow] /\ session \in [Item -> SessionRow]
  BY DEF ClockIn, ClockOut, At, OnItem, EscrowInv, SerialInv, TypeInv, TypeOK
<1>1. PICK w \in Worker, j \in Job : ItemOf(a) = <<w, j>> /\ task[a].job = j
  BY <1>0, TaskPair
<1>2. \A v \in Worker, k \in Job : <<v, k>> \in Item
  BY DEF Item
<1>3. \A b \in Agent : task'[b] = Idle
  BY CommitEnds
<1>4. \A b \in Agent : SawPay(b)'
  BY <1>3, NoneSawPay
<1>5. Escrowed(j) /\ UNCHANGED <<payments, arrears>>
  BY DEF EscrowInv, ClockIn, ClockOut
<1>6. CASE ClockIn(a)
  <2>1. /\ app[<<w, j>>] = "accepted" /\ job[j].status = "accepted"
        /\ task[a].seen.amount = job[j].pay
    <3>1. task[a].op = "clock_in"
      BY <1>6 DEF ClockIn, At
    <3>2. app[<<w, j>>] = "accepted"
      BY <1>0, <1>1, <3>1 DEF Fresh
    <3> QED
      BY <1>0, <1>1, <3>1, <3>2, OneWorker DEF SawPay
  <2>2. /\ \A k \in Job \ {j} : job'[k] = job[k]
        /\ job'[j].status = "in_progress" /\ job'[j].pay = job[j].pay
        /\ job'[j].reserved = job[j].reserved
    BY <1>0, <1>1, <1>6 DEF ClockIn, JobRow
  <2>3. session' = [session EXCEPT ![<<w, j>>] =
                      [NoSession EXCEPT !.status = "in_progress", !.pending = job[j].pay]]
    BY <1>1, <1>6, <2>1 DEF ClockIn
  <2>4. /\ session'[<<w, j>>].status = "in_progress"
        /\ session'[<<w, j>>].pending = job[j].pay
        /\ \A v \in Worker, k \in Job :
              <<v, k>> # <<w, j>> => session'[<<v, k>>] = session[<<v, k>>]
    BY <1>0, <1>2, <2>3 DEF NoSession
  <2>5. \A v \in Worker, k \in Job : <<v, k>> # <<w, j>> => KeepsPay(v, k)
    <3>1. ASSUME NEW v \in Worker, NEW k \in Job, <<v, k>> # <<w, j>> PROVE KeepsPay(v, k)
      <4>1. Matching(<<v, k>>) /\ Matching(<<v, k>>)'
        BY <1>2 DEF SerialInv
      <4> QED
        BY <1>5, <2>4, <3>1, <4>1 DEF Matching, KeepsPay
    <3> QED
      BY <3>1
  <2>6. \A k \in Job \ {j} : Escrowed(k)'
    BY <2>2, <2>5, EscrowKept DEF EscrowInv
  <2>7. Escrowed(j)'
    <3>1. ASSUME NEW v \in Worker
          PROVE  /\ app'[<<v, j>>] # "completed"
                 /\ session'[<<v, j>>].status = "in_progress" => v = w
      <4>1. app[<<v, j>>] # "completed" /\ session[<<v, j>>].status # "in_progress"
        BY <2>1, OneWorker DEF AtWork
      <4>2. CASE v = w
        <5>1. Matching(<<w, j>>)'
          BY <1>2 DEF SerialInv
        <5> QED
          BY <2>4, <4>2, <5>1 DEF Matching, AtWork
      <4>3. CASE v # w
        BY <2>5, <4>1, <4>3 DEF KeepsPay
      <4> QED
        BY <4>2, <4>3
    <3>2. job[j].pay > 0 /\ job[j].reserved = job[j].pay
      BY <1>5, <2>1 DEF Escrowed, Going
    <3> QED
      BY <2>2, <2>4, <3>1, <3>2 DEF Escrowed, Promised, Going
  <2> QED
    BY <1>4, <2>6, <2>7 DEF EscrowInv
<1>7. CASE ClockOut(a)
  <2>1. \A i \in Item : SameMoney(i)
    BY <1>0, <1>7 DEF ClockOut, SameMoney, SessionRow
  <2>2. \A v \in Worker, k \in Job : KeepsPay(v, k)
    BY <1>5, <2>1, SessionsKeepPay
  <2>3. session[<<w, j>>].status = "in_progress"
    BY <1>0, <1>1, <1>7 DEF ClockOut, At, Fresh
  <2>4. job[j].status \in {"in_progress", "pending_verification"}
    BY <2>3, OneWorker
  <2>5. /\ \A k \in Job \ {j} : job'[k] = job[k]
        /\ job'[j].status = "pending_verification" /\ job'[j].pay = job[j].pay
        /\ job'[j].reserved = job[j].reserved
    BY <1>0, <1>1, <1>7 DEF ClockOut, JobRow
  <2>6. {job[j].status, job'[j].status} \subseteq Going
    BY <2>4, <2>5 DEF Going
  <2>7. Escrowed(j)'
    BY <1>5, <2>2, <2>5, <2>6, EscrowKept
  <2>8. \A k \in Job \ {j} : Escrowed(k)'
    BY <2>2, <2>5, EscrowKept DEF EscrowInv
  <2> QED
    BY <1>4, <2>7, <2>8 DEF EscrowInv
<1> QED
  BY <1>6, <1>7

\* What a completion of such a job finds and does: its pay is in its reserve, and is
\* paid whole, withheld in a dispute or left for later.
LEMMA CompleteReads ==
  ASSUME ~OffFeed, Slots = {1}, SerialInv, JobInv, DisputeInv, EscrowInv,
         NEW a \in Agent, task[a] # Idle, task[a].stage = "read", task[a].op \in Completions,
         NEW review, NEW hold, Complete(ItemOf(a), task[a].seen, review, hold)
  PROVE  \E w \in Worker, j \in Job :
           /\ ItemOf(a) = <<w, j>> /\ task[a].job = j
           /\ app[<<w, j>>] \in AtWork /\ session[<<w, j>>].status = "in_progress"
           /\ payments[<<w, j>>] = 0 /\ \A v \in Hired(j) : v = w
           /\ job[j].status \in {"in_progress", "pending_verification"}
           /\ job[j].pay > 0 /\ job[j].reserved = job[j].pay
           /\ \/ task[a].seen.amount = job[j].pay
              \/ task[a].seen.amount = 0 /\ session[<<w, j>>].dispute
           /\ \A k \in Job \ {j} : job'[k] = job[k]
           /\ job'[j].status = "completed" /\ job'[j].pay = job[j].pay
           /\ job'[j].reserved = IF task[a].seen.ok
                                 THEN job[j].reserved - task[a].seen.amount
                                 ELSE job[j].reserved
<1>1. /\ task[a].op \in OnItem /\ Knows(a) /\ SawPay(a) /\ Fresh(a) /\ task[a] \in Task
      /\ job \in [Job -> JobRow] /\ session \in [Item -> SessionRow]
      /\ payments \in [Item -> Nat]
  BY DEF Completions, OnItem, JobInv, EscrowInv, SerialInv, TypeInv, TypeOK
<1>2. PICK w \in Worker, j \in Job : ItemOf(a) = <<w, j>> /\ task[a].job = j
  BY <1>1, TaskPair
<1>3. PICK seen \in Seen : seen = task[a].seen
  BY <1>1 DEF Task
<1>4. <<w, j>> \in Item /\ <<w, j>>[1] = w /\ <<w, j>>[2] = j
  BY DEF Item
<1>5. /\ job[j].pay \in Nat /\ payments[<<w, j>>] \in Nat
      /\ session[<<w, j>>] \in SessionRow
  BY <1>1, <1>4 DEF JobRow
<1>6. app[<<w, j>>] # "completed" /\ session[<<w, j>>].status # "none"
  BY <1>1, <1>2 DEF Fresh, Completions
<1>7. /\ app[<<w, j>>] \in AtWork /\ session[<<w, j>>].status = "in_progress"
      /\ payments[<<w, j>>] = 0
  BY <1>4, <1>5, <1>6 DEF SerialInv, Matching, SessionRow
<1>8. /\ job[j].status \in {"in_progress", "pending_verification"} /\ job[j].slots = 1
      /\ \A v \in Hired(j) : v = w
  <2>1. w \in Hired(j)
    BY <1>7 DEF Hired, InFlight, AtWork
  <2> QED
    BY <1>7, <2>1, OneWorker
<1>9. job[j].pay > 0 /\ job[j].reserved = job[j].pay /\ Promised(w, j)
  BY <1>7, <1>8 DEF EscrowInv, Escrowed, Going
<1>10. \/ seen.amount = job[j].pay
       \/ seen.amount = 0 /\ session[<<w, j>>].dispute
  <2>1. seen.amount = Due(<<w, j>>)
    BY <1>1, <1>2, <1>3 DEF SawPay
  <2>2. session[<<w, j>>].disbursed = 0
    BY <1>4, <1>7 DEF DisputeInv, Withheld
  <2> QED
    BY <1>5, <1>9, <2>1, <2>2 DEF Due, Promised
<1>11. seen.last
  BY <1>1, <1>2, <1>3, <1>8 DEF Knows
<1>12. /\ \A k \in Job \ {j} : job'[k] = job[k]
       /\ job'[j].status = "completed" /\ job'[j].pay = job[j].pay
       /\ job'[j].reserved = IF seen.ok THEN job[j].reserved - seen.amount
                             ELSE job[j].reserved
  <2>1. PICK left : left = IF seen.ok THEN job[j].reserved - seen.amount ELSE job[j].reserved
    OBVIOUS
  <2>2. job' = [job EXCEPT ![j].status = "completed", ![j].reserved = left]
    BY <1>1, <1>2, <1>3, <1>4, <1>11, <2>1 DEF Complete, JobRow
  <2> QED
    BY <1>1, <2>1, <2>2 DEF JobRow
<1> QED
  BY <1>2, <1>3, <1>7, <1>8, <1>9, <1>10, <1>12

\* A completion pays its worker the pay of the job from the reserve, or leaves it
\* there: it cannot find the reserve short.
LEMMA CompletePays ==
  ASSUME Serial, ~OffFeed, Slots = {1}, SerialInv, SerialInv', JobInv, DisputeInv, EscrowInv,
         NEW a \in Agent, task[a] # Idle, task[a].stage = "read", task[a].op \in Completions,
         NEW review, NEW hold, Complete(ItemOf(a), task[a].seen, review, hold),
         \A b \in Agent : SawPay(b)'
  PROVE  EscrowInv'
<1>1. /\ task[a] \in Task /\ job \in [Job -> JobRow] /\ app \in [Item -> AppStatus]
      /\ session \in [Item -> SessionRow] /\ payments \in [Item -> Nat] /\ arrears \subseteq Item
  BY DEF SerialInv, TypeInv, TypeOK
<1>2. PICK w \in Worker, j \in Job :
           /\ ItemOf(a) = <<w, j>> /\ payments[<<w, j>>] = 0 /\ \A v \in Hired(j) : v = w
           /\ job[j].pay > 0 /\ job[j].reserved = job[j].pay
           /\ \/ task[a].seen.amount = job[j].pay
              \/ task[a].seen.amount = 0 /\ session[<<w, j>>].dispute
           /\ \A k \in Job \ {j} : job'[k] = job[k]
           /\ job'[j].status = "completed" /\ job'[j].pay = job[j].pay
           /\ job'[j].reserved = IF task[a].seen.ok
                                 THEN job[j].reserved - task[a].seen.amount
                                 ELSE job[j].reserved
  BY CompleteReads
<1>3. PICK seen \in Seen : seen = task[a].seen
  BY <1>1 DEF Task
<1>4. \A v \in Worker, k \in Job : <<v, k>> \in Item /\ <<v, k>>[1] = v /\ <<v, k>>[2] = k
  BY DEF Item
<1>5. /\ seen.amount \in Nat /\ seen.ok \in BOOLEAN /\ job[j].reserved \in Int
      /\ job[j].pay \in Nat /\ payments[<<w, j>>] \in Nat /\ session[<<w, j>>] \in SessionRow
  BY <1>1, <1>4 DEF Seen, JobRow
<1>i. ItemOf(a) = <<w, j>>
  BY <1>2
<1>6. payments[<<w, j>>] = 0 /\ \A v \in Hired(j) : v = w
  BY <1>2
<1>7. /\ job[j].pay > 0 /\ job[j].reserved = job[j].pay
      /\ seen.amount = job[j].pay \/ (seen.amount = 0 /\ session[<<w, j>>].dispute)
  BY <1>2, <1>3
<1>8. /\ \A k \in Job \ {j} : job'[k] = job[k]
      /\ job'[j].status = "completed" /\ job'[j].pay = job[j].pay
      /\ job'[j].reserved = IF seen.ok THEN job[j].reserved - seen.amount
                            ELSE job[j].reserved
  BY <1>2, <1>3
<1>p. PICK pending, disbursed :
         session' = [session EXCEPT ![ItemOf(a)] =
                       [@ EXCEPT !.status = "completed", !.review = review, !.hold = hold,
                                 !.pending = pending, !.disbursed = disbursed]]
  <2>1. session' = [session EXCEPT ![ItemOf(a)] =
                      [@ EXCEPT !.status = "completed", !.review = review, !.hold = hold,
                                !.pending = IF task[a].seen.ok THEN 0 ELSE task[a].seen.amount,
                                !.disbursed = IF task[a].seen.ok THEN task[a].seen.amount
                                              ELSE 0]]
    BY DEF Complete
  <2> QED
    BY <2>1, Zenon
<1>9. session' = [session EXCEPT ![<<w, j>>] =
                    [@ EXCEPT !.status = "completed", !.review = review, !.hold = hold,
                              !.pending = pending, !.disbursed = disbursed]]
  BY <1>i, <1>p, Zenon
<1>10. /\ session'[<<w, j>>].status = "completed"
       /\ session'[<<w, j>>].dispute = session[<<w, j>>].dispute
       /\ \A v \in Worker, k \in Job :
            <<v, k>> # <<w, j>> => session'[<<v, k>>] = session[<<v, k>>]
  BY <1>1, <1>4, <1>5, <1>9 DEF SessionRow
<1>11. PayOut(<<w, j>>, seen)
  BY <1>3, <1>i DEF Complete
<1>12. /\ payments' = IF seen.ok /\ seen.amount > 0
                      THEN [payments EXCEPT ![<<w, j>>] = @ + 1] ELSE payments
       /\ arrears' = IF seen.ok THEN arrears ELSE arrears \union {<<w, j>>}
  BY <1>5, <1>11 DEF PayOut
<1>13. /\ payments'[<<w, j>>] = IF seen.ok /\ seen.amount > 0 THEN 1 ELSE 0
       /\ \A v \in Worker, k \in Job :
            <<v, k>> # <<w, j>> => payments'[<<v, k>>] = payments[<<v, k>>]
  BY <1>1, <1>4, <1>6, <1>12
<1>14. arrears \subseteq arrears' /\ (~seen.ok => <<w, j>> \in arrears')
  BY <1>12
<1>15. app' = [app EXCEPT ![<<w, j>>] = "completed"]
  BY <1>i DEF Complete
<1>16. \A v \in Worker, k \in Job : <<v, k>> # <<w, j>> => KeepsPay(v, k)
  <2>1. \A v \in Worker, k \in Job : <<v, k>> # <<w, j>> => app'[<<v, k>>] = app[<<v, k>>]
    BY <1>1, <1>4, <1>15
  <2> QED
    BY <1>10, <1>13, <1>14, <2>1 DEF KeepsPay
<1>17. \A k \in Job \ {j} : Escrowed(k)'
  BY <1>8, <1>16, EscrowKept DEF EscrowInv
<1>18. Resolved(w, j)'
  <2>1. CASE seen.ok /\ seen.amount = job[j].pay
    BY <1>5, <1>7, <1>8, <1>13, <2>1 DEF Resolved
  <2>2. CASE ~seen.ok
    BY <1>5, <1>7, <1>8, <1>13, <1>14, <2>2 DEF Resolved
  <2>3. CASE seen.ok /\ seen.amount = 0 /\ session[<<w, j>>].dispute
    BY <1>5, <1>7, <1>8, <1>10, <1>13, <2>3 DEF Resolved
  <2> QED
    BY <1>7, <2>1, <2>2, <2>3
<1>19. Escrowed(j)'
  <2>1. ASSUME NEW v \in Worker, v # w
        PROVE  app'[<<v, j>>] # "completed" /\ session'[<<v, j>>].status # "in_progress"
    <3>1. app[<<v, j>>] # "completed" /\ app[<<v, j>>] \notin AtWork
      BY <1>6, <2>1 DEF Hired, InFlight, AtWork
    <3>2. session[<<v, j>>].status # "in_progress"
      BY <3>1, OneWorker
    <3> QED
      BY <1>16, <2>1, <3>1, <3>2 DEF KeepsPay
  <2> QED
    BY <1>7, <1>8, <1>10, <1>18, <2>1 DEF Escrowed, Going
<1> QED
  BY <1>17, <1>19 DEF EscrowInv

\* The commits that leave jobs and payments alone.
LEMMA QuietPays ==
  ASSUME Serial, SerialInv, SerialInv', EscrowInv, NEW a \in Agent,
         Reject(a) \/ Apply(a) \/ Withdraw(a) \/ Dispute(a) \/ Abort(a) \/ MarkReleased(a)
  PROVE  EscrowInv'
<1> USE DEF money
<1>1. \A b \in Agent : task'[b] = Idle
  BY CommitEnds
<1>2. \A b \in Agent : SawPay(b)'
  BY <1>1, NoneSawPay
<1>3. UNCHANGED <<job, payments, arrears>> /\ session \in [Item -> SessionRow]
  BY DEF Reject, Apply, Withdraw, Dispute, Abort, MarkReleased, SerialInv, TypeInv, TypeOK
<1>4. \A w \in Worker, k \in Job : KeepsPay(w, k)
  <2>1. CASE Reject(a) \/ Apply(a) \/ Withdraw(a) \/ Abort(a)
    BY <2>1, WorkKept DEF Reject, Apply, Withdraw, Abort
  <2>2. CASE MarkReleased(a)
    <3>1. \A i \in Item : SameMoney(i)
      BY <1>3, <2>2 DEF MarkReleased, SameMoney, SessionRow
    <3> QED
      BY <1>3, <3>1, SessionsKeepPay
  <2>3. CASE Dispute(a)
    <3>1. ASSUME NEW w \in Worker, NEW k \in Job PROVE KeepsPay(w, k)
      <4>1. <<w, k>> \in Item
        BY DEF Item
      <4>2. UNCHANGED app
        BY <2>3 DEF Dispute
      <4>3. /\ session'[<<w, k>>].status = session[<<w, k>>].status
            /\ session[<<w, k>>].dispute => session'[<<w, k>>].dispute
            /\ \/ session'[<<w, k>>].pending = session[<<w, k>>].pending
               \/ session'[<<w, k>>].pending = 0 /\ session'[<<w, k>>].dispute
        BY <1>3, <2>3, <4>1 DEF Dispute, SessionRow
      <4> QED
        BY <1>3, <4>2, <4>3 DEF KeepsPay
    <3> QED
      BY <3>1
  <2> QED
    BY <2>1, <2>2, <2>3
<1>5. \A k \in Job : Escrowed(k)'
  BY <1>3, <1>4, EscrowKept DEF EscrowInv
<1> QED
  BY <1>2, <1>5 DEF EscrowInv

LEMMA EscrowStep ==
  ASSUME Serial, ~OffFeed, Slots = {1}, SerialInv, SerialInv', JobInv, MoneyInv, DisputeInv,
         EscrowInv, [Next]_vars
  PROVE  EscrowInv'
<1> USE DEF money
<1>1. CASE UNCHANGED vars \/ SetPaused
  BY <1>1 DEF vars, SetPaused, EscrowInv, Escrowed, Resolved, Promised, SawPay, Due, ItemOf
<1>2. CASE HoldEnds \/ CutoffPasses
  <2>1. \A i \in Item : SameMoney(i)
    BY <1>2, SessionsKept DEF HoldEnds, CutoffPasses
  <2>2. UNCHANGED <<job, payments, arrears, task>>
    BY <1>2 DEF HoldEnds, CutoffPasses
  <2>3. \A w \in Worker, k \in Job : KeepsPay(w, k)
    BY <2>1, <2>2, SessionsKeepPay
  <2>4. \A k \in Job : Escrowed(k)'
    BY <2>2, <2>3, EscrowKept DEF EscrowInv
  <2>5. ASSUME NEW b \in Agent PROVE SawPay(b)'
    <3>1. CASE task[b] # Idle /\ task[b].op \in Completions
      <4>1. ItemOf(b) \in Item /\ ItemOf(b)' = ItemOf(b)
        BY <2>2, <3>1, TaskItem DEF Completions, OnItem, SerialInv, ItemOf
      <4>2. Due(ItemOf(b))' = Due(ItemOf(b))
        BY <2>1, <4>1 DEF Due, SameMoney
      <4> QED
        BY <2>2, <4>2 DEF EscrowInv, SawPay
    <3>2. CASE ~(task[b] # Idle /\ task[b].op \in Completions)
      BY <2>2, <3>2 DEF EscrowInv, SawPay
    <3> QED
      BY <3>1, <3>2
  <2> QED
    BY <2>4, <2>5 DEF EscrowInv
<1>3. ASSUME NEW a \in Agent, Confirm(a) \/ AutoRelease(a) \/ Timeout(a) PROVE EscrowInv'
  <2>1. \A b \in Agent : SawPay(b)'
    <3>1. CASE AutoRelease(a)
      <4>1. \A b \in Agent : task'[b].stage # "read" /\ task'[b].op \in Completions
        BY <3>1, ReleaseMarks DEF Completions
      <4> QED
        BY <4>1, NoneSawPay
    <3>2. CASE ~AutoRelease(a)
      <4>1. \A b \in Agent : task'[b] = Idle
        BY <1>3, <3>2, CommitEnds
      <4> QED
        BY <4>1, NoneSawPay
    <3> QED
      BY <3>1, <3>2
  <2>2. CASE /\ UNCHANGED <<job, payments, arrears>>
             /\ \A i \in Item : SameMoney(i)
    <3>1. \A w \in Worker, k \in Job : KeepsPay(w, k)
      BY <2>2, SessionsKeepPay
    <3> QED
      BY <2>1, <2>2, <3>1, EscrowKept DEF EscrowInv
  <2>3. CASE \E review, hold : /\ Complete(ItemOf(a), task[a].seen, review, hold)
                               /\ task[a] # Idle /\ task[a].stage = "read"
                               /\ task[a].op \in Completions
    BY <2>1, <2>3, CompletePays
  <2>4. CASE Confirm(a)
    <3>1. CASE At(a, "confirm", "skip")
      <4>1. \A i \in Item : SameMoney(i)
        <5>1. session' = [session EXCEPT ![ItemOf(a)].review = "employer_confirmed",
                                         ![ItemOf(a)].hold = "none"]
          BY <2>4, <3>1 DEF Confirm, At
        <5>2. ItemOf(a) \in Item
          BY <3>1, TaskItem DEF At, OnItem, SerialInv
        <5> QED
          BY <5>1, <5>2, SessionsKept
      <4> QED
        BY <2>2, <2>4, <3>1, <4>1 DEF Confirm, At
    <3> QED
      BY <2>3, <2>4, <3>1 DEF Confirm, At, Completions
  <2>5. UNCHANGED session => \A i \in Item : SameMoney(i)
    BY DEF SameMoney
  <2>6. CASE AutoRelease(a)
    BY <2>2, <2>3, <2>5, <2>6 DEF AutoRelease, Completions
  <2>7. CASE Timeout(a)
    BY <2>2, <2>3, <2>5, <2>7 DEF Timeout, At, Completions
  <2> QED
    BY <1>3, <2>4, <2>6, <2>7
<1>4. ASSUME NEW a \in Agent, Hire(a) \/ Labour(a) \/ Review(a) \/ Abort(a) PROVE EscrowInv'
  BY <1>3, <1>4, StartPays, LookPays, HirePays, ClockPays, QuietPays DEF Hire, Labour, Review
<1> QED
  BY <1>1, <1>2, <1>4 DEF Next

LEMMA EscrowStart == Init => EscrowInv
<1> SUFFICES ASSUME Init PROVE EscrowInv
  OBVIOUS
<1>1. \A a \in Agent : SawPay(a)
  BY DEF Init, SawPay
<1>2. ASSUME NEW j \in Job PROVE Escrowed(j)
  <2>1. job[j].status = "none" /\ job[j].reserved = 0
    BY DEF Init
  <2>2. ASSUME NEW w \in Worker
        PROVE  app[<<w, j>>] = "none" /\ session[<<w, j>>].status = "none"
    BY DEF Init, Item, NoSession
  <2> QED
    BY <2>1, <2>2 DEF Escrowed, Going
<1> QED
  BY <1>1, <1>2 DEF EscrowInv

LEMMA EscrowInvariant ==
  ASSUME Serial, ~OffFeed, Slots = {1}
  PROVE  Spec => [](SerialInv /\ JobInv /\ DisputeInv /\ EscrowInv)
<1>1. SerialInv /\ SerialInv' /\ JobInv /\ MoneyInv /\ DisputeInv /\ EscrowInv /\ [Next]_vars
        => EscrowInv'
  BY EscrowStep
<1>2. Init => DisputeInv
  BY DEF Init, DisputeInv, Withheld, PaysNothing, NoSession
<1>3. SerialInv /\ DisputeInv /\ [Next]_vars => DisputeInv'
  BY DisputeStep
<1> QED
  BY <1>1, <1>2, <1>3, EscrowStart, MoneyInvariant, PTL DEF Spec

\* What an application in flight is owed.
Dues(j) ==
    [i \in Item |-> IF session[i].status = "none" THEN job[j].pay ELSE session[i].pending]

OwedTo(j) == {i \in Item : i[2] = j /\ app[i] \in InFlight}

\* The sum as the property writes it.
LEMMA OwedSum ==
  ASSUME NEW j \in Job PROVE Owed(j) = Sum(Dues(j), OwedTo(j))
<1> DEFINE S == OwedTo(j)
           amount(i) == IF session[i].status = "none" THEN job[j].pay ELSE session[i].pending
<1>1. Owed(j) = (CHOOSE g : g = [s \in SUBSET S |->
             IF s = {} THEN 0 ELSE amount(AnyOf(s)) + g[s \ {AnyOf(s)}]])[S]
  BY DEF Owed, OwedTo, MapThenSumSet, MapThenFoldSet, AnyOf
<1>2. \A s \in SUBSET S : s # {} => amount(AnyOf(s)) = Dues(j)[AnyOf(s)]
  <2>1. S \subseteq Item
    BY DEF OwedTo
  <2> QED
    BY <2>1, FirstIn DEF Dues
<1> HIDE DEF S, amount
<1>3. \A g : [s \in SUBSET S |-> IF s = {} THEN 0 ELSE amount(AnyOf(s)) + g[s \ {AnyOf(s)}]]
             = [s \in SUBSET S |-> Step(g, Dues(j), s)]
  BY <1>2 DEF Step
<1>4. \A g : Adds(g, Dues(j), S) <=> g = [s \in SUBSET S |->
             IF s = {} THEN 0 ELSE amount(AnyOf(s)) + g[s \ {AnyOf(s)}]]
  BY <1>3 DEF Adds
<1>5. (CHOOSE g : Adds(g, Dues(j), S)) = (CHOOSE g : g = [s \in SUBSET S |->
             IF s = {} THEN 0 ELSE amount(AnyOf(s)) + g[s \ {AnyOf(s)}]])
  BY <1>4, Zenon
<1>6. Owed(j) = Sum(Dues(j), S)
  BY <1>1, <1>5, SumComputed
<1> QED
  BY <1>6 DEF S

\* The one worker in flight is owed no more than lies in the reserve.
LEMMA Covered ==
  ASSUME SerialInv, JobInv, EscrowInv, ~OffFeed, Slots = {1}, NEW j \in Job
  PROVE  Owed(j) <= job[j].reserved
<1>1. Escrowed(j) /\ job[j] \in JobRow /\ JobOk(j)
  BY DEF EscrowInv, JobInv, SerialInv, TypeInv, TypeOK
<1>2. job[j].reserved \in Int /\ job[j].pay \in Nat
  BY <1>1 DEF JobRow
<1>3. CASE OwedTo(j) = {}
  <2>1. Owed(j) = 0
    BY <1>3, OwedSum, SumEmpty
  <2>2. job[j].reserved = 0 \/ job[j].reserved = job[j].pay
    <3>1. CASE job[j].status = "completed"
      <4>1. PICK w \in Worker : app[<<w, j>>] = "completed"
        BY <1>1, <3>1 DEF JobOk, OneSlot
      <4> QED
        BY <1>1, <4>1 DEF Escrowed, Resolved
    <3>2. CASE job[j].status # "completed"
      BY <1>1, <3>2 DEF Escrowed, JobRow, JobStatus, Going
    <3> QED
      BY <3>1, <3>2
  <2> QED
    BY <1>2, <2>1, <2>2
<1>4. CASE OwedTo(j) # {}
  <2>1. PICK w \in Worker : <<w, j>> \in OwedTo(j)
    BY <1>4 DEF OwedTo, Item
  <2>2. <<w, j>> \in Item /\ app[<<w, j>>] \in InFlight /\ w \in Hired(j)
    BY <2>1 DEF OwedTo, Hired
  <2>3. OwedTo(j) = {<<w, j>>}
    <3>1. ASSUME NEW i \in OwedTo(j) PROVE i = <<w, j>>
      <4>1. PICK v \in Worker : i = <<v, j>> /\ app[<<v, j>>] \in InFlight
        BY DEF OwedTo, Item
      <4>2. v \in Hired(j)
        BY <4>1 DEF Hired
      <4>3. v = w
        BY <2>2, <4>2, OneWorker
      <4> QED
        BY <4>1, <4>3
    <3> QED
      BY <2>1, <3>1
  <2>4. Dues(j)[<<w, j>>] \in {0, job[j].pay}
    <3>1. app[<<w, j>>] = "accepted" \/ app[<<w, j>>] \in AtWork
      BY <2>2 DEF InFlight, AtWork
    <3>2. /\ session[<<w, j>>].status = "none" \/ session[<<w, j>>].status = "in_progress"
      <4>1. Matching(<<w, j>>) /\ session[<<w, j>>] \in SessionRow
        BY <2>2 DEF SerialInv, TypeInv, TypeOK
      <4> QED
        BY <3>1, <4>1 DEF Matching, SessionRow, AtWork
    <3>3. Dues(j)[<<w, j>>] = IF session[<<w, j>>].status = "none" THEN job[j].pay
                              ELSE session[<<w, j>>].pending
      BY <2>2, Zenon DEF Dues
    <3>4. session[<<w, j>>].status = "in_progress" =>
            session[<<w, j>>].pending = job[j].pay \/ session[<<w, j>>].pending = 0
      BY <1>1 DEF Escrowed, Promised
    <3> QED
      BY <3>2, <3>3, <3>4
  <2>5. Sum(Dues(j), {<<w, j>>}) = Dues(j)[<<w, j>>]
    <3> DEFINE i == <<w, j>>
               F == Dues(j)
    <3>1. F[i] \in Int
      BY <1>2, <2>4
    <3>2. IsFiniteSet({i}) /\ {i} \ {i} = {}
      BY FS_Singleton
    <3> HIDE DEF i, F
    <3>3. \A y \in {i} : F[y] \in Int
      BY <3>1
    <3>4. Sum(F, {i}) = F[i] + Sum(F, {i} \ {i})
      BY <3>2, <3>3, SumRemove
    <3>5. Sum(F, {i}) = F[i]
      BY <3>1, <3>2, <3>4, SumEmpty
    <3> QED
      BY <3>5 DEF i, F
  <2>6. Owed(j) \in {0, job[j].pay}
    BY <2>3, <2>4, <2>5, OwedSum
  <2>7. job[j].reserved = job[j].pay
    <3>1. job[j].status \in {"accepted", "in_progress", "pending_verification"}
      BY <2>2, OneWorker DEF InFlight, AtWork
    <3> QED
      BY <1>1, <3>1 DEF Escrowed, Going
  <2> QED
    BY <1>2, <2>6, <2>7
<1> QED
  BY <1>3, <1>4

\* With one handler at a time the reserve of a job of one slot always covers what its
\* worker is owed: the comment that a short reserve is unreachable in normal operation
\* (job-completion.service.ts:175) is right for as long as handlers do not overlap.
THEOREM EscrowCoversSerially ==
  ASSUME Serial, ~OffFeed, Slots = {1} PROVE Spec => []EscrowCovers
<1>1. SerialInv /\ JobInv /\ EscrowInv => EscrowCovers
  BY Covered DEF EscrowCovers
<1> QED
  BY <1>1, EscrowInvariant, PTL

\* What stays on a completed job is its pay, once, if its worker was not paid.
LEMMA Left ==
  ASSUME SerialInv, JobInv, EscrowInv, ~OffFeed, Slots = {1}, NEW j \in Job,
         job[j].status = "completed"
  PROVE  LET unpaid == {i \in Item : i[2] = j /\ app[i] = "completed" /\ payments[i] = 0}
         IN  /\ job[j].reserved = job[j].pay * Cardinality(unpaid)
             /\ unpaid \subseteq arrears \union {i \in Item : session[i].dispute}
<1> DEFINE unpaid == {i \in Item : i[2] = j /\ app[i] = "completed" /\ payments[i] = 0}
<1>1. JobOk(j) /\ Escrowed(j) /\ job[j] \in JobRow
  BY DEF JobInv, EscrowInv, SerialInv, TypeInv, TypeOK
<1>2. job[j].pay \in Nat
  BY <1>1 DEF JobRow
<1>3. PICK w \in Worker : app[<<w, j>>] = "completed"
  BY <1>1 DEF JobOk, OneSlot
<1>4. <<w, j>> \in Item /\ <<w, j>>[2] = j /\ Resolved(w, j) /\ w \in Hired(j)
  BY <1>1, <1>3 DEF Item, Escrowed, Hired
<1>5. unpaid \subseteq {<<w, j>>}
  <2>1. ASSUME NEW i \in unpaid PROVE i = <<w, j>>
    <3>1. PICK v \in Worker : i = <<v, j>> /\ app[<<v, j>>] = "completed"
      BY DEF Item
    <3>2. v \in Hired(j)
      BY <3>1 DEF Hired
    <3>3. v = w
      BY <1>4, <3>2, OneWorker
    <3> QED
      BY <3>1, <3>3
  <2> QED
    BY <2>1
<1>6. CASE payments[<<w, j>>] = 1
  <2>1. <<w, j>> \notin unpaid
    BY <1>6
  <2>2. unpaid = {}
    BY <1>5, <2>1
  <2> HIDE DEF unpaid
  <2>3. Cardinality(unpaid) = 0
    BY <2>2, FS_EmptySet
  <2>4. job[j].reserved = 0
    BY <1>4, <1>6 DEF Resolved
  <2>5. job[j].pay * Cardinality(unpaid) = 0
    BY <1>2, <2>3
  <2> QED
    BY <2>2, <2>4, <2>5 DEF unpaid
<1>7. CASE payments[<<w, j>>] = 0
  <2>1. <<w, j>> \in unpaid
    BY <1>3, <1>4, <1>7
  <2>2. unpaid = {<<w, j>>}
    BY <1>5, <2>1
  <2>3. <<w, j>> \in arrears \union {i \in Item : session[i].dispute}
    BY <1>4, <1>7 DEF Resolved
  <2> HIDE DEF unpaid
  <2>4. Cardinality(unpaid) = 1
    BY <2>2, FS_Singleton
  <2>5. job[j].reserved = job[j].pay
    BY <1>4, <1>7 DEF Resolved
  <2>6. job[j].pay * Cardinality(unpaid) = job[j].pay
    BY <1>2, <2>4
  <2> QED
    BY <2>2, <2>3, <2>5, <2>6 DEF unpaid
<1> QED
  BY <1>4, <1>6, <1>7 DEF Resolved

\* With one handler at a time nothing stays in the reserve of a completed job of one slot
\* but the pay of a worker in dispute or of a payment left pending, however often the
\* session is clocked out of, confirmed or released (job-completion.service.ts:185,
\* employer-work-sessions.service.ts:359).
THEOREM OnlyWithheldStaysSerially ==
  ASSUME Serial, ~OffFeed, Slots = {1} PROVE Spec => []OnlyWithheldStays
<1>1. SerialInv /\ JobInv /\ EscrowInv => OnlyWithheldStays
  BY Left DEF OnlyWithheldStays
<1> QED
  BY <1>1, EscrowInvariant, PTL

\* Nor does a completion of such a job ever read a reserve that is too short for the
\* payment, as it can for a job of several slots (job-completion.service.ts:175).
THEOREM NeverShortSerially ==
  ASSUME Serial, ~OffFeed, Slots = {1} PROVE Spec => []NeverShort
<1>1. ASSUME SerialInv, JobInv, DisputeInv, EscrowInv PROVE NeverShort
  <2> SUFFICES ASSUME NEW a \in Agent, task[a] # Idle, task[a].stage = "read",
                      task[a].op \in Completions
               PROVE  task[a].seen.amount <= job[task[a].job].reserved
    BY DEF NeverShort, Completions
  <2>1. task[a].op \in OnItem /\ Fresh(a) /\ SawPay(a)
    BY <1>1 DEF Completions, OnItem, SerialInv, EscrowInv
  <2>2. PICK w \in Worker, j \in Job : ItemOf(a) = <<w, j>> /\ task[a].job = j
    BY <1>1, <2>1, TaskPair
  <2>3. <<w, j>> \in Item /\ job[j] \in JobRow /\ session[<<w, j>>] \in SessionRow
    BY <1>1 DEF Item, SerialInv, TypeInv, TypeOK
  <2>4. app[<<w, j>>] # "completed" /\ session[<<w, j>>].status # "none"
    BY <2>1, <2>2 DEF Fresh, Completions
  <2>5. app[<<w, j>>] \in AtWork /\ session[<<w, j>>].status = "in_progress"
    BY <1>1, <2>3, <2>4 DEF SerialInv, Matching, SessionRow
  <2>6. job[j].status \in {"in_progress", "pending_verification"}
    BY <1>1, <2>5, OneWorker
  <2>7. job[j].pay \in Nat /\ job[j].reserved = job[j].pay /\ Promised(w, j)
    BY <1>1, <2>3, <2>5, <2>6 DEF EscrowInv, Escrowed, Going, JobRow
  <2>8. session[<<w, j>>].disbursed = 0
    BY <1>1, <2>3, <2>5 DEF DisputeInv, Withheld
  <2>9. task[a].seen.amount = Due(<<w, j>>)
    BY <2>1, <2>2 DEF SawPay
  <2>10. task[a].seen.amount \in {0, job[j].pay}
    BY <2>3, <2>7, <2>8, <2>9 DEF Due, Promised, SessionRow
  <2> QED
    BY <2>2, <2>7, <2>10
<1> QED
  BY <1>1, EscrowInvariant, PTL
-----------------------------------------------------------------------------
(***************************************************************************)
(* The refinement of the abstract escrow, one handler at a time.           *)
(***************************************************************************)
\* Where no reserve, no wallet and no phase changes, nothing happens to the abstract pay.
LEMMA EscrowStutters ==
  ASSUME UNCHANGED <<wallet, balance, debt>>,
         \A j \in Job : job'[j].reserved = job[j].reserved /\ Phase(j)' = Phase(j)
  PROVE  UNCHANGED Abstract!vars
<1>1. /\ [j \in Job |-> Phase(j)]' = [j \in Job |-> Phase(j)]
      /\ [j \in Job |-> job[j].reserved]' = [j \in Job |-> job[j].reserved]
      /\ [w \in Worker |-> balance[w] + Debt - debt[w]]'
           = [w \in Worker |-> balance[w] + Debt - debt[w]]
  OBVIOUS
<1> QED
  BY <1>1 DEF Abstract!vars

\* How the abstract pay sees a change of one job.
LEMMA PhasesMove ==
  ASSUME NEW j \in Job, \A k \in Job \ {j} : job'[k] = job[k]
  PROVE  /\ [k \in Job |-> Phase(k)]' = [[k \in Job |-> Phase(k)] EXCEPT ![j] = Phase(j)']
         /\ [k \in Job |-> job[k].reserved]'
              = [[k \in Job |-> job[k].reserved] EXCEPT ![j] = job'[j].reserved]
<1>1. \A k \in Job \ {j} : Phase(k)' = Phase(k)
  BY DEF Phase
<1>2. [k \in Job |-> Phase(k)]' = [[k \in Job |-> Phase(k)] EXCEPT ![j] = Phase(j)']
  BY <1>1
<1>3. [k \in Job |-> job[k].reserved]'
        = [[k \in Job |-> job[k].reserved] EXCEPT ![j] = job'[j].reserved]
  OBVIOUS
<1> QED
  BY <1>2, <1>3

\* What holds of a job of one slot while one handler at a time is under way.
EscrowBooks == SerialInv /\ JobInv /\ MoneyInv /\ DisputeInv /\ EscrowInv /\ FundsInv

\* The employer's commits that move money hold the pay of a job, or give it up.
LEMMA HireRefines ==
  ASSUME Serial, ~OffFeed, Slots = {1}, EscrowBooks, NEW a \in Agent,
         Create(a) \/ Publish(a) \/ Cancel(a)
  PROVE  Abstract!Next \/ UNCHANGED Abstract!vars
<1>j. PICK j \in Job : j = task[a].job
  BY DEF Create, Publish, Cancel, At, Task, EscrowBooks, SerialInv, TypeInv, TypeOK
<1>1. /\ task[a] # Idle /\ task[a].stage = "read" /\ task[a].seen \in Seen
      /\ Knows(a) /\ SawPay(a) /\ SawReserve(a) /\ Afforded(a) /\ Escrowed(j)
      /\ job \in [Job -> JobRow] /\ job[j] \in JobRow /\ wallet \in Int
      /\ UNCHANGED <<balance, debt>>
  BY <1>j DEF Create, Publish, Cancel, At, Task, EscrowBooks, JobInv, MoneyInv, EscrowInv,
              FundsInv, SerialInv, TypeInv, TypeOK
<1>2. PICK seen \in Seen : seen = task[a].seen
  BY <1>1
<1>3. /\ seen.amount \in Nat /\ seen.count \in Nat /\ seen.ok \in BOOLEAN
      /\ job[j].reserved \in Int /\ job[j].pay \in Nat
  BY <1>1 DEF Seen, JobRow
<1>4. \A k \in Job \ {j} : job'[k] = job[k]
  BY <1>j, <1>1 DEF Create, Publish, Cancel
<1>5. [w \in Worker |-> balance[w] + Debt - debt[w]]'
        = [w \in Worker |-> balance[w] + Debt - debt[w]]
  BY <1>1
<1>6. ASSUME Phase(j) = "none", seen.amount > 0, wallet >= seen.amount,
             wallet' = wallet - seen.amount, job'[j].status = "open",
             job'[j].reserved = seen.amount
      PROVE  Abstract!Next
  <2>1. Phase(j)' = "held"
    BY <1>6 DEF Phase
  <2>2. seen.amount \in 1..wallet
    BY <1>1, <1>3, <1>6
  <2>3. Abstract!Hold(j)
    BY <1>4, <1>5, <1>6, <2>1, <2>2, PhasesMove DEF Abstract!Hold
  <2> QED
    BY <2>3 DEF Abstract!Next
<1>7. CASE Create(a)
  <2>1. job[j].status = "none" /\ seen.count = 1 /\ seen.amount > 0
    BY <1>j, <1>1, <1>2, <1>7 DEF Create, At, Knows, SawPay
  <2>2. Phase(j) = "none" /\ job[j].reserved = 0
    BY <1>1, <2>1 DEF Phase, Escrowed
  <2>3. seen.amount * seen.count = seen.amount
    BY <1>3, <2>1
  <2>4. PICK reserve : reserve = IF seen.ok THEN seen.amount ELSE 0
    OBVIOUS
  <2>5. /\ wallet' = wallet - reserve /\ job'[j].reserved = reserve
        /\ job'[j].status = IF seen.ok THEN "open" ELSE "draft"
    BY <1>j, <1>1, <1>2, <1>7, <2>3, <2>4 DEF Create
  <2>6. CASE seen.ok
    <3>1. wallet >= seen.amount * seen.count
      BY <1>1, <1>2, <1>7, <2>6 DEF Create, At, Afforded
    <3> QED
      BY <1>6, <2>1, <2>2, <2>3, <2>4, <2>5, <2>6, <3>1
  <2>7. CASE ~seen.ok
    <3>1. Phase(j)' = "none"
      BY <2>5, <2>7 DEF Phase
    <3>2. wallet' = wallet /\ \A k \in Job : /\ job'[k].reserved = job[k].reserved
                                             /\ Phase(k)' = Phase(k)
      BY <1>1, <1>4, <2>2, <2>4, <2>5, <2>7, <3>1 DEF Phase
    <3> QED
      BY <1>1, <3>2, EscrowStutters
  <2> QED
    BY <2>6, <2>7, <1>3
<1>8. CASE Publish(a)
  <2>1. job[j].status = "draft" /\ seen.amount = job[j].pay /\ wallet >= seen.amount
    BY <1>j, <1>1, <1>2, <1>8 DEF Publish, At, Knows, SawPay, Afforded
  <2>2. Phase(j) = "none" /\ seen.amount > 0
    BY <1>1, <2>1 DEF Phase, Escrowed
  <2>3. /\ wallet' = wallet - seen.amount /\ job'[j].reserved = seen.amount
        /\ job'[j].status = "open"
    BY <1>j, <1>1, <1>2, <1>8 DEF Publish, JobRow
  <2> QED
    BY <1>6, <2>1, <2>2, <2>3
<1>9. CASE Cancel(a)
  <2>1. job[j].status \in Cancellable
    BY <1>j, <1>1, <1>9 DEF Cancel, At, Knows
  <2>2. seen.amount = IF job[j].reserved > 0 THEN job[j].reserved ELSE 0
    BY <1>j, <1>1, <1>2, <1>9 DEF Cancel, At, SawReserve
  <2>3. /\ wallet' = wallet + seen.amount /\ job'[j].status = "cancelled"
        /\ job'[j].reserved = IF seen.amount > 0 THEN 0 ELSE job[j].reserved
    BY <1>j, <1>1, <1>2, <1>9 DEF Cancel, JobRow
  <2>4. CASE job[j].status = "draft"
    <3>1. job[j].reserved = 0 /\ Phase(j) = "none"
      BY <1>1, <2>4 DEF Escrowed, Phase
    <3>2. seen.amount = 0
      BY <2>2, <3>1
    <3>3. job'[j].reserved = 0 /\ wallet' = wallet /\ Phase(j)' = "over"
      BY <1>1, <2>3, <3>1, <3>2 DEF Phase
    <3>4. [k \in Job |-> job[k].reserved]' = [k \in Job |-> job[k].reserved]
      BY <1>4, <3>1, <3>3
    <3>5. Abstract!Drop(j)
      BY <1>4, <1>5, <3>1, <3>3, <3>4, PhasesMove DEF Abstract!Drop
    <3> QED
      BY <3>5 DEF Abstract!Next
  <2>5. CASE job[j].status \in {"open", "accepted"}
    <3>1. job[j].reserved = job[j].pay /\ job[j].pay > 0
      BY <1>1, <2>5 DEF Escrowed, Going
    <3>2. Phase(j) = "held" /\ seen.amount = job[j].reserved
      BY <1>3, <2>2, <2>5, <3>1 DEF Phase
    <3>3. job'[j].reserved = 0 /\ wallet' = wallet + job[j].reserved /\ Phase(j)' = "over"
      BY <1>3, <2>3, <3>1, <3>2 DEF Phase
    <3>4. Abstract!Return(j)
      BY <1>4, <1>5, <3>2, <3>3, PhasesMove DEF Abstract!Return, Abstract!Ends
    <3> QED
      BY <3>4 DEF Abstract!Next
  <2> QED
    BY <2>1, <2>4, <2>5 DEF Cancellable
<1> QED
  BY <1>7, <1>8, <1>9

\* A payment of nothing changes no loan and no wallet.
LEMMA NothingCut ==
  ASSUME TypeOK, NEW w \in Worker PROVE LoanCut(w, 0) = 0
<1>1. (0 * Percent + 50) \div 100 = 0 /\ debt[w] \in Nat
  BY MoneyAssumption DEF TypeOK
<1> QED
  BY <1>1 DEF LoanCut

\* A completion pays all that the job holds to its worker, or leaves it held.
LEMMA CompleteRefines ==
  ASSUME ~OffFeed, Slots = {1}, EscrowBooks,
         NEW a \in Agent, task[a] # Idle, task[a].stage = "read", task[a].op \in Completions,
         NEW review, NEW hold, Complete(ItemOf(a), task[a].seen, review, hold)
  PROVE  Abstract!Next \/ UNCHANGED Abstract!vars
<1>1. PICK w \in Worker, j \in Job :
           /\ ItemOf(a) = <<w, j>>
           /\ job[j].status \in {"in_progress", "pending_verification"}
           /\ job[j].pay > 0 /\ job[j].reserved = job[j].pay
           /\ task[a].seen.amount \in {0, job[j].pay}
           /\ \A k \in Job \ {j} : job'[k] = job[k]
           /\ job'[j].status = "completed"
           /\ job'[j].reserved = IF task[a].seen.ok
                                 THEN job[j].reserved - task[a].seen.amount
                                 ELSE job[j].reserved
  <2>1. SerialInv /\ JobInv /\ DisputeInv /\ EscrowInv
    BY DEF EscrowBooks
  <2> QED
    BY <2>1, CompleteReads
<1>2. /\ TypeOK /\ job[j] \in JobRow /\ task[a] \in Task
      /\ balance \in [Worker -> Int] /\ debt \in [Worker -> Nat]
  BY DEF EscrowBooks, SerialInv, TypeInv, TypeOK
<1>3. PICK seen \in Seen : seen = task[a].seen
  BY <1>2 DEF Task
<1>4. /\ seen.amount \in Nat /\ seen.ok \in BOOLEAN /\ job[j].reserved \in Int
      /\ job[j].pay \in Nat /\ balance[w] \in Int /\ debt[w] \in Int
  BY <1>2 DEF Seen, JobRow
<1>5. wallet' = wallet /\ PayOut(<<w, j>>, seen) /\ <<w, j>>[1] = w
  BY <1>1, <1>3 DEF Complete
<1>6. Phase(j) = "held"
  BY <1>1 DEF Phase
<1>7. CASE seen.ok /\ seen.amount = job[j].pay
  <2>1. job'[j].reserved = 0 /\ Phase(j)' = "over"
    BY <1>1, <1>3, <1>4, <1>7 DEF Phase
  <2>2. PICK cut : cut = LoanCut(w, seen.amount)
    OBVIOUS
  <2>3. cut \in Nat
    BY <1>2, <1>4, <2>2, LoanCutBounded
  <2>4. /\ balance' = [balance EXCEPT ![w] = @ + seen.amount - cut]
        /\ debt' = [debt EXCEPT ![w] = @ - cut]
    BY <1>5, <1>7, <2>2 DEF PayOut
  <2>5. /\ balance'[w] = balance[w] + seen.amount - cut /\ debt'[w] = debt[w] - cut
        /\ \A v \in Worker \ {w} : balance'[v] = balance[v] /\ debt'[v] = debt[v]
    BY <1>2, <2>4
  <2>6. balance'[w] + Debt - debt'[w] = balance[w] + Debt - debt[w] + job[j].reserved
    BY <1>1, <1>4, <1>7, <2>3, <2>5, MoneyAssumption
  <2>7. [v \in Worker |-> balance[v] + Debt - debt[v]]'
          = [[v \in Worker |-> balance[v] + Debt - debt[v]] EXCEPT ![w] = @ + job[j].reserved]
    BY <2>5, <2>6
  <2>8. Abstract!Release(j)
    BY <1>1, <1>5, <1>6, <2>1, <2>7, PhasesMove DEF Abstract!Release, Abstract!Ends
  <2> QED
    BY <2>8 DEF Abstract!Next
<1>8. CASE ~seen.ok \/ seen.amount = 0
  <2>1. job'[j].reserved = job[j].reserved /\ Phase(j)' = "held"
    BY <1>1, <1>3, <1>4, <1>8 DEF Phase
  <2>2. \A k \in Job : job'[k].reserved = job[k].reserved /\ Phase(k)' = Phase(k)
    BY <1>1, <1>6, <2>1 DEF Phase
  <2>3. CASE ~seen.ok
    <3>1. UNCHANGED <<balance, debt>>
      BY <1>5, <2>3 DEF PayOut
    <3> QED
      BY <1>5, <2>2, <3>1, EscrowStutters
  <2>4. CASE seen.ok /\ seen.amount = 0
    <3>1. LoanCut(w, seen.amount) = 0
      BY <1>2, <2>4, NothingCut
    <3>2. /\ balance' = [balance EXCEPT ![w] = balance[w] + 0 - 0]
          /\ debt' = [debt EXCEPT ![w] = debt[w] - 0]
      BY <1>5, <2>4, <3>1 DEF PayOut
    <3>3. UNCHANGED <<balance, debt>>
      BY <1>2, <1>4, <3>2
    <3> QED
      BY <1>5, <2>2, <3>3, EscrowStutters
  <2> QED
    BY <1>8, <2>3, <2>4
<1> QED
  BY <1>1, <1>3, <1>7, <1>8

\* Nothing else that happens to a job moves its pay.
LEMMA OtherRefines ==
  ASSUME ~OffFeed, Slots = {1}, EscrowBooks, NEW a \in Agent,
         Update(a) \/ Accept(a) \/ AcceptSlot(a) \/ ClockIn(a) \/ ClockOut(a)
  PROVE  UNCHANGED Abstract!vars
<1> USE DEF money
<1>j. PICK j \in Job : j = task[a].job
  BY DEF Update, Accept, AcceptSlot, ClockIn, ClockOut, At, Task, EscrowBooks, SerialInv,
         TypeInv, TypeOK
<1>1. /\ task[a] # Idle /\ task[a] \in Task /\ job \in [Job -> JobRow] /\ job[j] \in JobRow
      /\ UNCHANGED <<wallet, balance, debt>>
  BY DEF Update, Accept, AcceptSlot, ClockIn, ClockOut, At, EscrowBooks, SerialInv, TypeInv,
         TypeOK
<1>2. /\ \A k \in Job \ {j} : job'[k] = job[k]
      /\ job'[j].reserved = job[j].reserved
  <2>1. CASE Update(a)
    BY <1>j, <1>1, <2>1 DEF Update, JobRow
  <2>2. CASE Accept(a)
    BY <1>j, <1>1, <2>2 DEF Accept, JobRow
  <2>3. CASE AcceptSlot(a)
    BY <1>j, <1>1, <2>3 DEF AcceptSlot, JobRow
  <2>4. CASE ClockIn(a)
    BY <1>j, <1>1, <2>4 DEF ClockIn, JobRow
  <2>5. CASE ClockOut(a)
    BY <1>j, <1>1, <2>5 DEF ClockOut, JobRow
  <2> QED
    BY <2>1, <2>2, <2>3, <2>4, <2>5
<1>3. Phase(j)' = Phase(j)
  <2>1. CASE Update(a)
    <3>1. job'[j].status = job[j].status
      BY <1>j, <1>1, <2>1 DEF Update, JobRow
    <3> QED
      BY <1>2, <3>1 DEF Phase
  <2>2. CASE Accept(a) \/ AcceptSlot(a) \/ ClockIn(a) \/ ClockOut(a)
    <3>1. /\ task[a].op \in OnItem /\ Fresh(a) /\ Knows(a)
          /\ task[a].op \in {"accept", "accept_slot", "clock_in", "clock_out"}
      BY <2>2 DEF Accept, AcceptSlot, ClockIn, ClockOut, At, OnItem, EscrowBooks, SerialInv,
                  JobInv
    <3>2. PICK w \in Worker : ItemOf(a) = <<w, j>>
      BY <1>j, <1>1, <3>1, TaskPair DEF EscrowBooks
    <3>3. job[j].status \in Going /\ job[j].slots = 1
      <4>1. app[<<w, j>>] \in {"applied", "accepted"} \/ session[<<w, j>>].status = "in_progress"
        BY <1>1, <3>1, <3>2 DEF Fresh
      <4>2. SerialInv /\ JobInv
        BY DEF EscrowBooks
      <4> QED
        BY <4>1, <4>2, OneWorker DEF Going
    <3>4. ~AcceptSlot(a)
      <4>1. task[a].op # "accept_slot"
        BY <1>j, <1>1, <3>1, <3>3 DEF Knows
      <4> QED
        BY <4>1 DEF AcceptSlot, At
    <3>5. job'[j].status \in Going
      <4>1. CASE Accept(a)
        BY <1>j, <1>1, <4>1 DEF Accept, JobRow, Going
      <4>2. CASE ClockIn(a)
        BY <1>j, <1>1, <4>2 DEF ClockIn, JobRow, Going
      <4>3. CASE ClockOut(a)
        BY <1>j, <1>1, <4>3 DEF ClockOut, JobRow, Going
      <4> QED
        BY <2>2, <3>4, <4>1, <4>2, <4>3
    <3> QED
      BY <1>2, <3>3, <3>5 DEF Phase, Going
  <2> QED
    BY <2>1, <2>2
<1> QED
  BY <1>1, <1>2, <1>3, EscrowStutters DEF Phase

\* Every step of the handlers is one of the abstract pay, or nothing to it.
LEMMA StepRefines ==
  ASSUME Serial, ~OffFeed, Slots = {1}, EscrowBooks, [Next]_vars
  PROVE  Abstract!Next \/ UNCHANGED Abstract!vars
<1> USE DEF money
<1>1. ASSUME UNCHANGED <<wallet, balance, debt, job>> PROVE UNCHANGED Abstract!vars
  BY <1>1, EscrowStutters DEF Phase
<1>2. CASE UNCHANGED vars \/ SetPaused \/ HoldEnds \/ CutoffPasses
  BY <1>1, <1>2 DEF vars, SetPaused, HoldEnds, CutoffPasses
<1>3. ASSUME NEW a \in Agent,
             StartCreate(a) \/ StartUpdate(a) \/ StartPublish(a) \/ StartCancel(a)
               \/ StartAccept(a) \/ StartAcceptSlot(a) \/ StartReject(a)
               \/ StartApply(a) \/ StartWithdraw(a) \/ StartClockIn(a) \/ StartClockOut(a)
               \/ StartConfirm(a) \/ StartDispute(a) \/ StartAutoRelease(a)
               \/ StartTimeout(a)
      PROVE  UNCHANGED Abstract!vars
  BY <1>1, <1>3, StartAsks DEF EscrowBooks
<1>4. ASSUME NEW a \in Agent,
             ReadCreate(a) \/ ReadPublish(a) \/ ReadCancel(a) \/ ReadAcceptSlot(a)
               \/ LockSession(a) \/ ReadConfirm(a) \/ ReadAutoRelease(a) \/ ReadTimeout(a)
      PROVE  UNCHANGED Abstract!vars
  <2>1. UNCHANGED <<wallet, balance, debt, job>>
    BY <1>4 DEF ReadCreate, ReadPublish, ReadCancel, ReadAcceptSlot, LockSession, ReadConfirm,
                ReadAutoRelease, ReadTimeout, ReadCompletion, Look
  <2> QED
    BY <1>1, <2>1
<1>5. ASSUME NEW a \in Agent,
             Reject(a) \/ Apply(a) \/ Withdraw(a) \/ Dispute(a) \/ Abort(a) \/ MarkReleased(a)
      PROVE  UNCHANGED Abstract!vars
  BY <1>1, <1>5 DEF Reject, Apply, Withdraw, Dispute, Abort, MarkReleased
<1>6. ASSUME NEW a \in Agent, Confirm(a) \/ AutoRelease(a) \/ Timeout(a)
      PROVE  Abstract!Next \/ UNCHANGED Abstract!vars
  <2>1. CASE UNCHANGED <<wallet, balance, debt, job>>
    BY <1>1, <2>1
  <2>2. CASE \E review, hold : /\ Complete(ItemOf(a), task[a].seen, review, hold)
                               /\ task[a] # Idle /\ task[a].stage = "read"
                               /\ task[a].op \in Completions
    BY <2>2, CompleteRefines
  <2>3. CASE Confirm(a)
    BY <2>1, <2>2, <2>3 DEF Confirm, At, Completions
  <2>4. CASE AutoRelease(a)
    BY <2>1, <2>2, <2>4 DEF AutoRelease, Completions
  <2>5. CASE Timeout(a)
    BY <2>1, <2>2, <2>5 DEF Timeout, At, Completions
  <2> QED
    BY <1>6, <2>3, <2>4, <2>5
<1>7. ASSUME NEW a \in Agent, Hire(a) \/ Labour(a) \/ Review(a) \/ Abort(a)
      PROVE  Abstract!Next \/ UNCHANGED Abstract!vars
  BY <1>3, <1>4, <1>5, <1>6, <1>7, HireRefines, OtherRefines DEF Hire, Labour, Review
<1> QED
  BY <1>2, <1>7 DEF Next

\* Handlers that run one at a time keep the promise about the pay of a job of one slot:
\* taken from the wallet once and when it is there, held for the job, and given up once
\* and whole, to the worker or back, whatever is accepted, clocked out of again, reviewed,
\* disputed, paused, released by a cron or cut short by a crash
\* (job-reservation.service.ts, job-completion.service.ts).
THEOREM EscrowRefined ==
  ASSUME Serial, ~OffFeed, Slots = {1} PROVE Spec => ImplementsEscrow
<1>1. Init => Abstract!Init
  <2> SUFFICES ASSUME Init PROVE Abstract!Init
    OBVIOUS
  <2>1. \A j \in Job : job[j].status = "none" /\ job[j].reserved = 0
    BY DEF Init
  <2>2. \A j \in Job : Phase(j) = "none"
    BY <2>1 DEF Phase
  <2>3. \A w \in Worker : balance[w] + Debt - debt[w] = 0
    BY MoneyAssumption DEF Init
  <2>4. wallet = Funds
    BY DEF Init
  <2> QED
    BY <2>1, <2>2, <2>3, <2>4 DEF Abstract!Init
<1>2. EscrowBooks /\ [Next]_vars => [Abstract!Next]_(Abstract!vars)
  BY StepRefines
<1>3. SerialInv /\ JobInv /\ MoneyInv /\ DisputeInv /\ EscrowInv /\ FundsInv => EscrowBooks
  BY DEF EscrowBooks
<1>4. Init => FundsInv
  BY MoneyAssumption DEF Init, FundsInv, Afforded
<1>5. SerialInv /\ FundsInv /\ [Next]_vars => FundsInv'
  BY FundsStep
<1> QED
  BY <1>1, <1>2, <1>3, <1>4, <1>5, MoneyInvariant, EscrowInvariant, PTL
     DEF Spec, ImplementsEscrow, Abstract!Spec
=============================================================================
