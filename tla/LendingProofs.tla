---------------------------- MODULE LendingProofs ----------------------------
(***************************************************************************)
(* Theorems about Lending, for any applications, loans and requests and    *)
(* any number of instalments.                                              *)
(***************************************************************************)
EXTENDS LendingRefinement, FiniteSetTheorems, WellFoundedInduction, TLAPS

(***************************************************************************)
(* Types.                                                                  *)
(***************************************************************************)

\* What a request holds, by what it is about to do.
LEMMA DoingFields ==
  ASSUME NEW q \in Doing
  PROVE  /\ q.at = "decide" => q.a \in Application
         /\ q.at \in {"transfer", "book", "due", "mark", "cut"} => q.l \in Loan
         /\ q.at \in {"due", "mark"} => q.i \in Month
         /\ q.at = "mark" => q.seen \in Seen
         /\ q.at = "cut" => q.out \in 0..Principal
  BY DEF Doing, Idle

LEMMA DoingMakes ==
  /\ Idle \in Doing /\ [at |-> "wanted"] \in Doing
  /\ \A a \in Application : [at |-> "decide", a |-> a] \in Doing
  /\ \A l \in Loan : [at |-> "transfer", l |-> l] \in Doing /\ [at |-> "book", l |-> l] \in Doing
  /\ \A l \in Loan, i \in Month : [at |-> "due", l |-> l, i |-> i] \in Doing
  /\ \A l \in Loan, i \in Month, seen \in Seen :
       [at |-> "mark", l |-> l, i |-> i, seen |-> seen] \in Doing
  /\ \A l \in Loan, out \in 0..Principal : [at |-> "cut", l |-> l, out |-> out] \in Doing
  BY DEF Doing

LEMMA LoanFields ==
  ASSUME LendTypeOK, NEW l \in Loan
  PROVE  /\ loan[l] \in LoanRow
         /\ loan[l].by \in {"nobody", "bank", "worker"}
         /\ loan[l].of \in {"none", "worker", "business"}
         /\ loan[l].out \in 0..Principal /\ loan[l].told \in BOOLEAN
         /\ loan[l].status \in {"none", "pending", "approved", "active", "at_risk", "defaulted",
                                "repaid"}
         /\ loan[l].risk \in {"green", "yellow", "red"}
  BY DEF LendTypeOK, LoanRow

LEMMA LeftBounded ==
  ASSUME NEW seen \in Seen, NEW amount \in 1..Principal
  PROVE  Left(seen, amount) \in 0..Principal /\ Left(seen, amount) + amount >= seen.out
  BY LendAssumption DEF Left, Seen

\* The columns a handler writes, in the order in which it writes them.
Risk == {"green", "yellow", "red"}
LoanStatus ==
    {"none", "pending", "approved", "active", "at_risk", "defaulted", "repaid"}

LEMMA WritesRow ==
  ASSUME NEW row \in LoanRow, NEW s \in LoanStatus, NEW k \in Risk, NEW o \in 0..Principal,
         NEW t \in BOOLEAN
  PROVE  /\ [row EXCEPT !.status = s, !.risk = k, !.out = o] \in LoanRow
         /\ [row EXCEPT !.out = o, !.status = s, !.risk = k, !.told = t] \in LoanRow
  BY DEF LoanRow, LoanStatus, Risk

LEMMA WritesOut ==
  ASSUME NEW row \in LoanRow, NEW s \in LoanStatus, NEW o \in 0..Principal
  PROVE  [row EXCEPT !.out = o, !.status = s] \in LoanRow
  BY DEF LoanRow, LoanStatus

LEMMA NewRow ==
  ASSUME NEW by \in {"bank", "worker"}, NEW of \in {"worker", "business"}, NEW s \in LoanStatus
  PROVE  /\ [NoLoanRow EXCEPT !.by = by, !.of = of, !.status = s, !.out = Principal] \in LoanRow
         /\ [NoLoanRow EXCEPT !.by = by, !.of = of, !.out = Principal, !.status = s] \in LoanRow
<1>1. NoLoanRow \in LoanRow BY LendAssumption DEF NoLoanRow, LoanRow
<1>2. Principal \in 0..Principal BY LendAssumption
<1>3. ASSUME NEW row \in LoanRow, NEW o \in 0..Principal
      PROVE  /\ [row EXCEPT !.by = by, !.of = of, !.status = s, !.out = o] \in LoanRow
             /\ [row EXCEPT !.by = by, !.of = of, !.out = o, !.status = s] \in LoanRow
  BY DEF LoanRow, LoanStatus
<1>4. QED BY <1>1, <1>2, <1>3

\* A loan whose row is replaced keeps its type.
LEMMA SetsRow ==
  ASSUME LendTypeOK, NEW l \in Loan, NEW row \in LoanRow
  PROVE  [loan EXCEPT ![l] = row] \in [Loan -> LoanRow]
  BY DEF LendTypeOK

LEMMA SetsRequest ==
  ASSUME LendTypeOK, NEW r \in Request, NEW q \in Doing
  PROVE  [req EXCEPT ![r] = q] \in [Request -> Doing]
  BY DEF LendTypeOK

LEMMA FlagMakes ==
  ASSUME LendTypeOK, NEW l \in Loan, loan[l].status \in Open
  PROVE  /\ FlagOf(l) \in Flag /\ FlagOf(l).l = l
         /\ FlagOf(l).due # 0 => FlagOf(l).due \in Unpaid(l)
<1> DEFINE i == IF Unpaid(l) = {} THEN 0 ELSE First(Unpaid(l))
<1>1. Unpaid(l) # {} => i \in Unpaid(l)
  <2> SUFFICES ASSUME Unpaid(l) # {} PROVE First(Unpaid(l)) \in Unpaid(l)
    OBVIOUS
  <2>1. Unpaid(l) \subseteq Nat BY DEF Unpaid, Month
  <2>2. PICK k \in Unpaid(l) : \A j \in Unpaid(l) : ~ (<<j, k>> \in OpToRel(<, Nat))
    <3> HIDE DEF Unpaid
    <3>1. QED BY <2>1, NatLessThanWellFounded, WFMin
  <2>3. \A j \in Unpaid(l) : ~ (j < k) BY <2>1, <2>2, Zenon DEF OpToRel
  <2>4. \A j \in Unpaid(l) : k <= j
    <3> HIDE DEF Unpaid
    <3>1. QED BY <2>1, <2>3
  <2>5. QED BY <2>4 DEF First
<1>2. i = 0 \/ i \in Unpaid(l) BY <1>1
<1>3. Unpaid(l) \subseteq Month BY DEF Unpaid
<1> HIDE DEF i
<1>4. i \in 0..Months BY <1>2, <1>3, LendAssumption DEF Month
<1> USE DEF i
<1>5. (IF i = 0 THEN 0 ELSE late[l][i]) \in LateLevel
  BY <1>2, <1>3 DEF LendTypeOK, LateLevel
<1>6. FlagOf(l) = [l |-> l, status |-> loan[l].status, risk |-> loan[l].risk, due |-> i,
                   missed |-> i # 0 /\ rep[l][i] = "missed",
                   days |-> IF i = 0 THEN 0 ELSE late[l][i]]
  BY DEF FlagOf
<1> HIDE DEF i
<1>7. QED BY <1>2, <1>4, <1>5, <1>6, LoanFields DEF Flag

\* The columns of one row, written in the order in which a repayment writes them.
LEMMA WritesColumns ==
  ASSUME LendTypeOK, NEW l \in Loan, NEW o, NEW s, NEW k, NEW t,
         loan' = [loan EXCEPT ![l].out = o, ![l].status = s, ![l].risk = k,
                              ![l].told = @ \/ t]
  PROVE  \E row : loan' = [loan EXCEPT ![l] = row] /\ row.by = loan[l].by /\ row.out = o
<1> DEFINE row == [loan[l] EXCEPT !.out = o, !.status = s, !.risk = k, !.told = @ \/ t]
<1>1. loan' = [loan EXCEPT ![l] = row] BY DEF LendTypeOK, LoanRow
<1>2. row.by = loan[l].by /\ row.out = o BY DEF LendTypeOK, LoanRow
<1>3. QED BY <1>1, <1>2

\* What a request that marks an instalment paid writes.
LEMMA MarkPaidWrites ==
  ASSUME LendTypeOK, NEW r \in Request, NEW amount \in 1..Principal, MarkPaid(r, amount)
  PROVE  /\ req[r].at = "mark" /\ req[r].l \in Loan
         /\ rep' = [rep EXCEPT ![req[r].l][req[r].i] = "paid"]
         /\ received' = [received EXCEPT ![req[r].l] = @ + amount]
         /\ Reply(r) /\ UNCHANGED <<booked, flagging>>
         /\ \E row : loan' = [loan EXCEPT ![req[r].l] = row] /\ row.by = loan[req[r].l].by
                            /\ row.out = Left(req[r].seen, amount)
<1>1. req[r].at = "mark" BY DEF MarkPaid
<1>2. req[r].l \in Loan BY <1>1, DoingFields DEF LendTypeOK
<1>3. /\ rep' = [rep EXCEPT ![req[r].l][req[r].i] = "paid"]
      /\ received' = [received EXCEPT ![req[r].l] = @ + amount]
      /\ Reply(r) /\ UNCHANGED <<booked, flagging>>
  BY Zenon DEF MarkPaid
<1>4. PICK s, k, t :
        loan' = [loan EXCEPT ![req[r].l].out = Left(req[r].seen, amount),
                             ![req[r].l].status = s, ![req[r].l].risk = k,
                             ![req[r].l].told = @ \/ t]
  BY Zenon DEF MarkPaid
<1>5. \E row : loan' = [loan EXCEPT ![req[r].l] = row] /\ row.by = loan[req[r].l].by
                   /\ row.out = Left(req[r].seen, amount)
  <2> DEFINE l == req[r].l
             o == Left(req[r].seen, amount)
  <2>1. l \in Loan BY <1>2
  <2>2. loan' = [loan EXCEPT ![l].out = o, ![l].status = s, ![l].risk = k,
                             ![l].told = @ \/ t]
    BY <1>4
  <2> HIDE DEF l, o
  <2>3. \E row : loan' = [loan EXCEPT ![l] = row] /\ row.by = loan[l].by /\ row.out = o
    BY <2>1, <2>2, WritesColumns
  <2> USE DEF l, o
  <2>4. QED BY <2>3
<1>6. QED BY <1>1, <1>2, <1>3, <1>5

LEMMA LendTypeStep ==
  ASSUME LendTypeOK, [LendNext]_lendVars
  PROVE  LendTypeOK'
<1> USE DEF rows, books
<1>1. ASSUME NEW a \in Application, Apply(a) PROVE LendTypeOK'
  BY <1>1 DEF Apply, LendTypeOK
<1>2. ASSUME NEW r \in Request, NEW a \in Application, OpenApplication(r, a)
      PROVE LendTypeOK'
  BY <1>2, SetsRequest, DoingMakes DEF OpenApplication, Turn, LendTypeOK
<1>3. ASSUME NEW r \in Request, NEW l \in Loan, Approve(r, l) PROVE LendTypeOK'
  <2> DEFINE row == [NoLoanRow EXCEPT !.by = "bank", !.of = kind[req[r].a],
                                      !.status = "approved", !.out = Principal]
  <2>1. req[r].a \in Application BY <1>3, DoingFields DEF Approve, LendTypeOK
  <2>2. row \in LoanRow
    <3>1. kind[req[r].a] \in {"worker", "business"} BY <2>1 DEF LendTypeOK
    <3>2. QED BY <3>1, NewRow DEF LoanStatus
  <2>3. loan' \in [Loan -> LoanRow]
    <3> HIDE DEF row
    <3>1. QED BY <2>2, SetsRow, <1>3 DEF Approve, row
  <2>4. req' \in [Request -> Doing] BY <1>3, SetsRequest, DoingMakes DEF Approve, Reply
  <2>5. app' \in [Application -> {"none", "pending", "approved", "rejected"}]
    BY <1>3 DEF Approve, LendTypeOK
  <2>6. QED BY <1>3, <2>3, <2>4, <2>5 DEF Approve, LendTypeOK
<1>4. ASSUME NEW r \in Request, Reject(r) PROVE LendTypeOK'
  BY <1>4, SetsRequest, DoingMakes DEF Reject, Reply, LendTypeOK
<1>5. ASSUME NEW r \in Request, NEW l \in Loan, OpenDisburse(r, l) PROVE LendTypeOK'
  <2>1. PICK d \in Doing : req' = [req EXCEPT ![r] = d]
    <3>1. /\ [at |-> "transfer", l |-> l] \in Doing
          /\ [at |-> "book", l |-> l] \in Doing
      BY DoingMakes
    <3>2. QED BY <1>5, <3>1, Zenon DEF OpenDisburse, Turn
  <2>2. req' \in [Request -> Doing] BY <2>1, SetsRequest, Zenon DEF LendTypeOK
  <2>3. UNCHANGED <<kind, app, rows, flagging, books>> BY <1>5 DEF OpenDisburse
  <2>4. QED BY <2>2, <2>3 DEF LendTypeOK, rows, books
<1>6. ASSUME NEW r \in Request, SendLoan(r) PROVE LendTypeOK'
  <2>1. req[r].l \in Loan BY <1>6, DoingFields DEF SendLoan, LendTypeOK
  <2>2. [req[r] EXCEPT !.at = "book"] \in Doing
    <3>1. req[r] \in [at : {"transfer", "book"}, l : Loan]
      BY <1>6 DEF SendLoan, LendTypeOK, Doing, Idle
    <3>2. QED BY <3>1 DEF Doing
  <2>3. req' \in [Request -> Doing]
    BY <1>6, <2>2, SetsRequest, DoingMakes DEF SendLoan, Reply
  <2>4. sent' \in [Loan -> Nat]
    <3>1. sent' = [sent EXCEPT ![req[r].l] = @ + 1] \/ sent' = sent BY <1>6 DEF SendLoan
    <3>2. QED BY <2>1, <3>1 DEF LendTypeOK
  <2>5. QED BY <1>6, <2>3, <2>4 DEF SendLoan, LendTypeOK
<1>7. ASSUME NEW r \in Request, Book(r) PROVE LendTypeOK'
  <2>1. req[r].l \in Loan BY <1>7, DoingFields DEF Book, LendTypeOK
  <2> DEFINE l == req[r].l
             row == [loan[l] EXCEPT !.status = "active", !.risk = "green", !.out = Principal]
  <2>2. row \in LoanRow
    <3>1. Principal \in 0..Principal BY LendAssumption
    <3>2. QED BY <2>1, <3>1, LoanFields, WritesRow DEF LoanStatus, Risk
  <2>3. loan' \in [Loan -> LoanRow]
    <3>1. loan' = [loan EXCEPT ![l] = row] BY <1>7, <2>1 DEF Book, LendTypeOK
    <3> HIDE DEF row, l
    <3>2. QED BY <2>1, <2>2, <3>1, SetsRow DEF l
  <2>4. req' \in [Request -> Doing] BY <1>7, SetsRequest, DoingMakes DEF Book, Reply
  <2>5. rep' \in [Loan -> [Month -> {"none", "scheduled", "missed", "paid"}]]
    BY <1>7, <2>1 DEF Book, LendTypeOK
  <2>6. booked' \in [Loan -> Nat] /\ bank' \in [active : Int, total : Nat]
    BY <1>7, <2>1, LendAssumption DEF Book, LendTypeOK
  <2>7. QED BY <1>7, <2>3, <2>4, <2>5, <2>6 DEF Book, LendTypeOK
<1>8. ASSUME NEW r \in Request, BookFails(r) PROVE LendTypeOK'
  BY <1>8, SetsRequest, DoingMakes DEF BookFails, Reply, LendTypeOK
<1>9. ASSUME NEW r \in Request, NEW l \in Loan, NEW i \in Month, OpenRepayment(r, l, i)
      PROVE LendTypeOK'
  BY <1>9, SetsRequest, DoingMakes DEF OpenRepayment, Turn, LendTypeOK
<1>10. ASSUME NEW r \in Request, ReadLoan(r) PROVE LendTypeOK'
  <2>1. req[r].l \in Loan /\ req[r].i \in Month
    BY <1>10, DoingFields DEF ReadLoan, LendTypeOK
  <2> DEFINE seen == [status |-> loan[req[r].l].status, risk |-> loan[req[r].l].risk,
                      out |-> loan[req[r].l].out]
  <2>2. loan[req[r].l].status \in Open => seen \in Seen BY <2>1, LoanFields DEF Seen
  <2>3. req' \in [Request -> Doing]
    <3>1. CASE loan[req[r].l].status \in Open
      <4>1. req' = [req EXCEPT ![r] = [at |-> "mark", l |-> req[r].l, i |-> req[r].i,
                                       seen |-> seen]]
        BY <1>10, <3>1 DEF ReadLoan
      <4> HIDE DEF seen
      <4>2. QED BY <2>1, <2>2, <3>1, <4>1, SetsRequest, DoingMakes
    <3>2. CASE loan[req[r].l].status \notin Open
      BY <1>10, <3>2, SetsRequest, DoingMakes DEF ReadLoan, Reply
    <3>3. QED BY <3>1, <3>2
  <2>4. QED BY <1>10, <2>3 DEF ReadLoan, LendTypeOK
<1>11. ASSUME NEW r \in Request, NEW amount \in 1..Principal, MarkPaid(r, amount)
       PROVE LendTypeOK'
  <2>1. req[r].l \in Loan /\ req[r].i \in Month /\ req[r].seen \in Seen
    BY <1>11, DoingFields DEF MarkPaid, LendTypeOK
  <2> DEFINE l == req[r].l
             seen == req[r].seen
             out == Left(seen, amount)
             tells == out = 0 /\ loan[l].of = "worker"
             s == IF out = 0 THEN "repaid" ELSE seen.status
             k == IF out = 0 THEN "green" ELSE seen.risk
             t == loan[l].told \/ tells
             row == [loan[l] EXCEPT !.out = out, !.status = s, !.risk = k, !.told = t]
  <2>2. out \in 0..Principal BY <2>1, LeftBounded
  <2>3. row \in LoanRow
    <3>1. s \in LoanStatus /\ k \in Risk BY <2>1 DEF Seen, Open, LoanStatus, Risk
    <3>2. t \in BOOLEAN OBVIOUS
    <3>3. loan[l] \in LoanRow BY <2>1, LoanFields
    <3> HIDE DEF out, s, k, t, l
    <3>4. QED BY <2>2, <3>1, <3>2, <3>3, WritesRow
  <2>4. loan' = [loan EXCEPT ![l] = row]
    BY <1>11, <2>1 DEF MarkPaid, LendTypeOK
  <2>5. loan' \in [Loan -> LoanRow]
    <3> HIDE DEF row, l
    <3>1. QED BY <2>1, <2>3, <2>4, SetsRow DEF l
  <2>6. req' \in [Request -> Doing] BY <1>11, SetsRequest, DoingMakes DEF MarkPaid, Reply
  <2>7. rep' \in [Loan -> [Month -> {"none", "scheduled", "missed", "paid"}]]
    <3>1. [rep[l] EXCEPT ![req[r].i] = "paid"]
              \in [Month -> {"none", "scheduled", "missed", "paid"}]
      BY <2>1 DEF LendTypeOK
    <3>2. rep' = [rep EXCEPT ![l] = [rep[l] EXCEPT ![req[r].i] = "paid"]]
      BY <1>11, <2>1 DEF MarkPaid, LendTypeOK
    <3>3. QED BY <2>1, <3>1, <3>2 DEF LendTypeOK
  <2>8. bank' \in [active : Int, total : Nat] BY <1>11 DEF MarkPaid, LendTypeOK
  <2>9. received' \in [Loan -> Nat]
    <3>1. amount \in Nat BY LendAssumption
    <3>2. QED BY <1>11, <2>1, <3>1 DEF MarkPaid, LendTypeOK
  <2>10. QED BY <1>11, <2>5, <2>6, <2>7, <2>8, <2>9 DEF MarkPaid, LendTypeOK
<1>12. ASSUME NEW r \in Request, NEW amount \in 1..Principal, MarkFails(r, amount)
       PROVE LendTypeOK'
  BY <1>12, SetsRequest, DoingMakes DEF MarkFails, Reply, LendTypeOK
<1>13. ASSUME NEW r \in Request, Want(r) PROVE LendTypeOK'
  BY <1>13, SetsRequest, DoingMakes DEF Want, Turn, LendTypeOK
<1>14. ASSUME NEW r \in Request, NEW l \in Loan, Take(r, l) PROVE LendTypeOK'
  <2>1. PICK auto \in BOOLEAN :
          /\ loan' = [loan EXCEPT ![l] =
               [NoLoanRow EXCEPT !.by = "worker", !.of = "worker", !.out = Principal,
                                 !.status = IF auto THEN "active" ELSE "pending"]]
          /\ booked' = [booked EXCEPT ![l] = IF auto THEN 1 ELSE 0]
    BY <1>14 DEF Take
  <2> DEFINE row == [NoLoanRow EXCEPT !.by = "worker", !.of = "worker", !.out = Principal,
                                      !.status = IF auto THEN "active" ELSE "pending"]
  <2>2. row \in LoanRow BY NewRow DEF LoanStatus
  <2>3. loan' \in [Loan -> LoanRow]
    <3>1. loan' = [loan EXCEPT ![l] = row] BY <2>1
    <3> HIDE DEF row
    <3>2. QED BY <2>2, <3>1, SetsRow
  <2>4. req' \in [Request -> Doing] BY <1>14, SetsRequest, DoingMakes DEF Take, Reply
  <2>5. booked' \in [Loan -> Nat] BY <2>1 DEF LendTypeOK
  <2>6. QED BY <1>14, <2>3, <2>4, <2>5 DEF Take, LendTypeOK
<1>15. ASSUME NEW r \in Request, NEW l \in Loan, SeeLoan(r, l) PROVE LendTypeOK'
  BY <1>15, SetsRequest, DoingMakes, LoanFields DEF SeeLoan, Turn, LendTypeOK
<1>16. ASSUME NEW r \in Request, NEW part \in Cuts, CutLoan(r, part) PROVE LendTypeOK'
  <2>1. req[r].l \in Loan /\ req[r].out \in 0..Principal
    BY <1>16, DoingFields DEF CutLoan, LendTypeOK
  <2> DEFINE l == req[r].l
             cut == IF part > req[r].out THEN req[r].out ELSE part
             out == req[r].out - cut
             s == IF out = 0 THEN "repaid" ELSE "active"
             row == [loan[l] EXCEPT !.out = out, !.status = s]
  <2>2. cut \in Nat /\ out \in 0..Principal BY <2>1, LendAssumption
  <2>3. row \in LoanRow
    <3>1. loan[l] \in LoanRow BY <2>1, LoanFields
    <3>2. s \in LoanStatus BY DEF LoanStatus
    <3> HIDE DEF out, s, l
    <3>3. QED BY <2>2, <3>1, <3>2, WritesOut
  <2>4. loan' = [loan EXCEPT ![l] = row] BY <1>16, <2>1 DEF CutLoan, LendTypeOK
  <2>5. loan' \in [Loan -> LoanRow]
    <3> HIDE DEF row, l
    <3>1. QED BY <2>1, <2>3, <2>4, SetsRow DEF l
  <2>6. req' \in [Request -> Doing] BY <1>16, SetsRequest, DoingMakes DEF CutLoan, Reply
  <2>7. received' \in [Loan -> Nat]
    <3>1. received' = [received EXCEPT ![l] = @ + cut] BY <1>16 DEF CutLoan
    <3> HIDE DEF cut
    <3>2. QED BY <2>1, <2>2, <3>1 DEF LendTypeOK
  <2>8. QED BY <1>16, <2>5, <2>6, <2>7 DEF CutLoan, LendTypeOK
<1>17. ASSUME NEW l \in Loan, NEW i \in Month, GrowLate(l, i) PROVE LendTypeOK'
  <2>1. late[l][i] \in LateLevel BY DEF LendTypeOK
  <2>2. [late[l] EXCEPT ![i] = @ + 1] \in [Month -> LateLevel]
    BY <1>17, <2>1 DEF GrowLate, LendTypeOK, LateLevel
  <2>3. late' = [late EXCEPT ![l] = [late[l] EXCEPT ![i] = @ + 1]]
    BY <1>17 DEF GrowLate, LendTypeOK
  <2>4. late' \in [Loan -> [Month -> LateLevel]] BY <2>2, <2>3 DEF LendTypeOK
  <2>5. QED BY <1>17, <2>4 DEF GrowLate, LendTypeOK
<1>18. CASE CronReads
  <2>1. flagging' \subseteq Flag BY <1>18, FlagMakes DEF CronReads
  <2>2. QED BY <1>18, <2>1 DEF CronReads, LendTypeOK
<1>19. ASSUME NEW f \in flagging, FlagLoan(f) PROVE LendTypeOK'
  <2>1. f \in Flag BY DEF LendTypeOK
  <2>2. /\ f.l \in Loan /\ f.due \in 0..Months
        /\ Derive(f.days).status \in {"active", "at_risk", "defaulted"}
        /\ Derive(f.days).risk \in {"green", "yellow", "red"}
    BY <2>1 DEF Flag, Derive, LateLevel
  <2> DEFINE now == Derive(f.days)
             row == [loan[f.l] EXCEPT !.status = now.status, !.risk = now.risk]
  <2>3. row \in LoanRow
    <3> HIDE DEF now
    <3>1. QED BY <2>2, LoanFields DEF LoanRow, now
  <2>4. loan' \in [Loan -> LoanRow]
    <3>1. loan' = [loan EXCEPT ![f.l] = row] \/ loan' = loan
      BY <1>19, <2>2 DEF FlagLoan, LendTypeOK
    <3> HIDE DEF row
    <3>2. QED BY <2>2, <2>3, <3>1, SetsRow DEF LendTypeOK
  <2>5. rep' \in [Loan -> [Month -> {"none", "scheduled", "missed", "paid"}]]
    <3>1. CASE rep' = rep BY <3>1 DEF LendTypeOK
    <3>2. CASE f.due # 0 /\ rep' = [rep EXCEPT ![f.l][f.due] = "missed"]
      <4>1. f.due \in Month BY <2>2, <3>2, LendAssumption DEF Month
      <4>2. [rep[f.l] EXCEPT ![f.due] = "missed"]
                \in [Month -> {"none", "scheduled", "missed", "paid"}]
        BY <2>2, <4>1 DEF LendTypeOK
      <4>3. rep' = [rep EXCEPT ![f.l] = [rep[f.l] EXCEPT ![f.due] = "missed"]]
        BY <2>2, <3>2 DEF LendTypeOK
      <4>4. QED BY <2>2, <4>2, <4>3 DEF LendTypeOK
    <3>3. QED BY <1>19, <3>1, <3>2 DEF FlagLoan
  <2>6. QED BY <1>19, <2>4, <2>5 DEF FlagLoan, LendTypeOK
<1>20. CASE UNCHANGED lendVars BY <1>20 DEF lendVars, LendTypeOK
<1>21. QED
  BY <1>1, <1>2, <1>3, <1>4, <1>5, <1>6, <1>7, <1>8, <1>9, <1>10, <1>11, <1>12, <1>13, <1>14,
     <1>15, <1>16, <1>17, <1>18, <1>19, <1>20 DEF LendNext, Officer, Worker

LEMMA LendTypeInit == LendInit => LendTypeOK
  BY LendAssumption DEF LendInit, LendTypeOK, NoLoanRow, LoanRow, LateLevel, Doing

\* The variables of Lending keep their types: what the handlers and the cron write,
\* from whatever they have read, is a row the schema allows.
THEOREM LendTypeCorrect == LendSpec => []LendTypeOK
<1>1. LendInit => LendTypeOK BY LendTypeInit
<1>2. LendTypeOK /\ [LendNext]_lendVars => LendTypeOK' BY LendTypeStep
<1>3. QED BY <1>1, <1>2, PTL DEF LendSpec

(***************************************************************************)
(* The books.  What a request or the cron has read of a loan is old, but   *)
(* some of it cannot change: that the bank made the loan, that its         *)
(* instalments exist, and that what was owed then is at most what is owed  *)
(* or has been repaid now.                                                 *)
(***************************************************************************)
OfBank(l) == loan[l].by = "bank" /\ loan[l].status # "none"
Scheduled(l, i) == OfBank(l) /\ rep[l][i] # "none"
StillOwed(l, out) == loan[l].status # "none" /\ out + received[l] >= Principal

RowsSound ==
    \A l \in Loan :
        /\ booked[l] \in {0, 1}
        /\ Fresh(l) => loan[l].by = "nobody" /\ booked[l] = 0
        /\ loan[l].by = "bank" => (ScheduleTaken(l) <=> booked[l] = 1)
        /\ ScheduleTaken(l) => OfBank(l)

Sound(q) ==
    /\ q.at \in {"transfer", "book"} => OfBank(q.l)
    /\ q.at \in {"due", "mark"} => Scheduled(q.l, q.i)
    /\ q.at = "mark" => StillOwed(q.l, q.seen.out)
    /\ q.at = "cut" => StillOwed(q.l, q.out)

RequestsSound == \A r \in Request : Sound(req[r])

FlagsSound ==
    \A f \in flagging : OfBank(f.l) /\ (f.due # 0 => Scheduled(f.l, f.due))

LendInv == LendTypeOK /\ RowsSound /\ RequestsSound /\ FlagsSound /\ OwedCoversRest

\* Nothing a step does takes back what somebody may have read.
Grows ==
    \A l \in Loan :
        /\ loan[l].status # "none" =>
              loan'[l].by = loan[l].by /\ loan'[l].status # "none"
        /\ received'[l] >= received[l]
        /\ \A i \in Month : rep[l][i] # "none" => rep'[l][i] # "none"

LEMMA StillTrue ==
  ASSUME LendTypeOK, LendTypeOK', Grows, NEW l \in Loan
  PROVE  /\ OfBank(l) => OfBank(l)'
         /\ \A i \in Month : Scheduled(l, i) => Scheduled(l, i)'
         /\ \A out \in 0..Principal : StillOwed(l, out) => StillOwed(l, out)'
<1>1. received[l] \in Nat /\ received'[l] \in Nat BY DEF LendTypeOK
<1>2. OfBank(l) => OfBank(l)' BY DEF Grows, OfBank
<1>3. \A i \in Month : Scheduled(l, i) => Scheduled(l, i)' BY <1>2 DEF Grows, Scheduled
<1>4. \A out \in 0..Principal : StillOwed(l, out) => StillOwed(l, out)'
  BY <1>1, LendAssumption DEF Grows, StillOwed
<1>5. QED BY <1>2, <1>3, <1>4

LEMMA SoundStays ==
  ASSUME LendTypeOK, LendTypeOK', Grows, NEW q \in Doing, Sound(q)
  PROVE  Sound(q)'
<1>1. /\ q.at \in {"transfer", "book", "due", "mark", "cut"} => q.l \in Loan
      /\ q.at \in {"due", "mark"} => q.i \in Month
      /\ q.at = "mark" => q.seen.out \in 0..Principal
      /\ q.at = "cut" => q.out \in 0..Principal
  BY DoingFields DEF Seen
<1>2. QED BY <1>1, StillTrue DEF Sound

\* One request moves on, and what it holds now is sound.
LEMMA RequestsStay ==
  ASSUME LendTypeOK, LendTypeOK', Grows, RequestsSound, NEW r \in Request, NEW q \in Doing,
         req' = [req EXCEPT ![r] = q], Sound(q)'
  PROVE  RequestsSound'
<1>1. SUFFICES ASSUME NEW k \in Request PROVE Sound(req[k])' BY DEF RequestsSound
<1>2. CASE k = r
  <2>1. req'[k] = q BY <1>2 DEF LendTypeOK
  <2>2. QED BY <2>1 DEF Sound, OfBank, Scheduled, StillOwed
<1>3. CASE k # r
  <2>1. req'[k] = req[k] BY <1>3 DEF LendTypeOK
  <2>2. PICK p \in Doing : p = req[k] BY DEF LendTypeOK
  <2>3. Sound(p) BY <2>2 DEF RequestsSound
  <2>4. Sound(p)' BY <2>3, SoundStays
  <2>5. QED BY <2>1, <2>2, <2>4 DEF Sound, OfBank, Scheduled, StillOwed
<1>4. QED BY <1>2, <1>3

LEMMA RequestsWait ==
  ASSUME LendTypeOK, LendTypeOK', Grows, RequestsSound, UNCHANGED req
  PROVE  RequestsSound'
<1>1. SUFFICES ASSUME NEW k \in Request PROVE Sound(req[k])' BY DEF RequestsSound
<1>2. PICK p \in Doing : p = req[k] BY DEF LendTypeOK
<1>3. Sound(p)' BY <1>2, SoundStays DEF RequestsSound
<1>4. QED BY <1>2, <1>3 DEF Sound, OfBank, Scheduled, StillOwed

LEMMA FlagsStay ==
  ASSUME LendTypeOK, LendTypeOK', Grows, FlagsSound, flagging' \subseteq flagging
  PROVE  FlagsSound'
<1>1. SUFFICES ASSUME NEW f \in flagging
               PROVE OfBank(f.l)' /\ (f.due # 0 => Scheduled(f.l, f.due)')
  BY DEF FlagsSound
<1>2. f.l \in Loan /\ (f.due # 0 => f.due \in Month)
  BY LendAssumption DEF LendTypeOK, Flag, Month
<1>3. QED BY <1>2, StillTrue DEF FlagsSound

\* A step that touches no row and no balance.
LEMMA BooksStay ==
  ASSUME LendInv, LendTypeOK', UNCHANGED <<loan, rep, booked, received>>
  PROVE  Grows /\ RowsSound' /\ OwedCoversRest'
<1>1. Grows BY DEF Grows, LendInv, LendTypeOK
<1>2. RowsSound' BY DEF LendInv, RowsSound, Fresh, ScheduleTaken, OfBank
<1>3. OwedCoversRest' BY DEF LendInv, OwedCoversRest
<1>4. QED BY <1>1, <1>2, <1>3

\* A request that answers, or begins with something that is always sound.
LEMMA Idles ==
  ASSUME LendTypeOK, LendTypeOK', Grows, RequestsSound, NEW r \in Request,
         NEW q \in Doing, q.at \in {"idle", "decide", "wanted"}, req' = [req EXCEPT ![r] = q]
  PROVE  RequestsSound'
<1>1. Sound(q)' BY DEF Sound
<1>2. QED BY <1>1, RequestsStay

LEMMA Answers ==
  ASSUME LendTypeOK, LendTypeOK', Grows, RequestsSound, NEW r \in Request, Reply(r)
  PROVE  RequestsSound'
  BY Idles, DoingMakes DEF Reply, Idle

\* One loan gets another row.
WritesLoan(l, row) == loan' = [loan EXCEPT ![l] = row]
Receives == \A m \in Loan : received'[m] >= received[m]
KeepsSchedules == \A m \in Loan, i \in Month : rep[m][i] # "none" => rep'[m][i] # "none"
Keeps(l, row) == loan[l].status # "none" => row.by = loan[l].by /\ row.status # "none"
OthersBooks(l) == \A m \in Loan \ {l} : booked'[m] = booked[m] /\ rep'[m] = rep[m]
OthersReceive(l) == \A m \in Loan \ {l} : received'[m] = received[m]
RowBooked(l, row) ==
    /\ row.status # "none" /\ booked'[l] \in {0, 1}
    /\ row.by = "bank" => (ScheduleTaken(l)' <=> booked'[l] = 1)
    /\ ScheduleTaken(l)' => row.by = "bank"
RowOwes(l, row) ==
    row.out + received'[l] >= Principal /\ (row.status = "repaid" => row.out = 0)

LEMMA RowGrows ==
  ASSUME LendInv, LendTypeOK', NEW l \in Loan, NEW row \in LoanRow,
         WritesLoan(l, row), Keeps(l, row), Receives, KeepsSchedules
  PROVE  Grows
<1>1. loan \in [Loan -> LoanRow] BY DEF LendInv, LendTypeOK
<1>2. QED BY <1>1 DEF Grows, WritesLoan, Keeps, Receives, KeepsSchedules

LEMMA RowSound ==
  ASSUME LendInv, NEW l \in Loan, NEW row \in LoanRow,
         WritesLoan(l, row), OthersBooks(l), RowBooked(l, row)
  PROVE  RowsSound'
<1> USE DEF WritesLoan, OthersBooks, RowBooked
<1>1. SUFFICES ASSUME NEW m \in Loan
               PROVE  /\ booked'[m] \in {0, 1}
                      /\ Fresh(m)' => loan'[m].by = "nobody" /\ booked'[m] = 0
                      /\ loan'[m].by = "bank" => (ScheduleTaken(m)' <=> booked'[m] = 1)
                      /\ ScheduleTaken(m)' => OfBank(m)'
  BY DEF RowsSound
<1>2. loan \in [Loan -> LoanRow] BY DEF LendInv, LendTypeOK
<1>3. CASE m = l
  <2>1. loan'[m] = row BY <1>2, <1>3
  <2>2. QED BY <1>3, <2>1 DEF Fresh, OfBank
<1>4. CASE m # l
  <2>1. loan'[m] = loan[m] BY <1>2, <1>4
  <2>2. booked'[m] = booked[m] /\ (ScheduleTaken(m)' <=> ScheduleTaken(m))
    BY <1>4 DEF ScheduleTaken
  <2>3. QED BY <2>1, <2>2 DEF Fresh, OfBank, LendInv, RowsSound
<1>5. QED BY <1>3, <1>4

LEMMA RowOwed ==
  ASSUME LendInv, NEW l \in Loan, NEW row \in LoanRow,
         WritesLoan(l, row), OthersReceive(l), RowOwes(l, row)
  PROVE  OwedCoversRest'
<1> USE DEF WritesLoan, OthersReceive, RowOwes
<1>1. loan \in [Loan -> LoanRow] BY DEF LendInv, LendTypeOK
<1>2. SUFFICES ASSUME NEW m \in Loan
               PROVE  /\ loan'[m].status # "none" => loan'[m].out + received'[m] >= Principal
                      /\ loan'[m].status = "repaid" => loan'[m].out = 0
  BY DEF OwedCoversRest
<1>3. CASE m = l BY <1>1, <1>3
<1>4. CASE m # l BY <1>1, <1>4 DEF LendInv, OwedCoversRest
<1>5. QED BY <1>3, <1>4

\* A step that receives nothing.
LEMMA NothingReceived ==
  ASSUME LendInv, UNCHANGED received
  PROVE  Receives /\ \A l \in Loan : OthersReceive(l)
  BY DEF Receives, OthersReceive, LendInv, LendTypeOK

\* A step that books nothing and makes no instalments.
LEMMA NothingBooked ==
  ASSUME UNCHANGED <<booked, rep>>
  PROVE  KeepsSchedules /\ \A l \in Loan : OthersBooks(l)
  BY DEF KeepsSchedules, OthersBooks

\* What is written over a row that exists is sound when its books are.
LEMMA RowStaysBooked ==
  ASSUME LendInv, NEW l \in Loan, NEW row \in LoanRow, loan[l].status # "none",
         row.by = loan[l].by, row.status # "none",
         booked'[l] = booked[l], ScheduleTaken(l)' <=> ScheduleTaken(l)
  PROVE  RowBooked(l, row) /\ Keeps(l, row)
  BY DEF RowBooked, Keeps, LendInv, RowsSound, OfBank

LEMMA ApproveSound ==
  ASSUME LendInv, LendTypeOK', NEW r \in Request, NEW l \in Loan, Approve(r, l)
  PROVE  LendInv'
<1> DEFINE row == [NoLoanRow EXCEPT !.by = "bank", !.of = kind[req[r].a],
                                    !.status = "approved", !.out = Principal]
<1>1. row \in LoanRow
  <2>1. req[r].a \in Application BY DoingFields DEF Approve, LendInv, LendTypeOK
  <2>2. kind[req[r].a] \in {"worker", "business"} BY <2>1 DEF LendInv, LendTypeOK
  <2>3. QED BY <2>2, NewRow DEF LoanStatus
<1>2. row.by = "bank" /\ row.status = "approved" /\ row.out = Principal BY DEF NoLoanRow
<1>3. WritesLoan(l, row) /\ UNCHANGED <<rep, booked, received, flagging>>
  BY DEF Approve, books, WritesLoan
<1>4. loan[l].status = "none" /\ received[l] \in Nat
  BY DEF Approve, Fresh, LendInv, LendTypeOK
<1>5. booked[l] = 0 /\ ~ ScheduleTaken(l) BY <1>4 DEF LendInv, RowsSound, Fresh, OfBank
<1> HIDE DEF row
<1>6. Keeps(l, row) BY <1>4 DEF Keeps
<1>7. RowBooked(l, row) BY <1>2, <1>3, <1>5 DEF RowBooked, ScheduleTaken
<1>8. RowOwes(l, row) BY <1>2, <1>3, <1>4, LendAssumption DEF RowOwes
<1>9. Grows BY <1>1, <1>3, <1>6, NothingReceived, NothingBooked, RowGrows
<1>10. RowsSound' BY <1>1, <1>3, <1>7, NothingBooked, RowSound
<1>11. OwedCoversRest' BY <1>1, <1>3, <1>8, NothingReceived, RowOwed
<1>12. RequestsSound' BY <1>9, Answers DEF Approve, LendInv
<1>13. FlagsSound' BY <1>3, <1>9, FlagsStay DEF LendInv
<1>14. QED BY <1>10, <1>11, <1>12, <1>13 DEF LendInv

LEMMA TakeSound ==
  ASSUME LendInv, LendTypeOK', NEW r \in Request, NEW l \in Loan, Take(r, l)
  PROVE  LendInv'
<1>1. PICK auto \in BOOLEAN :
        /\ loan' = [loan EXCEPT ![l] =
             [NoLoanRow EXCEPT !.by = "worker", !.of = "worker", !.out = Principal,
                               !.status = IF auto THEN "active" ELSE "pending"]]
        /\ booked' = [booked EXCEPT ![l] = IF auto THEN 1 ELSE 0]
  BY DEF Take
<1> DEFINE row == [NoLoanRow EXCEPT !.by = "worker", !.of = "worker", !.out = Principal,
                                    !.status = IF auto THEN "active" ELSE "pending"]
<1>2. row \in LoanRow BY NewRow DEF LoanStatus
<1>3. row.by = "worker" /\ row.status \in {"active", "pending"} /\ row.out = Principal
  BY DEF NoLoanRow
<1>4. WritesLoan(l, row) /\ UNCHANGED <<rep, received, flagging>>
  BY <1>1 DEF Take, WritesLoan
<1>5. loan[l].status = "none" /\ received[l] \in Nat
  BY DEF Take, Fresh, LendInv, LendTypeOK
<1>6. ~ ScheduleTaken(l) BY <1>5 DEF LendInv, RowsSound, OfBank
<1> HIDE DEF row
<1>7. Keeps(l, row) BY <1>5 DEF Keeps
<1>8. RowBooked(l, row)
  <2>1. booked'[l] \in {0, 1} /\ ~ ScheduleTaken(l)'
    BY <1>1, <1>4, <1>6 DEF ScheduleTaken, LendInv, LendTypeOK
  <2>2. QED BY <1>3, <2>1 DEF RowBooked
<1>9. OthersBooks(l) /\ KeepsSchedules
  BY <1>1, <1>4 DEF OthersBooks, KeepsSchedules, LendInv, LendTypeOK
<1>10. RowOwes(l, row) BY <1>3, <1>4, <1>5, LendAssumption DEF RowOwes
<1>11. Grows BY <1>2, <1>4, <1>7, <1>9, NothingReceived, RowGrows
<1>12. RowsSound' BY <1>2, <1>4, <1>8, <1>9, RowSound
<1>13. OwedCoversRest' BY <1>2, <1>4, <1>10, NothingReceived, RowOwed
<1>14. RequestsSound' BY <1>11, Answers DEF Take, LendInv
<1>15. FlagsSound' BY <1>4, <1>11, FlagsStay DEF LendInv
<1>16. QED BY <1>12, <1>13, <1>14, <1>15 DEF LendInv

LEMMA BookSound ==
  ASSUME LendInv, LendTypeOK', NEW r \in Request, Book(r)
  PROVE  LendInv'
<1>0. PICK l \in Loan : l = req[r].l BY DoingFields DEF Book, LendInv, LendTypeOK
<1> DEFINE row == [loan[l] EXCEPT !.status = "active", !.risk = "green", !.out = Principal]
<1>1. l \in Loan /\ OfBank(l)
  BY <1>0 DEF Book, LendInv, RequestsSound, Sound, OfBank
<1>2. loan[l] \in LoanRow BY <1>1, LoanFields DEF LendInv
<1>3. row \in LoanRow
  <2>1. Principal \in 0..Principal BY LendAssumption
  <2>2. QED BY <1>2, <2>1, WritesRow DEF LoanStatus, Risk
<1>4. row.by = "bank" /\ row.status = "active" /\ row.out = Principal
  BY <1>1, <1>2 DEF OfBank, LoanRow
<1>5. /\ WritesLoan(l, row)
      /\ rep' = [rep EXCEPT ![l] = [i \in Month |-> "scheduled"]]
      /\ booked' = [booked EXCEPT ![l] = @ + 1]
      /\ UNCHANGED <<received, flagging>>
  BY <1>0, <1>1 DEF Book, LendInv, LendTypeOK, WritesLoan
<1>6. received[l] \in Nat BY <1>1 DEF LendInv, LendTypeOK
<1>7. booked[l] = 0 BY <1>0, <1>1 DEF Book, LendInv, RowsSound, OfBank
<1>8. 1 \in Month BY LendAssumption DEF Month
<1> HIDE DEF row
<1>9. KeepsSchedules BY <1>1, <1>5 DEF KeepsSchedules, LendInv, LendTypeOK
<1>10. Keeps(l, row) BY <1>1, <1>4 DEF Keeps, OfBank
<1>11. RowBooked(l, row)
  <2>1. booked'[l] = 1
    <3>1. booked \in [Loan -> Nat] BY DEF LendInv, LendTypeOK
    <3>2. QED BY <1>1, <1>5, <1>7, <3>1
  <2>2. rep'[l] = [i \in Month |-> "scheduled"]
    BY <1>1, <1>5 DEF LendInv, LendTypeOK
  <2>3. ScheduleTaken(l)' BY <1>8, <2>2 DEF ScheduleTaken
  <2>4. QED BY <1>4, <2>1, <2>3 DEF RowBooked
<1>12. OthersBooks(l) BY <1>5 DEF OthersBooks, LendInv, LendTypeOK
<1>13. RowOwes(l, row) BY <1>4, <1>5, <1>6, LendAssumption DEF RowOwes
<1>14. Grows BY <1>1, <1>3, <1>5, <1>9, <1>10, NothingReceived, RowGrows
<1>15. RowsSound' BY <1>1, <1>3, <1>5, <1>11, <1>12, RowSound
<1>16. OwedCoversRest' BY <1>1, <1>3, <1>5, <1>13, NothingReceived, RowOwed
<1>17. RequestsSound' BY <1>14, Answers DEF Book, LendInv
<1>18. FlagsSound' BY <1>5, <1>14, FlagsStay DEF LendInv
<1>19. QED BY <1>15, <1>16, <1>17, <1>18 DEF LendInv


LEMMA MarkPaidSound ==
  ASSUME LendInv, LendTypeOK', NEW r \in Request, NEW amount \in 1..Principal,
         MarkPaid(r, amount)
  PROVE  LendInv'
<1>0. PICK l \in Loan, i \in Month, seen \in Seen :
        l = req[r].l /\ i = req[r].i /\ seen = req[r].seen
  BY DoingFields DEF MarkPaid, LendInv, LendTypeOK
<1> DEFINE out == Left(seen, amount)
           tells == out = 0 /\ loan[l].of = "worker"
           s == IF out = 0 THEN "repaid" ELSE seen.status
           k == IF out = 0 THEN "green" ELSE seen.risk
           row == [loan[l] EXCEPT !.out = out, !.status = s, !.risk = k,
                                  !.told = loan[l].told \/ tells]
<1>1. Scheduled(l, i) /\ StillOwed(l, seen.out)
  <2>1. req[r].at = "mark" BY DEF MarkPaid
  <2>2. Scheduled(req[r].l, req[r].i) /\ StillOwed(req[r].l, req[r].seen.out)
    BY <2>1 DEF LendInv, RequestsSound, Sound
  <2>3. QED BY <1>0, <2>2
<1>2. out \in 0..Principal /\ out + amount >= seen.out BY LeftBounded
<1>3. loan[l] \in LoanRow BY LoanFields DEF LendInv
<1>4. s \in LoanStatus \ {"none"} /\ k \in Risk BY DEF Seen, Open, LoanStatus, Risk
<1>5. /\ rep' = [rep EXCEPT ![l][i] = "paid"]
      /\ received' = [received EXCEPT ![l] = @ + amount]
      /\ UNCHANGED <<booked, flagging>>
  BY <1>0, MarkPaidWrites DEF LendInv
<1>6. WritesLoan(l, row) BY <1>0, <1>3 DEF MarkPaid, WritesLoan, LendInv, LendTypeOK, LoanRow
<1>7. tells \in BOOLEAN /\ (s = "repaid" => out = 0) BY DEF Seen, Open
<1> HIDE DEF out, tells, s, k
<1>8. row \in LoanRow BY <1>2, <1>3, <1>4, <1>7, WritesRow
<1>9. row.by = loan[l].by /\ row.status = s /\ row.out = out BY <1>3 DEF LoanRow
<1>10. WritesLoan(l, row) BY <1>6
<1> HIDE DEF row
<1>11. \A m \in Loan : m # l => rep'[m] = rep[m] BY <1>5 DEF LendInv, LendTypeOK
<1>12. \A j \in Month : rep'[l][j] # "none" <=> rep[l][j] # "none"
  BY <1>1, <1>5 DEF LendInv, LendTypeOK, Scheduled
<1>13. KeepsSchedules BY <1>11, <1>12 DEF KeepsSchedules
<1>14. OthersBooks(l) BY <1>5, <1>11 DEF OthersBooks
<1>15. RowBooked(l, row) /\ Keeps(l, row)
  <2>1. ScheduleTaken(l)' <=> ScheduleTaken(l) BY <1>12 DEF ScheduleTaken
  <2>2. QED BY <1>1, <1>4, <1>5, <1>8, <1>9, <2>1, RowStaysBooked DEF Scheduled, OfBank
<1>16. received \in [Loan -> Nat] /\ amount \in Nat
  BY LendAssumption DEF LendInv, LendTypeOK
<1>17. Receives /\ OthersReceive(l) BY <1>5, <1>16 DEF Receives, OthersReceive
<1>18. RowOwes(l, row)
  <2>1. seen.out \in 0..Principal BY DEF Seen
  <2>2. received'[l] = received[l] + amount BY <1>5, <1>16
  <2>3. QED BY <1>1, <1>2, <1>7, <1>9, <1>16, <2>1, <2>2, LendAssumption DEF RowOwes, StillOwed
<1>19. Grows BY <1>8, <1>10, <1>13, <1>15, <1>17, RowGrows
<1>20. RowsSound' BY <1>8, <1>10, <1>14, <1>15, RowSound
<1>21. OwedCoversRest' BY <1>8, <1>10, <1>17, <1>18, RowOwed
<1>22. RequestsSound' BY <1>19, Answers DEF MarkPaid, LendInv
<1>23. FlagsSound' BY <1>5, <1>19, FlagsStay DEF LendInv
<1>24. QED BY <1>20, <1>21, <1>22, <1>23 DEF LendInv

LEMMA CutLoanSound ==
  ASSUME LendInv, LendTypeOK', NEW r \in Request, NEW part \in Cuts, CutLoan(r, part)
  PROVE  LendInv'
<1>0. PICK l \in Loan, seen \in 0..Principal : l = req[r].l /\ seen = req[r].out
  BY DoingFields DEF CutLoan, LendInv, LendTypeOK
<1> DEFINE cut == IF part > seen THEN seen ELSE part
           out == seen - cut
           s == IF out = 0 THEN "repaid" ELSE "active"
           row == [loan[l] EXCEPT !.out = out, !.status = s]
<1>1. StillOwed(l, seen)
  <2>1. req[r].at = "cut" BY DEF CutLoan
  <2>2. StillOwed(req[r].l, req[r].out) BY <2>1 DEF LendInv, RequestsSound, Sound
  <2>3. QED BY <1>0, <2>2
<1>2. cut \in Nat /\ out \in 0..Principal /\ out + cut = seen BY LendAssumption
<1>3. loan[l] \in LoanRow BY LoanFields DEF LendInv
<1>4. s \in LoanStatus \ {"none"} /\ (s = "repaid" => out = 0) BY DEF LoanStatus
<1>5. received' = [received EXCEPT ![l] = @ + cut] /\ UNCHANGED <<rep, booked, flagging>>
  BY <1>0 DEF CutLoan
<1>6. WritesLoan(l, row) BY <1>0, <1>3 DEF CutLoan, WritesLoan, LendInv, LendTypeOK, LoanRow
<1> HIDE DEF cut, out, s
<1>7. row \in LoanRow BY <1>2, <1>3, <1>4, WritesOut
<1>8. row.by = loan[l].by /\ row.status = s /\ row.out = out BY <1>3 DEF LoanRow
<1>9. WritesLoan(l, row) BY <1>6
<1> HIDE DEF row
<1>10. RowBooked(l, row) /\ Keeps(l, row)
  <2>1. ScheduleTaken(l)' <=> ScheduleTaken(l) BY <1>5 DEF ScheduleTaken
  <2>2. QED BY <1>1, <1>4, <1>5, <1>7, <1>8, <2>1, RowStaysBooked DEF StillOwed
<1>11. received \in [Loan -> Nat] BY DEF LendInv, LendTypeOK
<1>12. Receives /\ OthersReceive(l) BY <1>2, <1>5, <1>11 DEF Receives, OthersReceive
<1>13. RowOwes(l, row)
  <2>1. received'[l] = received[l] + cut BY <1>5, <1>11
  <2>2. QED BY <1>1, <1>2, <1>4, <1>8, <1>11, <2>1, LendAssumption DEF RowOwes, StillOwed
<1>14. Grows BY <1>5, <1>7, <1>9, <1>10, <1>12, NothingBooked, RowGrows
<1>15. RowsSound' BY <1>5, <1>7, <1>9, <1>10, NothingBooked, RowSound
<1>16. OwedCoversRest' BY <1>7, <1>9, <1>12, <1>13, RowOwed
<1>17. RequestsSound' BY <1>14, Answers DEF CutLoan, LendInv
<1>18. FlagsSound' BY <1>5, <1>14, FlagsStay DEF LendInv
<1>19. QED BY <1>15, <1>16, <1>17, <1>18 DEF LendInv

LEMMA FlagLoanSound ==
  ASSUME LendInv, LendTypeOK', NEW f \in flagging, FlagLoan(f)
  PROVE  LendInv'
<1>0. PICK l \in Loan : l = f.l BY DEF LendInv, LendTypeOK, Flag
<1> DEFINE now == Derive(f.days)
           s == now.status
           k == now.risk
           row == [loan[l] EXCEPT !.status = s, !.risk = k]
<1>1. OfBank(l) /\ (f.due # 0 => f.due \in Month /\ Scheduled(l, f.due))
  <2>1. f \in Flag BY DEF LendInv, LendTypeOK
  <2>2. f.due # 0 => f.due \in Month BY <2>1, LendAssumption DEF Flag, Month
  <2>3. OfBank(f.l) /\ (f.due # 0 => Scheduled(f.l, f.due)) BY DEF LendInv, FlagsSound
  <2>4. QED BY <1>0, <2>2, <2>3
<1>2. s \in {"active", "at_risk", "defaulted"} /\ k \in Risk
  BY DEF LendInv, LendTypeOK, Flag, Derive, LateLevel, Risk
<1>3. loan[l] \in LoanRow BY LoanFields DEF LendInv
<1>4. UNCHANGED <<booked, received, req>> /\ flagging' \subseteq flagging
  BY DEF FlagLoan, books
<1>5. \/ loan' = loan
      \/ WritesLoan(l, row)
  <2>1. \/ loan' = loan
        \/ loan' = [loan EXCEPT ![l].status = s, ![l].risk = k]
    BY <1>0, Zenon DEF FlagLoan
  <2>2. [loan EXCEPT ![l].status = s, ![l].risk = k] = [loan EXCEPT ![l] = row]
    <3> HIDE DEF s, k
    <3>1. loan \in [Loan -> LoanRow] BY DEF LendInv, LendTypeOK
    <3>2. QED BY <1>3, <3>1, Zenon DEF LoanRow
  <2>3. QED BY <2>1, <2>2, Zenon DEF WritesLoan
<1>6. rep' = rep \/ (f.due # 0 /\ rep' = [rep EXCEPT ![l][f.due] = "missed"])
  BY <1>0 DEF FlagLoan
<1> HIDE DEF s, k
<1>7. row \in LoanRow BY <1>2, <1>3 DEF LoanRow, Risk
<1>8. row.by = loan[l].by /\ row.status = s /\ row.out = loan[l].out BY <1>3 DEF LoanRow
<1> HIDE DEF row
<1>9. PICK new \in LoanRow :
        /\ WritesLoan(l, new) /\ new.by = loan[l].by /\ new.out = loan[l].out
        /\ new.status = loan[l].status \/ new.status \in {"active", "at_risk", "defaulted"}
  <2>1. CASE loan' = loan
    <3>1. WritesLoan(l, loan[l]) BY <2>1 DEF WritesLoan, LendInv, LendTypeOK
    <3>2. QED BY <1>3, <3>1
  <2>2. CASE WritesLoan(l, row) BY <1>2, <1>7, <1>8, <2>2
  <2>3. QED BY <1>5, <2>1, <2>2
<1>10. \A m \in Loan : m # l => rep'[m] = rep[m] BY <1>6 DEF LendInv, LendTypeOK
<1>11. \A j \in Month : rep'[l][j] # "none" <=> rep[l][j] # "none"
  BY <1>1, <1>6 DEF LendInv, LendTypeOK, Scheduled
<1>12. KeepsSchedules BY <1>10, <1>11 DEF KeepsSchedules
<1>13. OthersBooks(l) BY <1>4, <1>10 DEF OthersBooks
<1>14. RowBooked(l, new) /\ Keeps(l, new)
  <2>1. ScheduleTaken(l)' <=> ScheduleTaken(l) BY <1>11 DEF ScheduleTaken
  <2>2. new.status # "none" BY <1>1, <1>9 DEF OfBank
  <2>3. QED BY <1>1, <1>4, <1>9, <2>1, <2>2, RowStaysBooked DEF OfBank
<1>15. RowOwes(l, new)
  <2>1. /\ loan[l].out + received[l] >= Principal
        /\ loan[l].status = "repaid" => loan[l].out = 0
    BY <1>1 DEF LendInv, OwedCoversRest, OfBank
  <2>2. QED BY <1>4, <1>9, <2>1 DEF RowOwes
<1>16. Grows BY <1>4, <1>9, <1>12, <1>14, NothingReceived, RowGrows
<1>17. RowsSound' BY <1>9, <1>13, <1>14, RowSound
<1>18. OwedCoversRest' BY <1>4, <1>9, <1>15, NothingReceived, RowOwed
<1>19. RequestsSound' BY <1>4, <1>16, RequestsWait DEF LendInv
<1>20. FlagsSound' BY <1>4, <1>16, FlagsStay DEF LendInv
<1>21. QED BY <1>17, <1>18, <1>19, <1>20 DEF LendInv

\* The steps that only read, answer or wait.
LEMMA QuietSound ==
  ASSUME LendInv, LendTypeOK', UNCHANGED <<loan, rep, booked, received>>,
         RequestsSound', FlagsSound'
  PROVE  LendInv'
  BY BooksStay DEF LendInv

\* A request that goes on with something sound, while no row changes.
LEMMA AsksSound ==
  ASSUME LendInv, LendTypeOK', UNCHANGED <<loan, rep, booked, received, flagging>>,
         NEW r \in Request, NEW q \in Doing, req' = [req EXCEPT ![r] = q], Sound(q)
  PROVE  LendInv'
<1>1. Grows BY BooksStay
<1>2. Sound(q)' BY <1>1, SoundStays DEF LendInv
<1>3. RequestsSound' BY <1>1, <1>2, RequestsStay DEF LendInv
<1>4. FlagsSound' BY <1>1, FlagsStay DEF LendInv
<1>5. QED BY <1>3, <1>4, QuietSound

LEMMA LendInvStep ==
  ASSUME LendInv, [LendNext]_lendVars
  PROVE  LendInv'
<1> USE DEF rows, books
<1>0. LendTypeOK' BY LendTypeStep DEF LendInv
<1>1. ASSUME UNCHANGED <<loan, rep, booked, received, flagging>>,
             NEW r \in Request, Reply(r)
      PROVE  LendInv'
  BY <1>0, <1>1, AsksSound, DoingMakes DEF Reply, Sound, Idle
<1>2. ASSUME UNCHANGED <<loan, rep, booked, received, flagging>>,
             NEW r \in Request, NEW q \in Doing, Turn(r, q), Sound(q)
      PROVE  LendInv'
  BY <1>0, <1>2, AsksSound DEF Turn
<1>3. ASSUME UNCHANGED <<loan, rep, booked, received, req, flagging>> PROVE LendInv'
  <2>1. Grows BY <1>0, <1>3, BooksStay
  <2>2. QED BY <1>0, <1>3, <2>1, RequestsWait, FlagsStay, QuietSound DEF LendInv
<1>4. ASSUME NEW a \in Application, Apply(a) PROVE LendInv' BY <1>3, <1>4 DEF Apply
<1>5. ASSUME NEW r \in Request, NEW a \in Application, OpenApplication(r, a)
      PROVE LendInv'
  BY <1>2, <1>5, DoingMakes DEF OpenApplication, Sound
<1>6. ASSUME NEW r \in Request, Reject(r) PROVE LendInv' BY <1>1, <1>6 DEF Reject
<1>7. ASSUME NEW r \in Request, NEW l \in Loan, OpenDisburse(r, l) PROVE LendInv'
  <2>1. OfBank(l) BY <1>7 DEF OpenDisburse, OfBank
  <2>2. Sound([at |-> "transfer", l |-> l]) /\ Sound([at |-> "book", l |-> l])
    BY <2>1 DEF Sound
  <2>3. QED BY <1>2, <1>7, <2>2, DoingMakes DEF OpenDisburse
<1>8. ASSUME NEW r \in Request, SendLoan(r) PROVE LendInv'
  <2>1. CASE Reply(r) BY <1>1, <1>8, <2>1 DEF SendLoan
  <2>2. CASE req' = [req EXCEPT ![r].at = "book"]
    <3>1. PICK l \in Loan : req[r] = [at |-> "transfer", l |-> l]
      BY <1>8 DEF SendLoan, LendInv, LendTypeOK, Doing, Idle
    <3>2. req' = [req EXCEPT ![r] = [at |-> "book", l |-> l]]
      <4>1. [req[r] EXCEPT !.at = "book"] = [at |-> "book", l |-> l] BY <3>1
      <4>2. req' = [req EXCEPT ![r] = [req[r] EXCEPT !.at = "book"]]
        BY <2>2 DEF LendInv, LendTypeOK
      <4>3. QED BY <4>1, <4>2
    <3>3. OfBank(l)
      <4>1. req[r].at = "transfer" /\ req[r].l = l BY <3>1
      <4>2. OfBank(req[r].l) BY <4>1 DEF LendInv, RequestsSound, Sound
      <4>3. QED BY <4>1, <4>2
    <3>4. Sound([at |-> "book", l |-> l]) BY <3>3 DEF Sound
    <3>5. QED BY <1>0, <1>8, <3>2, <3>4, DoingMakes, AsksSound DEF SendLoan
  <2>3. QED BY <1>8, <2>1, <2>2 DEF SendLoan
<1>9. ASSUME NEW r \in Request, BookFails(r) PROVE LendInv' BY <1>1, <1>9 DEF BookFails
<1>10. ASSUME NEW r \in Request, NEW l \in Loan, NEW i \in Month, OpenRepayment(r, l, i)
       PROVE LendInv'
  <2>1. Scheduled(l, i)
    <3>1. ScheduleTaken(l) /\ rep[l][i] # "none" BY <1>10 DEF OpenRepayment, ScheduleTaken
    <3>2. QED BY <3>1 DEF LendInv, RowsSound, Scheduled
  <2>2. Sound([at |-> "due", l |-> l, i |-> i]) BY <2>1 DEF Sound
  <2>3. QED BY <1>2, <1>10, <2>2, DoingMakes DEF OpenRepayment
<1>11. ASSUME NEW r \in Request, ReadLoan(r) PROVE LendInv'
  <2>1. CASE Reply(r) BY <1>1, <1>11, <2>1 DEF ReadLoan
  <2>2. CASE ~ Reply(r)
    <3>1. PICK l \in Loan, i \in Month : l = req[r].l /\ i = req[r].i
      BY <1>11, DoingFields DEF ReadLoan, LendInv, LendTypeOK
    <3>2. loan[l].status \in Open
      BY <1>11, <2>2, <3>1 DEF ReadLoan
    <3>3. PICK seen \in Seen : seen = [status |-> loan[l].status, risk |-> loan[l].risk,
                                       out |-> loan[l].out]
      BY <3>2, LoanFields DEF Seen, LendInv
    <3>4. req' = [req EXCEPT ![r] = [at |-> "mark", l |-> l, i |-> i, seen |-> seen]]
      BY <1>11, <3>1, <3>2, <3>3 DEF ReadLoan
    <3>5. Scheduled(l, i)
      <4>1. req[r].at = "due" BY <1>11 DEF ReadLoan
      <4>2. Scheduled(req[r].l, req[r].i) BY <4>1 DEF LendInv, RequestsSound, Sound
      <4>3. QED BY <3>1, <4>2
    <3>6. StillOwed(l, seen.out)
      BY <3>3, <3>5 DEF LendInv, OwedCoversRest, StillOwed, Scheduled, OfBank
    <3>7. Sound([at |-> "mark", l |-> l, i |-> i, seen |-> seen])
      BY <3>5, <3>6 DEF Sound
    <3>8. QED BY <1>0, <1>11, <3>4, <3>7, DoingMakes, AsksSound DEF ReadLoan
  <2>3. QED BY <2>1, <2>2
<1>12. ASSUME NEW r \in Request, NEW amount \in 1..Principal, MarkFails(r, amount)
       PROVE LendInv'
  BY <1>1, <1>12 DEF MarkFails
<1>13. ASSUME NEW r \in Request, Want(r) PROVE LendInv'
  BY <1>2, <1>13, DoingMakes DEF Want, Sound
<1>14. ASSUME NEW r \in Request, NEW l \in Loan, SeeLoan(r, l) PROVE LendInv'
  <2>1. PICK out \in 0..Principal : out = loan[l].out BY LoanFields DEF LendInv
  <2>2. StillOwed(l, out)
    BY <1>14, <2>1 DEF SeeLoan, StillOwed, LendInv, OwedCoversRest
  <2>3. Sound([at |-> "cut", l |-> l, out |-> out]) BY <2>2 DEF Sound
  <2>4. QED BY <1>2, <1>14, <2>1, <2>3, DoingMakes DEF SeeLoan
<1>15. ASSUME NEW l \in Loan, NEW i \in Month, GrowLate(l, i) PROVE LendInv'
  BY <1>3, <1>15 DEF GrowLate
<1>16. CASE CronReads
  <2>1. Grows BY <1>0, <1>16, BooksStay DEF CronReads
  <2>2. RequestsSound' BY <1>0, <1>16, <2>1, RequestsWait DEF CronReads, LendInv
  <2>3. FlagsSound'
    <3>1. SUFFICES ASSUME NEW f \in flagging'
                   PROVE  OfBank(f.l)' /\ (f.due # 0 => Scheduled(f.l, f.due)')
      BY DEF FlagsSound
    <3>2. PICK l \in Loan :
            loan[l].by = "bank" /\ loan[l].status \in Open /\ f = FlagOf(l)
      BY <1>16, <3>1 DEF CronReads
    <3>3. OfBank(l) BY <3>2 DEF OfBank, Open
    <3>4. f.l = l /\ (f.due # 0 => f.due \in Unpaid(l))
      BY <3>2, FlagMakes DEF LendInv
    <3>5. f.due # 0 => Scheduled(l, f.due) BY <3>3, <3>4 DEF Unpaid, Scheduled
    <3>6. QED BY <1>16, <3>3, <3>4, <3>5 DEF CronReads, OfBank, Scheduled
  <2>4. QED BY <1>0, <1>16, <2>2, <2>3, QuietSound DEF CronReads
<1>17. CASE UNCHANGED lendVars BY <1>3, <1>17 DEF lendVars
<1>18. QED
  BY <1>0, <1>4, <1>5, <1>6, <1>7, <1>8, <1>9, <1>10, <1>11, <1>12, <1>13, <1>14, <1>15,
     <1>16, <1>17, ApproveSound, TakeSound, BookSound, MarkPaidSound, CutLoanSound,
     FlagLoanSound
  DEF LendNext, Officer, Worker

LEMMA LendInvariant == LendSpec => []LendInv
<1>1. LendInit => LendInv
  <2>1. LendInit => LendTypeOK
    BY LendAssumption DEF LendInit, LendTypeOK, NoLoanRow, LoanRow, LateLevel, Doing
  <2>2. LendInit => RowsSound /\ RequestsSound /\ FlagsSound /\ OwedCoversRest
    BY DEF LendInit, NoLoanRow, RowsSound, RequestsSound, FlagsSound, OwedCoversRest,
           Fresh, ScheduleTaken, OfBank, Sound, Idle
  <2>3. QED BY <2>1, <2>2 DEF LendInv
<1>2. LendInv /\ [LendNext]_lendVars => LendInv' BY LendInvStep
<1>3. QED BY <1>1, <1>2, PTL DEF LendSpec

\* Whatever handlers overwrite each other's balance and however late the cron writes,
\* what is outstanding on a loan covers what has not been repaid, and a loan that is
\* called repaid has nothing outstanding (bank-loans.service.ts, job-completion.service.ts).
THEOREM OwedCovers == LendSpec => []OwedCoversRest
<1>1. LendInv => OwedCoversRest BY DEF LendInv
<1>2. QED BY <1>1, LendInvariant, PTL

(***************************************************************************)
(* What the bank says it has lent is what was lent.                        *)
(***************************************************************************)
OnBooks == {l \in Loan : loan[l].by = "bank" /\ booked[l] = 1}
BankBooks == bank.total = Principal * Cardinality(OnBooks)

\* The columns that decide who lent a loan are written when it is made, and only then.
LEMMA WrittenBy ==
  ASSUME LendInv, [LendNext]_lendVars, UNCHANGED booked, NEW m \in Loan
  PROVE  loan[m].status # "none" => loan'[m].by = loan[m].by
<1> USE DEF rows, books
<1>1. loan \in [Loan -> LoanRow] /\ loan[m] \in LoanRow BY DEF LendInv, LendTypeOK
<1>2. ASSUME NEW l \in Loan, NEW row, loan' = [loan EXCEPT ![l] = row],
             loan[l].status = "none" \/ row.by = loan[l].by
      PROVE  loan[m].status # "none" => loan'[m].by = loan[m].by
  BY <1>1, <1>2
<1>3. ASSUME NEW r \in Request, NEW l \in Loan, Approve(r, l) \/ Take(r, l)
      PROVE  loan[m].status # "none" => loan'[m].by = loan[m].by
  <2>1. loan[l].status = "none" BY <1>3 DEF Approve, Take, Fresh
  <2>2. \E row : loan' = [loan EXCEPT ![l] = row] BY <1>3 DEF Approve, Take
  <2>3. QED BY <1>2, <2>1, <2>2
<1>4. ASSUME NEW r \in Request, Book(r)
      PROVE  loan'[m].by = loan[m].by
  BY <1>1, <1>4 DEF Book, LoanRow
<1>5. ASSUME NEW r \in Request, NEW amount \in 1..Principal, MarkPaid(r, amount)
      PROVE  loan'[m].by = loan[m].by
  BY <1>1, <1>5, MarkPaidWrites DEF LendInv
<1>6. ASSUME NEW r \in Request, NEW part \in Cuts, CutLoan(r, part)
      PROVE  loan'[m].by = loan[m].by
  BY <1>1, <1>6 DEF CutLoan, LoanRow
<1>7. ASSUME NEW f \in flagging, FlagLoan(f)
      PROVE  loan'[m].by = loan[m].by
  BY <1>1, <1>7 DEF FlagLoan, LoanRow
<1>8. CASE UNCHANGED loan BY <1>8
<1>9. QED
  BY <1>3, <1>4, <1>5, <1>6, <1>7, <1>8
  DEF LendNext, Officer, Worker, Apply, OpenApplication, Reject, OpenDisburse, SendLoan,
      BookFails, OpenRepayment, ReadLoan, MarkFails, Want, SeeLoan, GrowLate, CronReads,
      lendVars

LEMMA BooksStep ==
  ASSUME IsFiniteSet(Loan), LendInv, LendInv', BankBooks, [LendNext]_lendVars
  PROVE  BankBooks'
<1> USE DEF rows, books
<1>1. IsFiniteSet(OnBooks) BY FS_Subset DEF OnBooks
<1>2. ASSUME bank'.total = bank.total,
             \A m \in Loan : (loan'[m].by = "bank" /\ booked'[m] = 1)
                                <=> (loan[m].by = "bank" /\ booked[m] = 1)
      PROVE  BankBooks'
  <2>1. OnBooks' = OnBooks BY <1>2 DEF OnBooks
  <2>2. QED BY <1>2, <2>1 DEF BankBooks
<1>3. ASSUME NEW r \in Request, Book(r) PROVE BankBooks'
  <2>1. PICK l \in Loan : l = req[r].l BY <1>3, DoingFields DEF Book, LendInv, LendTypeOK
  <2>2. OfBank(l) BY <1>3, <2>1 DEF Book, LendInv, RequestsSound, Sound, OfBank
  <2>3. booked[l] = 0 BY <1>3, <2>1, <2>2 DEF Book, LendInv, RowsSound, OfBank
  <2>4. booked' = [booked EXCEPT ![l] = @ + 1] /\ bank'.total = bank.total + Principal
    BY <1>3, <2>1 DEF Book
  <2>5. \A m \in Loan : loan'[m].by = loan[m].by
    BY <1>3, <2>1 DEF Book, LendInv, LendTypeOK, LoanRow
  <2>6. booked'[l] = 1 /\ \A m \in Loan \ {l} : booked'[m] = booked[m]
    BY <2>3, <2>4 DEF LendInv, LendTypeOK
  <2>7. OnBooks' = OnBooks \union {l} BY <2>2, <2>5, <2>6 DEF OnBooks, OfBank
  <2>8. l \notin OnBooks BY <2>3 DEF OnBooks
  <2>9. Cardinality(OnBooks') = Cardinality(OnBooks) + 1
    BY <1>1, <2>7, <2>8, FS_AddElement
  <2>10. Cardinality(OnBooks) \in Nat BY <1>1, FS_CardinalityType
  <2>11. QED
    <3> DEFINE n == Cardinality(OnBooks)
    <3>1. bank'.total = Principal * n + Principal BY <2>4 DEF BankBooks
    <3>2. Cardinality(OnBooks') = n + 1 BY <2>9
    <3> HIDE DEF n
    <3>3. PICK c \in Nat : c = n BY <2>10 DEF n
    <3>4. Principal * c + Principal = Principal * (c + 1) BY LendAssumption
    <3>5. bank'.total = Principal * Cardinality(OnBooks') BY <3>1, <3>2, <3>3, <3>4
    <3>6. QED BY <3>5 DEF BankBooks, OnBooks
<1>4. ASSUME NEW r \in Request, NEW l \in Loan, Take(r, l) PROVE BankBooks'
  <2>1. loan[l].by = "nobody"
    BY <1>4 DEF Take, LendInv, RowsSound
  <2>2. loan'[l].by = "worker"
    BY <1>4 DEF Take, LendInv, LendTypeOK, NoLoanRow
  <2>3. \A m \in Loan \ {l} : loan'[m] = loan[m] /\ booked'[m] = booked[m]
    BY <1>4 DEF Take, LendInv, LendTypeOK
  <2>4. bank' = bank BY <1>4 DEF Take
  <2>5. QED BY <1>2, <2>1, <2>2, <2>3, <2>4
<1>5. ASSUME UNCHANGED booked, bank'.total = bank.total PROVE BankBooks'
  <2>1. ASSUME NEW m \in Loan
        PROVE (loan'[m].by = "bank" /\ booked'[m] = 1)
                 <=> (loan[m].by = "bank" /\ booked[m] = 1)
    <3>1. CASE loan[m].status # "none" BY <1>5, <3>1, WrittenBy
    <3>2. CASE loan[m].status = "none" BY <1>5, <3>2 DEF LendInv, RowsSound, Fresh
    <3>3. QED BY <3>1, <3>2
  <2>2. QED BY <1>2, <1>5, <2>1
<1>6. ASSUME NEW r \in Request, NEW amount \in 1..Principal, MarkPaid(r, amount)
      PROVE  UNCHANGED booked /\ bank'.total = bank.total
  BY <1>6 DEF MarkPaid, LendInv, LendTypeOK
<1>7. QED
  BY <1>3, <1>4, <1>5, <1>6
  DEF LendNext, Officer, Worker, Apply, OpenApplication, Approve, Reject, OpenDisburse,
      SendLoan, BookFails, OpenRepayment, ReadLoan, MarkFails, Want, SeeLoan, CutLoan,
      GrowLate, CronReads, FlagLoan, lendVars

\* However many officers press the button together, and however many requests are in
\* flight, a loan is booked at most once and the total of the bank is what its loans
\* came to (the ids of the instalments, bank-loans.service.ts).
THEOREM BookedOnce ==
  ASSUME IsFiniteSet(Loan)
  PROVE  LendSpec => []DisbursedOnce
<1>1. LendInit => BankBooks
  <2>1. LendInit => OnBooks = {} /\ bank.total = 0 BY DEF LendInit, OnBooks
  <2>2. Cardinality({}) = 0 BY FS_EmptySet
  <2>3. Principal * 0 = 0 BY LendAssumption
  <2>4. QED BY <2>1, <2>2, <2>3 DEF BankBooks
<1>2. LendInv /\ LendInv' /\ BankBooks /\ [LendNext]_lendVars => BankBooks' BY BooksStep
<1>3. LendInv /\ BankBooks => DisbursedOnce
  BY DEF LendInv, RowsSound, DisbursedOnce, BankBooks, OnBooks
<1>4. QED BY <1>1, <1>2, <1>3, LendInvariant, PTL DEF LendSpec

(***************************************************************************)
(* Requests that do not overlap: the abstract loan.  What the one request  *)
(* under way has read of a balance still holds when it writes, as the cron *)
(* writes no balance; and whatever status the cron brings back is that of  *)
(* a loan that was lent.                                                   *)
(***************************************************************************)
Alone == \A q, r \in Request : q = r

Running == {"active", "at_risk", "defaulted", "repaid"}

SawBalance(r) ==
    /\ req[r].at = "mark" => req[r].seen.out = loan[req[r].l].out /\ booked[req[r].l] = 1
    /\ req[r].at = "cut" =>
         req[r].out = loan[req[r].l].out /\ req[r].out > 0 /\ booked[req[r].l] = 1

AloneInv ==
    /\ \A l \in Loan : loan[l].status \in Running => booked[l] = 1
    /\ \A r \in Request : SawBalance(r)
    /\ \A f \in flagging : booked[f.l] = 1

\* Steps that write no row and no book.
LEMMA NothingMoves ==
  ASSUME UNCHANGED <<loan, booked, received>>
  PROVE  UNCHANGED Abstract!vars
<1>1. \A l \in Loan : LoanStage(l)' = LoanStage(l) /\ Rest(l)' = Rest(l)
  BY DEF LoanStage, Rest, Fresh
<1> QED
  BY <1>1 DEF Abstract!vars

\* How the abstract loan sees a step that changes one loan.
LEMMA OneMoves ==
  ASSUME LendTypeOK, NEW l \in Loan,
         \A m \in Loan \ {l} : loan'[m] = loan[m] /\ booked'[m] = booked[m]
  PROVE  /\ [m \in Loan |-> LoanStage(m)]'
              = [[m \in Loan |-> LoanStage(m)] EXCEPT ![l] = LoanStage(l)']
         /\ [m \in Loan |-> Rest(m)]' = [[m \in Loan |-> Rest(m)] EXCEPT ![l] = Rest(l)']
<1>1. \A m \in Loan \ {l} : LoanStage(m)' = LoanStage(m) /\ Rest(m)' = Rest(m)
  BY DEF LoanStage, Rest, Fresh
<1> QED
  BY <1>1

\* A step that leaves the stage and the rest of a loan leaves them all.
LEMMA RowMoves ==
  ASSUME LendTypeOK, NEW l \in Loan, UNCHANGED received,
         \A m \in Loan \ {l} : loan'[m] = loan[m] /\ booked'[m] = booked[m],
         LoanStage(l)' = LoanStage(l), Rest(l)' = Rest(l)
  PROVE  UNCHANGED Abstract!vars
<1>1. \A m \in Loan : LoanStage(m)' = LoanStage(m) /\ Rest(m)' = Rest(m)
  BY DEF LoanStage, Rest, Fresh
<1> QED
  BY <1>1 DEF Abstract!vars

LEMMA ApproveRefines ==
  ASSUME LendInv, AloneInv, NEW r \in Request, NEW l \in Loan, Approve(r, l)
  PROVE  Abstract!Next
<1>1. loan[l].status = "none" /\ booked[l] = 0
  BY DEF Approve, Fresh, LendInv, RowsSound
<1>2. loan'[l].status = "approved" /\ UNCHANGED <<booked, received>>
  BY DEF Approve, books, LendInv, LendTypeOK, NoLoanRow
<1>3. \A m \in Loan \ {l} : loan'[m] = loan[m] /\ booked'[m] = booked[m]
  BY <1>2 DEF Approve, LendInv, LendTypeOK
<1>4. LoanStage(l) = "none" /\ LoanStage(l)' = "agreed" /\ Rest(l) = 0 /\ Rest(l)' = 0
  BY <1>1, <1>2 DEF LoanStage, Rest, Fresh
<1>5. Abstract!Agree(l)
  BY <1>2, <1>3, <1>4, OneMoves DEF Abstract!Agree, LendInv
<1> QED
  BY <1>5 DEF Abstract!Next

LEMMA TakeRefines ==
  ASSUME LendInv, AloneInv, NEW r \in Request, NEW l \in Loan, Take(r, l)
  PROVE  Abstract!Next
<1>1. loan[l].status = "none" /\ booked[l] = 0
  BY DEF Take, Fresh, LendInv, RowsSound
<1>2. PICK auto \in BOOLEAN :
        /\ loan' = [loan EXCEPT ![l] =
             [NoLoanRow EXCEPT !.by = "worker", !.of = "worker", !.out = Principal,
                               !.status = IF auto THEN "active" ELSE "pending"]]
        /\ booked' = [booked EXCEPT ![l] = IF auto THEN 1 ELSE 0]
  BY DEF Take
<1>3. /\ loan'[l].status = IF auto THEN "active" ELSE "pending"
      /\ loan'[l].out = Principal /\ booked'[l] = IF auto THEN 1 ELSE 0
      /\ UNCHANGED received
  BY <1>2 DEF Take, LendInv, LendTypeOK, NoLoanRow
<1>4. \A m \in Loan \ {l} : loan'[m] = loan[m] /\ booked'[m] = booked[m]
  BY <1>2 DEF LendInv, LendTypeOK
<1>5. LoanStage(l) = "none" /\ Rest(l) = 0
  BY <1>1 DEF LoanStage, Rest, Fresh
<1>6. CASE auto
  <2>1. LoanStage(l)' = "lent" /\ Rest(l)' = Principal
    BY <1>3, <1>6 DEF LoanStage, Rest, Fresh
  <2>2. Abstract!Lend(l)
    BY <1>3, <1>4, <1>5, <2>1, OneMoves DEF Abstract!Lend, LendInv
  <2> QED
    BY <2>2 DEF Abstract!Next
<1>7. CASE ~ auto
  <2>1. LoanStage(l)' = "agreed" /\ Rest(l)' = 0
    BY <1>3, <1>7 DEF LoanStage, Rest, Fresh
  <2>2. Abstract!Agree(l)
    BY <1>3, <1>4, <1>5, <2>1, OneMoves DEF Abstract!Agree, LendInv
  <2> QED
    BY <2>2 DEF Abstract!Next
<1> QED
  BY <1>6, <1>7

LEMMA BookRefines ==
  ASSUME LendInv, AloneInv, NEW r \in Request, Book(r)
  PROVE  Abstract!Next
<1>1. PICK l \in Loan : l = req[r].l
  BY DoingFields DEF Book, LendInv, LendTypeOK
<1>2. loan[l].status # "none" /\ booked[l] = 0
  BY <1>1 DEF Book, LendInv, RequestsSound, Sound, RowsSound, OfBank
<1>3. /\ loan'[l].status = "active" /\ loan'[l].out = Principal /\ booked'[l] = 1
      /\ UNCHANGED received
  BY <1>1, <1>2 DEF Book, LendInv, LendTypeOK, LoanRow
<1>4. \A m \in Loan \ {l} : loan'[m] = loan[m] /\ booked'[m] = booked[m]
  BY <1>1 DEF Book, LendInv, LendTypeOK
<1>5. LoanStage(l) = "agreed" /\ LoanStage(l)' = "lent" /\ Rest(l)' = Principal
  BY <1>2, <1>3 DEF LoanStage, Rest, Fresh
<1>6. Abstract!Lend(l)
  BY <1>3, <1>4, <1>5, OneMoves DEF Abstract!Lend, LendInv
<1> QED
  BY <1>6 DEF Abstract!Next

\* A payment of n on a loan that was lent.
LEMMA PaymentRefines ==
  ASSUME LendTypeOK, LendTypeOK', NEW l \in Loan, NEW n \in 1..Principal,
         \A m \in Loan \ {l} : loan'[m] = loan[m],
         loan[l].status # "none", loan'[l].status # "none", booked[l] = 1, booked' = booked,
         received' = [received EXCEPT ![l] = @ + n],
         loan'[l].out = IF n >= loan[l].out THEN 0 ELSE loan[l].out - n
  PROVE  Abstract!Next
<1>1. LoanStage(l) = "lent" /\ LoanStage(l)' = "lent"
  BY DEF LoanStage, Fresh
<1>2. Rest(l) = loan[l].out /\ Rest(l)' = loan'[l].out
  BY DEF Rest
<1>3. \A m \in Loan \ {l} : loan'[m] = loan[m] /\ booked'[m] = booked[m]
  OBVIOUS
<1>4. /\ [m \in Loan |-> LoanStage(m)]' = [m \in Loan |-> LoanStage(m)]
      /\ [m \in Loan |-> Rest(m)]'
           = [[m \in Loan |-> Rest(m)] EXCEPT ![l] = loan'[l].out]
  <2>1. \A m \in Loan : LoanStage(m)' = LoanStage(m)
    BY <1>1, <1>3 DEF LoanStage, Fresh
  <2>2. [m \in Loan |-> Rest(m)]' = [[m \in Loan |-> Rest(m)] EXCEPT ![l] = Rest(l)']
    BY <1>3, OneMoves
  <2> QED
    BY <1>2, <2>1, <2>2, Zenon
<1>5. [m \in Loan |-> Rest(m)]'
        = [[m \in Loan |-> Rest(m)] EXCEPT ![l] = IF n >= @ THEN 0 ELSE @ - n]
  BY <1>2, <1>4
<1>6. [m \in Loan |-> LoanStage(m)][l] = "lent"
  BY <1>1
<1> HIDE DEF LoanStage, Rest
<1>7. Abstract!Repay(l)
  BY <1>4, <1>5, <1>6 DEF Abstract!Repay
<1> QED
  BY <1>7 DEF Abstract!Next

LEMMA MarkPaidRefines ==
  ASSUME LendInv, LendInv', AloneInv, NEW r \in Request, NEW amount \in 1..Principal,
         MarkPaid(r, amount)
  PROVE  Abstract!Next
<1>1. PICK l \in Loan, seen \in Seen : l = req[r].l /\ seen = req[r].seen
  BY DoingFields DEF MarkPaid, LendInv, LendTypeOK
<1>2. seen.out = loan[l].out /\ booked[l] = 1
  <2>1. req[r].at = "mark" /\ SawBalance(r)
    BY MarkPaidWrites DEF LendInv, AloneInv
  <2> QED
    BY <1>1, <2>1 DEF SawBalance
<1>3. /\ received' = [received EXCEPT ![l] = @ + amount] /\ booked' = booked
      /\ loan'[l].out = Left(seen, amount)
      /\ \A m \in Loan \ {l} : loan'[m] = loan[m]
  <2>1. loan \in [Loan -> LoanRow]
    BY DEF LendInv, LendTypeOK
  <2>2. PICK row : loan' = [loan EXCEPT ![l] = row] /\ row.out = Left(seen, amount)
    BY <1>1, MarkPaidWrites DEF LendInv
  <2>3. received' = [received EXCEPT ![l] = @ + amount] /\ booked' = booked
    BY <1>1, MarkPaidWrites DEF LendInv
  <2> QED
    BY <2>1, <2>2, <2>3
<1>4. loan[l].status # "none" /\ loan'[l].status # "none"
  BY <1>2, <1>3 DEF LendInv, RowsSound, Fresh
<1>5. loan'[l].out = IF amount >= loan[l].out THEN 0 ELSE loan[l].out - amount
  BY <1>2, <1>3 DEF Left
<1> QED
  BY <1>2, <1>3, <1>4, <1>5, PaymentRefines DEF LendInv

LEMMA CutLoanRefines ==
  ASSUME LendInv, LendInv', AloneInv, NEW r \in Request, NEW part \in Cuts, CutLoan(r, part)
  PROVE  Abstract!Next \/ UNCHANGED Abstract!vars
<1>1. PICK l \in Loan : l = req[r].l
  BY DoingFields DEF CutLoan, LendInv, LendTypeOK
<1>2. PICK out \in 0..Principal : out = req[r].out
  BY DoingFields DEF CutLoan, LendInv, LendTypeOK
<1>3. out = loan[l].out /\ out > 0 /\ booked[l] = 1
  BY <1>1, <1>2 DEF CutLoan, AloneInv, SawBalance
<1> DEFINE cut == IF part > out THEN out ELSE part
<1>4. cut \in 0..Principal /\ out - cut = IF cut >= out THEN 0 ELSE out - cut
  BY LendAssumption
<1>5. loan'[l].out = out - cut
  BY <1>1, <1>2 DEF CutLoan, LendInv, LendTypeOK, LoanRow
<1>6. /\ received' = [received EXCEPT ![l] = @ + cut] /\ booked' = booked
      /\ \A m \in Loan \ {l} : loan'[m] = loan[m]
  BY <1>1, <1>2 DEF CutLoan, LendInv, LendTypeOK
<1>7. loan[l].status # "none" /\ loan'[l].status # "none"
  BY <1>3, <1>6 DEF LendInv, RowsSound, Fresh
<1> HIDE DEF cut
<1>8. CASE cut > 0
  <2>1. cut \in 1..Principal
    BY <1>4, <1>8
  <2> QED
    BY <1>3, <1>4, <1>5, <1>6, <1>7, <2>1, PaymentRefines DEF LendInv
<1>9. CASE cut = 0
  <2>1. received' = received
    BY <1>6, <1>9 DEF LendInv, LendTypeOK
  <2>2. LoanStage(l)' = LoanStage(l) /\ Rest(l)' = Rest(l)
    BY <1>2, <1>3, <1>5, <1>6, <1>7, <1>9 DEF LoanStage, Rest, Fresh
  <2> QED
    BY <1>6, <2>1, <2>2, RowMoves DEF LendInv
<1> QED
  BY <1>4, <1>8, <1>9

\* The cron writes no balance, and only the row it has read.
LEMMA FlagKeepsOut ==
  ASSUME LendTypeOK, NEW f \in flagging, FlagLoan(f)
  PROVE  /\ f.l \in Loan /\ loan'[f.l].out = loan[f.l].out
         /\ \A m \in Loan \ {f.l} : loan'[m] = loan[m]
<1>1. f.l \in Loan /\ loan \in [Loan -> LoanRow]
  BY DEF LendTypeOK, Flag
<1>2. \/ loan' = loan
      \/ \E s, k : loan' = [loan EXCEPT ![f.l].status = s, ![f.l].risk = k]
  BY Zenon DEF FlagLoan
<1>3. ASSUME NEW s, NEW k, loan' = [loan EXCEPT ![f.l].status = s, ![f.l].risk = k]
      PROVE  /\ loan'[f.l].out = loan[f.l].out
             /\ \A m \in Loan \ {f.l} : loan'[m] = loan[m]
  BY <1>1, <1>3 DEF LoanRow
<1> QED
  BY <1>1, <1>2, <1>3

LEMMA FlagLoanRefines ==
  ASSUME LendInv, LendInv', AloneInv, NEW f \in flagging, FlagLoan(f)
  PROVE  UNCHANGED Abstract!vars
<1>1. PICK l \in Loan : l = f.l
  BY DEF LendInv, LendTypeOK, Flag
<1>2. booked[l] = 1 /\ booked' = booked /\ received' = received
  BY <1>1 DEF AloneInv, FlagLoan, books
<1>3. loan'[l].out = loan[l].out /\ \A m \in Loan \ {l} : loan'[m] = loan[m]
  BY <1>1, FlagKeepsOut DEF LendInv
<1>4. loan[l].status # "none" /\ loan'[l].status # "none"
  BY <1>2 DEF LendInv, RowsSound, Fresh
<1>5. LoanStage(l)' = LoanStage(l) /\ Rest(l)' = Rest(l)
  BY <1>2, <1>3, <1>4 DEF LoanStage, Rest, Fresh
<1> QED
  BY <1>2, <1>3, <1>5, RowMoves DEF LendInv

LEMMA LoanRefines ==
  ASSUME LendInv, LendInv', AloneInv, [LendNext]_lendVars
  PROVE  Abstract!Next \/ UNCHANGED Abstract!vars
<1> USE DEF rows, books
<1>1. ASSUME UNCHANGED <<loan, booked, received>> PROVE UNCHANGED Abstract!vars
  BY <1>1, NothingMoves
<1>2. ASSUME NEW r \in Request, Officer(r) PROVE Abstract!Next \/ UNCHANGED Abstract!vars
  BY <1>1, <1>2, ApproveRefines, BookRefines, MarkPaidRefines
  DEF Officer, OpenApplication, Reject, OpenDisburse, SendLoan, BookFails, OpenRepayment,
      ReadLoan, MarkFails
<1>3. ASSUME NEW r \in Request, Worker(r) PROVE Abstract!Next \/ UNCHANGED Abstract!vars
  BY <1>1, <1>3, TakeRefines, CutLoanRefines DEF Worker, Want, SeeLoan
<1> QED
  BY <1>1, <1>2, <1>3, FlagLoanRefines DEF LendNext, Apply, GrowLate, CronReads, lendVars

\* What was read stays so while no balance is written, and what was lent stays lent.
LEMMA BalancesStay ==
  ASSUME LendInv, LendInv', AloneInv, UNCHANGED flagging,
         \A l \in Loan : /\ loan'[l].status \in Running => booked'[l] = 1
                         /\ booked[l] = 1 => booked'[l] = 1,
         \A r \in Request : SawBalance(r)'
  PROVE  AloneInv'
<1>1. \A f \in flagging : f.l \in Loan
  BY DEF LendInv, LendTypeOK, Flag
<1> QED
  BY <1>1 DEF AloneInv

\* The one request answers, and what it wrote is the balance of a loan that was lent.
LEMMA AloneWrites ==
  ASSUME Alone, LendInv, LendInv', AloneInv, UNCHANGED flagging, NEW r \in Request,
         req'[r].at \notin {"mark", "cut"},
         \A l \in Loan : /\ loan'[l].status \in Running => booked'[l] = 1
                         /\ booked[l] = 1 => booked'[l] = 1
  PROVE  AloneInv'
<1>1. \A k \in Request : SawBalance(k)'
  BY DEF Alone, SawBalance
<1> QED
  BY <1>1, BalancesStay

\* The one request goes on, and nothing is written.
LEMMA AloneReads ==
  ASSUME Alone, LendInv, LendInv', AloneInv, UNCHANGED <<loan, booked, flagging>>,
         NEW r \in Request, SawBalance(r)'
  PROVE  AloneInv'
<1>1. \A k \in Request : SawBalance(k)'
  BY DEF Alone
<1> QED
  BY <1>1, BalancesStay DEF AloneInv

LEMMA AloneStep ==
  ASSUME Alone, LendInv, LendInv', AloneInv, [LendNext]_lendVars
  PROVE  AloneInv'
<1> USE DEF rows, books
<1>t. /\ req \in [Request -> Doing] /\ loan \in [Loan -> LoanRow]
      /\ booked \in [Loan -> Nat] /\ \A f \in flagging : f.l \in Loan
  BY DEF LendInv, LendTypeOK, Flag
<1>1. ASSUME NEW r \in Request, UNCHANGED <<loan, booked, flagging>>,
             req'[r].at \notin {"mark", "cut"}
      PROVE  AloneInv'
  BY <1>1, AloneReads DEF SawBalance
<1>2. ASSUME NEW r \in Request, NEW q, req' = [req EXCEPT ![r] = q],
             UNCHANGED <<loan, booked, flagging>>, q.at \notin {"mark", "cut"}
      PROVE  AloneInv'
  BY <1>1, <1>2, <1>t
<1>3. ASSUME NEW r \in Request, NEW a \in Application, OpenApplication(r, a)
      PROVE  AloneInv'
  BY <1>2, <1>3 DEF OpenApplication, Turn
<1>4. ASSUME NEW r \in Request, Reject(r) \/ BookFails(r) \/ Want(r)
      PROVE  AloneInv'
  BY <1>2, <1>4 DEF Reject, BookFails, Want, Reply, Turn, Idle
<1>5. ASSUME NEW r \in Request, NEW l \in Loan, OpenDisburse(r, l)
      PROVE  AloneInv'
  BY <1>2, <1>5 DEF OpenDisburse, Turn
<1>6. ASSUME NEW r \in Request, SendLoan(r)
      PROVE  AloneInv'
  <2>1. CASE Reply(r)
    BY <1>2, <1>6, <2>1 DEF SendLoan, Reply, Idle
  <2>2. CASE req' = [req EXCEPT ![r].at = "book"]
    <3>1. PICK l \in Loan : req[r] = [at |-> "transfer", l |-> l]
      BY <1>6, <1>t DEF SendLoan, Doing, Idle
    <3>2. req'[r].at = "book"
      BY <1>t, <2>2, <3>1
    <3> QED
      BY <1>1, <1>6, <3>2 DEF SendLoan
  <2> QED
    BY <1>6, <2>1, <2>2 DEF SendLoan
<1>7. ASSUME NEW r \in Request, NEW l \in Loan, NEW i \in Month, OpenRepayment(r, l, i)
      PROVE  AloneInv'
  BY <1>2, <1>7 DEF OpenRepayment, Turn
<1>8. ASSUME NEW r \in Request, NEW amount \in 1..Principal, MarkFails(r, amount)
      PROVE  AloneInv'
  BY <1>2, <1>8 DEF MarkFails, Reply, Idle
<1>9. ASSUME NEW r \in Request, ReadLoan(r)
      PROVE  AloneInv'
  <2>1. CASE Reply(r)
    BY <1>2, <1>9, <2>1 DEF ReadLoan, Reply, Idle
  <2>2. CASE ~ Reply(r)
    <3>1. PICK l \in Loan, i \in Month : req[r].l = l /\ req[r].i = i
      BY <1>9, <1>t, DoingFields DEF ReadLoan
    <3>2. /\ loan[l].status \in Open
          /\ req' = [req EXCEPT ![r] =
                       [at |-> "mark", l |-> l, i |-> i,
                        seen |-> [status |-> loan[l].status, risk |-> loan[l].risk,
                                  out |-> loan[l].out]]]
          /\ UNCHANGED <<loan, booked, flagging>>
      BY <1>9, <2>2, <3>1 DEF ReadLoan
    <3>3. booked[l] = 1
      BY <3>2 DEF AloneInv, Open, Running
    <3>4. SawBalance(r)'
      BY <1>t, <3>2, <3>3 DEF SawBalance
    <3> QED
      BY <3>2, <3>4, AloneReads
  <2> QED
    BY <2>1, <2>2
<1>10. ASSUME NEW r \in Request, NEW l \in Loan, SeeLoan(r, l)
       PROVE  AloneInv'
  <2>1. /\ loan[l].status = "active" /\ loan[l].out > 0
        /\ req' = [req EXCEPT ![r] = [at |-> "cut", l |-> l, out |-> loan[l].out]]
        /\ UNCHANGED <<loan, booked, flagging>>
    BY <1>10 DEF SeeLoan, Turn
  <2>2. booked[l] = 1
    BY <2>1 DEF AloneInv, Running
  <2>3. SawBalance(r)'
    BY <1>t, <2>1, <2>2 DEF SawBalance
  <2> QED
    BY <2>1, <2>3, AloneReads
<1>11. ASSUME NEW r \in Request, Reply(r), UNCHANGED flagging,
              \A l \in Loan : /\ loan'[l].status \in Running => booked'[l] = 1
                              /\ booked[l] = 1 => booked'[l] = 1
       PROVE  AloneInv'
  <2>1. req'[r].at = "idle"
    BY <1>11, <1>t DEF Reply, Idle
  <2> QED
    BY <1>11, <2>1, AloneWrites
<1>12. ASSUME NEW r \in Request, NEW l \in Loan, Approve(r, l)
       PROVE  AloneInv'
  <2>1. loan'[l].status = "approved" /\ \A m \in Loan \ {l} : loan'[m] = loan[m]
    BY <1>12, <1>t DEF Approve, NoLoanRow
  <2>2. \A m \in Loan : loan'[m].status \in Running => booked'[m] = 1
    BY <1>12, <2>1 DEF Approve, AloneInv, Running
  <2> QED
    BY <1>11, <1>12, <2>2 DEF Approve
<1>13. ASSUME NEW r \in Request, NEW l \in Loan, Take(r, l)
       PROVE  AloneInv'
  <2>1. booked[l] = 0
    BY <1>13 DEF Take, Fresh, LendInv, RowsSound
  <2>2. PICK auto \in BOOLEAN :
          /\ loan' = [loan EXCEPT ![l] =
               [NoLoanRow EXCEPT !.by = "worker", !.of = "worker", !.out = Principal,
                                 !.status = IF auto THEN "active" ELSE "pending"]]
          /\ booked' = [booked EXCEPT ![l] = IF auto THEN 1 ELSE 0]
    BY <1>13 DEF Take
  <2>3. /\ loan'[l].status = IF auto THEN "active" ELSE "pending"
        /\ booked'[l] = IF auto THEN 1 ELSE 0
        /\ \A m \in Loan \ {l} : loan'[m] = loan[m] /\ booked'[m] = booked[m]
    BY <1>t, <2>2 DEF NoLoanRow
  <2>4. \A m \in Loan : /\ loan'[m].status \in Running => booked'[m] = 1
                        /\ booked[m] = 1 => booked'[m] = 1
    BY <2>1, <2>3 DEF AloneInv, Running
  <2> QED
    BY <1>11, <1>13, <2>4 DEF Take
<1>14. ASSUME NEW r \in Request, Book(r)
       PROVE  AloneInv'
  <2>1. PICK l \in Loan : l = req[r].l
    BY <1>14, <1>t, DoingFields DEF Book
  <2>2. booked[l] = 0
    BY <1>14, <2>1 DEF Book, LendInv, RequestsSound, Sound, RowsSound, OfBank
  <2>3. /\ booked'[l] = 1
        /\ \A m \in Loan \ {l} : loan'[m] = loan[m] /\ booked'[m] = booked[m]
    BY <1>14, <1>t, <2>1, <2>2 DEF Book
  <2>4. \A m \in Loan : /\ loan'[m].status \in Running => booked'[m] = 1
                        /\ booked[m] = 1 => booked'[m] = 1
    BY <2>3 DEF AloneInv
  <2> QED
    BY <1>11, <1>14, <2>4 DEF Book
<1>15. ASSUME NEW r \in Request, NEW l \in Loan, l = req[r].l, booked[l] = 1, Reply(r),
              UNCHANGED <<booked, flagging>>, \A m \in Loan \ {l} : loan'[m] = loan[m]
       PROVE  AloneInv'
  <2>1. \A m \in Loan : loan'[m].status \in Running => booked'[m] = 1
    BY <1>15 DEF AloneInv
  <2> QED
    BY <1>11, <1>15, <2>1
<1>16. ASSUME NEW r \in Request, NEW amount \in 1..Principal, MarkPaid(r, amount)
       PROVE  AloneInv'
  <2>1. PICK l \in Loan : l = req[r].l
    BY <1>16, <1>t, DoingFields DEF MarkPaid
  <2>2. booked[l] = 1
    BY <1>16, <2>1 DEF MarkPaid, AloneInv, SawBalance
  <2>3. \A m \in Loan \ {l} : loan'[m] = loan[m]
    BY <1>16, <1>t, <2>1 DEF MarkPaid
  <2> QED
    BY <1>15, <1>16, <2>1, <2>2, <2>3 DEF MarkPaid
<1>17. ASSUME NEW r \in Request, NEW part \in Cuts, CutLoan(r, part)
       PROVE  AloneInv'
  <2>1. PICK l \in Loan : l = req[r].l
    BY <1>17, <1>t, DoingFields DEF CutLoan
  <2>2. booked[l] = 1
    BY <1>17, <2>1 DEF CutLoan, AloneInv, SawBalance
  <2>3. \A m \in Loan \ {l} : loan'[m] = loan[m]
    BY <1>17, <1>t, <2>1 DEF CutLoan
  <2> QED
    BY <1>15, <1>17, <2>1, <2>2, <2>3 DEF CutLoan
<1>18. ASSUME NEW f \in flagging, FlagLoan(f)
       PROVE  AloneInv'
  <2>1. PICK l \in Loan : l = f.l
    BY <1>t, <1>18
  <2>2. /\ UNCHANGED <<booked, req>> /\ flagging' \subseteq flagging /\ booked[l] = 1
        /\ \A m \in Loan : loan'[m].out = loan[m].out
        /\ \A m \in Loan \ {l} : loan'[m] = loan[m]
    BY <1>18, <2>1, FlagKeepsOut DEF FlagLoan, AloneInv, LendInv
  <2>3. \A m \in Loan : loan'[m].status \in Running => booked'[m] = 1
    BY <2>2 DEF AloneInv
  <2>4. ASSUME NEW r \in Request PROVE SawBalance(r)'
    <3>1. req[r].at \in {"mark", "cut"} => req[r].l \in Loan
      BY <1>t, DoingFields
    <3> QED
      BY <2>2, <3>1 DEF AloneInv, SawBalance
  <2> QED
    BY <2>2, <2>3, <2>4 DEF AloneInv
<1>19. CASE CronReads
  <2>1. \A f \in flagging' : \E l \in Loan : f.l = l /\ loan[l].status \in Open
    BY <1>19 DEF CronReads, FlagOf
  <2>2. \A f \in flagging' : booked[f.l] = 1
    BY <2>1 DEF AloneInv, Open, Running
  <2> QED
    BY <1>19, <2>2 DEF CronReads, AloneInv, SawBalance
<1>20. ASSUME UNCHANGED <<loan, booked, req, flagging>> PROVE AloneInv'
  BY <1>20 DEF AloneInv, SawBalance
<1>21. ASSUME NEW r \in Request, Officer(r) PROVE AloneInv'
  BY <1>3, <1>4, <1>5, <1>6, <1>7, <1>8, <1>9, <1>12, <1>14, <1>16, <1>21 DEF Officer
<1>22. ASSUME NEW r \in Request, Worker(r) PROVE AloneInv'
  BY <1>4, <1>10, <1>13, <1>17, <1>22 DEF Worker
<1> QED
  BY <1>18, <1>19, <1>20, <1>21, <1>22 DEF LendNext, Apply, GrowLate, lendVars

\* Requests that do not overlap lose no repayment and change no debt without one, and
\* lend each loan once: Lending implements Borrowing, while the cron reads before any of
\* them and writes after it, for any loans, instalments and amounts
\* (bank-loans.service.ts, loans.service.ts, bank-risk-flagging.cron.ts).
THEOREM LoansRefined == ASSUME Alone PROVE LendSpec => ImplementsBorrowing
<1>1. LendInit => Abstract!Init /\ AloneInv
  BY DEF LendInit, NoLoanRow, Abstract!Init, LoanStage, Rest, Fresh, AloneInv, SawBalance,
         Idle, Running
<1>2. LendInv /\ LendInv' /\ AloneInv /\ [LendNext]_lendVars
        => [Abstract!Next]_(Abstract!vars)
  BY LoanRefines
<1>3. LendInv /\ LendInv' /\ AloneInv /\ [LendNext]_lendVars => AloneInv'
  BY AloneStep
<1> QED
  BY <1>1, <1>2, <1>3, LendInvariant, PTL DEF LendSpec, ImplementsBorrowing, Abstract!Spec
=============================================================================
