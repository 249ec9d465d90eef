-------------------------- MODULE WithdrawalsProofs --------------------------
(***************************************************************************)
(* Theorems about withdrawals, for any number of workers, rows and cron    *)
(* runs, any amounts and any balance.                                      *)
(***************************************************************************)
EXTENDS MCWithdrawals, CommonProofs
-----------------------------------------------------------------------------
\* A settlement keeps the types of what it writes.
LEMMA SettleType ==
  ASSUME TypeOK, NEW t \in Txn, NEW status \in SettledStatuses, Settle(t, status)
  PROVE  /\ wallet' \in [Worker -> Int]
         /\ row' \in [Txn -> RowType]
         /\ refunds' \in [Txn -> Nat]
         /\ notice' \in [Txn -> Notice]
<1>1. CASE Open(t)
  <2>1. row' \in [Txn -> RowType]
    BY <1>1 DEF TypeOK, Settle, RowType, SettledStatuses, RowStatus, Terminal, NonTerminal
  <2>2. wallet' \in [Worker -> Int]
    BY <1>1 DEF TypeOK, Settle, RowType
  <2>3. refunds' \in [Txn -> Nat] /\ notice' \in [Txn -> Notice]
    BY <1>1 DEF TypeOK, Settle, Notice
  <2>4. QED BY <2>1, <2>2, <2>3
<1>2. CASE ~Open(t)
  BY <1>2 DEF TypeOK, Settle, dbVars
<1>3. QED BY <1>1, <1>2

\* Every variable keeps its type.
THEOREM TypeCorrect == Spec => []TypeOK
<1>1. Init => TypeOK
  BY BalanceAssumption
  DEF Init, TypeOK, RowType, RequestType, HandlerState, Truth, Notice, RowStatus
<1>2. TypeOK /\ [Next]_vars => TypeOK'
  <2> SUFFICES ASSUME TypeOK, [Next]_vars PROVE TypeOK'
    OBVIOUS
  <2>1. CASE UNCHANGED vars
    BY <2>1 DEF TypeOK, vars, dbVars, squadVars, cronVars
  <2>2. ASSUME NEW t \in Txn, CheckBalance(t) PROVE TypeOK'
    BY <2>2, AmountAssumption
    DEF TypeOK, CheckBalance, RequestType, HandlerState, dbVars, squadVars, cronVars
  <2>3. ASSUME NEW t \in Txn, Debit(t) PROVE TypeOK'
    <3>1. row' \in [Txn -> RowType]
      BY <2>3 DEF TypeOK, Debit, RequestType, RowType, RowStatus, NonTerminal
    <3>2. req[t].amount \in Nat BY DEF TypeOK, RequestType
    <3>3. wallet' \in [Worker -> Int]
      <4>1. \A w \in Worker : wallet[w] \in Int BY DEF TypeOK
      <4>2. wallet' = [w \in Worker |-> IF w = req[t].worker
                                       THEN wallet[w] - req[t].amount ELSE wallet[w]]
        BY <2>3 DEF TypeOK, Debit
      <4>3. \A w \in Worker : wallet[w] - req[t].amount \in Int BY <3>2, <4>1
      <4>4. QED BY <4>1, <4>2, <4>3
    <3>4. created' \in Nat BY <2>3 DEF TypeOK, Debit
    <3>5. pc' \in [Txn -> HandlerState] BY <2>3 DEF TypeOK, Debit, HandlerState
    <3>6. QED BY <2>3, <3>1, <3>3, <3>4, <3>5 DEF TypeOK, Debit, squadVars, cronVars
  <2>4. ASSUME NEW t \in Txn,
               TransferAccepted(t) \/ TransferRefused(t) \/ TransferNoAnswer(t)
                 \/ TransferStub(t)
        PROVE TypeOK'
    <3>1. squad' \in [Txn -> Truth] /\ events' \in [Txn -> SUBSET Truth]
      BY <2>4 DEF TypeOK, TransferAccepted, TransferRefused, TransferNoAnswer,
                  TransferStub, Truth, squadVars
    <3>2. pc' \in [Txn -> HandlerState]
      BY <2>4 DEF TypeOK, TransferAccepted, TransferRefused, TransferNoAnswer,
                  TransferStub, HandlerState
    <3>3. QED
      BY <2>4, <3>1, <3>2 DEF TypeOK, TransferAccepted, TransferRefused,
         TransferNoAnswer, TransferStub, dbVars, cronVars
  <2>5. ASSUME NEW t \in Txn, SyncReject(t) PROVE TypeOK'
    <3>1. Settle(t, "failed") BY <2>5 DEF SyncReject
    <3>2. "failed" \in SettledStatuses BY DEF SettledStatuses
    <3>3. pc' \in [Txn -> HandlerState] BY <2>5 DEF TypeOK, SyncReject, HandlerState
    <3>4. QED BY <2>5, <3>1, <3>2, <3>3, SettleType
              DEF TypeOK, SyncReject, squadVars, cronVars
  <2>6. ASSUME NEW t \in Txn, Respond(t) PROVE TypeOK'
    <3>1. "completed" \in SettledStatuses BY DEF SettledStatuses
    <3>2. pc' \in [Txn -> HandlerState] BY <2>6 DEF TypeOK, Respond, HandlerState
    <3>3. CASE Stub
      BY <2>6, <3>1, <3>2, <3>3, SettleType DEF TypeOK, Respond, squadVars, cronVars
    <3>4. CASE ~Stub
      BY <2>6, <3>2, <3>4 DEF TypeOK, Respond, dbVars, squadVars, cronVars
    <3>5. QED BY <3>3, <3>4
  <2>7. ASSUME NEW t \in Txn, FanOut(t) \/ FanOutLost(t) PROVE TypeOK'
    BY <2>7 DEF TypeOK, FanOut, FanOutLost, Notice, squadVars, cronVars
  <2>8. ASSUME NEW t \in Txn, Crash(t) PROVE TypeOK'
    BY <2>8 DEF TypeOK, Crash, HandlerState, dbVars, squadVars, cronVars
  <2>9. ASSUME NEW t \in Txn, SquadMoves(t) PROVE TypeOK'
    BY <2>9 DEF TypeOK, SquadMoves, Truth, dbVars, cronVars
  <2>10. ASSUME NEW t \in Txn, Webhook(t) PROVE TypeOK'
    <3>1. PICK truth \in events[t] : Settle(t, EventOf(truth).dbStatus)
      BY <2>10 DEF Webhook
    <3>2. QED BY <2>10, <3>1, EventOfType, SettleType
              DEF TypeOK, Webhook, squadVars, cronVars
  <2>11. ASSUME NEW t \in Txn, Age(t) PROVE TypeOK'
    BY <2>11 DEF TypeOK, Age, dbVars, squadVars, cronVars
  <2>12. ASSUME NEW p \in Poller, Fetch(p) PROVE TypeOK'
    <3>1. Oldest \subseteq Txn BY DEF Oldest, Candidates, TypeOK
    <3>2. QED BY <2>12, <3>1 DEF TypeOK, Fetch, dbVars, squadVars
  <2>13. ASSUME NEW p \in Poller, NEW t \in Txn, Verify(p, t) \/ VerifyFails(p, t)
         PROVE TypeOK'
    <3>1. reply' \in [Poller -> ReplyType \union {NoReply}]
      BY <2>13 DEF TypeOK, Verify, VerifyFails, ReplyType, Truth
    <3>2. QED BY <2>13, <3>1 DEF TypeOK, Verify, VerifyFails, dbVars, squadVars
  <2>14. ASSUME NEW p \in Poller, Reconcile(p) PROVE TypeOK'
    <3>1. reply[p] \in ReplyType BY <2>14 DEF TypeOK, Reconcile
    <3>2. reply' \in [Poller -> ReplyType \union {NoReply}]
      BY <2>14 DEF TypeOK, Reconcile
    <3>3. CASE VerifyOf(reply[p].truth).dbStatus = "processing"
      BY <2>14, <3>2, <3>3 DEF TypeOK, Reconcile, dbVars, squadVars
    <3>4. CASE VerifyOf(reply[p].truth).dbStatus # "processing"
      <4>1. Settle(reply[p].txn, VerifyOf(reply[p].truth).dbStatus)
        BY <2>14, <3>4 DEF Reconcile
      <4>2. reply[p].txn \in Txn BY <3>1 DEF ReplyType
      <4>3. QED BY <2>14, <3>2, <4>1, <4>2, VerifyOfType, SettleType
                DEF TypeOK, Reconcile, squadVars
    <3>5. QED BY <3>3, <3>4
  <2>15. ASSUME NEW p \in Poller, CronCrash(p) PROVE TypeOK'
    BY <2>15 DEF TypeOK, CronCrash, dbVars, squadVars
  <2>16. QED
    BY <2>1, <2>2, <2>3, <2>4, <2>5, <2>6, <2>7, <2>8, <2>9, <2>10, <2>11,
       <2>12, <2>13, <2>14, <2>15 DEF Next, Handle, Cron
<1>3. QED BY <1>1, <1>2, PTL DEF Spec
-----------------------------------------------------------------------------
(***************************************************************************)
(* One refund for a failed withdrawal, none for any other.  The invariant  *)
(* is inductive once it is known that a row whose request has not been     *)
(* debited has not been written: the debit is what resets the status, so   *)
(* it must never meet a row that was already refunded.                     *)
(***************************************************************************)
Unwritten == \A t \in Txn : pc[t] \in {"idle", "checked"} => row[t].status = "none"

\* What the handler carries from the balance check to the debit.
Requested ==
  \A t \in Txn : pc[t] = "checked" => req[t].worker \in Worker /\ req[t].amount \in Amount

LedgerInv == TypeOK /\ Unwritten /\ Requested /\ RefundedOnceIfFailed

\* A settlement refunds exactly when it moves an open row to failed.
LEMMA SettleRefunds ==
  ASSUME TypeOK, RefundedOnceIfFailed, Unwritten,
         NEW t \in Txn, NEW status \in SettledStatuses, Settle(t, status)
  PROVE  /\ RefundedOnceIfFailed'
         /\ \A u \in Txn : row[u].status = "none" => row'[u].status = "none"
         /\ \A u \in Txn : row[u].status \in Terminal => row'[u] = row[u]
<1>1. CASE Open(t)
  <2>1. \A u \in Txn : row'[u] = IF u = t THEN [row[t] EXCEPT !.status = status] ELSE row[u]
    BY <1>1 DEF TypeOK, Settle
  <2>2. row[t] \in RowType BY DEF TypeOK
  <2>3. row'[t].status = status BY <2>1, <2>2 DEF RowType
  <2>4. refunds[t] = 0 BY <1>1 DEF RefundedOnceIfFailed, Open, NonTerminal
  <2>5. refunds'[t] = IF status = "failed" THEN 1 ELSE 0
    BY <1>1, <2>4 DEF TypeOK, Settle, Refunds
  <2>6. \A u \in Txn \ {t} : refunds'[u] = refunds[u]
    BY <1>1 DEF TypeOK, Settle
  <2>7. QED BY <1>1, <2>1, <2>3, <2>5, <2>6
            DEF RefundedOnceIfFailed, Open, NonTerminal, Terminal
<1>2. CASE ~Open(t)
  BY <1>2 DEF Settle, dbVars, RefundedOnceIfFailed
<1>3. QED BY <1>1, <1>2

\* What the step of any action does to the rows and to the refunds: it leaves
\* them alone, settles one row, or writes a row for a checked request.
Untouched == UNCHANGED <<wallet, row, refunds>>
Settles == \E t \in Txn, status \in SettledStatuses : Settle(t, status)
Debits == \E t \in Txn : Debit(t)

LEMMA LedgerSteps ==
  ASSUME TypeOK, [Next]_vars
  PROVE  Untouched \/ Settles \/ Debits
<1>1. CASE UNCHANGED vars
  BY <1>1 DEF vars, dbVars, Untouched
<1>2. ASSUME NEW t \in Txn, Handle(t) PROVE Untouched \/ Settles \/ Debits
  <2>1. CASE SyncReject(t)
    BY <2>1 DEF SyncReject, Settles, SettledStatuses
  <2>2. CASE Respond(t)
    BY <2>2 DEF Respond, Settles, SettledStatuses, Untouched, dbVars
  <2>3. CASE Debit(t)
    BY <2>3 DEF Debits
  <2>4. CASE CheckBalance(t) \/ FanOut(t) \/ FanOutLost(t) \/ Crash(t)
    BY <2>4 DEF CheckBalance, FanOut, FanOutLost, Crash, Untouched, dbVars
  <2>5. CASE TransferAccepted(t) \/ TransferRefused(t) \/ TransferNoAnswer(t)
               \/ TransferStub(t)
    BY <2>5 DEF TransferAccepted, TransferRefused, TransferNoAnswer, TransferStub,
                Untouched, dbVars
  <2>6. QED BY <1>2, <2>1, <2>2, <2>3, <2>4, <2>5 DEF Handle
<1>3. ASSUME NEW t \in Txn, SquadMoves(t) \/ Age(t) PROVE Untouched
  BY <1>3 DEF SquadMoves, Age, Untouched, dbVars
<1>4. ASSUME NEW t \in Txn, Webhook(t) PROVE Settles
  BY <1>4, EventOfType DEF Webhook, Settles
<1>5. ASSUME NEW p \in Poller, Cron(p) PROVE Untouched \/ Settles
  <2>1. CASE Reconcile(p)
    <3>1. reply[p].txn \in Txn BY <2>1 DEF Reconcile, TypeOK, ReplyType
    <3>2. QED BY <2>1, <3>1, VerifyOfType DEF Reconcile, Settles, Untouched, dbVars
  <2>2. CASE Fetch(p) \/ CronCrash(p)
    BY <2>2 DEF Fetch, CronCrash, Untouched, dbVars
  <2>3. ASSUME NEW t \in Txn, Verify(p, t) \/ VerifyFails(p, t) PROVE Untouched
    BY <2>3 DEF Verify, VerifyFails, Untouched, dbVars
  <2>4. QED BY <1>5, <2>1, <2>2, <2>3 DEF Cron
<1>6. QED BY <1>1, <1>2, <1>3, <1>4, <1>5 DEF Next

\* Only the balance check and the debit let a request reach "checked" or leave
\* "idle", so a request in one of these states was in it, or in the one before.
LEMMA EarlyStates ==
  ASSUME TypeOK, [Next]_vars, NEW t \in Txn, pc'[t] \in {"idle", "checked"}
  PROVE  /\ pc[t] \in {"idle", "checked"}
         /\ pc'[t] = "checked" =>
              \/ pc[t] = "checked" /\ req'[t] = req[t]
              \/ req'[t].worker \in Worker /\ req'[t].amount \in Amount
         /\ ~Debit(t)
<1>0. ~Debit(t) BY DEF Debit, TypeOK
<1>1. CASE UNCHANGED vars
  BY <1>0, <1>1 DEF vars
<1>2. ASSUME NEW u \in Txn, CheckBalance(u)
      PROVE  pc[t] \in {"idle", "checked"} /\ (pc'[t] = "checked" =>
              \/ pc[t] = "checked" /\ req'[t] = req[t]
              \/ req'[t].worker \in Worker /\ req'[t].amount \in Amount)
  BY <1>2 DEF CheckBalance, TypeOK
<1>3. ASSUME NEW u \in Txn, Handle(u), ~CheckBalance(u)
      PROVE  pc[t] \in {"idle", "checked"} /\ pc'[t] = pc[t] /\ req'[t] = req[t]
  BY <1>3 DEF Handle, Debit, TransferAccepted, TransferRefused, TransferNoAnswer,
     TransferStub, SyncReject, Respond, FanOut, FanOutLost, Crash, TypeOK
<1>4. ASSUME NEW u \in Txn, SquadMoves(u) \/ Webhook(u) \/ Age(u)
      PROVE  pc' = pc /\ req' = req
  BY <1>4 DEF SquadMoves, Webhook, Age
<1>5. ASSUME NEW p \in Poller, Cron(p)
      PROVE  pc' = pc /\ req' = req
  BY <1>5 DEF Cron, Fetch, Verify, VerifyFails, Reconcile, CronCrash
<1>6. QED BY <1>0, <1>1, <1>2, <1>3, <1>4, <1>5 DEF Next, Handle

LEMMA LedgerStep == LedgerInv /\ TypeOK' /\ [Next]_vars => LedgerInv'
<1> SUFFICES ASSUME LedgerInv, TypeOK', [Next]_vars PROVE LedgerInv'
  OBVIOUS
<1> USE DEF LedgerInv
<1>1. Requested'
  BY EarlyStates DEF Requested
<1>2. CASE Untouched
  <2>1. Unwritten' BY <1>2, EarlyStates DEF Untouched, Unwritten
  <2>2. RefundedOnceIfFailed' BY <1>2 DEF Untouched, RefundedOnceIfFailed
  <2>3. QED BY <1>1, <2>1, <2>2
<1>3. CASE Settles
  <2>1. PICK t \in Txn, status \in SettledStatuses : Settle(t, status)
    BY <1>3 DEF Settles
  <2>2. Unwritten' BY <2>1, SettleRefunds, EarlyStates DEF Unwritten
  <2>3. QED BY <1>1, <2>1, <2>2, SettleRefunds
<1>4. CASE Debits
  <2>1. PICK t \in Txn : Debit(t)
    BY <1>4 DEF Debits
  <2>2. row[t].status = "none" BY <2>1 DEF Debit, Unwritten
  <2>3. row'[t].status = "processing" /\ pc'[t] = "queued"
    BY <2>1 DEF Debit, TypeOK
  <2>4. \A u \in Txn \ {t} : row'[u] = row[u] /\ pc'[u] = pc[u]
    BY <2>1 DEF Debit, TypeOK
  <2>5. refunds' = refunds BY <2>1 DEF Debit
  <2>6. Unwritten' BY <2>3, <2>4 DEF Unwritten
  <2>7. RefundedOnceIfFailed'
    BY <2>2, <2>3, <2>4, <2>5 DEF RefundedOnceIfFailed
  <2>8. QED BY <1>1, <2>6, <2>7
<1>5. QED BY <1>2, <1>3, <1>4, LedgerSteps

\* A row is unwritten until its request is debited, and a request under way has its row
\* (withdrawals.service.ts:177-209): with the refunds, the invariant behind what follows.
THEOREM LedgerInvariant == Spec => []LedgerInv
<1>1. Init /\ TypeOK => LedgerInv
  BY DEF Init, LedgerInv, Unwritten, Requested, RefundedOnceIfFailed
<1>2. QED BY <1>1, LedgerStep, TypeCorrect, PTL DEF Spec

\* A failed withdrawal is refunded once and no other is refunded, whoever
\* settles it and however many race to.
THEOREM RefundedOnce == Spec => []RefundedOnceIfFailed
<1>1. LedgerInv => RefundedOnceIfFailed BY DEF LedgerInv
<1>2. QED BY <1>1, LedgerInvariant, PTL

\* A terminal row never changes again.
THEOREM OutcomesAreFinal == Spec => OutcomeFinal
<1>1. LedgerInv /\ [Next]_vars =>
        [\A t \in Txn : row[t].status \in Terminal => row'[t] = row[t]]_vars
  <2> SUFFICES ASSUME LedgerInv, [Next]_vars, NEW t \in Txn, row[t].status \in Terminal
               PROVE  row'[t] = row[t]
    OBVIOUS
  <2> USE DEF LedgerInv
  <2>1. CASE Untouched BY <2>1 DEF Untouched
  <2>2. CASE Settles BY <2>2, SettleRefunds DEF Settles
  <2>3. CASE Debits
    <3>1. PICK u \in Txn : Debit(u) BY <2>3 DEF Debits
    <3>2. u # t BY <3>1 DEF Debit, Unwritten, Terminal
    <3>3. QED BY <3>1, <3>2 DEF Debit, TypeOK
  <2>4. QED BY <2>1, <2>2, <2>3, LedgerSteps
<1>2. QED BY <1>1, LedgerInvariant, PTL DEF Spec, OutcomeFinal
-----------------------------------------------------------------------------
(***************************************************************************)
(* What the rows say of Squad is true of Squad.  A row is settled from a   *)
(* webhook or from an answer that may be old by then, so what makes it     *)
(* true is that a failure is final at Squad and a payment can only be      *)
(* reversed, and that neither is reported before the transfer is made.     *)
(***************************************************************************)
Unsent ==
  \A t \in Txn : pc[t] \in {"idle", "checked", "queued"} =>
    squad[t] = "unknown" /\ events[t] = {} /\ row[t].status # "failed"

NewsTrue ==
  \A t \in Txn :
    /\ "failed" \in events[t] => squad[t] = "failed"
    /\ "paid" \in events[t] => squad[t] \in {"paid", "reversed"}

AnswersTrue ==
  \A p \in Poller :
    reply[p] # NoReply =>
      /\ reply[p].truth = "failed" => squad[reply[p].txn] = "failed"
      /\ reply[p].truth = "paid" /\ ~Stub => squad[reply[p].txn] \in {"paid", "reversed"}

RefusalTrue ==
  \A t \in Txn : pc[t] = "refused" /\ ~Transport => squad[t] \in {"unknown", "failed"}

RowsTrue ==
  /\ ~Transport => NeverPaidAndRefunded
  /\ ~Stub => CompletedOnlyIfPaid

ProviderInv == Unsent /\ NewsTrue /\ AnswersTrue /\ RefusalTrue /\ RowsTrue

\* The status of every row after a settlement.
LEMMA SettleStatus ==
  ASSUME TypeOK, NEW t \in Txn, NEW status, Settle(t, status)
  PROVE  \A u \in Txn : row'[u].status = IF u = t /\ Open(t) THEN status ELSE row[u].status
<1>1. CASE Open(t)
  BY <1>1 DEF TypeOK, Settle, RowType
<1>2. CASE ~Open(t)
  BY <1>2 DEF Settle, dbVars
<1>3. QED BY <1>1, <1>2

\* A settlement with a status that is true of Squad keeps what rows say true.
LEMMA SettleTrue ==
  ASSUME TypeOK, ProviderInv, NEW t \in Txn, NEW status, Settle(t, status),
         UNCHANGED <<squad, events>>,
         \A u \in Txn : pc'[u] \in {"idle", "checked", "queued"} => pc[u] = pc'[u],
         status = "failed" => /\ pc[t] \notin {"idle", "checked", "queued"}
                              /\ ~Transport => squad[t] \in {"unknown", "failed"},
         status = "completed" /\ ~Stub => squad[t] \in {"paid", "reversed"}
  PROVE  Unsent' /\ RowsTrue'
<1>1. Unsent' BY SettleStatus DEF ProviderInv, Unsent
<1>2. RowsTrue'
  BY SettleStatus DEF ProviderInv, RowsTrue, NeverPaidAndRefunded, CompletedOnlyIfPaid
<1>3. QED BY <1>1, <1>2

LEMMA ProviderStep == TypeOK /\ ProviderInv /\ [Next]_vars => ProviderInv'
<1> SUFFICES ASSUME TypeOK, ProviderInv, [Next]_vars PROVE ProviderInv'
  OBVIOUS
<1> USE DEF ProviderInv
<1>1. CASE UNCHANGED vars
  BY <1>1 DEF vars, dbVars, squadVars, cronVars, Unsent, NewsTrue, AnswersTrue,
     RefusalTrue, RowsTrue, NeverPaidAndRefunded, CompletedOnlyIfPaid
<1>2. ASSUME NEW t \in Txn, CheckBalance(t) \/ Crash(t) PROVE ProviderInv'
  <2>1. UNCHANGED <<row, squad, events, reply>>
    BY <1>2 DEF CheckBalance, Crash, dbVars, squadVars, cronVars
  <2>2. \A u \in Txn : pc'[u] \in {"idle", "checked", "queued", "refused"} =>
          \/ pc[u] = pc'[u]
          \/ pc[u] = "idle" /\ pc'[u] = "checked"
    BY <1>2 DEF CheckBalance, Crash, TypeOK
  <2>3. QED BY <2>1, <2>2 DEF Unsent, NewsTrue, AnswersTrue, RefusalTrue, RowsTrue,
               NeverPaidAndRefunded, CompletedOnlyIfPaid
<1>3. ASSUME NEW t \in Txn, Debit(t) PROVE ProviderInv'
  <2>1. UNCHANGED <<squad, events, reply>>
    BY <1>3 DEF Debit, squadVars, cronVars
  <2>2. \A u \in Txn \ {t} : row'[u] = row[u] /\ pc'[u] = pc[u]
    BY <1>3 DEF Debit, TypeOK
  <2>3. row'[t].status = "processing" /\ pc'[t] = "queued" /\ pc[t] = "checked"
    BY <1>3 DEF Debit, TypeOK
  <2>4. QED BY <2>1, <2>2, <2>3 DEF Unsent, NewsTrue, AnswersTrue, RefusalTrue, RowsTrue,
               NeverPaidAndRefunded, CompletedOnlyIfPaid
<1>4. ASSUME NEW t \in Txn,
             TransferAccepted(t) \/ TransferRefused(t) \/ TransferNoAnswer(t)
               \/ TransferStub(t)
      PROVE ProviderInv'
  <2> USE DEF TransferAccepted, TransferRefused, TransferNoAnswer, TransferStub
  <2>1. UNCHANGED <<row, reply>> BY <1>4 DEF dbVars, cronVars
  <2>2. squad[t] = "unknown" /\ events[t] = {} /\ row[t].status # "failed"
    BY <1>4 DEF Unsent
  <2>3. \A u \in Txn \ {t} : pc'[u] = pc[u] /\ squad'[u] = squad[u] /\ events'[u] = events[u]
    BY <1>4 DEF TypeOK, squadVars
  <2>4. pc'[t] \in {"accepted", "refused"}
    BY <1>4 DEF TypeOK
  <2>5. /\ squad'[t] \in {"unknown", "accepted", "failed"}
        /\ squad'[t] = "failed" \/ "failed" \notin events'[t]
        /\ "paid" \notin events'[t]
    BY <1>4, <2>2 DEF TypeOK, squadVars
  <2>6. pc'[t] = "refused" /\ ~Transport => squad'[t] \in {"unknown", "failed"}
    BY <1>4, <2>2 DEF TypeOK, squadVars
  <2>7. Unsent' BY <2>1, <2>3, <2>4 DEF Unsent
  <2>8. NewsTrue' BY <2>3, <2>5 DEF NewsTrue
  <2>9. AnswersTrue'
    <3> SUFFICES ASSUME NEW p \in Poller, reply[p] # NoReply
                 PROVE  /\ reply[p].truth = "failed" => squad'[reply[p].txn] = "failed"
                        /\ reply[p].truth = "paid" /\ ~Stub =>
                             squad'[reply[p].txn] \in {"paid", "reversed"}
      BY <2>1 DEF AnswersTrue
    <3>1. reply[p].txn \in Txn BY DEF TypeOK, ReplyType
    <3>2. QED BY <2>2, <2>3, <3>1 DEF AnswersTrue
  <2>10. RefusalTrue' BY <2>3, <2>6 DEF RefusalTrue
  <2>11. RowsTrue'
    BY <2>1, <2>2, <2>3 DEF RowsTrue, NeverPaidAndRefunded, CompletedOnlyIfPaid
  <2>12. QED BY <2>7, <2>8, <2>9, <2>10, <2>11
<1>5. ASSUME NEW t \in Txn, SyncReject(t) PROVE ProviderInv'
  <2>1. Settle(t, "failed") /\ UNCHANGED <<squad, events, reply>> /\ pc[t] = "refused"
    BY <1>5 DEF SyncReject, squadVars, cronVars
  <2>2. \A u \in Txn : pc'[u] # "done" => pc[u] = pc'[u]
    BY <1>5 DEF SyncReject, TypeOK
  <2>3. Unsent' /\ RowsTrue' BY <2>1, <2>2, SettleTrue DEF RefusalTrue
  <2>4. QED BY <2>1, <2>2, <2>3 DEF NewsTrue, AnswersTrue, RefusalTrue
<1>6. ASSUME NEW t \in Txn, Respond(t) PROVE ProviderInv'
  <2>1. UNCHANGED <<squad, events, reply>> /\ pc[t] = "accepted"
    BY <1>6 DEF Respond, squadVars, cronVars
  <2>2. \A u \in Txn : pc'[u] # "done" => pc[u] = pc'[u]
    BY <1>6 DEF Respond, TypeOK
  <2>3. CASE Stub
    <3>1. Settle(t, "completed") BY <1>6, <2>3 DEF Respond
    <3>2. Unsent' /\ RowsTrue' BY <2>1, <2>2, <2>3, <3>1, SettleTrue
    <3>3. QED BY <2>1, <2>2, <3>2 DEF NewsTrue, AnswersTrue, RefusalTrue
  <2>4. CASE ~Stub
    <3>1. row' = row BY <1>6, <2>4 DEF Respond, dbVars
    <3>2. QED BY <2>1, <2>2, <3>1 DEF Unsent, NewsTrue, AnswersTrue, RefusalTrue,
                 RowsTrue, NeverPaidAndRefunded, CompletedOnlyIfPaid
  <2>5. QED BY <2>3, <2>4
<1>7. ASSUME NEW t \in Txn, FanOut(t) \/ FanOutLost(t) \/ Age(t) PROVE ProviderInv'
  <2>1. UNCHANGED <<row, squad, events, reply, pc>>
    BY <1>7 DEF FanOut, FanOutLost, Age, dbVars, squadVars, cronVars
  <2>2. QED BY <2>1 DEF Unsent, NewsTrue, AnswersTrue, RefusalTrue, RowsTrue,
               NeverPaidAndRefunded, CompletedOnlyIfPaid
<1>8. ASSUME NEW t \in Txn, SquadMoves(t) PROVE ProviderInv'
  <2>1. PICK next \in Truth :
          /\ \/ squad[t] = "accepted" /\ next \in {"paid", "failed"}
             \/ squad[t] = "paid" /\ next = "reversed"
          /\ squad' = [squad EXCEPT ![t] = next]
          /\ events' = [events EXCEPT ![t] = @ \union {next}]
    BY <1>8 DEF SquadMoves
  <2>2. UNCHANGED <<row, reply, pc>> BY <1>8 DEF SquadMoves, dbVars, cronVars
  <2>3. pc[t] \notin {"idle", "checked", "queued"} BY <2>1 DEF Unsent
  <2>4. \A u \in Txn \ {t} : squad'[u] = squad[u] /\ events'[u] = events[u]
    BY <2>1 DEF TypeOK
  <2>5. squad'[t] = next /\ events'[t] = events[t] \union {next}
    BY <2>1 DEF TypeOK
  <2>6. Unsent' BY <2>2, <2>3, <2>4 DEF Unsent
  <2>7. NewsTrue' BY <2>1, <2>4, <2>5 DEF NewsTrue
  <2>8. AnswersTrue'
    <3> SUFFICES ASSUME NEW p \in Poller, reply[p] # NoReply
                 PROVE  /\ reply[p].truth = "failed" => squad'[reply[p].txn] = "failed"
                        /\ reply[p].truth = "paid" /\ ~Stub =>
                             squad'[reply[p].txn] \in {"paid", "reversed"}
      BY <2>2 DEF AnswersTrue
    <3>1. reply[p].txn \in Txn BY DEF TypeOK, ReplyType
    <3>2. QED BY <2>1, <2>4, <2>5, <3>1 DEF AnswersTrue
  <2>9. RefusalTrue' BY <2>1, <2>2, <2>4, <2>5 DEF RefusalTrue
  <2>10. RowsTrue'
    BY <2>1, <2>2, <2>4, <2>5 DEF RowsTrue, NeverPaidAndRefunded, CompletedOnlyIfPaid
  <2>11. QED BY <2>6, <2>7, <2>8, <2>9, <2>10
<1>9. ASSUME NEW t \in Txn, Webhook(t) PROVE ProviderInv'
  <2>1. PICK truth \in events[t] : Settle(t, EventOf(truth).dbStatus)
    BY <1>9 DEF Webhook
  <2>2. UNCHANGED <<squad, events, reply, pc>> BY <1>9 DEF Webhook, squadVars, cronVars
  <2>3. truth \in Truth BY <2>1 DEF TypeOK
  <2>4. EventOf(truth).dbStatus = "failed" =>
          squad[t] = "failed" /\ pc[t] \notin {"idle", "checked", "queued"}
    BY <2>1, <2>3, EventOfMeaning DEF NewsTrue, Unsent
  <2>5. EventOf(truth).dbStatus = "completed" => squad[t] \in {"paid", "reversed"}
    BY <2>1, <2>3, EventOfMeaning DEF NewsTrue
  <2>6. Unsent' /\ RowsTrue' BY <2>1, <2>2, <2>4, <2>5, SettleTrue
  <2>7. QED BY <2>2, <2>6 DEF NewsTrue, AnswersTrue, RefusalTrue
<1>10. ASSUME NEW p \in Poller, Fetch(p) \/ CronCrash(p) PROVE ProviderInv'
  <2>1. UNCHANGED <<row, squad, events, pc>>
    BY <1>10 DEF Fetch, CronCrash, dbVars, squadVars
  <2>2. \A q \in Poller : reply'[q] = reply[q] \/ reply'[q] = NoReply
    BY <1>10 DEF Fetch, CronCrash, TypeOK
  <2>3. AnswersTrue' BY <2>1, <2>2 DEF AnswersTrue
  <2>4. QED BY <2>1, <2>3 DEF Unsent, NewsTrue, RefusalTrue, RowsTrue,
               NeverPaidAndRefunded, CompletedOnlyIfPaid
<1>11. ASSUME NEW p \in Poller, NEW t \in Txn, Verify(p, t) \/ VerifyFails(p, t)
       PROVE ProviderInv'
  <2>1. UNCHANGED <<row, squad, events, pc>>
    BY <1>11 DEF Verify, VerifyFails, dbVars, squadVars
  <2>2. \A q \in Poller \ {p} : reply'[q] = reply[q]
    BY <1>11 DEF Verify, VerifyFails, TypeOK
  <2>3. PICK truth \in Truth \union {"unreachable"} :
          /\ reply'[p] = [txn |-> t, truth |-> truth]
          /\ truth = "failed" => squad[t] = "failed"
          /\ truth = "paid" /\ ~Stub => squad[t] = "paid"
    BY <1>11 DEF Verify, VerifyFails, TypeOK, Truth
  <2>4. AnswersTrue' BY <2>1, <2>2, <2>3 DEF AnswersTrue
  <2>5. QED BY <2>1, <2>4 DEF Unsent, NewsTrue, RefusalTrue, RowsTrue,
               NeverPaidAndRefunded, CompletedOnlyIfPaid
<1>12. ASSUME NEW p \in Poller, Reconcile(p) PROVE ProviderInv'
  <2> DEFINE t == reply[p].txn
             truth == reply[p].truth
             status == VerifyOf(truth).dbStatus
  <2>1. t \in Txn /\ truth \in Truth \union {"unreachable"} /\ reply[p] # NoReply
    BY <1>12 DEF Reconcile, TypeOK, ReplyType
  <2>2. UNCHANGED <<squad, events, pc>> BY <1>12 DEF Reconcile, squadVars
  <2>3. \A q \in Poller : reply'[q] = reply[q] \/ reply'[q] = NoReply
    BY <1>12 DEF Reconcile, TypeOK
  <2>4. AnswersTrue' BY <2>2, <2>3 DEF AnswersTrue
  <2>5. Unsent' /\ RowsTrue'
    <3>1. CASE status = "processing"
      <4>1. row' = row BY <1>12, <3>1 DEF Reconcile, dbVars
      <4>2. QED BY <2>2, <4>1 DEF Unsent, RowsTrue, NeverPaidAndRefunded,
                   CompletedOnlyIfPaid
    <3>2. CASE status # "processing"
      <4>1. Settle(t, status) BY <1>12, <3>2 DEF Reconcile
      <4>2. status = "failed" =>
              squad[t] = "failed" /\ pc[t] \notin {"idle", "checked", "queued"}
        BY <2>1, VerifyOfMeaning DEF AnswersTrue, Unsent
      <4>3. status = "completed" /\ ~Stub => squad[t] \in {"paid", "reversed"}
        BY <2>1, VerifyOfMeaning DEF AnswersTrue
      <4> HIDE DEF status, t, truth
      <4>4. QED BY <2>1, <2>2, <4>1, <4>2, <4>3, SettleTrue
    <3>3. QED BY <3>1, <3>2
  <2>6. QED BY <2>2, <2>4, <2>5 DEF NewsTrue, RefusalTrue
<1>13. QED
  BY <1>1, <1>2, <1>3, <1>4, <1>5, <1>6, <1>7, <1>8, <1>9, <1>10, <1>11, <1>12
  DEF Next, Handle, Cron

LEMMA ProviderInvariant == Spec => []ProviderInv
<1>1. Init => ProviderInv
  BY DEF Init, ProviderInv, Unsent, NewsTrue, AnswersTrue, RefusalTrue, RowsTrue,
     NeverPaidAndRefunded, CompletedOnlyIfPaid
<1>2. QED BY <1>1, ProviderStep, TypeCorrect, PTL DEF Spec

\* As long as every transfer call gets an answer, no worker is both paid by
\* Squad and refunded by the application.
THEOREM NoDoublePayout ==
  ASSUME Transport = FALSE PROVE Spec => []NeverPaidAndRefunded
<1>1. ProviderInv => NeverPaidAndRefunded BY DEF ProviderInv, RowsTrue
<1>2. QED BY <1>1, ProviderInvariant, PTL

\* With the real provider, a withdrawal shown as completed was paid out, even
\* where transfer calls go unanswered.
THEOREM NoFalseCompletion ==
  ASSUME Stub = FALSE PROVE Spec => []CompletedOnlyIfPaid
<1>1. ProviderInv => CompletedOnlyIfPaid BY DEF ProviderInv, RowsTrue
<1>2. QED BY <1>1, ProviderInvariant, PTL
-----------------------------------------------------------------------------
(***************************************************************************)
(* The refinement of the abstract payout.                                  *)
(***************************************************************************)

\* Every step of the system is a hold, a settlement, a return or nothing to
\* the abstract claim.
THEOREM PayoutRefined == Spec => ImplementsPayout
<1>1. Init => Abstract!Init
  <2> SUFFICES ASSUME Init PROVE Abstract!Init
    OBVIOUS
  <2>1. \A t \in Txn : Phase(t) = "none" BY DEF Init, Phase, Open, NonTerminal
  <2>2. \A t \in Txn : row[t].worker = Nobody /\ row[t].amount = 0 BY DEF Init
  <2>3. wallet \in [Worker -> Int] BY BalanceAssumption DEF Init
  <2>4. QED BY <2>1, <2>2, <2>3 DEF Abstract!Init
<1>2. LedgerInv /\ [Next]_vars => [Abstract!Next]_(Abstract!vars)
  <2> SUFFICES ASSUME LedgerInv, [Next]_vars
               PROVE  Abstract!Next \/ UNCHANGED Abstract!vars
    OBVIOUS
  <2> USE DEF LedgerInv
  <2>1. CASE Untouched
    BY <2>1 DEF Untouched, Abstract!vars, Phase, Open
  <2>2. CASE Settles
    <3>1. PICK t \in Txn, status \in SettledStatuses : Settle(t, status)
      BY <2>2 DEF Settles
    <3>2. CASE ~Open(t)
      BY <3>1, <3>2 DEF Settle, dbVars, Abstract!vars, Phase, Open
    <3>3. CASE Open(t)
      <4>1. row' = [row EXCEPT ![t].status = status] BY <3>1, <3>3 DEF Settle
      <4>2. row \in [Txn -> RowType] /\ row' \in [Txn -> RowType]
        BY <3>1, SettleType DEF TypeOK
      <4>3. /\ \A u \in Txn : row'[u].worker = row[u].worker /\ row'[u].amount = row[u].amount
            /\ row'[t].status = status
            /\ \A u \in Txn \ {t} : row'[u] = row[u]
        BY <4>1, <4>2 DEF RowType
      <4>4. \A u \in Txn \ {t} : Phase(u)' = Phase(u) BY <4>3 DEF Phase, Open
      <4>5. Phase(t) = "held"
        BY <3>3 DEF Phase, Open, NonTerminal
      <4>6. /\ [u \in Txn |-> row[u].worker]' = [u \in Txn |-> row[u].worker]
            /\ [u \in Txn |-> row[u].amount]' = [u \in Txn |-> row[u].amount]
        BY <4>3
      <4>7. CASE status = "failed"
        <5>1. Phase(t)' = "returned" BY <4>3, <4>7 DEF Phase, Open, NonTerminal
        <5>2. wallet' = [wallet EXCEPT ![row[t].worker] = @ + row[t].amount]
          BY <3>1, <3>3, <4>7 DEF Settle, Refunds
        <5>3. [u \in Txn |-> Phase(u)]' = [[u \in Txn |-> Phase(u)] EXCEPT ![t] = "returned"]
          BY <4>4, <5>1
        <5>4. Abstract!Return(t)
          BY <4>5, <4>6, <5>2, <5>3 DEF Abstract!Return
        <5>5. QED BY <5>4 DEF Abstract!Next
      <4>8. CASE status = "processing"
        <5>1. Phase(t)' = "held" BY <4>3, <4>8 DEF Phase, Open, NonTerminal
        <5>2. wallet' = wallet BY <3>1, <3>3, <4>8 DEF Settle, Refunds
        <5>3. [u \in Txn |-> Phase(u)]' = [u \in Txn |-> Phase(u)]
          BY <4>4, <4>5, <5>1
        <5>4. QED BY <4>6, <5>2, <5>3 DEF Abstract!vars
      <4>9. CASE status \in {"completed", "reversed"}
        <5>1. Phase(t)' = "settled" BY <4>3, <4>9 DEF Phase, Open, NonTerminal
        <5>2. wallet' = wallet BY <3>1, <3>3, <4>9 DEF Settle, Refunds
        <5>3. [u \in Txn |-> Phase(u)]' = [[u \in Txn |-> Phase(u)] EXCEPT ![t] = "settled"]
          BY <4>4, <5>1
        <5>4. Abstract!Settle(t)
          BY <4>5, <4>6, <5>2, <5>3 DEF Abstract!Settle
        <5>5. QED BY <5>4 DEF Abstract!Next
      <4>10. QED BY <4>7, <4>8, <4>9 DEF SettledStatuses
    <3>4. QED BY <3>2, <3>3
  <2>3. CASE Debits
    <3>1. PICK t \in Txn : Debit(t) BY <2>3 DEF Debits
    <3>2. row[t].status = "none" /\ req[t].worker \in Worker /\ req[t].amount \in Amount
      BY <3>1 DEF Debit, Unwritten, Requested
    <3>3. row' = [row EXCEPT ![t] = [worker |-> req[t].worker, amount |-> req[t].amount,
                                     status |-> "processing", seq |-> created]]
      BY <3>1 DEF Debit
    <3>4. /\ row'[t].worker = req[t].worker /\ row'[t].amount = req[t].amount
          /\ row'[t].status = "processing"
          /\ \A u \in Txn \ {t} : row'[u] = row[u]
      BY <3>3 DEF TypeOK
    <3>5. [u \in Txn |-> Phase(u)]' = [[u \in Txn |-> Phase(u)] EXCEPT ![t] = "held"]
      BY <3>4 DEF Phase, Open, NonTerminal
    <3>6. /\ [u \in Txn |-> row[u].worker]'
               = [[u \in Txn |-> row[u].worker] EXCEPT ![t] = req[t].worker]
          /\ [u \in Txn |-> row[u].amount]'
               = [[u \in Txn |-> row[u].amount] EXCEPT ![t] = req[t].amount]
      BY <3>4
    <3>7. wallet' = [wallet EXCEPT ![req[t].worker] = @ - req[t].amount]
      BY <3>1 DEF Debit
    <3>8. Phase(t) = "none" BY <3>2 DEF Phase, Open, NonTerminal
    <3>9. Abstract!Hold(t)
      BY <3>2, <3>5, <3>6, <3>7, <3>8 DEF Abstract!Hold
    <3>10. QED BY <3>9 DEF Abstract!Next
  <2>4. QED BY <2>1, <2>2, <2>3, LedgerSteps
<1>3. QED BY <1>1, <1>2, LedgerInvariant, PTL DEF Spec, ImplementsPayout, Abstract!Spec
-----------------------------------------------------------------------------
(***************************************************************************)
(* The books of a wallet.  What the rows keep out of it is a sum over all  *)
(* rows, in which one settlement or one debit changes one summand, by what *)
(* it puts into the wallet or takes out of it.                             *)
(***************************************************************************)
Keeping == {"processing", "completed", "reversed"}

KeptBy(w, t) ==
    IF row[t].worker = w /\ row[t].status \in Keeping THEN row[t].amount ELSE 0
Kept(w) == [t \in Txn |-> KeptBy(w, t)]

LEMMA WithheldSum ==
  ASSUME TypeOK, NEW w \in Worker
  PROVE  Withheld(w) = Sum(Kept(w), Txn)
<1> DEFINE T == {t \in Txn : row[t].worker = w /\ row[t].status \in Keeping}
<1>1. Withheld(w) = MapThenSumSet(LAMBDA t : row[t].amount, T)
  BY DEF Withheld, Keeping
<1>2. MapThenSumSet(LAMBDA t : row[t].amount, T)
        = (CHOOSE g : g = [s \in SUBSET T |->
             IF s = {} THEN 0 ELSE row[AnyOf(s)].amount + g[s \ {AnyOf(s)}]])[T]
  BY DEF MapThenSumSet, MapThenFoldSet, AnyOf
<1>3. \A s \in SUBSET T : s # {} => row[AnyOf(s)].amount = Kept(w)[AnyOf(s)]
  BY FirstIn DEF Kept, KeptBy
<1>4. \A g : [s \in SUBSET T |->
                IF s = {} THEN 0 ELSE row[AnyOf(s)].amount + g[s \ {AnyOf(s)}]]
             = [s \in SUBSET T |-> Step(g, Kept(w), s)]
  BY <1>3 DEF Step
<1>5. Withheld(w) = (CHOOSE g : Adds(g, Kept(w), T))[T]
  <2>1. \A g : Adds(g, Kept(w), T) <=> g = [s \in SUBSET T |->
             IF s = {} THEN 0 ELSE row[AnyOf(s)].amount + g[s \ {AnyOf(s)}]]
    BY <1>4 DEF Adds
  <2>2. (CHOOSE g : Adds(g, Kept(w), T)) = (CHOOSE g : g = [s \in SUBSET T |->
             IF s = {} THEN 0 ELSE row[AnyOf(s)].amount + g[s \ {AnyOf(s)}]])
    BY <2>1, Zenon
  <2> QED
    BY <1>1, <1>2, <2>2
<1>6. Withheld(w) = Sum(Kept(w), T)
  BY <1>5, SumComputed
<1>7. \A t \in Txn : Kept(w)[t] \in Int
  BY DEF Kept, KeptBy, TypeOK, RowType
<1>8. \A t \in Txn \ T : Kept(w)[t] = 0
  BY DEF Kept, KeptBy
<1> QED
  BY <1>6, <1>7, <1>8, SumWithin, TxnAssumption
NeverPending == \A t \in Txn : row[t].status # "pending"
Balanced == \A w \in Worker : wallet[w] = Balance - Sum(Kept(w), Txn)
BooksInv == NeverPending /\ Balanced

\* A step that changes one row moves a wallet by what the row keeps of it.
LEMMA KeptMoves ==
  ASSUME TypeOK, TypeOK', Balanced, NEW t \in Txn, \A u \in Txn \ {t} : row'[u] = row[u],
         \A w \in Worker : wallet'[w] = wallet[w] + KeptBy(w, t) - KeptBy(w, t)'
  PROVE  Balanced'
<1> SUFFICES ASSUME NEW w \in Worker PROVE wallet'[w] = Balance - Sum(Kept(w)', Txn)
  BY DEF Balanced
<1>1. \A u \in Txn : Kept(w)[u] \in Int /\ Kept(w)'[u] \in Int
  BY DEF Kept, KeptBy, TypeOK, RowType
<1>2. \A u \in Txn \ {t} : Kept(w)'[u] = Kept(w)[u]
  BY DEF Kept, KeptBy
<1>3. Kept(w)[t] = KeptBy(w, t) /\ Kept(w)'[t] = KeptBy(w, t)'
  BY DEF Kept
<1>4. Sum(Kept(w)', Txn) = Sum(Kept(w), Txn) + Kept(w)'[t] - Kept(w)[t]
  BY <1>1, <1>2, SumChange, TxnAssumption
<1>5. Sum(Kept(w), Txn) \in Int
  BY <1>1, SumType, TxnAssumption
<1>6. KeptBy(w, t) \in Int /\ KeptBy(w, t)' \in Int
  BY <1>1, <1>3
<1>7. wallet[w] = Balance - Sum(Kept(w), Txn)
  BY DEF Balanced
<1>8. wallet'[w] = wallet[w] + KeptBy(w, t) - KeptBy(w, t)'
  OBVIOUS
<1> QED
  BY <1>3, <1>4, <1>5, <1>6, <1>7, <1>8, BalanceAssumption

LEMMA BooksStep ==
  ASSUME LedgerInv, TypeOK', BooksInv, [Next]_vars PROVE BooksInv'
<1> USE DEF LedgerInv, BooksInv
<1>1. CASE Untouched
  <2>1. \A w \in Worker : Kept(w)' = Kept(w)
    BY <1>1 DEF Untouched, Kept, KeptBy
  <2> QED
    BY <1>1, <2>1 DEF Untouched, NeverPending, Balanced
<1>2. CASE Settles
  <2>1. PICK t \in Txn, status \in SettledStatuses : Settle(t, status)
    BY <1>2 DEF Settles
  <2>2. CASE ~Open(t)
    <3>1. Untouched
      BY <2>1, <2>2 DEF Settle, dbVars, Untouched
    <3> QED
      BY <1>1, <3>1
  <2>3. CASE Open(t)
    <3>1. row[t].status = "processing" /\ row[t] \in RowType
      BY <2>3 DEF Open, NonTerminal, NeverPending, TypeOK
    <3>2. \A u \in Txn : row'[u] = IF u = t THEN [row[t] EXCEPT !.status = status] ELSE row[u]
      BY <2>1, <2>3 DEF TypeOK, Settle
    <3>3. /\ row'[t].worker = row[t].worker /\ row'[t].amount = row[t].amount
          /\ row'[t].status = status
      BY <3>1, <3>2 DEF RowType
    <3>4. NeverPending'
      BY <3>2, <3>3 DEF NeverPending, SettledStatuses
    <3>5. ASSUME NEW w \in Worker
          PROVE  wallet'[w] = wallet[w] + KeptBy(w, t) - KeptBy(w, t)'
      <4>1. wallet[w] \in Int /\ row[t].amount \in Int
        BY <3>1 DEF TypeOK, RowType
      <4>2. KeptBy(w, t) = IF row[t].worker = w THEN row[t].amount ELSE 0
        BY <3>1 DEF KeptBy, Keeping
      <4>3. KeptBy(w, t)' = IF row[t].worker = w /\ status \in Keeping THEN row[t].amount ELSE 0
        BY <3>3 DEF KeptBy
      <4>4. wallet'[w] = IF row[t].worker = w /\ status = "failed"
                         THEN wallet[w] + row[t].amount ELSE wallet[w]
        BY <2>1, <2>3 DEF Settle, Refunds, TypeOK
      <4>5. status \in Keeping <=> status # "failed"
        BY DEF Keeping, SettledStatuses
      <4> QED
        BY <4>1, <4>2, <4>3, <4>4, <4>5
    <3>6. \A w \in Worker : wallet'[w] = wallet[w] + KeptBy(w, t) - KeptBy(w, t)'
      BY <3>5
    <3> QED
      BY <3>2, <3>4, <3>6, KeptMoves
  <2> QED
    BY <2>2, <2>3
<1>3. CASE Debits
  <2>1. PICK t \in Txn : Debit(t)
    BY <1>3 DEF Debits
  <2>2. row[t].status = "none" /\ req[t].worker \in Worker /\ req[t].amount \in Int
    <3>1. pc[t] = "checked"
      BY <2>1 DEF Debit
    <3>2. row[t].status = "none"
      BY <3>1 DEF Unwritten
    <3>3. req[t].worker \in Worker /\ req[t].amount \in Amount
      BY <3>1 DEF Requested
    <3>4. \A n \in Amount : n \in Int
      BY AmountAssumption
    <3>5. req[t].amount \in Int
      BY <3>3, <3>4
    <3> QED
      BY <3>2, <3>3, <3>5
  <2>3. row'[t].worker = req[t].worker /\ row'[t].amount = req[t].amount
          /\ row'[t].status = "processing"
    BY <2>1 DEF Debit, TypeOK
  <2>4. \A u \in Txn \ {t} : row'[u] = row[u]
    BY <2>1 DEF Debit, TypeOK
  <2>5. NeverPending'
    BY <2>3, <2>4 DEF NeverPending
  <2>6. ASSUME NEW w \in Worker
        PROVE  wallet'[w] = wallet[w] + KeptBy(w, t) - KeptBy(w, t)'
    <3>1. wallet[w] \in Int
      BY DEF TypeOK
    <3>2. KeptBy(w, t) = 0
      BY <2>2 DEF KeptBy, Keeping
    <3>3. KeptBy(w, t)' = IF req[t].worker = w THEN req[t].amount ELSE 0
      BY <2>3 DEF KeptBy, Keeping
    <3>4. wallet'[w] = IF req[t].worker = w THEN wallet[w] - req[t].amount ELSE wallet[w]
      BY <2>1 DEF Debit, TypeOK
    <3> QED
      BY <2>2, <3>1, <3>2, <3>3, <3>4
  <2>7. \A w \in Worker : wallet'[w] = wallet[w] + KeptBy(w, t) - KeptBy(w, t)'
    BY <2>6
  <2> QED
    BY <2>4, <2>5, <2>7, KeptMoves
<1> QED
  BY <1>1, <1>2, <1>3, LedgerSteps

(* A wallet is what it started with less the withdrawals that are open, paid or
   reversed, and a failed one leaves no trace in it, however the debits and the
   refunds of a worker's requests cross (withdrawals.service.ts:186,
   withdrawal-settlement.service.ts:97): for any workers, rows, amounts and runs. *)
THEOREM BooksBalance == Spec => []WalletBooks
<1>1. Init /\ TypeOK => BooksInv
  <2> SUFFICES ASSUME Init, TypeOK PROVE BooksInv
    OBVIOUS
  <2>1. \A w \in Worker, t \in Txn : Kept(w)[t] = 0
    BY DEF Init, Kept, KeptBy, Keeping
  <2>2. \A w \in Worker : Sum(Kept(w), Txn) = 0
    BY <2>1, SumZero, TxnAssumption
  <2> QED
    BY <2>2, BalanceAssumption DEF Init, BooksInv, NeverPending, Balanced
<1>2. LedgerInv /\ TypeOK' /\ BooksInv /\ [Next]_vars => BooksInv'
  BY BooksStep
<1>3. TypeOK /\ BooksInv => WalletBooks
  BY WithheldSum DEF BooksInv, Balanced, WalletBooks
<1> QED
  BY <1>1, <1>2, <1>3, LedgerInvariant, TypeCorrect, PTL DEF Spec
-----------------------------------------------------------------------------
(***************************************************************************)
(* What the worker is told.  A notice is owed from the commit of an        *)
(* outcome that is announced, and that outcome is final, so it still holds *)
(* when the fan-out reads the row again.                                   *)
(***************************************************************************)
OwedOutcome ==
    \A t \in Txn : notice[t] = "owed" => row[t].status \in {"completed", "failed"}

NoticeInv == NoticeTellsOutcome /\ OwedOutcome

\* A step that tells nobody anything settles a row, writes one, or leaves the
\* rows alone.
LEMMA NoticeSteps ==
  ASSUME TypeOK, [Next]_vars
  PROVE  \/ Untouched /\ UNCHANGED notice
         \/ \E t \in Txn : FanOut(t) \/ FanOutLost(t)
         \/ Settles
         \/ Debits
<1> DEFINE Goal == \/ Untouched /\ UNCHANGED notice
                   \/ \E t \in Txn : FanOut(t) \/ FanOutLost(t)
                   \/ Settles
                   \/ Debits
<1>1. CASE UNCHANGED vars
  BY <1>1 DEF vars, dbVars, Untouched
<1>2. ASSUME NEW t \in Txn, Handle(t) PROVE Goal
  <2>1. CASE SyncReject(t)
    BY <2>1 DEF SyncReject, Settles, SettledStatuses
  <2>2. CASE Respond(t)
    BY <2>2 DEF Respond, Settles, SettledStatuses, Untouched, dbVars
  <2>3. CASE Debit(t)
    BY <2>3 DEF Debits
  <2>4. CASE CheckBalance(t) \/ Crash(t)
    BY <2>4 DEF CheckBalance, Crash, Untouched, dbVars
  <2>5. CASE FanOut(t) \/ FanOutLost(t)
    BY <2>5
  <2>6. CASE TransferAccepted(t) \/ TransferRefused(t) \/ TransferNoAnswer(t)
               \/ TransferStub(t)
    BY <2>6 DEF TransferAccepted, TransferRefused, TransferNoAnswer, TransferStub,
                Untouched, dbVars
  <2> QED
    BY <1>2, <2>1, <2>2, <2>3, <2>4, <2>5, <2>6 DEF Handle
<1>3. ASSUME NEW t \in Txn, SquadMoves(t) \/ Age(t) PROVE Untouched /\ UNCHANGED notice
  BY <1>3 DEF SquadMoves, Age, Untouched, dbVars
<1>4. ASSUME NEW t \in Txn, Webhook(t) PROVE Settles
  BY <1>4, EventOfType DEF Webhook, Settles
<1>5. ASSUME NEW p \in Poller, Cron(p) PROVE (Untouched /\ UNCHANGED notice) \/ Settles
  <2>1. CASE Reconcile(p)
    <3>1. reply[p].txn \in Txn
      BY <2>1 DEF Reconcile, TypeOK, ReplyType
    <3> QED
      BY <2>1, <3>1, VerifyOfType DEF Reconcile, Settles, Untouched, dbVars
  <2>2. CASE Fetch(p) \/ CronCrash(p)
    BY <2>2 DEF Fetch, CronCrash, Untouched, dbVars
  <2>3. ASSUME NEW t \in Txn, Verify(p, t) \/ VerifyFails(p, t)
        PROVE  Untouched /\ UNCHANGED notice
    BY <2>3 DEF Verify, VerifyFails, Untouched, dbVars
  <2> QED
    BY <1>5, <2>1, <2>2, <2>3 DEF Cron
<1> QED
  BY <1>1, <1>2, <1>3, <1>4, <1>5 DEF Next

LEMMA NoticeStep ==
  ASSUME LedgerInv, LedgerInv', NoticeInv, [Next]_vars PROVE NoticeInv'
<1> USE DEF LedgerInv, NoticeInv
<1>1. CASE Untouched /\ UNCHANGED notice
  BY <1>1 DEF Untouched, NoticeTellsOutcome, OwedOutcome, Open
<1>2. ASSUME NEW t \in Txn, FanOut(t) \/ FanOutLost(t) PROVE NoticeInv'
  <2>1. UNCHANGED <<row, refunds>> /\ notice[t] = "owed"
    BY <1>2 DEF FanOut, FanOutLost
  <2>2. \A u \in Txn \ {t} : notice'[u] = notice[u]
    BY <1>2 DEF FanOut, FanOutLost, TypeOK
  <2>3. notice'[t] \in {"lost", IF row[t].status = "completed" THEN "processed" ELSE "refunded"}
    BY <1>2 DEF FanOut, FanOutLost, TypeOK
  <2>4. /\ row[t].status \in {"completed", "failed"}
        /\ row[t].status = "failed" => refunds[t] = 1
    BY <2>1 DEF OwedOutcome, RefundedOnceIfFailed
  <2>5. \A u \in Txn : row'[u] = row[u] /\ refunds'[u] = refunds[u]
    BY <2>1
  <2>6. OwedOutcome'
    BY <2>2, <2>3, <2>5 DEF OwedOutcome
  <2>7. NoticeTellsOutcome'
    BY <2>2, <2>3, <2>4, <2>5 DEF NoticeTellsOutcome, Open
  <2> QED
    BY <2>6, <2>7
<1>3. CASE Settles
  <2>1. PICK t \in Txn, status \in SettledStatuses : Settle(t, status)
    BY <1>3 DEF Settles
  <2>2. CASE ~Open(t)
    BY <2>1, <2>2 DEF Settle, dbVars, NoticeTellsOutcome, OwedOutcome, Open
  <2>3. CASE Open(t)
    <3>1. row[t] \in RowType /\ row[t].status \in {"pending", "processing"}
      BY <2>3 DEF Open, NonTerminal, TypeOK
    <3>2. \A u \in Txn : row'[u] = IF u = t THEN [row[t] EXCEPT !.status = status] ELSE row[u]
      BY <2>1, <2>3 DEF TypeOK, Settle
    <3>3. row'[t].status = status
      BY <3>1, <3>2 DEF RowType
    <3>4. \A u \in Txn \ {t} : notice'[u] = notice[u]
      BY <2>1, <2>3 DEF TypeOK, Settle
    <3>5. /\ status \in {"completed", "failed"} => notice'[t] = "owed"
          /\ status \notin {"completed", "failed"} => notice'[t] = notice[t]
      BY <2>1, <2>3 DEF TypeOK, Settle, Announces
    <3>6. notice[t] \notin {"owed", "processed", "refunded"}
      BY <2>3, <3>1 DEF NoticeTellsOutcome
    <3>7. OwedOutcome'
      BY <3>2, <3>3, <3>4, <3>5, <3>6 DEF OwedOutcome
    <3>8. \A u \in Txn : refunds'[u] = IF row'[u].status = "failed" THEN 1 ELSE 0
      BY DEF RefundedOnceIfFailed
    <3>9. NoticeTellsOutcome'
      BY <3>2, <3>3, <3>4, <3>5, <3>6, <3>8 DEF NoticeTellsOutcome, Open, NonTerminal
    <3> QED
      BY <3>7, <3>9
  <2> QED
    BY <2>2, <2>3
<1>4. CASE Debits
  <2>1. PICK t \in Txn : Debit(t)
    BY <1>4 DEF Debits
  <2>2. row[t].status = "none"
    BY <2>1 DEF Debit, Unwritten
  <2>3. notice[t] \notin {"processed", "refunded"} /\ notice[t] # "owed"
    BY <2>2 DEF NoticeTellsOutcome, OwedOutcome
  <2>4. UNCHANGED <<refunds, notice>> /\ \A u \in Txn \ {t} : row'[u] = row[u]
    BY <2>1 DEF Debit, TypeOK
  <2> QED
    BY <2>3, <2>4 DEF NoticeTellsOutcome, OwedOutcome, Open
<1> QED
  BY <1>1, <1>2, <1>3, <1>4, NoticeSteps

(* A worker who is told that a withdrawal was paid out or given back is told the
   truth, and a withdrawal that is open is not announced, though the fan-out reads
   the row again after the commit (withdrawal-settlement.service.ts:149): for any
   workers, rows and runs. *)
THEOREM NoticesAreTrue == Spec => []NoticeTellsOutcome
<1>1. Init => NoticeInv
  BY DEF Init, NoticeInv, NoticeTellsOutcome, OwedOutcome
<1>2. LedgerInv /\ LedgerInv' /\ NoticeInv /\ [Next]_vars => NoticeInv'
  BY NoticeStep
<1>3. NoticeInv => NoticeTellsOutcome
  BY DEF NoticeInv
<1> QED
  BY <1>1, <1>2, <1>3, LedgerInvariant, PTL DEF Spec
=============================================================================
