----------------------------- MODULE Withdrawals -----------------------------
(***************************************************************************)
(* A worker's withdrawal, from the request to its settlement: the handler  *)
(* of POST /wallet/withdrawals (withdrawals.service.ts), the transfer call *)
(* to Squad (squad.client.ts), the webhook receiver                        *)
(* (squad-webhook.controller.ts), the reconciliation cron                  *)
(* (squad-reconciliation.cron.ts) and the settlement all of them share     *)
(* (withdrawal-settlement.service.ts).                                     *)
(*                                                                         *)
(* Postgres runs at READ COMMITTED: a read takes no lock, so the balance   *)
(* check and the debit of one request are two steps between which other    *)
(* requests commit; a decrement applies to the row as it is at commit; an  *)
(* updateMany with a status filter is a compare-and-swap.  Squad is        *)
(* external: it keeps its own state of each transfer, and the webhooks it  *)
(* sends may be lost, repeated, delayed and reordered.                     *)
(***************************************************************************)
EXTENDS Integers, FiniteSets, SquadStatus

CONSTANTS
    Worker,      \* workers
    Txn,         \* Transaction rows, one for each withdrawal request
    Amount,      \* amounts requested, all at least rules.withdrawalMinNaira
    Balance,     \* what each wallet holds at the start
    Poller,      \* runs of the reconciliation cron that may overlap
    MaxPerTick,  \* MAX_PER_TICK of the cron
    Transport,   \* whether a transfer call may end without an answer
    Stub,        \* whether squad.provider is 'stub'
    Nobody,      \* the worker of a row that is not written
    NoReply      \* the state of a poller that has not asked Squad

ASSUME TxnAssumption == IsFiniteSet(Txn)
ASSUME AmountAssumption == Amount \subseteq Nat \ {0}
ASSUME BalanceAssumption == Balance \in Nat
ASSUME FlagAssumption == Transport \in BOOLEAN /\ Stub \in BOOLEAN
ASSUME CapAssumption == MaxPerTick \in Nat \ {0}
ASSUME NobodyAssumption == Nobody \notin Worker

VARIABLES
    wallet,   \* Worker.walletBalance
    row,      \* the Transaction rows
    req,      \* the worker and the amount of each request
    pc,       \* how far the request handler of each row has come
    squad,    \* Squad's own state of the transfer a row refers to
    events,   \* the states Squad may send a webhook about, now or later
    aged,     \* rows older than STUCK_AFTER_MS
    created,  \* the number of rows written: the order of createdAt
    batch,    \* the candidates a cron run has yet to look at
    reply,    \* the answer of Squad a cron run has yet to apply
    refunds,  \* how often each withdrawal was refunded
    notice    \* what the worker was told about the end of each withdrawal

dbVars == <<wallet, row, refunds, notice>>
squadVars == <<squad, events>>
cronVars == <<batch, reply>>
vars == <<dbVars, squadVars, cronVars, req, pc, aged, created>>
-----------------------------------------------------------------------------
RowType == [worker : Worker \union {Nobody}, amount : Nat,
            status : RowStatus, seq : Nat]

RequestType == [worker : Worker \union {Nobody}, amount : Nat]

HandlerState == {"idle", "checked", "queued", "accepted", "refused", "done",
                 "gone"}

\* "owed" is the window between the commit of a terminal outcome and its
\* fan-out, which a crash in between loses.
Notice == {"none", "owed", "processed", "refunded", "lost"}

ReplyType == [txn : Txn, truth : Truth \union {"unreachable"}]

TypeOK ==
    /\ wallet \in [Worker -> Int]
    /\ row \in [Txn -> RowType]
    /\ req \in [Txn -> RequestType]
    /\ pc \in [Txn -> HandlerState]
    /\ squad \in [Txn -> Truth]
    /\ events \in [Txn -> SUBSET Truth]
    /\ aged \subseteq Txn
    /\ created \in Nat
    /\ batch \in [Poller -> SUBSET Txn]
    /\ reply \in [Poller -> ReplyType \union {NoReply}]
    /\ refunds \in [Txn -> Nat]
    /\ notice \in [Txn -> Notice]

Init ==
    /\ wallet = [w \in Worker |-> Balance]
    /\ row = [t \in Txn |-> [worker |-> Nobody, amount |-> 0,
                             status |-> "none", seq |-> 0]]
    /\ req = [t \in Txn |-> [worker |-> Nobody, amount |-> 0]]
    /\ pc = [t \in Txn |-> "idle"]
    /\ squad = [t \in Txn |-> "unknown"]
    /\ events = [t \in Txn |-> {}]
    /\ aged = {}
    /\ created = 0
    /\ batch = [p \in Poller |-> {}]
    /\ reply = [p \in Poller |-> NoReply]
    /\ refunds = [t \in Txn |-> 0]
    /\ notice = [t \in Txn |-> "none"]
-----------------------------------------------------------------------------
(***************************************************************************)
(* Settlement: applyTerminalOutcome, called by the handler, the webhook    *)
(* and the cron.                                                           *)
(***************************************************************************)

\* The CAS: updateMany finds the row only while its status is not terminal.
Open(t) == row[t].status \in NonTerminal

\* Variant: a reversed withdrawal is given back too.
RefundsReversed(status) == status \in {"failed", "reversed"}

\* Only a failed withdrawal is given back; a reversed one is not.
Refunds(status) == status = "failed"

\* Variant: every terminal outcome is announced, a reversal included.
AnnouncesTerminal(status) == status \in Terminal

\* The worker is told of a payout and of a refund, not of a reversal.
Announces(status) == status \in {"completed", "failed"}

\* Variant: the status is written without the filter on the current one.
SettleUnfiltered(t, status) ==
    /\ row' = [row EXCEPT ![t].status = status]
    /\ IF Refunds(status)
       THEN /\ wallet' = [wallet EXCEPT ![row[t].worker] = @ + row[t].amount]
            /\ refunds' = [refunds EXCEPT ![t] = @ + 1]
       ELSE UNCHANGED <<wallet, refunds>>
    /\ notice' = IF Announces(status)
                 THEN [notice EXCEPT ![t] = "owed"] ELSE notice

\* One transaction flips the status and, for a failed withdrawal, gives the
\* amount back; a row that is already terminal is left alone.
Settle(t, status) ==
    IF Open(t)
    THEN /\ row' = [row EXCEPT ![t].status = status]
         /\ IF Refunds(status)
            THEN /\ wallet' = [wallet EXCEPT ![row[t].worker] = @ + row[t].amount]
                 /\ refunds' = [refunds EXCEPT ![t] = @ + 1]
            ELSE UNCHANGED <<wallet, refunds>>
         /\ notice' = IF Announces(status)
                      THEN [notice EXCEPT ![t] = "owed"] ELSE notice
    ELSE UNCHANGED dbVars

\* fanOutWithdrawalTerminal, after the commit.
FanOut(t) ==
    /\ notice[t] = "owed"
    /\ notice' = [notice EXCEPT ![t] = IF row[t].status = "completed"
                                       THEN "processed" ELSE "refunded"]
    /\ UNCHANGED <<wallet, row, refunds, squadVars, cronVars, req, pc, aged, created>>

\* A crash between the commit and the fan-out, or a failed push, loses it.
FanOutLost(t) ==
    /\ notice[t] = "owed"
    /\ notice' = [notice EXCEPT ![t] = "lost"]
    /\ UNCHANGED <<wallet, row, refunds, squadVars, cronVars, req, pc, aged, created>>
-----------------------------------------------------------------------------
(***************************************************************************)
(* The request handler: WithdrawalsService.withdraw.                       *)
(***************************************************************************)

\* Inside the transaction the balance is read, without a lock, and compared
\* with the amount; a short balance ends the request with nothing written.
CheckBalance(t) ==
    \E w \in Worker, a \in Amount :
        /\ pc[t] = "idle"
        /\ wallet[w] >= a
        /\ req' = [req EXCEPT ![t] = [worker |-> w, amount |-> a]]
        /\ pc' = [pc EXCEPT ![t] = "checked"]
        /\ UNCHANGED <<dbVars, squadVars, cronVars, aged, created>>

\* The transaction commits: the wallet is decremented as it now is and the
\* row is written with status processing.
Debit(t) ==
    /\ pc[t] = "checked"
    /\ wallet' = [wallet EXCEPT ![req[t].worker] = @ - req[t].amount]
    /\ row' = [row EXCEPT ![t] = [worker |-> req[t].worker,
                                  amount |-> req[t].amount,
                                  status |-> "processing", seq |-> created]]
    /\ created' = created + 1
    /\ pc' = [pc EXCEPT ![t] = "queued"]
    /\ UNCHANGED <<refunds, notice, squadVars, cronVars, req, aged>>

\* The transfer call, outside the transaction: Squad takes the transfer on.
TransferAccepted(t) ==
    /\ pc[t] = "queued" /\ ~Stub
    /\ squad' = [squad EXCEPT ![t] = "accepted"]
    /\ events' = [events EXCEPT ![t] = @ \union {"accepted"}]
    /\ pc' = [pc EXCEPT ![t] = "accepted"]
    /\ UNCHANGED <<dbVars, cronVars, req, aged, created>>

\* Squad refuses the transfer; it may keep a failed record of it.
TransferRefused(t) ==
    /\ pc[t] = "queued" /\ ~Stub
    /\ \/ UNCHANGED squadVars
       \/ /\ squad' = [squad EXCEPT ![t] = "failed"]
          /\ events' = [events EXCEPT ![t] = @ \union {"failed"}]
    /\ pc' = [pc EXCEPT ![t] = "refused"]
    /\ UNCHANGED <<dbVars, cronVars, req, aged, created>>

\* The call throws, a lost connection say: the client reports it as a refusal
\* (ok: false), whether or not the request reached Squad.
TransferNoAnswer(t) ==
    /\ pc[t] = "queued" /\ ~Stub /\ Transport
    /\ \/ UNCHANGED squadVars
       \/ /\ squad' = [squad EXCEPT ![t] = "accepted"]
          /\ events' = [events EXCEPT ![t] = @ \union {"accepted"}]
    /\ pc' = [pc EXCEPT ![t] = "refused"]
    /\ UNCHANGED <<dbVars, cronVars, req, aged, created>>

\* In stub mode the client answers ok and no funds move.
TransferStub(t) ==
    /\ pc[t] = "queued" /\ Stub
    /\ pc' = [pc EXCEPT ![t] = "accepted"]
    /\ UNCHANGED <<dbVars, squadVars, cronVars, req, aged, created>>

\* A refusal is settled as failed at once, then answered with a 502.
SyncReject(t) ==
    /\ pc[t] = "refused"
    /\ Settle(t, "failed")
    /\ pc' = [pc EXCEPT ![t] = "done"]
    /\ UNCHANGED <<squadVars, cronVars, req, aged, created>>

\* An accepted transfer is answered; in stub mode, where no webhook comes, it
\* is also settled as completed.
Respond(t) ==
    /\ pc[t] = "accepted"
    /\ IF Stub THEN Settle(t, "completed") ELSE UNCHANGED dbVars
    /\ pc' = [pc EXCEPT ![t] = "done"]
    /\ UNCHANGED <<squadVars, cronVars, req, aged, created>>

\* The server stops while it handles the request; nothing resumes it.
Crash(t) ==
    /\ pc[t] \in {"checked", "queued", "accepted", "refused"}
    /\ pc' = [pc EXCEPT ![t] = "gone"]
    /\ UNCHANGED <<dbVars, squadVars, cronVars, req, aged, created>>
-----------------------------------------------------------------------------
(***************************************************************************)
(* Squad.                                                                  *)
(***************************************************************************)

\* Squad pays or fails a transfer it took on, and may reverse one it paid.
SquadMoves(t) ==
    \E next \in Truth :
        /\ \/ squad[t] = "accepted" /\ next \in {"paid", "failed"}
           \/ squad[t] = "paid" /\ next = "reversed"
        /\ squad' = [squad EXCEPT ![t] = next]
        /\ events' = [events EXCEPT ![t] = @ \union {next}]
        /\ UNCHANGED <<dbVars, cronVars, req, pc, aged, created>>

\* The webhook receiver: an event about any state the transfer has been in may
\* arrive at any time and any number of times, or never.
Webhook(t) ==
    \E truth \in events[t] :
        /\ Settle(t, EventOf(truth).dbStatus)
        /\ UNCHANGED <<squadVars, cronVars, req, pc, aged, created>>
-----------------------------------------------------------------------------
(***************************************************************************)
(* The reconciliation cron: SquadReconciliationCron.run.                   *)
(***************************************************************************)
Older(t, u) == row[t].seq < row[u].seq

\* Five minutes pass since a row was written; older rows reach that age first.
Age(t) ==
    /\ row[t].status # "none"
    /\ t \notin aged
    /\ \A u \in Txn \ aged : row[u].status # "none" /\ u # t => Older(t, u)
    /\ aged' = aged \union {t}
    /\ UNCHANGED <<dbVars, squadVars, cronVars, req, pc, created>>

\* Variant: rows written as processing are not picked up.
CandidatesPending == {t \in aged : row[t].status = "pending"}

Candidates == {t \in aged : Open(t)}

\* orderBy createdAt asc, take MAX_PER_TICK.
Oldest == {t \in Candidates :
             Cardinality({u \in Candidates : Older(u, t)}) < MaxPerTick}

\* A tick reads its candidates.
Fetch(p) ==
    /\ batch[p] = {} /\ reply[p] = NoReply
    /\ Oldest # {}
    /\ batch' = [batch EXCEPT ![p] = Oldest]
    /\ UNCHANGED <<dbVars, squadVars, reply, req, pc, aged, created>>

\* The candidate a run is at: the oldest it has not yet looked at.
Current(p, t) ==
    /\ reply[p] = NoReply
    /\ t \in batch[p]
    /\ \A u \in batch[p] \ {t} : Older(t, u)

\* Variant: Squad's record is consulted even in stub mode.
VerifyRecord(p, t) ==
    /\ Current(p, t)
    /\ reply' = [reply EXCEPT ![p] = [txn |-> t, truth |-> squad[t]]]
    /\ batch' = [batch EXCEPT ![p] = @ \ {t}]
    /\ UNCHANGED <<dbVars, squadVars, req, pc, aged, created>>

\* Squad is asked about the candidate and answers with the state it has now.
\* In stub mode the answer is always a success.
Verify(p, t) ==
    /\ Current(p, t)
    /\ reply' = [reply EXCEPT ![p] =
                    [txn |-> t, truth |-> IF Stub THEN "paid" ELSE squad[t]]]
    /\ batch' = [batch EXCEPT ![p] = @ \ {t}]
    /\ UNCHANGED <<dbVars, squadVars, req, pc, aged, created>>

\* The status lookup fails, which the client reports as pending.
VerifyFails(p, t) ==
    /\ Current(p, t) /\ ~Stub
    /\ reply' = [reply EXCEPT ![p] = [txn |-> t, truth |-> "unreachable"]]
    /\ batch' = [batch EXCEPT ![p] = @ \ {t}]
    /\ UNCHANGED <<dbVars, squadVars, req, pc, aged, created>>

\* The answer is settled, unless it is the status the candidate was read with
\* (always processing here).
Reconcile(p) ==
    /\ reply[p] # NoReply
    /\ LET status == VerifyOf(reply[p].truth).dbStatus
       IN  IF status = "processing" THEN UNCHANGED dbVars
           ELSE Settle(reply[p].txn, status)
    /\ reply' = [reply EXCEPT ![p] = NoReply]
    /\ UNCHANGED <<squadVars, batch, req, pc, aged, created>>

\* The server stops during a tick: the run is lost.
CronCrash(p) ==
    /\ batch[p] # {} \/ reply[p] # NoReply
    /\ batch' = [batch EXCEPT ![p] = {}]
    /\ reply' = [reply EXCEPT ![p] = NoReply]
    /\ UNCHANGED <<dbVars, squadVars, req, pc, aged, created>>
-----------------------------------------------------------------------------
Handle(t) ==
    \/ CheckBalance(t) \/ Debit(t)
    \/ TransferAccepted(t) \/ TransferRefused(t)
    \/ TransferNoAnswer(t) \/ TransferStub(t)
    \/ SyncReject(t) \/ Respond(t)
    \/ FanOut(t) \/ FanOutLost(t) \/ Crash(t)

Cron(p) ==
    \/ Fetch(p) \/ Reconcile(p) \/ CronCrash(p)
    \/ \E t \in Txn : Verify(p, t) \/ VerifyFails(p, t)

Next ==
    \/ \E t \in Txn : Handle(t) \/ SquadMoves(t) \/ Webhook(t) \/ Age(t)
    \/ \E p \in Poller : Cron(p)

Spec == Init /\ [][Next]_vars

\* Only the cron is driven by the system itself: the scheduler starts it every
\* five minutes, and a crash does not for ever hit the run at the same step.
\* Users, webhooks and Squad owe nothing.
Fairness ==
    /\ \A t \in Txn : WF_vars(Age(t))
    /\ \A p \in Poller :
        /\ WF_vars(Fetch(p))
        /\ \A t \in Txn :
            /\ SF_vars(Verify(p, t))
            /\ SF_vars(Reconcile(p) /\ reply[p].txn = t)

\* An outage of Squad comes to an end.
OutagesEnd == <>[][\A p \in Poller, t \in Txn : ~VerifyFails(p, t)]_vars

LiveSpec == Spec /\ Fairness /\ OutagesEnd
-----------------------------------------------------------------------------
\* The refinement mapping onto the abstract payout: a row is the claim, its
\* status the phase, the wallet the funds.
Phase(t) ==
    CASE row[t].status = "none"   -> "none"
      [] row[t].status = "failed" -> "returned"
      [] Open(t)                  -> "held"
      [] OTHER                    -> "settled"

Abstract == INSTANCE Payout WITH
    phase  <- [t \in Txn |-> Phase(t)],
    owner  <- [t \in Txn |-> row[t].worker],
    amount <- [t \in Txn |-> row[t].amount],
    funds  <- wallet

\* Every behaviour of the handler, the webhooks and the cron is a behaviour of
\* the abstract payout: a withdrawal holds its amount once and ends at most
\* once, settled or returned in full.
ImplementsPayout == Abstract!Spec
-----------------------------------------------------------------------------
(***************************************************************************)
(* Properties.                                                             *)
(***************************************************************************)

\* A withdrawal is refunded once when it fails and never otherwise, however
\* the handler, the webhook and the overlapping cron runs race to settle it.
RefundedOnceIfFailed ==
    \A t \in Txn : refunds[t] = IF row[t].status = "failed" THEN 1 ELSE 0

\* A worker is never both paid by Squad and refunded by the application: a
\* failed row means Squad does not pay the transfer it refers to.
NeverPaidAndRefunded ==
    \A t \in Txn : row[t].status = "failed" => squad[t] \in {"unknown", "failed"}

\* A withdrawal shown as completed was really paid out by Squad.
CompletedOnlyIfPaid ==
    \A t \in Txn : row[t].status = "completed" => squad[t] \in {"paid", "reversed"}

\* What the worker is told agrees with how the withdrawal ended, and a
\* withdrawal that is still open is not announced.
NoticeTellsOutcome ==
    \A t \in Txn :
        /\ notice[t] = "processed" => row[t].status = "completed"
        /\ notice[t] = "refunded" => row[t].status = "failed" /\ refunds[t] = 1
        /\ notice[t] = "owed" => ~Open(t)

\* The end of a withdrawal is final: a late webhook, a stale answer to a poll
\* or a second run of the cron never changes a terminal row.
OutcomeFinal ==
    [][\A t \in Txn : row[t].status \in Terminal => row'[t] = row[t]]_vars

\* The handler's re-check of the balance keeps every wallet from going
\* negative (withdrawals.service.ts:175).
NeverOverdrawn == \A w \in Worker : wallet[w] >= 0

\* The cron is the backstop for lost webhooks: once Squad has settled a
\* transfer, its row does not stay open for ever.
Backstop ==
    \A t \in Txn :
        (Open(t) /\ squad[t] \in {"paid", "failed", "reversed"}) ~> ~Open(t)

\* In stub mode no webhook ever comes, and still every withdrawal that was
\* debited is completed in the end, even if the server crashes before it could
\* confirm it itself: the cron does.
StubConverges == \A t \in Txn : Open(t) ~> row[t].status = "completed"
=============================================================================
