------------------------------- MODULE Funding -------------------------------
(***************************************************************************)
(* How money enters an employer's wallet and how an employer pays by hand: *)
(* the virtual account (virtual-account-provisioner.service.ts), top-ups   *)
(* (employer-payouts.service.ts), the funding and transfer webhooks        *)
(* (squad-webhook.controller.ts), manual transfers under an idempotency    *)
(* key (employer-transactions.controller.ts, .service.ts) and the cron and *)
(* the settlement that close their rows.                                   *)
(*                                                                         *)
(* A row may be polled as soon as it is written (STUCK_AFTER_MS is left    *)
(* out), and one poll of a row is under way at a time; the batches of the  *)
(* cron are those of Withdrawals.                                          *)
(***************************************************************************)
EXTENDS Idempotency, SquadStatus

CONSTANTS
    TopUp,        \* top-up requests
    Deposit,      \* transfers from outside into the virtual account
    Modes,        \* deployments: "production", "sandbox", "stub"
    Referenced,   \* whether funding events carry a reference
    NoReply       \* a row whose status is not being polled

ASSUME ModesAssumption == Modes \subseteq {"production", "sandbox", "stub"}
ASSUME RowsAssumption == TopUp \intersect Call = {}
ASSUME NoReplyAssumption == NoReply \notin Truth
ASSUME ReferencedAssumption == Referenced \in BOOLEAN

VARIABLES
    mode,      \* squad.environment and squad.provider
    nuban,     \* the employer's virtual account
    pc,        \* how far each top-up request has come
    sent,      \* what each manual transfer was told by Squad
    row,       \* the status of each top_up and manual_transfer row
    truth,     \* Squad's state of the checkout or transfer of each row
    events,    \* the states Squad may send a webhook about
    reply,     \* the answer of Squad the cron has yet to apply
    arrived,   \* payments that reached the virtual account
    booked,    \* payments with a row of their own, by their squadReference
    credits    \* how often a payment or a top-up was added to the wallet

rowVars == <<row, truth, events, reply>>
walletVars == <<arrived, booked, credits>>
vars == <<idemVars, mode, nuban, pc, sent, rowVars, walletVars>>
-----------------------------------------------------------------------------
Txn == TopUp \union Call
Source == TopUp \union Deposit

TypeOK ==
    /\ IdemTypeOK
    /\ mode \in Modes
    /\ nuban \in {"none", "issued", "known"}
    /\ pc \in [TopUp -> {"idle", "anchored", "bare", "done", "gone"}]
    /\ sent \in [Call -> {"none", "accepted", "refused"}]
    /\ row \in [Txn -> RowStatus]
    /\ truth \in [Txn -> Truth]
    /\ events \in [Txn -> SUBSET Truth]
    /\ reply \in [Txn -> Truth \union {NoReply}]
    /\ arrived \subseteq Source
    /\ booked \subseteq Source
    /\ credits \in [Source -> Nat]

Init ==
    /\ IdemInit
    /\ mode \in Modes
    /\ nuban = "none"
    /\ pc = [t \in TopUp |-> "idle"]
    /\ sent = [c \in Call |-> "none"]
    /\ row = [t \in Txn |-> "none"]
    /\ truth = [t \in Txn |-> "unknown"]
    /\ events = [t \in Txn |-> {}]
    /\ reply = [t \in Txn |-> NoReply]
    /\ arrived = {}
    /\ booked = {}
    /\ credits = [s \in Source |-> 0]

Credit(s) == credits' = [credits EXCEPT ![s] = @ + 1]
-----------------------------------------------------------------------------
(***************************************************************************)
(* The virtual account: ensureForEmployer, at sign-up and from every       *)
(* overview that finds none.  A call that fails or is cut off leaves       *)
(* things as they are.                                                     *)
(***************************************************************************)
IssueNuban ==
    /\ nuban = "none"
    /\ nuban' = "issued"
    /\ UNCHANGED <<idemVars, mode, pc, sent, rowVars, walletVars>>

SaveNuban ==
    /\ nuban = "issued"
    /\ nuban' = "known"
    /\ UNCHANGED <<idemVars, mode, pc, sent, rowVars, walletVars>>
-----------------------------------------------------------------------------
(***************************************************************************)
(* Top-ups.  The row is written first; what follows depends on the mode.   *)
(***************************************************************************)
Anchor(t) ==
    /\ pc[t] = "idle"
    /\ row' = [row EXCEPT ![t] = "processing"]
    /\ pc' = [pc EXCEPT ![t] = IF mode = "production" \/ nuban = "known"
                               THEN "anchored" ELSE "bare"]
    /\ UNCHANGED <<idemVars, mode, nuban, sent, truth, events, reply, walletVars>>

EndTopUp(t) == pc' = [pc EXCEPT ![t] = "done"]

\* In production a checkout is opened at Squad; an error is answered with a
\* link that leads nowhere.
Checkout(t) ==
    /\ mode = "production"
    /\ pc[t] = "anchored"
    /\ \/ truth' = [truth EXCEPT ![t] = "accepted"]
       \/ UNCHANGED truth
    /\ EndTopUp(t)
    /\ UNCHANGED <<idemVars, mode, nuban, sent, row, events, reply, walletVars>>

\* Without a virtual account the row is failed.
RefuseTopUp(t) ==
    /\ pc[t] = "bare"
    /\ row' = [row EXCEPT ![t] = "failed"]
    /\ EndTopUp(t)
    /\ UNCHANGED <<idemVars, mode, nuban, sent, truth, events, reply, walletVars>>

\* With the stub provider the row is completed and the wallet credited at once.
StubCredit(t) ==
    /\ mode = "stub"
    /\ pc[t] = "anchored"
    /\ row' = [row EXCEPT ![t] = "completed"]
    /\ Credit(t)
    /\ EndTopUp(t)
    /\ UNCHANGED <<idemVars, mode, nuban, sent, truth, events, reply, arrived, booked>>

\* In the sandbox Squad is asked to simulate a payment into the account; a call
\* without an answer reads as refused.
Simulate(t) ==
    /\ mode = "sandbox"
    /\ pc[t] = "anchored"
    /\ \/ arrived' = arrived \union {t} /\ UNCHANGED row
       \/ UNCHANGED arrived /\ row' = [row EXCEPT ![t] = "failed"]
       \/ arrived' = arrived \union {t} /\ row' = [row EXCEPT ![t] = "failed"]
    /\ EndTopUp(t)
    /\ UNCHANGED <<idemVars, mode, nuban, sent, truth, events, reply, booked, credits>>

\* The server stops in the middle of a top-up.
CrashTopUp(t) ==
    /\ pc[t] \in {"anchored", "bare"}
    /\ pc' = [pc EXCEPT ![t] = "gone"]
    /\ UNCHANGED <<idemVars, mode, nuban, sent, rowVars, walletVars>>
-----------------------------------------------------------------------------
(***************************************************************************)
(* Squad.                                                                  *)
(***************************************************************************)

\* Somebody pays into the virtual account.
PayIn(d) ==
    /\ mode # "stub"
    /\ nuban = "known"
    /\ arrived' = arrived \union {d}
    /\ UNCHANGED <<idemVars, mode, nuban, pc, sent, rowVars, booked, credits>>

SquadMoves(t) ==
    /\ \E s \in {"paid", "failed", "reversed"} :
        /\ truth[t] = IF s = "reversed" THEN "paid" ELSE "accepted"
        /\ truth' = [truth EXCEPT ![t] = s]
        /\ events' = [events EXCEPT ![t] = @ \union {s}]
    /\ UNCHANGED <<idemVars, mode, nuban, pc, sent, row, reply, walletVars>>
-----------------------------------------------------------------------------
(***************************************************************************)
(* Webhooks and the cron.                                                  *)
(***************************************************************************)

\* Variant: the unique index on the reference is missing.
FundingEventUnindexed(s) ==
    /\ s \in arrived
    /\ booked' = booked \union {s}
    /\ Credit(s)
    /\ UNCHANGED <<idemVars, mode, nuban, pc, sent, rowVars, arrived>>

\* handleVirtualAccountFunding: the insert and the credit commit together and a
\* replay fails on the unique reference.  An event without a reference is given
\* a new one, with the time in it.
FundingEvent(s) ==
    /\ s \in arrived
    /\ Referenced => s \notin booked
    /\ booked' = booked \union {s}
    /\ Credit(s)
    /\ UNCHANGED <<idemVars, mode, nuban, pc, sent, rowVars, arrived>>

\* applyTerminalOutcome for these kinds of rows: the status, and no wallet.
Settle(t, status) ==
    row' = IF row[t] \in NonTerminal THEN [row EXCEPT ![t] = status] ELSE row

\* A transfer event for a reference without a row is discarded.
TransferEvent(t) ==
    /\ row[t] # "none"
    /\ \E e \in events[t] : Settle(t, EventOf(e).dbStatus)
    /\ UNCHANGED <<idemVars, mode, nuban, pc, sent, truth, events, reply, walletVars>>

Poll(t) ==
    /\ row[t] \in NonTerminal
    /\ reply[t] = NoReply
    /\ reply' = [reply EXCEPT ![t] = IF mode = "stub" THEN "paid" ELSE truth[t]]
    /\ UNCHANGED <<idemVars, mode, nuban, pc, sent, row, truth, events, walletVars>>

ApplyPoll(t) ==
    /\ reply[t] # NoReply
    /\ Settle(t, VerifyOf(reply[t]).dbStatus)
    /\ reply' = [reply EXCEPT ![t] = NoReply]
    /\ UNCHANGED <<idemVars, mode, nuban, pc, sent, truth, events, walletVars>>
-----------------------------------------------------------------------------
(***************************************************************************)
(* Manual transfers: the work done under the idempotency key.              *)
(***************************************************************************)

\* Squad is called before the row is written; no answer reads as refused.
SendTransfer(c) ==
    /\ stage[c] = "working" /\ sent[c] = "none"
    /\ \/ /\ sent' = [sent EXCEPT ![c] = "accepted"]
          /\ truth' = [truth EXCEPT ![c] = IF mode = "stub" THEN @ ELSE "accepted"]
       \/ /\ mode # "stub"
          /\ sent' = [sent EXCEPT ![c] = "refused"]
          /\ UNCHANGED truth
       \/ /\ mode # "stub"
          /\ sent' = [sent EXCEPT ![c] = "refused"]
          /\ truth' = [truth EXCEPT ![c] = "accepted"]
    /\ UNCHANGED <<idemVars, mode, nuban, pc, row, events, reply, walletVars>>

WriteRow(c) ==
    /\ sent[c] # "none"
    /\ row' = [row EXCEPT ![c] = IF sent[c] = "accepted" THEN "processing"
                                 ELSE "failed"]
    /\ Compute(c)
    /\ UNCHANGED <<reworded, mode, nuban, pc, sent, truth, events, reply, walletVars>>

\* The steps of the idempotency service, and crashes of the calls under it.
Keyed(c) ==
    /\ Protocol(c) \/ Break(c)
    /\ UNCHANGED <<reworded, mode, nuban, pc, sent, rowVars, walletVars>>

KeyExpires ==
    /\ Expire
    /\ UNCHANGED <<reworded, mode, nuban, pc, sent, rowVars, walletVars>>
-----------------------------------------------------------------------------
Next ==
    \/ IssueNuban \/ SaveNuban \/ KeyExpires
    \/ \E t \in TopUp : Anchor(t) \/ Checkout(t) \/ RefuseTopUp(t) \/ StubCredit(t)
                        \/ Simulate(t) \/ CrashTopUp(t)
    \/ \E d \in Deposit : PayIn(d)
    \/ \E s \in Source : FundingEvent(s)
    \/ \E t \in Txn : SquadMoves(t) \/ TransferEvent(t) \/ Poll(t) \/ ApplyPoll(t)
    \/ \E c \in Call : SendTransfer(c) \/ WriteRow(c) \/ Keyed(c)

Spec == Init /\ [][Next]_vars
-----------------------------------------------------------------------------
(***************************************************************************)
(* Properties.                                                             *)
(***************************************************************************)

\* Every payment is added to the wallet at most once, whether its funding event
\* is repeated or the cron gets at the row of a top-up first, and nothing is
\* added without a row that says so (squad-webhook.controller.ts:146).
CreditedOnce ==
    \A s \in Source :
        /\ credits[s] <= 1
        /\ credits[s] = 1 => s \in booked \/ (s \in TopUp /\ row[s] = "completed")

\* A manual transfer shown as completed was paid by Squad.
CompletedIsPaid ==
    mode # "stub" =>
        \A c \in Call : row[c] = "completed" => truth[c] \in {"paid", "reversed"}

\* A top-up that is shown as completed is in the wallet
\* (employer-payouts.service.ts:118).
CompletedIsCredited ==
    \A t \in TopUp : row[t] = "completed" => credits[t] = 1

\* The calls of one key pay the worker once (idempotency.service.ts:18).
PaidOncePerKey ==
    \A c, d \in Call : sent[c] = "accepted" /\ sent[d] = "accepted" => c = d
=============================================================================
