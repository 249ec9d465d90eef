# A TLA+ verification project for forge_be

`forge_be` is the NestJS/Prisma backend of a job marketplace: employers publish
jobs and reserve their pay, workers apply, clock in and out, and are paid into an
in-app wallet they withdraw from through Squad, a payment provider. Around the
money there are sign-in and teams, a feed of jobs, ratings, loans and credit
scores, messages, and the pages of three dashboards. This directory holds TLA+
models of these parts, the TLC configurations that check them, and TLAPS proofs
of the most important results.

## 1. Inventory

| Component | State it keeps | Operations | Talks to |
|---|---|---|---|
| Withdrawals (`wallet/withdrawals.service.ts`, `wallet/withdrawal-settlement.service.ts`) | `Worker.walletBalance`, `Transaction` rows | request, settlement, fan-out | Squad client, push, mail |
| Squad edge (`squad/*`) | none of its own; rows of the others | transfer, verify, webhook, reconciliation cron, virtual accounts | Squad over HTTP, settlement |
| Job escrow (`employer-jobs/*`) | `Job`, `Employer.walletBalanceNaira`, `JobApplication` | create, update, publish, cancel, two accepts, reject, invoices | reservation, push |
| Work (`jobs/*`) | `JobApplication`, `WorkSession` | apply, withdraw, clock-in, clock-out | lifecycle |
| Lifecycle (`lifecycle/*`) | `WorkSession`, `Transaction`, `Loan` | completion; crons auto-release, verification timeout, team-first, late workers, rate reminder, reliability | wallet, loans, push |
| Review (`employer-work-sessions/*`) | `WorkSession`, `Dispute` | confirm, dispute, rework notes | completion |
| Funding (`employer-payments/*`, `squad/virtual-account-provisioner.service.ts`) | `Employer`, `Transaction` | top-up (three modes), virtual-account credits, manual transfers, pause and resume | Squad |
| Idempotency (`common/interceptors/idempotency.service.ts`) | `IdempotencyRecord` | look up, compute, store, re-read | wraps most mutating endpoints |
| Loans and bank (`loans`, `bank`, `employer-credit`) | `Loan`, `LoanRepayment`, `LoanApplication`, `Bank`, score snapshots | apply, decide, disburse, repay; score and risk crons; analytics | Squad, job payments |
| Sign-in of workers (`auth`) | `OtpChallenge`, `Worker`, `RefreshToken` | send and verify a code, sign up, refresh, log out | SMS, WhatsApp, push |
| Sign-in to dashboards (`dashboard-auth`, `settings/team`) | `User`, `UserRefreshToken`, `EmailToken`, `TeamInvite` | register, invite, log in, rotate, reset, change roles, remove | mail |
| Worker profile (`me`, `support/uploads`, `support/liveness`) | `Worker`, `Upload`, `PhoneChange` | edit, photo, change of number, deletion | object store |
| Bank accounts of workers (`wallet/banks.service.ts`) | `BankAccount`, `Worker.squadVirtualAccountNumber` | link, promote, remove, provision | Squad |
| Ratings (`ratings`) | `Rating`, averages | rate, reveal; reliability | publish gate |
| Visibility (`jobs/jobs.service.ts`, `employer-workers`) | `Job.audience`, team, blocks | feed, fan-out, team-first cron | push |
| Messaging and notices (`messaging`, `notifications`) | `DeviceToken`, `Notification` | register, send, prune, read | FCM, text messages |
| Hints (`stream`) | open connections | publish, subscribe | handlers, dashboards |
| Settings and invoices (`settings`, `employer-payments/employer-invoices.service.ts`) | `Employer`, `Invoice` | update, connect, disconnect, pause, generate, send | Squad, mail |
| Lists and analytics (`wallet/transactions`, `employers`, `employer-analytics`, `employer`, `bank-analytics`) | none | pages, exports, charts | database |
| Assistance and support (`ai`, `support`) | `JobSummary`, caches, counters, `SupportTicket` | summarise, rank, draft, open a ticket | language models |
| Audit, search, plumbing | audit rows | append, match | database |

What is hard in this code is common to all of it. Every handler reads rows,
checks them, and then opens a transaction; Postgres runs at READ COMMITTED, so
neither those reads nor the `findUnique` calls inside the transaction take a lock,
and two handlers interleave between them. Several crons do the same work as the
handlers, may overlap with them and with themselves, and go through batches that
were read earlier. Squad may lose, repeat, delay or reorder webhooks and may not
answer a call at all. The process may stop between any two commits.
`PROJECT.json` lists each place with its line under "hazards".

What makes the components correct:

* withdrawals: money leaves the wallet once, comes back exactly when the transfer
  failed, and what the rows and the notices say agrees with what Squad did;
* escrow: an employer's money is in the wallet, in a reserve or with the workers;
  a reserve covers what it owes; nobody is paid twice, or for disputed work;
* lifecycle: what has ended stays ended, and work nobody reviews is paid;
* funding: an incoming payment is credited once; a completed top-up was credited;
* idempotency: retries of one request get one answer and have one effect;
* loans: a loan is booked once however often it is disbursed, its balance covers
  what is not repaid, and one that is late long enough defaults;
* sign-in: a code is guessed no more often than its limit and the calls in flight;
  a reset ends every session; a business always has its owner;
* profile and accounts: a number is the worker's own, a photo is kept while it is
  shown, one account is the default;
* ratings: revealed only when both sides have rated or the window is over;
* visibility: a job for the team opens to everybody in the end, and a worker gets
  no more pushes than the limit;
* messages: live devices are not forgotten, and a code arrives if any channel is up;
* hints: a review queue on an open dashboard is the one stored;
* lists and figures: a walk shows what was there, and the figures of one page agree
  with those of another.

## 2. Modules

| Module | What it is |
|---|---|
| `SquadStatus` | The classification of Squad's events and statuses (`squad-status.ts`) and what a status query answers (`squad.client.ts`), as pure operators. |
| `Payout` | The abstract specification of a withdrawal: an amount is held once and ends at most once, settled or returned in full. |
| `Withdrawals` | The detailed withdrawal: request handler, transfer call, webhook, reconciliation cron, settlement, fan-out, with `ImplementsPayout` the refinement. |
| `MCWithdrawals` | Instances of it, symmetry, and `WalletBooks`, which sums over rows. |
| `WithdrawalsProofs` | Theorems about `Withdrawals` and their proofs. |
| `JobEscrow` | Jobs, applications, sessions, the reserve, completions and the two crons that complete sessions. |
| `Escrow` | The abstract specification of the pay of a job of one worker: taken from the wallet once, held, and given up once and whole, to the worker or back. |
| `MCJobEscrow` | Instances of `JobEscrow`, the properties that sum over jobs and workers, and `ImplementsEscrow`, its refinement of `Escrow`. |
| `JobEscrowProofs` | Theorems about `JobEscrow` and their proofs. |
| `CommonProofs` | What other proofs share: what the classifier can return, induction over finite sets, sums over them. |
| `Idempotency` | The idempotency service for the calls of one key, around one step of work. |
| `Funding` | Top-ups, virtual-account credits and manual transfers, with the calls of `Idempotency`. |
| `MCFunding` | An instance of it, symmetry, and a constraint that keeps its two halves apart. |
| `FundingProofs` | Theorems about `Idempotency` and `Funding` and their proofs. |
| `Lending` | Applications, disbursement, repayment, the risk cron, loans from the app and the cut of a job payment. |
| `Borrowing` | The abstract specification of a loan: lent once, all of it owed then, and owed less by each payment and nothing else. |
| `LendingRefinement` | `ImplementsBorrowing`: the refinement of `Borrowing` by `Lending`. |
| `LendingProofs` | Theorems about `Lending` and their proofs. |
| `WorkerAuth`, `Team`, `Sessions` | Sign-in of workers; who belongs to a business; sessions of one dashboard user. |
| `Profile`, `Accounts` | Profile, number, photo and deletion of a worker; its bank accounts and its account at Squad. |
| `Messaging`, `Reminders` | Pushes to devices and the channels of codes; the crons that nudge. |
| `Ratings`, `Feed` | Blind ratings; which workers learn of a job. |
| `Lists`, `Stream` | Walks through lists while rows come and go; hints that keep dashboards current. |
| `Recalc`, `Settings`, `Assist` | Nightly scores; settings and invoices of one business; language models and support tickets. |
| `Scoring`, `BankAnalytics`, `EmployerAnalytics`, `Boards` | Pure: scores and limits; the figures of a bank; the charts of an employer; what its job pages compute from rows. |
| `MCPlatform` | The composition of all components from `Lending` on, with the probes of the pure ones. |
| `DashboardProofs` | Theorems about `Sessions`, `Settings`, `Team`, `Feed`, `Reminders`, `Recalc`, `Stream`. |
| `WorkerProofs` | Theorems about `Accounts`, `Ratings`, `WorkerAuth`, `Profile`, `Assist`, `Lists`, `Messaging`. |
| `PlatformProofs` | Theorems about the composition, from those of its components. |

`Withdrawals` EXTENDS `SquadStatus` and refines `Payout`; `Funding` EXTENDS
`SquadStatus` and `Idempotency` and refines `IdemSpec`: it settles its rows with the
same classifier, webhooks and cron as withdrawals, without a refund. `Withdrawals` and
`JobEscrow` meet in the worker's wallet, which a completion credits and a
withdrawal debits; both do it with relative updates (`increment`, `decrement`), so
neither depends on the other's balance and each is modelled with its own part of it.

### How state and actions correspond to the code

*Withdrawals.* `row` is the `Transaction` table, `wallet` is
`Worker.walletBalance`, `pc` the progress of each request handler. A request is
`CheckBalance` (the unlocked read), `Debit` (the transaction), one of
`TransferAccepted`, `TransferRefused`, `TransferNoAnswer` and `TransferStub` (the
call to Squad), then `SyncReject` or `Respond`; `Crash` ends it after any of them.
`Webhook` is one delivery of any event Squad has ever had reason to send: events are
never consumed, so a delivery may be late, repeated, out of order or never happen.
A cron run is `Fetch`, then for each row of its batch `Verify` and `Reconcile`,
between which anything may happen; a few runs may overlap. `Settle` is
`applyTerminalOutcome`: the compare-and-swap on the status with the refund in the
same step. `FanOut` and `FanOutLost` are the notices that follow the commit.

*JobEscrow.* A handler or a cron's work on one session is a task of an agent:
`Start...` is its checks outside the transaction, `Read...` its unlocked reads
inside it, and the action with the operation's name its commit, which writes what
was computed from those reads. `Abort` is a refusal, an error or a crash. Confirm
writes its session row first, so it holds that lock while it reads (`LockSession`,
`Unlocked`). The auto-release cron commits the completion and then marks the
session in a second step (`AutoRelease`, `MarkReleased`). Time is two flags of a
session: the hold runs out (`HoldEnds`), and the cutoff of the timeout cron passes
(`CutoffPasses`). The operations in play are the constant `Ops`.

*Idempotency.* All calls of the module carry one key. `stage` is how far each has
come: `LookUp` is the unlocked `findUnique`, `DropRecord` the delete of an expired
record, `Compute` the endpoint's work, `Store` the insert (which fails if another
call was first), `StoreFails` any other failure of it, which the code takes for a
lost race, and `Reread` the second look-up of the loser. `Expire` lets the 24 hours
pass; `Break` is an exception of the work or a crash. `kept` records whether an
answer has been lost or expired, after which the key protects nothing any more.

*Funding.* `row` is the `Transaction` rows of kind `top_up` and `manual_transfer`,
`truth` and `events` are Squad's view as in `Withdrawals`, `arrived` are payments
into the virtual account, `booked` the rows made for them (by their unique
`squadReference`), `credits` how often each payment was added to
`walletBalanceNaira`. The three deployments are the variable `mode`, fixed at the
start. A top-up is `Anchor` (the row), then `Checkout`, `RefuseTopUp`,
`StubCredit` or `Simulate`, or `CrashTopUp`. `FundingEvent` and `TransferEvent` are
deliveries of webhooks, which like those of `Withdrawals` may be repeated, late or
lost; `Poll` and `ApplyPoll` are the cron. A manual transfer is the work of an
idempotent call: `SendTransfer` and `WriteRow` refine `Compute`.

*Loans.* `req` holds what each handler has read. An officer's request is `OpenApplication`
then `Approve` or `Reject`, `OpenDisburse`, `SendLoan` and `Book` (or `BookFails`, when
the instalments exist already), `OpenRepayment`, `ReadLoan` and `MarkPaid`. The cron is
`CronReads`, then `FlagLoan` for each loan from the row it read. A worker's loan is
`Want` and `Take`; `SeeLoan` and `CutLoan` are the cut of a job payment. `GrowLate`
is time. `received` counts what was paid in; it decides nothing.

*Sign-in.* In `WorkerAuth` a call looks a code up, compares it and counts the attempt in
three steps; `chal` is the `OtpChallenge` table, `token` the refresh tokens. In `Team`
`claims` are those of the access token each person holds, which outlive a change of
role; a check on claims and the write are separate steps. In `Sessions` `era` counts
password resets, and `session[s].since` is the era the login began in.

*Profile and accounts.* `upload` and `change` are tables, `proven` records which codes
were entered, `owes` and `leaving` what stands against a deletion. In `Accounts`
`linked` and `default` are the rows, and `crossedCalls` records that two calls about
them, or a call and a loan, overlapped.

*Messages.* `Attempt` is one answer of FCM for one row, `Prune` the removal of the rows
whose tokens it refused, `App` the app that registers a token or is reinstalled.
`SendCode` goes down the fallbacks of `otp-channel.service.ts`. `Reminders` fixes
one cron per behaviour (`nudge`) and advances a clock.

*Ratings and feed.* `InsertRating` takes the unique key, `ReadCounterpart` and
`CommitRating` are the two ends of the transaction; `crossed` records that two overlapped.
`FanRead` and `FanTell` are the fan-out of a new job, `FlipCron`, `FlipJob` the cron that
opens it; `overlaps` counts fan-outs that read the limit while another was under way.

*Lists, hints, recalculation.* A page is one step of a walk; `stayed` and `began` record
which rows it must show. A handler of `Stream` commits and then publishes its events
one by one; a tab has queries on their way (`answer`) and surfaces it was told of and
has not asked for (`stale`). `Recalc` is a run over employers with `RunFails` and
`RunCrashes`.

*Settings, assistance.* A call reads and then writes its own columns (`WriteSetting`);
`wished` records what was last asked for. `Assist` keeps the caches and counters of
`ai/*`, with the answers of a model chosen freely, and loses those in memory at `Restart`.

*Composition.* The components of `MCPlatform` share no table that one of them decides
by, so a behaviour exercises one of them, its `part`, and the others stay where they
begin (`Pinned`). The next-state relation is the disjunction of theirs, each with
the others' variables unchanged. The part "figures" has no steps; its initial
states are the arguments of the pure statements (`Probes`): books of loans, postings
and payments, hires, histories, clock events, applicants, job lists. Where components do share
state, the state they share is in one module: the worker's debt in `Lending`, the
audience of a job with its fan-out in `Feed`.

Operators whose comment starts with "Variant:" are mutated forms of the definition
that follows; no specification uses them. `PROJECT.json` pairs each with the
property that must notice it.


## 3. Runs

Passing runs:

| Run | Instance | What it shows |
|---|---|---|
| `wd_settle` | 1 worker, 2 rows, amounts 1..2, 2 overlapping cron runs of batch 1, calls answered | Type invariant; refunds match failures; the books balance; nobody is paid and refunded; completed means paid; notices tell the outcome; terminal rows are final; refinement of `Payout`. Two rows make the cap of the batch bite, two runs make stale answers race each other, the webhooks and the handler. |
| `wd_live` | 1 worker, 2 rows, 1 cron run of batch 2, calls may go unanswered | `Backstop`: once Squad has settled a transfer its row does not stay open, with every webhook lost. |
| `wd_stub` | 2 workers, 2 rows, stub provider | `StubConverges`: every debited withdrawal is completed although no webhook exists and the server may crash before it confirms. |
| `je_serial` | 1 agent, 2 workers, 2 jobs of one slot, pay 1..2, funds 3, debt 1 at 50 %, all 16 operations | Type invariant; money conserved; what stays in the reserve of a completed job is disputed or pending pay; reserve covers what is owed; job tracks its worker; final states are final; refinement of `Escrow`, whose `Hold` needs a wallet that has the pay, so that it never goes negative. One agent makes handlers atomic up to crashes: these hold when nothing overlaps, and the violation runs and section 6 say what is lost when handlers do. |
| `je_pair` | 2 agents, 2 workers, 1 job of one slot, the operations around review, cancel and the pausing of payouts | Overlapping confirms, timeout runs, clock-outs, disputes and cancels never pay twice or for disputed work. What stops a second payment after a late clock-out is the empty reserve, so one slot is part of the claim (section 6). |
| `je_live` | 1 agent, 2 workers, 1 job of two slots, all operations | Slots counted, and `HoldReleases`: unreviewed work is released after its hold. |
| `fund` | 2 top-ups, 1 deposit, 2 calls of one key, all three deployments, funding events with a reference | Type invariant; a payment is credited at most once and never without a row; calls of one key get one answer while it is kept; a transfer shown as completed was paid. The constraint `Apart` lets either the top-up side or the manual transfers move in one behaviour: they share no state but the mode. |
| `platform` | every other component, each with 2 or 3 calls in flight; 730,001 states | What section 1 lists for these components: types; `DisbursedOnce`, `OwedCoversRest`, `OverdueDefaults` (loans); `CodesProve`, `BusinessKept`, `ResetEndsSessions` (people); `MessagesReach`, `TeamFirstOpens`, `LimitsHold`, `BlindUntilBoth` (who hears and sees what); `OneDefaultAccount`; `ListsShowAll`, `FiguresAgree` (pages). |

Runs that end in a violation, each a disagreement between the code and its own
comments (`PROJECT.json`, "findings"):

| Run | What TLC finds |
|---|---|
| `wd_paid_and_refunded` | A transfer call that loses its answer is treated as a refusal and refunded at once, although Squad took the transfer and pays it. |
| `je_paid_twice` | A confirm and an auto-release that both saw the application uncompleted both pay, the second out of the reserve of another slot. |
| `je_short` | With nothing overlapping: filling the second slot of a job while its first worker is at work sets it back to accepted; it can then be cancelled, its whole reserve goes back and the worker at work is not paid. |
| `fund_topup` | In production the webhook of a paid checkout completes the row of the top-up, and nothing adds the money to the wallet. |

Deadlock is not checked (`CHECK_DEADLOCK FALSE`) because every instance has finitely
many requests and the system comes to rest when they have ended.

Bounds: identities are finite sets; amounts, pay and funds are small so that two
requests contend for one balance and one reserve. The payment models
have no counters to cap: every request, job and session happens at most once per
identity, and the properties bound what is counted (payments, credits). Symmetry is used in runs without liveness properties, over rows and cron
runs, and over workers, jobs and agents; no action tells them apart.

`platform` has one constraint and a view. The view is the part and its variables,
so that states that differ in what is pinned are not counted twice. The constraint is
a conjunction of one bound per part, each named in `MCPlatform.tla`:

* `LendBound`: two requests overlap while no instalment is late, one when some are; a
  worker's loan has one late instalment, a business's grows to thirty days (3).
* `AuthBound`: the second code is asked for before anybody has signed in.
* `RatingsBound`: of two shifts the second is only the one that has been paid late.
* `FeedBound`: the second posting is public; blocks and completed jobs come without postings.
* `ListsBound`: a client walks or exports; it marks all or nothing as read.
* `ProfileBound`: one of number, photo and deletion is touched at a time; the code is
  tried wrongly once.
* `StreamBound`: a dashboard fetches one of its surfaces; each is reached.

The other parts are finite through their constants: two calls, two identities of each
kind, and the caps `MaxRecent` and `MaxTries` (codes), `MaxToken` and `MaxRow`
(devices), `HourlyPushes`, `LateUntil`, `LastRow` and `PageLimit` (lists), `LastDay`
(recalculation), `MaxLiveness` (selfies), `MaxExtracts`, `MaxTickets` and `LastEdit`
(assistance). Two calls are enough because a check is stale as soon as one other call
has committed; what a third adds are repetitions, and the limits are stated for any
number of calls. A page of one row and three rows make every cursor end at each row.

### Fairness

`Withdrawals!Fairness`: rows age (time passes); the scheduler starts the cron
every five minutes (WF of `Fetch`); a run that is not for ever cut off at the same
row gets its answer and applies it (SF of `Verify` and of `Reconcile` per row: the
code goes through its batch in a loop with a `try` around each row); outages of
Squad end (`OutagesEnd`). Users, webhooks and Squad owe nothing. `wd_live` has as
many rows as a tick takes: with more, the property is false (section 6).

`JobEscrow!Fairness`: holds run out; tasks under way end; the auto-release cron,
which runs every minute over all due sessions, is not for ever stopped at the same
step (SF). Employers and workers owe nothing.

`MCPlatform!PlatformFair`: the hourly risk cron reads and goes through what it read
(`@Cron` of `bank-risk-flagging.cron.ts`), the team-first cron runs and flips what it
read, and half an hour passes (weak fairness; nothing but the process disables them,
and the scheduler starts it again). Everything else may stop at any time. Each of
these conjuncts names its part, as the other parts never enable it.

## 4. Proofs

`WithdrawalsProofs` proves, for any sets of workers, rows, amounts and cron runs:

* `TypeCorrect`: the type invariant.
* `LedgerInvariant`, `RefundedOnce`: a withdrawal is refunded exactly once if it
  failed and never otherwise. `RefundedOnceIfFailed` is not inductive: the
  debit writes the row, so one must know that a row whose request is not debited
  has status "none" and no refunds. The strengthening (`LedgerInv`) says so and that
  a refund count is 0 or 1 according to the status.
* `OutcomesAreFinal`: no step changes a terminal row.
* `PayoutRefined`: the initial state and every step of `Withdrawals` map to the
  initial state and a step or stutter of `Payout`.
* `NoDoublePayout` (assumes `Transport = FALSE`): a failed row is never paid. The
  inductive invariant ties the handler's state, the pending answers of cron runs
  and the possible events to Squad's state: a stale answer or event "failed"
  exists only for a transfer that failed for good.
* `NoFalseCompletion` (assumes `Stub = FALSE`): a completed row was paid.
* `BooksBalance` (finitely many rows): `WalletBooks`. The invariant (`BooksInv`) is the
  sum itself, with each worker's rows, and that no row of a withdrawal is "pending".
* `NoticesAreTrue`: a notice that is still owed (`OwedOutcome`) is about a row that is
  terminal, and terminal rows are final, so reading it again after the commit is safe.

The assumptions on the constants are the named ASSUMEs of the modules; TLC
evaluates them on every run.

`FundingProofs` proves, for any calls, top-ups and deposits:

* `IdemOneAnswer`: calls of one key that are answered get one answer. The
  strengthening (`KeptInv`) says that while the answer is kept no call is about to
  delete the record, a call that lost the race finds one, and every answer given is
  that of the record.
* `FundingUsesIdempotency`: `Funding` implements `IdemSpec`, step by step;
  `FundingOneAnswer` follows.
* `FundingTypeCorrect`: the type invariant.
* `PaymentsCreditedOnce` (assumes `Referenced`): `CreditedOnce`. The invariant
  (`CreditInv`) ties each credit to the one event that booked it or, with the stub
  provider, to the finished handler of a completed top-up; no event can arrive there.
* `TransfersTrulyPaid`: `CompletedIsPaid`. The invariant (`HeardInv`) says that
  whatever was heard of a transfer as "paid" is still true, since Squad can only
  reverse it, and that a transfer Squad has not been asked for is unknown to it.

`JobEscrowProofs` proves, for any workers, jobs, amounts and operations. With any
number of handlers under way:

* `EscrowTypeCorrect`: the type invariant. It needs that tasks about an application
  name a worker (`TasksNamed`), and that the cut of a repayment, computed from the loan
  as it is at the commit, is at most what is owed.
* `FundsConservedInParallel` (neither "publish" nor "cancel" among `Ops`):
  `FundsConserved`. The invariant (`BookInv`) says that the wallet, the reserves and what
  the workers received add up, and that a job nobody made has nothing. All commits
  but two write increments, so that they conserve money whatever they read, even when two
  completions both pay. Publish sets a reserve, and cancel returns one, as it was
  read: two that overlap create or lose money, which is why they are left out.
* `PaidOnceInParallel`, `DisputesBlockPayInParallel` (jobs of one slot, neither
  "auto_release" nor "publish" among `Ops`): `PaidOnce` and `DisputeBlocksPay`. Nothing that
  a handler checked needs to hold when it commits, so the invariant (`PaysInv`) rests on
  two facts no step can take back. The reserve of a job of one slot only falls once the
  job is there (`Falls`), and what a session has pending or disbursed is nothing or the
  whole pay (`Fits`): after a payment the reserve is gone, and a completion that comes
  later, through a late clock-out or a second confirm, finds it short. And confirm holds the
  lock of its session from before its reading to its payment (`Locks`, `Holds`: one
  handler at a time has it), so that what it read still holds when it pays, and a dispute
  comes before or after. Of a run of the timeout cron it says that it pays
  nothing (`TimeoutPaysNothing`). Both exclusions are needed. The auto-release cron
  reads before it locks: with it both properties fail on one slot with two agents, two
  completions paying or a dispute coming in between. Publish writes the reserve it computed and
  may fill it again after a payment.

The rest assumes `Serial`, at most one handler at a time, with crashes after any commit:

* `PaidOnceSerially`, `ApplicationsFinalSerially`. The invariant (`SerialInv`) says that
  the status of an application and of its session go together (`Matching`), that a payment
  comes only with the completion, and that what a task saw of its application still
  holds (`Fresh`); each step moves an application along one of five kinds of moves
  (`Moves`). `Fresh` is what overlapping handlers break. The invariants below rest on it.
* `NeverOverdrawnSerially`. The check of the wallet still holds at the commit (`Afforded`).
* `JobTracksWorkSerially`, `SlotsCountedSerially` (`~MixedUse`: no job of several slots is
  taken by the accept of the whole job). The invariant (`JobInv`) ties a job's status
  and counter to the set of workers hired, and to what a task read of the job (`Knows`).
* `JobsFinalSerially` (`Slots = {1}`, and nobody is hired off the feed): with two slots a
  completed job can be set back, as the violation run `je_short` shows.
* `DisputesBlockPaySerially`. The invariant (`DisputeInv`): nothing is pending on a session
  in dispute, and a completion that read one pays nothing.
* `FundsConservedSerially`, with all operations. The invariant (`MoneyInv`) adds to the
  books that a reserve is what a task read of it (`SawReserve`).
* `EscrowCoversSerially`, `OnlyWithheldStaysSerially` and `NeverShortSerially` (one slot,
  nobody hired off the feed). The invariant (`EscrowInv`) gives the reserve of a job by
  its status: its pay from publication until its worker is paid, then nothing, or still
  its pay if the worker is in dispute or the payment is pending (`Escrowed`, `Resolved`),
  and says what a completion has seen (`SawPay`). These are the assumptions under which
  the claim of `job-completion.service.ts:175`, that a short reserve is unreachable, is
  right: with handlers that overlap `je_paid_twice`, with two slots `je_short` refutes it.
* `EscrowRefined` (the same assumptions): `ImplementsEscrow`. A job is "none" to `Escrow` until
  it is published, "held" while its reserve is filled and "over" when it is not (`Phase`),
  and what a worker has earned counts the part that repaid its loan. A commit is seen as
  `Hold` (create, publish), `Release` (a completion that pays, `CompleteRefines`),
  `Return` or `Drop` (cancel), and every other step changes nothing of it. That a
  release takes the whole reserve and a return gives it all back follows from the invariants
  above together (`EscrowBooks`); pay left pending or withheld stays "held".

`LendingProofs` proves, for any applications, loans, requests, instalments and amounts
(`LendAssumption`: a principal and at least one instalment, and cuts that are numbers):

* `LendTypeCorrect`: the type invariant; a balance stays between nothing and the principal.
* `OwedCovers`: `OwedCoversRest`. A request or the cron writes what it computed from an
  old reading, so the invariant (`LendInv`) says what of a reading cannot go stale: that
  the bank made the loan (`OfBank`), that the instalment exists (`Scheduled`), and that
  what was owed then is at most what is owed or has been repaid now (`StillOwed`). No
  step takes any of them back (`Grows`), which is why an overwritten balance can lose a
  repayment and never a debt.
* `BookedOnce` (assumes that there are finitely many loans): `DisbursedOnce`. The same
  invariant ties a booking to the instalments it creates (`RowsSound`), and `BankBooks` the
  total of the bank to the loans that are booked.
* `LoansRefined` (`Alone`, at most one request at a time): `ImplementsBorrowing`. A loan
  is "agreed" when its row is made and "lent" when it is booked. The invariant
  (`AloneInv`) says that the balance a request has read is that of the row
  (`SawBalance`), which the cron may write over but not in that column, and that a loan
  which is active, late or repaid was lent, so that the cron brings back no other. It
  has no run of its own: TLC finds it to hold of `LendSpec` with one request, one
  application, two loans, `Principal = 3`, `Months = 2` and cuts of 1 or 2 (366,398
  states up to symmetry of loans), and to fail with two requests (section 6).
  `OwedCovers` is what remains of it for any number of requests.

`DashboardProofs` and `WorkerProofs` prove, for any number of calls in flight:

* `ResetEndsOldSessions` (finitely many requests). A request that a reset overtook leaves
  `Overtaken` in the step in which its session joins `Outlived`, so the two together
  grow only with a reset; and the request that makes the reset is not overtaken by it.
* `SettingsAreKept`: each column is what was last asked of it (`RowKept`), as a request writes
  its own columns only, and an invoice about to be marked was mailed (`MailsKept`).
* `BusinessesAreOwned`: whoever a request is about to change or remove was read as somebody
  other than the owner and stays so (`TargetsKept`), since only a sign-up makes an owner
  (`OwnersKept`); a member's accepted invitation stays (`MembersKept`).
* `PushesAreLimited`: the pushes made and those a fan-out has yet to make are within the
  limit and the readings that crossed (`Counts`). `TicketsAreLimited`: the tickets and the
  calls that have counted them are less than the limit and all calls (`TicketsBound`).
* `RemindersReachOnce`: nobody is in a batch twice (`FlaggedOnce`), and at each tick of a
  bucket that was not missed whoever is due was asked or is in the batch (`AllAsked`).
* `ScoresAreLatest`: no snapshot is of a later day than the run under way, and what it
  read of an employer still to do is the score of that employer (`RunUnderWay`).
* `QueuesAreFresh`: of a tab whose queue is not the stored one, a hint is owed by a
  handler, or a fetch or its answer is on its way (`HandlersTell`, `Refreshed`), since
  every handler that changes the queue tells of it afterwards (`ScriptTells`).
* `DefaultAccount`: as long as no calls crossed, one call at most has read (`OneAtATime`),
  and what it read is still so (`StillSo`).
* `RatingsStayBlind`: both ratings are shown or one of them crossed (`ShownTogether`), and a
  rating is counted or crossed (`ShownCounted`); transactions that meet are in `crossed`
  (`MetIsCrossed`), and one that is not has seen its counterpart (`OtherSeen`).
* `CodesAreLimited`: for each code, attempts counted and calls that compared and have
  not counted are together less than the limit and all calls (`CodeKept`).
* `ProfileIsProven`: a code that was entered stays proven for its number, and what a call
  holds is an avatar of its caller (`CallsOk`).
* `WalksShowAll`: what a walk has yet to show of the rows that stayed is below its
  cursor, where it has shown nothing (`WalkSound`); what an export has yet to write is
  older than the newest rows it skips (`ExportSound`).
* `CodesArrive`, `DeadRowsGo`: what a message takes for dead is a token older than the one its
  device has now, and its row has no newer one unless it was written over while a
  message was in flight (`TargetSound`).

`PlatformProofs` composes them: a step of the platform is a step of each component or leaves
its variables alone (`PlatformMoves`), so that all their invariants together are kept
(`PlatformInv`, `PlatformKeeps`).
`PlatformTypeCorrect`, `BusinessesAreKept`, `CodesAlwaysProve`, `LimitsAlwaysHold` and
`MessagesAlwaysReach` state what the run `platform` checks, for all values of the constants.
The figures that are arithmetic are proved of every number, whatever runs: `OffersAgree`
and `CreditIsHonest` by the bands of the score, `PriorPullsIn` since a mean lies between its
parts also when each is rounded (`NearestIs`, `MeanBetween`), `PagesShowAll` since the
pages up to the last cover the first rows without a gap (`LastPage`, `PageIs`) and their
lengths add up along `CountingUp`.

Assumptions on constants are finite sets of rows (`Withdrawals`, `JobEscrow`) or calls
(`Sessions`, `WorkerAuth`, `Assist`), sets that are not empty where `Init` chooses
a member, limits and bounds that are natural numbers. The database and the number of
requests in flight are finite; bounds are the model's own caps.

Two arguments are made once, in `CommonProofs`, as the provers cannot instantiate
the library's induction theorems. A set of naturals that is not empty has a
least member (`LeastNat`), so a set of subsets of a finite set closed under adding one
element has them all (`SubsetInduction`). A sum over a finite set is the value of a
recursive function (`SumComputed`, `AddsExist`, `AddsAgree`), so that it changes by what
one of its terms does (`SumChange`). `BooksBalance`, both theorems about
`FundsConserved` and the proofs about reserves cite these.

Only model-checked: liveness (`Backstop`, `StubConverges`, `HoldReleases`,
`OverdueDefaults`, `TeamFirstOpens`), which is out of the prover's reach;
and the pure parts of `FiguresAgree` and `ListsShowAll` that are not arithmetic. Those are
about folds and recursive definitions over lists of rows, which would need induction
over data. `FiguresKeepAgreeing` and `ListsKeepShowing` reduce them to their initial
states, which TLC goes through one by one; the parts that move are proved without that.

## 5. Not modelled

Audit rows, search, wording, formatting and layout, the rendering of invoices and
mails, start-up and error mapping, demonstration data: nothing of the modelled state
depends on them. Of the modelled components: details of single rows, and lists that
are a filter and a sort (loans, borrowers, workers). The deep checks of a
request (field formats, sizes) are taken as passed: inputs are those the validators
let through. Geofences and photo gates of clock-in refuse on data; `Boards` has
their verdicts. Services outside the repository (Squad, FCM, Resend, the language models,
the object store, the dashboard) are modelled from how the code uses them.
`PROJECT.json` gives the reason for each component that is left out.

## 6. Known divergences

Found while modelling; the ones above have a run, the others are reproduced by
checking the named property with the constants given.

* *Wallet overdraft.* `withdrawals.service.ts:174` says the balance is re-checked in
  the transaction "to catch the preview->submit race". The re-check takes no lock and
  the decrement is unconditional. `Withdrawals!NeverOverdrawn` fails with two
  requests of amounts 1..2 against a balance of 2.
* *Starvation of the cron.* Rows Squad does not know stay candidates for ever; with
  `MAX_PER_TICK` of them at the head, later rows are never polled
  (`squad-reconciliation.cron.ts:57-66`). `Backstop` fails with `MaxPerTick = 1`
  and two rows.
* *Employer overdraft.* `job-reservation.service.ts:22` says "Lock the employer
  row"; nothing is locked. `JobEscrow!NeverOverdrawn` fails with two agents, two
  jobs and `Funds = 1`.
* *Overbooking.* `employer-jobs.service.ts:920` says "Postgres holds the row lock for
  the duration"; it does not. `NeverOverbooked` fails with two agents, three workers
  and one job of two slots.
* *Free slots closed.* Clock-in sets `filled` for every job (`sessions.service.ts:115`)
  and apply refuses filled jobs, against `employer-jobs.service.ts:866`.
  `SlotsStayOpen` fails with one agent and a job of two slots.
* *Stranded money.* A disputed session is completed with nothing by the timeout cron
  after half an hour; its pay stays in the reserve of a completed job
  (`pending-verification-timeout.cron.ts:34` against
  `employer-work-sessions.service.ts:314`). `NothingStranded` fails with one agent,
  one worker and one job; `OnlyWithheldStays` says that nothing else is left behind.
* *Dispute after the fetch.* A dispute opened after the auto-release cron has read its
  batch does not stop the payment (`auto-release.cron.ts:10`). `DisputeBlocksPay`
  fails with two agents once "auto_release" is among `Ops`.
* *Late clock-out.* A clock-out that passed its check before a session was completed
  and commits after it reopens the application, against the comment of
  `completeSession` (`job-completion.service.ts:78`) that it is idempotent. A second
  confirm falls back on what was disbursed and pays it again if the reserve has it.
  `je_pair` shows that with one slot it has not; with two slots, operation
  `accept_slot` and `Funds = 2`, `PaidOnce` fails.
* *One key, two transfers.* Two calls with one key can both find no record and both
  do the work; only the answer is shared (`idempotency.service.ts:18-19`).
  `Funding!PaidOncePerKey` fails with two calls, also if the first stops after the
  transfer and before its answer is stored.
* *Bodies of racing calls.* A call that loses the race is answered with the winner's
  answer without a look at its body (`idempotency.service.ts:84`), while a later
  call with another body is refused.
* *Events without a reference.* Such a funding event gets a reference made of the time
  (`squad-webhook.controller.ts:200`), so its replay is credited again.
  `CreditedOnce` fails with `Referenced = FALSE`. Whether Squad sends such events
  cannot be told from the code.
* *Transfer before row.* A manual transfer is sent before its row is written
  (`employer-transactions.service.ts:180`). A webhook in between is discarded, and
  after a crash in between Squad pays and no row exists.
* *Two transfers for one loan.* Two officers who disburse one loan both pass the check
  and both ask Squad for a transfer with a reference of its own (`bank-loans.service.ts:139`);
  the books stay right (`DisbursedOnce`), Squad pays twice.
* *The cron and the handlers.* `bank-risk-flagging.cron.ts:98-111` writes from the row it
  read: it marks an instalment missed that was paid meanwhile. A repayment writes the balance
  it computed from what it read (`bank-loans.service.ts:353`), so of two only one counts.
  `OwedCoversRest` says that this never forgives a debt. `ImplementsBorrowing` fails with two
  requests, one loan, `Principal = 2` and `Months = 2`.
* *Attempts of a code.* `auth.service.ts:183-197` counts after it compares, so the limit of
  attempts may be overrun by the calls in flight; `CodesProve` states by how many.
* *Invitations.* `team.service.ts:199` says a removed member "would just be re-invited",
  but the invitation is refused as the address has an account. Two invitations that
  race are both pending, against "fresh invite always supersedes".
* *Sessions after a reset.* A login or refresh in flight opens a session after the reset
  (`dashboard-auth.service.ts:534`); `ResetEndsSessions` bounds how many.
* *Ratings that cross* stay blind for 48 hours although both are there, and the aggregates
  miss one (`ratings.service.ts:133`, `:479`). Disputes never set `completedAt`, so a disputed
  session is never counted by the reliability cron (`reliability-recompute.cron.ts:24-27`).
* *Narrowed after it was opened.* An edit that sets an open job back to team-first leaves
  `audienceFlippedAt` set (`employer-jobs.service.ts:505`), and the cron never opens it;
  `TeamFirstOpens` leaves such a job out.
* *Feed.* A list of jobs ranked by relevance is paged by the start time
  (`jobs.service.ts`), and the radius floor overrides a narrower one asked for
  (`jobs.service.ts:27-35`). Blocks are stored and not consulted. The limit of pushes is
  read before the loop (`employer-jobs.service.ts:1442`), so fan-outs that overlap
  cross it; `overlaps` counts them.
* *CrossedDefaults.* Two calls about bank accounts that overlap can leave two default
  accounts, or none (`banks.service.ts:106`, `:141`, `:160`); `OneDefaultAccount` holds of
  calls that do not. It fails when the condition `~ crossedCalls` is dropped.
* *Open and closed jobs.* `employers.service.ts:119-122` says that a page never crosses
  the boundary between open and closed jobs "partway". With open jobs at 9 and 1, closed ones
  at 8, 7, 6 and pages of 3 the cursor compares times across the boundary, and rows are
  repeated; with open 9, 7 and closed 8, 5 it skips some. `OneListWalks` is stated of
  one list, and `Lists` follows the boundary.
* *Rate reminders* run every half hour, against "Every 15 minutes"
  (`rate-reminder.cron.ts:40`); the buckets are wide enough for it.
* *Bank analytics.* A curve called "cumulative loss" may fall; an approved loan counts as
  disbursed. *Employer analytics.* `range` is honoured by one chart only; "today's spend"
  sums transactions of every kind.
* *Deletion.* `me.service.ts:155` blocks on a withdrawal that is "pending", while one under
  way is "processing". The attempts of a change of number are counted and not limited.
* *Summaries* are kept for a week and not dropped when the job is edited
  (`job-summary.service.ts`); a carousel shows jobs taken meanwhile for up to a quarter of an hour.
* *Hints.* Clock-in publishes nothing (`sessions.service.ts`), so a live map stays as it was
  until the tab fetches for another reason; the auto-release cron publishes the completion
  before it closes the review (`auto-release.cron.ts:62-90`). A tab keeps the scope its
  token had when the member was removed.
* *Wallet settings.* Resuming payouts does not ask for a connected wallet
  (`employer-payouts.service.ts:76-105`), and nothing connects again once a number exists
  (`virtual-account-provisioner.service.ts:43`). Two provisionings that race open two
  accounts. An invoice is marked sent whatever becomes of the mail; "paid" is never set.
* *Boards.* With several workers on a job the proof page and the live map mix the clock
  events of all of them; the review queue separates
  them by worker. `VerdictsAgree` says that the two pages mix them in the same way.

## 7. Plan

Built so far, in this order: withdrawals with their abstract specification and
proofs; job escrow and lifecycle; idempotency and funding;
proofs about all of them; then the rest of the platform: loans, sign-in, profiles,
ratings, the feed, messages, lists, hints, settings and the pure figures. Next, in this order:

1. Jobs of several slots in parallel: how often an application may be paid is then bounded
   by what the other slots hold (section 6); a bound by the number of slots is worth
   stating.
2. Loans and job payments together: what a worker owes and what its payments are cut by.
3. The other components whose abstract promise is short, such as sessions and invitations,
   as refinements.

