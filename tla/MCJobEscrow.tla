----------------------------- MODULE MCJobEscrow -----------------------------
(***************************************************************************)
(* Instances of JobEscrow for TLC, with the properties that sum over jobs  *)
(* and workers.                                                            *)
(***************************************************************************)
EXTENDS JobEscrow, FiniteSetsExt, TLC

Symmetric == Permutations(Worker) \union Permutations(Agent) \union Permutations(Job)

\* What lies in the reserves of the jobs, and what the workers have, in their
\* wallets or paid back on their loans.
Reserved == MapThenSumSet(LAMBDA j : job[j].reserved, Job)
Received == MapThenSumSet(LAMBDA w : balance[w] + Debt - debt[w], Worker)

\* No naira is made or lost: the employer's money is in the wallet, in the
\* reserve of a job, or with the workers.
FundsConserved == wallet + Reserved + Received = Funds

\* What a job still owes to those it hired.
Owed(j) ==
    LET hired == {i \in Item : i[2] = j /\ app[i] \in InFlight}
    IN  MapThenSumSet(LAMBDA i : IF session[i].status = "none"
                                 THEN job[j].pay ELSE session[i].pending, hired)

\* The reserve of a job covers what it owes, so that a completion only ever
\* fails to pay because payouts are paused (job-completion.service.ts:173).
EscrowCovers == \A j \in Job : Owed(j) <= job[j].reserved

\* What stays in the reserve of a completed job, where no operation reaches it, is
\* the pay of work under dispute and payments that are pending: nothing else is
\* left behind, however a dispute, a second clock-out, a pause and the two crons
\* follow each other (employer-work-sessions.service.ts:359,
\* job-completion.service.ts:185).
OnlyWithheldStays ==
    \A j \in Job : job[j].status = "completed" =>
        LET unpaid == {i \in Item : i[2] = j /\ app[i] = "completed" /\ payments[i] = 0}
        IN  /\ job[j].reserved = job[j].pay * Cardinality(unpaid)
            /\ unpaid \subseteq arrears \union {i \in Item : session[i].dispute}

\* A job whose reserve was never filled, is filled, or is empty again.
Phase(j) ==
    IF job[j].status \in {"none", "draft"} THEN "none"
    ELSE IF job[j].reserved > 0 THEN "held" ELSE "over"

Abstract == INSTANCE Escrow WITH
    phase <- [j \in Job |-> Phase(j)],
    held <- [j \in Job |-> job[j].reserved],
    funds <- wallet,
    earned <- [w \in Worker |-> balance[w] + Debt - debt[w]]

\* The pay of a job leaves the wallet once, and the job at most once and whole, to
\* its worker or back, however clock-outs, reviews, disputes, pauses, crons and
\* crashes follow each other (job-reservation.service.ts, job-completion.service.ts).
ImplementsEscrow == Abstract!Spec
=============================================================================
