-------------------------------- MODULE Recalc --------------------------------
(***************************************************************************)
(* The two nightly jobs that recompute scores: the credit score of every   *)
(* employer, with a record of the run and a snapshot a day                 *)
(* (employer-score-recalc.cron.ts), and the reliability of every worker    *)
(* that clocked in (reliability-recompute.cron.ts).  What a score is       *)
(* computed to be is module Scoring; here it is any of CreditScores.       *)
(***************************************************************************)
EXTENDS Integers, FiniteSets, FiniteSetsExt, Sequences

CONSTANTS Employer,      \* employers
          CreditScores,  \* scores
          LastDay        \* the days 1 .. LastDay

ASSUME RecalcAssumption == LastDay \in Nat \ {0}

VARIABLES today,
          credit,        \* Employer -> Employer.creditScore
          snapshots,     \* Employer -> its EmployerCreditHistory, a score by day
          jobRuns,       \* the JobRun rows, oldest first
          nightly        \* the run under way, or none

recalcVars == <<today, credit, snapshots, jobRuns, nightly>>

NoRun == [left |-> {}, read |-> << >>, day |-> 0, on |-> FALSE]

RecalcTypeOK ==
    /\ today \in 1 .. LastDay
    /\ credit \in [Employer -> CreditScores]
    /\ \A b \in Employer : /\ DOMAIN snapshots[b] \subseteq 1 .. LastDay
                           /\ \A d \in DOMAIN snapshots[b] : snapshots[b][d] \in CreditScores
    /\ \A i \in DOMAIN jobRuns : jobRuns[i] \in {"running", "succeeded", "failed"}
    /\ nightly.left \subseteq Employer /\ nightly.on \in BOOLEAN

RecalcInit ==
    /\ today = 1
    /\ credit \in [Employer -> CreditScores]
    /\ snapshots = [b \in Employer |-> << >>]
    /\ jobRuns = << >> /\ nightly = NoRun

SetLast(s, x) == [s EXCEPT ![Len(s)] = x]

(* One run a day (an operator may run it again): the run is recorded, then *)
(* the employers are read.                                                 *)
RunBegins ==
    /\ ~ nightly.on /\ Len(jobRuns) < LastDay + 1
    /\ jobRuns' = Append(jobRuns, "running")
    /\ nightly' = [left |-> Employer, read |-> credit, day |-> today, on |-> TRUE]
    /\ UNCHANGED <<today, credit, snapshots>>

(* One transaction: the snapshot of the day the run began is written over, *)
(* and the score if it differs from the one that was read.                 *)
Recompute(b, score) ==
    /\ nightly.on /\ b \in nightly.left
    /\ snapshots' = [snapshots EXCEPT ![b] =
          [d \in DOMAIN snapshots[b] \cup {nightly.day} |->
              IF d = nightly.day THEN score ELSE snapshots[b][d]]]
    /\ credit' = IF score # nightly.read[b] THEN [credit EXCEPT ![b] = score] ELSE credit
    /\ nightly' = [nightly EXCEPT !.left = @ \ {b}]
    /\ UNCHANGED <<today, jobRuns>>

(* An employer that fails is skipped.                                      *)
SkipEmployer(b) ==
    /\ nightly.on /\ b \in nightly.left
    /\ nightly' = [nightly EXCEPT !.left = @ \ {b}]
    /\ UNCHANGED <<today, credit, snapshots, jobRuns>>

RunEnds ==
    /\ nightly.on /\ nightly.left = {}
    /\ jobRuns' = SetLast(jobRuns, "succeeded")
    /\ nightly' = NoRun
    /\ UNCHANGED <<today, credit, snapshots>>

(* The list of employers could not be read.                                *)
RunFails ==
    /\ nightly.on /\ nightly.left = Employer
    /\ jobRuns' = SetLast(jobRuns, "failed")
    /\ nightly' = NoRun
    /\ UNCHANGED <<today, credit, snapshots>>

(* The process stops: the run stays "running" for ever.                    *)
RunCrashes ==
    /\ nightly.on
    /\ nightly' = NoRun
    /\ UNCHANGED <<today, credit, snapshots, jobRuns>>

NextDay ==
    /\ today < LastDay /\ today' = today + 1
    /\ UNCHANGED <<credit, snapshots, jobRuns, nightly>>

RecalcNext ==
    \/ \E b \in Employer : SkipEmployer(b) \/ \E s \in CreditScores : Recompute(b, s)
    \/ RunBegins \/ RunEnds \/ RunFails \/ RunCrashes \/ NextDay

RecalcSpec == RecalcInit /\ [][RecalcNext]_recalcVars

----------------------------------------------------------------------------
(* What the credit page shows and what the history ends with are the same  *)
(* number: the score of an employer is its latest snapshot, across crashes,*)
(* skipped employers, second runs of a day and runs that cross midnight    *)
(* (employer-score-recalc.cron.ts:75 writes both in one transaction).      *)
ScoreIsLatest ==
    \A b \in Employer :
        DOMAIN snapshots[b] # {} => credit[b] = snapshots[b][Max(DOMAIN snapshots[b])]
============================================================================
