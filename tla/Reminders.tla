------------------------------- MODULE Reminders -------------------------------
(***************************************************************************)
(* Two crons that nudge people: rate-reminder.cron.ts asks the reviewers of*)
(* a business to rate a finished session, flag-late-workers.cron.ts flags a*)
(* worker who has not clocked in.  Each reads what is due and then writes  *)
(* one notice after the other, while the rest of the system goes on.       *)
(*                                                                         *)
(* Time is counted in units of 7.5 minutes from the end of the session for *)
(* the first, of 5 minutes from the start of the job for the second; a run *)
(* takes less than a unit, so time waits for it.                           *)
(***************************************************************************)
EXTENDS Integers, FiniteSets

CONSTANTS
    Reviewer,     \* users of the business with a role that reviews
    Crew,         \* workers of the job; one of them is assignedWorkerId
    LateUntil     \* how long the second part is watched, in units

ASSUME RemindersAssumption == Crew # {}

VARIABLES
    clock,        \* units since the session ended, or since the job was to start
    nudge,        \* "rate" or "late": which cron is watched
    phase,        \* the units at which the cron of ratings ticks, modulo its cadence
    joined,       \* Reviewer -> since when the user is there
    rated,        \* the employer has rated
    missed,       \* buckets in which the server was down, 0: a run of the late cron
    reading,      \* who the current run has read and not yet handled; done: it ran
    nudges,       \* whoever is nudged -> how often
    working       \* crew members who have clocked in, and whether the job is accepted

reminderVars == <<clock, nudge, phase, joined, rated, missed, reading, nudges, working>>
-----------------------------------------------------------------------------
Cadence == IF nudge = "rate" THEN 4 ELSE 1      \* 30 minutes, 5 minutes
HalfBucket == 2                                 \* BUCKET_MS, 15 minutes
Buckets == {24, 192}                            \* T+3h, T+24h
LateAfter == 3                                  \* LATE_THRESHOLD_MS, 15 minutes
End == IF nudge = "rate" THEN 192 + HalfBucket + 1 ELSE LateUntil

Assigned == CHOOSE w \in Crew : TRUE
Nudged == Reviewer \union Crew

RemindersTypeOK ==
    /\ clock \in Nat /\ nudge \in {"rate", "late"} /\ phase \in 0..3
    /\ joined \in [Reviewer -> Nat] /\ rated \in BOOLEAN
    /\ missed \subseteq Buckets \union {0}
    /\ reading \in [ran : BOOLEAN, todo : SUBSET Nudged]
    /\ nudges \in [Nudged -> Nat]
    /\ working \in [in : SUBSET Crew, accepted : BOOLEAN]

\* A user is there from the start or comes between the two reminders.
RemindersInit ==
    /\ clock = 0 /\ nudge \in {"rate", "late"}
    /\ phase \in IF nudge = "rate" THEN 0..3 ELSE {0}
    /\ joined \in [Reviewer -> {0, 100}]
    /\ rated = FALSE /\ missed = {}
    /\ reading = [ran |-> FALSE, todo |-> {}]
    /\ nudges = [u \in Nudged |-> 0]
    /\ working = [in |-> {}, accepted |-> TRUE]
-----------------------------------------------------------------------------
Tick(t) == t % Cadence = phase % Cadence

\* The sessions a bucket matches ended between these times ago.
InBucket(t, b) == t >= b - HalfBucket /\ t <= b + HalfBucket

DueAt(t) ==
    IF nudge = "rate"
    THEN {u \in Reviewer : /\ joined[u] <= t /\ ~ rated
                           /\ \E b \in Buckets : InBucket(t, b)}
    ELSE IF /\ t >= LateAfter /\ working.accepted /\ working.in = {}
            /\ nudges[Assigned] = 0
         THEN {Assigned} ELSE {}

\* The run reads what is due; or the server is down at that time.
CronRun(up) ==
    /\ Tick(clock) /\ ~ reading.ran
    /\ reading' = [ran |-> TRUE, todo |-> IF up THEN DueAt(clock) ELSE {}]
    /\ missed' = IF up THEN missed
                 ELSE missed \union (IF nudge = "late" THEN {0}
                                     ELSE {b \in Buckets : InBucket(clock, b)})
    /\ UNCHANGED <<clock, nudge, phase, joined, rated, nudges, working>>

\* A reviewer who has a reminder of the session gets no other, whichever bucket it
\* was of; a flag is written whatever the worker has done since.
Nudge(u) ==
    /\ u \in reading.todo
    /\ reading' = [reading EXCEPT !.todo = @ \ {u}]
    /\ nudges' = IF nudge = "rate" /\ nudges[u] > 0 THEN nudges
                 ELSE [nudges EXCEPT ![u] = @ + 1]
    /\ UNCHANGED <<clock, nudge, phase, joined, rated, missed, working>>

Wait ==
    /\ clock < End /\ reading.todo = {}
    /\ Tick(clock) => reading.ran
    /\ clock' = clock + 1
    /\ reading' = [reading EXCEPT !.ran = FALSE]
    /\ UNCHANGED <<nudge, phase, joined, rated, missed, nudges, working>>

RateNow ==
    /\ nudge = "rate" /\ ~ rated
    /\ rated' = TRUE
    /\ UNCHANGED <<clock, nudge, phase, joined, missed, reading, nudges, working>>

\* Any clock-in of the job counts; the status becomes in_progress with it.
ClockInLate(w) ==
    /\ nudge = "late" /\ w \notin working.in
    /\ working' = [in |-> working.in \union {w}, accepted |-> FALSE]
    /\ UNCHANGED <<clock, nudge, phase, joined, rated, missed, reading, nudges>>

RemindersNext ==
    \/ \E up \in BOOLEAN : CronRun(up)
    \/ \E u \in Nudged : Nudge(u)
    \/ Wait \/ RateNow
    \/ \E w \in Crew : ClockInLate(w)

RemindersSpec == RemindersInit /\ [][RemindersNext]_reminderVars
-----------------------------------------------------------------------------
\* The bucket has passed for this user, and the server was up in all of it.
Reached(u, b) ==
    clock > b + HalfBucket /\ joined[u] <= b - HalfBucket /\ b \notin missed

(* Nobody is nudged twice, and nobody is left out: the buckets are as wide as the
   cron is slow (rate-reminder.cron.ts:9), so whoever was there gets a reminder
   unless the work was rated; and a worker is flagged at the first run after the
   fifteen minutes unless someone of the job has clocked in. *)
NudgedOnce ==
    /\ \A u \in Nudged : nudges[u] <= 1
    /\ nudge = "rate" /\ ~ rated =>
         \A u \in Reviewer : (\E b \in Buckets : Reached(u, b)) => nudges[u] = 1
    /\ nudge = "late" /\ working.in = {} /\ clock > LateAfter /\ missed = {} =>
         nudges[Assigned] = 1
=============================================================================
