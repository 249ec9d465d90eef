------------------------- MODULE EmployerAnalytics -------------------------
(***************************************************************************)
(* What an employer reads about its postings and its spending: the six     *)
(* charts of employer-analytics.service.ts and the overview of             *)
(* overview.service.ts.  Instants are numbers, a day has DayLength of      *)
(* them, day 0 is a Monday.  `work` is a function from postings to rows,   *)
(* `paid` one from transactions to rows, `done` one from completed         *)
(* applications to rows; all are of one employer.                          *)
(***************************************************************************)
EXTENDS Integers, FiniteSets, FiniteSetsExt

CONSTANT DayLength

ASSUME DayLengthAssumption == DayLength \in Nat \ {0}

Sums(Amount(_), S) == MapThenSumSet(Amount, S)
Rounded(n, d) == (2 * n + d) \div (2 * d)

Never == -1                             \* a date that is missing
NoJob == -1                             \* a payment for no posting

DayOf(at) == at \div DayLength
WeekOf(at) == DayOf(at) \div 7          \* toUtcWeekStart, weeks from Monday
DayOfWeek(at) == (DayOf(at) + 1) % 7    \* getUTCDay, 0 is Sunday

(* Both ends given, one of them, or neither: then the window ends with     *)
(* today and has `days` days.                                              *)
ResolveWindow(q, now, days) ==
    LET tomorrow == (DayOf(now) + 1) * DayLength
    IN  [from |-> IF q.from # Never THEN q.from
                  ELSE (IF q.to # Never THEN q.to ELSE tomorrow) - days * DayLength,
         to |-> IF q.to # Never THEN q.to
                ELSE IF q.from # Never THEN now ELSE tomorrow]

InWindow(at, w) == w.from <= at /\ at < w.to
EnumerateDays(w) == DayOf(w.from) .. DayOf(w.to)
EnumerateWeeks(w) == WeekOf(w.from) .. WeekOf(w.to)

(* The worker app's job types, and what the dashboard makes of them; a     *)
(* filter by a dashboard type asks for these.                              *)
DB_TO_DASHBOARD_TYPE ==
    [loader |-> "loader", driver |-> "driver", unloader |-> "unloader",
     general_labor |-> "general", welder |-> "general"]
MapJobTypeToDashboard(t) ==
    IF t \in DOMAIN DB_TO_DASHBOARD_TYPE THEN DB_TO_DASHBOARD_TYPE[t] ELSE "general"
DASHBOARD_TO_DB_TYPE ==
    [loader |-> {"loader"}, driver |-> {"driver"}, unloader |-> {"unloader"},
     general |-> {"general_labor", "welder"}]
MapDashboardTypeToDbValues(y) ==
    IF y \in DOMAIN DASHBOARD_TO_DB_TYPE THEN DASHBOARD_TO_DB_TYPE[y] ELSE {y}

----------------------------------------------------------------------------
Settled == {"succeeded", "completed"}

JobPayments(paid, w) ==
    {t \in DOMAIN paid : /\ paid[t].kind = "job_payment"
                         /\ paid[t].status \in Settled
                         /\ InWindow(paid[t].at, w)}

LaborCostTrend(paid, w) ==
    [d \in EnumerateDays(w) |->
        Sums(LAMBDA t : paid[t].amount, {t \in JobPayments(paid, w) : DayOf(paid[t].at) = d})]

(* A payment without a posting is left out; one whose posting is not found *)
(* counts as general.                                                      *)
CostByJobType(paid, work, w) ==
    LET T == {t \in JobPayments(paid, w) : paid[t].job # NoJob}
        TypeOf(t) == IF paid[t].job \in DOMAIN work
                     THEN MapJobTypeToDashboard(work[paid[t].job].type) ELSE "general"
        grand == Sums(LAMBDA t : paid[t].amount, T)
        value == [y \in {TypeOf(t) : t \in T} |->
                    Sums(LAMBDA t : paid[t].amount, {t \in T : TypeOf(t) = y})]
    IN  [y \in DOMAIN value |->
            [value |-> value[y],
             share |-> IF grand > 0 THEN Rounded(1000 * value[y], grand) ELSE 0]]

UtilizationShown == 8

(* The workers with the most completed jobs, then the most earned.         *)
WorkerUtilization(done, w, most) ==
    LET A == {a \in DOMAIN done : InWindow(done[a].at, w)}
        jobs == [p \in {done[a].worker : a \in A} |->
                    Cardinality({a \in A : done[a].worker = p})]
        earned == [p \in DOMAIN jobs |->
                    Sums(LAMBDA a : done[a].pay, {a \in A : done[a].worker = p})]
        Above(p, q) == jobs[p] > jobs[q] \/ (jobs[p] = jobs[q] /\ earned[p] > earned[q])
    IN  [jobs |-> jobs, earned |-> earned,
         top |-> CHOOSE T \in SUBSET DOMAIN jobs :
                   /\ Cardinality(T) = Min({most, Cardinality(DOMAIN jobs)})
                   /\ \A p \in T : \A q \in DOMAIN jobs \ T : ~ Above(q, p)]

Posted(work, w) == {j \in DOMAIN work : InWindow(work[j].created, w)}
Filled(work, J) == {j \in J : work[j].applied # Never}
FillTime(work, j) == Max({0, work[j].applied - work[j].created})
MeanFill(work, J) ==
    IF J = {} THEN 0
    ELSE Rounded(Sums(LAMBDA j : FillTime(work, j), J), Cardinality(J))

(* By week of posting, those somebody applied to.                          *)
TimeToFill(work, w) ==
    [k \in EnumerateWeeks(w) |->
        LET J == {j \in Filled(work, Posted(work, w)) : WeekOf(work[j].created) = k}
        IN  [jobs |-> Cardinality(J), average |-> MeanFill(work, J)]]

DemandHeatmap(work, w) ==
    LET J == {j \in DOMAIN work : InWindow(work[j].start, w)}
        CellOf(j) == <<DayOfWeek(work[j].start), work[j].start % DayLength>>
    IN  [c \in {CellOf(j) : j \in J} |-> Cardinality({j \in J : CellOf(j) = c})]

RoiByType(work, w) ==
    LET J == Posted(work, w)
        TypeOf(j) == MapJobTypeToDashboard(work[j].type)
        Of(y) == {j \in J : TypeOf(j) = y}
        Completed(y) == {j \in Of(y) : work[j].status = "completed"}
    IN  [y \in {TypeOf(j) : j \in J} |->
            [jobs |-> Cardinality(Of(y)),
             avgCost |-> IF Completed(y) = {} THEN 0
                         ELSE Rounded(Sums(LAMBDA j : work[j].pay, Completed(y)),
                                      Cardinality(Completed(y))),
             avgFill |-> MeanFill(work, Filled(work, Of(y))),
             completionRate |-> Rounded(1000 * Cardinality(Completed(y)), Cardinality(Of(y)))]]

----------------------------------------------------------------------------
(* The overview.                                                           *)

ACTIVE_STATUSES ==
    {"open", "applications_in", "accepted", "in_progress", "pending_verification"}
TREND_BUCKETS == 9
SPEND_TREND_DAYS == 7

(* Buckets of one day from the day `start`, of rows that have a value and  *)
(* an instant; what lies outside is dropped.                               *)
BucketSumByDay(value, at, start, buckets) ==
    [i \in 0 .. buckets - 1 |->
        Sums(LAMBDA x : value[x], {x \in DOMAIN at : DayOf(at[x]) - start = i})]
BucketCountByDay(at, start, buckets) ==
    BucketSumByDay([x \in DOMAIN at |-> 1], at, start, buckets)

(* A tile compares the last bucket with the one before it, in tenths of a  *)
(* percent.                                                                *)
Tile(value, trend, buckets) ==
    LET last == trend[buckets - 1]
        prev == trend[buckets - 2]
    IN  [value |-> value, trend |-> trend,
         delta |-> IF prev = 0 THEN 0 ELSE Rounded(1000 * (last - prev), prev)]

Overview(work, paid, now, soon, lateBy) ==
    LET today == DayOf(now)
        trendStart == today - (TREND_BUCKETS - 1)
        weekStart == today - SPEND_TREND_DAYS + 1
        recent == {t \in DOMAIN paid : DayOf(paid[t].at) >= trendStart}
        completed == {t \in recent : paid[t].status \in Settled}
        pending == {t \in recent : paid[t].status \in {"pending", "processing"}}
        active == {j \in DOMAIN work : work[j].status \in ACTIVE_STATUSES}
        posted == {j \in DOMAIN work : DayOf(work[j].created) >= trendStart}
        Amount(t) == paid[t].amount
        Trend(J) == BucketCountByDay([j \in J |-> work[j].created], trendStart, TREND_BUCKETS)
        PaidAt(T) == [t \in T |-> paid[t].at]
        Spend(start, n) ==
            BucketSumByDay([t \in completed |-> paid[t].amount], PaidAt(completed), start, n)
        spend == Spend(weekStart, SPEND_TREND_DAYS)
    IN  [activeJobs |-> Tile(Cardinality(active), Trend(posted \cap active), TREND_BUCKETS),
         workersWorking |->
            Tile(Cardinality({j \in active : work[j].status = "in_progress"}),
                 Trend({j \in posted : work[j].status \in {"in_progress", "completed"}}),
                 TREND_BUCKETS),
         todaySpend |-> Tile(Sums(Amount, {t \in completed : DayOf(paid[t].at) >= today}),
                             Spend(trendStart, TREND_BUCKETS), TREND_BUCKETS),
         pendingPayments |-> Tile(Cardinality(pending),
                                  BucketCountByDay(PaidAt(pending), trendStart, TREND_BUCKETS),
                                  TREND_BUCKETS),
         attention |->
            [applications_waiting |->
                Sums(LAMBDA j : work[j].applicants,
                     {j \in active : work[j].status \in {"applications_in", "open"}}),
             starting_soon |->
                Cardinality({j \in active : work[j].start > now /\ work[j].start <= now + soon}),
             worker_late |->
                Cardinality({j \in active : /\ work[j].status \in {"accepted", "open"}
                                            /\ work[j].start <= now - lateBy})],
         spendTrend7d |-> spend,
         projectedWeeklySpend |-> Sums(LAMBDA i : spend[i], DOMAIN spend)]

----------------------------------------------------------------------------
(* The charts of one window agree: the days and the types split the same   *)
(* payments, the weeks hold every posting somebody applied to, the cells   *)
(* every posting that starts, the types every posting; and a type counts   *)
(* the postings a list filtered by that type shows.                        *)
ChartsAgree(work, paid, w) ==
    LET cost == CostByJobType(paid, work, w)
        trend == LaborCostTrend(paid, w)
        weeks == TimeToFill(work, w)
        cells == DemandHeatmap(work, w)
        roi == RoiByType(work, w)
    IN  /\ Sums(LAMBDA d : trend[d], DOMAIN trend)
              = Sums(LAMBDA t : paid[t].amount, JobPayments(paid, w))
        /\ Sums(LAMBDA y : cost[y].value, DOMAIN cost)
              = Sums(LAMBDA t : paid[t].amount,
                     {t \in JobPayments(paid, w) : paid[t].job # NoJob})
        /\ Sums(LAMBDA k : weeks[k].jobs, DOMAIN weeks)
              = Cardinality(Filled(work, Posted(work, w)))
        /\ Sums(LAMBDA c : cells[c], DOMAIN cells)
              = Cardinality({j \in DOMAIN work : InWindow(work[j].start, w)})
        /\ Sums(LAMBDA y : roi[y].jobs, DOMAIN roi) = Cardinality(Posted(work, w))
        /\ \A y \in DOMAIN roi :
              roi[y].jobs = Cardinality({j \in Posted(work, w) :
                                           work[j].type \in MapDashboardTypeToDbValues(y)})

(* What the workers of the chart did and earned is what was done and paid  *)
(* in the window, and nobody left out did more than somebody shown.        *)
UtilizationAgrees(done, w, most) ==
    LET u == WorkerUtilization(done, w, most)
        A == {a \in DOMAIN done : InWindow(done[a].at, w)}
    IN  /\ Sums(LAMBDA p : u.jobs[p], DOMAIN u.jobs) = Cardinality(A)
        /\ Sums(LAMBDA p : u.earned[p], DOMAIN u.jobs) = Sums(LAMBDA a : done[a].pay, A)
        /\ \A p \in u.top, q \in DOMAIN u.jobs \ u.top : u.jobs[p] >= u.jobs[q]

(* Today's tile is the newest bucket of its trend, and the week's spending *)
(* is the end of the same trend.                                           *)
OverviewAgrees(work, paid, now, soon, lateBy) ==
    LET o == Overview(work, paid, now, soon, lateBy)
        trend == o.todaySpend.trend
    IN  /\ o.todaySpend.value = trend[TREND_BUCKETS - 1]
        /\ \A i \in 0 .. SPEND_TREND_DAYS - 1 :
              o.spendTrend7d[i] = trend[TREND_BUCKETS - SPEND_TREND_DAYS + i]
        /\ o.workersWorking.value <= o.activeJobs.value
============================================================================
