------------------------------ MODULE Scoring ------------------------------
(***************************************************************************)
(* The scores and what follows from them: the five factors of an           *)
(* employer's credit score and the score (employer-credit.factors.ts), its *)
(* history (employer-credit.service.ts), the loan it makes eligible for    *)
(* and the recommendation an application gets, a worker's tiers and        *)
(* ceilings (loans.service.ts), what the risk radar offers                 *)
(* (bank-risk-radar.service.ts), and a worker's reliability                *)
(* (reliability-recompute.cron.ts).  A factor is in hundredths.            *)
(***************************************************************************)
EXTENDS Integers, FiniteSets, FiniteSetsExt

SumUp(Amount(_), S) == MapThenSumSet(Amount, S)
Nearest(n, d) == (2 * n + d) \div (2 * d)
Clamp(lo, hi, n) == Max({lo, Min({hi, n})})

Missing == -1

----------------------------------------------------------------------------
(* The factors.  `hires` maps completed applications to rows; instants are *)
(* days.                                                                   *)

FACTOR_WEIGHTS ==
    [paymentTimeliness |-> 40, workerRetention |-> 20, transactionConsistency |-> 20,
     growthTrend |-> 10, timeOnPlatform |-> 10]

(* Who came back, of those who completed a job.                            *)
WorkerRetention(hires) ==
    LET people == {hires[a].worker : a \in DOMAIN hires}
        repeat == {p \in people : Cardinality({a \in DOMAIN hires : hires[a].worker = p}) >= 2}
    IN  IF people = {} THEN 0 ELSE Nearest(100 * Cardinality(repeat), Cardinality(people))

(* What was paid in each week from start; the last bucket takes the end.   *)
AggregateWeeklyOutflows(hires, start, end) ==
    LET weeks == Max({1, (end - start + 6) \div 7})
        BucketOf(a) == Min({weeks - 1, (hires[a].at - start) \div 7})
        seen == {a \in DOMAIN hires : hires[a].at # Missing
                                      /\ start <= hires[a].at /\ hires[a].at <= end}
    IN  [i \in 0 .. weeks - 1 |-> SumUp(LAMBDA a : hires[a].pay, {a \in seen : BucketOf(a) = i})]

(* 1 - deviation / mean, rounded to hundredths: the greatest v within half *)
(* a hundredth, compared by squares.                                       *)
ComputeConsistency(buckets) ==
    LET n == Cardinality(DOMAIN buckets)
        sum == SumUp(LAMBDA i : buckets[i], DOMAIN buckets)
        spread == n * SumUp(LAMBDA i : buckets[i] * buckets[i], DOMAIN buckets) - sum * sum
    IN  IF sum = 0 THEN 0
        ELSE Max({0} \cup {v \in 1 .. 100 :
                    40000 * spread <= (201 - 2 * v) * (201 - 2 * v) * sum * sum})

ComputeGrowthTrend(recent, prior) ==
    IF prior = 0 THEN IF recent > 0 THEN 50 ELSE 30
    ELSE Clamp(0, 100, Nearest(100 * recent, 2 * prior))

TimeOnPlatform(days) == Min({100, Nearest(100 * Max({0, days}), 360)})

ComputeFactorValues(e, now) ==
    [paymentTimeliness |-> Clamp(0, 100, e.timeliness),
     workerRetention |-> WorkerRetention(e.hires),
     transactionConsistency |->
        ComputeConsistency(AggregateWeeklyOutflows(e.hires, now - 90, now)),
     growthTrend |->
        ComputeGrowthTrend(Cardinality({j \in DOMAIN e.posts : e.posts[j] >= now - 30}),
                           Cardinality({j \in DOMAIN e.posts : /\ now - 60 <= e.posts[j]
                                                               /\ e.posts[j] < now - 30})),
     timeOnPlatform |-> TimeOnPlatform(now - e.joined)]

ScoreFromFactors(v) ==
    Clamp(0, 100, Nearest(SumUp(LAMBDA f : v[f] * FACTOR_WEIGHTS[f], DOMAIN v), 100))

----------------------------------------------------------------------------
(* The history: a function from days to the score captured on that day.    *)

LatestOf(history, S) == history[Max(S)]
Newest(history, n) ==
    {d \in DOMAIN history : Cardinality({c \in DOMAIN history : c > d}) < n}
IsoWeek(day) == day \div 7

(* Without a row the page draws a ramp, `drop` points in all.              *)
Synthetic(score, drop, points) ==
    [i \in 0 .. points - 1 |-> Clamp(0, 100, score - Nearest(drop * i, Max({1, points - 1})))]

(* Week i back shows its latest row, or the value of today.  Only the      *)
(* newest rows, seven for a week, are read.                                *)
WeekRows(rows, today, i) == {d \in rows : IsoWeek(d) = IsoWeek(today - 7 * i)}
ByWeek(history, today, value, weeks, read) ==
    [i \in 0 .. weeks - 1 |->
        LET R == WeekRows(Newest(history, read), today, i)
        IN  IF R = {} THEN value ELSE LatestOf(history, R)]

WeeklyTrend(history, today, score, weeks, read) ==
    IF DOMAIN history = {} THEN Synthetic(score, 2, weeks)
    ELSE ByWeek(history, today, score, weeks, read)

(* The trend of a factor, its history that of the factor: a ramp of four   *)
(* hundredths, rounded where it is drawn.                                  *)
FactorTrend(history, today, value, weeks, read) ==
    LET last == Max({1, weeks - 1})
    IN  IF DOMAIN history = {}
        THEN [i \in 0 .. weeks - 1 |-> Clamp(0, 100, Nearest(value * last - 4 * i, last))]
        ELSE ByWeek(history, today, value, weeks, read)

(* The change is against the latest row of a week ago or more.             *)
ScoreDelta(history, today, score, read) ==
    LET old == {d \in Newest(history, read) : d <= today - 7}
    IN  IF old = {} THEN 0 ELSE score - LatestOf(history, old)

(* By month the latest row; a month without one is left out.  At most a   *)
(* year of rows is read; `monthOf` is the calendar.                        *)
MonthlyHistory(history, month, months, monthOf) ==
    LET Of(i) == {d \in DOMAIN history : monthOf[d] = month - i}
    IN  [i \in {k \in 0 .. months - 1 : Of(k) # {}} |-> LatestOf(history, Of(i))]
ScoreHistory(history, month, months, monthOf, score) ==
    IF DOMAIN history = {} THEN Synthetic(score, 4, months)
    ELSE MonthlyHistory([d \in Newest(history, 365) |-> history[d]], month, months, monthOf)

(* The credit page: the stored score, the factors as they are computed     *)
(* now, and what the score makes eligible for.                             *)
CreditPage(e, now, history, of, weeks) ==
    LET v == ComputeFactorValues(e, now)
    IN  [score |-> e.score,
         delta |-> ScoreDelta(history, now, e.score, 7 * weeks),
         trend |-> WeeklyTrend(history, now, e.score, weeks, 7 * weeks),
         factors |-> [f \in DOMAIN v |->
                        [value |-> v[f], weight |-> FACTOR_WEIGHTS[f],
                         trend |-> FactorTrend([d \in DOMAIN history |-> of[f]], now, v[f],
                                               weeks, 7 * weeks)]]]

----------------------------------------------------------------------------
(* What an employer's score makes eligible for, in naira; the credit page, *)
(* the overview and the application each compute it.                       *)

MonthlySpend(spend) == Max({0, Nearest(spend, 12)})

(* Variant: as if the limits of the tiers were not their own.              *)
EligibilityAbove(score, spend) ==
    CASE score > 80 -> [tier |-> "pre_approved", max |-> Min({MonthlySpend(spend) * 3, 5000000}),
                        apr |-> 12]
      [] score > 70 /\ score <= 80 ->
                       [tier |-> "eligible", max |-> Min({MonthlySpend(spend) * 2, 2000000}),
                        apr |-> 14]
      [] score <= 70 -> [tier |-> "ineligible", max |-> 0, apr |-> 0]

Eligibility(score, spend) ==
    CASE score >= 80 -> [tier |-> "pre_approved", max |-> Min({MonthlySpend(spend) * 3, 5000000}),
                         apr |-> 12]
      [] score >= 70 /\ score < 80 ->
                        [tier |-> "eligible", max |-> Min({MonthlySpend(spend) * 2, 2000000}),
                         apr |-> 14]
      [] score < 70 ->  [tier |-> "ineligible", max |-> 0, apr |-> 0]

OverviewEligibility(score, spend) ==
    IF score >= 80 THEN [max |-> Min({MonthlySpend(spend) * 3, 5000000}), aprPct |-> 12]
    ELSE IF score >= 70 THEN [max |-> Min({MonthlySpend(spend) * 2, 2000000}), aprPct |-> 14]
    ELSE [max |-> 0, aprPct |-> 0]

ComputeRecommendation(score, spend, requested) ==
    LET max == IF score >= 80 THEN Min({MonthlySpend(spend) * 3, 5000000})
               ELSE Min({MonthlySpend(spend) * 2, 2000000})
    IN  IF score < 70 THEN [decision |-> "reject", confidence |-> 90]
        ELSE IF requested > max /\ max > 0 THEN [decision |-> "review", confidence |-> 60]
        ELSE IF max = 0 THEN [decision |-> "review", confidence |-> 55]
        ELSE [decision |-> "approve",
              confidence |-> IF score >= 90 THEN 95 ELSE IF score >= 80 THEN 88 ELSE 76]

----------------------------------------------------------------------------
(* A worker's tier, and the most it may borrow.                            *)
TierFor(score) ==
    IF score >= 80 THEN "excellent" ELSE IF score >= 60 THEN "good"
    ELSE IF score >= 40 THEN "fair" ELSE "building"
CeilingFor(score) ==
    IF score >= 80 THEN 100000 ELSE IF score >= 70 THEN 50000
    ELSE IF score >= 60 THEN 20000 ELSE 0

NextUnlock(score) ==
    LET target == IF score >= 70 THEN 80 ELSE IF score >= 60 THEN 70 ELSE 60
    IN  [target |-> target, max |-> CeilingFor(target),
         jobs |-> Max({1, (target - score + 1) \div 2})]

WorkerCredit(score) ==
    [tier |-> TierFor(score), eligible |-> score >= 60,
     max |-> IF score >= 60 THEN CeilingFor(score) ELSE 0,
     min |-> IF score >= 60 THEN 5000 ELSE 0,
     unlock |-> IF TierFor(score) = "excellent" THEN Missing ELSE NextUnlock(score).target]

(* The answer to an application for a worker's loan.                       *)
WorkerAsks(score, principal) ==
    IF score < 60 THEN "NOT_ELIGIBLE"
    ELSE IF principal < 5000 \/ principal > CeilingFor(score) THEN "VALIDATION_FAILED"
    ELSE IF TierFor(score) = "excellent" /\ principal <= 50000 THEN "approved" ELSE "pending"

----------------------------------------------------------------------------
(* The bank's radar: its portfolio, and whom it might lend to.             *)
ACTIVE_LOANS == {"active", "at_risk"}
LOST_LOANS == {"defaulted", "written_off"}

ComputePortfolio(loans, repayments) ==
    LET active == {l \in DOMAIN loans : loans[l].status \in ACTIVE_LOANS}
        lost == {l \in DOMAIN loans : loans[l].status \in LOST_LOANS}
        closed == {l \in DOMAIN loans : loans[l].status = "repaid"}
        paid == {r \in DOMAIN repayments : repayments[r] = "paid"}
        lent == active \cup lost \cup closed
    IN  [activeCount |-> Cardinality(active),
         atRiskCount |-> Cardinality({l \in active : loans[l].status = "at_risk"}),
         disbursedTotal |-> SumUp(LAMBDA l : loans[l].principal, active),
         outstandingTotal |-> SumUp(LAMBDA l : loans[l].outstanding, active),
         repaymentRate |-> IF DOMAIN repayments = {} THEN 0
                           ELSE Nearest(100 * Cardinality(paid), Cardinality(DOMAIN repayments)),
         defaultRate |-> IF lent = {} THEN 0
                         ELSE Nearest(100 * Cardinality(lost), Cardinality(lent))]

FindByRisk(loans, level) ==
    {l \in DOMAIN loans : loans[l].risk = level /\ loans[l].status \in ACTIVE_LOANS}

EstimateMaxLoan(score, weekly) ==
    LET times == IF score >= 80 THEN 4 ELSE IF score >= 70 THEN 2 ELSE 0
    IN  Min({times * Max({weekly, 5000}), 250000})

OPPORTUNITY_SCORE_FLOOR == 70
ComputeOpportunity(loans, people) ==
    LET held == {loans[l].worker : l \in {k \in DOMAIN loans : loans[k].status \in ACTIVE_LOANS}}
    IN  [p \in {q \in DOMAIN people : /\ people[q].eligibility \in {"eligible", "pre_approved"}
                                      /\ people[q].score >= OPPORTUNITY_SCORE_FLOOR
                                      /\ q \notin held} |->
            EstimateMaxLoan(people[p].score, people[p].weekly)]

(* Of the repayments whose day came, those that were paid; and the profile *)
(* of a borrower counts the defaults.                                      *)
OnTimeRepaymentRate(repayments) ==
    LET judged == {r \in DOMAIN repayments : repayments[r] \in {"paid", "missed"}}
    IN  IF judged = {} THEN 0
        ELSE Nearest(100 * Cardinality({r \in judged : repayments[r] = "paid"}),
                     Cardinality(judged))
BorrowerDefaults(loans, p) ==
    Cardinality({l \in DOMAIN loans : loans[l].worker = p /\ loans[l].status \in LOST_LOANS})

(* A page of a list: at most a hundred rows, from a page of at least one.  *)
OffsetFromQuery(page, size) ==
    [page |-> Max({1, page}), size |-> Min({100, Max({1, size})})]
PageRows(total, page, size) ==
    LET q == OffsetFromQuery(page, size)
    IN  (q.page - 1) * q.size + 1 .. Min({q.page * q.size, total})
TotalPages(total, size) == (total + size - 1) \div size

----------------------------------------------------------------------------
PRIOR_JOBS == 5
PRIOR_SCORE == 75

(* A worker's reliability over the window, from its clock-ins and the      *)
(* sessions that ended in it: raw is out of `den`.                         *)
RawReliability(clockIns, onTime, done, disputed, ended) ==
    LET c == Max({1, clockIns})
        e == Max({1, ended})
        time == IF clockIns = 0 THEN c ELSE onTime
        work == IF clockIns = 0 THEN c ELSE done
    IN  [num |-> 40 * time * e + 40 * work * e + 20 * (e - disputed) * c, den |-> c * e]

Reliability(clockIns, onTime, done, disputed, ended) ==
    LET raw == RawReliability(clockIns, onTime, done, disputed, ended)
        score == IF done < PRIOR_JOBS
                 THEN [num |-> done * raw.num + PRIOR_JOBS * PRIOR_SCORE * raw.den,
                       den |-> (done + PRIOR_JOBS) * raw.den]
                 ELSE raw
    IN  Clamp(0, 100, Nearest(score.num, score.den))

----------------------------------------------------------------------------
(* The three copies of the eligibility agree, and the recommendation never *)
(* approves what the credit page does not offer.                           *)
LendingRulesAgree(score, spend, requested) ==
    LET offer == Eligibility(score, spend)
        page == OverviewEligibility(score, spend)
        r == ComputeRecommendation(score, spend, requested)
    IN  /\ page.max = offer.max /\ page.aprPct = offer.apr
        /\ r.decision = "approve" <=> /\ offer.tier # "ineligible"
                                      /\ offer.max > 0 /\ requested <= offer.max
        /\ r.decision = "reject" <=> offer.tier = "ineligible"

(* The credit page of a worker promises what applying grants, and the next *)
(* step it names raises the ceiling.                                       *)
WorkerCreditHonest(score, principal) ==
    LET c == WorkerCredit(score)
        granted == WorkerAsks(score, principal) \in {"approved", "pending"}
    IN  /\ granted <=> c.eligible /\ c.min <= principal /\ principal <= c.max
        /\ c.unlock # Missing => /\ c.unlock > score
                                 /\ NextUnlock(score).max > CeilingFor(score)

(* The newest seven rows of each week are enough for the trend, and the    *)
(* change is against what the trend shows a week back or earlier.          *)
TrendComplete(history, today, score, weeks) ==
    /\ WeeklyTrend(history, today, score, weeks, 7 * weeks)
          = WeeklyTrend(history, today, score, weeks, Cardinality(DOMAIN history))
    /\ ScoreDelta(history, today, score, 7 * weeks)
          = ScoreDelta(history, today, score, Cardinality(DOMAIN history))

(* The month of the newest row shows that row, as the week of it does.     *)
HistoriesAgree(history, monthOf, weeks) ==
    LET day == Max(DOMAIN history)
    IN  /\ ScoreHistory(history, monthOf[day], 3, monthOf, 0)[0] = history[day]
        /\ WeeklyTrend(history, day, 0, weeks, 7 * weeks)[0] = history[day]

(* The weights are those of a mean, and the trends of the page, of the     *)
(* score and of every factor, end with what was captured this week, or     *)
(* with the value the page shows beside them.                              *)
PageConsistent(e, now, history, of, weeks) ==
    LET page == CreditPage(e, now, history, of, weeks)
        captured == \E d \in DOMAIN history : IsoWeek(d) = IsoWeek(now)
    IN  /\ SumUp(LAMBDA f : page.factors[f].weight, DOMAIN page.factors) = 100
        /\ page.trend[0] = IF captured THEN LatestOf(history, DOMAIN history) ELSE page.score
        /\ \A f \in DOMAIN page.factors :
              page.factors[f].trend[0] = IF captured THEN of[f] ELSE page.factors[f].value

(* Every factor is a percentage, the score lies between the lowest and the *)
(* highest, and the weeks leave out nothing that was paid in the ninety    *)
(* days.                                                                   *)
FactorsSound(e, now) ==
    LET v == ComputeFactorValues(e, now)
        weeks == AggregateWeeklyOutflows(e.hires, now - 90, now)
        all == {v[f] : f \in DOMAIN v}
    IN  /\ all \subseteq 0 .. 100
        /\ Min(all) <= ScoreFromFactors(v) /\ ScoreFromFactors(v) <= Max(all)
        /\ SumUp(LAMBDA i : weeks[i], DOMAIN weeks)
              = SumUp(LAMBDA a : e.hires[a].pay,
                      {a \in DOMAIN e.hires : e.hires[a].at \in now - 90 .. now})

(* The three colours split the active loans, the rates are percentages,    *)
(* and nobody who holds a loan, or may have none, is an opportunity.       *)
RadarAgrees(loans, repayments, people) ==
    LET all == ComputePortfolio(loans, repayments)
        leads == ComputeOpportunity(loans, people)
        coloured == [c \in {"green", "yellow", "red"} |-> FindByRisk(loans, c)]
        On(p, L) == {l \in L : loans[l].worker = p}
    IN  /\ SumUp(LAMBDA c : Cardinality(coloured[c]), DOMAIN coloured) = all.activeCount
        /\ all.outstandingTotal <= all.disbursedTotal
        /\ {all.repaymentRate, all.defaultRate, OnTimeRepaymentRate(repayments)}
              \subseteq 0 .. 100
        /\ \A p \in DOMAIN leads : /\ leads[p] > 0
                                   /\ \A c \in DOMAIN coloured : On(p, coloured[c]) = {}
        /\ SumUp(LAMBDA p : BorrowerDefaults(loans, p), DOMAIN people)
              = Cardinality({l \in DOMAIN loans : loans[l].status \in LOST_LOANS})

(* A new worker's score lies between what the work earned and the prior.   *)
SmoothedBetween(clockIns, onTime, done, disputed, ended) ==
    LET raw == RawReliability(clockIns, onTime, done, disputed, ended)
        earned == Clamp(0, 100, Nearest(raw.num, raw.den))
        score == Reliability(clockIns, onTime, done, disputed, ended)
    IN  done < PRIOR_JOBS => /\ Min({earned, PRIOR_SCORE}) <= score
                             /\ score <= Max({Nearest(raw.num, raw.den), PRIOR_SCORE})

(* The pages of a list show every row once.                                *)
PagesPartition(total, size) ==
    LET n == OffsetFromQuery(1, size).size
        last == TotalPages(total, n)
    IN  /\ UNION {PageRows(total, p, size) : p \in 1 .. last} = 1 .. total
        /\ SumUp(LAMBDA p : Cardinality(PageRows(total, p, size)), 1 .. last) = total
        /\ PageRows(total, last + 1, size) = {}
============================================================================
