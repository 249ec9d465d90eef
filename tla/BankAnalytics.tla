--------------------------- MODULE BankAnalytics ---------------------------
(***************************************************************************)
(* The analytics a bank reads about its loans (bank-analytics.service.ts): *)
(* the figures of a window beside those of the window before it, what the  *)
(* change is attributed to, the cohorts by score, by borrower and by       *)
(* status, and the vintage curves.  A book is a function from loans to     *)
(* rows; instants are numbers, and a month has MonthLength of them.  A     *)
(* rate is kept as a ratio, and rounded where the code rounds it.          *)
(***************************************************************************)
EXTENDS Integers, FiniteSets, FiniteSetsExt

CONSTANT MonthLength                    \* instants in a month

ASSUME MonthLengthAssumption == MonthLength \in Nat \ {0}

Total(Amount(_), S) == MapThenSumSet(Amount, S)

(* Math.round, which rounds a half up: also below zero.                    *)
RoundRatio(n, d) == (2 * n + d) \div (2 * d)

Ratio(n, d) == [num |-> n, den |-> IF d = 0 THEN 1 ELSE d]
Difference(r, s) == Ratio(r.num * s.den - s.num * r.den, r.den * s.den)
InBps(r) == RoundRatio(10000 * r.num, r.den)

DISBURSED_STATUSES == {"approved", "active", "at_risk", "repaid", "defaulted", "written_off"}
DEFAULT_STATUSES == {"defaulted", "written_off"}

None == -1                              \* a missing score, term or date

(* The loans a window sees: it holds its start and not its end.            *)
WindowFor(end, days) == [from |-> end - days, to |-> end]
LoansInWindow(book, w) ==
    {l \in DOMAIN book : /\ book[l].status \in DISBURSED_STATUSES
                         /\ book[l].disbursedAt # None
                         /\ w.from <= book[l].disbursedAt /\ book[l].disbursedAt < w.to}

Defaulted(book, L) == {l \in L : book[l].status \in DEFAULT_STATUSES}

(* An average leaves out what is missing, and is 0 when nothing is there.  *)
Average(values) ==
    LET known == {l \in DOMAIN values : values[l] # None}
    IN  Ratio(Total(LAMBDA l : values[l], known), Cardinality(known))

(* Interest on what is repaid, less what the defaulted still owe, and      *)
(* never below 0.  apr is in hundredths.                                   *)
NetYield(book, L) ==
    LET principal == Max({1, Total(LAMBDA l : book[l].principal, L)})
        earned == Total(LAMBDA l : book[l].apr * book[l].principal, L)
                     * (Cardinality(L) - Cardinality(Defaulted(book, L)))
        drag == Total(LAMBDA l : book[l].outstanding, Defaulted(book, L))
    IN  Ratio(Max({0, earned - 100 * drag * Cardinality(L)}), 100 * principal * Cardinality(L))

ComputeMetrics(book, L) ==
    LET n == Cardinality(L)
        lost == Cardinality(Defaulted(book, L))
    IN  [count |-> n,
         principal |-> Total(LAMBDA l : book[l].principal, L),
         repaymentRate |-> Ratio(n - lost, n),
         defaultRate |-> Ratio(lost, n),
         netYield |-> NetYield(book, L),
         avgScore |-> Average([l \in L |-> book[l].score]),
         avgTerm |-> Average([l \in L |-> book[l].term]),
         workerShare |-> Ratio(Cardinality({l \in L : book[l].borrower = "worker"}), n)]

(* The window that ends at asOf, and the one that ends where it starts.    *)
Windows(book, asOf, days) ==
    LET current == WindowFor(asOf, days)
        prior == WindowFor(current.from, days)
    IN  [current |-> LoansInWindow(book, current), prior |-> LoansInWindow(book, prior)]

Compared(cur, pri) ==
    [current |-> cur, priorMetrics |-> pri,
     deltaBps |-> [r \in {"repaymentRate", "defaultRate", "netYield"} |->
                      InBps(Difference(cur[r], pri[r]))]]

Period(book, asOf, days) ==
    LET w == Windows(book, asOf, days)
    IN  Compared(ComputeMetrics(book, w.current), ComputeMetrics(book, w.prior))

(* Nothing is attributed when either window is empty; otherwise the        *)
(* residual takes what the weighted shifts leave of the change.            *)
Weighted(score, term, mix) ==
    [borrower_mix |-> RoundRatio(score.num * 8, score.den),
     approval_gate |-> RoundRatio(Max({0, score.num}) * 6, score.den),
     tenure |-> RoundRatio(-term.num * 4, term.den),
     borrower_type_mix |-> RoundRatio(mix.num * 18, mix.den)]
WithResidual(known, delta) ==
    [k \in DOMAIN known \cup {"residual"} |->
        IF k = "residual" THEN delta - Total(LAMBDA f : known[f], DOMAIN known) ELSE known[k]]

Attribution(cur, pri, delta) ==
    [totalDeltaBps |-> delta,
     factors |-> IF cur.count = 0 \/ pri.count = 0 THEN << >>
                 ELSE WithResidual(Weighted(Difference(cur.avgScore, pri.avgScore),
                                            Difference(cur.avgTerm, pri.avgTerm),
                                            Difference(cur.workerShare, pri.workerShare)),
                                   delta)]

----------------------------------------------------------------------------
SCORE_BANDS == {<<90, 100>>, <<80, 89>>, <<70, 79>>, <<60, 69>>}

Cohort(book, L) ==
    [count |-> Cardinality(L),
     principal |-> Total(LAMBDA l : book[l].principal, L),
     defaulted |-> Cardinality(Defaulted(book, L)),
     repaid |-> Cardinality({l \in L : book[l].status = "repaid"}),
     defaultRate |-> Ratio(Cardinality(Defaulted(book, L)), Cardinality(L))]

(* All four bands and both kinds of borrower are there even when empty; a  *)
(* status is there only when a loan has it.                                *)
Cohorts(book, asOf, days) ==
    LET L == LoansInWindow(book, WindowFor(asOf, days))
    IN  [byScoreBand |-> [b \in SCORE_BANDS |->
            Cohort(book, {l \in L : book[l].score # None
                                    /\ b[1] <= book[l].score /\ book[l].score <= b[2]})],
         byBorrowerType |-> [t \in {"worker", "business"} |->
            Cohort(book, {l \in L : book[l].borrower = t})],
         statusBreakdown |-> [s \in {book[l].status : l \in L} |->
            Cohort(book, {l \in L : book[l].status = s})]]

----------------------------------------------------------------------------
MonthOf(at) == at \div MonthLength
FirstOf(month) == month * MonthLength

(* The bucket n periods before the one an instant is in: a quarter is the  *)
(* three months from a multiple of three, and a year has four of them.     *)
BucketFor(at, n, granularity) ==
    LET total == (MonthOf(at) \div 3) - n
        year == total \div 4
        quarter == ((total % 4) + 4) % 4
        first == 12 * year + 3 * quarter
        month == MonthOf(at) - n
    IN  IF granularity = "quarter"
        THEN [from |-> FirstOf(first), to |-> FirstOf(first + 3)]
        ELSE [from |-> FirstOf(month), to |-> FirstOf(month + 1)]

MonthsBetween(from, to) == MonthOf(to) - MonthOf(from)

(* Row m of a curve: what the cohort's defaulted loans of at least m       *)
(* months still owe, over what the cohort was lent.  A cohort without a    *)
(* loan has no curve.                                                      *)
VintageCurves(book, now, horizon, count, granularity) ==
    LET bounds == [i \in 0 .. count - 1 |-> BucketFor(now, i, granularity)]
        oldest == bounds[count - 1].from
        loans == LoansInWindow(book, [from |-> oldest, to |-> now + 1])
        In(i) == {l \in loans : /\ bounds[i].from <= book[l].disbursedAt
                                /\ book[l].disbursedAt < bounds[i].to}
        Owed(i, m) == Total(LAMBDA l : book[l].outstanding,
                            {l \in Defaulted(book, In(i)) :
                                MonthsBetween(book[l].disbursedAt, now) >= m})
    IN  [i \in {j \in DOMAIN bounds : In(j) # {}} |->
            [m \in 0 .. horizon |->
                Ratio(Owed(i, m), Total(LAMBDA l : book[l].principal, In(i)))]]

----------------------------------------------------------------------------
Leq(r, s) == r.num * s.den <= s.num * r.den

(* The figures of one window agree: the two rates make one, both kinds of  *)
(* borrower and all the statuses split the same loans and the same money,  *)
(* and no band counts a loan twice.                                        *)
SumOf(of, f) == Total(LAMBDA k : of[k][f], DOMAIN of)
SplitAgrees(c, all) ==
    /\ \A f \in {"count", "principal"} :
          /\ SumOf(c.byBorrowerType, f) = all[f]
          /\ SumOf(c.statusBreakdown, f) = all[f]
          /\ SumOf(c.byScoreBand, f) <= all[f]
    /\ all.count > 0 =>
          /\ InBps(all.repaymentRate) + InBps(all.defaultRate) \in {10000, 10001}
          /\ SumOf(c.byBorrowerType, "defaulted") * all.defaultRate.den
                = all.defaultRate.num * all.count
CohortsAgree(book, asOf, days) ==
    SplitAgrees(Cohorts(book, asOf, days), Period(book, asOf, days).current)

(* What the change is attributed to adds up to the change.                 *)
AddsUp(a) == a.factors # << >> =>
                Total(LAMBDA k : a.factors[k], DOMAIN a.factors) = a.totalDeltaBps
AttributionAddsUp(book, asOf, days) ==
    LET Of(p) == Attribution(p.current, p.priorMetrics, p.deltaBps.repaymentRate)
    IN  AddsUp(Of(Period(book, asOf, days)))

(* Consecutive buckets adjoin, over the ends of years too, and the newest  *)
(* holds the instant; so the curves leave out no loan disbursed since the  *)
(* oldest began.  A curve never rises.                                     *)
CurvesCover(book, now, horizon, count, granularity) ==
    LET B(i) == BucketFor(now, i, granularity)
        Falls(v) == \A i \in DOMAIN v :
            /\ \A m \in 1 .. horizon : Leq(v[i][m], v[i][m - 1])
            /\ Leq(v[i][0], Ratio(1, 1))
    IN  /\ B(0).from <= now /\ now < B(0).to
        /\ \A i \in 0 .. count - 2 : B(i + 1).to = B(i).from
        /\ Falls(VintageCurves(book, now, horizon, count, granularity))
============================================================================
