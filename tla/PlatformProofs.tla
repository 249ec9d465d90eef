---------------------------- MODULE PlatformProofs ----------------------------
(***************************************************************************)
(* The platform keeps what each of its components keeps: a step of it is a *)
(* step of one component and leaves the others alone.                      *)
(***************************************************************************)
EXTENDS MCPlatform, LendingProofs, DashboardProofs, WorkerProofs

PlatformInv ==
    /\ LendTypeOK /\ AuthInv /\ TeamInv /\ SessionsInv /\ MessagesInv /\ RatingsInv
    /\ PushInv /\ RemindInv /\ AccountsInv /\ ListsInv /\ RecalcInv /\ ProfileInv
    /\ AssistInv /\ StreamInv /\ SettingsInv

LEMMA PlatformInvInit == PlatformInit => PlatformInv
<1>1. PlatformInit => /\ LendInit /\ AuthInit /\ TeamInit /\ SessionsInit /\ PushInit
                      /\ RatingsInit /\ FeedInit /\ RemindersInit /\ AccountsInit /\ ListsInit
                      /\ RecalcInit /\ ProfileInit /\ AssistInit /\ StreamInit /\ SettingsInit
  BY DEF PlatformInit
<1> QED
  BY <1>1, LendTypeInit, AuthInvInit, TeamInvInit, SessionsInvInit, MessagesInvInit,
     RatingsInvInit, PushInvInit, RemindInvInit, AccountsInvInit, ListsInvInit, RecalcInvInit,
     ProfileInvInit, AssistInvInit, StreamInvInit, SettingsInvInit DEF PlatformInv

LEMMA PlatformMoves ==
  [PlatformNext]_platformVars =>
     /\ [LendNext]_lendVars /\ [AuthNext]_authVars /\ [TeamNext]_teamVars
     /\ [SessionsNext]_sessionVars /\ [PushNext]_pushVars /\ [RatingsNext]_ratingVars
     /\ [FeedNext]_feedVars /\ [RemindersNext]_reminderVars /\ [AccountsNext]_accountVars
     /\ [ListsNext]_ledgerVars /\ [RecalcNext]_recalcVars /\ [ProfileNext]_profileVars
     /\ [AssistNext]_assistVars /\ [StreamNext]_streamVars /\ [SettingsNext]_settingsVars
     /\ UNCHANGED <<part, probe>>
<1>1. ASSUME UNCHANGED platformVars
      PROVE  UNCHANGED <<part, probe, lendVars, authVars, teamVars, sessionVars, pushVars,
                         ratingVars, feedVars, reminderVars, accountVars, ledgerVars,
                         recalcVars, profileVars, assistVars, streamVars, settingsVars>>
  BY <1>1 DEF platformVars
<1> QED
  BY <1>1 DEF PlatformNext

LEMMA PlatformInvStep == PlatformInv /\ [PlatformNext]_platformVars => PlatformInv'
  BY PlatformMoves, LendTypeStep, AuthInvStep, TeamInvStep, SessionsInvStep, MessagesInvStep,
     RatingsInvStep, PushInvStep, RemindInvStep, AccountsInvStep, ListsInvStep, RecalcInvStep,
     ProfileInvStep, AssistInvStep, StreamInvStep, SettingsInvStep DEF PlatformInv

LEMMA PlatformKeeps == PlatformSpec => []PlatformInv
  BY PlatformInvInit, PlatformInvStep, PTL DEF PlatformSpec

(* What is answered, counted or stored by any of the components is one of the values
   the code can put there (schema.prisma): for any people, devices, jobs and requests. *)
THEOREM PlatformTypeCorrect == PlatformSpec => []PlatformTypeOK
<1>1. PlatformInv => PlatformTypeOK
  <2> SUFFICES ASSUME PlatformInv PROVE PlatformTypeOK
    OBVIOUS
  <2>1. LendTypeOK /\ AuthTypeOK /\ TeamTypeOK /\ SessionsTypeOK /\ RatingsTypeOK
    BY DEF PlatformInv, AuthInv, TeamInv, SessionsInv, RatingsInv
  <2>2. PushTypeOK /\ ListsTypeOK /\ ProfileTypeOK /\ SettingsTypeOK
    BY MessagesInvKeeps, ListsInvKeeps, ProfileInvKeeps, SettingsInvKeeps DEF PlatformInv
  <2>3. FeedTypeOK /\ RemindersTypeOK /\ AccountsTypeOK /\ RecalcTypeOK /\ AssistTypeOK
    BY DEF PlatformInv, PushInv, RemindInv, AccountsInv, RecalcInv, AssistInv
  <2>4. StreamTypeOK
    BY DEF PlatformInv, StreamInv, HandlersTell, HandlerRow, TabRow, StreamTypeOK
  <2> QED
    BY <2>1, <2>2, <2>3, <2>4 DEF PlatformTypeOK
<1> QED
  BY <1>1, PlatformKeeps, PTL

(* Every business keeps one owner, whoever acts on stale claims of a token
   (team.service.ts:171), and its settings are those its owners last asked for
   (settings.service.ts:43): for any number of people, businesses and requests. *)
THEOREM BusinessesAreKept == PlatformSpec => []BusinessKept
<1>1. PlatformInv => BusinessKept
  BY TeamInvKeeps, SettingsInvKeeps DEF PlatformInv, BusinessKept
<1> QED
  BY <1>1, PlatformKeeps, PTL

(* A code lets in no more calls than were compared when it ran out
   (auth.service.ts:177), a worker's number is one it had the code of
   (me.service.ts:192), and its photograph is its own (me.service.ts:61): for any
   number of workers, codes, numbers, uploads and requests. *)
THEOREM CodesAlwaysProve == PlatformSpec => []CodesProve
<1>1. PlatformInv => CodesProve
  BY AuthInvKeeps, ProfileInvKeeps DEF PlatformInv, CodesProve
<1> QED
  BY <1>1, PlatformKeeps, PTL

(* A worker is told of no more jobs in an hour than the limit and the readings
   that crossed (employer-jobs.service.ts:1442), each nudge of the crons reaches
   those it is for once (rate-reminder.cron.ts:9), and a worker opens no more
   tickets in a day than the limit and the calls that crossed
   (help.service.ts:36): for any number of postings, workers and calls. *)
THEOREM LimitsAlwaysHold == PlatformSpec => []LimitsHold
<1>1. PlatformInv => LimitsHold
  BY PushInvKeeps, RemindInvKeeps, AssistInvKeeps DEF PlatformInv, LimitsHold
<1> QED
  BY <1>1, PlatformKeeps, PTL

(* A message removes no row of a device but a dead one or one registered meanwhile
   (push-notification.service.ts:234 and 310), and a code arrives if any channel it
   may take is up (otp-channel.service.ts:146): for any number of devices, tokens and
   messages that cross. *)
THEOREM MessagesAlwaysReach == PlatformSpec => MessagesReach
<1>1. PlatformInv => CodeReaches
  BY MessagesInvKeeps DEF PlatformInv
<1>2. PlatformInv => [\A m \in Push : push[m].at = "prune" /\ push'[m].at # "prune" =>
         \A r \in Pruned(m) : r.token # installed[r.device] \/ r.id \in rewritten]_pushVars
  BY MessagesInvKeeps DEF PlatformInv
<1> QED
  BY <1>1, <1>2, PlatformKeeps, PTL DEF MessagesReach, PrunedWasDead

----------------------------------------------------------------------------
(* Figures that are arithmetic: they hold of every number, whatever runs.   *)

\* The larger and the smaller of two numbers.
LEMMA MaxOfTwo ==
  ASSUME NEW a \in Int, NEW b \in Int
  PROVE  Max({a, b}) = IF a >= b THEN a ELSE b
<1>1. PICK m \in {a, b} : \A y \in {a, b} : m >= y
  OBVIOUS
<1>2. Max({a, b}) \in {a, b} /\ \A y \in {a, b} : Max({a, b}) >= y
  BY <1>1, Zenon DEF Max
<1> HIDE DEF Max
<1> QED
  BY <1>2

LEMMA MinOfTwo ==
  ASSUME NEW a \in Int, NEW b \in Int
  PROVE  Min({a, b}) = IF a <= b THEN a ELSE b
<1>1. PICK m \in {a, b} : \A y \in {a, b} : m <= y
  OBVIOUS
<1>2. Min({a, b}) \in {a, b} /\ \A y \in {a, b} : Min({a, b}) <= y
  BY <1>1, Zenon DEF Min
<1> QED
  BY <1>2

LEMMA SpendIsNatural == \A spend \in Int : MonthlySpend(spend) \in Nat
<1> TAKE spend \in Int
<1>1. Nearest(spend, 12) \in Int
  BY DEF Nearest
<1> QED
  BY <1>1, MaxOfTwo DEF MonthlySpend

(* The overview of an employer shows the limit and the rate of its credit page, and the
   bank's recommendation approves exactly what that page offers: the three copies of the
   rule agree for every score, spend and amount (employer-credit.service.ts,
   overview.service.ts, employer-loan-applications.service.ts). *)
THEOREM OffersAgree ==
  \A score, spend, requested \in Int : LendingRulesAgree(score, spend, requested)
<1> TAKE score, spend, requested \in Int
<1> DEFINE m == MonthlySpend(spend)
           three == Min({m * 3, 5000000})
           two == Min({m * 2, 2000000})
<1>1. m \in Nat
  BY SpendIsNatural
<1>2. three \in Nat /\ two \in Nat
  <2> HIDE DEF m
  <2>1. m * 3 \in Nat /\ m * 2 \in Nat
    BY <1>1
  <2> QED
    BY <2>1, MinOfTwo
<1>3. Eligibility(score, spend) =
        IF score >= 80 THEN [tier |-> "pre_approved", max |-> three, apr |-> 12]
        ELSE IF score >= 70 THEN [tier |-> "eligible", max |-> two, apr |-> 14]
        ELSE [tier |-> "ineligible", max |-> 0, apr |-> 0]
  <2>1. CASE score >= 80
    BY <2>1 DEF Eligibility
  <2>2. CASE score >= 70 /\ score < 80
    BY <2>2 DEF Eligibility
  <2>3. CASE score < 70
    BY <2>3 DEF Eligibility
  <2> QED
    BY <2>1, <2>2, <2>3
<1>4. OverviewEligibility(score, spend) =
        IF score >= 80 THEN [max |-> three, aprPct |-> 12]
        ELSE IF score >= 70 THEN [max |-> two, aprPct |-> 14]
        ELSE [max |-> 0, aprPct |-> 0]
  BY DEF OverviewEligibility
<1>5. ComputeRecommendation(score, spend, requested) =
        LET max == IF score >= 80 THEN three ELSE two
        IN  IF score < 70 THEN [decision |-> "reject", confidence |-> 90]
            ELSE IF requested > max /\ max > 0 THEN [decision |-> "review", confidence |-> 60]
            ELSE IF max = 0 THEN [decision |-> "review", confidence |-> 55]
            ELSE [decision |-> "approve",
                  confidence |-> IF score >= 90 THEN 95 ELSE IF score >= 80 THEN 88 ELSE 76]
  BY DEF ComputeRecommendation
<1> HIDE DEF three, two
<1>6. CASE score >= 80
  <2>1. Eligibility(score, spend) = [tier |-> "pre_approved", max |-> three, apr |-> 12]
    BY <1>3, <1>6
  <2>2. OverviewEligibility(score, spend) = [max |-> three, aprPct |-> 12]
    BY <1>4, <1>6
  <2>3. /\ ComputeRecommendation(score, spend, requested).decision = "approve"
              <=> three > 0 /\ requested <= three
        /\ ComputeRecommendation(score, spend, requested).decision # "reject"
    BY <1>2, <1>5, <1>6
  <2> QED
    BY <1>2, <2>1, <2>2, <2>3 DEF LendingRulesAgree
<1>7. CASE score >= 70 /\ score < 80
  <2>1. Eligibility(score, spend) = [tier |-> "eligible", max |-> two, apr |-> 14]
    BY <1>3, <1>7
  <2>2. OverviewEligibility(score, spend) = [max |-> two, aprPct |-> 14]
    BY <1>4, <1>7
  <2>3. /\ ComputeRecommendation(score, spend, requested).decision = "approve"
              <=> two > 0 /\ requested <= two
        /\ ComputeRecommendation(score, spend, requested).decision # "reject"
    BY <1>2, <1>5, <1>7
  <2> QED
    BY <1>2, <2>1, <2>2, <2>3 DEF LendingRulesAgree
<1>8. CASE score < 70
  <2>1. Eligibility(score, spend) = [tier |-> "ineligible", max |-> 0, apr |-> 0]
    BY <1>3, <1>8
  <2>2. OverviewEligibility(score, spend) = [max |-> 0, aprPct |-> 0]
    BY <1>4, <1>8
  <2>3. ComputeRecommendation(score, spend, requested).decision = "reject"
    BY <1>2, <1>5, <1>8
  <2> QED
    BY <1>2, <2>1, <2>2, <2>3 DEF LendingRulesAgree
<1> QED
  BY <1>6, <1>7, <1>8

(* A worker is granted exactly what its credit page offers, and the next step it names is
   above its score and raises its ceiling, for every score and amount (loans.service.ts). *)
THEOREM CreditIsHonest ==
  \A score, principal \in Int : WorkerCreditHonest(score, principal)
<1> TAKE score, principal \in Int
<1> DEFINE c == WorkerCredit(score)
           target == IF score >= 70 THEN 80 ELSE IF score >= 60 THEN 70 ELSE 60
<1>1. NextUnlock(score).target = target /\ NextUnlock(score).max = CeilingFor(target)
  BY DEF NextUnlock
<1>2. /\ c.eligible <=> score >= 60
      /\ score >= 60 => c.max = CeilingFor(score) /\ c.min = 5000
      /\ c.unlock = IF score >= 80 THEN Missing ELSE target
  <2>1. c.eligible = (score >= 60)
    BY Zenon DEF WorkerCredit
  <2>2. /\ c.max = IF score >= 60 THEN CeilingFor(score) ELSE 0
        /\ c.min = IF score >= 60 THEN 5000 ELSE 0
        /\ c.unlock = IF TierFor(score) = "excellent" THEN Missing ELSE NextUnlock(score).target
    BY Zenon DEF WorkerCredit
  <2>3. c.eligible <=> score >= 60
    BY <2>1, Zenon
  <2>4. TierFor(score) = "excellent" <=> score >= 80
    BY DEF TierFor
  <2> HIDE DEF c
  <2> QED
    BY <1>1, <2>2, <2>3, <2>4
<1>3. WorkerAsks(score, principal) \in {"approved", "pending"}
        <=> score >= 60 /\ 5000 <= principal /\ principal <= CeilingFor(score)
  BY DEF WorkerAsks, CeilingFor
<1>4. score < 80 => target > score /\ CeilingFor(target) > CeilingFor(score)
  BY DEF CeilingFor
<1>5. c.unlock # Missing => score < 80
  BY <1>2
<1> HIDE DEF target, c
<1>6. c.unlock # Missing => c.unlock > score /\ NextUnlock(score).max > CeilingFor(score)
  BY <1>1, <1>2, <1>4, <1>5
<1>7. WorkerAsks(score, principal) \in {"approved", "pending"}
        <=> c.eligible /\ c.min <= principal /\ principal <= c.max
  BY <1>2, <1>3
<1> QED
  BY <1>6, <1>7 DEF WorkerCreditHonest, c

\* Rounding to the nearest is a division with remainder.
LEMMA NearestIs ==
  ASSUME NEW n \in Int, NEW d \in Nat \ {0}, NEW q \in Int
  PROVE  Nearest(n, d) \in Int
         /\ (Nearest(n, d) >= q <=> 2 * n + d >= q * (2 * d))
<1> DEFINE a == 2 * n + d
           b == 2 * d
           k == a \div b
<1>1. a \in Int /\ b \in Nat \ {0}
  OBVIOUS
<1>2. k \in Int /\ b * k <= a /\ a < b * k + b
  <2> HIDE DEF a, b
  <2>1. k \in Int /\ a % b \in 0 .. (b - 1) /\ a = b * k + (a % b)
    BY <1>1
  <2>2. b * k \in Int
    BY <1>1, <2>1
  <2> QED
    BY <1>1, <2>1, <2>2
<1>3. k >= q => a >= q * b
  <2> HIDE DEF a, b, k
  <2> SUFFICES ASSUME k >= q PROVE a >= q * b
    OBVIOUS
  <2>1. b * k >= b * q
    BY <1>1, <1>2
  <2> QED
    BY <1>1, <1>2, <2>1
<1>4. k < q => a < q * b
  <2> HIDE DEF a, b, k
  <2> SUFFICES ASSUME k < q PROVE a < q * b
    OBVIOUS
  <2>1. k + 1 <= q
    BY <1>2
  <2>2. b * (k + 1) <= b * q
    BY <1>1, <1>2, <2>1
  <2>3. b * (k + 1) = b * k + b
    BY <1>1, <1>2
  <2> QED
    BY <1>1, <1>2, <2>2, <2>3
<1>5. Nearest(n, d) = k
  BY DEF Nearest
<1> HIDE DEF k
<1> QED
  BY <1>2, <1>3, <1>4, <1>5

\* The mean of k parts that round to n / d and of five parts 75 is between the two.
LEMMA MeanBetween ==
  ASSUME NEW n \in Int, NEW d \in Nat \ {0}, NEW k \in Nat, NEW q \in Int,
         NEW mean, mean = Nearest(k * n + 375 * d, (k + 5) * d)
  PROVE  /\ mean \in Int
         /\ Nearest(n, d) >= q /\ 75 >= q => mean >= q
         /\ Nearest(n, d) < q /\ 75 < q => mean < q
<1> DEFINE N == k * n + 375 * d
           D == (k + 5) * d
           a == 2 * n + d
           b == q * (2 * d)
<1>1. N \in Int /\ D \in Nat \ {0} /\ a \in Int /\ b \in Int
  <2>1. k * n \in Int /\ 375 * d \in Int
    OBVIOUS
  <2>2. k + 5 > 0 /\ d > 0 => (k + 5) * d > 0
    OBVIOUS
  <2> QED
    BY <2>1, <2>2
<1>2. Nearest(N, D) \in Int /\ (Nearest(N, D) >= q <=> 2 * N + D >= q * (2 * D))
  <2> HIDE DEF N, D
  <2> QED
    BY <1>1, NearestIs
<1>3. Nearest(n, d) \in Int /\ (Nearest(n, d) >= q <=> a >= b)
  BY NearestIs
<1>4. 2 * N + D = k * a + 5 * (151 * d)
  OBVIOUS
<1>5. q * (2 * D) = k * b + 5 * b
  OBVIOUS
<1>6. k * a \in Int /\ k * b \in Int /\ (a >= b => k * a >= k * b) /\ (a < b => k * a <= k * b)
  <2> HIDE DEF a, b
  <2> QED
    BY <1>1
<1>7. (q <= 75 => b <= 151 * d) /\ (q >= 76 => b > 151 * d)
  <2>1. q <= 75 => q * d <= 75 * d
    OBVIOUS
  <2>2. q >= 76 => q * d >= 76 * d
    OBVIOUS
  <2>3. b = 2 * (q * d) /\ q * d \in Int
    OBVIOUS
  <2> HIDE DEF b
  <2> QED
    BY <2>1, <2>2, <2>3
<1> HIDE DEF N, D, a, b
<1>8. Nearest(n, d) >= q /\ 75 >= q => Nearest(N, D) >= q
  BY <1>1, <1>2, <1>3, <1>4, <1>5, <1>6, <1>7
<1>9. Nearest(n, d) < q /\ 75 < q => Nearest(N, D) < q
  BY <1>1, <1>2, <1>3, <1>4, <1>5, <1>6, <1>7
<1>10. mean = Nearest(N, D)
  BY DEF N, D
<1> QED
  BY <1>2, <1>8, <1>9, <1>10

LEMMA ClampIs ==
  ASSUME NEW n \in Int
  PROVE  Clamp(0, 100, n) = IF n > 100 THEN 100 ELSE IF n < 0 THEN 0 ELSE n
<1>1. Min({100, n}) = IF 100 <= n THEN 100 ELSE n
  BY MinOfTwo
<1>2. Min({100, n}) \in Int
  BY <1>1
<1>3. Max({0, Min({100, n})}) = IF 0 >= Min({100, n}) THEN 0 ELSE Min({100, n})
  BY <1>2, MaxOfTwo
<1> QED
  BY <1>1, <1>3 DEF Clamp

(* The score of a worker with few jobs lies between what its work earned and the prior,
   whatever the counts (reliability-recompute.cron.ts). *)
THEOREM PriorPullsIn ==
  \A clockIns, onTime, disputed, ended \in Int, done \in Nat :
      SmoothedBetween(clockIns, onTime, done, disputed, ended)
<1> TAKE clockIns, onTime, disputed, ended \in Int, done \in Nat
<1> DEFINE raw == RawReliability(clockIns, onTime, done, disputed, ended)
           r == Nearest(raw.num, raw.den)
           mean == Nearest(done * raw.num + 375 * raw.den, (done + 5) * raw.den)
<1>1. raw.num \in Int /\ raw.den \in Nat \ {0}
  <2> DEFINE c == Max({1, clockIns})
             e == Max({1, ended})
             time == IF clockIns = 0 THEN c ELSE onTime
             work == IF clockIns = 0 THEN c ELSE done
  <2>1. c \in Nat \ {0} /\ e \in Nat \ {0}
    BY MaxOfTwo
  <2>2. time \in Int /\ work \in Int
    BY <2>1
  <2>3. raw = [num |-> 40 * time * e + 40 * work * e + 20 * (e - disputed) * c, den |-> c * e]
    BY Zenon DEF RawReliability
  <2>4. /\ raw.num = 40 * time * e + 40 * work * e + 20 * (e - disputed) * c
        /\ raw.den = c * e
    BY <2>3
  <2> HIDE DEF c, e, time, work, raw
  <2>5. 40 * time * e \in Int /\ 40 * work * e \in Int /\ 20 * (e - disputed) * c \in Int
    BY <2>1, <2>2
  <2>6. c * e \in Nat \ {0}
    BY <2>1
  <2> QED
    BY <2>4, <2>5, <2>6
<1> SUFFICES ASSUME done < 5
             PROVE  /\ Min({Clamp(0, 100, r), 75}) <= Clamp(0, 100, mean)
                    /\ Clamp(0, 100, mean) <= Max({r, 75})
  <2>1. Reliability(clockIns, onTime, done, disputed, ended) = Clamp(0, 100, mean) \/ done >= 5
    <3>1. CASE done < 5
      <4> DEFINE score == [num |-> done * raw.num + 5 * 75 * raw.den,
                           den |-> (done + 5) * raw.den]
      <4>1. Reliability(clockIns, onTime, done, disputed, ended)
              = Clamp(0, 100, Nearest(score.num, score.den))
        BY <3>1 DEF Reliability, PRIOR_JOBS, PRIOR_SCORE
      <4>2. 5 * 75 = 375
        OBVIOUS
      <4>3. score.num = done * raw.num + 375 * raw.den /\ score.den = (done + 5) * raw.den
        BY <4>2
      <4> QED
        BY <4>1, <4>3
    <3> QED
      BY <3>1
  <2> QED
    BY <2>1 DEF SmoothedBetween, PRIOR_JOBS, PRIOR_SCORE
<1> HIDE DEF raw
<1>2. /\ r \in Int /\ mean \in Int
      /\ \A q \in Int : /\ r >= q /\ 75 >= q => mean >= q
                        /\ r < q /\ 75 < q => mean < q
  <2> DEFINE n == raw.num
             d == raw.den
  <2>1. n \in Int /\ d \in Nat \ {0}
    BY <1>1, Zenon
  <2> HIDE DEF n, d
  <2>2. Nearest(n, d) \in Int
    BY <2>1, NearestIs, Zenon
  <2>3. \A m : m = Nearest(done * n + 375 * d, (done + 5) * d) =>
          \A q \in Int : /\ m \in Int
                         /\ Nearest(n, d) >= q /\ 75 >= q => m >= q
                         /\ Nearest(n, d) < q /\ 75 < q => m < q
    BY <2>1, MeanBetween, Zenon
  <2>4. 0 \in Int
    OBVIOUS
  <2> QED
    BY <2>2, <2>3, <2>4, Zenon DEF n, d
<1> HIDE DEF r, mean
<1>3. \A q \in Int : /\ r >= q /\ 75 >= q => mean >= q
                     /\ r < q /\ 75 < q => mean < q
  BY <1>2, Zenon
<1>4. \/ mean >= r /\ r <= 75
      \/ mean >= 75
  <2>1. CASE r <= 75
    BY <1>2, <1>3, <2>1
  <2>2. CASE r > 75
    BY <1>2, <1>3, <2>2
  <2> QED
    BY <1>2, <2>1, <2>2
<1>5. mean <= r \/ mean <= 75
  <2> DEFINE top == IF r >= 75 THEN r + 1 ELSE 76
  <2>1. top \in Int /\ r < top /\ 75 < top
    BY <1>2
  <2>2. mean < top
    BY <1>3, <2>1
  <2> QED
    BY <1>2, <2>2
<1>6. Clamp(0, 100, r) \in Int /\ Clamp(0, 100, mean) \in Int
  BY <1>2, ClampIs
<1>7. /\ Min({Clamp(0, 100, r), 75}) = IF Clamp(0, 100, r) <= 75 THEN Clamp(0, 100, r) ELSE 75
      /\ Max({r, 75}) = IF r >= 75 THEN r ELSE 75
  BY <1>2, <1>6, MinOfTwo, MaxOfTwo
<1> QED
  BY <1>2, <1>4, <1>5, <1>7, ClampIs

\* Division with remainder.
LEMMA Dividing ==
  ASSUME NEW a \in Int, NEW b \in Nat \ {0}
  PROVE  a \div b \in Int /\ b * (a \div b) <= a /\ a < b * (a \div b) + b
<1>1. a \div b \in Int /\ a % b \in 0 .. (b - 1) /\ a = b * (a \div b) + (a % b)
  OBVIOUS
<1>2. b * (a \div b) \in Int
  BY <1>1
<1> QED
  BY <1>1, <1>2

\* What is on a page of n rows.
LEMMA PageIs ==
  ASSUME NEW total \in Nat, NEW size \in Int, NEW n, n = OffsetFromQuery(1, size).size,
         NEW p \in Nat \ {0}
  PROVE  /\ n \in Nat \ {0}
         /\ PageRows(total, p, size) = (p - 1) * n + 1 .. IF p * n <= total THEN p * n ELSE total
<1>1. Max({1, size}) \in Nat \ {0}
  BY MaxOfTwo
<1>2. Min({100, Max({1, size})}) \in Nat \ {0}
  <2>1. PICK m : m = Max({1, size})
    OBVIOUS
  <2>2. m \in Nat \ {0}
    BY <1>1, <2>1
  <2>3. Min({100, m}) \in Nat \ {0}
    BY <2>2, MinOfTwo
  <2> QED
    BY <2>1, <2>3
<1>3. n = Min({100, Max({1, size})})
  BY DEF OffsetFromQuery
<1>4. OffsetFromQuery(p, size) = [page |-> p, size |-> n]
  <2>1. Max({1, p}) = p
    BY MaxOfTwo
  <2> QED
    BY <1>3, <2>1 DEF OffsetFromQuery
<1>5. n \in Nat \ {0} /\ p * n \in Int
  BY <1>2, <1>3
<1>6. Min({p * n, total}) = IF p * n <= total THEN p * n ELSE total
  BY <1>5, MinOfTwo
<1>7. PageRows(total, p, size) = (p - 1) * n + 1 .. Min({p * n, total})
  BY <1>4 DEF PageRows
<1> QED
  BY <1>5, <1>6, <1>7

\* The last page is the last one that begins before the end of the list.
LEMMA LastPage ==
  ASSUME NEW total \in Nat, NEW n \in Nat \ {0}
  PROVE  LET last == TotalPages(total, n)
         IN  /\ last \in Nat /\ total <= last * n
             /\ \A p \in Int : p <= last => (p - 1) * n < total
             /\ \A p \in Int : (p - 1) * n < total => p <= last
<1> DEFINE a == total + n - 1
           last == a \div n
<1>1. a \in Nat
  OBVIOUS
<1>2. last \in Int /\ n * last <= a /\ a < n * last + n
  BY <1>1, Dividing
<1>3. last = TotalPages(total, n)
  BY DEF TotalPages
<1> HIDE DEF last
<1>4. total <= last * n /\ last * n <= total + n - 1 /\ last * n \in Int
  BY <1>2
<1>5. last >= 0
  <2>1. last <= -1 => last * n <= (-1) * n
    BY <1>2
  <2> QED
    BY <1>2, <1>4, <2>1
<1>6. ASSUME NEW p \in Int, p <= last PROVE (p - 1) * n < total
  <2>1. (p - 1) * n <= (last - 1) * n
    BY <1>2, <1>6
  <2>2. (last - 1) * n = last * n - n
    BY <1>2
  <2> QED
    BY <1>4, <2>1, <2>2
<1>7. ASSUME NEW p \in Int, (p - 1) * n < total PROVE p <= last
  <2> SUFFICES ASSUME p - 1 >= last PROVE FALSE
    BY <1>2
  <2>1. (p - 1) * n >= last * n
    BY <1>2
  <2> QED
    BY <1>4, <1>7, <2>1
<1> QED
  BY <1>2, <1>3, <1>4, <1>5, <1>6, <1>7

(* The pages of a list show each of its rows once, and the page after the last is empty,
   for every number of rows and every page size asked for (common/pagination/offset.dto.ts). *)
THEOREM PagesShowAll == \A total \in Nat, size \in Int : PagesPartition(total, size)
<1> TAKE total \in Nat, size \in Int
<1> DEFINE n == OffsetFromQuery(1, size).size
           last == TotalPages(total, n)
           OnPage(p) == PageRows(total, p, size)
           count == [p \in 1 .. last |-> Cardinality(OnPage(p))]
           UpTo(k) == IF k * n <= total THEN k * n ELSE total
<1>1. /\ n \in Nat \ {0}
      /\ \A p \in Nat \ {0} : OnPage(p) = (p - 1) * n + 1 .. UpTo(p)
  BY PageIs
<1>2. /\ last \in Nat /\ total <= last * n
      /\ \A p \in Int : p <= last => (p - 1) * n < total
      /\ \A p \in Int : (p - 1) * n < total => p <= last
  BY <1>1, LastPage
<1> HIDE DEF n, last, OnPage
<1>3. \A k \in Int : k * n \in Int /\ UpTo(k) \in Int /\ UpTo(k) <= total
  BY <1>1
<1>4. UNION {OnPage(p) : p \in 1 .. last} = 1 .. total
  <2>1. ASSUME NEW p \in 1 .. last PROVE OnPage(p) \subseteq 1 .. total
    <3>1. p \in Nat \ {0} /\ (p - 1) * n \in Nat
      BY <1>1, <1>2
    <3>2. OnPage(p) = (p - 1) * n + 1 .. UpTo(p)
      BY <1>1, <3>1
    <3> DEFINE a == (p - 1) * n
               b == UpTo(p)
    <3>3. a \in Nat /\ b \in Int /\ b <= total /\ OnPage(p) = a + 1 .. b
      BY <1>3, <3>1, <3>2
    <3> HIDE DEF a, b
    <3>4. a + 1 .. b \subseteq 1 .. total
      BY <3>3
    <3> QED
      BY <3>3, <3>4, Zenon
  <2>2. ASSUME NEW r \in 1 .. total PROVE \E p \in 1 .. last : r \in OnPage(p)
    <3> DEFINE q == (r - 1) \div n
    <3>1. r \in Nat /\ r - 1 \in Nat /\ r <= total
      OBVIOUS
    <3>2. q \in Int /\ n * q <= r - 1 /\ r - 1 < n * q + n /\ n * q \in Int
      <4>1. q \in Int /\ n * q <= r - 1 /\ r - 1 < n * q + n
        BY <1>1, <3>1, Dividing
      <4> HIDE DEF q
      <4> QED
        BY <1>1, <4>1
    <3> HIDE DEF q
    <3>3. q >= 0
      <4>1. q <= -1 => n * q <= n * (-1)
        BY <1>1, <3>2
      <4> QED
        BY <1>1, <3>1, <3>2, <4>1
    <3>4. q * n = n * q /\ (q + 1) * n = n * q + n /\ (q + 1) - 1 = q
      BY <1>1, <3>2
    <3>5. q + 1 <= last
      BY <1>2, <3>1, <3>2, <3>4
    <3>6. q + 1 \in 1 .. last /\ q + 1 \in Nat \ {0}
      BY <1>2, <3>2, <3>3, <3>5
    <3>7. OnPage(q + 1) = q * n + 1 .. UpTo(q + 1)
      BY <1>1, <3>4, <3>6
    <3>8. r <= UpTo(q + 1)
      <4>1. r <= (q + 1) * n /\ r <= total
        BY <1>1, <3>1, <3>2, <3>4
      <4> QED
        BY <4>1
    <3> HIDE DEF UpTo
    <3>9. r \in OnPage(q + 1)
      <4>1. PICK low \in Int : low = q * n
        BY <3>2, <3>4
      <4>2. low + 1 <= r
        <5>1. low = n * q
          BY <3>4, <4>1, Zenon
        <5>2. low <= r - 1
          BY <3>2, <5>1, Zenon
        <5> QED
          BY <3>1, <4>1, <5>2
      <4>3. UpTo(q + 1) \in Int
        BY <1>3, <3>6
      <4>4. OnPage(q + 1) = low + 1 .. UpTo(q + 1)
        BY <3>7, <4>1, Zenon
      <4> HIDE DEF n, OnPage
      <4> QED
        BY <3>1, <3>8, <4>1, <4>2, <4>3, <4>4
    <3> QED
      BY <3>6, <3>9
  <2> QED
    BY <2>1, <2>2
<1>5. ASSUME NEW p \in 1 .. last PROVE count[p] = UpTo(p) - UpTo(p - 1)
  <2>1. p \in Nat \ {0} /\ (p - 1) * n \in Nat /\ p * n = (p - 1) * n + n /\ p - 1 \in Nat
    BY <1>1, <1>2
  <2>2. (p - 1) * n < total
    BY <1>2, <2>1
  <2>3. UpTo(p - 1) = (p - 1) * n /\ UpTo(p) >= (p - 1) * n /\ UpTo(p) \in Int
    BY <1>1, <2>1, <2>2
  <2>4. OnPage(p) = (p - 1) * n + 1 .. UpTo(p)
    BY <1>1, <2>1
  <2> HIDE DEF UpTo
  <2>5. Cardinality((p - 1) * n + 1 .. UpTo(p)) = UpTo(p) - (p - 1) * n
    <3> DEFINE a == (p - 1) * n + 1
               b == UpTo(p)
    <3>1. a \in Int /\ b \in Int /\ a <= b + 1
      BY <2>1, <2>3
    <3> HIDE DEF a, b
    <3>2. Cardinality(a .. b) = IF a > b THEN 0 ELSE b - a + 1
      BY <3>1, FS_Interval
    <3>3. Cardinality(a .. b) = b - a + 1
      BY <3>1, <3>2
    <3> QED
      BY <2>1, <2>3, <3>3 DEF a, b
  <2> QED
    BY <2>3, <2>4, <2>5
<1>6. ASSUME NEW k \in Nat, k <= last PROVE Sum(count, 1 .. k) = UpTo(k)
  <2> DEFINE F == {i \in Nat : i <= last => Sum(count, 1 .. i) = UpTo(i)}
  <2>1. 0 \in F
    <3>1. 1 .. 0 = {} /\ UpTo(0) = 0
      BY <1>1
    <3> QED
      BY <3>1, SumEmpty
  <2>2. ASSUME NEW i \in Nat, i \in F PROVE i + 1 \in F
    <3> SUFFICES ASSUME i + 1 <= last PROVE Sum(count, 1 .. (i + 1)) = UpTo(i + 1)
      BY <2>2
    <3>1. i + 1 \in 1 .. last /\ i + 1 \in 1 .. (i + 1) /\ (1 .. (i + 1)) \ {i + 1} = 1 .. i
      BY <1>2
    <3>2. IsFiniteSet(1 .. (i + 1))
      BY FS_Interval
    <3>3. \A y \in 1 .. (i + 1) : count[y] \in Int
      <4> SUFFICES ASSUME NEW y \in 1 .. (i + 1) PROVE count[y] \in Int
        OBVIOUS
      <4>1. y \in 1 .. last /\ y \in Int /\ y - 1 \in Int
        BY <1>2, <3>1
      <4> HIDE DEF UpTo, count
      <4> QED
        BY <1>3, <1>5, <4>1
    <3> HIDE DEF count
    <3>4. Sum(count, 1 .. (i + 1)) = count[i + 1] + Sum(count, (1 .. (i + 1)) \ {i + 1})
      BY <3>1, <3>2, <3>3, SumRemove
    <3>5. Sum(count, 1 .. i) = UpTo(i)
      BY <1>2, <2>2, <3>1
    <3>6. count[i + 1] = UpTo(i + 1) - UpTo(i) /\ UpTo(i) \in Int /\ UpTo(i + 1) \in Int
      <4>1. (i + 1) - 1 = i
        OBVIOUS
      <4> HIDE DEF UpTo
      <4> QED
        BY <1>3, <1>5, <3>1, <4>1
    <3> HIDE DEF UpTo
    <3>7. (1 .. (i + 1)) \ {i + 1} = 1 .. i
      BY <3>1
    <3>8. Sum(count, 1 .. (i + 1)) = count[i + 1] + Sum(count, 1 .. i)
      BY <3>4, <3>7, Zenon
    <3> QED
      BY <3>5, <3>6, <3>8
  <2> HIDE DEF F
  <2>3. Nat \subseteq F
    BY <2>1, <2>2, CountingUp
  <2> QED
    BY <1>6, <2>3 DEF F
<1>7. UpTo(last) = total
  BY <1>2, <1>3
<1>8. SumUp(LAMBDA p : Cardinality(OnPage(p)), 1 .. last) = Sum(count, 1 .. last)
  <2> DEFINE S == 1 .. last
             amount(p) == Cardinality(OnPage(p))
  <2>1. SumUp(LAMBDA p : Cardinality(OnPage(p)), S)
          = (CHOOSE g : g = [s \in SUBSET S |->
               IF s = {} THEN 0 ELSE amount(AnyOf(s)) + g[s \ {AnyOf(s)}]])[S]
    BY DEF SumUp, MapThenSumSet, MapThenFoldSet, AnyOf
  <2>2. \A s \in SUBSET S : s # {} => amount(AnyOf(s)) = count[AnyOf(s)]
    BY FirstIn
  <2> HIDE DEF S, amount, count
  <2>3. \A g : [s \in SUBSET S |-> IF s = {} THEN 0 ELSE amount(AnyOf(s)) + g[s \ {AnyOf(s)}]]
               = [s \in SUBSET S |-> Step(g, count, s)]
    BY <2>2 DEF Step
  <2>4. \A g : Adds(g, count, S) <=> g = [s \in SUBSET S |->
               IF s = {} THEN 0 ELSE amount(AnyOf(s)) + g[s \ {AnyOf(s)}]]
    BY <2>3 DEF Adds
  <2>5. (CHOOSE g : Adds(g, count, S)) = (CHOOSE g : g = [s \in SUBSET S |->
               IF s = {} THEN 0 ELSE amount(AnyOf(s)) + g[s \ {AnyOf(s)}]])
    BY <2>4, Zenon
  <2> QED
    BY <2>1, <2>5, SumComputed DEF S
<1>9. OnPage(last + 1) = {}
  <2>1. last + 1 \in Nat \ {0} /\ (last + 1) - 1 = last
    BY <1>2
  <2>2. OnPage(last + 1) = last * n + 1 .. UpTo(last + 1)
    BY <1>1, <2>1
  <2>3. UpTo(last + 1) <= last * n
    BY <1>2, <1>3, <2>1
  <2>4. UpTo(last + 1) \in Int /\ last * n \in Int
    BY <1>2, <1>3
  <2> HIDE DEF UpTo
  <2> QED
    BY <2>2, <2>3, <2>4
<1>10. Sum(count, 1 .. last) = total
  <2> HIDE DEF UpTo, count
  <2> QED
    BY <1>2, <1>6, <1>7
<1> QED
  BY <1>4, <1>8, <1>9, <1>10 DEF PagesPartition, n, last, OnPage

(* An offer, a credit page, a reliability or a number of rows that a behaviour is about
   has numbers in it. *)
LEMMA ProbesAreNumbers ==
  ASSUME NEW p \in Probes
  PROVE  /\ p.of = "offer" => p.score \in Int /\ p.spend \in Int /\ p.asked \in Int
         /\ p.of = "credit" => p.score \in Int /\ p.asked \in Int
         /\ p.of = "reliability" => /\ p.clockIns \in Int /\ p.onTime \in Int /\ p.done \in Nat
                                    /\ p.disputed \in Int /\ p.ended \in Int
         /\ p.of = "pages" => p.total \in Nat /\ p.size \in Int
<1>1. CASE p \in BoardProbes
  BY <1>1 DEF BoardProbes
<1>2. CASE p \in BankProbes
  BY <1>2 DEF BankProbes
<1>3. CASE p \in EmployerProbes
  BY <1>3 DEF EmployerProbes
<1>4. CASE p \in ScoreProbes
  BY <1>4 DEF ScoreProbes
<1>5. CASE p \in ListProbes
  BY <1>5 DEF ListProbes
<1> QED
  BY <1>1, <1>2, <1>3, <1>4, <1>5 DEF Probes

Arithmetic == {"offer", "credit", "reliability", "pages"}

LEMMA ArithmeticAgrees ==
  ASSUME NEW p \in Probes, p.of \in Arithmetic
  PROVE  ProbeAgrees(p)
<1>1. CASE p.of = "offer"
  <2>1. LendingRulesAgree(p.score, p.spend, p.asked)
    BY <1>1, ProbesAreNumbers, OffersAgree
  <2> QED
    BY <1>1, <2>1 DEF ProbeAgrees
<1>2. CASE p.of = "credit"
  <2>1. WorkerCreditHonest(p.score, p.asked)
    BY <1>2, ProbesAreNumbers, CreditIsHonest
  <2> QED
    BY <1>2, <2>1 DEF ProbeAgrees
<1>3. CASE p.of = "reliability"
  <2>1. SmoothedBetween(p.clockIns, p.onTime, p.done, p.disputed, p.ended)
    BY <1>3, ProbesAreNumbers, PriorPullsIn
  <2> QED
    BY <1>3, <2>1 DEF ProbeAgrees
<1>4. CASE p.of = "pages"
  <2>1. PagesPartition(p.total, p.size)
    BY <1>4, ProbesAreNumbers, PagesShowAll
  <2> QED
    BY <1>4, <2>1 DEF ProbeAgrees
<1> QED
  BY <1>1, <1>2, <1>3, <1>4 DEF Arithmetic

(* The figures of the pages agree with each other in every state that is reached, and the
   score of an employer is always the last one recorded
   (employer-score-recalc.cron.ts:75), for any employers and days: offers, credit pages,
   reliabilities and pages of whatever rows a behaviour begins with, and the other
   figures, which are folds, if they agree of the rows it begins with. *)
THEOREM FiguresKeepAgreeing ==
  PlatformSpec /\ (part = "figures" /\ probe.of \notin Arithmetic => ProbeAgrees(probe))
    => []FiguresAgree
<1> DEFINE Given == part = "figures" /\ probe.of \notin Arithmetic => ProbeAgrees(probe)
           Agrees == part = "figures" => ProbeAgrees(probe)
<1>1. PlatformInit /\ Given => Agrees
  <2> SUFFICES ASSUME PlatformInit, Given, part = "figures" PROVE ProbeAgrees(probe)
    OBVIOUS
  <2>1. probe \in Probes
    BY DEF PlatformInit
  <2>2. CASE probe.of \notin Arithmetic
    BY <2>2
  <2>3. CASE probe.of \in Arithmetic
    BY <2>1, <2>3, ArithmeticAgrees
  <2> QED
    BY <2>2, <2>3
<1>2. Agrees /\ [PlatformNext]_platformVars => Agrees'
  <2> SUFFICES ASSUME Agrees, [PlatformNext]_platformVars PROVE Agrees'
    OBVIOUS
  <2>1. part' = part /\ probe' = probe
    BY PlatformMoves
  <2> QED
    BY <2>1
<1>3. PlatformInv /\ Agrees => FiguresAgree
  BY DEF PlatformInv, RecalcInv, FiguresAgree
<1> HIDE DEF Given, Agrees
<1>4. PlatformSpec /\ Given => []FiguresAgree
  BY <1>1, <1>2, <1>3, PlatformKeeps, PTL DEF PlatformSpec
<1> QED
  BY <1>4 DEF Given

(* A walk by cursor shows all that stayed and nothing twice (cursor.util.ts), and an
   open review queue is the one stored, up to the hints on their way
   (stream.publisher.ts:55), in every state that is reached: with the rankings and
   stitched lists, which are pure, if those are sound of what a behaviour begins with. *)
THEOREM ListsKeepShowing ==
  PlatformSpec /\ (part = "figures" => ListAgrees(probe)) => []ListsShowAll
<1> DEFINE Agrees == part = "figures" => ListAgrees(probe)
<1>1. Agrees /\ [PlatformNext]_platformVars => Agrees'
  <2> SUFFICES ASSUME Agrees, [PlatformNext]_platformVars PROVE Agrees'
    OBVIOUS
  <2>1. part' = part /\ probe' = probe
    BY PlatformMoves
  <2> QED
    BY <2>1
<1>2. PlatformInv /\ Agrees => ListsShowAll
  BY ListsInvKeeps, StreamInvKeeps DEF PlatformInv, ListsShowAll
<1> HIDE DEF Agrees
<1>3. PlatformSpec /\ Agrees => []ListsShowAll
  BY <1>1, <1>2, PlatformKeeps, PTL DEF PlatformSpec
<1> QED
  BY <1>3 DEF Agrees
===============================================================================
