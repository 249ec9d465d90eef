----------------------------- MODULE MCPlatform -----------------------------
(***************************************************************************)
(* The components of the platform that share no state with the payments,   *)
(* on small instances.  They share none with each other either, so a       *)
(* behaviour exercises one of them, its `part`, and leaves the rest where  *)
(* they begin: the instance is the union of theirs and not the product.    *)
(* The part "figures" has no steps: it takes a `probe`, the arguments of   *)
(* one of the pure statements.                                             *)
(***************************************************************************)
EXTENDS Lending, WorkerAuth, Team, Sessions, Messaging, Ratings, Feed, Reminders,
        Accounts, Lists, Recalc, Profile, Assist, Stream, Settings, BankAnalytics,
        EmployerAnalytics, Scoring, Boards

VARIABLES part, probe

Parts == {"lending", "auth", "team", "sessions", "push", "ratings", "feed", "reminders",
          "accounts", "lists", "recalc", "profile", "assist", "stream", "settings", "figures"}

NoProbe == [of |-> "none"]

----------------------------------------------------------------------------
(* Probes.  A month has two instants here, so that the fifty-first is in   *)
(* the second month of the third year.                                     *)

LoanRows ==
    [status : {"pending", "active", "repaid", "defaulted"}, disbursedAt : {51, 47, 36},
     principal : {4}, outstanding : {3}, apr : {20}, term : {None, 6}, score : {None, 85},
     borrower : {"worker", "business"}]
FirstLoan == [status |-> "active", disbursedAt |-> 50, principal |-> 2, outstanding |-> 1,
              apr |-> 10, term |-> 3, score |-> 60, borrower |-> "worker"]
Books ==
    {<<FirstLoan, r, s>> : r \in {q \in LoanRows : q.term = 6},
                           s \in {q \in LoanRows : q.score = 85 /\ q.disbursedAt # 36}}
BankProbes == [of : {"book"}, book : Books, days : {2, 4, 15},
               granularity : {"month", "quarter"}]

(* A day has two instants, and it is the twenty-first, a Sunday.           *)
JobRows ==
    {[type |-> y, status |-> s, created |-> at, applied |-> IF on THEN at + 3 ELSE Never,
      start |-> at + 4, pay |-> 10, applicants |-> 1] :
        y \in {"driver", "welder"}, s \in {"open", "in_progress", "completed"},
        at \in {39, 26}, on \in BOOLEAN}
FirstJob == [type |-> "general_labor", status |-> "completed", created |-> 38,
             applied |-> 40, start |-> 41, pay |-> 7, applicants |-> 2]
PaidRows ==
    [kind : {"job_payment", "escrow_hold"}, status : {"completed", "pending"},
     at : {41, 39, 26}, amount : {5}, job : {NoJob, 1, 3}]
FirstPaid == [kind |-> "job_payment", status |-> "succeeded", at |-> 39, amount |-> 3, job |-> 2]
DoneRows == [worker : {"v", "w"}, at : {41, 30}, pay : {5, 8}]
EmployerProbes ==
    [of : {"charts"}, work : {<<FirstJob, r>> : r \in JobRows},
     paid : {<<FirstPaid, t>> : t \in PaidRows},
     q : [from : {Never, 27}, to : {Never, 41}]]
    \cup [of : {"workers"}, done : [1 .. 3 -> DoneRows], most : {1, 2}]

Histories == {[d \in (a .. b) \ {c} |-> 50 + d] : a \in 0 .. 3, b \in 14 .. 20, c \in 4 .. 20}
Hires == [1 .. 3 -> [worker : {"v", "w"}, at : {Missing, 0, 10, 99, 100}, pay : {6}]]
RadarLoans ==
    [worker : {"v"}, status : {"active", "at_risk", "defaulted", "repaid"},
     risk : {"green", "red"}, principal : {5}, outstanding : {2}]
People == [v |-> [eligibility |-> "eligible", score |-> 85, weekly |-> 9000],
           w |-> [eligibility |-> "pre_approved", score |-> 70, weekly |-> 0],
           x |-> [eligibility |-> "eligible", score |-> 69, weekly |-> 0]]
ScoreProbes ==
    [of : {"offer"}, score : {0, 69, 70, 79, 80, 89, 90, 100},
     spend : {0, 5, 6, 7200000, 40000000}, asked : {1, 1200000, 1800000, 2000001, 6000000}]
    \cup [of : {"credit"}, score : 0 .. 100,
          asked : {0, 4999, 5000, 20000, 20001, 50000, 50001, 100000, 100001}]
    \cup [of : {"history"}, history : Histories, late : {0, 3}]
    \cup [of : {"factors"}, timeliness : {0, 120}, hires : Hires, joined : {0, 95}]
    \cup [of : {"radar"}, loans : {<<a, [b EXCEPT !.worker = "w"]>> : a, b \in RadarLoans},
          repayments : [1 .. 2 -> {"paid", "missed", "scheduled"}]]
    \cup {p \in [of : {"reliability"}, clockIns : 0 .. 6, onTime : 0 .. 6, done : 0 .. 6,
                 disputed : 0 .. 2, ended : 0 .. 6] :
             /\ p.onTime <= p.clockIns /\ p.done <= p.clockIns
             /\ p.done + p.disputed <= p.ended /\ p.ended <= p.clockIns}
    \cup [of : {"pages"}, total : 0 .. 7, size : {-1, 0, 1, 3, 7, 101}]

Pools == {<< >>, <<"a">>, <<"b", "a">>, <<"c", "a", "b">>}
Offers == {{<<i, r[i]>> : i \in S} : S \in SUBSET (1 .. 4),
            r \in {q \in [1 .. 4 -> 1 .. 4] : \A i, j \in 1 .. 4 : q[i] = q[j] => i = j}}
ListProbes ==
    [of : {"ranking"}, pool : Pools, limit : 1 .. 3,
     rows : UNION {[1 .. n -> {"a", "b", "x", ""}] : n \in 0 .. 3}]
    \cup [of : {"jobs"}, jobs : SUBSET (1 .. 5), limit : 1 .. 3]
    \cup [of : {"feed"}, jobs : Offers, limit : 1 .. 2]

\* Two workers clock on one job, of a radius wider than what verifies.
Fix == [distance : {90, 150}, accuracy : {30, 40}]
At(w, out, p) == [worker |-> w, kind |-> IF out THEN "clock_out" ELSE "clock_in",
                  distance |-> p.distance, accuracy |-> p.accuracy]
Clockings ==
    {<<At("v", FALSE, p), At("w", FALSE, q)>> : p, q \in Fix}
    \cup {<<At("v", FALSE, p), At("v", TRUE, q), At("w", FALSE, r)>> : p, q, r \in Fix}
    \cup {<<At("v", FALSE, p), At("w", FALSE, q), At(w, TRUE, r), At(x, TRUE, s)>> :
              p, q, r, s \in Fix, w \in {"v"}, x \in {"w"}}
    \cup {<<At("v", FALSE, p), At("w", FALSE, q), At("w", TRUE, r)>> : p, q, r \in Fix}
Applicants ==
    [status : {"applied", "accepted", "withdrawn"}, reliability : {40, 90}, onTime : {100},
     rating : {0, 45}, distance : {Missing, 150, 30000}]
JobStates ==
    [status : {"draft", "open", "completed", "cancelled"}, type : {"driver"}, posted : {1, 2},
     pay : {7, 8}, deleted : {FALSE}]
OldJob == [status |-> "in_progress", type |-> "welder", posted |-> 1, pay |-> 8,
           deleted |-> FALSE]
DeadJob == [OldJob EXCEPT !.deleted = TRUE]
DoneJobs == [done : {Missing, 1, 2, 3}, worker : {"nobody", "v", "w"}, pay : {5}]
BoardProbes ==
    [of : {"clocks"}, clocks : {c \in Clockings : \A i \in DOMAIN c : MayClock(c[i], 150)}]
    \cup [of : {"applicants"}, apps : {<<a, b, [a EXCEPT !.distance = 19999]>> :
                                          a, b \in Applicants}]
    \cup [of : {"joblist"}, jobs : {<<OldJob, a, DeadJob, b, OldJob>> : a, b \in JobStates},
          q : [status : {{}, {"open", "completed"}}, type : {"any"}, from : {1}, to : {2, 9},
               sortBy : {"posted", "pay"}, desc : BOOLEAN], size : {1, 2}]
    \cup [of : {"invoices"}, jobs : {<<a, b, c>> : a, b, c \in DoneJobs}]

Probes == BoardProbes \cup BankProbes \cup EmployerProbes \cup ScoreProbes \cup ListProbes
----------------------------------------------------------------------------
(* Where a component that is not exercised begins.                         *)
Pinned ==
    /\ part = "lending" \/ kind = [a \in Application |-> "worker"]
    /\ part = "auth" \/ worker = [p \in Phone |-> "none"]
    /\ part = "sessions" \/ verified = TRUE
    /\ part = "push" \/ channels = {}
    /\ part = "feed" \/ viewer = [w \in Viewer |-> [home |-> "unset", alerts |-> FALSE,
                                                   jobs |-> 0]]
    /\ part = "reminders" \/ (/\ nudge = "late" /\ phase = 0
                              /\ joined = [u \in Reviewer |-> 0])
    /\ part = "lists" \/ ledger = << >>
    /\ part = "recalc" \/ credit = [e \in Employer |-> 1]
    /\ part = "profile" \/ phoneOf = [m \in Member |-> NoNumber]

PlatformInit ==
    /\ part \in Parts
    /\ IF part = "figures" THEN probe \in Probes ELSE probe = NoProbe
    /\ Pinned
    /\ LendInit /\ AuthInit /\ TeamInit /\ SessionsInit /\ PushInit /\ RatingsInit
    /\ FeedInit /\ RemindersInit /\ AccountsInit /\ ListsInit /\ RecalcInit
    /\ ProfileInit /\ AssistInit /\ StreamInit /\ SettingsInit

PlatformNext ==
    \/ /\ part = "lending" /\ LendNext
       /\ UNCHANGED <<part, probe, authVars, teamVars, sessionVars, pushVars, ratingVars,
                       feedVars, reminderVars, accountVars, ledgerVars, recalcVars,
                       profileVars, assistVars, streamVars, settingsVars>>
    \/ /\ part = "auth" /\ AuthNext
       /\ UNCHANGED <<part, probe, lendVars, teamVars, sessionVars, pushVars, ratingVars,
                       feedVars, reminderVars, accountVars, ledgerVars, recalcVars,
                       profileVars, assistVars, streamVars, settingsVars>>
    \/ /\ part = "team" /\ TeamNext
       /\ UNCHANGED <<part, probe, lendVars, authVars, sessionVars, pushVars, ratingVars,
                       feedVars, reminderVars, accountVars, ledgerVars, recalcVars,
                       profileVars, assistVars, streamVars, settingsVars>>
    \/ /\ part = "sessions" /\ SessionsNext
       /\ UNCHANGED <<part, probe, lendVars, authVars, teamVars, pushVars, ratingVars, feedVars,
                       reminderVars, accountVars, ledgerVars, recalcVars,
                       profileVars, assistVars, streamVars, settingsVars>>
    \/ /\ part = "push" /\ PushNext
       /\ UNCHANGED <<part, probe, lendVars, authVars, teamVars, sessionVars, ratingVars,
                       feedVars, reminderVars, accountVars, ledgerVars, recalcVars,
                       profileVars, assistVars, streamVars, settingsVars>>
    \/ /\ part = "ratings" /\ RatingsNext
       /\ UNCHANGED <<part, probe, lendVars, authVars, teamVars, sessionVars, pushVars, feedVars,
                       reminderVars, accountVars, ledgerVars, recalcVars,
                       profileVars, assistVars, streamVars, settingsVars>>
    \/ /\ part = "feed" /\ FeedNext
       /\ UNCHANGED <<part, probe, lendVars, authVars, teamVars, sessionVars, pushVars,
                       ratingVars, reminderVars, accountVars, ledgerVars, recalcVars,
                       profileVars, assistVars, streamVars, settingsVars>>
    \/ /\ part = "reminders" /\ RemindersNext
       /\ UNCHANGED <<part, probe, lendVars, authVars, teamVars, sessionVars, pushVars,
                       ratingVars, feedVars, accountVars, ledgerVars, recalcVars,
                       profileVars, assistVars, streamVars, settingsVars>>
    \/ /\ part = "accounts" /\ AccountsNext
       /\ UNCHANGED <<part, probe, lendVars, authVars, teamVars, sessionVars, pushVars,
                       ratingVars, feedVars, reminderVars, ledgerVars, recalcVars,
                       profileVars, assistVars, streamVars, settingsVars>>
    \/ /\ part = "lists" /\ ListsNext
       /\ UNCHANGED <<part, probe, lendVars, authVars, teamVars, sessionVars, pushVars,
                       ratingVars, feedVars, reminderVars, accountVars, recalcVars,
                       profileVars, assistVars, streamVars, settingsVars>>
    \/ /\ part = "recalc" /\ RecalcNext
       /\ UNCHANGED <<part, probe, lendVars, authVars, teamVars, sessionVars, pushVars,
                       ratingVars, feedVars, reminderVars, accountVars, ledgerVars,
                       profileVars, assistVars, streamVars, settingsVars>>
    \/ /\ part = "profile" /\ ProfileNext
       /\ UNCHANGED <<part, probe, lendVars, authVars, teamVars, sessionVars, pushVars,
                       ratingVars, feedVars, reminderVars, accountVars, ledgerVars,
                       recalcVars, assistVars, streamVars, settingsVars>>
    \/ /\ part = "assist" /\ AssistNext
       /\ UNCHANGED <<part, probe, lendVars, authVars, teamVars, sessionVars, pushVars,
                       ratingVars, feedVars, reminderVars, accountVars, ledgerVars,
                       recalcVars, profileVars, streamVars, settingsVars>>
    \/ /\ part = "stream" /\ StreamNext
       /\ UNCHANGED <<part, probe, lendVars, authVars, teamVars, sessionVars, pushVars,
                       ratingVars, feedVars, reminderVars, accountVars, ledgerVars,
                       recalcVars, profileVars, assistVars, settingsVars>>
    \/ /\ part = "settings" /\ SettingsNext
       /\ UNCHANGED <<part, probe, lendVars, authVars, teamVars, sessionVars, pushVars,
                       ratingVars, feedVars, reminderVars, accountVars, ledgerVars,
                       recalcVars, profileVars, assistVars, streamVars>>

platformVars == <<part, probe, lendVars, authVars, teamVars, sessionVars, pushVars,
                  ratingVars, feedVars, reminderVars, accountVars, ledgerVars, recalcVars,
                  profileVars, assistVars, streamVars, settingsVars>>

(* The fairness of LendSpec and FeedSpec, of the part they are about.      *)
PlatformFair ==
    /\ WF_lendVars(part = "lending" /\ CronReads)
    /\ WF_lendVars(part = "lending" /\ \E f \in flagging : FlagLoan(f))
    /\ \A j \in Posting : /\ WF_feedVars(part = "feed" /\ HalfHour(j))
                          /\ WF_feedVars(part = "feed" /\ FlipJob(j))
    /\ WF_feedVars(part = "feed" /\ FlipCron)

PlatformSpec == PlatformInit /\ [][PlatformNext]_platformVars /\ PlatformFair
----------------------------------------------------------------------------
(* Bounds of the parts.                                                    *)

(* A loan of a worker has one instalment that is late, a later one of a    *)
(* business is at most a week late; two requests meet while nothing is.    *)
LendBound ==
    LET overdue == {d \in Loan \X Month : late[d[1]][d[2]] > 0}
    IN  /\ \A d \in overdue :
              late[d[1]][d[2]] <= IF loan[d[1]].of = "worker"
                                  THEN IF d[2] = 1 THEN 1 ELSE 0
                                  ELSE IF d[2] = 1 THEN 3 ELSE 1
        /\ overdue # {} => Cardinality({r \in Request : req[r].at # "idle"}) <= 1

(* A second code is asked for before anybody has signed in.                *)
AuthBound ==
    LET c == CHOOSE c \in Challenge : TRUE
    IN  (\E d \in Challenge \ {c} : chal[d].age # "none") =>
            \A t \in Token : token[t].st = "none"

(* The second shift is paid by the timer and is not rated late, and two    *)
(* calls of which one is about it meet before anybody has rated the first. *)
RatingsBound ==
    LET s == CHOOSE s \in Shift : TRUE
        busy == {k \in Rater : rater[k].at # "idle"}
        IsLate(t) == shift[t].late \/ \E a \in Author : rating[t][a].late
    IN  /\ \A t \in Shift \ {s} : shift[t].state # "auto_review" =>
                                     shift[t].state = "auto_released" /\ ~ IsLate(t)
        /\ Cardinality(busy) > 1 /\ (IsLate(s) \/ \E a \in Author : rating[s][a].there) =>
              \A k \in busy : rater[k].s = s

(* The second posting is public; blocks and completed jobs are met without *)
(* postings.                                                               *)
FeedBound ==
    LET j == CHOOSE j \in Posting : TRUE
    IN  /\ \A i \in Posting \ {j} : posting[i].audience = "public"
        /\ (blocked # {} \/ \E w \in Viewer : viewer[w].jobs > 0) =>
               \A i \in Posting : posting[i].status = "none"

(* A client that walks does not export, and reads all or nothing.          *)
ListsBound == (walk = Absent \/ export = Absent) /\ unread \in {{}, DOMAIN ledger}

(* One of the worker's affairs is touched: its number, its photograph or   *)
(* its account.                                                            *)
Aspect(k) ==
    CASE profileCall[k] = NoCall -> "none"
      [] profileCall[k].at \in {"asked", "compared"} -> "phone"
      [] profileCall[k].at \in {"leave", "settle"} -> "leave"
      [] OTHER -> "photo"
ProfileBound ==
    LET touched == {Aspect(k) : k \in ProfileCall}
                   \cup (IF \E c \in Change : change[c].st # "none" THEN {"phone"} ELSE {})
                   \cup (IF \/ \E f \in File : upload[f].st # "none"
                            \/ \E m \in Member : selfies[m] > 0
                         THEN {"photo"} ELSE {})
                   \cup (IF \E m \in Member : \/ leaving[m] \/ owes[m].loan
                                              \/ owes[m].withdrawal # "none"
                         THEN {"leave"} ELSE {})
    IN  /\ Cardinality(touched \ {"none"}) <= 1
        /\ \A c \in Change : change[c].tries <= 1

(* A dashboard fetches one of its surfaces.                                *)
StreamBound ==
    \A t \in Tab :
        Cardinality(tab[t].newest \cup {s \in Surface : tab[t].answer[s] # "none"}) <= 1

Bound ==
    /\ part = "lending" => LendBound
    /\ part = "auth" => AuthBound
    /\ part = "ratings" => RatingsBound
    /\ part = "feed" => FeedBound
    /\ part = "lists" => ListsBound
    /\ part = "profile" => ProfileBound
    /\ part = "stream" => StreamBound
----------------------------------------------------------------------------
View ==
    CASE part = "lending" -> <<part, lendVars>>
      [] part = "auth" -> <<part, authVars>>
      [] part = "team" -> <<part, teamVars>>
      [] part = "sessions" -> <<part, sessionVars>>
      [] part = "push" -> <<part, pushVars>>
      [] part = "ratings" -> <<part, ratingVars>>
      [] part = "feed" -> <<part, feedVars>>
      [] part = "reminders" -> <<part, reminderVars>>
      [] part = "accounts" -> <<part, accountVars>>
      [] part = "lists" -> <<part, ledgerVars>>
      [] part = "recalc" -> <<part, recalcVars>>
      [] part = "profile" -> <<part, profileVars>>
      [] part = "assist" -> <<part, assistVars>>
      [] part = "stream" -> <<part, streamVars>>
      [] part = "settings" -> <<part, settingsVars>>
      [] part = "figures" -> <<part, probe>>

(* Every component's variables stay in their types: what was answered, counted or
   stored is one of the values the code can put there (schema.prisma). *)
PlatformTypeOK ==
    /\ part = "lending" => LendTypeOK
    /\ part = "auth" => AuthTypeOK
    /\ part = "team" => TeamTypeOK
    /\ part = "sessions" => SessionsTypeOK
    /\ part = "push" => PushTypeOK
    /\ part = "ratings" => RatingsTypeOK
    /\ part = "feed" => FeedTypeOK
    /\ part = "reminders" => RemindersTypeOK
    /\ part = "accounts" => AccountsTypeOK
    /\ part = "lists" => ListsTypeOK
    /\ part = "recalc" => RecalcTypeOK
    /\ part = "profile" => ProfileTypeOK
    /\ part = "assist" => AssistTypeOK
    /\ part = "stream" => StreamTypeOK
    /\ part = "settings" => SettingsTypeOK

(* Every business keeps one owner, whoever acts on stale claims of a token
   (team.service.ts:171), and its settings are those its owners last asked for
   although their requests cross (settings.service.ts:43). *)
BusinessKept == EveryBusinessOwned /\ SettingsKept

(* Who a worker is stays proven: no more calls get in by a code than were compared
   when it ran out (auth.service.ts:177), its number is one it had the code of
   (me.service.ts:192), and its photograph is its own (me.service.ts:61). *)
CodesProve == CodeLimits /\ NumbersProven /\ PhotosKept

(* Messages go on reaching a worker: no device is forgotten but a dead one or one
   that was registered meanwhile (push-notification.service.ts:234), and a code
   arrives if any channel it may take is up (otp-channel.service.ts:146). *)
MessagesReach == PrunedWasDead /\ []CodeReaches

(* What is limited stays within its limit and the calls that crossed: pushes of new
   jobs (employer-jobs.service.ts:1442), reminders (rate-reminder.cron.ts:9) and
   tickets (help.service.ts:36). *)
LimitsHold == PushesLimited /\ NudgedOnce /\ TicketsLimited

(* The figures on one page agree with those on another, and add up.        *)
BookAgrees(p) ==
    /\ CohortsAgree(p.book, 51, p.days)
    /\ AttributionAddsUp(p.book, 51, p.days)
    /\ CurvesCover(p.book, 51, 3, 4, p.granularity)
ChartsAndOverviewAgree(p) ==
    /\ ChartsAgree(p.work, p.paid, ResolveWindow(p.q, 41, 7))
    /\ OverviewAgrees(p.work, p.paid, 41, 3, 1)
NewEmployer == [score |-> 60, timeliness |-> 90, hires |-> << >>, posts |-> << >>, joined |-> 0]
HistoryAgrees(p) ==
    LET last == Max(DOMAIN p.history) + p.late
    IN  /\ TrendComplete(p.history, last, 60, 2)
        /\ HistoriesAgree(p.history, [d \in DOMAIN p.history |-> d \div 10], 2)
        /\ PageConsistent(NewEmployer, last, p.history, FACTOR_WEIGHTS, 2)
        /\ PageConsistent(NewEmployer, last, << >>, FACTOR_WEIGHTS, 2)
FactorsAgree(p) ==
    FactorsSound([timeliness |-> p.timeliness, hires |-> p.hires, posts |-> <<100, 65, 70>>,
                  joined |-> p.joined, score |-> 60], 100)

ProbeAgrees(p) ==
    /\ p.of = "book" => BookAgrees(p)
    /\ p.of = "charts" => ChartsAndOverviewAgree(p)
    /\ p.of = "workers" => UtilizationAgrees(p.done, [from |-> 31, to |-> 42], p.most)
    /\ p.of = "offer" => LendingRulesAgree(p.score, p.spend, p.asked)
    /\ p.of = "credit" => WorkerCreditHonest(p.score, p.asked)
    /\ p.of = "history" => HistoryAgrees(p)
    /\ p.of = "factors" => FactorsAgree(p)
    /\ p.of = "radar" => RadarAgrees(p.loans, p.repayments, People)
    /\ p.of = "reliability" =>
          SmoothedBetween(p.clockIns, p.onTime, p.done, p.disputed, p.ended)
    /\ p.of = "pages" => PagesPartition(p.total, p.size)
    /\ p.of = "clocks" => VerdictsAgree(p.clocks)
    /\ p.of = "applicants" => RankingFair(p.apps)
    /\ p.of = "joblist" => JobListsAgree(p.jobs, p.q, p.size)
    /\ p.of = "invoices" => InvoicesAddUp(p.jobs, 1, 2, 4, {"v", "w"})

(* The figures of one page agree with those of another and add up, whatever the
   rows (bank-analytics, employer-analytics, overview, employer-credit, radar,
   boards and invoices), and the score of an employer is the last one recorded
   (employer-score-recalc.cron.ts:75). *)
FiguresAgree ==
    /\ part = "figures" => ProbeAgrees(probe)
    /\ ScoreIsLatest

(* The lists that are walked, ranked or stitched show what they should,    *)
(* and an open review queue is the one that is stored.                     *)
ListAgrees(p) ==
    /\ p.of = "ranking" => /\ RankingSound(p.pool, p.rows, p.limit)
                           /\ StubRanksAll(p.pool, {"a"}, [a |-> 3, b |-> 5, c |-> 5])
    /\ p.of = "jobs" => OneListWalks(p.jobs, p.limit)
    /\ p.of = "feed" => FeedShowsSooner(p.jobs, p.limit)

(* Who walks a list sees what was there when it began (cursor.util.ts), a ranking
   or a stitched list leaves out nothing that fits (job-recommend.service.ts,
   employers.service.ts:119), and an open review queue is the one stored, up to
   the hints on their way (stream.publisher.ts:55). *)
ListsShowAll ==
    /\ part = "figures" => ListAgrees(probe)
    /\ WalksComplete
    /\ QueueFresh
============================================================================
