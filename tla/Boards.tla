-------------------------------- MODULE Boards --------------------------------
(***************************************************************************)
(* What an employer's pages show of its jobs, computed from the rows: the  *)
(* verdict on the clock events of a job on its proof page, on the live map *)
(* and in the review queue (employer-jobs.service.ts,                      *)
(* employer-workers.service.ts, employer-work-sessions.service.ts,         *)
(* sessions.service.ts), the ranking of the applicants, the lists of jobs, *)
(* and the invoices made of completed jobs (employer-invoices.service.ts). *)
(***************************************************************************)
EXTENDS Scoring, Sequences, SequencesExt

----------------------------------------------------------------------------
(* Clock events of a job, in the order of their times.                     *)

VERIFICATION_RADIUS_M == 100
VERIFICATION_ACCURACY_M == 30
CLOCK_IN_ACCURACY_BLOCK_M == 50

(* Who may clock, and what is recorded of it: the radius of the job may be *)
(* wider than the one that verifies.  A poor fix keeps nobody from         *)
(* clocking out.                                                           *)
MayClock(c, radius) ==
    /\ c.distance <= radius
    /\ c.kind = "clock_in" => c.accuracy <= CLOCK_IN_ACCURACY_BLOCK_M
Recorded(c) ==
    [worker |-> c.worker, kind |-> c.kind, distance |-> c.distance, accuracy |-> c.accuracy,
     verified |-> /\ c.distance <= VERIFICATION_RADIUS_M
                  /\ c.accuracy <= VERIFICATION_ACCURACY_M]

FirstVerified(events, kind) ==
    LET of == SelectSeq(events, LAMBDA c : c.kind = kind)
    IN  of # << >> /\ Head(of).verified
LastDistance(events) == IF events = << >> THEN Missing ELSE Last(events).distance

(* The proof page: whoever clocked, all that happened on the job.          *)
ProofPage(events) ==
    [clockIn |-> FirstVerified(events, "clock_in"),
     clockOut |-> FirstVerified(events, "clock_out"),
     overall |-> IF events = << >> THEN "pending"
                 ELSE IF \A i \in DOMAIN events : /\ events[i].verified
                                                  /\ events[i].accuracy <= 30
                      THEN "verified" ELSE "flagged",
     last |-> LastDistance(events)]

(* The live map: for each session of the job that is in progress the       *)
(* verdict on the job, computed anew.                                      *)
ActiveAssignments(events) ==
    LET WorkerOf(S) == {events[i].worker : i \in S}
        of(kind) == {i \in DOMAIN events : events[i].kind = kind}
        poor == {i \in DOMAIN events : ~ events[i].verified
                                       \/ events[i].accuracy > VERIFICATION_ACCURACY_M}
    IN  [w \in WorkerOf(of("clock_in")) \ WorkerOf(of("clock_out")) |->
            [clockIn |-> events[Min(of("clock_in"))].verified,
             overall |-> IF DOMAIN events = {} THEN "pending"
                         ELSE IF poor = {} THEN "verified" ELSE "flagged",
             last |-> LastDistance(events)]]

(* A row of the review queue: the position kept with the session, the      *)
(* accuracy of the newest clock-out of that worker on that job.            *)
GpsVerified(distance, accuracy) ==
    /\ distance # Missing /\ accuracy # Missing
    /\ distance <= VERIFICATION_RADIUS_M /\ accuracy <= VERIFICATION_ACCURACY_M

(* The queue looks up all rows of a page at once, keyed by job and worker. *)
ReviewQueue(sessions, events) ==
    LET outs == SelectSeq(events, LAMBDA c : c.kind = "clock_out")
        newest == [w \in {outs[i].worker : i \in DOMAIN outs} |->
                      outs[Max({i \in DOMAIN outs : outs[i].worker = w})]]
    IN  [w \in DOMAIN sessions |->
            LET accuracy == IF w \in DOMAIN newest THEN newest[w].accuracy ELSE Missing
            IN  [distance |-> sessions[w], accuracy |-> accuracy,
                 gpsVerified |-> GpsVerified(sessions[w], accuracy)]]

ReviewDetail(sessions, w, events) ==
    LET out == SelectSeq(events, LAMBDA c : c.kind = "clock_out" /\ c.worker = w)
        accuracy == IF out = << >> THEN Missing ELSE Last(out).accuracy
    IN  [distance |-> sessions[w], accuracy |-> accuracy,
         gpsVerified |-> GpsVerified(sessions[w], accuracy)]

----------------------------------------------------------------------------
(* The applicants, ranked in hundredths from their record: a rating is in  *)
(* tenths, and a distance may be unknown.                                  *)

DISTANCE_CAP == 20000
ComputeDistanceScore(distance) ==
    IF distance = Missing THEN DISTANCE_CAP \div 2
    ELSE Max({0, DISTANCE_CAP - Min({distance, DISTANCE_CAP})})

RankScore(a) ==
    Nearest((40 * a.reliability + 20 * a.onTime + 15 * 2 * a.rating) * (DISTANCE_CAP \div 100)
                + 25 * ComputeDistanceScore(a.distance), DISTANCE_CAP)

APPLICANT_STATUSES == {"applied", "pending", "accepted", "rejected"}
StatusOrder(status) ==
    CASE status \in {"applied", "pending"} -> 0
      [] status = "accepted" -> 1
      [] status = "rejected" -> 2

(* Shown are those not withdrawn or at work, in the order they applied but *)
(* for their state and rank.                                               *)
RankApplications(apps) ==
    LET shown == SelectSeq(apps, LAMBDA a : a.status \in APPLICANT_STATUSES)
        Above(i, j) ==
            LET a == shown[i] b == shown[j]
            IN  \/ StatusOrder(a.status) < StatusOrder(b.status)
                \/ /\ StatusOrder(a.status) = StatusOrder(b.status)
                   /\ \/ RankScore(a) > RankScore(b)
                      \/ RankScore(a) = RankScore(b) /\ i < j
    IN  SortSeq([i \in DOMAIN shown |-> i], Above)

----------------------------------------------------------------------------
(* The jobs: `jobs` is the sequence of rows in the order they were made.   *)

BOARD_STATUSES == {"open", "applications_in", "accepted", "in_progress",
                    "pending_verification"}
TEMPLATE_STATUSES == BOARD_STATUSES \cup {"completed"}

(* The rows a list asks for: a status, a type, and a span of days.         *)
JobsWhere(jobs, q) ==
    {j \in DOMAIN jobs : /\ ~ jobs[j].deleted
                         /\ q.status = {} \/ jobs[j].status \in q.status
                         /\ q.type \in {"any", jobs[j].type}
                         /\ q.from <= jobs[j].posted /\ jobs[j].posted < q.to}

(* In the order of a field, newest first or last, rows that tie by their   *)
(* number; and the page of it.                                             *)
ListJobs(jobs, q, page, size) ==
    LET rows == SetToSortSeq(JobsWhere(jobs, q),
                    LAMBDA i, j : LET a == jobs[i][q.sortBy] b == jobs[j][q.sortBy]
                                  IN  IF q.desc THEN a > b \/ (a = b /\ i > j)
                                      ELSE a < b \/ (a = b /\ i < j))
        of == PageRows(Len(rows), page, size)
    IN  IF of = {} THEN << >> ELSE SubSeq(rows, Min(of), Max(of))

(* The export takes the rows of the list page after page until one is      *)
(* short; all are read while nothing changes.                              *)
ExportJobs(jobs, q, size) ==
    FlattenSeq([p \in 1 .. TotalPages(Len(jobs), size) + 1 |-> ListJobs(jobs, q, p, size)])

ActiveJobs(jobs) ==
    {j \in DOMAIN jobs : ~ jobs[j].deleted /\ jobs[j].status \in BOARD_STATUSES}
RecentTemplates(jobs) ==
    LET of == {j \in DOMAIN jobs : /\ ~ jobs[j].deleted
                                   /\ jobs[j].status \in TEMPLATE_STATUSES}
    IN  {j \in of : Cardinality({k \in of : k > j}) < 3}

----------------------------------------------------------------------------
(* Invoices.  A completed job has the day it was, another `Missing`; its   *)
(* worker is "nobody" when none was assigned.                              *)

NoInvoice == [lines |-> {}, total |-> 0]
InvoiceOf(jobs, lines) ==
    IF lines = {} THEN NoInvoice
    ELSE [lines |-> lines, total |-> SumUp(LAMBDA j : jobs[j].pay, lines)]

(* Of one job, if somebody was assigned to it.                             *)
GenerateInvoice(jobs, j) ==
    InvoiceOf(jobs, IF jobs[j].done # Missing /\ jobs[j].worker # "nobody" THEN {j} ELSE {})

(* Of the jobs completed from a day to before another, of some workers if  *)
(* any are named: an unassigned job is invoiced too.                       *)
GenerateBatch(jobs, from, to, workers) ==
    InvoiceOf(jobs, {j \in DOMAIN jobs : /\ jobs[j].done # Missing
                                         /\ from <= jobs[j].done /\ jobs[j].done < to
                                         /\ workers = {} \/ jobs[j].worker \in workers})

----------------------------------------------------------------------------
(* The three pages agree on the position of a worker, whatever the order   *)
(* in which two of a job clocked: the map shows what the proof page does,  *)
(* a row of the queue is its detail and the verdict recorded at clock-out, *)
(* and no row is flagged on a job that is verified.                        *)
VerdictsAgree(clocks) ==
    LET events == [i \in DOMAIN clocks |-> Recorded(clocks[i])]
        page == ProofPage(events)
        map == ActiveAssignments(events)
        out == {i \in DOMAIN events : events[i].kind = "clock_out"}
        sessions == [w \in {events[i].worker : i \in out} |->
                        events[CHOOSE i \in out : events[i].worker = w].distance]
        queue == ReviewQueue(sessions, events)
    IN  /\ \A w \in DOMAIN map : /\ map[w].overall = page.overall
                                 /\ map[w].clockIn = page.clockIn /\ map[w].last = page.last
        /\ \A w \in DOMAIN queue : /\ queue[w] = ReviewDetail(sessions, w, events)
                                   /\ page.overall = "verified" => queue[w].gpsVerified
        /\ \A i \in out : queue[events[i].worker].gpsVerified = events[i].verified

(* A rank is a percentage.  Whoever is to be decided on stands before      *)
(* whoever is decided, and nobody below one of the same state whose record *)
(* is no better in anything.                                               *)
RankingFair(apps) ==
    LET order == RankApplications(apps)
        Shown(i) == SelectSeq(apps, LAMBDA a : a.status \in APPLICANT_STATUSES)[order[i]]
        NoBetter(a, b) == /\ a.reliability <= b.reliability /\ a.onTime <= b.onTime
                          /\ a.rating <= b.rating
                          /\ ComputeDistanceScore(a.distance) <= ComputeDistanceScore(b.distance)
    IN  /\ \A i \in DOMAIN order : RankScore(Shown(i)) \in 0 .. 100
        /\ \A i, j \in DOMAIN order : i < j =>
              /\ Shown(j).status \in {"applied", "pending"} =>
                    Shown(i).status \in {"applied", "pending"}
              /\ StatusOrder(Shown(i).status) = StatusOrder(Shown(j).status)
                    /\ NoBetter(Shown(i), Shown(j)) => RankScore(Shown(i)) = RankScore(Shown(j))

(* The pages of a list and its export hold every row once; the board of    *)
(* active jobs is the list of the active states; and a template is never   *)
(* older than a job of its kind that is none.                              *)
JobListsAgree(jobs, q, size) ==
    LET board == ActiveJobs(jobs)
        templates == RecentTemplates(jobs)
        all == [q EXCEPT !.status = BOARD_STATUSES]
        rows == ExportJobs(jobs, q, size)
    IN  /\ Len(rows) = Cardinality(JobsWhere(jobs, q)) /\ ToSet(rows) = JobsWhere(jobs, q)
        /\ \A i \in 1 .. Len(rows) - 1 :
              IF q.desc THEN jobs[rows[i]][q.sortBy] >= jobs[rows[i + 1]][q.sortBy]
              ELSE jobs[rows[i]][q.sortBy] <= jobs[rows[i + 1]][q.sortBy]
        /\ ToSet(ExportJobs(jobs, all, size)) \subseteq board
        /\ \A j \in board : j \notin templates => \A t \in templates : t > j

(* Batches over two spans that follow each other invoice what one over     *)
(* both does, no job twice; the batches of the workers and one job at a    *)
(* time add up to it, but for jobs nobody was assigned to.                 *)
InvoicesAddUp(jobs, a, b, c, workers) ==
    LET all == GenerateBatch(jobs, a, c, {})
        early == GenerateBatch(jobs, a, b, {})
        late == GenerateBatch(jobs, b, c, {})
        nobody == {j \in all.lines : jobs[j].worker = "nobody"}
    IN  /\ early.lines \cup late.lines = all.lines /\ early.lines \cap late.lines = {}
        /\ early.total + late.total = all.total
        /\ SumUp(LAMBDA w : GenerateBatch(jobs, a, c, {w}).total, workers)
              = all.total - SumUp(LAMBDA j : jobs[j].pay, nobody)
        /\ SumUp(LAMBDA j : GenerateInvoice(jobs, j).total, all.lines)
              = all.total - SumUp(LAMBDA j : jobs[j].pay, nobody)
============================================================================
