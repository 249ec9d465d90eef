--------------------------------- MODULE Feed ---------------------------------
(***************************************************************************)
(* Which workers learn of a job of one employer: the audience of the job   *)
(* and the cron that opens it (team-first-flip.cron.ts), the feed          *)
(* (jobs.service.ts), the team and the blocks (employer-workers.service.ts)*)
(* and the fan-out of a new job (employer-jobs.service.ts).                *)
(***************************************************************************)
EXTENDS Integers, FiniteSets, Sequences

CONSTANTS
    Posting,      \* rows of Job
    Viewer,       \* workers
    HourlyPushes  \* pushes of new jobs a worker gets in an hour

ASSUME FeedAssumption == HourlyPushes \in Nat

VARIABLES
    posting,      \* Posting -> the row
    viewer,       \* Viewer -> what the worker's rows say
    onTeam,       \* workers with an EmployerTeamMember row
    blocked,      \* workers with an EmployerBlock row
    applied,      \* pairs of a worker and a job applied to
    flipping,     \* the jobs the cron has read and not yet handled
    fan,          \* Posting -> the fan-out of its push
    bell,         \* Viewer -> notifications of new jobs in the last hour
    buzz,         \* Viewer -> of these, the ones also pushed
    overlaps      \* ghost: how often in the hour a fan-out read beside another

feedVars ==
    <<posting, viewer, onTeam, blocked, applied, flipping, fan, bell, buzz, overlaps>>
-----------------------------------------------------------------------------
Audience == {"public", "team_first"}

\* wait: what is left of the thirty minutes since the job was published.
PostingRow ==
    [status : {"none", "draft", "open", "closed"}, audience : Audience,
     flipped : BOOLEAN, waiting : BOOLEAN]

\* home: how far from the job, within the radius the worker prefers, within the
\* 25 km the feed has at least, or beyond; jobs: completed for this employer.
ViewerRow == [home : {"unset", "near", "floor", "far"}, alerts : BOOLEAN, jobs : 0..2]

NoFan == [at |-> "off"]
FanRow ==
    {NoFan}
    \union [at : {"start"}, team : BOOLEAN]
    \union [at : {"tell"}, todo : SUBSET Viewer, mute : SUBSET Viewer]

Feeding == \E j \in Posting : fan[j] # NoFan

FeedTypeOK ==
    /\ posting \in [Posting -> PostingRow]
    /\ viewer \in [Viewer -> ViewerRow]
    /\ onTeam \subseteq Viewer /\ blocked \subseteq Viewer
    /\ applied \subseteq Viewer \X Posting
    /\ flipping \subseteq Posting
    /\ fan \in [Posting -> FanRow]
    /\ bell \in [Viewer -> Nat] /\ buzz \in [Viewer -> Nat] /\ overlaps \in Nat

FeedInit ==
    /\ posting = [j \in Posting |-> [status |-> "none", audience |-> "public",
                                     flipped |-> FALSE, waiting |-> FALSE]]
    /\ viewer \in [Viewer -> {v \in ViewerRow : v.jobs = 0}]
    /\ onTeam = {} /\ blocked = {} /\ applied = {} /\ flipping = {}
    /\ fan = [j \in Posting |-> NoFan]
    /\ bell = [w \in Viewer |-> 0] /\ buzz = [w \in Viewer |-> 0] /\ overlaps = 0
-----------------------------------------------------------------------------
(* The job *)
FanOut(j, audience) ==
    fan' = [fan EXCEPT ![j] = [at |-> "start", team |-> audience = "team_first"]]

\* create, as a draft or open; a public job counts as flipped.
PostJob(j, audience, postNow) ==
    /\ posting[j].status = "none"
    /\ posting' = [posting EXCEPT ![j] =
         [status |-> IF postNow THEN "open" ELSE "draft", audience |-> audience,
          flipped |-> audience = "public", waiting |-> postNow]]
    /\ IF postNow THEN FanOut(j, audience) ELSE UNCHANGED fan
    /\ UNCHANGED <<viewer, onTeam, blocked, applied, flipping, bell, buzz, overlaps>>

\* update leaves audienceFlippedAt as it is, also when it narrows the audience.
EditAudience(j, audience) ==
    /\ posting[j].status \in {"draft", "open"}
    /\ posting' = [posting EXCEPT ![j].audience = audience]
    /\ UNCHANGED <<viewer, onTeam, blocked, applied, flipping, fan, bell, buzz, overlaps>>

PublishJob(j) ==
    /\ posting[j].status = "draft"
    /\ posting' = [posting EXCEPT ![j].status = "open", ![j].waiting = TRUE,
                                  ![j].flipped = posting[j].audience = "public"]
    /\ FanOut(j, posting[j].audience)
    /\ UNCHANGED <<viewer, onTeam, blocked, applied, flipping, bell, buzz, overlaps>>

\* Cancelled, filled, or its start has passed (module JobEscrow).
CloseJob(j) ==
    /\ posting[j].status \in {"draft", "open"}
    /\ posting' = [posting EXCEPT ![j].status = "closed"]
    /\ UNCHANGED <<viewer, onTeam, blocked, applied, flipping, fan, bell, buzz, overlaps>>

HalfHour(j) ==
    /\ posting[j].waiting
    /\ posting' = [posting EXCEPT ![j].waiting = FALSE]
    /\ UNCHANGED <<viewer, onTeam, blocked, applied, flipping, fan, bell, buzz, overlaps>>

TeamOnly(j) == /\ posting[j].status = "open" /\ posting[j].audience = "team_first"
               /\ ~ posting[j].flipped

\* Variant: as if jobs that wait were taken and the others left.
FlipCronEarly ==
    /\ flipping = {}
    /\ flipping' = {j \in Posting : TeamOnly(j) /\ posting[j].waiting}
    /\ flipping' # {}
    /\ UNCHANGED <<posting, viewer, onTeam, blocked, applied, fan, bell, buzz, overlaps>>

FlipCron ==
    /\ flipping = {}
    /\ flipping' = {j \in Posting : TeamOnly(j) /\ ~ posting[j].waiting}
    /\ flipping' # {}
    /\ UNCHANGED <<posting, viewer, onTeam, blocked, applied, fan, bell, buzz, overlaps>>

\* By id, whatever became of the job since it was read.
FlipJob(j) ==
    /\ j \in flipping
    /\ posting' = [posting EXCEPT ![j].audience = "public", ![j].flipped = TRUE]
    /\ flipping' = flipping \ {j}
    /\ UNCHANGED <<viewer, onTeam, blocked, applied, fan, bell, buzz, overlaps>>
-----------------------------------------------------------------------------
(* The team: members added by hand, and whoever has done two jobs. *)
SetTeam(w) ==
    /\ onTeam' = IF w \in onTeam THEN onTeam \ {w} ELSE onTeam \union {w}
    /\ UNCHANGED <<posting, viewer, blocked, applied, flipping, fan, bell, buzz, overlaps>>

SetBlock(w) ==
    /\ blocked' = IF w \in blocked THEN blocked \ {w} ELSE blocked \union {w}
    /\ UNCHANGED <<posting, viewer, onTeam, applied, flipping, fan, bell, buzz, overlaps>>

CompleteJob(w) ==
    /\ viewer[w].jobs < 2
    /\ viewer' = [viewer EXCEPT ![w].jobs = @ + 1]
    /\ UNCHANGED <<posting, onTeam, blocked, applied, flipping, fan, bell, buzz, overlaps>>

Experienced == {w \in Viewer : viewer[w].jobs >= 2}
TeamList == onTeam \union Experienced

\* profile: what the employer is shown of a worker.
WorkerProfile(w) ==
    [onTeam |-> w \in onTeam \/ viewer[w].jobs >= 2, blocked |-> w \in blocked]

\* browse: ten kilometres around the business, which no home beyond the floor is in.
Browse == {w \in Viewer : viewer[w].home \in {"near", "floor"}}
-----------------------------------------------------------------------------
(* The worker *)

\* The radius asked for or preferred is raised to the floor: a narrower one is not
\* honoured.  Only the team by hand sees a team-first job; blocks are not read.
InFeed(w, j) ==
    /\ posting[j].status = "open" /\ <<w, j>> \notin applied
    /\ posting[j].audience = "public" \/ w \in onTeam
    /\ viewer[w].home # "far"

\* A page: the first 4 * limit + 1 by start time, ranked by relevance; the cursor
\* is the last job shown, so the next page skips the jobs that start before it and
\* ranked lower.  A job is a pair: its place by (start, id), its rank by relevance.
FeedPage(jobs, after, limit) ==
    LET left == {j \in jobs : j[1] > after}
        near == {j \in left : Cardinality({i \in left : i[1] < j[1]}) <= 4 * limit}
        page == {j \in near : Cardinality({i \in near : i[2] > j[2]}) < limit}
        last == CHOOSE j \in page : \A i \in page : j[2] <= i[2] IN
    [page |-> page, cursor |-> IF near = page THEN 0 ELSE last[1]]

FeedWalk(jobs, limit) ==
    LET pages == Cardinality(jobs) + 1
        Walked[n \in 0..pages] ==
          IF n = 0 THEN [seen |-> {}, after |-> 0, more |-> TRUE]
          ELSE LET w == Walked[n - 1]
                   p == FeedPage(jobs, w.after, limit) IN
               IF w.more THEN [seen |-> w.seen \union p.page, after |-> p.cursor,
                               more |-> p.cursor # 0]
               ELSE w IN
    Walked[pages]

\* detail and apply ask neither for the audience nor for a block.
ApplyFor(w, j) ==
    /\ posting[j].status = "open" /\ <<w, j>> \notin applied
    /\ applied' = applied \union {<<w, j>>}
    /\ UNCHANGED <<posting, viewer, onTeam, blocked, flipping, fan, bell, buzz, overlaps>>
-----------------------------------------------------------------------------
(* The push of a new job: team, workers and counts are read, then each is told. *)
FanRead(j) ==
    /\ fan[j].at = "start"
    /\ fan' = [fan EXCEPT ![j] =
         [at |-> "tell",
          todo |-> {w \in Viewer : /\ viewer[w].home = "near" /\ viewer[w].alerts
                                   /\ fan[j].team => w \in onTeam},
          mute |-> {w \in Viewer : bell[w] >= HourlyPushes}]]
    /\ overlaps' = overlaps + Cardinality({i \in Posting \ {j} : fan[i].at = "tell"})
    /\ UNCHANGED <<posting, viewer, onTeam, blocked, applied, flipping, bell, buzz>>

\* Variant: as if the limit were forgotten by the time a worker is told.
FanTellAll(j, w) ==
    /\ fan[j].at = "tell" /\ w \in fan[j].todo
    /\ bell' = [bell EXCEPT ![w] = @ + 1]
    /\ buzz' = [buzz EXCEPT ![w] = @ + 1]
    /\ fan' = [fan EXCEPT ![j].todo = @ \ {w}]
    /\ UNCHANGED <<posting, viewer, onTeam, blocked, applied, flipping, overlaps>>

FanTell(j, w) ==
    /\ fan[j].at = "tell" /\ w \in fan[j].todo
    /\ bell' = [bell EXCEPT ![w] = @ + 1]
    /\ buzz' = IF w \in fan[j].mute THEN buzz ELSE [buzz EXCEPT ![w] = @ + 1]
    /\ fan' = [fan EXCEPT ![j].todo = @ \ {w}]
    /\ UNCHANGED <<posting, viewer, onTeam, blocked, applied, flipping, overlaps>>

\* All told, or an error, which is only logged.
FanEnds(j) ==
    /\ fan[j].at = "tell"
    /\ fan' = [fan EXCEPT ![j] = NoFan]
    /\ UNCHANGED <<posting, viewer, onTeam, blocked, applied, flipping, bell, buzz, overlaps>>

HourPasses ==
    /\ \E w \in Viewer : bell[w] > 0
    /\ ~ Feeding
    /\ bell' = [w \in Viewer |-> 0] /\ buzz' = [w \in Viewer |-> 0] /\ overlaps' = 0
    /\ UNCHANGED <<posting, viewer, onTeam, blocked, applied, flipping, fan>>
-----------------------------------------------------------------------------
FeedNext ==
    \/ \E j \in Posting :
         \/ \E audience \in Audience :
              \/ \E postNow \in BOOLEAN : PostJob(j, audience, postNow)
              \/ EditAudience(j, audience)
         \/ PublishJob(j) \/ CloseJob(j) \/ HalfHour(j) \/ FlipJob(j)
         \/ FanRead(j) \/ FanEnds(j)
         \/ \E w \in Viewer : FanTell(j, w) \/ ApplyFor(w, j)
    \/ \E w \in Viewer : SetTeam(w) \/ SetBlock(w) \/ CompleteJob(w)
    \/ FlipCron \/ HourPasses

\* Time passes and the cron runs every minute.
FeedFair == \A j \in Posting : WF_feedVars(HalfHour(j)) /\ WF_feedVars(FlipJob(j))

FeedSpec == FeedInit /\ [][FeedNext]_feedVars /\ FeedFair /\ WF_feedVars(FlipCron)
-----------------------------------------------------------------------------
(* A job published for the team first is opened to everybody or closed, whatever
   edits cross the cron (team-first-flip.cron.ts:10).  It does not hold of a job
   narrowed by an edit after it was flipped, which stays with the team. *)
TeamFirstOpens == \A j \in Posting : TeamOnly(j) ~> ~ TeamOnly(j)

Told(j, w) == fan[j].at = "tell" /\ w \in fan[j].todo
StillOffered(j, w) ==
    /\ posting[j].status = "open" /\ <<w, j>> \notin applied
    /\ w \in onTeam \/ posting[j].audience = "public"

(* A worker gets no more pushes in an hour than the limit, and one more for each
   time a fan-out read the counts while another was still telling
   (employer-jobs.service.ts:1442 reads them before it tells anybody); whoever
   is told finds the job in the feed unless it was applied for, closed or
   narrowed, or the worker left the team. *)
PushesLimited ==
    /\ \A w \in Viewer : buzz[w] <= bell[w]
                         /\ buzz[w] <= HourlyPushes + overlaps
    /\ \A j \in Posting, w \in Viewer :
         Told(j, w) /\ StillOffered(j, w) => InFeed(w, j)

(* Walked to its end the feed shows every job when the sooner is the more
   relevant; when a later job ranks higher the ones that start before it and are
   not on its page are never shown (jobs.service.ts:100). *)
FeedShowsSooner(jobs, limit) ==
    (\A i, j \in jobs : i[1] < j[1] => i[2] > j[2]) =>
        FeedWalk(jobs, limit).seen = jobs /\ ~ FeedWalk(jobs, limit).more
===============================================================================
