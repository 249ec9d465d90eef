-------------------------------- MODULE Ratings --------------------------------
(***************************************************************************)
(* Mutual blind ratings of a session (ratings.service.ts), the block on    *)
(* posting with unrated work (employer-jobs.service.ts) and the score of   *)
(* reliability (reliability-recompute.cron.ts), for one worker and one     *)
(* employer.                                                               *)
(*                                                                         *)
(* A rating is a transaction that reads the counterpart, inserts, reads    *)
(* all ratings of its subject and writes the aggregates: it sees what was  *)
(* committed before each read, and its own row.                            *)
(***************************************************************************)
EXTENDS Integers, FiniteSets

CONSTANTS
    Shift,        \* rows of WorkSession
    Rater         \* requests in flight

VARIABLES
    shift,        \* Shift -> verificationState, and whether completedAt is set
    rating,       \* Shift -> author -> the row
    shown,        \* subject -> the ratings its average and count were made of
    rater,        \* Rater -> what it is doing and what it has seen
    crossed       \* ratings whose transaction ran beside another one

ratingVars == <<shift, rating, shown, rater, crossed>>
-----------------------------------------------------------------------------
Author == {"worker", "employer"}
Other(a) == IF a = "worker" THEN "employer" ELSE "worker"

Rateable == {"employer_confirmed", "auto_released", "disputed"}
Paid == {"employer_confirmed", "auto_released"}

\* late: the work was rated, or done, more than its window ago (48 h, 24 h).
RatingRow == [there : BOOLEAN, unblinded : BOOLEAN, late : BOOLEAN]
ShiftRow == [state : Rateable \union {"auto_review"}, done : BOOLEAN, late : BOOLEAN]
Unrated == [there |-> FALSE, unblinded |-> FALSE, late |-> FALSE]

NotRating == [at |-> "idle"]
RaterRow ==
    {NotRating}
    \union [at : {"open"}, s : Shift, a : Author]
    \union [at : {"insert"}, s : Shift, a : Author, other : BOOLEAN]
    \union [at : {"commit"}, s : Shift, a : Author, other : BOOLEAN, saw : SUBSET Shift]

RatingsTypeOK ==
    /\ shift \in [Shift -> ShiftRow]
    /\ rating \in [Shift -> [Author -> RatingRow]]
    /\ shown \in [Author -> SUBSET Shift]
    /\ rater \in [Rater -> RaterRow]
    /\ crossed \subseteq Shift \X Author

RatingsInit ==
    /\ shift = [s \in Shift |-> [state |-> "auto_review", done |-> FALSE, late |-> FALSE]]
    /\ rating = [s \in Shift |-> [a \in Author |-> Unrated]]
    /\ shown = [a \in Author |-> {}]
    /\ rater = [k \in Rater |-> NotRating]
    /\ crossed = {}
-----------------------------------------------------------------------------
\* What ends a session (module JobEscrow): payment completes the application, a
\* dispute does not.
EndShift(s, state) ==
    /\ shift[s].state = "auto_review"
    /\ shift' = [shift EXCEPT ![s].state = state, ![s].done = state \in Paid]
    /\ UNCHANGED <<rating, shown, rater, crossed>>

\* createRating reads the session: only a terminal one may be rated.
OpenRating(k, s, a) ==
    /\ rater[k] = NotRating /\ shift[s].state \in Rateable
    /\ rater' = [rater EXCEPT ![k] = [at |-> "open", s |-> s, a |-> a]]
    /\ UNCHANGED <<shift, rating, shown, crossed>>

InTransaction == {k \in Rater : rater[k].at \in {"insert", "commit"}}
RatingOf(k) == <<rater[k].s, rater[k].a>>

\* The transaction begins by looking for the counterpart.
ReadCounterpart(k) ==
    /\ rater[k].at = "open"
    /\ LET s == rater[k].s
           a == rater[k].a IN
       rater' = [rater EXCEPT ![k] = [at |-> "insert", s |-> s, a |-> a,
                                      other |-> rating[s][Other(a)].there]]
    /\ crossed' = IF InTransaction = {} THEN crossed
                  ELSE crossed \union {RatingOf(k)} \union {RatingOf(j) : j \in InTransaction}
    /\ UNCHANGED <<shift, rating, shown>>

\* A session is rated once by each side: the second insert waits for the first
\* to commit and answers 409.
InsertRating(k) ==
    LET s == rater[k].s
        a == rater[k].a IN
    /\ rater[k].at = "insert"
    /\ \A j \in Rater \ {k} : ~ (rater[j].at = "commit" /\ RatingOf(j) = RatingOf(k))
    /\ rater' = [rater EXCEPT ![k] =
         IF rating[s][a].there THEN NotRating
         ELSE [at |-> "commit", s |-> s, a |-> a, other |-> rater[k].other,
               saw |-> {s} \union {t \in Shift : rating[t][a].there}]]
    /\ UNCHANGED <<shift, rating, shown, crossed>>

\* Variant: as if a rating were visible when it is written.
CommitRatingOpen(k) ==
    LET s == rater[k].s
        a == rater[k].a IN
    /\ rater[k].at = "commit"
    /\ rating' = [rating EXCEPT ![s][a] = [there |-> TRUE, unblinded |-> TRUE, late |-> FALSE]]
    /\ shown' = [shown EXCEPT ![Other(a)] = rater[k].saw]
    /\ rater' = [rater EXCEPT ![k] = NotRating]
    /\ UNCHANGED <<shift, crossed>>

\* With a counterpart both are shown at once, else the row is blind for 48 hours.
\* The aggregates of the subject are made of what was read.
CommitRating(k) ==
    LET s == rater[k].s
        a == rater[k].a IN
    /\ rater[k].at = "commit"
    /\ rating' = [rating EXCEPT
         ![s] = [b \in Author |->
                   IF b = a THEN [there |-> TRUE, unblinded |-> rater[k].other, late |-> FALSE]
                   ELSE [rating[s][b] EXCEPT !.unblinded = @ \/ rater[k].other]]]
    /\ shown' = [shown EXCEPT ![Other(a)] = rater[k].saw]
    /\ rater' = [rater EXCEPT ![k] = NotRating]
    /\ UNCHANGED <<shift, crossed>>

BlindWindowEnds(s, a) ==
    /\ rating[s][a].there /\ ~ rating[s][a].late
    /\ rating' = [rating EXCEPT ![s][a].late = TRUE]
    /\ UNCHANGED <<shift, shown, rater, crossed>>

\* A day after the session is done an unrated one blocks new jobs.
DayPasses(s) ==
    /\ shift[s].done /\ ~ shift[s].late
    /\ shift' = [shift EXCEPT ![s].late = TRUE]
    /\ UNCHANGED <<rating, shown, rater, crossed>>

RatingsNext ==
    \/ \E k \in Rater :
         \/ \E s \in Shift, a \in Author : OpenRating(k, s, a)
         \/ ReadCounterpart(k) \/ InsertRating(k) \/ CommitRating(k)
    \/ \E s \in Shift : DayPasses(s) \/ \E state \in Rateable : EndShift(s, state)
    \/ \E s \in Shift, a \in Author : BlindWindowEnds(s, a)

RatingsSpec == RatingsInit /\ [][RatingsNext]_ratingVars
-----------------------------------------------------------------------------
(* What the lists show *)

\* visibleAt <= now: in the received lists and in the answer (visible_to_subject).
Visible(s, a) == rating[s][a].there /\ (rating[s][a].unblinded \/ rating[s][a].late)
Received(subject) == {s \in Shift : Visible(s, Other(subject))}

\* pendingForWorker and pendingForEmployer: a disputed session would be listed if
\* its application were completed.
Pending(a) == {s \in Shift : /\ shift[s].state \in Rateable /\ shift[s].done
                             /\ ~ rating[s][a].there}

\* PENDING_RATINGS_BLOCK_POSTING.
MayPost == ~ \E s \in Shift : /\ shift[s].state \in Paid /\ shift[s].late
                              /\ ~ rating[s]["employer"].there

(* Nobody reads what the other side wrote within two days unless both have
   rated; and both do at once when both have, unless their transactions crossed
   (ratings.service.ts:122).  In the same way the average and the count of a
   subject (ratings.service.ts:479) miss ratings that crossed, and no other.
   Whoever may not post is shown what to rate. *)
BlindUntilBoth ==
    /\ \A s \in Shift, a \in Author :
         Visible(s, a) /\ ~ rating[s][a].late => rating[s][Other(a)].there
    /\ \A s \in Shift :
         (\A a \in Author : rating[s][a].there /\ <<s, a>> \notin crossed)
           => \A a \in Author : s \in Received(a)
    /\ \A s \in Shift, a \in Author :
         rating[s][a].there /\ s \notin shown[Other(a)] => <<s, a>> \in crossed
    /\ ~ MayPost => Pending("employer") # {}
=============================================================================
