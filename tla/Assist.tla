-------------------------------- MODULE Assist --------------------------------
(***************************************************************************)
(* What language models do for workers: the summary of a job, kept for a   *)
(* week (job-summary.service.ts); the carousel of recommended jobs, kept   *)
(* for a quarter of an hour in the memory of the process                   *)
(* (job-recommend.service.ts); the profile drafted from a sentence, so     *)
(* many times a day (profile-extract.service.ts); and the clients that ask *)
(* the models (gemini.client.ts, anthropic.client.ts).  Support tickets    *)
(* (help.service.ts) are limited in the same way.                          *)
(***************************************************************************)
EXTENDS Integers, FiniteSets, FiniteSetsExt, Sequences, SequencesExt

CONSTANTS
    Asker,          \* workers
    Gig,            \* jobs
    Place,          \* places a worker asks from, to about a kilometre
    AssistCall,     \* requests in flight
    MaxExtracts,    \* drafts a worker may ask for in a day
    MaxTickets,     \* tickets a worker may open in a day
    LastEdit        \* how often a job is edited

ASSUME AssistAssumption ==
    /\ IsFiniteSet(AssistCall)
    /\ MaxTickets \in Nat \ {0} /\ MaxExtracts \in Nat /\ LastEdit \in Nat

VARIABLES
    gig,            \* Gig -> which edit of it stands, and whether it is offered
    summary,        \* Gig -> its JobSummary row
    carousel,       \* Asker -> what the process remembers
    extracts,       \* Asker -> drafts asked for in the window
    tickets,        \* Asker -> SupportTicket rows of the last day
    assistCall      \* what each call has read

assistVars == <<gig, summary, carousel, extracts, tickets, assistCall>>
-------------------------------------------------------------------------------
NoSummary == [kept |-> "no", edit |-> 0]
NoCarousel == [kept |-> FALSE]
CarouselRow ==
    {NoCarousel}
    \union [kept : {TRUE}, place : Place, jobs : SUBSET Gig, from : {"model", "empty"}]
NoAssist == [at |-> "idle"]
AssistRow ==
    {NoAssist}
    \union [at : {"summary"}, j : Gig, edit : 0 .. LastEdit]
    \union [at : {"rank"}, w : Asker, place : Place, pool : SUBSET Gig]
    \union [at : {"draft", "ticket"}, w : Asker]

AssistTypeOK ==
    /\ gig \in [Gig -> [edit : 0 .. LastEdit, offered : BOOLEAN]]
    /\ summary \in [Gig -> [kept : {"no", "fresh", "expired"}, edit : 0 .. LastEdit]]
    /\ carousel \in [Asker -> CarouselRow]
    /\ extracts \in [Asker -> 0 .. MaxExtracts]
    /\ tickets \in [Asker -> Nat]
    /\ assistCall \in [AssistCall -> AssistRow]

AssistInit ==
    /\ gig = [j \in Gig |-> [edit |-> 0, offered |-> TRUE]]
    /\ summary = [j \in Gig |-> NoSummary]
    /\ carousel = [w \in Asker |-> NoCarousel]
    /\ extracts = [w \in Asker |-> 0]
    /\ tickets = [w \in Asker |-> 0]
    /\ assistCall = [k \in AssistCall |-> NoAssist]

Asks(k, c) == assistCall[k] = NoAssist /\ assistCall' = [assistCall EXCEPT ![k] = c]
Gets(k) == assistCall' = [assistCall EXCEPT ![k] = NoAssist]

\* What a client returns: the stub's answer when no key is configured, the text of
\* the model, an empty text when it was blocked; or it throws: the status is not
\* 2xx, the call timed out and was aborted, the network failed.
ModelReply == {"stub", "text", "blank", "throws"}
-------------------------------------------------------------------------------
(* The summary *)

\* A row that is not expired is the answer, whatever became of the job since.
AskSummary(k, j) ==
    /\ summary[j].kept # "fresh"
    /\ Asks(k, [at |-> "summary", j |-> j, edit |-> gig[j].edit])
    /\ UNCHANGED <<gig, summary, carousel, extracts, tickets>>

\* The upsert of the call that ends last stands; the stub's answer is kept too.
GetSummary(k, reply) ==
    /\ assistCall[k].at = "summary"
    /\ summary' = IF reply \in {"stub", "text"}
                  THEN [summary EXCEPT ![assistCall[k].j] =
                           [kept |-> "fresh", edit |-> assistCall[k].edit]]
                  ELSE summary
    /\ Gets(k)
    /\ UNCHANGED <<gig, carousel, extracts, tickets>>

SummaryExpires(j) ==
    /\ summary[j].kept = "fresh"
    /\ summary' = [summary EXCEPT ![j].kept = "expired"]
    /\ UNCHANGED <<gig, carousel, extracts, tickets, assistCall>>

\* The job is edited, or taken: nobody tells the summary or the carousel.
EditGig(j) ==
    /\ gig[j].edit < LastEdit
    /\ gig' = [gig EXCEPT ![j].edit = @ + 1]
    /\ UNCHANGED <<summary, carousel, extracts, tickets, assistCall>>

TakeGig(j) ==
    /\ gig[j].offered
    /\ gig' = [gig EXCEPT ![j].offered = FALSE]
    /\ UNCHANGED <<summary, carousel, extracts, tickets, assistCall>>
-------------------------------------------------------------------------------
(* The carousel *)
Offered == {j \in Gig : gig[j].offered}

\* The feed of this place is the pool; an empty one is remembered at once.
AskRanking(k, w, p) ==
    /\ ~ (carousel[w].kept /\ carousel[w].place = p)
    /\ IF Offered = {}
       THEN /\ assistCall[k] = NoAssist /\ UNCHANGED assistCall
            /\ carousel' = [carousel EXCEPT ![w] =
                  [kept |-> TRUE, place |-> p, jobs |-> {}, from |-> "empty"]]
       ELSE /\ Asks(k, [at |-> "rank", w |-> w, place |-> p, pool |-> Offered])
            /\ UNCHANGED carousel
    /\ UNCHANGED <<gig, summary, extracts, tickets>>

\* When the model fails the pool is shown in the order of the feed; that, and the
\* stub's answer, are not remembered.  A blank answer ranks nothing and is.
GetRanking(k, reply) ==
    /\ assistCall[k].at = "rank"
    /\ carousel' = IF reply \in {"text", "blank"}
                   THEN [carousel EXCEPT ![assistCall[k].w] =
                            [kept |-> TRUE, place |-> assistCall[k].place,
                             jobs |-> assistCall[k].pool, from |-> "model"]]
                   ELSE carousel
    /\ Gets(k)
    /\ UNCHANGED <<gig, summary, extracts, tickets>>

QuarterPasses(w) ==
    /\ carousel[w].kept
    /\ carousel' = [carousel EXCEPT ![w] = NoCarousel]
    /\ UNCHANGED <<gig, summary, extracts, tickets, assistCall>>

\* parseRanking: the model's ids in its order, those without an id left out;
\* anything that is not a ranking ranks nothing.
ParseRanking(rows) == SelectSeq(rows, LAMBDA j : j # "")

\* stitchRanking: the ids the pool holds, each once, then the rest of the pool in
\* its order, and of these the first `limit`.
StitchRanking(pool, ranking, limit) ==
    LET inPool == SelectSeq(ranking, LAMBDA j : \E i \in DOMAIN pool : pool[i] = j)
        first == SelectSeq([i \in DOMAIN inPool |->
                               IF \E h \in 1 .. i - 1 : inPool[h] = inPool[i] THEN ""
                               ELSE inPool[i]], LAMBDA j : j # "")
        rest == SelectSeq(pool, LAMBDA j : ~ \E i \in DOMAIN first : first[i] = j)
        all == first \o rest
    IN  SubSeq(all, 1, Min({limit, Len(all)}))

Fallback(pool, limit) == SubSeq(pool, 1, Min({limit, Len(pool)}))

\* The stub puts the jobs of the worker's skill first, then the better employers.
StubRanking(pool, matches, rating) ==
    LET Rank(i) == (IF pool[i] \in matches THEN 100 ELSE 0) + rating[pool[i]]
        Before(i, j) == Rank(i) > Rank(j) \/ (Rank(i) = Rank(j) /\ i < j)
    IN  [n \in DOMAIN pool |->
            pool[CHOOSE i \in DOMAIN pool :
                    Cardinality({j \in DOMAIN pool : Before(j, i)}) = n - 1]]
-------------------------------------------------------------------------------
(* The draft of a profile *)

\* Variant: as if a draft were not limited.
AskAnyDraft(k, w) ==
    /\ Asks(k, [at |-> "draft", w |-> w])
    /\ extracts' = [extracts EXCEPT ![w] = @ + 1]
    /\ UNCHANGED <<gig, summary, carousel, tickets>>

\* The window begins with the first draft and lives in memory.
AskDraft(k, w) ==
    /\ extracts[w] < MaxExtracts
    /\ Asks(k, [at |-> "draft", w |-> w])
    /\ extracts' = [extracts EXCEPT ![w] = @ + 1]
    /\ UNCHANGED <<gig, summary, carousel, tickets>>

\* Nothing is written: the draft, or 502, is the answer.
GetDraft(k) ==
    /\ assistCall[k].at = "draft"
    /\ Gets(k)
    /\ UNCHANGED <<gig, summary, carousel, extracts, tickets>>

SKILLS == {"loader", "driver", "unloader", "general_labor", "welder"}

\* What is kept of the model's draft: a skill that exists, a radius of 1 to 20 km
\* (of a number in tenths), a confidence of 0 to 100; -1 is missing.
Sanitised(raw) ==
    [skill |-> IF raw.skill \in SKILLS THEN raw.skill ELSE "",
     radius |-> IF raw.radius = -1 THEN -1
                ELSE Max({1, Min({20, (raw.radius + 5) \div 10})}),
     confidence |-> Max({0, Min({100, raw.confidence})})]
-------------------------------------------------------------------------------
(* Support tickets: the last day's are counted, then one is created. *)
AskTicket(k, w) ==
    /\ tickets[w] < MaxTickets
    /\ Asks(k, [at |-> "ticket", w |-> w])
    /\ UNCHANGED <<gig, summary, carousel, extracts, tickets>>

OpenTicket(k) ==
    /\ assistCall[k].at = "ticket"
    /\ tickets' = [tickets EXCEPT ![assistCall[k].w] = @ + 1]
    /\ Gets(k)
    /\ UNCHANGED <<gig, summary, carousel, extracts>>

\* A day passes with nothing in flight, or the process restarts: what it remembers
\* is gone, the calls too, and the tickets stay.
DayOver ==
    /\ \A k \in AssistCall : assistCall[k] = NoAssist
    /\ \E w \in Asker : tickets[w] + extracts[w] > 0
    /\ extracts' = [w \in Asker |-> 0] /\ tickets' = [w \in Asker |-> 0]
    /\ UNCHANGED <<gig, summary, carousel, assistCall>>

Restart ==
    /\ carousel' = [w \in Asker |-> NoCarousel]
    /\ extracts' = [w \in Asker |-> 0]
    /\ assistCall' = [k \in AssistCall |-> NoAssist]
    /\ UNCHANGED <<gig, summary, tickets>>
-------------------------------------------------------------------------------
AssistNext ==
    \/ \E k \in AssistCall :
         \/ \E j \in Gig : AskSummary(k, j)
         \/ \E w \in Asker : \/ \E p \in Place : AskRanking(k, w, p)
                             \/ AskDraft(k, w) \/ AskTicket(k, w)
         \/ \E reply \in ModelReply : GetSummary(k, reply) \/ GetRanking(k, reply)
         \/ GetDraft(k) \/ OpenTicket(k)
    \/ \E j \in Gig : SummaryExpires(j) \/ EditGig(j) \/ TakeGig(j)
    \/ \E w \in Asker : QuarterPasses(w)
    \/ DayOver \/ Restart

AssistSpec == AssistInit /\ [][AssistNext]_assistVars
-------------------------------------------------------------------------------
(* Whatever the model ranks, and leaves out, repeats or invents: the carousel shows
   jobs of the pool, none twice, as many as asked for or there are
   (job-recommend.service.ts:298); with the model down it shows as many. *)
RankingSound(pool, rows, limit) ==
    LET shown == StitchRanking(pool, ParseRanking(rows), limit)
        n == Min({limit, Len(pool)})
        places == {i \in DOMAIN pool : \E h \in DOMAIN shown : shown[h] = pool[i]}
    IN  /\ Len(shown) = n /\ Len(Fallback(pool, limit)) = n
        /\ Cardinality(places) = n
        /\ \A h \in DOMAIN shown : \E i \in DOMAIN pool : pool[i] = shown[h]

(* The stub ranks the whole pool, each job once. *)
StubRanksAll(pool, matches, rating) ==
    LET ranked == StubRanking(pool, matches, rating) IN
    \A i \in DOMAIN pool : Cardinality({n \in DOMAIN ranked : ranked[n] = pool[i]}) = 1

(* A worker opens no more tickets in a day than the limit, and one for each other
   call that was counting at the same time (help.service.ts:36). *)
TicketsLimited ==
    \A w \in Asker : tickets[w] < MaxTickets + Cardinality(AssistCall)
===============================================================================
