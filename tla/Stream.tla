-------------------------------- MODULE Stream --------------------------------
(***************************************************************************)
(* The hints that keep the dashboards current (stream.publisher.ts,        *)
(* stream.controller.ts): a handler commits, then publishes an event, and  *)
(* every open connection of the tenant is told what to fetch again.  A     *)
(* surface is what a query of the dashboard shows; of its rows only is     *)
(* kept who has the newest.  The dashboard itself is external: it fetches  *)
(* what it is told to, and everything when it connects.                    *)
(***************************************************************************)
EXTENDS Naturals, Sequences

CONSTANTS
    Tenant,         \* employers
    Tab,            \* connections of dashboards
    Publisher       \* handlers under way

ASSUME StreamAssumption == Tenant # {}

VARIABLES
    publisher,      \* what each handler has still to do, and to tell
    tab             \* Tab -> the connection and what the dashboard shows

streamVars == <<publisher, tab>>
--------------------------------------------------------------------------------
Surface == {"map", "review", "payments"}

\* The surfaces an event makes the dashboard fetch.
Hint ==
    [job_lifecycle_changed |-> {"map"}, worker_clock_event |-> {"map"},
     transaction_updated |-> {"payments"}, session_pending_review |-> {"review"},
     session_review_resolved |-> {"review", "payments"}, heartbeat |-> {}]

Commit(S) == [commit |-> S, tell |-> "heartbeat"]
Tell(e) == [commit |-> {}, tell |-> e]

\* What the handlers commit and publish, in their order.  The release by the timer
\* pays and tells of it before it closes the review; a clock-in tells nobody.
Script ==
    [clock_in |-> <<Commit({"map"})>>,
     clock_out |-> <<Commit({"map", "review"}), Tell("worker_clock_event"),
                     Tell("session_pending_review")>>,
     confirm |-> <<Commit(Surface), Tell("job_lifecycle_changed"),
                   Tell("transaction_updated"), Tell("session_review_resolved")>>,
     dispute |-> <<Commit({"review"}), Tell("session_review_resolved")>>,
     auto_release |-> <<Commit({"map", "payments"}), Tell("job_lifecycle_changed"),
                        Tell("transaction_updated"), Commit({"review"}),
                        Tell("session_review_resolved")>>]

NoHandler == [of |-> CHOOSE e \in Tenant : TRUE, todo |-> << >>, untold |-> {}]
Closed == [open |-> FALSE, of |-> CHOOSE e \in Tenant : TRUE, stale |-> {}, newest |-> {},
           answer |-> [s \in Surface |-> "none"]]

StreamTypeOK ==
    /\ \A h \in Publisher : /\ publisher[h].of \in Tenant
                            /\ publisher[h].untold \subseteq Surface
                            /\ Len(publisher[h].todo) <= 5
    /\ tab \in [Tab -> [open : BOOLEAN, of : Tenant, stale : SUBSET Surface,
                        newest : SUBSET Surface,
                        answer : [Surface -> {"none", "new", "old"}]]]

StreamInit ==
    /\ publisher = [h \in Publisher |-> NoHandler]
    /\ tab = [t \in Tab |-> Closed]
--------------------------------------------------------------------------------
StartHandler(h, e, op) ==
    /\ publisher[h] = NoHandler
    /\ publisher' = [publisher EXCEPT ![h] = [of |-> e, todo |-> Script[op], untold |-> {}]]
    /\ UNCHANGED tab

ScopeMatches(e, t) == tab[t].of = e

\* The transaction of a handler commits: what the tenant's dashboards show, or are
\* sent as an answer, is no longer the newest.
CommitRows(h) ==
    LET S == publisher[h].todo[1].commit
        e == publisher[h].of
        Aged(a) == IF a = "new" THEN "old" ELSE a
    IN  /\ publisher[h].todo # << >> /\ S # {}
        /\ tab' = [t \in Tab |->
              IF ScopeMatches(e, t)
              THEN [tab[t] EXCEPT
                      !.newest = @ \ S,
                      !.answer = [s \in Surface |-> IF s \in S THEN Aged(@[s]) ELSE @[s]]]
              ELSE tab[t]]
        /\ publisher' = [publisher EXCEPT ![h].untold = @ \union S, ![h].todo = Tail(@)]

\* publish and forScope: every connection of the tenant that is open now is told.
PublishEvent(h) ==
    LET S == Hint[publisher[h].todo[1].tell]
        e == publisher[h].of
    IN  /\ publisher[h].todo # << >> /\ publisher[h].todo[1].commit = {}
        /\ tab' = [t \in Tab |->
              IF tab[t].open /\ ScopeMatches(e, t)
              THEN [tab[t] EXCEPT !.stale = @ \union S] ELSE tab[t]]
        /\ publisher' = [publisher EXCEPT ![h].untold = @ \ S, ![h].todo = Tail(@)]

EndHandler(h) ==
    /\ publisher[h] # NoHandler /\ publisher[h].todo = << >>
    /\ publisher' = [publisher EXCEPT ![h] = NoHandler]
    /\ UNCHANGED tab

\* stream: the scope is that of the token, for as long as the connection lasts.
Connect(t, e) ==
    /\ ~ tab[t].open
    /\ tab' = [tab EXCEPT ![t] = [Closed EXCEPT !.open = TRUE, !.of = e, !.stale = Surface]]
    /\ UNCHANGED publisher

\* Nothing is replayed to a connection that was lost.
Disconnect(t) ==
    /\ tab[t].open
    /\ tab' = [tab EXCEPT ![t] = Closed]
    /\ UNCHANGED publisher

\* The dashboard fetches; the answer may arrive after the next hint.
Fetch(t, s) ==
    /\ tab[t].open /\ s \in tab[t].stale
    /\ tab' = [tab EXCEPT ![t].stale = @ \ {s}, ![t].answer[s] = "new"]
    /\ UNCHANGED publisher

ShowAnswer(t, s) ==
    /\ tab[t].open /\ tab[t].answer[s] # "none"
    /\ tab' = [tab EXCEPT ![t].answer[s] = "none",
                          ![t].newest = IF tab[t].answer[s] = "new" THEN @ \union {s} ELSE @ \ {s}]
    /\ UNCHANGED publisher

\* The process stops: what a handler had not told stays untold.
StreamCrash ==
    /\ \E t \in Tab : tab[t].open
    /\ publisher' = [h \in Publisher |-> NoHandler]
    /\ tab' = [t \in Tab |-> Closed]
--------------------------------------------------------------------------------
StreamNext ==
    \/ \E h \in Publisher :
          \/ \E e \in Tenant, op \in DOMAIN Script : StartHandler(h, e, op)
          \/ CommitRows(h) \/ PublishEvent(h) \/ EndHandler(h)
    \/ \E t \in Tab :
          \/ \E e \in Tenant : Connect(t, e)
          \/ Disconnect(t)
          \/ \E s \in Surface : Fetch(t, s) \/ ShowAnswer(t, s)
    \/ StreamCrash

StreamSpec == StreamInit /\ [][StreamNext]_streamVars
--------------------------------------------------------------------------------
(* The review queue an open dashboard shows is the one stored, unless a hint or an
   answer is still on its way or a handler has yet to tell of its commit: no order of
   commits, hints, fetches and lost connections leaves it behind
   (stream.publisher.ts:55-61, job-completion.service.ts:103-114). *)
QueueFresh ==
    \A t \in Tab :
        (/\ tab[t].open /\ "review" \notin tab[t].stale
         /\ tab[t].answer["review"] = "none"
         /\ \A h \in Publisher : publisher[h].of = tab[t].of =>
                                    "review" \notin publisher[h].untold)
            => "review" \in tab[t].newest
================================================================================
