----------------------------- MODULE Idempotency -----------------------------
(***************************************************************************)
(* The idempotency service (common/interceptors/idempotency.service.ts),   *)
(* seen from the calls that carry one key: a call looks its key up, does   *)
(* its work if there is no answer yet, and stores the answer.  The three   *)
(* steps are separate statements, so calls with the same key interleave    *)
(* between them.  The work itself is that of the endpoint: here it takes   *)
(* one step, and a module that models an endpoint refines it.              *)
(***************************************************************************)

CONSTANTS
    Call,       \* calls that carry the key: a request and its retries
    None        \* no record, no answer

ASSUME NoneAssumption == None \notin Call /\ None \notin [by : Call, fresh : BOOLEAN]

VARIABLES
    reworded,   \* the calls whose body differs from that of the others
    record,     \* the IdempotencyRecord of the key
    stage,      \* how far each call has come
    answer,     \* the call whose work each call was answered with
    kept        \* whether every answer was stored and none has expired

idemVars == <<reworded, record, stage, answer, kept>>
-----------------------------------------------------------------------------
\* fresh is whether expiresAt is still ahead.
Record == [by : Call, fresh : BOOLEAN]

Stage == {"idle", "stale", "working", "computed", "lost", "done", "conflict",
          "error", "gone"}

IdemTypeOK ==
    /\ reworded \subseteq Call
    /\ record \in Record \union {None}
    /\ stage \in [Call -> Stage]
    /\ answer \in [Call -> Call \union {None}]
    /\ kept \in BOOLEAN

IdemInit ==
    /\ reworded \in SUBSET Call
    /\ record = None
    /\ stage = [c \in Call |-> "idle"]
    /\ answer = [c \in Call |-> None]
    /\ kept = TRUE

SameBody(c, d) == c \in reworded <=> d \in reworded

\* A call ends with the answer of a call's work.
Answer(c, by) ==
    /\ stage' = [stage EXCEPT ![c] = "done"]
    /\ answer' = [answer EXCEPT ![c] = by]

GoTo(c, s) ==
    /\ stage' = [stage EXCEPT ![c] = s]
    /\ UNCHANGED <<record, answer, kept>>

\* The unlocked look-up: an answer of the same body is served again, another
\* body is refused, and an expired record is to be deleted first.
LookUp(c) ==
    /\ stage[c] = "idle"
    /\ \/ record = None /\ GoTo(c, "working")
       \/ record # None /\ ~record.fresh /\ GoTo(c, "stale")
       \/ record # None /\ record.fresh /\ ~SameBody(c, record.by) /\ GoTo(c, "conflict")
       \/ /\ record # None /\ record.fresh /\ SameBody(c, record.by)
          /\ Answer(c, record.by)
          /\ UNCHANGED <<record, kept>>

\* The delete takes whatever record the key has by then; it throws if it has
\* none.
DropRecord(c) ==
    /\ stage[c] = "stale"
    /\ record' = None
    /\ stage' = [stage EXCEPT ![c] = IF record = None THEN "error" ELSE "working"]
    /\ UNCHANGED <<answer, kept>>

\* Variant: a second answer replaces the first.
StoreOver(c) ==
    /\ stage[c] = "computed"
    /\ record' = [by |-> c, fresh |-> TRUE]
    /\ Answer(c, c)
    /\ UNCHANGED kept

\* The key is the primary key: the second insert fails.
Store(c) ==
    /\ stage[c] = "computed"
    /\ \/ /\ record = None
          /\ record' = [by |-> c, fresh |-> TRUE]
          /\ Answer(c, c)
          /\ UNCHANGED kept
       \/ record # None /\ GoTo(c, "lost")

\* Any other failure of the insert is taken for a lost race.
StoreFails(c) ==
    /\ stage[c] = "computed"
    /\ stage' = [stage EXCEPT ![c] = "lost"]
    /\ kept' = FALSE
    /\ UNCHANGED <<record, answer>>

\* Variant: the loser of the race keeps its own answer.
RereadOwn(c) ==
    /\ stage[c] = "lost"
    /\ Answer(c, c)
    /\ UNCHANGED <<record, kept>>

\* The loser is answered with the winner's answer, whatever its body was; its
\* own answer is used only if the record has gone.
Reread(c) ==
    /\ stage[c] = "lost"
    /\ Answer(c, IF record = None THEN c ELSE record.by)
    /\ UNCHANGED <<record, kept>>

\* A day passes.
Expire ==
    /\ record # None /\ record.fresh
    /\ record' = [record EXCEPT !.fresh = FALSE]
    /\ kept' = FALSE
    /\ UNCHANGED <<stage, answer>>

\* The work throws, or the server stops: nothing is stored.
Break(c) ==
    /\ stage[c] \in {"stale", "working", "computed", "lost"}
    /\ GoTo(c, "gone")

\* The work of the endpoint is done.
Compute(c) ==
    /\ stage[c] = "working"
    /\ GoTo(c, "computed")

Protocol(c) ==
    LookUp(c) \/ DropRecord(c) \/ Store(c) \/ StoreFails(c) \/ Reread(c)

Idem(c) == Protocol(c) \/ Compute(c) \/ Break(c)

IdemNext == (Expire \/ \E c \in Call : Idem(c)) /\ UNCHANGED reworded

IdemSpec == IdemInit /\ [][IdemNext]_idemVars
-----------------------------------------------------------------------------
(***************************************************************************)
(* Properties.                                                             *)
(***************************************************************************)

\* As long as the answer is kept, all calls that are answered get the same
\* answer, also those that did the work side by side
\* (idempotency.service.ts:19).
OneAnswer ==
    kept => \A c, d \in Call :
                answer[c] # None /\ answer[d] # None => answer[c] = answer[d]
=============================================================================
