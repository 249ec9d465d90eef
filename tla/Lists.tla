-------------------------------- MODULE Lists --------------------------------
(***************************************************************************)
(* The lists a client walks page by page while rows come and go: the       *)
(* ledger of a worker and its notifications, by a cursor                   *)
(* (cursor.util.ts, transactions.service.ts, me.service.ts); the export of *)
(* an employer's transactions, by an offset                                *)
(* (employer-transactions.service.ts); and the jobs of an employer, by a   *)
(* cursor over two lists put together (employers.service.ts).  A row is    *)
(* its place in (timestamp, id): a greater number is newer.                *)
(***************************************************************************)
EXTENDS Integers, FiniteSets, FiniteSetsExt, Sequences, SequencesExt

CONSTANTS LastRow,      \* rows that may ever arrive
          PageLimit,    \* the `limit` of a page, and the 200 of an export
          Absent        \* no cursor, no walk

ASSUME ListsAssumption == LastRow \in Nat /\ PageLimit \in Nat

VARIABLES ledger,       \* the rows, each to its status
          unread,       \* rows the worker has not read
          walk,         \* the cursor and how often each row was shown
          export,       \* what is skipped and how often each row was written
          stayed,       \* rows the walk could have seen all along
          began         \* rows that were there when the export began

ledgerVars == <<ledger, unread, walk, export, stayed, began>>

LedgerRow == 1 .. LastRow
VISIBLE_STATUSES == {"processing", "succeeded", "completed"}
Shown == {r \in DOMAIN ledger : ledger[r] \in VISIBLE_STATUSES}

ListsTypeOK ==
    /\ DOMAIN ledger = 1 .. Cardinality(DOMAIN ledger) /\ DOMAIN ledger \subseteq LedgerRow
    /\ \A r \in DOMAIN ledger : ledger[r] \in VISIBLE_STATUSES \cup {"reversed"}
    /\ unread \subseteq DOMAIN ledger
    /\ walk \in {Absent} \cup [next : Nat, ended : BOOLEAN, seen : [LedgerRow -> Nat]]
    /\ export \in {Absent} \cup [skip : Nat, ended : BOOLEAN, seen : [LedgerRow -> Nat]]
    /\ stayed \subseteq LedgerRow /\ began \subseteq LedgerRow

ListsInit ==
    /\ ledger \in UNION {[1 .. n -> {"processing", "completed"}] : n \in 0 .. LastRow - 1}
    /\ unread = DOMAIN ledger
    /\ walk = Absent /\ export = Absent /\ stayed = {} /\ began = {}

NewestRows(S, n) == {r \in S : Cardinality({q \in S : q > r}) < n}
Nothing == [r \in LedgerRow |-> 0]
Counted(seen, page) == [r \in LedgerRow |-> IF r \in page THEN seen[r] + 1 ELSE seen[r]]

----------------------------------------------------------------------------
(* A transaction is booked, and a withdrawal that fails is reversed: it    *)
(* leaves the ledger (module Withdrawals).                                 *)
RowArrives ==
    LET r == Cardinality(DOMAIN ledger) + 1
    IN  /\ r \in LedgerRow
        /\ \E s \in {"processing", "completed"} :
              ledger' = [q \in 1 .. r |-> IF q = r THEN s ELSE ledger[q]]
        /\ unread' = unread \cup {r}
        /\ UNCHANGED <<walk, export, stayed, began>>

RowSettles(r) ==
    /\ r \in DOMAIN ledger /\ ledger[r] = "processing"
    /\ \E s \in {"succeeded", "reversed"} : ledger' = [ledger EXCEPT ![r] = s]
    /\ stayed' = {q \in stayed : ledger'[q] # "reversed"}
    /\ UNCHANGED <<unread, walk, export, began>>

(* list: the rows below the cursor, one more than asked for, so as to know *)
(* whether there are more; the cursor is the last one shown.               *)
WalkBegins ==
    /\ walk = Absent
    /\ walk' = [next |-> LastRow + 1, ended |-> FALSE, seen |-> Nothing]
    /\ stayed' = Shown
    /\ UNCHANGED <<ledger, unread, export, began>>

(* Variant: as if the cursor were the row that was read past the page.     *)
WalkPagePast ==
    /\ walk # Absent /\ ~ walk.ended
    /\ LET below == {r \in Shown : r < walk.next}
           page == NewestRows(below, PageLimit + 1)
       IN  walk' = [next |-> IF page = {} THEN walk.next ELSE Min(page),
                    ended |-> Cardinality(below) <= PageLimit,
                    seen |-> Counted(walk.seen, NewestRows(below, PageLimit))]
    /\ UNCHANGED <<ledger, unread, export, stayed, began>>

WalkPage ==
    /\ walk # Absent /\ ~ walk.ended
    /\ LET below == {r \in Shown : r < walk.next}
           page == NewestRows(below, PageLimit)
       IN  walk' = [next |-> IF page = {} THEN walk.next ELSE Min(page),
                    ended |-> Cardinality(below) <= PageLimit,
                    seen |-> Counted(walk.seen, page)]
    /\ UNCHANGED <<ledger, unread, export, stayed, began>>

(* exportCsvRows: pages by an offset, until one is not full; every status. *)
ExportBegins ==
    /\ export = Absent
    /\ export' = [skip |-> 0, ended |-> FALSE, seen |-> Nothing]
    /\ began' = DOMAIN ledger
    /\ UNCHANGED <<ledger, unread, walk, stayed>>

ExportPage ==
    /\ export # Absent /\ ~ export.ended
    /\ LET rows == DOMAIN ledger
           page == NewestRows(rows, export.skip + PageLimit) \ NewestRows(rows, export.skip)
       IN  export' = [skip |-> export.skip + PageLimit,
                      ended |-> Cardinality(page) < PageLimit,
                      seen |-> Counted(export.seen, page)]
    /\ UNCHANGED <<ledger, unread, walk, stayed, began>>

(* markRead and markAllRead, of workers and of users.                      *)
MarkRead(R) ==
    /\ R # {} /\ R \subseteq unread
    /\ Cardinality(R) = 1 \/ R = unread
    /\ unread' = unread \ R
    /\ UNCHANGED <<ledger, walk, export, stayed, began>>

ListsNext ==
    \/ RowArrives \/ WalkBegins \/ WalkPage \/ ExportBegins \/ ExportPage
    \/ \E r \in LedgerRow : RowSettles(r)
    \/ \E R \in SUBSET unread : MarkRead(R)

ListsSpec == ListsInit /\ [][ListsNext]_ledgerVars

----------------------------------------------------------------------------
(* The jobs of an employer: the open ones, then the closed ones, each list *)
(* from the newest; a page begins after the first row below the cursor in  *)
(* the two put together.                                                   *)
Ordered(open, closed) ==
    Reverse(SetToSortSeq(open, <)) \o Reverse(SetToSortSeq(closed, <))

EmployerJobsPage(open, closed, cursor, limit) ==
    LET all == Ordered(open, closed)
        below == {i \in DOMAIN all : cursor = Absent \/ all[i] < cursor}
        start == IF below = {} THEN Len(all) + 1 ELSE Min(below)
        page == SubSeq(all, start, Min({start + limit - 1, Len(all)}))
    IN  [page |-> page,
         next |-> IF page # << >> /\ start + limit - 1 < Len(all)
                  THEN page[Len(page)] ELSE Absent]

(* What the pages show, at most `pages` of them.                           *)
EmployerJobsWalk(open, closed, limit, pages) ==
    LET Step[n \in 0 .. pages] ==
          IF n = 0 THEN [shown |-> << >>, next |-> Absent, more |-> TRUE]
          ELSE LET w == Step[n - 1]
                   p == EmployerJobsPage(open, closed, w.next, limit)
               IN  IF ~ w.more THEN w
                   ELSE [shown |-> w.shown \o p.page, next |-> p.next,
                         more |-> p.next # Absent]
    IN  Step[pages]

(* The page as the comment in employers.service.ts has it: with one list,  *)
(* every job is shown once, in order.                                      *)
OneListWalks(jobs, limit) ==
    LET w == EmployerJobsWalk(jobs, {}, limit, Cardinality(jobs) + 1)
    IN  w.shown = Ordered(jobs, {}) /\ ~ w.more

----------------------------------------------------------------------------
(* A walk by cursor shows no row twice, and when it has ended it has shown *)
(* every row that stayed in the ledger since it began, whatever arrived or *)
(* was reversed meanwhile (transactions.service.ts:29).  An export misses  *)
(* no row that was there when it began, but may write one again.           *)
WalksComplete ==
    /\ walk # Absent =>
         /\ \A r \in LedgerRow : walk.seen[r] <= 1
         /\ walk.ended => \A r \in stayed : walk.seen[r] = 1
    /\ export # Absent /\ export.ended => \A r \in began : export.seen[r] >= 1
============================================================================
