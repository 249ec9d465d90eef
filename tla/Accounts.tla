------------------------------ MODULE Accounts ------------------------------
(***************************************************************************)
(* The bank accounts of a worker (wallet/banks.service.ts) and the virtual *)
(* account Squad gives it (virtual-account-provisioner.service.ts).  A     *)
(* call reads, asks Squad or not, and writes later.  A transaction sees    *)
(* what was committed when it read; the rows it has written are locked     *)
(* until it commits.                                                       *)
(***************************************************************************)
EXTENDS Integers, FiniteSets, FiniteSetsExt

CONSTANTS Account,          \* accounts of the worker at some bank
          BankCall,         \* calls under way at once
          Nuban,            \* virtual account numbers Squad may give
          NONE

VARIABLES linked,           \* the accounts of the worker
          default,          \* those marked default
          activeLoan,       \* the worker has a loan that is active
          bankCall,         \* what each call has read
          crossedCalls,     \* a call met another one, or a loan that started
          nuban,            \* the virtual account on the worker's row
          named,            \* profile setup has given the worker a name
          issued            \* the virtual accounts Squad has made for it

bankVars == <<linked, default, activeLoan, bankCall, crossedCalls>>
nubanVars == <<nuban, named, issued>>
accountVars == <<linked, default, activeLoan, bankCall, crossedCalls, nuban, named, issued>>

NoBankCall == [op |-> "idle", of |-> NONE, asDefault |-> FALSE, alone |-> FALSE,
               cleared |-> {}]

BankCallRow == [op : {"idle", "link", "linking", "promote", "remove", "provision"},
                of : Account \cup {NONE}, asDefault : BOOLEAN, alone : BOOLEAN,
                cleared : SUBSET Account]

AccountsTypeOK ==
    /\ linked \subseteq Account /\ default \subseteq linked
    /\ activeLoan \in BOOLEAN /\ crossedCalls \in BOOLEAN /\ named \in BOOLEAN
    /\ bankCall \in [BankCall -> BankCallRow]
    /\ nuban \in Nuban \cup {NONE} /\ issued \subseteq Nuban

AccountsInit ==
    /\ linked = {} /\ default = {} /\ activeLoan = FALSE /\ crossedCalls = FALSE
    /\ bankCall = [k \in BankCall |-> NoBankCall]
    /\ nuban = NONE /\ named = FALSE /\ issued = {}

----------------------------------------------------------------------------
Rests(k) == bankCall[k].op = "idle"
AboutAccounts(k) == bankCall[k].op \in {"link", "linking", "promote", "remove"}
Enters(k, c) ==
    /\ Rests(k)
    /\ bankCall' = [bankCall EXCEPT ![k] = c]
    /\ crossedCalls' = (crossedCalls \/ \E m \in BankCall : AboutAccounts(m))
Leaves(k) == bankCall' = [bankCall EXCEPT ![k] = NoBankCall] /\ UNCHANGED crossedCalls

(* The rows other transactions have written and not committed.             *)
LockedBy(k) == UNION {bankCall[m].cleared : m \in BankCall \ {k}}

(* The bank knows the number, the name on it matches what the client says  *)
(* and the profile, and it is not linked yet; otherwise the call is        *)
(* refused and nothing changes.                                            *)
BeginLink(k, a, asDefault) ==
    /\ a \notin linked
    /\ Enters(k, [NoBankCall EXCEPT !.op = "link", !.of = a, !.asDefault = asDefault])
    /\ UNCHANGED <<linked, default, activeLoan, nubanVars>>

(* The transaction clears the other defaults it sees, if asked to, and     *)
(* counts; it waits for a row another transaction has written.             *)
CountAccounts(k) ==
    LET c == bankCall[k]
    IN  /\ c.op = "link"
        /\ c.asDefault => linked \cap LockedBy(k) = {}
        /\ bankCall' = [bankCall EXCEPT ![k] =
              [c EXCEPT !.op = "linking", !.alone = (linked = {}),
                        !.cleared = IF c.asDefault THEN linked ELSE {}]]
        /\ UNCHANGED <<linked, default, activeLoan, crossedCalls, nubanVars>>

(* Variant: as if the other default accounts were not cleared.             *)
CreateSecondDefault(k) ==
    LET c == bankCall[k]
    IN  /\ c.op = "linking"
        /\ IF c.of \in linked THEN UNCHANGED <<linked, default>>
           ELSE /\ linked' = linked \cup {c.of}
                /\ default' = default \cup (IF c.asDefault \/ c.alone THEN {c.of} ELSE {})
        /\ Leaves(k)
        /\ UNCHANGED <<activeLoan, nubanVars>>

(* The row is created, the first account default whatever was asked; a     *)
(* second row for one account is refused by the unique key, and all is     *)
(* rolled back.                                                            *)
CreateAccount(k) ==
    LET c == bankCall[k]
    IN  /\ c.op = "linking"
        /\ IF c.of \in linked THEN UNCHANGED <<linked, default>>
           ELSE /\ linked' = linked \cup {c.of}
                /\ default' = (default \ c.cleared)
                                \cup (IF c.asDefault \/ c.alone THEN {c.of} ELSE {})
        /\ Leaves(k)
        /\ UNCHANGED <<activeLoan, nubanVars>>

(* Promoting finds the account, then clears all and marks it.              *)
OpenPromote(k, a) ==
    /\ a \in linked
    /\ Enters(k, [NoBankCall EXCEPT !.op = "promote", !.of = a])
    /\ UNCHANGED <<linked, default, activeLoan, nubanVars>>

SetDefault(k) ==
    LET c == bankCall[k]
    IN  /\ c.op = "promote"
        /\ linked \cap LockedBy(k) = {}
        /\ default' = IF c.of \in linked THEN {c.of} ELSE default
        /\ Leaves(k)
        /\ UNCHANGED <<linked, activeLoan, nubanVars>>

(* Removing reads the account, the count and the loan: the last account    *)
(* stays while a loan is active, and the default while there are others.   *)
OpenRemove(k, a) ==
    LET many == Cardinality(linked) > 1
    IN  /\ a \in linked
        /\ ~ (activeLoan /\ ~ many)
        /\ ~ (a \in default /\ many)
        /\ Enters(k, [NoBankCall EXCEPT !.op = "remove", !.of = a])
        /\ UNCHANGED <<linked, default, activeLoan, nubanVars>>

DeleteAccount(k) ==
    LET c == bankCall[k]
    IN  /\ c.op = "remove"
        /\ c.of \notin LockedBy(k)
        /\ linked' = linked \ {c.of} /\ default' = default \ {c.of}
        /\ Leaves(k)
        /\ UNCHANGED <<activeLoan, nubanVars>>

(* A loan is applied for with a default account, and repaid.               *)
LoanStarts == /\ ~ activeLoan /\ default # {}
              /\ activeLoan' = TRUE
              /\ crossedCalls' = (crossedCalls \/ \E k \in BankCall : AboutAccounts(k))
              /\ UNCHANGED <<linked, default, bankCall, nubanVars>>
LoanEnds == /\ activeLoan /\ activeLoan' = FALSE
            /\ UNCHANGED <<linked, default, bankCall, crossedCalls, nubanVars>>

----------------------------------------------------------------------------
SetUpName == /\ ~ named /\ named' = TRUE
             /\ UNCHANGED <<bankVars, nuban, issued>>

(* Signup and every look at the profile ask for the account again, until   *)
(* the row has a number; before the worker has a name nothing is asked.    *)
OpenProvision(k) ==
    /\ named /\ nuban = NONE
    /\ Rests(k)
    /\ bankCall' = [bankCall EXCEPT ![k] = [NoBankCall EXCEPT !.op = "provision"]]
    /\ UNCHANGED <<linked, default, activeLoan, crossedCalls, nubanVars>>

(* Squad gives a number and the row keeps it, whatever it held; or the     *)
(* call fails and the failure is put on record.                            *)
Provision(k) ==
    /\ bankCall[k].op = "provision"
    /\ \/ \E n \in Nuban \ issued : issued' = issued \cup {n} /\ nuban' = n
       \/ UNCHANGED <<nuban, issued>>
    /\ Leaves(k)
    /\ UNCHANGED <<linked, default, activeLoan, named>>

AccountsNext ==
    \/ \E k \in BankCall :
        \/ \E a \in Account : \/ \E d \in BOOLEAN : BeginLink(k, a, d)
                              \/ OpenPromote(k, a)
                              \/ OpenRemove(k, a)
        \/ CountAccounts(k) \/ CreateAccount(k) \/ SetDefault(k) \/ DeleteAccount(k)
        \/ OpenProvision(k) \/ Provision(k)
    \/ LoanStarts \/ LoanEnds \/ SetUpName

AccountsSpec == AccountsInit /\ [][AccountsNext]_accountVars

----------------------------------------------------------------------------
(* Withdrawals and transfers go to the default account.  As long as a call *)
(* about a worker's accounts met no other, and no loan that started,       *)
(* exactly one of them is the default, and an active loan keeps one.       *)
(* Calls that cross lose this: see CrossedDefaults in the README.          *)
OneDefaultAccount ==
    ~ crossedCalls =>
        /\ Cardinality(default) = IF linked = {} THEN 0 ELSE 1
        /\ activeLoan => linked # {}
============================================================================
