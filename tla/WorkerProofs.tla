----------------------------- MODULE WorkerProofs -----------------------------
(***************************************************************************)
(* Theorems about what a worker has of its own: its bank accounts, its     *)
(* ratings, the codes it signs in with, its number, its photo, the tickets *)
(* it opens, the lists it walks and the messages it is sent; for any       *)
(* workers, accounts, shifts, requests, rows and devices.                  *)
(***************************************************************************)
EXTENDS Accounts, Ratings, WorkerAuth, Profile, Assist, Lists, Messaging, CommonProofs

(***************************************************************************)
(* Bank accounts.                                                          *)
(*                                                                         *)
(* While nothing has crossed there is one call about the accounts at most, *)
(* and what it read is still so when it writes.                            *)
(***************************************************************************)
AboutOps == {"link", "linking", "promote", "remove"}

CallsName == \A k \in BankCall : AboutAccounts(k) => bankCall[k].of \in Account
OneAtATime ==
    \A k, m \in BankCall : AboutAccounts(k) /\ AboutAccounts(m) => k = m
DefaultKept ==
    /\ linked # {} => \E a \in linked : default = {a}
    /\ activeLoan => linked # {}
StillSo(k) ==
    LET c == bankCall[k]
    IN  /\ c.op \in {"link", "linking"} => c.of \notin linked
        /\ c.op = "linking" => /\ c.alone = (linked = {})
                               /\ c.cleared = IF c.asDefault THEN linked ELSE {}
        /\ c.op = "promote" => c.of \in linked
        /\ c.op = "remove" => /\ c.of \in linked
                              /\ c.of \in default => linked = {c.of}
                              /\ activeLoan => linked # {c.of}
Uncrossed == OneAtATime /\ DefaultKept /\ \A k \in BankCall : StillSo(k)

AccountsInv ==
    AccountsTypeOK /\ IsFiniteSet(linked) /\ CallsName /\ (~ crossedCalls => Uncrossed)

LEMMA AccountsInvKeeps == AccountsInv => OneDefaultAccount
<1> SUFFICES ASSUME AccountsInv, ~ crossedCalls PROVE OneDefaultAccount
  BY DEF OneDefaultAccount
<1>1. DefaultKept /\ default \subseteq linked
  BY DEF AccountsInv, Uncrossed, AccountsTypeOK
<1>2. CASE linked = {}
  <2>1. default = {}
    BY <1>1, <1>2
  <2> QED
    BY <1>1, <1>2, <2>1, FS_EmptySet DEF OneDefaultAccount, DefaultKept
<1>3. CASE linked # {}
  <2>1. PICK a \in linked : default = {a}
    BY <1>1, <1>3 DEF DefaultKept
  <2> QED
    BY <1>3, <2>1, FS_Singleton DEF OneDefaultAccount
<1> QED
  BY <1>2, <1>3

LEMMA AccountsInvInit == AccountsInit => AccountsInv
<1> SUFFICES ASSUME AccountsInit PROVE AccountsInv
  OBVIOUS
<1>1. AccountsTypeOK
  BY DEF AccountsInit, AccountsTypeOK, BankCallRow, NoBankCall
<1>2. \A k \in BankCall : bankCall[k].op = "idle"
  BY DEF AccountsInit, NoBankCall
<1>3. IsFiniteSet(linked)
  BY FS_EmptySet DEF AccountsInit
<1> QED
  BY <1>1, <1>2, <1>3
  DEF AccountsInit, AccountsInv, CallsName, Uncrossed, OneAtATime, DefaultKept, StillSo,
      AboutAccounts

\* A call about the accounts begins.
LEMMA EntersKeeps ==
  ASSUME AccountsInv, NEW k \in BankCall, NEW c \in BankCallRow, c.op \in AboutOps,
         c.of \in Account, Enters(k, c), UNCHANGED <<linked, default, activeLoan, nubanVars>>,
         ~ crossedCalls' => StillSo(k)'
  PROVE  AccountsInv'
<1>1. AccountsTypeOK'
  BY DEF Enters, AccountsInv, AccountsTypeOK, nubanVars
<1>2. \A m \in BankCall : bankCall'[m] = IF m = k THEN c ELSE bankCall[m]
  BY DEF Enters, AccountsInv, AccountsTypeOK
<1>3. CallsName'
  BY <1>2 DEF AccountsInv, CallsName, AboutAccounts
<1>4. ASSUME ~ crossedCalls' PROVE Uncrossed'
  <2>1. ~ crossedCalls /\ \A m \in BankCall : ~ AboutAccounts(m)
    BY <1>4 DEF Enters
  <2>2. OneAtATime'
    BY <1>2, <2>1 DEF OneAtATime, AboutAccounts
  <2>3. DefaultKept'
    BY <2>1 DEF AccountsInv, Uncrossed, DefaultKept
  <2>4. ASSUME NEW m \in BankCall, m # k PROVE StillSo(m)'
    BY <1>2, <2>1, <2>4 DEF StillSo, AboutAccounts
  <2> QED
    BY <1>4, <2>2, <2>3, <2>4 DEF Uncrossed
<1> QED
  BY <1>1, <1>3, <1>4 DEF AccountsInv

\* A call about the accounts ends, and what it wrote is right if nothing crossed it.
LEMMA LeavesKeeps ==
  ASSUME AccountsInv, NEW k \in BankCall, AboutAccounts(k), Leaves(k),
         linked' \subseteq Account, default' \subseteq linked', IsFiniteSet(linked'),
         UNCHANGED <<activeLoan, nubanVars>>, ~ crossedCalls => DefaultKept'
  PROVE  AccountsInv'
<1>1. AccountsTypeOK'
  BY DEF Leaves, AccountsInv, AccountsTypeOK, nubanVars, NoBankCall, BankCallRow
<1>2. \A m \in BankCall : bankCall'[m] = IF m = k THEN NoBankCall ELSE bankCall[m]
  BY DEF Leaves, AccountsInv, AccountsTypeOK
<1>3. CallsName'
  BY <1>2 DEF AccountsInv, CallsName, AboutAccounts, NoBankCall
<1>4. ASSUME ~ crossedCalls' PROVE Uncrossed'
  <2>1. ~ crossedCalls /\ OneAtATime
    BY <1>4 DEF Leaves, AccountsInv, Uncrossed
  <2>2. \A m \in BankCall : ~ AboutAccounts(m)'
    BY <1>2, <2>1 DEF OneAtATime, AboutAccounts, NoBankCall
  <2>3. \A m \in BankCall : StillSo(m)'
    BY <2>2 DEF StillSo, AboutAccounts
  <2> QED
    BY <2>1, <2>2, <2>3 DEF Uncrossed, OneAtATime
<1> QED
  BY <1>1, <1>3, <1>4 DEF AccountsInv

LEMMA AccountsInvStep ==
  ASSUME AccountsInv, [AccountsNext]_accountVars
  PROVE  AccountsInv'
<1>0. AccountsTypeOK
  BY DEF AccountsInv
<1>1. ASSUME NEW k \in BankCall, NEW a \in Account, NEW d \in BOOLEAN, BeginLink(k, a, d)
      PROVE  AccountsInv'
  <2> DEFINE c == [NoBankCall EXCEPT !.op = "link", !.of = a, !.asDefault = d]
  <2>1. c \in BankCallRow /\ c.op = "link" /\ c.of = a
    BY DEF NoBankCall, BankCallRow
  <2>2. /\ Enters(k, c) /\ UNCHANGED <<linked, default, activeLoan, nubanVars>>
        /\ a \notin linked
    BY <1>1 DEF BeginLink
  <2> HIDE DEF c
  <2>3. StillSo(k)'
    BY <1>0, <2>1, <2>2 DEF Enters, StillSo, AccountsTypeOK
  <2> QED
    BY <2>1, <2>2, <2>3, EntersKeeps DEF AboutOps
<1>2. ASSUME NEW k \in BankCall, NEW a \in Account, OpenPromote(k, a) PROVE AccountsInv'
  <2> DEFINE c == [NoBankCall EXCEPT !.op = "promote", !.of = a]
  <2>1. c \in BankCallRow /\ c.op = "promote" /\ c.of = a
    BY DEF NoBankCall, BankCallRow
  <2>2. /\ Enters(k, c) /\ UNCHANGED <<linked, default, activeLoan, nubanVars>>
        /\ a \in linked
    BY <1>2 DEF OpenPromote
  <2> HIDE DEF c
  <2>3. StillSo(k)'
    BY <1>0, <2>1, <2>2 DEF Enters, StillSo, AccountsTypeOK
  <2> QED
    BY <2>1, <2>2, <2>3, EntersKeeps DEF AboutOps
<1>3. ASSUME NEW k \in BankCall, NEW a \in Account, OpenRemove(k, a) PROVE AccountsInv'
  <2> DEFINE c == [NoBankCall EXCEPT !.op = "remove", !.of = a]
  <2>1. c \in BankCallRow /\ c.op = "remove" /\ c.of = a
    BY DEF NoBankCall, BankCallRow
  <2>2. /\ Enters(k, c) /\ UNCHANGED <<linked, default, activeLoan, nubanVars>>
        /\ a \in linked
    BY <1>3 DEF OpenRemove
  <2>3. Cardinality(linked) > 1 => linked # {a}
    <3>1. Cardinality({a}) = 1
      BY FS_Singleton
    <3> QED
      BY <3>1
  <2>4. Cardinality(linked) > 1 \/ linked = {a}
    <3>1. Cardinality(linked \ {a}) = Cardinality(linked) - 1 /\ IsFiniteSet(linked \ {a})
      BY <2>2, FS_RemoveElement DEF AccountsInv
    <3>2. Cardinality(linked) \in Nat /\ Cardinality(linked \ {a}) \in Nat
      BY <3>1, FS_CardinalityType DEF AccountsInv
    <3>3. Cardinality(linked \ {a}) = 0 => linked \ {a} = {}
      BY <3>1, FS_EmptySet
    <3> QED
      BY <2>2, <3>1, <3>2, <3>3
  <2> HIDE DEF c
  <2>5. StillSo(k)'
    BY <1>0, <1>3, <2>1, <2>2, <2>3, <2>4 DEF OpenRemove, Enters, StillSo, AccountsTypeOK
  <2> QED
    BY <2>1, <2>2, <2>5, EntersKeeps DEF AboutOps
<1>4. ASSUME NEW k \in BankCall, CountAccounts(k) PROVE AccountsInv'
  <2> DEFINE c == [bankCall[k] EXCEPT !.op = "linking", !.alone = (linked = {}),
                     !.cleared = IF bankCall[k].asDefault THEN linked ELSE {}]
  <2>1. /\ c \in BankCallRow /\ c.op = "linking" /\ c.of = bankCall[k].of
        /\ c.alone = (linked = {}) /\ c.asDefault = bankCall[k].asDefault
        /\ c.cleared = IF c.asDefault THEN linked ELSE {}
    BY <1>0 DEF BankCallRow, AccountsTypeOK
  <2>2. /\ bankCall' = [bankCall EXCEPT ![k] = c] /\ bankCall[k].op = "link"
        /\ UNCHANGED <<linked, default, activeLoan, crossedCalls, nubanVars>>
    BY <1>4 DEF CountAccounts
  <2> HIDE DEF c
  <2>3. \A m \in BankCall : bankCall'[m] = IF m = k THEN c ELSE bankCall[m]
    BY <1>0, <2>2 DEF AccountsTypeOK
  <2>4. AccountsTypeOK'
    BY <1>0, <2>1, <2>2 DEF AccountsTypeOK, nubanVars
  <2>5. \A m \in BankCall : AboutAccounts(m)' <=> AboutAccounts(m)
    BY <2>1, <2>2, <2>3 DEF AboutAccounts
  <2>6. CallsName'
    BY <2>1, <2>3, <2>5 DEF AccountsInv, CallsName
  <2>7. ASSUME ~ crossedCalls PROVE Uncrossed'
    <3>1. OneAtATime' /\ DefaultKept'
      BY <2>2, <2>5, <2>7 DEF AccountsInv, Uncrossed, OneAtATime, DefaultKept
    <3>2. StillSo(k)'
      BY <2>1, <2>2, <2>3, <2>7 DEF AccountsInv, Uncrossed, StillSo
    <3>3. ASSUME NEW m \in BankCall, m # k PROVE StillSo(m)'
      BY <2>2, <2>3, <2>7, <3>3 DEF AccountsInv, Uncrossed, StillSo
    <3> QED
      BY <3>1, <3>2, <3>3 DEF Uncrossed
  <2> QED
    BY <2>2, <2>4, <2>6, <2>7 DEF AccountsInv
<1>5. ASSUME NEW k \in BankCall, CreateAccount(k) PROVE AccountsInv'
  <2> DEFINE c == bankCall[k]
  <2>1. c.of \in Account /\ AboutAccounts(k) /\ Leaves(k) /\ UNCHANGED <<activeLoan, nubanVars>>
    BY <1>5 DEF CreateAccount, AboutAccounts, AccountsInv, CallsName
  <2>2. CASE c.of \in linked
    <3>1. UNCHANGED <<linked, default>> /\ bankCall[k].op = "linking"
      BY <1>5, <2>2 DEF CreateAccount
    <3>2. crossedCalls
      BY <2>2, <3>1 DEF AccountsInv, Uncrossed, StillSo
    <3> QED
      BY <1>0, <2>1, <3>1, <3>2, LeavesKeeps DEF AccountsInv, AccountsTypeOK
  <2>3. CASE c.of \notin linked
    <3>1. /\ linked' = linked \cup {c.of}
          /\ default' = (default \ c.cleared)
                          \cup (IF c.asDefault \/ c.alone THEN {c.of} ELSE {})
          /\ bankCall[k].op = "linking"
      BY <1>5, <2>3 DEF CreateAccount
    <3>2. IsFiniteSet(linked')
      BY <3>1, FS_AddElement DEF AccountsInv
    <3>3. linked' \subseteq Account /\ default' \subseteq linked'
      BY <1>0, <2>1, <3>1 DEF AccountsTypeOK
    <3>4. ASSUME ~ crossedCalls PROVE DefaultKept'
      <4>1. /\ c.alone = (linked = {}) /\ c.cleared = IF c.asDefault THEN linked ELSE {}
            /\ DefaultKept /\ default \subseteq linked
        BY <3>1, <3>4 DEF AccountsInv, AccountsTypeOK, Uncrossed, StillSo
      <4>2. CASE c.asDefault \/ linked = {}
        <5>1. default' = {c.of}
          BY <3>1, <4>1, <4>2
        <5> QED
          BY <3>1, <5>1 DEF DefaultKept
      <4>3. CASE ~ c.asDefault /\ linked # {}
        <5>1. default' = default
          BY <3>1, <4>1, <4>3
        <5> QED
          BY <3>1, <4>1, <4>3, <5>1 DEF DefaultKept
      <4> QED
        BY <4>2, <4>3
    <3> QED
      BY <2>1, <3>2, <3>3, <3>4, LeavesKeeps
  <2> QED
    BY <2>2, <2>3
<1>6. ASSUME NEW k \in BankCall, SetDefault(k) PROVE AccountsInv'
  <2>1. /\ AboutAccounts(k) /\ Leaves(k) /\ UNCHANGED <<linked, activeLoan, nubanVars>>
        /\ default' = IF bankCall[k].of \in linked THEN {bankCall[k].of} ELSE default
    BY <1>6 DEF SetDefault, AboutAccounts
  <2>2. linked' \subseteq Account /\ default' \subseteq linked' /\ IsFiniteSet(linked')
    BY <1>0, <2>1 DEF AccountsInv, AccountsTypeOK
  <2>3. ~ crossedCalls => DefaultKept'
    BY <2>1 DEF AccountsInv, Uncrossed, DefaultKept
  <2> QED
    BY <2>1, <2>2, <2>3, LeavesKeeps
<1>7. ASSUME NEW k \in BankCall, DeleteAccount(k) PROVE AccountsInv'
  <2> DEFINE a == bankCall[k].of
  <2>1. /\ AboutAccounts(k) /\ Leaves(k) /\ UNCHANGED <<activeLoan, nubanVars>>
        /\ linked' = linked \ {a} /\ default' = default \ {a} /\ bankCall[k].op = "remove"
    BY <1>7 DEF DeleteAccount, AboutAccounts
  <2>2. IsFiniteSet(linked')
    BY <2>1, FS_RemoveElement, FS_Subset DEF AccountsInv
  <2>3. linked' \subseteq Account /\ default' \subseteq linked'
    BY <1>0, <2>1 DEF AccountsTypeOK
  <2>4. ASSUME ~ crossedCalls PROVE DefaultKept'
    <3>1. /\ a \in linked /\ (a \in default => linked = {a}) /\ (activeLoan => linked # {a})
          /\ DefaultKept /\ default \subseteq linked
      BY <2>1, <2>4 DEF AccountsInv, AccountsTypeOK, Uncrossed, StillSo
    <3>2. CASE a \in default
      BY <2>1, <3>1, <3>2 DEF DefaultKept
    <3>3. CASE a \notin default
      <4>1. PICK b \in linked : default = {b}
        BY <3>1 DEF DefaultKept
      <4>2. b \in linked' /\ default' = {b}
        BY <2>1, <3>3, <4>1
      <4> QED
        BY <4>2 DEF DefaultKept
    <3> QED
      BY <3>2, <3>3
  <2> QED
    BY <2>1, <2>2, <2>3, <2>4, LeavesKeeps
<1>8. ASSUME NEW k \in BankCall, OpenProvision(k) \/ Provision(k) PROVE AccountsInv'
  <2>1. PICK c \in BankCallRow : /\ bankCall' = [bankCall EXCEPT ![k] = c]
                                 /\ c.op \notin AboutOps
    <3>1. [NoBankCall EXCEPT !.op = "provision"] \in BankCallRow /\ NoBankCall \in BankCallRow
      BY DEF NoBankCall, BankCallRow
    <3>2. /\ NoBankCall.op \notin AboutOps
          /\ [NoBankCall EXCEPT !.op = "provision"].op \notin AboutOps
      BY DEF NoBankCall, AboutOps
    <3>3. \/ bankCall' = [bankCall EXCEPT ![k] = [NoBankCall EXCEPT !.op = "provision"]]
          \/ bankCall' = [bankCall EXCEPT ![k] = NoBankCall]
      BY <1>8 DEF OpenProvision, Provision, Leaves
    <3> QED
      BY <3>1, <3>2, <3>3
  <2>2. ~ AboutAccounts(k) /\ UNCHANGED <<linked, default, activeLoan, crossedCalls, named>>
    BY <1>8 DEF OpenProvision, Provision, Leaves, Rests, AboutAccounts, nubanVars
  <2>3. nuban' \in Nuban \cup {NONE} /\ issued' \subseteq Nuban
    BY <1>0, <1>8 DEF OpenProvision, Provision, nubanVars, AccountsTypeOK
  <2>4. \A m \in BankCall : bankCall'[m] = IF m = k THEN c ELSE bankCall[m]
    BY <1>0, <2>1 DEF AccountsTypeOK
  <2>5. AccountsTypeOK'
    BY <1>0, <2>1, <2>2, <2>3 DEF AccountsTypeOK
  <2>6. ~ AboutAccounts(k)' /\ StillSo(k)'
    BY <2>1, <2>4 DEF AboutAccounts, AboutOps, StillSo
  <2>7. \A m \in BankCall : m # k => (AboutAccounts(m)' <=> AboutAccounts(m))
    BY <2>4 DEF AboutAccounts
  <2>8. CallsName'
    BY <2>4, <2>6, <2>7 DEF AccountsInv, CallsName
  <2>9. ASSUME ~ crossedCalls PROVE Uncrossed'
    <3>1. OneAtATime' /\ DefaultKept'
      BY <2>2, <2>6, <2>7, <2>9 DEF AccountsInv, Uncrossed, OneAtATime, DefaultKept
    <3>2. ASSUME NEW m \in BankCall, m # k PROVE StillSo(m)'
      BY <2>2, <2>4, <2>9, <3>2 DEF AccountsInv, Uncrossed, StillSo
    <3> QED
      BY <2>6, <3>1, <3>2 DEF Uncrossed
  <2> QED
    BY <2>2, <2>5, <2>8, <2>9 DEF AccountsInv
<1>9. CASE LoanStarts
  <2>1. AccountsTypeOK' /\ CallsName' /\ IsFiniteSet(linked')
    BY <1>0, <1>9 DEF LoanStarts, AccountsInv, AccountsTypeOK, nubanVars, CallsName, AboutAccounts
  <2>2. ASSUME ~ crossedCalls' PROVE Uncrossed'
    <3>1. Uncrossed /\ (\A k \in BankCall : ~ AboutAccounts(k)) /\ linked # {}
      BY <1>0, <1>9, <2>2 DEF LoanStarts, AccountsInv, AccountsTypeOK
    <3>2. OneAtATime' /\ DefaultKept'
      BY <1>9, <3>1 DEF LoanStarts, Uncrossed, OneAtATime, DefaultKept, AboutAccounts
    <3>3. \A k \in BankCall : StillSo(k)'
      BY <1>9, <3>1 DEF LoanStarts, StillSo, AboutAccounts
    <3> QED
      BY <3>2, <3>3 DEF Uncrossed
  <2> QED
    BY <2>1, <2>2 DEF AccountsInv
<1>10. CASE LoanEnds
  <2>1. AccountsTypeOK' /\ CallsName' /\ IsFiniteSet(linked')
    BY <1>0, <1>10 DEF LoanEnds, AccountsInv, AccountsTypeOK, nubanVars, CallsName, AboutAccounts
  <2>2. ASSUME ~ crossedCalls' PROVE Uncrossed'
    BY <1>10, <2>2
    DEF LoanEnds, AccountsInv, Uncrossed, OneAtATime, DefaultKept, AboutAccounts, StillSo
  <2> QED
    BY <2>1, <2>2 DEF AccountsInv
<1>11. CASE SetUpName \/ UNCHANGED accountVars
  <2>1. UNCHANGED <<bankVars, nuban, issued>> /\ named' \in BOOLEAN
    BY <1>0, <1>11 DEF SetUpName, accountVars, bankVars, AccountsTypeOK
  <2>2. AccountsTypeOK' /\ CallsName' /\ IsFiniteSet(linked')
    BY <1>0, <2>1 DEF bankVars, AccountsInv, AccountsTypeOK, CallsName, AboutAccounts
  <2>3. ASSUME ~ crossedCalls' PROVE Uncrossed'
    BY <2>1, <2>3
    DEF bankVars, AccountsInv, Uncrossed, OneAtATime, DefaultKept, AboutAccounts, StillSo
  <2> QED
    BY <2>2, <2>3 DEF AccountsInv
<1> QED
  BY <1>1, <1>2, <1>3, <1>4, <1>5, <1>6, <1>7, <1>8, <1>9, <1>10, <1>11 DEF AccountsNext

(* As long as a call about a worker's accounts met no other, and no loan that started:
   one account is the default if there is any, and an active loan keeps one
   (wallet/banks.service.ts).  Calls may cross in any number otherwise. *)
THEOREM DefaultAccount == AccountsSpec => []OneDefaultAccount
<1>1. AccountsInit => AccountsInv
  BY AccountsInvInit
<1>2. AccountsInv /\ [AccountsNext]_accountVars => AccountsInv'
  BY AccountsInvStep
<1>3. AccountsInv => OneDefaultAccount
  BY AccountsInvKeeps
<1> QED
  BY <1>1, <1>2, <1>3, PTL DEF AccountsSpec

(***************************************************************************)
(* Ratings: types.                                                         *)
(***************************************************************************)
LEMMA RaterFields ==
  ASSUME NEW c \in RaterRow
  PROVE  /\ c.at \in {"open", "insert", "commit"} => c.s \in Shift /\ c.a \in Author
         /\ c.at \in {"insert", "commit"} => c.other \in BOOLEAN
         /\ c.at = "commit" => c.saw \subseteq Shift
  BY DEF RaterRow, NotRating

LEMMA RaterMakes ==
  ASSUME NEW s \in Shift, NEW a \in Author
  PROVE  /\ NotRating \in RaterRow
         /\ [at |-> "open", s |-> s, a |-> a] \in RaterRow
         /\ \A o \in BOOLEAN : [at |-> "insert", s |-> s, a |-> a, other |-> o] \in RaterRow
         /\ \A o \in BOOLEAN, saw \in SUBSET Shift :
              [at |-> "commit", s |-> s, a |-> a, other |-> o, saw |-> saw] \in RaterRow
  BY DEF RaterRow

LEMMA ShiftRowMakes ==
  ASSUME NEW row \in ShiftRow, NEW state \in Rateable, NEW done \in BOOLEAN
  PROVE  [row EXCEPT !.state = state, !.done = done] \in ShiftRow
  BY DEF ShiftRow

LEMMA RatingRowMakes ==
  ASSUME NEW row \in RatingRow, NEW on \in BOOLEAN
  PROVE  /\ [row EXCEPT !.late = TRUE] \in RatingRow
         /\ [row EXCEPT !.unblinded = row.unblinded \/ on] \in RatingRow
         /\ [row EXCEPT !.unblinded = row.unblinded \/ on].there = row.there
         /\ [row EXCEPT !.unblinded = row.unblinded \/ on].unblinded = (row.unblinded \/ on)
  BY DEF RatingRow

LEMMA OtherAuthor ==
  \A a \in Author : Other(a) \in Author /\ Other(a) # a /\ Other(Other(a)) = a
  BY DEF Author, Other

LEMMA TwoAuthors == \A a, b \in Author : b = a \/ b = Other(a)
  BY DEF Author, Other

(***************************************************************************)
(* Ratings: who sees what.                                                 *)
(*                                                                         *)
(* A transaction that another one met is in `crossed`, and so is the       *)
(* other; one that no other met sees the counterpart if there is any, and  *)
(* all ratings of its subject.                                             *)
(***************************************************************************)
ShiftsKept ==
    \A s \in Shift : /\ shift[s].state = "auto_review" => ~ shift[s].done
                     /\ shift[s].late => shift[s].done
MetIsCrossed ==
    \A j, k \in InTransaction : j # k => RatingOf(j) \in crossed /\ RatingOf(k) \in crossed
OtherSeen ==
    \A k \in InTransaction :
        IF rater[k].other THEN rating[rater[k].s][Other(rater[k].a)].there
        ELSE rating[rater[k].s][Other(rater[k].a)].there => RatingOf(k) \in crossed
AllSeen ==
    \A k \in Rater : rater[k].at = "commit" =>
        /\ rater[k].s \in rater[k].saw
        /\ \A t \in Shift : rating[t][rater[k].a].there =>
              t \in rater[k].saw \/ <<t, rater[k].a>> \in crossed
ShownTogether ==
    \A s \in Shift :
        /\ \A a \in Author : rating[s][a].unblinded => \A b \in Author : rating[s][b].there
        /\ (\A a \in Author : rating[s][a].there /\ <<s, a>> \notin crossed) =>
              \A a \in Author : rating[s][a].unblinded
ShownCounted ==
    \A s \in Shift, a \in Author :
        rating[s][a].there => s \in shown[Other(a)] \/ <<s, a>> \in crossed

RatingsInv ==
    /\ RatingsTypeOK /\ ShiftsKept /\ MetIsCrossed /\ OtherSeen /\ AllSeen
    /\ ShownTogether /\ ShownCounted

LEMMA RatingsInvKeeps == RatingsInv => BlindUntilBoth
<1> SUFFICES ASSUME RatingsInv PROVE BlindUntilBoth
  OBVIOUS
<1>1. ASSUME NEW s \in Shift, NEW a \in Author, Visible(s, a), ~ rating[s][a].late
      PROVE  rating[s][Other(a)].there
  BY <1>1, OtherAuthor DEF Visible, RatingsInv, ShownTogether
<1>2. ASSUME NEW s \in Shift, \A a \in Author : rating[s][a].there /\ <<s, a>> \notin crossed,
             NEW a \in Author
      PROVE  s \in Received(a)
  BY <1>2, OtherAuthor DEF Received, Visible, RatingsInv, ShownTogether
<1>3. ASSUME NEW s \in Shift, NEW a \in Author, rating[s][a].there, s \notin shown[Other(a)]
      PROVE  <<s, a>> \in crossed
  BY <1>3 DEF RatingsInv, ShownCounted
<1>4. ASSUME ~ MayPost PROVE Pending("employer") # {}
  <2>1. PICK s \in Shift : /\ shift[s].state \in Paid /\ shift[s].late
                           /\ ~ rating[s]["employer"].there
    BY <1>4 DEF MayPost
  <2>2. s \in Pending("employer")
    BY <2>1 DEF Pending, Paid, Rateable, RatingsInv, ShiftsKept
  <2> QED
    BY <2>2
<1> QED
  BY <1>1, <1>2, <1>3, <1>4 DEF BlindUntilBoth

LEMMA RatingsInvInit == RatingsInit => RatingsInv
<1> SUFFICES ASSUME RatingsInit PROVE RatingsInv
  OBVIOUS
<1>1. RatingsTypeOK
  BY DEF RatingsInit, RatingsTypeOK, ShiftRow, RatingRow, Unrated, RaterRow
<1>2. ShiftsKept
  BY DEF RatingsInit, ShiftsKept
<1>3. InTransaction = {} /\ AllSeen
  BY DEF RatingsInit, InTransaction, AllSeen, NotRating
<1>4. MetIsCrossed /\ OtherSeen
  BY <1>3 DEF MetIsCrossed, OtherSeen
<1>5. \A s \in Shift, a \in Author : ~ rating[s][a].there /\ ~ rating[s][a].unblinded
  BY DEF RatingsInit, Unrated
<1>6. ShownTogether /\ ShownCounted
  BY <1>5, OtherAuthor DEF ShownTogether, ShownCounted, Author
<1> QED
  BY <1>1, <1>2, <1>3, <1>4, <1>6 DEF RatingsInv

\* The ratings are as they were, but for time that has passed.
SameRatings ==
    \A s \in Shift, a \in Author : /\ rating'[s][a].there = rating[s][a].there
                                   /\ rating'[s][a].unblinded = rating[s][a].unblinded

LEMMA RatingsStay ==
  ASSUME RatingsInv, RatingsTypeOK', ShiftsKept', SameRatings,
         crossed \subseteq crossed', shown' = shown
  PROVE  ShownTogether' /\ ShownCounted'
<1>1. ShownTogether'
  BY DEF RatingsInv, ShownTogether, SameRatings
<1>2. ShownCounted'
  BY OtherAuthor DEF RatingsInv, ShownCounted, SameRatings
<1> QED
  BY <1>1, <1>2

\* The requests are as they were.
LEMMA RatersStay ==
  ASSUME RatingsInv, SameRatings, UNCHANGED <<rater, crossed>>
  PROVE  MetIsCrossed' /\ OtherSeen' /\ AllSeen'
<1>1. InTransaction' = InTransaction /\ \A k \in Rater : RatingOf(k)' = RatingOf(k)
  BY DEF InTransaction, RatingOf
<1>2. \A k \in InTransaction : rater[k].s \in Shift /\ Other(rater[k].a) \in Author
  BY RaterFields, OtherAuthor DEF InTransaction, RatingsInv, RatingsTypeOK
<1>3. MetIsCrossed'
  BY <1>1 DEF RatingsInv, MetIsCrossed, InTransaction
<1>4. OtherSeen'
  BY <1>1, <1>2 DEF RatingsInv, OtherSeen, SameRatings, InTransaction
<1>5. AllSeen'
  BY RaterFields DEF RatingsInv, RatingsTypeOK, AllSeen, SameRatings
<1> QED
  BY <1>3, <1>4, <1>5

LEMMA RatingsInvStep ==
  ASSUME RatingsInv, [RatingsNext]_ratingVars
  PROVE  RatingsInv'
<1>0. RatingsTypeOK /\ ShiftsKept
  BY DEF RatingsInv
<1>1. ASSUME NEW s \in Shift, NEW state \in Rateable, EndShift(s, state) PROVE RatingsInv'
  <2>0. [shift[s] EXCEPT !.state = state, !.done = state \in Paid] \in ShiftRow
    <3>1. shift[s] \in ShiftRow /\ (state \in Paid) \in BOOLEAN
      BY <1>0 DEF RatingsTypeOK
    <3> QED
      BY <3>1, ShiftRowMakes
  <2>1. shift' \in [Shift -> ShiftRow]
    BY <1>0, <1>1, <2>0 DEF EndShift, RatingsTypeOK
  <2>2. RatingsTypeOK'
    BY <1>0, <1>1, <2>1 DEF EndShift, RatingsTypeOK
  <2>3. ShiftsKept'
    BY <1>0, <1>1 DEF EndShift, RatingsTypeOK, ShiftRow, ShiftsKept, Rateable
  <2>4. SameRatings /\ UNCHANGED <<rater, crossed, shown>>
    BY <1>1 DEF EndShift, SameRatings
  <2> QED
    BY <2>2, <2>3, <2>4, RatingsStay, RatersStay DEF RatingsInv
<1>2. ASSUME NEW s \in Shift, DayPasses(s) PROVE RatingsInv'
  <2>1. shift' \in [Shift -> ShiftRow]
    BY <1>0, <1>2 DEF DayPasses, RatingsTypeOK, ShiftRow
  <2>2. RatingsTypeOK'
    BY <1>0, <1>2, <2>1 DEF DayPasses, RatingsTypeOK
  <2>3. ShiftsKept'
    BY <1>0, <1>2 DEF DayPasses, RatingsTypeOK, ShiftRow, ShiftsKept
  <2>4. SameRatings /\ UNCHANGED <<rater, crossed, shown>>
    BY <1>2 DEF DayPasses, SameRatings
  <2> QED
    BY <2>2, <2>3, <2>4, RatingsStay, RatersStay DEF RatingsInv
<1>3. ASSUME NEW s \in Shift, NEW a \in Author, BlindWindowEnds(s, a) PROVE RatingsInv'
  <2>1. rating' \in [Shift -> [Author -> RatingRow]] /\ SameRatings
    <3>1. rating' = [rating EXCEPT ![s][a].late = TRUE]
      BY <1>3 DEF BlindWindowEnds
    <3>2. rating \in [Shift -> [Author -> RatingRow]]
      BY <1>0 DEF RatingsTypeOK
    <3>4. rating[s][a] \in RatingRow
      BY <3>2
    <3>3. [rating[s][a] EXCEPT !.late = TRUE] \in RatingRow
      BY <3>4, RatingRowMakes
    <3> QED
      BY <3>1, <3>2, <3>3 DEF SameRatings, RatingRow
  <2>2. RatingsTypeOK' /\ ShiftsKept' /\ UNCHANGED <<rater, crossed, shown>>
    BY <1>0, <1>3, <2>1 DEF BlindWindowEnds, RatingsTypeOK, ShiftsKept
  <2> QED
    BY <2>1, <2>2, RatingsStay, RatersStay DEF RatingsInv
<1>4. ASSUME NEW k \in Rater, NEW s \in Shift, NEW a \in Author, OpenRating(k, s, a)
      PROVE  RatingsInv'
  <2>1. rater' \in [Rater -> RaterRow]
    BY <1>0, <1>4, RaterMakes DEF OpenRating, RatingsTypeOK
  <2>2. RatingsTypeOK' /\ ShiftsKept' /\ SameRatings /\ UNCHANGED <<crossed, shown>>
    BY <1>0, <1>4, <2>1 DEF OpenRating, RatingsTypeOK, ShiftsKept, SameRatings
  <2>3. /\ k \notin InTransaction /\ InTransaction' = InTransaction
        /\ rater'[k].at = "open" /\ \A j \in Rater \ {k} : rater'[j] = rater[j]
    BY <1>0, <1>4 DEF OpenRating, InTransaction, NotRating, RatingsTypeOK
  <2>4. \A j \in InTransaction : rater'[j] = rater[j] /\ RatingOf(j)' = RatingOf(j)
    BY <2>3 DEF InTransaction, RatingOf
  <2>5. MetIsCrossed' /\ OtherSeen'
    BY <1>4, <2>2, <2>3, <2>4 DEF OpenRating, RatingsInv, MetIsCrossed, OtherSeen
  <2>6. AllSeen'
    BY <1>4, <2>3 DEF OpenRating, RatingsInv, AllSeen
  <2> QED
    BY <2>2, <2>5, <2>6, RatingsStay DEF RatingsInv
<1>5. ASSUME NEW k \in Rater, ReadCounterpart(k) PROVE RatingsInv'
  <2>1. PICK s \in Shift, a \in Author : s = rater[k].s /\ a = rater[k].a
    BY <1>0, <1>5, RaterFields DEF ReadCounterpart, RatingsTypeOK
  <2>2. PICK o \in BOOLEAN : o = rating[s][Other(a)].there
    BY <1>0, OtherAuthor DEF RatingsTypeOK, RatingRow
  <2>3. /\ rater' = [rater EXCEPT ![k] = [at |-> "insert", s |-> s, a |-> a, other |-> o]]
        /\ rater[k].at = "open" /\ UNCHANGED <<shift, rating, shown>>
    BY <1>5, <2>1, <2>2 DEF ReadCounterpart
  <2>4. /\ crossed \subseteq crossed'
        /\ InTransaction # {} => <<s, a>> \in crossed'
        /\ \A j \in InTransaction : RatingOf(j) \in crossed'
    BY <1>5, <2>1 DEF ReadCounterpart, RatingOf
  <2>5. crossed' \subseteq Shift \X Author
    <3>1. \A j \in InTransaction : RatingOf(j) \in Shift \X Author
      BY <1>0, RaterFields DEF InTransaction, RatingOf, RatingsTypeOK
    <3> QED
      BY <1>0, <1>5, <2>1, <3>1 DEF ReadCounterpart, RatingOf, RatingsTypeOK
  <2>6. RatingsTypeOK' /\ ShiftsKept' /\ SameRatings
    BY <1>0, <2>3, <2>5, RaterMakes DEF RatingsTypeOK, ShiftsKept, SameRatings
  <2>7. /\ k \notin InTransaction /\ InTransaction' = InTransaction \cup {k}
        /\ rater'[k] = [at |-> "insert", s |-> s, a |-> a, other |-> o]
        /\ \A j \in Rater \ {k} : rater'[j] = rater[j]
    BY <1>0, <2>3 DEF InTransaction, RatingsTypeOK
  <2>8. /\ RatingOf(k)' = <<s, a>>
        /\ \A j \in InTransaction : rater'[j] = rater[j] /\ RatingOf(j)' = RatingOf(j)
    BY <2>7 DEF InTransaction, RatingOf
  <2>9. MetIsCrossed'
    BY <2>4, <2>7, <2>8 DEF MetIsCrossed
  <2>10. OtherSeen'
    <3>1. ASSUME NEW j \in InTransaction
          PROVE  IF rater'[j].other THEN rating'[rater'[j].s][Other(rater'[j].a)].there
                 ELSE rating'[rater'[j].s][Other(rater'[j].a)].there => RatingOf(j)' \in crossed'
      BY <2>3, <2>4, <2>8 DEF RatingsInv, OtherSeen
    <3>2. IF rater'[k].other THEN rating'[rater'[k].s][Other(rater'[k].a)].there
          ELSE ~ rating'[rater'[k].s][Other(rater'[k].a)].there
      BY <2>2, <2>3, <2>7
    <3> QED
      BY <2>7, <3>1, <3>2 DEF OtherSeen
  <2>11. AllSeen'
    BY <2>3, <2>4, <2>7 DEF RatingsInv, AllSeen
  <2> QED
    BY <2>3, <2>4, <2>6, <2>9, <2>10, <2>11, RatingsStay DEF RatingsInv
<1>6. ASSUME NEW k \in Rater, InsertRating(k) PROVE RatingsInv'
  <2>1. PICK s \in Shift, a \in Author : s = rater[k].s /\ a = rater[k].a
    BY <1>0, <1>6, RaterFields DEF InsertRating, RatingsTypeOK
  <2>2. PICK o \in BOOLEAN, saw \in SUBSET Shift :
          o = rater[k].other /\ saw = {s} \cup {t \in Shift : rating[t][a].there}
    BY <1>0, <1>6, RaterFields DEF InsertRating, RatingsTypeOK
  <2> DEFINE c == [at |-> "commit", s |-> s, a |-> a, other |-> o, saw |-> saw]
  <2>3. /\ rater' = [rater EXCEPT ![k] = IF rating[s][a].there THEN NotRating ELSE c]
        /\ rater[k].at = "insert" /\ UNCHANGED <<shift, rating, shown, crossed>>
    BY <1>6, <2>1, <2>2 DEF InsertRating
  <2>4. c \in RaterRow /\ c.at = "commit" /\ c.s = s /\ c.a = a /\ c.other = o /\ c.saw = saw
    BY RaterMakes
  <2> HIDE DEF c
  <2>5. RatingsTypeOK' /\ ShiftsKept' /\ SameRatings
    BY <1>0, <2>3, <2>4, RaterMakes DEF RatingsTypeOK, ShiftsKept, SameRatings
  <2>6. /\ rater'[k] = NotRating \/ rater'[k] = c
        /\ \A j \in Rater \ {k} : rater'[j] = rater[j]
    BY <1>0, <2>3 DEF RatingsTypeOK
  <2>7. k \in InTransaction /\ InTransaction' \subseteq InTransaction
    BY <2>3, <2>6 DEF InTransaction, NotRating
  <2>8. \A j \in InTransaction' : /\ rater'[j].s = rater[j].s /\ rater'[j].a = rater[j].a
                                  /\ rater'[j].other = rater[j].other
                                  /\ RatingOf(j)' = RatingOf(j)
    <3>1. \A j \in InTransaction' : j \in Rater /\ (j = k => rater'[k] = c)
      BY <2>6 DEF InTransaction, NotRating
    <3> QED
      BY <2>1, <2>2, <2>4, <2>6, <3>1 DEF RatingOf
  <2>9. MetIsCrossed'
    BY <2>3, <2>7, <2>8 DEF RatingsInv, MetIsCrossed
  <2>10. OtherSeen'
    BY <2>3, <2>7, <2>8 DEF RatingsInv, OtherSeen
  <2>11. AllSeen'
    <3> SUFFICES ASSUME NEW j \in Rater, rater'[j].at = "commit"
                 PROVE  /\ rater'[j].s \in rater'[j].saw
                        /\ \A t \in Shift : rating[t][rater'[j].a].there =>
                              t \in rater'[j].saw \/ <<t, rater'[j].a>> \in crossed
      BY <2>3 DEF AllSeen
    <3>1. CASE j = k
      <4>1. rater'[j] = c
        BY <2>6, <3>1 DEF NotRating
      <4> QED
        BY <2>2, <2>4, <4>1
    <3>2. CASE j # k
      BY <2>6, <3>2 DEF RatingsInv, AllSeen
    <3> QED
      BY <3>1, <3>2
  <2> QED
    BY <2>3, <2>5, <2>9, <2>10, <2>11, RatingsStay DEF RatingsInv
<1>7. ASSUME NEW k \in Rater, CommitRating(k) PROVE RatingsInv'
  <2>1. PICK s \in Shift, a \in Author : s = rater[k].s /\ a = rater[k].a
    BY <1>0, <1>7, RaterFields DEF CommitRating, RatingsTypeOK
  <2>2. PICK o \in BOOLEAN, saw \in SUBSET Shift : o = rater[k].other /\ saw = rater[k].saw
    BY <1>0, <1>7, RaterFields DEF CommitRating, RatingsTypeOK
  <2> DEFINE mine == [there |-> TRUE, unblinded |-> o, late |-> FALSE]
             row(b) == IF b = a THEN mine
                       ELSE [rating[s][b] EXCEPT !.unblinded = rating[s][b].unblinded \/ o]
  <2>3. /\ rating' = [rating EXCEPT ![s] = [b \in Author |-> row(b)]]
        /\ shown' = [shown EXCEPT ![Other(a)] = saw]
        /\ rater' = [rater EXCEPT ![k] = NotRating]
        /\ rater[k].at = "commit" /\ UNCHANGED <<shift, crossed>>
    BY <1>7, <2>1, <2>2 DEF CommitRating
  <2>4. \A b \in Author : /\ row(b) \in RatingRow
                          /\ row(b).there = (rating[s][b].there \/ b = a)
                          /\ row(b).unblinded = IF b = a THEN o ELSE rating[s][b].unblinded \/ o
    <3> SUFFICES ASSUME NEW b \in Author
                 PROVE  /\ row(b) \in RatingRow
                        /\ row(b).there = (rating[s][b].there \/ b = a)
                        /\ row(b).unblinded = IF b = a THEN o ELSE rating[s][b].unblinded \/ o
      OBVIOUS
    <3>1. rating[s][b] \in RatingRow
      BY <1>0 DEF RatingsTypeOK
    <3>2. CASE b = a
      <4>1. row(b) = mine
        BY <3>2
      <4>2. mine \in RatingRow /\ mine.there /\ mine.there = TRUE /\ mine.unblinded = o
        BY DEF RatingRow
      <4>3. (rating[s][b].there \/ b = a) = TRUE
        BY <3>2
      <4> HIDE DEF mine, row
      <4>4. row(b) \in RatingRow /\ row(b).there = TRUE /\ row(b).unblinded = o
        BY <4>1, <4>2
      <4>5. row(b).there = (rating[s][b].there \/ b = a)
        BY <4>3, <4>4, Zenon
      <4>6. row(b).unblinded = IF b = a THEN o ELSE rating[s][b].unblinded \/ o
        BY <3>2, <4>4, Zenon
      <4> QED
        BY <4>4, <4>5, <4>6, Zenon
    <3>3. CASE b # a
      <4>1. row(b) = [rating[s][b] EXCEPT !.unblinded = rating[s][b].unblinded \/ o]
        BY <3>3
      <4> HIDE DEF row
      <4>2. /\ row(b) \in RatingRow /\ row(b).there = rating[s][b].there
            /\ row(b).unblinded = (rating[s][b].unblinded \/ o)
        <5>1. PICK r \in RatingRow : r = rating[s][b]
          BY <3>1
        <5>2. /\ [r EXCEPT !.unblinded = r.unblinded \/ o] \in RatingRow
              /\ [r EXCEPT !.unblinded = r.unblinded \/ o].there = r.there
              /\ [r EXCEPT !.unblinded = r.unblinded \/ o].unblinded = (r.unblinded \/ o)
          BY RatingRowMakes, Zenon
        <5> QED
          BY <4>1, <5>1, <5>2, Zenon
      <4>3. rating[s][b].there \in BOOLEAN
        BY <3>1 DEF RatingRow
      <4>4. rating[s][b].there = (rating[s][b].there \/ b = a)
        BY <3>3, <4>3
      <4>5. row(b).unblinded = IF b = a THEN o ELSE rating[s][b].unblinded \/ o
        BY <3>3, <4>2, Zenon
      <4> QED
        BY <4>2, <4>4, <4>5, Zenon
    <3> QED
      BY <3>2, <3>3
  <2> HIDE DEF mine, row
  <2>5. rating' \in [Shift -> [Author -> RatingRow]]
    BY <1>0, <2>3, <2>4 DEF RatingsTypeOK
  <2>6. RatingsTypeOK' /\ ShiftsKept'
    BY <1>0, <2>3, <2>5, RaterMakes DEF RatingsTypeOK, ShiftsKept
  <2>7. \A t \in Shift, b \in Author :
          /\ rating'[t][b].there = (rating[t][b].there \/ (t = s /\ b = a))
          /\ rating'[t][b].unblinded =
               IF t = s THEN (IF b = a THEN o ELSE rating[s][b].unblinded \/ o)
               ELSE rating[t][b].unblinded
    BY <1>0, <2>3, <2>4 DEF RatingsTypeOK, RatingRow
  <2>8. /\ k \in InTransaction /\ RatingOf(k) = <<s, a>>
        /\ InTransaction' = InTransaction \ {k}
        /\ \A j \in Rater \ {k} : rater'[j] = rater[j]
        /\ rater'[k] = NotRating
    BY <1>0, <2>1, <2>3 DEF InTransaction, RatingOf, NotRating, RatingsTypeOK
  <2>9. \A j \in InTransaction' : /\ rater'[j] = rater[j] /\ RatingOf(j)' = RatingOf(j)
                                  /\ RatingOf(j) \in crossed /\ <<s, a>> \in crossed
    BY <2>8 DEF RatingsInv, MetIsCrossed, InTransaction, RatingOf
  <2>10. MetIsCrossed'
    BY <2>3, <2>9 DEF MetIsCrossed
  <2>11. OtherSeen'
    <3> SUFFICES ASSUME NEW j \in InTransaction'
                 PROVE  IF rater'[j].other THEN rating'[rater'[j].s][Other(rater'[j].a)].there
                        ELSE rating'[rater'[j].s][Other(rater'[j].a)].there
                                => RatingOf(j)' \in crossed'
      BY DEF OtherSeen
    <3>1. /\ j \in InTransaction /\ rater'[j] = rater[j]
          /\ rater[j].s \in Shift /\ Other(rater[j].a) \in Author
      BY <1>0, <2>8, <2>9, RaterFields, OtherAuthor DEF InTransaction, RatingsTypeOK
    <3>2. rater[j].other => rating[rater[j].s][Other(rater[j].a)].there
      BY <3>1 DEF RatingsInv, OtherSeen
    <3>3. RatingOf(j)' \in crossed'
      BY <2>3, <2>9
    <3> QED
      BY <2>7, <3>1, <3>2, <3>3
  <2>12. AllSeen'
    <3> SUFFICES ASSUME NEW j \in Rater, rater'[j].at = "commit"
                 PROVE  /\ rater'[j].s \in rater'[j].saw
                        /\ \A t \in Shift : rating'[t][rater'[j].a].there =>
                              t \in rater'[j].saw \/ <<t, rater'[j].a>> \in crossed'
      BY DEF AllSeen
    <3>1. j # k /\ rater'[j] = rater[j] /\ rater[j].a \in Author
      BY <1>0, <2>8, RaterFields DEF NotRating, RatingsTypeOK
    <3>2. <<s, a>> \in crossed
      BY <2>9, <3>1 DEF InTransaction
    <3>3. /\ rater[j].s \in rater[j].saw
          /\ \A t \in Shift : rating[t][rater[j].a].there =>
                t \in rater[j].saw \/ <<t, rater[j].a>> \in crossed
      BY <3>1 DEF RatingsInv, AllSeen
    <3>4. ASSUME NEW t \in Shift, rating'[t][rater[j].a].there
          PROVE  t \in rater[j].saw \/ <<t, rater[j].a>> \in crossed
      <4>1. rating[t][rater[j].a].there \/ (t = s /\ rater[j].a = a)
        BY <2>7, <3>1, <3>4
      <4> QED
        BY <3>2, <3>3, <4>1
    <3> QED
      BY <2>3, <3>1, <3>3, <3>4
  <2>13. ShownTogether'
    <3>1. o => rating[s][Other(a)].there
      BY <2>1, <2>2, <2>8 DEF RatingsInv, OtherSeen
    <3>2. ~ o => (rating[s][Other(a)].there => <<s, a>> \in crossed)
      BY <2>1, <2>2, <2>8 DEF RatingsInv, OtherSeen
    <3>3. ASSUME NEW t \in Shift, NEW b \in Author, rating'[t][b].unblinded, NEW d \in Author
          PROVE  rating'[t][d].there
      <4>1. CASE t # s
        BY <2>7, <3>3, <4>1 DEF RatingsInv, ShownTogether
      <4>2. CASE t = s /\ o
        BY <2>7, <3>1, <4>2, TwoAuthors
      <4>3. CASE t = s /\ ~ o
        BY <2>7, <3>3, <4>3 DEF RatingsInv, ShownTogether
      <4> QED
        BY <4>1, <4>2, <4>3
    <3>4. ASSUME NEW t \in Shift,
                 \A b \in Author : rating'[t][b].there /\ <<t, b>> \notin crossed',
                 NEW d \in Author
          PROVE  rating'[t][d].unblinded
      <4>1. CASE t # s
        BY <2>3, <2>7, <3>4, <4>1 DEF RatingsInv, ShownTogether
      <4>2. CASE t = s
        <5>1. <<s, a>> \notin crossed
          BY <2>3, <3>4, <4>2
        <5>2. PICK b \in Author : b = Other(a) /\ b # a
          BY OtherAuthor
        <5>3. rating'[s][b].there
          BY <3>4, <4>2, <5>2, Zenon
        <5>4. rating[s][b].there
          BY <2>7, <5>2, <5>3, Zenon
        <5>5. o
          BY <3>2, <5>1, <5>2, <5>4
        <5>6. rating'[s][d].unblinded = IF d = a THEN o ELSE rating[s][d].unblinded \/ o
          BY <2>7, Zenon
        <5> QED
          BY <4>2, <5>5, <5>6
      <4> QED
        BY <4>1, <4>2
    <3> QED
      BY <3>3, <3>4 DEF ShownTogether
  <2>14. ShownCounted'
    <3> SUFFICES ASSUME NEW t \in Shift, NEW b \in Author, rating'[t][b].there
                 PROVE  t \in shown'[Other(b)] \/ <<t, b>> \in crossed'
      BY DEF ShownCounted
    <3>1. CASE b = a
      <4>1. shown'[Other(b)] = saw
        BY <1>0, <2>3, <3>1, OtherAuthor DEF RatingsTypeOK
      <4>2. s \in saw /\ (rating[t][a].there => t \in saw \/ <<t, a>> \in crossed)
        BY <2>1, <2>2, <2>3 DEF RatingsInv, AllSeen
      <4> QED
        BY <2>3, <2>7, <3>1, <4>1, <4>2
    <3>2. CASE b # a
      <4>1. Other(b) # Other(a)
        BY <3>2, OtherAuthor
      <4>2. shown'[Other(b)] = shown[Other(b)] /\ rating[t][b].there
        BY <1>0, <2>3, <2>7, <3>2, <4>1, OtherAuthor DEF RatingsTypeOK
      <4> QED
        BY <2>3, <4>2 DEF RatingsInv, ShownCounted
    <3> QED
      BY <3>1, <3>2
  <2> QED
    BY <2>6, <2>10, <2>11, <2>12, <2>13, <2>14 DEF RatingsInv
<1>8. CASE UNCHANGED ratingVars
  <2>1. SameRatings /\ RatingsTypeOK' /\ ShiftsKept' /\ UNCHANGED <<rater, crossed, shown>>
    BY <1>0, <1>8 DEF ratingVars, SameRatings, RatingsTypeOK, ShiftsKept
  <2> QED
    BY <2>1, RatingsStay, RatersStay DEF RatingsInv
<1> QED
  BY <1>1, <1>2, <1>3, <1>4, <1>5, <1>6, <1>7, <1>8 DEF RatingsNext

(* However rating transactions overlap: nobody reads what the other side wrote within two
   days unless both have rated; both are shown once both have, the averages miss no rating,
   and whoever may not post is shown what to rate, but for ratings whose transactions
   crossed (ratings.service.ts:122 and 479). *)
THEOREM RatingsStayBlind == RatingsSpec => []BlindUntilBoth
<1>1. RatingsInit => RatingsInv
  BY RatingsInvInit
<1>2. RatingsInv /\ [RatingsNext]_ratingVars => RatingsInv'
  BY RatingsInvStep
<1>3. RatingsInv => BlindUntilBoth
  BY RatingsInvKeeps
<1> QED
  BY <1>1, <1>2, <1>3, PTL DEF RatingsSpec

(***************************************************************************)
(* Codes: types.                                                           *)
(***************************************************************************)
LEMMA CallingFields ==
  ASSUME NEW c \in Calling
  PROVE  /\ c.at \in {"compared", "consumed"} => c.c \in Challenge
         /\ c.at \in {"asked", "issue", "setup"} => c.p \in Phone
         /\ c.at = "asked" => c.flow \in {"login", "signup"}
         /\ c.at = "rotate" => c.t \in Token
         /\ c.at = "compared" => c.right \in BOOLEAN
  BY DEF Calling, Free

LEMMA CallingMakes ==
  /\ Free \in Calling
  /\ \A p \in Phone, flow \in {"login", "signup"} :
        [at |-> "asked", p |-> p, flow |-> flow] \in Calling
  /\ \A c \in Challenge, right \in BOOLEAN :
        [at |-> "compared", c |-> c, right |-> right] \in Calling
  /\ \A c \in Challenge : [at |-> "consumed", c |-> c] \in Calling
  /\ \A p \in Phone, what \in {"issue", "setup"} : [at |-> what, p |-> p] \in Calling
  /\ \A t \in Token : [at |-> "rotate", t |-> t] \in Calling
<1>1. /\ Free \in Calling
      /\ \A p \in Phone, flow \in {"login", "signup"} :
            [at |-> "asked", p |-> p, flow |-> flow] \in Calling
  BY DEF Calling
<1>2. /\ \A c \in Challenge, right \in BOOLEAN :
            [at |-> "compared", c |-> c, right |-> right] \in Calling
      /\ \A c \in Challenge : [at |-> "consumed", c |-> c] \in Calling
  BY DEF Calling
<1>3. /\ \A p \in Phone, what \in {"issue", "setup"} : [at |-> what, p |-> p] \in Calling
      /\ \A t \in Token : [at |-> "rotate", t |-> t] \in Calling
  BY DEF Calling
<1> QED
  BY <1>1, <1>2, <1>3

LEMMA TokenRowMakes ==
  ASSUME NEW row \in TokenRow
  PROVE  /\ [row EXCEPT !.st = "used"] \in TokenRow
         /\ [row EXCEPT !.st = "deleted"] \in TokenRow
         /\ [row EXCEPT !.expired = TRUE] \in TokenRow
  BY DEF TokenRow

(* What each step makes of a code: the row, by its fields, and the rest.              *)
LEMMA ChallengeRowMakes ==
  ASSUME NEW row \in ChallengeRow
  PROVE  /\ [row EXCEPT !.tries = row.tries + 1] \in ChallengeRow
         /\ [row EXCEPT !.consumed = TRUE] \in ChallengeRow
         /\ \A age \in {"expired", "past"} : [row EXCEPT !.age = age] \in ChallengeRow
<1>1. row.tries \in Nat /\ row.tries + 1 \in Nat
  BY DEF ChallengeRow
<1>2. [row EXCEPT !.tries = row.tries + 1] \in ChallengeRow
  BY <1>1 DEF ChallengeRow
<1>3. [row EXCEPT !.consumed = TRUE] \in ChallengeRow
  BY DEF ChallengeRow
<1>4. \A age \in {"expired", "past"} : [row EXCEPT !.age = age] \in ChallengeRow
  BY DEF ChallengeRow
<1> QED
  BY <1>2, <1>3, <1>4

LEMMA AuthTypeInit == AuthInit => AuthTypeOK
<1> SUFFICES ASSUME AuthInit PROVE AuthTypeOK
  OBVIOUS
<1>1. (CHOOSE p \in Phone : TRUE) \in Phone
  BY AuthAssumption
<1> QED
  BY <1>1, CallingMakes DEF AuthInit, AuthTypeOK, ChallengeRow, TokenRow

(***************************************************************************)
(* Codes: how often one is tried and lets in.                              *)
(*                                                                         *)
(* The calls that have read a code and not answered are what may still     *)
(* count an attempt or enter: together with those counted and let in they  *)
(* never exceed the limits.  A sign-up that was let in has its account,    *)
(* which no other one may make.                                            *)
(***************************************************************************)
With(c) == {k \in Call : call[k].at \in {"compared", "consumed"} /\ call[k].c = c}

CodeKept(c) ==
    /\ chal[c].tries + Cardinality(With(c)) < MaxTries + Cardinality(Call)
    /\ entered[c] + Cardinality(With(c)) <= Cardinality(Call)
    /\ ~ chal[c].consumed => entered[c] = 0 /\ Consumed(c) = {}
    /\ chal[c].age = "none" => ~ chal[c].consumed /\ With(c) = {}
    /\ chal[c].flow = "signup" =>
          entered[c] <= 1 /\ (entered[c] # 0 => worker[chal[c].of] # "none")

AuthInv == AuthTypeOK /\ \A c \in Challenge : CodeKept(c)

LEMMA CallCounted == Cardinality(Call) \in Nat \ {0}
  BY AuthAssumption, FS_CardinalityType, FS_EmptySet

LEMMA WithCounted ==
  \A c : /\ IsFiniteSet(With(c)) /\ Cardinality(With(c)) \in Nat
         /\ Cardinality(With(c)) <= Cardinality(Call)
  BY AuthAssumption, FS_Subset, FS_CardinalityType DEF With

LEMMA AuthInvKeeps == AuthInv => CodeLimits
<1> SUFFICES ASSUME AuthInv, NEW c \in Challenge
             PROVE  /\ chal[c].tries < MaxTries + Cardinality(Call)
                    /\ entered[c] <= Cardinality(Call)
                    /\ chal[c].flow = "signup" => entered[c] <= 1
  BY DEF CodeLimits
<1>1. chal[c].tries \in Nat /\ entered[c] \in Nat /\ MaxTries \in Nat
  BY AuthAssumption DEF AuthInv, AuthTypeOK, ChallengeRow
<1> QED
  BY <1>1, WithCounted, CallCounted DEF AuthInv, CodeKept

LEMMA AuthInvInit == AuthInit => AuthInv
<1> SUFFICES ASSUME AuthInit, NEW c \in Challenge PROVE CodeKept(c)
  BY AuthTypeInit DEF AuthInv
<1>1. With(c) = {} /\ Consumed(c) = {}
  BY DEF AuthInit, With, Consumed, Free
<1>2. Cardinality(With(c)) = 0
  BY <1>1, FS_EmptySet
<1>3. chal[c].tries = 0 /\ ~ chal[c].consumed /\ chal[c].flow = "login" /\ entered[c] = 0
  BY DEF AuthInit
<1> QED
  BY <1>1, <1>2, <1>3, CallCounted, AuthAssumption DEF CodeKept

\* A call about something else begins, goes on or ends.
LEMMA CallsAside ==
  ASSUME AuthTypeOK, NEW k \in Call, NEW x, x.at \notin {"compared", "consumed"},
         call[k].at \notin {"compared", "consumed"}, call' = [call EXCEPT ![k] = x]
  PROVE  \A c : With(c)' = With(c) /\ Consumed(c)' = Consumed(c)
<1>1. \A j \in Call : call'[j] = IF j = k THEN x ELSE call[j]
  BY DEF AuthTypeOK
<1> QED
  BY <1>1 DEF With, Consumed

\* A call that has read the code c answers.
LEMMA OneFewer ==
  ASSUME AuthTypeOK, NEW k \in Call, NEW x, x.at \notin {"compared", "consumed"},
         NEW c \in Challenge, k \in With(c), call' = [call EXCEPT ![k] = x]
  PROVE  /\ With(c)' = With(c) \ {k} /\ Cardinality(With(c)') = Cardinality(With(c)) - 1
         /\ \A d : d # c => With(d)' = With(d)
         /\ \A d : Consumed(d)' \subseteq Consumed(d)
<1>1. \A j \in Call : call'[j] = IF j = k THEN x ELSE call[j]
  BY DEF AuthTypeOK
<1>2. With(c)' = With(c) \ {k} /\ \A d : d # c => With(d)' = With(d)
  BY <1>1 DEF With
<1>3. Cardinality(With(c) \ {k}) = Cardinality(With(c)) - 1
  BY WithCounted, FS_RemoveElement
<1>4. \A d : Consumed(d)' \subseteq Consumed(d)
  BY <1>1 DEF Consumed
<1> QED
  BY <1>2, <1>3, <1>4

\* What stays of a code that a step does not touch.
SameCode(c) ==
    /\ chal'[c].tries = chal[c].tries /\ chal'[c].consumed = chal[c].consumed
    /\ chal'[c].flow = chal[c].flow /\ chal'[c].of = chal[c].of
    /\ chal'[c].age = "none" => chal[c].age = "none"
    /\ entered'[c] = entered[c]
    /\ With(c)' = With(c) /\ Consumed(c)' \subseteq Consumed(c)
Enrolled == \A p \in Phone : worker'[p] = "none" => worker[p] = "none"

LEMMA CodeStays ==
  ASSUME AuthInv, NEW c \in Challenge, SameCode(c), Enrolled
  PROVE  CodeKept(c)'
<1>1. chal[c].of \in Phone
  BY DEF AuthInv, AuthTypeOK, ChallengeRow
<1> QED
  BY <1>1 DEF AuthInv, CodeKept, SameCode, Enrolled

\* A step that touches no code, and whose call has read none.
LEMMA CodesStay ==
  ASSUME AuthInv, AuthTypeOK', NEW k \in Call, NEW x, x.at \notin {"compared", "consumed"},
         call[k].at \notin {"compared", "consumed"}, call' = [call EXCEPT ![k] = x],
         UNCHANGED <<chal, entered>>, Enrolled
  PROVE  AuthInv'
<1>1. \A c \in Challenge : SameCode(c)
  BY CallsAside DEF SameCode, AuthInv
<1> QED
  BY <1>1, CodeStays DEF AuthInv

LEMMA AuthInvStep ==
  ASSUME AuthInv, [AuthNext]_authVars
  PROVE  AuthInv'
<1>0. AuthTypeOK
  BY DEF AuthInv
<1>1. ASSUME NEW k \in Call, NEW p \in Phone, NEW flow \in {"login", "signup"},
             AskCode(k, p, flow)
      PROVE  AuthInv'
  <2>1. AuthTypeOK' /\ Enrolled
    BY <1>0, <1>1, CallingMakes DEF AskCode, BeginCall, AuthTypeOK, Enrolled
  <2> QED
    BY <1>1, <2>1, CodesStay DEF AskCode, BeginCall
<1>2. ASSUME NEW k \in Call, NEW c \in Challenge, WriteChallenge(k, c) PROVE AuthInv'
  <2>1. /\ call' = [call EXCEPT ![k] = Free] /\ call[k].at = "asked"
        /\ Free.at \notin {"compared", "consumed"} /\ UNCHANGED <<worker, entered, token>>
    BY <1>2 DEF WriteChallenge, Answer, Free
  <2>2. CASE UNCHANGED chal
    <3>1. AuthTypeOK' /\ Enrolled
      BY <1>0, <2>1, <2>2, CallingMakes DEF AuthTypeOK, Enrolled
    <3> QED
      BY <2>1, <2>2, <3>1, CodesStay
  <2>3. CASE /\ chal[c].age = "none"
             /\ chal' = [chal EXCEPT ![c] = [of |-> call[k].p, flow |-> call[k].flow,
                                             tries |-> 0, consumed |-> FALSE,
                                             age |-> "valid"]]
    <3> DEFINE row == [of |-> call[k].p, flow |-> call[k].flow, tries |-> 0,
                       consumed |-> FALSE, age |-> "valid"]
    <3>1. call[k].p \in Phone /\ call[k].flow \in {"login", "signup"}
      BY <1>0, <2>1, CallingFields DEF AuthTypeOK
    <3>2. row \in ChallengeRow /\ row.tries = 0 /\ ~ row.consumed /\ row.age = "valid"
      BY <3>1 DEF ChallengeRow
    <3>3. chal' = [chal EXCEPT ![c] = row]
      BY <2>3
    <3> HIDE DEF row
    <3>4. AuthTypeOK' /\ Enrolled
      BY <1>0, <2>1, <3>2, <3>3, CallingMakes DEF AuthTypeOK, Enrolled
    <3>5. \A d : With(d)' = With(d) /\ Consumed(d)' = Consumed(d)
      BY <1>0, <2>1, CallsAside
    <3>6. ASSUME NEW d \in Challenge PROVE CodeKept(d)'
      <4>1. CASE d = c
        <5>1. /\ ~ chal[c].consumed /\ With(c) = {} /\ entered[c] = 0 /\ Consumed(c) = {}
          BY <2>3 DEF AuthInv, CodeKept
        <5>2. Cardinality(With(c)') = 0
          BY <3>5, <5>1, FS_EmptySet
        <5>3. chal'[c] = row
          BY <1>0, <3>3 DEF AuthTypeOK
        <5> QED
          BY <2>1, <3>2, <3>5, <4>1, <5>1, <5>2, <5>3, CallCounted, AuthAssumption DEF CodeKept
      <4>2. CASE d # c
        <5>1. SameCode(d)
          BY <1>0, <2>1, <3>3, <3>5, <4>2 DEF SameCode, AuthTypeOK
        <5> QED
          BY <3>4, <5>1, CodeStays
      <4> QED
        BY <4>1, <4>2
    <3> QED
      BY <3>4, <3>6 DEF AuthInv
  <2> QED
    BY <1>2, <2>2, <2>3 DEF WriteChallenge
<1>3. ASSUME NEW k \in Call, NEW c \in Challenge, NEW right \in BOOLEAN, Compare(k, c, right)
      PROVE  AuthInv'
  <2>1. /\ call' = [call EXCEPT ![k] = [at |-> "compared", c |-> c, right |-> right]]
        /\ call[k].at = "idle" /\ UNCHANGED <<worker, chal, entered, token>>
        /\ ~ chal[c].consumed /\ chal[c].age = "valid" /\ chal[c].tries < MaxTries
    BY <1>3 DEF Compare, BeginCall
  <2>2. AuthTypeOK' /\ Enrolled
    BY <1>0, <2>1, CallingMakes DEF AuthTypeOK, Enrolled
  <2>3. \A j \in Call : call'[j] = IF j = k THEN [at |-> "compared", c |-> c, right |-> right]
                                   ELSE call[j]
    BY <1>0, <2>1 DEF AuthTypeOK
  <2>4. \A d : Consumed(d)' = Consumed(d)
    BY <2>1, <2>3 DEF Consumed
  <2>5. \A d : d # c => With(d)' = With(d)
    BY <2>1, <2>3 DEF With
  <2>6. CodeKept(c)'
    <3>1. IsFiniteSet(With(c)') /\ Cardinality(With(c)') <= Cardinality(Call)
      <4>1. With(c)' \subseteq Call
        BY DEF With
      <4> QED
        BY <4>1, AuthAssumption, FS_Subset
    <3>2. Cardinality(With(c)') \in Nat /\ chal[c].tries \in Nat /\ entered[c] \in Nat
      BY <1>0, <3>1, FS_CardinalityType DEF AuthTypeOK, ChallengeRow
    <3>3. entered[c] = 0 /\ Consumed(c) = {}
      BY <2>1 DEF AuthInv, CodeKept
    <3>4. chal[c].flow = "signup" =>
             entered[c] <= 1 /\ (entered[c] # 0 => worker[chal[c].of] # "none")
      BY DEF AuthInv, CodeKept
    <3> QED
      BY <2>1, <2>4, <3>1, <3>2, <3>3, <3>4, CallCounted, AuthAssumption DEF CodeKept
  <2>7. ASSUME NEW d \in Challenge, d # c PROVE CodeKept(d)'
    <3>1. SameCode(d)
      BY <2>1, <2>4, <2>5, <2>7 DEF SameCode
    <3> QED
      BY <2>2, <3>1, CodeStays
  <2> QED
    BY <2>2, <2>6, <2>7 DEF AuthInv
<1>4. ASSUME NEW k \in Call, WrongCode(k) PROVE AuthInv'
  <2>1. PICK c \in Challenge : c = call[k].c
    BY <1>0, <1>4, CallingFields DEF WrongCode, AuthTypeOK
  <2> DEFINE row == [chal[c] EXCEPT !.tries = chal[c].tries + 1]
  <2>2. /\ call' = [call EXCEPT ![k] = Free] /\ chal' = [chal EXCEPT ![c] = row]
        /\ k \in With(c) /\ Free.at \notin {"compared", "consumed"}
        /\ UNCHANGED <<worker, entered, token>>
    BY <1>0, <1>4, <2>1 DEF WrongCode, Answer, With, Free, AuthTypeOK
  <2>3. /\ row \in ChallengeRow /\ row.tries = chal[c].tries + 1
        /\ row.consumed = chal[c].consumed /\ row.age = chal[c].age
        /\ row.flow = chal[c].flow /\ row.of = chal[c].of
    <3>1. chal[c] \in ChallengeRow
      BY <1>0 DEF AuthTypeOK
    <3>2. row \in ChallengeRow
      BY <3>1, ChallengeRowMakes
    <3> QED
      BY <3>1, <3>2 DEF ChallengeRow
  <2> HIDE DEF row
  <2>4. AuthTypeOK' /\ Enrolled
    BY <1>0, <2>2, <2>3, CallingMakes DEF AuthTypeOK, Enrolled
  <2>5. /\ With(c)' = With(c) \ {k} /\ Cardinality(With(c)') = Cardinality(With(c)) - 1
        /\ \A d : d # c => With(d)' = With(d)
        /\ \A d : Consumed(d)' \subseteq Consumed(d)
    BY <1>0, <2>2, OneFewer
  <2>6. CodeKept(c)'
    <3>1. chal'[c] = row
      BY <1>0, <2>2 DEF AuthTypeOK
    <3>2. Cardinality(With(c)) \in Nat /\ chal[c].tries \in Nat /\ entered[c] \in Nat
      BY <1>0, WithCounted DEF AuthTypeOK, ChallengeRow
    <3>3. CodeKept(c)
      BY DEF AuthInv
    <3> QED
      BY <2>2, <2>3, <2>5, <3>1, <3>2, <3>3, CallCounted, AuthAssumption DEF CodeKept
  <2>7. ASSUME NEW d \in Challenge, d # c PROVE CodeKept(d)'
    <3>1. SameCode(d)
      BY <1>0, <2>2, <2>5, <2>7 DEF SameCode, AuthTypeOK
    <3> QED
      BY <2>4, <3>1, CodeStays
  <2> QED
    BY <2>4, <2>6, <2>7 DEF AuthInv
<1>5. ASSUME NEW k \in Call, RightCode(k) PROVE AuthInv'
  <2>1. PICK c \in Challenge : c = call[k].c
    BY <1>0, <1>5, CallingFields DEF RightCode, AuthTypeOK
  <2> DEFINE row == [chal[c] EXCEPT !.consumed = TRUE]
             x == [at |-> "consumed", c |-> c]
  <2>2. /\ call' = [call EXCEPT ![k] = x] /\ chal' = [chal EXCEPT ![c] = row]
        /\ k \in With(c) /\ UNCHANGED <<worker, entered, token>>
    BY <1>0, <1>5, <2>1 DEF RightCode, Next, With, AuthTypeOK
  <2>3. /\ row \in ChallengeRow /\ row.tries = chal[c].tries /\ row.consumed = TRUE
        /\ row.age = chal[c].age /\ row.flow = chal[c].flow /\ row.of = chal[c].of
    <3>1. chal[c] \in ChallengeRow
      BY <1>0 DEF AuthTypeOK
    <3>2. row \in ChallengeRow
      BY <3>1, ChallengeRowMakes
    <3> QED
      BY <3>1, <3>2 DEF ChallengeRow
  <2>4. x \in Calling /\ x.at = "consumed" /\ x.c = c
    BY CallingMakes
  <2> HIDE DEF row, x
  <2>5. AuthTypeOK' /\ Enrolled
    BY <1>0, <2>2, <2>3, <2>4 DEF AuthTypeOK, Enrolled
  <2>6. \A j \in Call : call'[j] = IF j = k THEN x ELSE call[j]
    BY <1>0, <2>2 DEF AuthTypeOK
  <2>7. \A d : With(d)' = With(d)
    BY <2>2, <2>4, <2>6 DEF With
  <2>8. \A d : d # c => Consumed(d)' = Consumed(d)
    BY <2>1, <2>4, <2>6, <1>5 DEF Consumed, RightCode
  <2>9. CodeKept(c)'
    <3>1. chal'[c] = row
      BY <1>0, <2>2 DEF AuthTypeOK
    <3>2. CodeKept(c) /\ With(c) # {}
      BY <2>2 DEF AuthInv
    <3> QED
      BY <2>2, <2>3, <2>7, <3>1, <3>2 DEF CodeKept
  <2>10. ASSUME NEW d \in Challenge, d # c PROVE CodeKept(d)'
    <3>1. SameCode(d)
      BY <1>0, <2>2, <2>7, <2>8, <2>10 DEF SameCode, AuthTypeOK
    <3> QED
      BY <2>5, <3>1, CodeStays
  <2> QED
    BY <2>5, <2>9, <2>10 DEF AuthInv
<1>6. ASSUME NEW k \in Call, Enter(k) PROVE AuthInv'
  <2>1. PICK c \in Challenge : c = call[k].c
    BY <1>0, <1>6, CallingFields DEF Enter, AuthTypeOK
  <2>2. PICK p \in Phone : p = chal[c].of
    BY <1>0 DEF AuthTypeOK, ChallengeRow
  <2>3. k \in With(c) /\ k \in Consumed(c) /\ UNCHANGED <<chal, token>>
    BY <1>6, <2>1 DEF Enter, With, Consumed
  <2>4. PICK x \in Calling : /\ x.at \notin {"compared", "consumed"}
                             /\ call' = [call EXCEPT ![k] = x]
    <3>1. [at |-> "issue", p |-> p] \in Calling /\ Free \in Calling
      BY CallingMakes
    <3>2. \/ call' = [call EXCEPT ![k] = [at |-> "issue", p |-> p]]
          \/ call' = [call EXCEPT ![k] = Free]
      BY <1>6, <2>1, <2>2 DEF Enter, Next, Answer
    <3> QED
      BY <3>1, <3>2 DEF Free
  <2>5. /\ With(c)' = With(c) \ {k} /\ Cardinality(With(c)') = Cardinality(With(c)) - 1
        /\ \A d : d # c => With(d)' = With(d)
        /\ \A d : Consumed(d)' \subseteq Consumed(d)
    BY <1>0, <2>3, <2>4, OneFewer
  <2>6. \/ UNCHANGED <<worker, entered>>
        \/ /\ (chal[c].flow = "signup") = (worker[p] = "none")
           /\ worker' = [worker EXCEPT ![p] = IF worker[p] = "none" THEN "shell" ELSE worker[p]]
           /\ entered' = [entered EXCEPT ![c] = entered[c] + 1]
    BY <1>6, <2>1, <2>2 DEF Enter
  <2>7. AuthTypeOK' /\ Enrolled
    BY <1>0, <2>3, <2>4, <2>6 DEF AuthTypeOK, Enrolled
  <2>8. /\ chal[c].consumed /\ chal[c].age # "none" /\ CodeKept(c)
        /\ Cardinality(With(c)) \in Nat /\ chal[c].tries \in Nat /\ entered[c] \in Nat
    BY <1>0, <2>3, WithCounted DEF AuthInv, AuthTypeOK, CodeKept, ChallengeRow
  <2>9. CodeKept(c)'
    <3>1. CASE UNCHANGED <<worker, entered>>
      BY <2>3, <2>5, <2>8, <3>1, CallCounted, AuthAssumption DEF CodeKept
    <3>2. CASE /\ (chal[c].flow = "signup") = (worker[p] = "none")
               /\ worker' = [worker EXCEPT ![p] =
                               IF worker[p] = "none" THEN "shell" ELSE worker[p]]
               /\ entered' = [entered EXCEPT ![c] = entered[c] + 1]
      <4>1. entered'[c] = entered[c] + 1 /\ worker'[p] # "none"
        BY <1>0, <3>2 DEF AuthTypeOK
      <4>2. chal[c].flow = "signup" => entered[c] = 0
        BY <2>2, <2>8, <3>2 DEF CodeKept
      <4>3. /\ chal[c].tries + Cardinality(With(c)') < MaxTries + Cardinality(Call)
            /\ entered'[c] + Cardinality(With(c)') <= Cardinality(Call)
        BY <2>5, <2>8, <4>1, CallCounted, AuthAssumption DEF CodeKept
      <4> QED
        BY <2>2, <2>3, <2>8, <4>1, <4>2, <4>3 DEF CodeKept
    <3> QED
      BY <2>6, <3>1, <3>2
  <2>10. ASSUME NEW d \in Challenge, d # c PROVE CodeKept(d)'
    <3>1. SameCode(d)
      BY <1>0, <2>3, <2>5, <2>6, <2>10 DEF SameCode, AuthTypeOK
    <3> QED
      BY <2>7, <3>1, CodeStays
  <2> QED
    BY <2>7, <2>9, <2>10 DEF AuthInv
<1>7. ASSUME NEW k \in Call, NEW p \in Phone, OpenProfile(k, p) PROVE AuthInv'
  <2>1. AuthTypeOK' /\ Enrolled
    BY <1>0, <1>7, CallingMakes DEF OpenProfile, BeginCall, AuthTypeOK, Enrolled
  <2> QED
    BY <1>7, <2>1, CodesStay DEF OpenProfile, BeginCall
<1>8. ASSUME NEW k \in Call, SetUp(k) PROVE AuthInv'
  <2>1. call[k].p \in Phone
    BY <1>0, <1>8, CallingFields DEF SetUp, AuthTypeOK
  <2>2. AuthTypeOK' /\ Enrolled
    BY <1>0, <1>8, <2>1, CallingMakes DEF SetUp, Answer, AuthTypeOK, Enrolled
  <2> QED
    BY <1>8, <2>2, CodesStay DEF SetUp, Answer, Free
<1>9. ASSUME NEW k \in Call, NEW t \in Token, Issue(k, t) PROVE AuthInv'
  <2>1. [of |-> call[k].p, st |-> "live", expired |-> FALSE] \in TokenRow
    BY <1>0, <1>9, CallingFields DEF Issue, AuthTypeOK, TokenRow
  <2>2. AuthTypeOK' /\ Enrolled
    BY <1>0, <1>9, <2>1, CallingMakes DEF Issue, Answer, AuthTypeOK, Enrolled
  <2> QED
    BY <1>9, <2>2, CodesStay DEF Issue, Answer, Free
<1>10. ASSUME NEW k \in Call, Rotate(k) PROVE AuthInv'
  <2>1. PICK t \in Token : t = call[k].t
    BY <1>0, <1>10, CallingFields DEF Rotate, AuthTypeOK
  <2>2. token[t].of \in Phone /\ [token[t] EXCEPT !.st = "used"] \in TokenRow
    <3>1. token[t] \in TokenRow
      BY <1>0 DEF AuthTypeOK
    <3> QED
      BY <3>1, TokenRowMakes DEF TokenRow
  <2>3. PICK x \in Calling : /\ x.at \notin {"compared", "consumed"}
                             /\ call' = [call EXCEPT ![k] = x]
    <3>1. [at |-> "issue", p |-> token[t].of] \in Calling /\ Free \in Calling
      BY <2>2, CallingMakes
    <3>2. \/ call' = [call EXCEPT ![k] = [at |-> "issue", p |-> token[t].of]]
          \/ call' = [call EXCEPT ![k] = Free]
      BY <1>10, <2>1 DEF Rotate, Next, Answer
    <3> QED
      BY <3>1, <3>2 DEF Free
  <2>4. token' = token \/ token' = [token EXCEPT ![t] = [token[t] EXCEPT !.st = "used"]]
    BY <1>10, <2>1 DEF Rotate
  <2>5. UNCHANGED <<worker, chal, entered>> /\ call[k].at = "rotate"
    BY <1>10 DEF Rotate
  <2>6. AuthTypeOK' /\ Enrolled
    BY <1>0, <2>2, <2>3, <2>4, <2>5 DEF AuthTypeOK, Enrolled
  <2> QED
    BY <2>3, <2>5, <2>6, CodesStay
<1>11. ASSUME NEW k \in Call, NEW t \in Token, Refresh(k, t) PROVE AuthInv'
  <2>1. CASE /\ BeginCall(k, [at |-> "rotate", t |-> t])
             /\ UNCHANGED <<worker, chal, entered, token>>
    <3>1. AuthTypeOK' /\ Enrolled
      BY <1>0, <2>1, CallingMakes DEF BeginCall, AuthTypeOK, Enrolled
    <3> QED
      BY <2>1, <3>1, CodesStay DEF BeginCall
  <2>2. CASE /\ token' = [u \in Token |->
                   IF token[u].of = token[t].of /\ token[u].st # "none"
                   THEN [token[u] EXCEPT !.st = "deleted"] ELSE token[u]]
             /\ UNCHANGED <<worker, chal, entered, call>>
    <3>1. AuthTypeOK' /\ Enrolled
      BY <1>0, <2>2, TokenRowMakes DEF AuthTypeOK, Enrolled
    <3>2. \A c \in Challenge : SameCode(c)
      BY <2>2 DEF SameCode, With, Consumed
    <3> QED
      BY <3>1, <3>2, CodeStays DEF AuthInv
  <2> QED
    BY <1>11, <2>1, <2>2 DEF Refresh
<1>12. ASSUME NEW t \in Token, Logout(t) \/ Expire(t) PROVE AuthInv'
  <2>1. token' \in [Token -> TokenRow]
    <3>1. CASE Logout(t)
      BY <1>0, <3>1, TokenRowMakes DEF Logout, AuthTypeOK
    <3>2. CASE Expire(t)
      BY <1>0, <3>2, TokenRowMakes DEF Expire, AuthTypeOK
    <3> QED
      BY <1>12, <3>1, <3>2
  <2>2. UNCHANGED <<worker, chal, entered, call>>
    BY <1>12 DEF Logout, Expire
  <2>3. AuthTypeOK' /\ Enrolled
    BY <1>0, <2>1, <2>2 DEF AuthTypeOK, Enrolled
  <2>4. \A c \in Challenge : SameCode(c)
    BY <2>2 DEF SameCode, With, Consumed
  <2> QED
    BY <2>3, <2>4, CodeStays DEF AuthInv
<1>13. ASSUME NEW c \in Challenge, Age(c) PROVE AuthInv'
  <2> DEFINE age == IF chal[c].age = "valid" THEN "expired" ELSE "past"
             row == [chal[c] EXCEPT !.age = age]
  <2>1. /\ chal' = [chal EXCEPT ![c] = row] /\ chal[c].age # "none"
        /\ UNCHANGED <<worker, entered, token, call>>
    BY <1>13 DEF Age
  <2>2. /\ row \in ChallengeRow /\ row.tries = chal[c].tries /\ row.age # "none"
        /\ row.consumed = chal[c].consumed /\ row.flow = chal[c].flow /\ row.of = chal[c].of
    <3>1. chal[c] \in ChallengeRow
      BY <1>0 DEF AuthTypeOK
    <3>2. age \in {"expired", "past"}
      OBVIOUS
    <3> HIDE DEF age
    <3>3. row \in ChallengeRow
      BY <3>1, <3>2, ChallengeRowMakes
    <3> QED
      BY <3>1, <3>2, <3>3 DEF ChallengeRow
  <2> HIDE DEF age, row
  <2>3. AuthTypeOK' /\ Enrolled
    BY <1>0, <2>1, <2>2 DEF AuthTypeOK, Enrolled
  <2>4. \A d \in Challenge : SameCode(d)
    BY <1>0, <2>1, <2>2 DEF SameCode, With, Consumed, AuthTypeOK
  <2> QED
    BY <2>3, <2>4, CodeStays DEF AuthInv
<1>14. CASE UNCHANGED authVars
  <2>1. AuthTypeOK' /\ Enrolled
    BY <1>0, <1>14 DEF authVars, AuthTypeOK, Enrolled
  <2>2. \A c \in Challenge : SameCode(c)
    BY <1>14 DEF authVars, SameCode, With, Consumed
  <2> QED
    BY <2>1, <2>2, CodeStays DEF AuthInv
<1> QED
  BY <1>1, <1>2, <1>3, <1>4, <1>5, <1>6, <1>7, <1>8, <1>9, <1>10, <1>11, <1>12, <1>13,
     <1>14 DEF AuthNext, AuthCall

(* However calls with one code overlap: fewer attempts than the limit and the calls in
   flight are counted, no more calls get in than may be in flight, and a sign-up lets in
   one (auth.service.ts:177).  Any number of codes, tokens and calls. *)
THEOREM CodesAreLimited == AuthSpec => []CodeLimits
<1>1. AuthInit => AuthInv
  BY AuthInvInit
<1>2. AuthInv /\ [AuthNext]_authVars => AuthInv'
  BY AuthInvStep
<1>3. AuthInv => CodeLimits
  BY AuthInvKeeps
<1> QED
  BY <1>1, <1>2, <1>3, PTL DEF AuthSpec

(***************************************************************************)
(* The profile: types.                                                     *)
(***************************************************************************)
LEMMA InProfileFields ==
  ASSUME NEW c \in InProfile
  PROVE  /\ c.at \in {"asked", "photo", "show", "verify", "leave", "settle"} => c.by \in Member
         /\ c.at = "asked" => c.to \in Number
         /\ c.at = "compared" => c.c \in Change /\ c.right \in BOOLEAN
         /\ c.at = "photo" => c.f \in File
         /\ c.at = "show" => c.f \in File \cup {NoFile}
  BY DEF InProfile, NoCall

LEMMA InProfileMakes ==
  /\ NoCall \in InProfile
  /\ \A m \in Member, x \in Number : [at |-> "asked", by |-> m, to |-> x] \in InProfile
  /\ \A c \in Change, right \in BOOLEAN :
        [at |-> "compared", c |-> c, right |-> right] \in InProfile
  /\ \A m \in Member, f \in File : [at |-> "photo", by |-> m, f |-> f] \in InProfile
  /\ \A m \in Member, f \in File \cup {NoFile} :
        [at |-> "show", by |-> m, f |-> f] \in InProfile
  /\ \A m \in Member, what \in {"verify", "leave", "settle"} :
        [at |-> what, by |-> m] \in InProfile
<1>1. /\ NoCall \in InProfile
      /\ \A m \in Member, x \in Number : [at |-> "asked", by |-> m, to |-> x] \in InProfile
  BY DEF InProfile
<1>2. \A c \in Change, right \in BOOLEAN :
         [at |-> "compared", c |-> c, right |-> right] \in InProfile
  BY DEF InProfile
<1>3. /\ \A m \in Member, f \in File : [at |-> "photo", by |-> m, f |-> f] \in InProfile
      /\ \A m \in Member, f \in File \cup {NoFile} :
            [at |-> "show", by |-> m, f |-> f] \in InProfile
  BY DEF InProfile
<1>4. \A m \in Member, what \in {"verify", "leave", "settle"} :
         [at |-> what, by |-> m] \in InProfile
  BY DEF InProfile
<1> QED
  BY <1>1, <1>2, <1>3, <1>4

LEMMA UploadRowMakes ==
  ASSUME NEW row \in UploadRow
  PROVE  /\ [row EXCEPT !.st = "expired"] \in UploadRow
         /\ [row EXCEPT !.promoted = TRUE] \in UploadRow
  BY DEF UploadRow

LEMMA ChangeRowMakes ==
  ASSUME NEW row \in ChangeRow
  PROVE  /\ [row EXCEPT !.st = "expired"] \in ChangeRow
         /\ [row EXCEPT !.consumed = TRUE] \in ChangeRow
         /\ [row EXCEPT !.tries = row.tries + 1] \in ChangeRow
<1>1. row.tries + 1 \in Nat
  BY DEF ChangeRow
<1>2. [row EXCEPT !.tries = row.tries + 1] \in ChangeRow
  BY <1>1 DEF ChangeRow
<1> QED
  BY <1>2 DEF ChangeRow

(***************************************************************************)
(* The profile: its number and its photo.                                  *)
(*                                                                         *)
(* What is about to be shown is an avatar of the worker that asked; it is  *)
(* promoted when it is written, and what was read of a photo is one.       *)
(***************************************************************************)
Avatar(m, f) ==
    upload[f].st # "none" /\ upload[f].by = m /\ upload[f].purpose = "worker_avatar"
Showable(m, f) == Avatar(m, f) /\ upload[f].promoted

PhoneTypes ==
    /\ phoneOf \in [Member -> Number \cup {NoNumber}] /\ change \in [Change -> ChangeRow]
    /\ proven \subseteq Member \X Number
PhotoTypes ==
    /\ upload \in [File -> UploadRow] /\ photo \in [Member -> File \cup {NoFile}]
    /\ selfies \in [Member -> 0 .. MaxLiveness]
LeaveTypes == owes \in [Member -> OwesRow] /\ leaving \in [Member -> BOOLEAN]
CallTypes == profileCall \in [ProfileCall -> InProfile]

PhotosShowable == \A m \in Member : photo[m] # NoFile => Showable(m, photo[m])
CallOk(c) ==
    /\ c.at = "photo" => Avatar(c.by, c.f)
    /\ c.at = "show" /\ c.f # NoFile => Showable(c.by, c.f)
CallsOk == \A k \in ProfileCall : CallOk(profileCall[k])

ProfileInv ==
    /\ PhoneTypes /\ PhotoTypes /\ LeaveTypes /\ CallTypes
    /\ NumbersProven /\ PhotosShowable /\ CallsOk

LEMMA ProfileInvKeeps == ProfileInv => ProfileTypeOK /\ NumbersProven /\ PhotosKept
  BY DEF ProfileInv, ProfileTypeOK, PhoneTypes, PhotoTypes, LeaveTypes, CallTypes,
         PhotosShowable, Showable, Avatar, PhotosKept

LEMMA ProfileInvInit == ProfileInit => ProfileInv
<1> SUFFICES ASSUME ProfileInit PROVE ProfileInv
  OBVIOUS
<1>1. (CHOOSE m \in Member : TRUE) \in Member /\ (CHOOSE x \in Number : TRUE) \in Number
  BY ProfileAssumption
<1>2. /\ phoneOf \in [Member -> Number \cup {NoNumber}]
      /\ \A m, n \in Member : phoneOf[m] = phoneOf[n] => m = n \/ phoneOf[m] = NoNumber
  BY DEF ProfileInit
<1>3. proven = {<<m, phoneOf[m]>> : m \in {n \in Member : phoneOf[n] # NoNumber}}
  BY DEF ProfileInit
<1>4. PhoneTypes
  <2>1. change \in [Change -> ChangeRow]
    BY <1>1 DEF ProfileInit, ChangeRow
  <2>2. proven \subseteq Member \X Number
    BY <1>2, <1>3
  <2> QED
    BY <1>2, <2>1, <2>2 DEF PhoneTypes
<1>5. PhotoTypes
  BY <1>1, ProfileAssumption DEF ProfileInit, PhotoTypes, UploadRow
<1>6. LeaveTypes /\ CallTypes
  BY InProfileMakes DEF ProfileInit, LeaveTypes, CallTypes, OwesRow
<1>7. NumbersProven
  BY <1>2, <1>3 DEF NumbersProven
<1>8. PhotosShowable /\ CallsOk
  BY DEF ProfileInit, PhotosShowable, CallsOk, CallOk, NoCall
<1> QED
  BY <1>4, <1>5, <1>6, <1>7, <1>8 DEF ProfileInv

\* No row of an upload that is in use is written but to expire or to be promoted.
UploadsStay ==
    \A f \in File : upload[f].st # "none" =>
        /\ upload'[f].st # "none" /\ upload'[f].by = upload[f].by
        /\ upload'[f].purpose = upload[f].purpose
        /\ upload[f].promoted => upload'[f].promoted

LEMMA AvatarsStay ==
  ASSUME UploadsStay, NEW f \in File, NEW m
  PROVE  /\ Avatar(m, f) => Avatar(m, f)'
         /\ Showable(m, f) => Showable(m, f)'
  BY DEF UploadsStay, Avatar, Showable

LEMMA CallStays ==
  ASSUME UploadsStay, NEW c \in InProfile, CallOk(c)
  PROVE  CallOk(c)'
<1>1. c.at = "photo" => c.f \in File
  BY InProfileFields
<1>2. c.at = "show" /\ c.f # NoFile => c.f \in File
  BY InProfileFields
<1> QED
  BY <1>1, <1>2, AvatarsStay DEF CallOk

LEMMA PhotosStay ==
  ASSUME PhotoTypes, PhotosShowable, UploadsStay, photo' = photo
  PROVE  PhotosShowable'
<1> SUFFICES ASSUME NEW m \in Member, photo[m] # NoFile
             PROVE  Showable(m, photo[m])'
  BY DEF PhotosShowable
<1>1. PICK f \in File : f = photo[m]
  BY DEF PhotoTypes
<1>2. Showable(m, f)'
  BY <1>1, AvatarsStay DEF PhotosShowable
<1> QED
  BY <1>1, <1>2 DEF Showable, Avatar

LEMMA CallsStay ==
  ASSUME CallTypes, CallsOk, UploadsStay, NEW k \in ProfileCall, NEW c \in InProfile,
         CallOk(c)', profileCall' = [profileCall EXCEPT ![k] = c]
  PROVE  CallTypes' /\ CallsOk'
<1>1. CallTypes' /\ \A j \in ProfileCall : profileCall'[j] = IF j = k THEN c ELSE profileCall[j]
  BY DEF CallTypes
<1> SUFFICES ASSUME NEW j \in ProfileCall PROVE CallOk(profileCall[j])'
  BY <1>1 DEF CallsOk
<1>2. PICK d \in InProfile : d = profileCall[j] /\ CallOk(d)
  BY DEF CallTypes, CallsOk
<1>3. CallOk(d)'
  BY <1>2, CallStays
<1> QED
  BY <1>1, <1>2, <1>3 DEF CallOk

LEMMA PhonesUntouched ==
  ASSUME ProfileInv, UNCHANGED phoneVars
  PROVE  PhoneTypes' /\ NumbersProven'
  BY DEF ProfileInv, phoneVars, PhoneTypes, NumbersProven

LEMMA LeavesUntouched ==
  ASSUME ProfileInv, UNCHANGED leaveVars
  PROVE  LeaveTypes'
  BY DEF ProfileInv, leaveVars, LeaveTypes

LEMMA PhotosUntouched ==
  ASSUME ProfileInv, UNCHANGED photoVars
  PROVE  PhotoTypes' /\ PhotosShowable' /\ UploadsStay
<1>1. UNCHANGED <<upload, photo, selfies>>
  BY DEF photoVars
<1> QED
  BY <1>1 DEF ProfileInv, PhotoTypes, PhotosShowable, Showable, Avatar, UploadsStay

\* A call that is not about a photo begins, goes on or ends.
LEMMA CallAside ==
  ASSUME ProfileInv, UNCHANGED photoVars, NEW k \in ProfileCall, NEW c \in InProfile,
         c.at \notin {"photo", "show"}, profileCall' = [profileCall EXCEPT ![k] = c]
  PROVE  PhotoTypes' /\ PhotosShowable' /\ CallTypes' /\ CallsOk'
<1>1. CallOk(c)'
  BY DEF CallOk
<1> QED
  BY <1>1, PhotosUntouched, CallsStay DEF ProfileInv

\* Nobody's call changes, and no upload in use.
LEMMA CallsUntouched ==
  ASSUME ProfileInv, UploadsStay, UNCHANGED profileCall
  PROVE  CallTypes' /\ CallsOk'
<1>1. CallTypes'
  BY DEF ProfileInv, CallTypes
<1> SUFFICES ASSUME NEW j \in ProfileCall PROVE CallOk(profileCall[j])'
  BY <1>1 DEF CallsOk
<1>2. PICK d \in InProfile : d = profileCall[j] /\ CallOk(d)
  BY DEF ProfileInv, CallTypes, CallsOk
<1>3. CallOk(d)'
  BY <1>2, CallStays
<1> QED
  BY <1>1, <1>2, <1>3 DEF CallOk

LEMMA PhoneSteps ==
  ASSUME ProfileInv
  PROVE  /\ \A k \in ProfileCall, m \in Member, x \in Number : AskChange(k, m, x) => ProfileInv'
         /\ \A k \in ProfileCall, c \in Change : WriteChange(k, c) => ProfileInv'
         /\ \A k \in ProfileCall, c \in Change, right \in BOOLEAN :
              CompareChange(k, c, right) => ProfileInv'
         /\ \A k \in ProfileCall : ConfirmChange(k) => ProfileInv'
         /\ \A c \in Change : ChangeExpires(c) => ProfileInv'
         /\ \A m \in Member, x \in Number : Occupy(m, x) => ProfileInv'
<1>0. PhoneTypes /\ CallTypes /\ NumbersProven
  BY DEF ProfileInv
<1>1. ASSUME NEW k \in ProfileCall, NEW m \in Member, NEW x \in Number, AskChange(k, m, x)
      PROVE  ProfileInv'
  <2>1. [at |-> "asked", by |-> m, to |-> x] \in InProfile
    BY InProfileMakes
  <2>2. /\ profileCall' = [profileCall EXCEPT ![k] = [at |-> "asked", by |-> m, to |-> x]]
        /\ UNCHANGED phoneVars /\ UNCHANGED photoVars /\ UNCHANGED leaveVars
    BY <1>1 DEF AskChange, Starts
  <2> QED
    BY <2>1, <2>2, CallAside, PhonesUntouched, LeavesUntouched DEF ProfileInv
<1>2. ASSUME NEW k \in ProfileCall, NEW c \in Change, WriteChange(k, c) PROVE ProfileInv'
  <2> DEFINE row == [st |-> "valid", by |-> profileCall[k].by, to |-> profileCall[k].to,
                     consumed |-> FALSE, tries |-> 0]
  <2>1. row \in ChangeRow
    BY <1>0, <1>2, InProfileFields DEF WriteChange, CallTypes, ChangeRow
  <2>2. /\ change' = [change EXCEPT ![c] = row] /\ UNCHANGED <<phoneOf, proven>>
        /\ profileCall' = [profileCall EXCEPT ![k] = NoCall]
        /\ UNCHANGED photoVars /\ UNCHANGED leaveVars
    BY <1>2 DEF WriteChange, Done, Goes
  <2> HIDE DEF row
  <2>3. PhoneTypes' /\ NumbersProven'
    BY <1>0, <2>1, <2>2 DEF PhoneTypes, NumbersProven
  <2>4. NoCall \in InProfile /\ NoCall.at \notin {"photo", "show"}
    BY InProfileMakes DEF NoCall
  <2> QED
    BY <2>2, <2>3, <2>4, CallAside, LeavesUntouched DEF ProfileInv
<1>3. ASSUME NEW k \in ProfileCall, NEW c \in Change, NEW right \in BOOLEAN,
             CompareChange(k, c, right)
      PROVE  ProfileInv'
  <2>1. [at |-> "compared", c |-> c, right |-> right] \in InProfile
    BY InProfileMakes
  <2>2. /\ profileCall' = [profileCall EXCEPT ![k] = [at |-> "compared", c |-> c,
                                                      right |-> right]]
        /\ UNCHANGED phoneVars /\ UNCHANGED photoVars /\ UNCHANGED leaveVars
    BY <1>3 DEF CompareChange, Starts
  <2> QED
    BY <2>1, <2>2, CallAside, PhonesUntouched, LeavesUntouched DEF ProfileInv
<1>4. ASSUME NEW k \in ProfileCall, ConfirmChange(k) PROVE ProfileInv'
  <2>1. PICK c \in Change : c = profileCall[k].c
    BY <1>0, <1>4, InProfileFields DEF ConfirmChange, CallTypes
  <2>2. PICK row \in ChangeRow : row = change[c]
    BY <1>0 DEF PhoneTypes
  <2>3. row.by \in Member /\ row.to \in Number
    BY DEF ChangeRow
  <2> DEFINE free == \A n \in Member \ {row.by} : phoneOf[n] # row.to
  <2>4. \/ /\ change' = [change EXCEPT ![c] = [row EXCEPT !.tries = row.tries + 1]]
           /\ UNCHANGED <<phoneOf, proven>>
        \/ /\ proven' = proven \cup {<<row.by, row.to>>}
           /\ change' = IF free THEN [change EXCEPT ![c] = [row EXCEPT !.consumed = TRUE]]
                        ELSE change
           /\ phoneOf' = IF free THEN [phoneOf EXCEPT ![row.by] = row.to] ELSE phoneOf
    BY <1>4, <2>1, <2>2 DEF ConfirmChange
  <2>5. PhoneTypes'
    <3>1. /\ [row EXCEPT !.tries = row.tries + 1] \in ChangeRow
          /\ [row EXCEPT !.consumed = TRUE] \in ChangeRow
      BY ChangeRowMakes
    <3>2. \E r \in ChangeRow : change' = change \/ change' = [change EXCEPT ![c] = r]
      BY <2>4, <3>1
    <3>3. change' \in [Change -> ChangeRow]
      BY <1>0, <3>2 DEF PhoneTypes
    <3>4. phoneOf' = phoneOf \/ phoneOf' = [phoneOf EXCEPT ![row.by] = row.to]
      BY <2>4
    <3>5. phoneOf' \in [Member -> Number \cup {NoNumber}]
      BY <1>0, <2>3, <3>4 DEF PhoneTypes
    <3>6. proven' \subseteq Member \X Number
      BY <1>0, <2>3, <2>4 DEF PhoneTypes
    <3> QED
      BY <3>3, <3>5, <3>6 DEF PhoneTypes
  <2>6. NumbersProven'
    <3>1. CASE UNCHANGED <<phoneOf, proven>>
      BY <1>0, <3>1 DEF NumbersProven
    <3>2. CASE proven' = proven \cup {<<row.by, row.to>>} /\ phoneOf' = phoneOf
      BY <1>0, <3>2 DEF NumbersProven
    <3>3. CASE /\ proven' = proven \cup {<<row.by, row.to>>} /\ free
               /\ phoneOf' = [phoneOf EXCEPT ![row.by] = row.to]
      BY <1>0, <2>3, <3>3 DEF PhoneTypes, NumbersProven
    <3> QED
      BY <2>4, <3>1, <3>2, <3>3
  <2>7. /\ profileCall' = [profileCall EXCEPT ![k] = NoCall]
        /\ UNCHANGED photoVars /\ UNCHANGED leaveVars
    BY <1>4 DEF ConfirmChange, Done, Goes
  <2>8. NoCall \in InProfile /\ NoCall.at \notin {"photo", "show"}
    BY InProfileMakes DEF NoCall
  <2> QED
    BY <2>5, <2>6, <2>7, <2>8, CallAside, LeavesUntouched DEF ProfileInv
<1>5. ASSUME NEW c \in Change, ChangeExpires(c) PROVE ProfileInv'
  <2>1. PhoneTypes' /\ NumbersProven'
    BY <1>0, <1>5, ChangeRowMakes DEF ChangeExpires, PhoneTypes, NumbersProven
  <2>2. UNCHANGED photoVars /\ UNCHANGED leaveVars /\ UNCHANGED profileCall
    BY <1>5 DEF ChangeExpires
  <2> QED
    BY <2>1, <2>2, CallsUntouched, PhotosUntouched, LeavesUntouched DEF ProfileInv
<1>6. ASSUME NEW m \in Member, NEW x \in Number, Occupy(m, x) PROVE ProfileInv'
  <2>1. /\ phoneOf' = [phoneOf EXCEPT ![m] = x] /\ proven' = proven \cup {<<m, x>>}
        /\ \A n \in Member : phoneOf[n] # x
        /\ change' = change
    BY <1>6 DEF Occupy, Held
  <2>2. PhoneTypes' /\ NumbersProven'
    BY <1>0, <2>1 DEF PhoneTypes, NumbersProven
  <2>3. UNCHANGED photoVars /\ UNCHANGED leaveVars /\ UNCHANGED profileCall
    BY <1>6 DEF Occupy
  <2> QED
    BY <2>2, <2>3, CallsUntouched, PhotosUntouched, LeavesUntouched DEF ProfileInv
<1> QED
  BY <1>1, <1>2, <1>3, <1>4, <1>5, <1>6

LEMMA LeaveSteps ==
  ASSUME ProfileInv
  PROVE  /\ \A k \in ProfileCall, m \in Member : AskLeave(k, m) => ProfileInv'
         /\ \A k \in ProfileCall : CheckPayouts(k) \/ ScheduleDeletion(k) => ProfileInv'
         /\ \A m \in Member, loan \in BOOLEAN, w \in {"none", "processing"} :
              Owe(m, [loan |-> loan, withdrawal |-> w]) => ProfileInv'
<1>0. LeaveTypes /\ CallTypes
  BY DEF ProfileInv
<1>1. ASSUME NEW k \in ProfileCall, NEW m \in Member, AskLeave(k, m) PROVE ProfileInv'
  <2>1. [at |-> "leave", by |-> m] \in InProfile
    BY InProfileMakes
  <2>2. /\ profileCall' = [profileCall EXCEPT ![k] = [at |-> "leave", by |-> m]]
        /\ UNCHANGED phoneVars /\ UNCHANGED photoVars /\ UNCHANGED leaveVars
    BY <1>1 DEF AskLeave, Starts
  <2> QED
    BY <2>1, <2>2, CallAside, PhonesUntouched, LeavesUntouched DEF ProfileInv
<1>2. ASSUME NEW k \in ProfileCall, CheckPayouts(k) \/ ScheduleDeletion(k) PROVE ProfileInv'
  <2>1. PICK m \in Member : m = profileCall[k].by
    BY <1>0, <1>2, InProfileFields DEF CheckPayouts, ScheduleDeletion, CallTypes
  <2>2. PICK c \in InProfile : /\ c.at \notin {"photo", "show"}
                               /\ profileCall' = [profileCall EXCEPT ![k] = c]
    <3>1. NoCall \in InProfile /\ [at |-> "settle", by |-> m] \in InProfile
      BY InProfileMakes
    <3>2. \/ profileCall' = [profileCall EXCEPT ![k] = NoCall]
          \/ profileCall' = [profileCall EXCEPT ![k] = [at |-> "settle", by |-> m]]
      BY <1>2, <2>1 DEF CheckPayouts, ScheduleDeletion, Done, Goes
    <3> QED
      BY <3>1, <3>2 DEF NoCall
  <2>3. LeaveTypes'
    BY <1>0, <1>2, <2>1 DEF CheckPayouts, ScheduleDeletion, leaveVars, LeaveTypes
  <2>4. UNCHANGED phoneVars /\ UNCHANGED photoVars
    BY <1>2 DEF CheckPayouts, ScheduleDeletion
  <2> QED
    BY <2>2, <2>3, <2>4, CallAside, PhonesUntouched DEF ProfileInv
<1>3. ASSUME NEW m \in Member, NEW loan \in BOOLEAN, NEW w \in {"none", "processing"},
             Owe(m, [loan |-> loan, withdrawal |-> w])
      PROVE  ProfileInv'
  <2>1. [loan |-> loan, withdrawal |-> w] \in OwesRow
    BY DEF OwesRow
  <2>2. LeaveTypes'
    BY <1>0, <1>3, <2>1 DEF Owe, LeaveTypes
  <2>3. UNCHANGED phoneVars /\ UNCHANGED photoVars /\ UNCHANGED profileCall
    BY <1>3 DEF Owe
  <2> QED
    BY <2>2, <2>3, CallsUntouched, PhotosUntouched, PhonesUntouched DEF ProfileInv
<1> QED
  BY <1>1, <1>2, <1>3

\* An upload in use is left alone, but for the one that is written.
LEMMA UploadWritten ==
  ASSUME PhotoTypes, NEW f \in File, NEW row \in UploadRow,
         upload' = [upload EXCEPT ![f] = row],
         upload[f].st # "none" =>
            /\ row.st # "none" /\ row.by = upload[f].by /\ row.purpose = upload[f].purpose
            /\ upload[f].promoted => row.promoted
  PROVE  UploadsStay /\ upload' \in [File -> UploadRow]
  BY DEF PhotoTypes, UploadsStay

\* The upload of StoreFile and Verified is new.
LEMMA StoredStays ==
  ASSUME PhotoTypes, NEW f \in File, NEW m \in Member,
         NEW purpose \in {"worker_avatar", "clock_out_proof", "liveness_selfie"},
         Stored(f, m, purpose)
  PROVE  UploadsStay /\ upload' \in [File -> UploadRow]
<1> DEFINE row == [st |-> "fresh", by |-> m, promoted |-> FALSE, purpose |-> purpose]
<1>1. row \in UploadRow
  BY DEF UploadRow
<1>2. upload' = [upload EXCEPT ![f] = row] /\ upload[f].st = "none"
  BY DEF Stored
<1> HIDE DEF row
<1> QED
  BY <1>1, <1>2, UploadWritten

LEMMA NobodyCalls == NoCall \in InProfile /\ NoCall.at \notin {"photo", "show"}
  BY InProfileMakes DEF NoCall

\* An upload is written, the photos shown and the calls about photos stay.
LEMMA UploadStep ==
  ASSUME ProfileInv, UploadsStay, upload' \in [File -> UploadRow],
         UNCHANGED <<photo, selfies>>
  PROVE  PhotoTypes' /\ PhotosShowable'
<1>1. PhotoTypes /\ PhotosShowable
  BY DEF ProfileInv
<1>2. PhotosShowable'
  BY <1>1, PhotosStay
<1> QED
  BY <1>1, <1>2 DEF PhotoTypes

LEMMA PhotoSteps ==
  ASSUME ProfileInv
  PROVE  /\ \A f \in File, m \in Member, purpose \in {"worker_avatar", "clock_out_proof"} :
              StoreFile(f, m, purpose) => ProfileInv'
         /\ \A f \in File : FileExpires(f) => ProfileInv'
         /\ \A k \in ProfileCall, m \in Member : AskLiveness(k, m) => ProfileInv'
         /\ \A k \in ProfileCall, f \in File : \A verdict :
              Verified(k, f, verdict) => ProfileInv'
         /\ WindowEnds => ProfileInv'
<1>0. PhotoTypes /\ PhotosShowable /\ CallTypes /\ CallsOk
  BY DEF ProfileInv
<1>1. ASSUME NEW f \in File, NEW m \in Member,
             NEW purpose \in {"worker_avatar", "clock_out_proof"}, StoreFile(f, m, purpose)
      PROVE  ProfileInv'
  <2>1. /\ Stored(f, m, purpose) /\ UNCHANGED <<photo, selfies>> /\ UNCHANGED phoneVars
        /\ UNCHANGED leaveVars /\ UNCHANGED profileCall
    BY <1>1 DEF StoreFile
  <2>2. UploadsStay /\ upload' \in [File -> UploadRow]
    BY <1>0, <2>1, StoredStays
  <2> QED
    BY <2>1, <2>2, UploadStep, CallsUntouched, PhonesUntouched, LeavesUntouched
       DEF ProfileInv
<1>2. ASSUME NEW f \in File, FileExpires(f) PROVE ProfileInv'
  <2>1. PICK row \in UploadRow : row = upload[f]
    BY <1>0 DEF PhotoTypes
  <2> DEFINE new == [row EXCEPT !.st = "expired"]
  <2>2. new \in UploadRow /\ new.st # "none" /\ new.by = row.by
        /\ new.purpose = row.purpose /\ new.promoted = row.promoted
    BY UploadRowMakes DEF UploadRow
  <2>3. /\ upload' = [upload EXCEPT ![f] = new] /\ UNCHANGED <<photo, selfies>>
        /\ UNCHANGED phoneVars /\ UNCHANGED leaveVars /\ UNCHANGED profileCall
    BY <1>2, <2>1 DEF FileExpires
  <2> HIDE DEF new
  <2>4. UploadsStay /\ upload' \in [File -> UploadRow]
    BY <1>0, <2>1, <2>2, <2>3, UploadWritten
  <2> QED
    BY <2>3, <2>4, UploadStep, CallsUntouched, PhonesUntouched, LeavesUntouched
       DEF ProfileInv
<1>3. ASSUME NEW k \in ProfileCall, NEW m \in Member, AskLiveness(k, m) PROVE ProfileInv'
  <2> DEFINE c == [at |-> "verify", by |-> m]
  <2>1. c \in InProfile /\ c.at \notin {"photo", "show"}
    BY InProfileMakes
  <2>2. /\ selfies' = [selfies EXCEPT ![m] = selfies[m] + 1] /\ selfies[m] < MaxLiveness
        /\ UNCHANGED <<upload, photo>> /\ UNCHANGED phoneVars /\ UNCHANGED leaveVars
        /\ profileCall' = [profileCall EXCEPT ![k] = c]
    BY <1>3 DEF AskLiveness, Starts
  <2> HIDE DEF c
  <2>3. PICK n \in 0 .. MaxLiveness : n = selfies[m]
    BY <1>0 DEF PhotoTypes
  <2>4. n + 1 \in 0 .. MaxLiveness
    BY <2>2, <2>3, ProfileAssumption
  <2>5. PhotoTypes'
    BY <1>0, <2>2, <2>3, <2>4 DEF PhotoTypes
  <2>6. UploadsStay /\ PhotosShowable'
    BY <1>0, <2>2 DEF UploadsStay, PhotosShowable, Showable, Avatar
  <2>7. CallOk(c)'
    BY <2>1 DEF CallOk
  <2> QED
    BY <1>0, <2>1, <2>2, <2>5, <2>6, <2>7, CallsStay, PhonesUntouched, LeavesUntouched
       DEF ProfileInv
<1>4. ASSUME NEW k \in ProfileCall, NEW f \in File, NEW verdict, Verified(k, f, verdict)
      PROVE  ProfileInv'
  <2>1. PICK m \in Member : m = profileCall[k].by
    BY <1>0, <1>4, InProfileFields DEF Verified, CallTypes
  <2>2. /\ Stored(f, m, "liveness_selfie") \/ upload' = upload
        /\ UNCHANGED <<photo, selfies>> /\ UNCHANGED phoneVars /\ UNCHANGED leaveVars
        /\ profileCall' = [profileCall EXCEPT ![k] = NoCall]
    BY <1>4, <2>1 DEF Verified, Done, Goes
  <2>3. UploadsStay /\ upload' \in [File -> UploadRow]
    <3>1. CASE upload' = upload
      BY <1>0, <3>1 DEF PhotoTypes, UploadsStay
    <3> QED
      BY <1>0, <2>2, <3>1, StoredStays
  <2>4. CallOk(NoCall)'
    BY DEF CallOk, NoCall
  <2> QED
    BY <1>0, <2>2, <2>3, <2>4, UploadStep, CallsStay, NobodyCalls, PhonesUntouched,
       LeavesUntouched DEF ProfileInv
<1>5. ASSUME WindowEnds PROVE ProfileInv'
  <2>1. /\ selfies' = [m \in Member |-> 0] /\ UNCHANGED <<upload, photo>>
        /\ UNCHANGED phoneVars /\ UNCHANGED leaveVars /\ UNCHANGED profileCall
    BY <1>5 DEF WindowEnds
  <2>2. PhotoTypes'
    BY <1>0, <2>1, ProfileAssumption DEF PhotoTypes
  <2>3. UploadsStay /\ PhotosShowable'
    BY <1>0, <2>1 DEF UploadsStay, PhotosShowable, Showable, Avatar
  <2> QED
    BY <2>1, <2>2, <2>3, CallsUntouched, PhonesUntouched, LeavesUntouched DEF ProfileInv
<1> QED
  BY <1>1, <1>2, <1>3, <1>4, <1>5

LEMMA ShowSteps ==
  ASSUME ProfileInv
  PROVE  /\ \A k \in ProfileCall, m \in Member, f \in File :
              OpenPhoto(k, m, f) => ProfileInv'
         /\ \A k \in ProfileCall : PromoteFile(k) \/ ShowPhoto(k) => ProfileInv'
         /\ \A k \in ProfileCall, m \in Member : OpenEdit(k, m) => ProfileInv'
         /\ \A m \in Member : DropPhoto(m) => ProfileInv'
<1>0. PhotoTypes /\ PhotosShowable /\ CallTypes /\ CallsOk
  BY DEF ProfileInv
<1>1. ASSUME NEW k \in ProfileCall, NEW m \in Member, NEW f \in File, OpenPhoto(k, m, f)
      PROVE  ProfileInv'
  <2> DEFINE c == [at |-> "photo", by |-> m, f |-> f]
  <2>1. c \in InProfile /\ c.at = "photo" /\ c.by = m /\ c.f = f
    BY InProfileMakes
  <2>2. /\ Avatar(m, f) /\ UNCHANGED phoneVars /\ UNCHANGED photoVars
        /\ UNCHANGED leaveVars /\ profileCall' = [profileCall EXCEPT ![k] = c]
    BY <1>1 DEF OpenPhoto, Starts, Avatar
  <2> HIDE DEF c
  <2>3. PhotoTypes' /\ PhotosShowable' /\ UploadsStay
    BY <2>2, PhotosUntouched
  <2>4. CallOk(c)'
    BY <2>1, <2>2, <2>3, AvatarsStay DEF CallOk
  <2> QED
    BY <1>0, <2>1, <2>2, <2>3, <2>4, CallsStay, PhonesUntouched, LeavesUntouched
       DEF ProfileInv
<1>2. ASSUME NEW k \in ProfileCall, PromoteFile(k) PROVE ProfileInv'
  <2>1. PICK m \in Member, f \in File : m = profileCall[k].by /\ f = profileCall[k].f
    BY <1>0, <1>2, InProfileFields DEF PromoteFile, CallTypes
  <2>2. Avatar(m, f)
    BY <1>0, <1>2, <2>1 DEF PromoteFile, CallsOk, CallOk
  <2>3. PICK row \in UploadRow : row = upload[f]
    BY <1>0 DEF PhotoTypes
  <2> DEFINE new == [row EXCEPT !.promoted = TRUE]
             c == [at |-> "show", by |-> m, f |-> f]
  <2>4. /\ new \in UploadRow /\ new.st = row.st /\ new.by = row.by
        /\ new.purpose = row.purpose /\ new.promoted
    BY UploadRowMakes DEF UploadRow
  <2>5. c \in InProfile /\ c.at = "show" /\ c.by = m /\ c.f = f
    BY InProfileMakes
  <2>6. /\ upload' = [upload EXCEPT ![f] = new] /\ UNCHANGED <<photo, selfies>>
        /\ UNCHANGED phoneVars /\ UNCHANGED leaveVars
        /\ profileCall' = [profileCall EXCEPT ![k] = c]
    BY <1>2, <2>1, <2>3 DEF PromoteFile, Goes
  <2> HIDE DEF new, c
  <2>7. UploadsStay /\ upload' \in [File -> UploadRow]
    BY <1>0, <2>3, <2>4, <2>6, UploadWritten
  <2>8. upload'[f] = new
    BY <1>0, <2>6 DEF PhotoTypes
  <2>9. Showable(m, f)'
    BY <2>2, <2>3, <2>4, <2>8 DEF Avatar, Showable
  <2>10. CallOk(c)'
    BY <2>5, <2>9 DEF CallOk
  <2> QED
    BY <1>0, <2>5, <2>6, <2>7, <2>10, UploadStep, CallsStay, PhonesUntouched,
       LeavesUntouched DEF ProfileInv
<1>3. ASSUME NEW k \in ProfileCall, ShowPhoto(k) PROVE ProfileInv'
  <2>1. PICK m \in Member, f \in File \cup {NoFile} :
            m = profileCall[k].by /\ f = profileCall[k].f
    BY <1>0, <1>3, InProfileFields DEF ShowPhoto, CallTypes
  <2>2. f # NoFile => Showable(m, f)
    BY <1>0, <1>3, <2>1 DEF ShowPhoto, CallsOk, CallOk
  <2>3. /\ photo' = [photo EXCEPT ![m] = f] /\ UNCHANGED <<upload, selfies>>
        /\ UNCHANGED phoneVars /\ UNCHANGED leaveVars
        /\ profileCall' = [profileCall EXCEPT ![k] = NoCall]
    BY <1>3, <2>1 DEF ShowPhoto, Done, Goes
  <2>4. PhotoTypes'
    BY <1>0, <2>1, <2>3 DEF PhotoTypes
  <2>5. PhotosShowable'
    BY <1>0, <2>2, <2>3 DEF PhotoTypes, PhotosShowable, Showable, Avatar
  <2>6. UploadsStay /\ CallOk(NoCall)'
    BY <2>3 DEF UploadsStay, CallOk, NoCall
  <2> QED
    BY <1>0, <2>3, <2>4, <2>5, <2>6, NobodyCalls, CallsStay, PhonesUntouched,
       LeavesUntouched DEF ProfileInv
<1>4. ASSUME NEW k \in ProfileCall, NEW m \in Member, OpenEdit(k, m) PROVE ProfileInv'
  <2>1. PICK f \in File \cup {NoFile} : f = photo[m] /\ (f # NoFile => Showable(m, f))
    BY <1>0 DEF PhotoTypes, PhotosShowable
  <2> DEFINE c == [at |-> "show", by |-> m, f |-> f]
  <2>2. c \in InProfile /\ c.at = "show" /\ c.by = m /\ c.f = f
    BY InProfileMakes
  <2>3. /\ UNCHANGED phoneVars /\ UNCHANGED photoVars
        /\ UNCHANGED leaveVars /\ profileCall' = [profileCall EXCEPT ![k] = c]
    BY <1>4, <2>1 DEF OpenEdit, Starts
  <2> HIDE DEF c
  <2>4. PhotoTypes' /\ PhotosShowable' /\ UploadsStay
    BY <2>3, PhotosUntouched
  <2>5. CallOk(c)'
    BY <2>1, <2>2, <2>4, AvatarsStay DEF CallOk
  <2> QED
    BY <1>0, <2>2, <2>3, <2>4, <2>5, CallsStay, PhonesUntouched, LeavesUntouched
       DEF ProfileInv
<1>5. ASSUME NEW m \in Member, DropPhoto(m) PROVE ProfileInv'
  <2>1. /\ photo' = [photo EXCEPT ![m] = NoFile] /\ UNCHANGED <<upload, selfies>>
        /\ UNCHANGED phoneVars /\ UNCHANGED leaveVars /\ UNCHANGED profileCall
    BY <1>5 DEF DropPhoto
  <2>2. PhotoTypes'
    BY <1>0, <2>1 DEF PhotoTypes
  <2>3. PhotosShowable' /\ UploadsStay
    BY <1>0, <2>1 DEF PhotoTypes, PhotosShowable, Showable, Avatar, UploadsStay
  <2> QED
    BY <2>1, <2>2, <2>3, CallsUntouched, PhonesUntouched, LeavesUntouched DEF ProfileInv
<1> QED
  BY <1>1, <1>2, <1>3, <1>4, <1>5

LEMMA ProfileInvStep == ProfileInv /\ [ProfileNext]_profileVars => ProfileInv'
<1> SUFFICES ASSUME ProfileInv, [ProfileNext]_profileVars PROVE ProfileInv'
  OBVIOUS
<1>1. CASE UNCHANGED profileVars
  <2>1. UNCHANGED phoneVars /\ UNCHANGED photoVars /\ UNCHANGED leaveVars
        /\ UNCHANGED profileCall
    BY <1>1 DEF profileVars, phoneVars, photoVars, leaveVars
  <2> QED
    BY <2>1, CallsUntouched, PhotosUntouched, PhonesUntouched, LeavesUntouched
       DEF ProfileInv
<1>2. ASSUME NEW k \in ProfileCall, ProfileStep(k) PROVE ProfileInv'
  BY <1>2, PhoneSteps, LeaveSteps, PhotoSteps, ShowSteps DEF ProfileStep
<1>3. CASE ProfileNext
  BY <1>2, <1>3, PhoneSteps, LeaveSteps, PhotoSteps, ShowSteps DEF ProfileNext
<1> QED
  BY <1>1, <1>3

(* A worker's number is one it entered the code of and no other worker has, and the
   photo shown is an avatar of its own that is promoted, for any number of workers,
   numbers, uploads and requests that cross (me.service.ts:61-282). *)
THEOREM ProfileIsProven == ProfileSpec => [](NumbersProven /\ PhotosKept)
<1>1. ProfileInv => NumbersProven /\ PhotosKept
  BY ProfileInvKeeps
<1> QED
  BY <1>1, ProfileInvInit, ProfileInvStep, PTL DEF ProfileSpec

-------------------------------------------------------------------------------
(***************************************************************************)
(* Support tickets.  Each call that has counted a worker's tickets may     *)
(* open one more; the tickets there are and those calls are within the     *)
(* limit and the calls there can be.                                       *)
(***************************************************************************)
Counting(w) == {k \in AssistCall : assistCall[k].at = "ticket" /\ assistCall[k].w = w}

TicketsBound ==
    \A w \in Asker :
        tickets[w] + Cardinality(Counting(w)) < MaxTickets + Cardinality(AssistCall)

AssistInv == AssistTypeOK /\ TicketsBound

LEMMA AssistMakes ==
  /\ NoAssist \in AssistRow /\ NoAssist.at = "idle"
  /\ \A j \in Gig, n \in 0 .. LastEdit : [at |-> "summary", j |-> j, edit |-> n] \in AssistRow
  /\ \A w \in Asker, p \in Place, s \in SUBSET Gig :
        [at |-> "rank", w |-> w, place |-> p, pool |-> s] \in AssistRow
  /\ \A w \in Asker : [at |-> "draft", w |-> w] \in AssistRow
  /\ \A w \in Asker : [at |-> "ticket", w |-> w] \in AssistRow
  BY DEF AssistRow, NoAssist

LEMMA AssistFields ==
  ASSUME NEW c \in AssistRow
  PROVE  /\ c.at = "summary" => c.j \in Gig /\ c.edit \in 0 .. LastEdit
         /\ c.at = "rank" => c.w \in Asker /\ c.place \in Place /\ c.pool \in SUBSET Gig
         /\ c.at = "ticket" => c.w \in Asker
  BY DEF AssistRow, NoAssist

LEMMA CountingFinite ==
  ASSUME NEW w
  PROVE  /\ IsFiniteSet(Counting(w)) /\ Cardinality(Counting(w)) \in Nat
         /\ Cardinality(AssistCall) \in Nat
         /\ Cardinality(Counting(w)) <= Cardinality(AssistCall)
<1>1. Counting(w) \subseteq AssistCall BY DEF Counting
<1>2. QED BY <1>1, AssistAssumption, FS_Subset, FS_CardinalityType

\* Fewer calls that count and no more tickets.
LEMMA FewerCount ==
  ASSUME AssistInv, \A w \in Asker : Counting(w)' \subseteq Counting(w),
         \A w \in Asker : tickets'[w] \in Nat /\ tickets'[w] <= tickets[w]
  PROVE  TicketsBound'
<1>1. ASSUME NEW w \in Asker
      PROVE  tickets'[w] + Cardinality(Counting(w))' < MaxTickets + Cardinality(AssistCall)
  <2>1. /\ IsFiniteSet(Counting(w)) /\ Cardinality(Counting(w)) \in Nat
        /\ Cardinality(AssistCall) \in Nat
    BY CountingFinite
  <2>2. Cardinality(Counting(w)') \in Nat
        /\ Cardinality(Counting(w)') <= Cardinality(Counting(w))
    BY <2>1, FS_Subset, FS_CardinalityType
  <2>3. tickets[w] + Cardinality(Counting(w)) < MaxTickets + Cardinality(AssistCall)
        /\ tickets[w] \in Nat
    BY DEF AssistInv, TicketsBound, AssistTypeOK
  <2>4. QED BY <2>1, <2>2, <2>3, AssistAssumption
<1>2. QED BY <1>1 DEF TicketsBound

\* A call that begins without counting, or that ends.
LEMMA CallSet ==
  ASSUME AssistInv, NEW k \in AssistCall, NEW c \in AssistRow, c.at # "ticket",
         assistCall' = [assistCall EXCEPT ![k] = c], UNCHANGED tickets
  PROVE  assistCall' \in [AssistCall -> AssistRow] /\ TicketsBound'
<1>1. assistCall \in [AssistCall -> AssistRow] /\ tickets \in [Asker -> Nat]
  BY DEF AssistInv, AssistTypeOK
<1>2. /\ assistCall' \in [AssistCall -> AssistRow] /\ assistCall'[k].at # "ticket"
      /\ \A b \in AssistCall \ {k} : assistCall'[b] = assistCall[b]
  BY <1>1
<1>3. \A w \in Asker : Counting(w)' \subseteq Counting(w) BY <1>2 DEF Counting
<1>4. TicketsBound' BY <1>1, <1>3, FewerCount
<1>5. QED BY <1>2, <1>4

LEMMA AskersStay ==
  ASSUME AssistInv, UNCHANGED <<assistCall, tickets>> PROVE TicketsBound'
<1>1. \A w \in Asker : Counting(w)' \subseteq Counting(w) BY DEF Counting
<1>2. tickets \in [Asker -> Nat] BY DEF AssistInv, AssistTypeOK
<1>3. QED BY <1>1, <1>2, FewerCount

LEMMA AssistInvInit == AssistInit => AssistInv
<1> SUFFICES ASSUME AssistInit PROVE AssistInv
  OBVIOUS
<1>1. AssistTypeOK
  <2>1. gig \in [Gig -> [edit : 0 .. LastEdit, offered : BOOLEAN]]
    BY AssistAssumption DEF AssistInit
  <2>2. summary \in [Gig -> [kept : {"no", "fresh", "expired"}, edit : 0 .. LastEdit]]
    BY AssistAssumption DEF AssistInit, NoSummary
  <2>3. carousel \in [Asker -> CarouselRow] BY DEF AssistInit, CarouselRow
  <2>4. assistCall \in [AssistCall -> AssistRow] BY AssistMakes DEF AssistInit
  <2>5. extracts \in [Asker -> 0 .. MaxExtracts] /\ tickets \in [Asker -> Nat]
    BY AssistAssumption DEF AssistInit
  <2>6. QED BY <2>1, <2>2, <2>3, <2>4, <2>5 DEF AssistTypeOK
<1>2. \A w \in Asker : Counting(w) = {} BY DEF AssistInit, NoAssist, Counting
<1>3. \A w \in Asker : Cardinality(Counting(w)) = 0 BY <1>2, FS_EmptySet
<1>4. Cardinality(AssistCall) \in Nat BY AssistAssumption, FS_CardinalityType
<1>5. TicketsBound BY <1>3, <1>4, AssistAssumption DEF AssistInit, TicketsBound
<1>6. QED BY <1>1, <1>5 DEF AssistInv

\* Counting comes before opening.
LEMMA TicketCounted ==
  ASSUME AssistInv, NEW k \in AssistCall, NEW w \in Asker, AskTicket(k, w)
  PROVE  AssistInv'
<1>1. AssistTypeOK BY DEF AssistInv
<1>2. /\ tickets[w] < MaxTickets /\ assistCall[k] = NoAssist
      /\ assistCall' = [assistCall EXCEPT ![k] = [at |-> "ticket", w |-> w]]
      /\ UNCHANGED <<gig, summary, carousel, extracts, tickets>>
  BY DEF AskTicket, Asks
<1>3. /\ assistCall' \in [AssistCall -> AssistRow]
      /\ assistCall'[k].at = "ticket" /\ assistCall'[k].w = w
      /\ \A b \in AssistCall \ {k} : assistCall'[b] = assistCall[b]
  BY <1>1, <1>2, AssistMakes DEF AssistTypeOK
<1>4. ASSUME NEW v \in Asker
      PROVE  tickets[v] + Cardinality(Counting(v))' < MaxTickets + Cardinality(AssistCall)
  <2>1. tickets[v] \in Nat /\ tickets[w] \in Nat /\ Cardinality(Counting(v)) \in Nat
        /\ IsFiniteSet(Counting(v)) /\ Cardinality(AssistCall) \in Nat
    BY <1>1, CountingFinite DEF AssistTypeOK
  <2>2. CASE v = w
    <3>1. Counting(w)' \subseteq AssistCall BY DEF Counting
    <3>2. Cardinality(Counting(w)') <= Cardinality(AssistCall)
          /\ Cardinality(Counting(w)') \in Nat
      BY <3>1, AssistAssumption, FS_Subset, FS_CardinalityType
    <3>3. QED BY <1>2, <2>1, <2>2, <3>2, AssistAssumption
  <2>3. CASE v # w
    <3>1. Counting(v)' = Counting(v)
      BY <1>2, <1>3, <2>3 DEF Counting, NoAssist
    <3>2. Cardinality(Counting(v))' = Cardinality(Counting(v)) BY <3>1
    <3>3. QED BY <3>2 DEF AssistInv, TicketsBound
  <2>4. QED BY <2>2, <2>3
<1>5. TicketsBound' BY <1>2, <1>4 DEF TicketsBound
<1>6. QED BY <1>1, <1>2, <1>3, <1>5 DEF AssistInv, AssistTypeOK

LEMMA TicketOpened ==
  ASSUME AssistInv, NEW k \in AssistCall, OpenTicket(k) PROVE AssistInv'
<1>1. AssistTypeOK BY DEF AssistInv
<1>2. assistCall[k] \in AssistRow /\ assistCall[k].at = "ticket"
  BY <1>1 DEF OpenTicket, AssistTypeOK
<1>3. PICK w \in Asker : w = assistCall[k].w BY <1>2, AssistFields
<1>4. /\ tickets' = [tickets EXCEPT ![w] = tickets[w] + 1]
      /\ assistCall' = [assistCall EXCEPT ![k] = NoAssist]
      /\ UNCHANGED <<gig, summary, carousel, extracts>>
  BY <1>3 DEF OpenTicket, Gets
<1>5. /\ assistCall' \in [AssistCall -> AssistRow] /\ assistCall'[k].at = "idle"
      /\ \A b \in AssistCall \ {k} : assistCall'[b] = assistCall[b]
  BY <1>1, <1>4, AssistMakes DEF AssistTypeOK
<1>6. /\ tickets' \in [Asker -> Nat] /\ tickets'[w] = tickets[w] + 1
      /\ \A v \in Asker \ {w} : tickets'[v] = tickets[v]
  BY <1>1, <1>4 DEF AssistTypeOK
<1>7. ASSUME NEW v \in Asker
      PROVE  tickets'[v] + Cardinality(Counting(v))' < MaxTickets + Cardinality(AssistCall)
  <2>1. tickets[v] \in Nat /\ Cardinality(Counting(v)) \in Nat
        /\ IsFiniteSet(Counting(v)) /\ Cardinality(AssistCall) \in Nat
        /\ tickets[v] + Cardinality(Counting(v)) < MaxTickets + Cardinality(AssistCall)
    BY <1>1, CountingFinite DEF AssistTypeOK, AssistInv, TicketsBound
  <2>2. CASE v = w
    <3>1. k \in Counting(w) /\ Counting(w)' = Counting(w) \ {k}
      BY <1>2, <1>3, <1>5 DEF Counting
    <3>2. Cardinality(Counting(w) \ {k}) = Cardinality(Counting(w)) - 1
      BY <2>1, <2>2, <3>1, FS_RemoveElement
    <3>3. Cardinality(Counting(w))' = Cardinality(Counting(w)) - 1 BY <3>1, <3>2
    <3>4. QED BY <1>6, <2>1, <2>2, <3>3, AssistAssumption
  <2>3. CASE v # w
    <3>1. Counting(v)' = Counting(v) BY <1>2, <1>3, <1>5, <2>3 DEF Counting
    <3>2. Cardinality(Counting(v))' = Cardinality(Counting(v)) BY <3>1
    <3>3. QED BY <1>6, <2>1, <2>3, <3>2
  <2>4. QED BY <2>2, <2>3
<1>8. TicketsBound' BY <1>7 DEF TicketsBound
<1>9. QED BY <1>1, <1>4, <1>5, <1>6, <1>8 DEF AssistInv, AssistTypeOK

LEMMA AssistInvStep == AssistInv /\ [AssistNext]_assistVars => AssistInv'
<1> SUFFICES ASSUME AssistInv, [AssistNext]_assistVars PROVE AssistInv'
  OBVIOUS
<1>0. AssistTypeOK BY DEF AssistInv
<1>1. ASSUME NEW k \in AssistCall, NEW j \in Gig, AskSummary(k, j) PROVE AssistInv'
  <2>1. gig[j].edit \in 0 .. LastEdit BY <1>0 DEF AssistTypeOK
  <2>2. PICK c \in AssistRow : c.at # "ticket" /\ assistCall' = [assistCall EXCEPT ![k] = c]
    <3>1. [at |-> "summary", j |-> j, edit |-> gig[j].edit] \in AssistRow BY <2>1, AssistMakes
    <3>2. QED BY <1>1, <3>1 DEF AskSummary, Asks
  <2>3. UNCHANGED <<gig, summary, carousel, extracts, tickets>> BY <1>1 DEF AskSummary
  <2>4. QED BY <1>0, <2>2, <2>3, CallSet DEF AssistInv, AssistTypeOK
<1>2. ASSUME NEW k \in AssistCall, NEW w \in Asker, NEW p \in Place, AskRanking(k, w, p)
      PROVE  AssistInv'
  <2>1. UNCHANGED <<gig, summary, extracts, tickets>> BY <1>2 DEF AskRanking
  <2>2. CASE Offered = {}
    <3>1. /\ UNCHANGED assistCall
          /\ carousel' = [carousel EXCEPT ![w] =
                [kept |-> TRUE, place |-> p, jobs |-> {}, from |-> "empty"]]
      BY <1>2, <2>2 DEF AskRanking
    <3>2. [kept |-> TRUE, place |-> p, jobs |-> {}, from |-> "empty"] \in CarouselRow
      BY DEF CarouselRow
    <3>3. carousel' \in [Asker -> CarouselRow] BY <1>0, <3>1, <3>2 DEF AssistTypeOK
    <3>4. TicketsBound' BY <2>1, <3>1, AskersStay
    <3>5. QED BY <1>0, <2>1, <3>1, <3>3, <3>4 DEF AssistInv, AssistTypeOK
  <2>3. CASE Offered # {}
    <3>1. Offered \in SUBSET Gig BY DEF Offered
    <3>2. PICK c \in AssistRow : c.at # "ticket" /\ assistCall' = [assistCall EXCEPT ![k] = c]
      <4>1. [at |-> "rank", w |-> w, place |-> p, pool |-> Offered] \in AssistRow
        BY <3>1, AssistMakes
      <4>2. QED BY <1>2, <2>3, <4>1 DEF AskRanking, Asks
    <3>3. UNCHANGED carousel BY <1>2, <2>3 DEF AskRanking
    <3>4. QED BY <1>0, <2>1, <3>2, <3>3, CallSet DEF AssistInv, AssistTypeOK
  <2>4. QED BY <2>2, <2>3
<1>3. ASSUME NEW k \in AssistCall, NEW w \in Asker, AskDraft(k, w) PROVE AssistInv'
  <2>1. PICK c \in AssistRow : c.at # "ticket" /\ assistCall' = [assistCall EXCEPT ![k] = c]
    <3>1. [at |-> "draft", w |-> w] \in AssistRow BY AssistMakes
    <3>2. QED BY <1>3, <3>1 DEF AskDraft, Asks
  <2>2. /\ extracts[w] < MaxExtracts /\ extracts' = [extracts EXCEPT ![w] = extracts[w] + 1]
        /\ UNCHANGED <<gig, summary, carousel, tickets>>
    BY <1>3 DEF AskDraft
  <2>3. extracts' \in [Asker -> 0 .. MaxExtracts]
    BY <1>0, <2>2, AssistAssumption DEF AssistTypeOK
  <2>4. QED BY <1>0, <2>1, <2>2, <2>3, CallSet DEF AssistInv, AssistTypeOK
<1>4. ASSUME NEW k \in AssistCall, NEW reply \in ModelReply,
             GetSummary(k, reply) \/ GetRanking(k, reply) \/ GetDraft(k)
      PROVE  AssistInv'
  <2>1. assistCall' = [assistCall EXCEPT ![k] = NoAssist] /\ UNCHANGED <<gig, extracts, tickets>>
    BY <1>4 DEF GetSummary, GetRanking, GetDraft, Gets
  <2>2. assistCall' \in [AssistCall -> AssistRow] /\ TicketsBound'
    BY <2>1, AssistMakes, CallSet
  <2>3. assistCall[k] \in AssistRow BY <1>0 DEF AssistTypeOK
  <2>4. summary' \in [Gig -> [kept : {"no", "fresh", "expired"}, edit : 0 .. LastEdit]]
        /\ carousel' \in [Asker -> CarouselRow]
    <3>1. CASE GetSummary(k, reply)
      <4>1. assistCall[k].j \in Gig /\ assistCall[k].edit \in 0 .. LastEdit /\ UNCHANGED carousel
        BY <2>3, <3>1, AssistFields DEF GetSummary
      <4>2. [kept |-> "fresh", edit |-> assistCall[k].edit]
              \in [kept : {"no", "fresh", "expired"}, edit : 0 .. LastEdit]
        BY <4>1
      <4>3. QED BY <1>0, <3>1, <4>1, <4>2 DEF GetSummary, AssistTypeOK
    <3>2. CASE GetRanking(k, reply)
      <4>1. /\ assistCall[k].w \in Asker /\ assistCall[k].place \in Place
            /\ assistCall[k].pool \in SUBSET Gig /\ UNCHANGED summary
        BY <2>3, <3>2, AssistFields DEF GetRanking
      <4>2. [kept |-> TRUE, place |-> assistCall[k].place, jobs |-> assistCall[k].pool,
             from |-> "model"] \in CarouselRow
        BY <4>1 DEF CarouselRow
      <4>3. QED BY <1>0, <3>2, <4>1, <4>2 DEF GetRanking, AssistTypeOK
    <3>3. CASE GetDraft(k) BY <1>0, <3>3 DEF GetDraft, AssistTypeOK
    <3>4. QED BY <1>4, <3>1, <3>2, <3>3
  <2>5. QED BY <1>0, <2>1, <2>2, <2>4 DEF AssistInv, AssistTypeOK
<1>5. ASSUME NEW j \in Gig, SummaryExpires(j) \/ EditGig(j) \/ TakeGig(j) PROVE AssistInv'
  <2>1. UNCHANGED <<carousel, extracts, tickets, assistCall>>
    BY <1>5 DEF SummaryExpires, EditGig, TakeGig
  <2>2. TicketsBound' BY <2>1, AskersStay
  <2>3. summary' \in [Gig -> [kept : {"no", "fresh", "expired"}, edit : 0 .. LastEdit]]
    BY <1>0, <1>5 DEF SummaryExpires, EditGig, TakeGig, AssistTypeOK
  <2>4. gig' \in [Gig -> [edit : 0 .. LastEdit, offered : BOOLEAN]]
    <3>1. CASE EditGig(j)
      <4>1. /\ gig[j].edit + 1 \in 0 .. LastEdit
            /\ gig[j] \in [edit : 0 .. LastEdit, offered : BOOLEAN]
        BY <1>0, <3>1, AssistAssumption DEF EditGig, AssistTypeOK
      <4>2. [gig[j] EXCEPT !.edit = gig[j].edit + 1] \in [edit : 0 .. LastEdit, offered : BOOLEAN]
        BY <4>1
      <4>3. gig' = [gig EXCEPT ![j] = [gig[j] EXCEPT !.edit = gig[j].edit + 1]]
        BY <1>0, <3>1 DEF EditGig, AssistTypeOK
      <4>4. QED BY <1>0, <4>2, <4>3 DEF AssistTypeOK
    <3>2. CASE TakeGig(j) BY <1>0, <3>2 DEF TakeGig, AssistTypeOK
    <3>3. CASE SummaryExpires(j) BY <1>0, <3>3 DEF SummaryExpires, AssistTypeOK
    <3>4. QED BY <1>5, <3>1, <3>2, <3>3
  <2>5. QED BY <1>0, <2>1, <2>2, <2>3, <2>4 DEF AssistInv, AssistTypeOK
<1>6. ASSUME NEW w \in Asker, QuarterPasses(w) PROVE AssistInv'
  <2>1. /\ carousel' = [carousel EXCEPT ![w] = NoCarousel]
        /\ UNCHANGED <<gig, summary, extracts, tickets, assistCall>>
    BY <1>6 DEF QuarterPasses
  <2>2. carousel' \in [Asker -> CarouselRow] BY <1>0, <2>1 DEF AssistTypeOK, CarouselRow
  <2>3. QED BY <1>0, <2>1, <2>2, AskersStay DEF AssistInv, AssistTypeOK
<1>7. CASE DayOver
  <2>1. /\ extracts' = [w \in Asker |-> 0] /\ tickets' = [w \in Asker |-> 0]
        /\ UNCHANGED <<gig, summary, carousel, assistCall>>
    BY <1>7 DEF DayOver
  <2>2. /\ extracts' \in [Asker -> 0 .. MaxExtracts] /\ tickets' \in [Asker -> Nat]
        /\ \A w \in Asker : tickets'[w] = 0
    BY <2>1, AssistAssumption
  <2>3. \A w \in Asker : Counting(w)' \subseteq Counting(w) BY <2>1 DEF Counting
  <2>4. TicketsBound' BY <1>0, <2>2, <2>3, FewerCount DEF AssistTypeOK
  <2>5. QED BY <1>0, <2>1, <2>2, <2>4 DEF AssistInv, AssistTypeOK
<1>8. CASE Restart
  <2>1. /\ carousel' = [w \in Asker |-> NoCarousel] /\ extracts' = [w \in Asker |-> 0]
        /\ assistCall' = [k \in AssistCall |-> NoAssist] /\ UNCHANGED <<gig, summary, tickets>>
    BY <1>8 DEF Restart
  <2>2. /\ extracts' \in [Asker -> 0 .. MaxExtracts] /\ carousel' \in [Asker -> CarouselRow]
        /\ assistCall' \in [AssistCall -> AssistRow]
    BY <2>1, AssistAssumption, AssistMakes DEF CarouselRow
  <2>3. \A w \in Asker : Counting(w)' \subseteq Counting(w) BY <2>1, AssistMakes DEF Counting
  <2>4. TicketsBound' BY <1>0, <2>1, <2>3, FewerCount DEF AssistTypeOK
  <2>5. QED BY <1>0, <2>1, <2>2, <2>4 DEF AssistInv, AssistTypeOK
<1>9. CASE UNCHANGED assistVars
  BY <1>0, <1>9, AskersStay DEF assistVars, AssistInv, AssistTypeOK
<1>10. QED
  BY <1>1, <1>2, <1>3, <1>4, <1>5, <1>6, <1>7, <1>8, <1>9, TicketCounted, TicketOpened
  DEF AssistNext, ModelReply

LEMMA AssistInvKeeps == AssistInv => TicketsLimited
<1> SUFFICES ASSUME AssistInv, NEW w \in Asker
             PROVE  tickets[w] < MaxTickets + Cardinality(AssistCall)
  BY DEF TicketsLimited
<1>1. /\ Cardinality(Counting(w)) \in Nat /\ Cardinality(AssistCall) \in Nat
      /\ tickets[w] \in Nat
  BY CountingFinite DEF AssistInv, AssistTypeOK
<1>2. tickets[w] + Cardinality(Counting(w)) < MaxTickets + Cardinality(AssistCall)
  BY DEF AssistInv, TicketsBound
<1>3. QED BY <1>1, <1>2, AssistAssumption

(* A worker opens no more tickets in a day than the limit, and one more for each
   call that counted them before another opened its own (help.service.ts:36): for
   any workers, calls and limit. *)
THEOREM TicketsAreLimited == AssistSpec => []TicketsLimited
<1>1. AssistInit => AssistInv
  BY AssistInvInit
<1>2. AssistInv /\ [AssistNext]_assistVars => AssistInv'
  BY AssistInvStep
<1>3. AssistInv => TicketsLimited
  BY AssistInvKeeps
<1> QED
  BY <1>1, <1>2, <1>3, PTL DEF AssistSpec

(***************************************************************************)
(* The lists a client walks.                                               *)
(*                                                                         *)
(* What a walk has yet to show of the rows that stayed is below its        *)
(* cursor, and it has shown nothing there (WalkSound); what an export has  *)
(* yet to write of the rows that were there is older than the `skip`       *)
(* newest of what there is by then (ExportSound).                          *)
(***************************************************************************)
WalkSound ==
    walk # Absent =>
        /\ walk \in [next : 1 .. LastRow + 1, ended : BOOLEAN, seen : [LedgerRow -> Nat]]
        /\ stayed \subseteq Shown
        /\ \A r \in LedgerRow : /\ walk.seen[r] <= 1
                                /\ r < walk.next => walk.seen[r] = 0
        /\ \A r \in stayed : walk.ended \/ walk.next <= r => walk.seen[r] = 1

ExportSound ==
    export # Absent =>
        /\ export \in [skip : Nat, ended : BOOLEAN, seen : [LedgerRow -> Nat]]
        /\ began \subseteq DOMAIN ledger
        /\ \A r \in began : \/ export.seen[r] >= 1
                            \/ /\ ~ export.ended
                               /\ r + export.skip <= Cardinality(DOMAIN ledger)

LedgerSound ==
    \E n \in 0 .. LastRow : ledger \in [1 .. n -> VISIBLE_STATUSES \cup {"reversed"}]

ListsInv ==
    /\ LedgerSound /\ WalkSound /\ ExportSound
    /\ unread \subseteq DOMAIN ledger /\ stayed \subseteq LedgerRow /\ began \subseteq LedgerRow

LEMMA LedgerRows ==
  ASSUME LedgerSound
  PROVE  /\ Cardinality(DOMAIN ledger) \in 0 .. LastRow
         /\ DOMAIN ledger = 1 .. Cardinality(DOMAIN ledger)
         /\ IsFiniteSet(DOMAIN ledger) /\ DOMAIN ledger \subseteq LedgerRow
         /\ ledger \in [DOMAIN ledger -> VISIBLE_STATUSES \cup {"reversed"}]
<1>1. PICK n \in 0 .. LastRow : ledger \in [1 .. n -> VISIBLE_STATUSES \cup {"reversed"}]
  BY DEF LedgerSound
<1>2. n \in Nat /\ DOMAIN ledger = 1 .. n /\ 1 .. n \subseteq 1 .. LastRow
  BY <1>1, ListsAssumption
<1>3. Cardinality(1 .. n) = n /\ IsFiniteSet(1 .. n)
  BY <1>2, FS_Interval
<1> QED
  BY <1>1, <1>2, <1>3 DEF LedgerRow

\* The newest rows of a set: with one of them every newer one, and all when they are few.
LEMMA NewestOf ==
  ASSUME NEW S, IsFiniteSet(S), S \subseteq Int, NEW n \in Nat
  PROVE  /\ NewestRows(S, n) \subseteq S
         /\ \A r \in S, m \in NewestRows(S, n) : m <= r => r \in NewestRows(S, n)
         /\ Cardinality(S) <= n => NewestRows(S, n) = S
<1>1. ASSUME NEW r \in S, NEW m \in NewestRows(S, n), m <= r PROVE r \in NewestRows(S, n)
  <2> DEFINE Above(x) == {q \in S : q > x}
  <2>1. m \in S /\ Cardinality(Above(m)) < n
    BY DEF NewestRows
  <2>2. IsFiniteSet(Above(m)) /\ Above(r) \subseteq Above(m)
    <3>1. Above(m) \subseteq S
      OBVIOUS
    <3>2. r \in Int /\ m \in Int /\ \A q \in S : q \in Int
      BY <2>1
    <3>3. \A q \in S : q > r => q > m
      BY <1>1, <3>2
    <3>4. Above(r) \subseteq Above(m)
      BY <3>3
    <3> QED
      BY <3>1, <3>4, FS_Subset
  <2>3. /\ Cardinality(Above(r)) <= Cardinality(Above(m))
        /\ Cardinality(Above(r)) \in Nat /\ Cardinality(Above(m)) \in Nat
    BY <2>2, FS_Subset, FS_CardinalityType
  <2>4. Cardinality(Above(r)) < n
    BY <2>1, <2>3
  <2> QED
    BY <2>4 DEF NewestRows
<1>2. ASSUME Cardinality(S) <= n, NEW r \in S PROVE r \in NewestRows(S, n)
  <2> DEFINE Above == {q \in S : q > r}
  <2>1. Above \subseteq S /\ Above # S
    OBVIOUS
  <2>2. /\ IsFiniteSet(Above) /\ Cardinality(Above) <= Cardinality(S)
        /\ Cardinality(Above) # Cardinality(S)
    BY <2>1, FS_Subset
  <2>3. Cardinality(Above) \in Nat /\ Cardinality(S) \in Nat
    BY <2>2, FS_CardinalityType
  <2>4. Cardinality(Above) < n
    BY <1>2, <2>2, <2>3
  <2> QED
    BY <2>4 DEF NewestRows
<1>3. NewestRows(S, n) \subseteq S
  BY DEF NewestRows
<1> QED
  BY <1>1, <1>2, <1>3

LEMMA LeastRow ==
  ASSUME NEW S, S \subseteq LedgerRow, S # {}
  PROVE  Min(S) \in S /\ \A r \in S : Min(S) <= r
<1>1. \E m \in S : \A r \in S : m <= r
  <2>1. S \subseteq Nat
    BY ListsAssumption DEF LedgerRow
  <2> QED
    BY <2>1, LeastNat
<1> QED
  BY <1>1 DEF Min

LEMMA CountedOnce ==
  ASSUME NEW seen \in [LedgerRow -> Nat], NEW page
  PROVE  /\ Counted(seen, page) \in [LedgerRow -> Nat]
         /\ \A r \in LedgerRow :
               Counted(seen, page)[r] = IF r \in page THEN seen[r] + 1 ELSE seen[r]
  BY DEF Counted

LEMMA ListsInvInit == ListsInit => ListsInv
<1> SUFFICES ASSUME ListsInit PROVE ListsInv
  OBVIOUS
<1>1. PICK n \in 0 .. LastRow - 1 : ledger \in [1 .. n -> {"processing", "completed"}]
  BY DEF ListsInit
<1>2. n \in 0 .. LastRow
  BY ListsAssumption
<1>3. ledger \in [1 .. n -> VISIBLE_STATUSES \cup {"reversed"}]
  BY <1>1 DEF VISIBLE_STATUSES
<1>4. LedgerSound
  BY <1>2, <1>3 DEF LedgerSound
<1> QED
  BY <1>4 DEF ListsInit, ListsInv, WalkSound, ExportSound

\* Nothing of a walk or an export changes when the rows it is about stay.
LEMMA RowArrivesKeeps ==
  ASSUME ListsInv, RowArrives PROVE ListsInv'
<1> DEFINE n == Cardinality(DOMAIN ledger)
           r == n + 1
<1>1. /\ n \in 0 .. LastRow /\ DOMAIN ledger = 1 .. n
      /\ ledger \in [1 .. n -> VISIBLE_STATUSES \cup {"reversed"}]
  BY LedgerRows DEF ListsInv
<1>2. /\ r \in LedgerRow /\ unread' = unread \cup {r}
      /\ UNCHANGED <<walk, export, stayed, began>>
      /\ \E s \in {"processing", "completed"} :
            ledger' = [q \in 1 .. r |-> IF q = r THEN s ELSE ledger[q]]
  BY DEF RowArrives
<1> HIDE DEF n
<1>3. r \in 0 .. LastRow /\ r \in 1 .. r /\ 1 .. n \subseteq 1 .. r
  BY <1>1, <1>2 DEF LedgerRow
<1>4. /\ ledger' \in [1 .. r -> VISIBLE_STATUSES \cup {"reversed"}]
      /\ \A q \in 1 .. n : ledger'[q] = ledger[q]
  BY <1>1, <1>2, <1>3 DEF VISIBLE_STATUSES
<1>5. LedgerSound' /\ DOMAIN ledger' = 1 .. r
  BY <1>3, <1>4 DEF LedgerSound
<1>6. Cardinality(DOMAIN ledger') = r
  BY <1>1, <1>5, FS_Interval
<1>7. Shown \subseteq Shown'
  BY <1>1, <1>3, <1>4, <1>5 DEF Shown
<1>8. WalkSound'
  BY <1>2, <1>7 DEF WalkSound, ListsInv
<1>9. ExportSound'
  <2> SUFFICES ASSUME export # Absent PROVE ExportSound'
    BY <1>2 DEF ExportSound
  <2>1. /\ export \in [skip : Nat, ended : BOOLEAN, seen : [LedgerRow -> Nat]]
        /\ began \subseteq 1 .. n
        /\ \A q \in began : \/ export.seen[q] >= 1
                            \/ ~ export.ended /\ q + export.skip <= n
    BY <1>1 DEF ListsInv, ExportSound, n
  <2>2. \A q \in began : q + export.skip <= n => q + export.skip <= r
    BY <1>1, <2>1
  <2> QED
    BY <1>2, <1>3, <1>5, <1>6, <2>1, <2>2 DEF ExportSound
<1> QED
  BY <1>1, <1>2, <1>3, <1>5, <1>8, <1>9 DEF ListsInv

LEMMA RowSettlesKeeps ==
  ASSUME ListsInv, NEW r \in LedgerRow, RowSettles(r) PROVE ListsInv'
<1>1. PICK n \in 0 .. LastRow : ledger \in [1 .. n -> VISIBLE_STATUSES \cup {"reversed"}]
  BY DEF ListsInv, LedgerSound
<1>2. PICK s \in {"succeeded", "reversed"} : ledger' = [ledger EXCEPT ![r] = s]
  BY DEF RowSettles
<1>3. /\ ledger' \in [1 .. n -> VISIBLE_STATUSES \cup {"reversed"}]
      /\ DOMAIN ledger' = DOMAIN ledger /\ LedgerSound'
  BY <1>1, <1>2 DEF VISIBLE_STATUSES, LedgerSound
<1>4. /\ stayed' = {q \in stayed : ledger'[q] # "reversed"}
      /\ UNCHANGED <<unread, walk, export, began>>
  BY DEF RowSettles
<1>5. WalkSound'
  <2> SUFFICES ASSUME walk # Absent PROVE WalkSound'
    BY <1>4 DEF WalkSound
  <2>1. stayed \subseteq DOMAIN ledger
    BY DEF ListsInv, WalkSound, Shown
  <2>2. stayed' \subseteq Shown'
    BY <1>1, <1>3, <1>4, <2>1 DEF Shown
  <2> QED
    BY <1>4, <2>2 DEF ListsInv, WalkSound
<1>6. ExportSound'
  BY <1>3, <1>4 DEF ListsInv, ExportSound
<1> QED
  BY <1>3, <1>4, <1>5, <1>6 DEF ListsInv

LEMMA WalkBeginsKeeps == ASSUME ListsInv, WalkBegins PROVE ListsInv'
<1>1. /\ walk' = [next |-> LastRow + 1, ended |-> FALSE, seen |-> Nothing]
      /\ stayed' = Shown /\ UNCHANGED <<ledger, unread, export, began>>
  BY DEF WalkBegins
<1>2. Nothing \in [LedgerRow -> Nat] /\ \A r \in LedgerRow : Nothing[r] = 0
  BY DEF Nothing
<1>3. LastRow + 1 \in 1 .. LastRow + 1 /\ \A r \in LedgerRow : ~ (LastRow + 1 <= r)
  BY ListsAssumption DEF LedgerRow
<1>4. Shown \subseteq LedgerRow /\ Shown' = Shown
  BY <1>1, LedgerRows DEF ListsInv, Shown
<1>5. WalkSound'
  BY <1>1, <1>2, <1>3, <1>4 DEF WalkSound
<1> QED
  BY <1>1, <1>4, <1>5 DEF ListsInv, LedgerSound, ExportSound

LEMMA WalkPageKeeps == ASSUME ListsInv, WalkPage PROVE ListsInv'
<1> DEFINE below == {r \in Shown : r < walk.next}
           page == NewestRows(below, PageLimit)
           next == IF page = {} THEN walk.next ELSE Min(page)
<1>1. /\ walk # Absent /\ ~ walk.ended /\ UNCHANGED <<ledger, unread, export, stayed, began>>
      /\ walk' = [next |-> next, ended |-> Cardinality(below) <= PageLimit,
                  seen |-> Counted(walk.seen, page)]
  BY DEF WalkPage
<1>2. /\ walk \in [next : 1 .. LastRow + 1, ended : BOOLEAN, seen : [LedgerRow -> Nat]]
      /\ stayed \subseteq Shown
      /\ \A r \in LedgerRow : /\ walk.seen[r] <= 1
                              /\ r < walk.next => walk.seen[r] = 0
      /\ \A r \in stayed : walk.next <= r => walk.seen[r] = 1
  BY <1>1 DEF ListsInv, WalkSound
<1>3. /\ below \subseteq LedgerRow /\ LedgerRow \subseteq Int /\ IsFiniteSet(below)
      /\ Shown \subseteq LedgerRow
  <2>1. below \subseteq DOMAIN ledger /\ Shown \subseteq DOMAIN ledger
    BY DEF Shown
  <2>2. IsFiniteSet(below)
    BY <2>1, LedgerRows, FS_Subset DEF ListsInv
  <2> QED
    BY <2>1, <2>2, LedgerRows DEF ListsInv, LedgerRow
<1>4. /\ page \subseteq below
      /\ \A r \in below, m \in page : m <= r => r \in page
      /\ Cardinality(below) <= PageLimit => page = below
  BY <1>3, NewestOf, ListsAssumption
<1> HIDE DEF page
<1>5. page # {} => Min(page) \in page /\ \A r \in page : Min(page) <= r
  BY <1>3, <1>4, LeastRow
<1>6. next \in 1 .. LastRow + 1 /\ next <= walk.next
  <2>1. CASE page = {}
    BY <1>2, <2>1
  <2>2. CASE page # {}
    <3>1. Min(page) \in below /\ Min(page) \in LedgerRow
      BY <1>3, <1>4, <1>5, <2>2
    <3> QED
      BY <1>2, <2>2, <3>1, ListsAssumption DEF LedgerRow
  <2> QED
    BY <2>1, <2>2
<1>7. \A r \in LedgerRow : r < next => r < walk.next /\ r \notin page
  BY <1>2, <1>3, <1>4, <1>5, <1>6
<1>8. \A r \in stayed : next <= r /\ r < walk.next => r \in page
  <2> SUFFICES ASSUME NEW r \in stayed, next <= r, r < walk.next PROVE r \in page
    OBVIOUS
  <2>1. r \in below
    BY <1>2
  <2>2. page # {}
    BY <1>2, <1>3, <2>1
  <2> QED
    BY <1>4, <1>5, <2>1, <2>2
<1> HIDE DEF next
<1>9. \A r \in LedgerRow :
         Counted(walk.seen, page)[r] = IF r \in page THEN walk.seen[r] + 1 ELSE walk.seen[r]
  BY <1>2, CountedOnce
<1>10. \A r \in page : r \in LedgerRow /\ walk.seen[r] = 0
  BY <1>2, <1>3, <1>4
<1>11. \A r \in LedgerRow : /\ Counted(walk.seen, page)[r] <= 1
                            /\ r < next => Counted(walk.seen, page)[r] = 0
  BY <1>2, <1>7, <1>9, <1>10
<1>12. ASSUME NEW r \in stayed, Cardinality(below) <= PageLimit \/ next <= r
       PROVE  Counted(walk.seen, page)[r] = 1
  <2>1. r \in LedgerRow /\ r \in Shown
    BY <1>2, <1>3
  <2>2. CASE walk.next <= r
    <3>1. r \notin page
      BY <1>2, <1>3, <1>4, <2>2
    <3> QED
      BY <1>2, <1>9, <2>1, <2>2, <3>1
  <2>3. CASE r < walk.next
    <3>1. r \in page
      BY <1>4, <1>8, <1>12, <2>1, <2>3
    <3> QED
      BY <1>9, <1>10, <2>1, <3>1
  <2> QED
    BY <1>2, <1>3, <2>1, <2>2, <2>3
<1>13. walk' \in [next : 1 .. LastRow + 1, ended : BOOLEAN, seen : [LedgerRow -> Nat]]
  BY <1>1, <1>2, <1>6, CountedOnce
<1>14. WalkSound'
  <2>1. Shown' = Shown
    BY <1>1 DEF Shown
  <2> QED
    BY <1>1, <1>2, <1>11, <1>12, <1>13, <2>1 DEF WalkSound
<1> QED
  BY <1>1, <1>14 DEF ListsInv, LedgerSound, ExportSound

LEMMA ExportBeginsKeeps == ASSUME ListsInv, ExportBegins PROVE ListsInv'
<1>1. /\ export' = [skip |-> 0, ended |-> FALSE, seen |-> Nothing]
      /\ began' = DOMAIN ledger /\ UNCHANGED <<ledger, unread, walk, stayed>>
  BY DEF ExportBegins
<1>2. Nothing \in [LedgerRow -> Nat]
  BY DEF Nothing
<1>3. /\ \A r \in DOMAIN ledger : r + 0 <= Cardinality(DOMAIN ledger)
      /\ DOMAIN ledger \subseteq LedgerRow
  <2>1. /\ Cardinality(DOMAIN ledger) \in Nat
        /\ DOMAIN ledger = 1 .. Cardinality(DOMAIN ledger)
        /\ DOMAIN ledger \subseteq LedgerRow
    BY LedgerRows DEF ListsInv
  <2> DEFINE n == Cardinality(DOMAIN ledger)
  <2> HIDE DEF n
  <2>2. n \in Nat /\ DOMAIN ledger = 1 .. n
    BY <2>1 DEF n
  <2>3. \A r \in DOMAIN ledger : r + 0 <= n
    BY <2>2
  <2> QED
    BY <2>1, <2>3 DEF n
<1>4. ExportSound'
  BY <1>1, <1>2, <1>3 DEF ExportSound
<1> QED
  BY <1>1, <1>3, <1>4 DEF ListsInv, LedgerSound, WalkSound, Shown

LEMMA ExportPageKeeps == ASSUME ListsInv, ExportPage PROVE ListsInv'
<1> DEFINE rows == DOMAIN ledger
           n == Cardinality(rows)
           k == export.skip
           page == NewestRows(rows, k + PageLimit) \ NewestRows(rows, k)
<1>1. /\ export # Absent /\ ~ export.ended /\ UNCHANGED <<ledger, unread, walk, stayed, began>>
      /\ export' = [skip |-> k + PageLimit, ended |-> Cardinality(page) < PageLimit,
                    seen |-> Counted(export.seen, page)]
  BY DEF ExportPage
<1>2. /\ export \in [skip : Nat, ended : BOOLEAN, seen : [LedgerRow -> Nat]]
      /\ began \subseteq rows
      /\ \A r \in began : export.seen[r] >= 1 \/ r + k <= n
  BY <1>1 DEF ListsInv, ExportSound
<1>3. n \in Nat /\ rows = 1 .. n /\ rows \subseteq LedgerRow
  BY LedgerRows DEF ListsInv
<1>4. k \in Nat /\ PageLimit \in Nat
  BY <1>2, ListsAssumption
<1> HIDE DEF n, k, rows
<1>5. \A r \in rows : Cardinality({q \in rows : q > r}) = n - r
  <2> SUFFICES ASSUME NEW r \in rows PROVE Cardinality({q \in rows : q > r}) = n - r
    OBVIOUS
  <2>1. {q \in rows : q > r} = (r + 1) .. n /\ r \in 1 .. n
    BY <1>3
  <2>2. Cardinality({q \in rows : q > r}) = Cardinality((r + 1) .. n)
    BY <2>1
  <2>3. Cardinality((r + 1) .. n) = IF r + 1 > n THEN 0 ELSE n - (r + 1) + 1
    BY <1>3, <2>1, FS_Interval
  <2> QED
    BY <1>3, <2>1, <2>2, <2>3
<1>6. page = {r \in rows : k <= n - r /\ n - r < k + PageLimit}
  BY <1>3, <1>4, <1>5 DEF NewestRows
<1> HIDE DEF page
<1>7. ASSUME NEW r \in began, Counted(export.seen, page)[r] < 1
      PROVE  ~ (Cardinality(page) < PageLimit) /\ r + (k + PageLimit) <= n
  <2>1. r \in rows /\ r \in LedgerRow /\ r \in 1 .. n
    BY <1>2, <1>3
  <2>2. r \notin page /\ r + k <= n
    BY <1>2, <1>7, <2>1, CountedOnce
  <2>3. r + (k + PageLimit) <= n
    BY <1>3, <1>4, <1>6, <2>1, <2>2
  <2>4. page = (n - (k + PageLimit) + 1) .. (n - k)
    BY <1>3, <1>4, <1>6, <2>1, <2>3
  <2>5. Cardinality((n - (k + PageLimit) + 1) .. (n - k)) = PageLimit
    BY <1>3, <1>4, FS_Interval
  <2> QED
    BY <1>4, <2>3, <2>4, <2>5
<1>8. /\ Counted(export.seen, page) \in [LedgerRow -> Nat]
      /\ \A r \in began : Counted(export.seen, page)[r] \in Nat
  BY <1>2, <1>3, CountedOnce
<1>9. ExportSound'
  <2>1. export' \in [skip : Nat, ended : BOOLEAN, seen : [LedgerRow -> Nat]]
    BY <1>1, <1>4, <1>8
  <2>2. /\ export'.skip = k + PageLimit /\ export'.seen = Counted(export.seen, page)
        /\ export'.ended = (Cardinality(page) < PageLimit)
    BY <1>1
  <2>3. \A r \in began : \/ Counted(export.seen, page)[r] >= 1
                         \/ /\ ~ (Cardinality(page) < PageLimit)
                            /\ r + (k + PageLimit) <= n
    <3>1. \A r \in began : ~ (Counted(export.seen, page)[r] < 1)
                            => Counted(export.seen, page)[r] >= 1
      BY <1>8
    <3> QED
      BY <1>7, <3>1
  <2>4. \A r \in began : \/ export'.seen[r] >= 1
                         \/ ~ export'.ended /\ r + export'.skip <= n
    BY <2>2, <2>3
  <2> QED
    BY <1>1, <1>2, <2>1, <2>4 DEF ExportSound, n, rows
<1> QED
  BY <1>1, <1>9 DEF ListsInv, LedgerSound, WalkSound, Shown

LEMMA ListsInvStep == ListsInv /\ [ListsNext]_ledgerVars => ListsInv'
<1> SUFFICES ASSUME ListsInv, [ListsNext]_ledgerVars PROVE ListsInv'
  OBVIOUS
<1>1. CASE UNCHANGED ledgerVars
  BY <1>1 DEF ledgerVars, ListsInv, LedgerSound, WalkSound, ExportSound, Shown
<1>2. ASSUME NEW R \in SUBSET unread, MarkRead(R) PROVE ListsInv'
  BY <1>2 DEF MarkRead, ListsInv, LedgerSound, WalkSound, ExportSound, Shown
<1> QED
  BY <1>1, <1>2, RowArrivesKeeps, RowSettlesKeeps, WalkBeginsKeeps, WalkPageKeeps,
     ExportBeginsKeeps, ExportPageKeeps DEF ListsNext

LEMMA ListsInvKeeps == ListsInv => ListsTypeOK /\ WalksComplete
<1> SUFFICES ASSUME ListsInv PROVE ListsTypeOK /\ WalksComplete
  OBVIOUS
<1>1. ListsTypeOK
  <2>1. \A x \in 1 .. LastRow + 1 : x \in Nat
    OBVIOUS
  <2> QED
    BY <2>1, LedgerRows DEF ListsInv, WalkSound, ExportSound, ListsTypeOK
<1>2. WalksComplete
  BY DEF ListsInv, WalkSound, ExportSound, WalksComplete
<1> QED
  BY <1>1, <1>2

(* A walk by cursor shows no row twice and, when it has ended, every row that stayed
   since it began (transactions.service.ts:29, cursor.util.ts); an export misses no
   row that was there when it began (employer-transactions.service.ts): for any
   number of rows and any size of page, whatever arrives or is reversed meanwhile. *)
THEOREM WalksShowAll == ListsSpec => []WalksComplete
<1>1. ListsInv => WalksComplete
  BY ListsInvKeeps
<1> QED
  BY <1>1, ListsInvInit, ListsInvStep, PTL DEF ListsSpec

(***************************************************************************)
(* Messages to the devices of a worker.                                    *)
(*                                                                         *)
(* What a message in flight is sent to was a row, or a hint of the app, of *)
(* that moment.  Rows written since are in `rewritten`; the others of that *)
(* device hold no newer token, so a row that is removed because its token  *)
(* was dead is dead, or was written meanwhile (TargetSound).               *)
(***************************************************************************)
Rows(q) == {q[i] : i \in 1 .. Len(q)}

OneEach(q) == \A i, k \in 1 .. Len(q) : q[i].device = q[k].device => i = k

Keep(f, n, R) ==
    IF n = 0 THEN <<>> ELSE IF devices[n] \in R THEN f[n - 1] ELSE Append(f[n - 1], devices[n])

LEMMA WithoutComputed ==
  ASSUME NEW R
  PROVE  Without(R) = (CHOOSE f : f = [n \in 0 .. Len(devices) |-> Keep(f, n, R)])[Len(devices)]
  BY DEF Without, Keep

LEMMA KeptExists ==
  ASSUME devices \in Seq(DeviceRow), NEW R
  PROVE  \E f : f = [n \in 0 .. Len(devices) |-> Keep(f, n, R)]
<1> DEFINE F == {n \in Nat : \E g : \A k \in 0 .. n : g[k] = Keep(g, k, R)}
<1>1. 0 \in F
  <2> DEFINE g == [k \in {0} |-> <<>>]
  <2>1. \A k \in 0 .. 0 : g[k] = Keep(g, k, R)
    BY DEF Keep
  <2>2. \E g1 : \A k \in 0 .. 0 : g1[k] = Keep(g1, k, R)
    BY <2>1
  <2> QED
    BY <2>2
<1>2. ASSUME NEW n \in Nat, n \in F PROVE n + 1 \in F
  <2>1. PICK g : \A k \in 0 .. n : g[k] = Keep(g, k, R)
    BY <1>2
  <2> DEFINE h == [k \in 0 .. n + 1 |-> IF k <= n THEN g[k] ELSE Keep(g, k, R)]
  <2>2. ASSUME NEW k \in 0 .. n + 1 PROVE h[k] = Keep(h, k, R)
    <3>1. h[k] = Keep(g, k, R)
      <4>1. k <= n => k \in 0 .. n
        OBVIOUS
      <4> QED
        BY <2>1, <4>1
    <3>2. k # 0 => h[k - 1] = g[k - 1]
      OBVIOUS
    <3> HIDE DEF h
    <3> QED
      BY <3>1, <3>2 DEF Keep
  <2> HIDE DEF h
  <2>3. \E g1 : \A k \in 0 .. n + 1 : g1[k] = Keep(g1, k, R)
    BY <2>2
  <2> QED
    BY <2>3
<1> HIDE DEF F
<1>3. Len(devices) \in F
  BY <1>1, <1>2, CountingUp
<1>4. PICK g : \A k \in 0 .. Len(devices) : g[k] = Keep(g, k, R)
  BY <1>3 DEF F
<1> DEFINE h == [k \in 0 .. Len(devices) |-> g[k]]
<1>5. ASSUME NEW k \in 0 .. Len(devices) PROVE h[k] = Keep(h, k, R)
  <2>1. k # 0 => k - 1 \in 0 .. Len(devices)
    OBVIOUS
  <2>2. k # 0 => h[k - 1] = g[k - 1]
    BY <2>1
  <2>3. h[k] = Keep(g, k, R)
    BY <1>4
  <2> HIDE DEF h
  <2> QED
    BY <2>2, <2>3 DEF Keep
<1>6. h = [k \in 0 .. Len(devices) |-> Keep(h, k, R)]
  <2> DEFINE e == [k \in 0 .. Len(devices) |-> Keep(h, k, R)]
  <2>1. \A k \in 0 .. Len(devices) : h[k] = e[k]
    BY <1>5
  <2> QED
    BY <2>1
<1> QED
  BY <1>6

\* What is left when rows are removed: rows that were there and are not among them.
LEMMA WithoutRows ==
  ASSUME devices \in Seq(DeviceRow), OneEach(devices), NEW R
  PROVE  /\ Without(R) \in Seq(DeviceRow) /\ OneEach(Without(R))
         /\ Rows(Without(R)) \subseteq DeviceRows \ R
<1> DEFINE L == Len(devices)
           Left(q, n) ==
             /\ q \in Seq(DeviceRow) /\ OneEach(q)
             /\ \A i \in 1 .. Len(q) : \E j \in 1 .. n : q[i] = devices[j] /\ devices[j] \notin R
<1>1. PICK f : f = [n \in 0 .. L |-> Keep(f, n, R)] /\ Without(R) = f[L]
  BY KeptExists, WithoutComputed
<1>2. L \in Nat /\ \A n \in 0 .. L : f[n] = Keep(f, n, R)
  BY <1>1
<1> DEFINE F == {n \in Nat : n <= L => Left(f[n], n)}
<1>3. 0 \in F
  <2>1. f[0] = <<>>
    BY <1>2 DEF Keep
  <2>2. Left(<<>>, 0)
    <3>1. <<>> \in Seq(DeviceRow) /\ Len(<<>>) = 0
      OBVIOUS
    <3>2. \A i \in 1 .. Len(<<>>) : FALSE
      BY <3>1
    <3> QED
      BY <3>1, <3>2 DEF OneEach
  <2> HIDE DEF Left
  <2> QED
    BY <2>1, <2>2
<1>4. ASSUME NEW n \in Nat, n \in F PROVE n + 1 \in F
  <2> SUFFICES ASSUME n + 1 <= L PROVE Left(f[n + 1], n + 1)
    OBVIOUS
  <2>1. Left(f[n], n)
    BY <1>2, <1>4
  <2>2. /\ n + 1 \in 0 .. L /\ n + 1 \in 1 .. L /\ (n + 1) - 1 = n
        /\ 1 .. n \subseteq 1 .. n + 1 /\ 1 .. n \subseteq 1 .. L
    BY <1>2
  <2>3. f[n + 1] = IF devices[n + 1] \in R THEN f[n] ELSE Append(f[n], devices[n + 1])
    BY <1>2, <2>2 DEF Keep
  <2>4. CASE devices[n + 1] \in R
    BY <2>1, <2>2, <2>3, <2>4
  <2>5. CASE devices[n + 1] \notin R
    <3> DEFINE q == f[n]
               e == f[n + 1]
    <3>1. q \in Seq(DeviceRow) /\ devices[n + 1] \in DeviceRow
      BY <2>1, <2>2
    <3>2. /\ e \in Seq(DeviceRow) /\ Len(e) = Len(q) + 1 /\ Len(q) \in Nat
          /\ \A i \in 1 .. Len(q) : e[i] = q[i]
          /\ e[Len(q) + 1] = devices[n + 1]
      BY <2>3, <2>5, <3>1
    <3>3. \A i \in 1 .. Len(q) : q[i].device # devices[n + 1].device
      <4> SUFFICES ASSUME NEW i \in 1 .. Len(q), q[i].device = devices[n + 1].device PROVE FALSE
        OBVIOUS
      <4>1. PICK j \in 1 .. n : q[i] = devices[j]
        BY <2>1
      <4>2. j \in 1 .. L /\ j # n + 1
        BY <2>2
      <4> QED
        BY <2>2, <4>1, <4>2 DEF OneEach
    <3> HIDE DEF q, e
    <3>4. \A i \in 1 .. Len(e) : i \in 1 .. Len(q) \/ i = Len(q) + 1
      BY <3>2
    <3>5. OneEach(q) /\ \A i \in 1 .. Len(q) :
                           \E j \in 1 .. n : q[i] = devices[j] /\ devices[j] \notin R
      BY <2>1 DEF q
    <3>6. OneEach(e)
      BY <3>2, <3>3, <3>4, <3>5 DEF OneEach
    <3>7. \A i \in 1 .. Len(e) : \E j \in 1 .. n + 1 : e[i] = devices[j] /\ devices[j] \notin R
      <4> SUFFICES ASSUME NEW i \in 1 .. Len(e)
                   PROVE  \E j \in 1 .. n + 1 : e[i] = devices[j] /\ devices[j] \notin R
        OBVIOUS
      <4>1. CASE i \in 1 .. Len(q)
        <5>1. PICK j \in 1 .. n : q[i] = devices[j] /\ devices[j] \notin R
          BY <3>5, <4>1
        <5>2. e[i] = devices[j] /\ j \in 1 .. n + 1
          BY <2>2, <3>2, <4>1, <5>1
        <5> QED
          BY <5>1, <5>2
      <4>2. CASE i = Len(q) + 1
        <5>1. n + 1 \in 1 .. n + 1
          OBVIOUS
        <5> QED
          BY <2>5, <3>2, <4>2, <5>1
      <4> QED
        BY <3>4, <4>1, <4>2
    <3> QED
      BY <3>2, <3>6, <3>7 DEF e
  <2> QED
    BY <2>4, <2>5
<1> HIDE DEF F
<1>5. L \in F
  BY <1>2, <1>3, <1>4, CountingUp
<1>6. Left(f[L], L)
  BY <1>2, <1>5 DEF F
<1> QED
  BY <1>1, <1>6 DEF Rows, DeviceRows

LEMMA PrependRow ==
  ASSUME NEW q \in Seq(DeviceRow), OneEach(q), NEW r \in DeviceRow,
         \A p \in Rows(q) : p.device # r.device
  PROVE  /\ <<r>> \o q \in Seq(DeviceRow) /\ OneEach(<<r>> \o q)
         /\ Rows(<<r>> \o q) \subseteq {r} \cup Rows(q)
<1> DEFINE e == <<r>> \o q
<1>1. /\ e \in Seq(DeviceRow) /\ Len(e) = Len(q) + 1 /\ Len(q) \in Nat
      /\ \A i \in 1 .. Len(e) : e[i] = IF i = 1 THEN r ELSE q[i - 1]
  OBVIOUS
<1> HIDE DEF e
<1>2. \A i \in 1 .. Len(e) : i = 1 \/ i - 1 \in 1 .. Len(q)
  BY <1>1
<1>3. \A i \in 1 .. Len(q) : q[i].device # r.device
  BY DEF Rows
<1>4. OneEach(e)
  <2> SUFFICES ASSUME NEW i \in 1 .. Len(e), NEW k \in 1 .. Len(e), e[i].device = e[k].device
               PROVE  i = k
    BY DEF OneEach
  <2>1. i = 1 /\ k # 1 => FALSE
    BY <1>1, <1>2, <1>3
  <2>2. k = 1 /\ i # 1 => FALSE
    BY <1>1, <1>2, <1>3
  <2>3. i # 1 /\ k # 1 => i - 1 = k - 1
    BY <1>1, <1>2 DEF OneEach
  <2> QED
    BY <1>1, <2>1, <2>2, <2>3
<1>5. Rows(e) \subseteq {r} \cup Rows(q)
  BY <1>1, <1>2 DEF Rows
<1> QED
  BY <1>1, <1>4, <1>5 DEF e

Outgoing ==
    [at : {"send", "prune", "texts"}, code : BOOLEAN, todo : SUBSET Target,
     dead : SUBSET Target, picked : Channel, known : BOOLEAN, took : SUBSET Channel]
CodeAnswer == [at : {"answered"}, picked : Channel, up : SUBSET Texts,
               took : SUBSET Channel, channel : Channel]

Flying(msg) == msg.at \in {"send", "prune"}

TargetSound(t) ==
    /\ t.token <= installed[t.device] /\ t.id <= made
    /\ \A r \in DeviceRows :
          /\ r.id = t.id => r.device = t.device
          /\ r.device = t.device /\ r.id \notin rewritten => r.token <= t.token

CodeReached(msg) ==
    LET may == IF msg.picked = "sms" THEN {"sms"} ELSE {"sms"} \union (channels \ {"push"})
    IN  /\ msg.up \intersect may # {} => msg.took # {}
        /\ msg.channel \in msg.took \/ msg.took = {}

MessageSound(msg) ==
    /\ Flying(msg) => /\ \A t \in msg.todo \cup msg.dead : TargetSound(t)
                      /\ \A t \in msg.dead : t.token < installed[t.device]
    /\ msg.at = "answered" => CodeReached(msg)

DevicesSound ==
    /\ devices \in Seq(DeviceRow) /\ OneEach(devices)
    /\ \A r \in DeviceRows : r.id <= made /\ r.token <= installed[r.device]
    /\ \A r, q \in DeviceRows : r.id = q.id => r.device = q.device

MessagesInv ==
    /\ DevicesSound
    /\ installed \in [Device -> 1 .. MaxToken] /\ made \in 0 .. MaxRow
    /\ rewritten \subseteq 1 .. MaxRow /\ channels \subseteq {"push", "whatsapp"}
    /\ muted \subseteq UNION {FlagsFor(k) : k \in Kind}
    /\ push \in [Push -> Message]
    /\ \A m \in Push : MessageSound(push[m])

LEMMA MessageKinds ==
  ASSUME NEW msg \in Message
  PROVE  /\ msg.at \in {"send", "prune", "texts"} => msg \in Outgoing
         /\ msg.at = "answered" => msg \in CodeAnswer
         /\ msg.at \in {"idle", "answered", "send", "prune", "texts"}
  BY DEF Message, Outgoing, CodeAnswer, Unsent

LEMMA OutgoingMessage ==
  Outgoing \subseteq Message /\ CodeAnswer \subseteq Message /\ Unsent \in Message
  BY DEF Message, Outgoing, CodeAnswer

LEMMA RowFields ==
  ASSUME DevicesSound
  PROVE  /\ DeviceRows \subseteq DeviceRow /\ DeviceRow \subseteq Target
         /\ \A r, q \in DeviceRows : r.device = q.device => r = q
<1>1. /\ Len(devices) \in Nat /\ \A i \in 1 .. Len(devices) : devices[i] \in DeviceRow
  BY DEF DevicesSound
<1>2. DeviceRows \subseteq DeviceRow
  BY <1>1 DEF DeviceRows
<1>3. 1 .. MaxRow \subseteq 0 .. MaxRow
  BY PushAssumption
<1>4. DeviceRow \subseteq Target
  BY <1>3 DEF DeviceRow, Target
<1>5. \A r, q \in DeviceRows : r.device = q.device => r = q
  BY DEF DevicesSound, OneEach, DeviceRows
<1> QED
  BY <1>2, <1>4, <1>5

LEMMA MessagesInvInit == PushInit => MessagesInv
<1> SUFFICES ASSUME PushInit PROVE MessagesInv
  OBVIOUS
<1>1. /\ devices = <<>> /\ made = 0 /\ installed = [d \in Device |-> 1]
      /\ muted = {} /\ rewritten = {} /\ channels \in SUBSET {"push", "whatsapp"}
      /\ push = [m \in Push |-> Unsent]
  BY DEF PushInit
<1>2. DeviceRows = {} /\ \A i \in 1 .. Len(devices) : FALSE
  BY <1>1 DEF DeviceRows
<1>3. DevicesSound
  BY <1>1, <1>2 DEF DevicesSound, OneEach
<1>4. installed \in [Device -> 1 .. MaxToken] /\ made \in 0 .. MaxRow
  BY <1>1, PushAssumption
<1>5. \A m \in Push : MessageSound(push[m])
  BY <1>1 DEF MessageSound, Flying, Unsent
<1>6. push \in [Push -> Message]
  BY <1>1, OutgoingMessage
<1> QED
  BY <1>1, <1>3, <1>4, <1>5, <1>6 DEF MessagesInv

\* A message does a step: the rows stay, and what is marked as rewritten stays marked
\* while any other is in flight.
LEMMA MessageStep ==
  ASSUME MessagesInv, NEW m \in Push, NEW msg \in Message,
         push' = [push EXCEPT ![m] = msg],
         DevicesSound', DeviceRows' \subseteq DeviceRows,
         UNCHANGED <<installed, made, muted, channels>>,
         \/ rewritten' = rewritten
         \/ rewritten' = {} /\ ~ Flying(msg) /\ \A o \in Push \ {m} : ~ Flying(push[o]),
         MessageSound(msg)
  PROVE  MessagesInv'
<1>1. push \in [Push -> Message] /\ push' \in [Push -> Message]
  BY DEF MessagesInv
<1>2. push'[m] = msg /\ \A o \in Push \ {m} : push'[o] = push[o]
  BY <1>1
<1>3. \A x : MessageSound(x) /\ (rewritten' = rewritten \/ ~ Flying(x)) => MessageSound(x)'
  <2> SUFFICES ASSUME NEW x, MessageSound(x), rewritten' = rewritten \/ ~ Flying(x)
               PROVE  MessageSound(x)'
    OBVIOUS
  <2>1. CodeReached(x) => CodeReached(x)'
    BY DEF CodeReached
  <2>2. rewritten' = rewritten => \A t : TargetSound(t) => TargetSound(t)'
    BY DEF TargetSound
  <2>3. CASE ~ Flying(x)
    BY <2>1, <2>3 DEF MessageSound, Flying
  <2>4. CASE Flying(x)
    <3>1. x.at # "answered"
      BY <2>4 DEF Flying
    <3>2. \A t \in x.todo \cup x.dead : TargetSound(t)'
      BY <2>2, <2>4 DEF MessageSound
    <3>3. \A t \in x.dead : t.token < installed'[t.device]
      BY <2>4 DEF MessageSound
    <3> QED
      BY <3>1, <3>2, <3>3 DEF MessageSound
  <2> QED
    BY <2>3, <2>4
<1>4. \A o \in Push : MessageSound(push'[o]) /\ (rewritten' = rewritten \/ ~ Flying(push'[o]))
  BY <1>2 DEF MessagesInv
<1>5. \A o \in Push : MessageSound(push[o])'
  <2> SUFFICES ASSUME NEW o \in Push PROVE MessageSound(push[o])'
    OBVIOUS
  <2>1. PICK x : x = push'[o]
    OBVIOUS
  <2>2. MessageSound(x)'
    BY <1>3, <1>4, <2>1
  <2> QED
    BY <2>1, <2>2 DEF MessageSound, Flying, CodeReached
<1>6. rewritten' \subseteq 1 .. MaxRow
  BY DEF MessagesInv
<1> QED
  BY <1>1, <1>5, <1>6 DEF MessagesInv

\* The app's steps: messages stay as they are.
LEMMA AppStep ==
  ASSUME MessagesInv, UNCHANGED <<push, channels>>,
         DevicesSound', installed' \in [Device -> 1 .. MaxToken], made' \in 0 .. MaxRow,
         rewritten' \subseteq 1 .. MaxRow, muted' \subseteq UNION {FlagsFor(k) : k \in Kind},
         \A d \in Device : installed[d] <= installed'[d],
         \A m \in Push : Flying(push[m]) =>
            \A t \in push[m].todo \cup push[m].dead : TargetSound(t) => TargetSound(t)'
  PROVE  MessagesInv'
<1>1. ASSUME NEW m \in Push PROVE MessageSound(push[m])'
  <2>1. MessageSound(push[m]) /\ push[m] \in Message
    BY DEF MessagesInv
  <2>2. Flying(push[m])' = Flying(push[m]) /\ (CodeReached(push[m]) => CodeReached(push[m])')
    BY DEF Flying, CodeReached
  <2>3. ASSUME Flying(push[m])
        PROVE  /\ \A t \in push'[m].todo \cup push'[m].dead : TargetSound(t)'
               /\ \A t \in push'[m].dead : t.token < installed'[t.device]
    <3>1. \A t \in push[m].todo \cup push[m].dead : TargetSound(t)
      BY <2>1, <2>3 DEF MessageSound
    <3>2. push[m] \in Outgoing
      BY <2>1, <2>3, MessageKinds DEF Flying
    <3>3. ASSUME NEW t \in push[m].dead PROVE t.token < installed'[t.device]
      <4>1. t \in Target
        BY <3>2 DEF Outgoing
      <4>2. t.token \in Int /\ t.device \in Device
        BY <4>1 DEF Target
      <4>3. t.token < installed[t.device] /\ installed[t.device] <= installed'[t.device]
        BY <2>1, <2>3, <4>2 DEF MessageSound
      <4>4. installed[t.device] \in Int /\ installed'[t.device] \in Int
        BY <4>2 DEF MessagesInv
      <4> QED
        BY <4>2, <4>3, <4>4
    <3> QED
      BY <2>3, <3>1, <3>3
  <2> QED
    BY <2>1, <2>2, <2>3 DEF MessageSound
<1> QED
  BY <1>1 DEF MessagesInv

LEMMA RegisterKeeps ==
  ASSUME MessagesInv, NEW d \in Device, RegisterDevice(d) PROVE MessagesInv'
<1> DEFINE own == {r \in DeviceRows : r.device = d}
           id == IF own = {} THEN made + 1 ELSE (CHOOSE r \in own : TRUE).id
           row == [device |-> d, token |-> installed[d], id |-> id]
           rest == Without(own)
<1>0. /\ DevicesSound /\ installed \in [Device -> 1 .. MaxToken] /\ made \in 0 .. MaxRow
      /\ rewritten \subseteq 1 .. MaxRow /\ MaxRow \in Nat /\ MaxToken \in Nat
  BY PushAssumption DEF MessagesInv
<1>1. /\ id <= MaxRow /\ devices' = <<row>> \o rest
      /\ made' = IF own = {} THEN id ELSE made
      /\ rewritten' = IF InFlight THEN rewritten \union {id} ELSE rewritten
      /\ UNCHANGED <<installed, muted, push, channels>>
  BY DEF RegisterDevice
<1>2. /\ DeviceRows \subseteq DeviceRow
      /\ \A r \in DeviceRows : /\ r.id \in 1 .. MaxRow /\ r.id <= made
                               /\ r.token \in 1 .. MaxToken /\ r.device \in Device
  BY <1>0, RowFields DEF DevicesSound, DeviceRow
<1>3. own # {} => \E r \in DeviceRows : r.device = d /\ id = r.id
  OBVIOUS
<1>4. own = {} => id = made + 1 /\ \A r \in DeviceRows : r.device # d
  OBVIOUS
<1> HIDE DEF id
<1>5. id \in 1 .. MaxRow /\ id <= made' /\ made <= made' /\ made' \in 0 .. MaxRow
  <2>1. CASE own = {}
    BY <1>0, <1>1, <1>4, <2>1
  <2>2. CASE own # {}
    BY <1>0, <1>1, <1>2, <1>3, <2>2
  <2> QED
    BY <2>1, <2>2
<1>6. row \in DeviceRow
  BY <1>0, <1>5 DEF DeviceRow
<1>7. /\ rest \in Seq(DeviceRow) /\ OneEach(rest) /\ Rows(rest) \subseteq DeviceRows \ own
  BY <1>0, WithoutRows DEF DevicesSound
<1>8. \A p \in Rows(rest) : p \in DeviceRows /\ p.device # row.device
  BY <1>7
<1>9. /\ devices' \in Seq(DeviceRow) /\ OneEach(devices')
      /\ DeviceRows' \subseteq {row} \cup Rows(rest)
  <2>1. /\ <<row>> \o rest \in Seq(DeviceRow) /\ OneEach(<<row>> \o rest)
        /\ Rows(<<row>> \o rest) \subseteq {row} \cup Rows(rest)
    BY <1>6, <1>7, <1>8, PrependRow
  <2>2. DeviceRows' = Rows(devices')
    BY DEF DeviceRows, Rows
  <2> QED
    BY <1>1, <2>1, <2>2
<1>10. \A r \in DeviceRows' : r = row \/ (r \in DeviceRows /\ r.device # d)
  BY <1>8, <1>9
<1>11. row.device = d /\ row.token = installed[d] /\ row.id = id
  OBVIOUS
<1> HIDE DEF row, rest
\* The id of a row is new, or was of the row of that device.
<1>12. /\ \A r \in DeviceRows : r.device # d => r.id # id
       /\ \A r \in DeviceRows : r.id = id => r.device = d
  <2>1. CASE own = {}
    BY <1>0, <1>2, <1>4, <2>1
  <2>2. CASE own # {}
    BY <1>0, <1>3, <2>2 DEF DevicesSound
  <2> QED
    BY <2>1, <2>2
<1>13. DevicesSound'
  <2>1. \A r \in DeviceRows' : r.id <= made' /\ r.token <= installed'[r.device]
    <3>1. \A r \in DeviceRows : r.id <= made' /\ r.token <= installed'[r.device]
      BY <1>0, <1>1, <1>2, <1>5 DEF DevicesSound
    <3>2. row.id <= made' /\ row.token <= installed'[row.device]
      BY <1>0, <1>1, <1>5, <1>11
    <3> QED
      BY <1>10, <3>1, <3>2
  <2>2. \A r, q \in DeviceRows' : r.id = q.id => r.device = q.device
    BY <1>0, <1>10, <1>11, <1>12 DEF DevicesSound
  <2>3. OneEach(devices)'
    BY <1>9 DEF OneEach
  <2> QED
    BY <1>9, <2>1, <2>2, <2>3 DEF DevicesSound
<1>14. ASSUME NEW m \in Push, Flying(push[m]), NEW t \in push[m].todo \cup push[m].dead,
              TargetSound(t)
       PROVE  TargetSound(t)'
  <2>1. rewritten' = rewritten \union {id}
    BY <1>1, <1>14 DEF InFlight, Flying
  <2>2. t \in Target
    BY <1>14, MessageKinds DEF MessagesInv, Outgoing, Flying
  <2>3. t.token <= installed'[t.device] /\ t.id <= made' /\ t.id \in Int
    BY <1>0, <1>1, <1>5, <1>14, <2>2 DEF TargetSound, Target
  <2>4. ASSUME NEW r \in DeviceRows'
        PROVE  /\ r.id = t.id => r.device = t.device
               /\ r.device = t.device /\ r.id \notin rewritten' => r.token <= t.token
    <3>1. CASE r = row
      <4>1. r.id \in rewritten'
        BY <1>11, <2>1, <3>1
      <4>2. ASSUME id = t.id PROVE t.device = d
        <5>1. own # {}
          BY <1>0, <1>4, <1>14, <2>3, <4>2 DEF TargetSound
        <5> QED
          BY <1>3, <1>14, <4>2, <5>1 DEF TargetSound
      <4> QED
        BY <1>11, <3>1, <4>1, <4>2
    <3>2. CASE r \in DeviceRows
      BY <1>14, <2>1, <3>2 DEF TargetSound
    <3> QED
      BY <1>10, <3>1, <3>2
  <2> QED
    BY <2>3, <2>4 DEF TargetSound
<1>15. rewritten' \subseteq 1 .. MaxRow
  BY <1>0, <1>1, <1>5
<1>16. \A e \in Device : installed[e] <= installed'[e]
  BY <1>0, <1>1
<1>17. muted' \subseteq UNION {FlagsFor(k) : k \in Kind}
  BY <1>1 DEF MessagesInv
<1> QED
  BY <1>0, <1>1, <1>5, <1>13, <1>14, <1>15, <1>16, <1>17, AppStep

\* Rows are removed.
LEMMA RemovedRows ==
  ASSUME MessagesInv, NEW R, devices' = Without(R), UNCHANGED <<installed, made>>
  PROVE  DevicesSound' /\ DeviceRows' \subseteq DeviceRows
<1>1. /\ Without(R) \in Seq(DeviceRow) /\ OneEach(Without(R))
      /\ Rows(Without(R)) \subseteq DeviceRows
  BY WithoutRows DEF MessagesInv, DevicesSound
<1>2. DeviceRows' \subseteq DeviceRows
  BY <1>1 DEF DeviceRows, Rows
<1>3. OneEach(devices)' /\ devices' \in Seq(DeviceRow)
  BY <1>1 DEF OneEach
<1> QED
  BY <1>2, <1>3 DEF MessagesInv, DevicesSound

LEMMA UnregisterKeeps ==
  ASSUME MessagesInv, NEW d \in Device, UnregisterDevice(d) PROVE MessagesInv'
<1>1. DevicesSound' /\ DeviceRows' \subseteq DeviceRows
  BY RemovedRows DEF UnregisterDevice
<1>2. \A t : TargetSound(t) => TargetSound(t)'
  BY <1>1 DEF UnregisterDevice, TargetSound
<1>3. \A e \in Device : installed[e] <= installed'[e]
  BY PushAssumption DEF MessagesInv, UnregisterDevice
<1> QED
  BY <1>1, <1>2, <1>3, AppStep DEF UnregisterDevice, MessagesInv

LEMMA NewTokenKeeps ==
  ASSUME MessagesInv, NEW d \in Device, NewToken(d) PROVE MessagesInv'
<1>1. /\ installed \in [Device -> 1 .. MaxToken] /\ installed[d] < MaxToken
      /\ installed' = [installed EXCEPT ![d] = @ + 1]
      /\ UNCHANGED <<devices, made, muted, push, rewritten, channels>>
      /\ MaxToken \in Nat /\ DevicesSound
  BY PushAssumption DEF NewToken, MessagesInv
<1>2. installed' \in [Device -> 1 .. MaxToken] /\ \A e \in Device : installed[e] <= installed'[e]
  BY <1>1
<1>3. \A e \in Device : installed[e] \in Int /\ installed'[e] \in Int
  BY <1>1, <1>2
<1>4. DeviceRows' = DeviceRows /\ DeviceRows \subseteq DeviceRow
  BY <1>1, RowFields DEF DeviceRows
<1>5. \A r \in DeviceRows : r.token \in Int /\ r.device \in Device
  BY <1>4 DEF DeviceRow
<1>6. DevicesSound'
  BY <1>1, <1>2, <1>3, <1>4, <1>5 DEF DevicesSound, OneEach
<1>7. \A t \in Target : TargetSound(t) => TargetSound(t)'
  <2>1. \A t \in Target : t.token \in Int /\ t.device \in Device
    BY DEF Target
  <2> QED
    BY <1>1, <1>2, <1>3, <1>4, <2>1 DEF TargetSound
<1>8. \A m \in Push : Flying(push[m]) => push[m].todo \cup push[m].dead \subseteq Target
  BY MessageKinds DEF MessagesInv, Flying, Outgoing
<1> QED
  BY <1>1, <1>2, <1>6, <1>7, <1>8, AppStep DEF MessagesInv

LEMMA SetPreferenceKeeps ==
  ASSUME MessagesInv, NEW f \in UNION {FlagsFor(k) : k \in Kind}, SetPreference(f)
  PROVE  MessagesInv'
<1>1. muted' \subseteq UNION {FlagsFor(k) : k \in Kind}
  BY DEF SetPreference, MessagesInv
<1>2. /\ UNCHANGED <<devices, installed, made, push, rewritten, channels>>
      /\ DeviceRows' = DeviceRows
  BY DEF SetPreference, DeviceRows
<1>3. DevicesSound' /\ \A t : TargetSound(t) => TargetSound(t)'
  BY <1>2 DEF MessagesInv, DevicesSound, OneEach, TargetSound
<1>4. \A e \in Device : installed[e] <= installed'[e]
  BY PushAssumption DEF MessagesInv, SetPreference
<1> QED
  BY <1>1, <1>2, <1>3, <1>4, AppStep DEF SetPreference, MessagesInv

\* A message to rows that are there, or to a hint of the app, begins sound.
LEMMA StartKeeps ==
  ASSUME MessagesInv, NEW m \in Push, NEW code \in BOOLEAN, NEW todo \in SUBSET Target,
         NEW picked \in Channel, NEW known \in BOOLEAN,
         \A t \in todo : \/ t \in DeviceRows
                         \/ t.id = 0 /\ t.token = installed[t.device],
         StartPush(m, NewMessage(code, todo, picked, known)),
         UNCHANGED <<devices, installed, made, muted, rewritten, channels>>
  PROVE  MessagesInv'
<1> DEFINE msg == NewMessage(code, todo, picked, known)
<1>1. /\ msg \in Outgoing /\ msg.at = "send" /\ msg.todo = todo /\ msg.dead = {}
      /\ push' = [push EXCEPT ![m] = msg]
  BY DEF NewMessage, Outgoing, StartPush
<1> HIDE DEF msg
<1>2. ASSUME NEW t \in todo PROVE TargetSound(t)
  <2>1. /\ DeviceRows \subseteq DeviceRow
        /\ \A r, q \in DeviceRows : r.device = q.device => r = q
        /\ \A r \in DeviceRows : r.id \in 1 .. MaxRow /\ r.token \in 1 .. MaxToken
    BY RowFields DEF MessagesInv, DeviceRow
  <2>2. t.device \in Device /\ t.token \in 1 .. MaxToken
    BY DEF Target
  <2>3. CASE t \in DeviceRows
    <3>1. t.token <= installed[t.device] /\ t.id <= made
      BY <2>3 DEF MessagesInv, DevicesSound
    <3>2. \A r \in DeviceRows : r.id = t.id => r.device = t.device
      BY <2>3 DEF MessagesInv, DevicesSound
    <3>3. \A r \in DeviceRows : r.device = t.device => r.token <= t.token
      BY <2>1, <2>3, PushAssumption
    <3> QED
      BY <3>1, <3>2, <3>3 DEF TargetSound
  <2>4. CASE t.id = 0 /\ t.token = installed[t.device]
    <3>1. t.token <= installed[t.device] /\ t.id <= made
      BY <2>2, <2>4, PushAssumption DEF MessagesInv
    <3>2. \A r \in DeviceRows : r.id # t.id
      BY <2>1, <2>4, PushAssumption
    <3>3. \A r \in DeviceRows : r.device = t.device => r.token <= t.token
      BY <2>4 DEF MessagesInv, DevicesSound
    <3> QED
      BY <3>1, <3>2, <3>3 DEF TargetSound
  <2> QED
    BY <2>3, <2>4
<1>3. MessageSound(msg)
  BY <1>1, <1>2 DEF MessageSound, Flying
<1>4. DevicesSound' /\ DeviceRows' = DeviceRows
  BY DEF MessagesInv, DevicesSound, OneEach, DeviceRows
<1>5. msg \in Message
  BY <1>1, OutgoingMessage
<1> QED
  BY <1>1, <1>3, <1>4, <1>5, MessageStep

LEMMA NotifyKeeps ==
  ASSUME MessagesInv, NEW m \in Push, NEW k \in Kind, NotifyWorker(m, k) PROVE MessagesInv'
<1>1. DeviceRows \in SUBSET Target
  BY RowFields DEF MessagesInv
<1>2. "push" \in Channel /\ FALSE \in BOOLEAN /\ TRUE \in BOOLEAN
  BY DEF Channel
<1> QED
  BY <1>1, <1>2, StartKeeps DEF NotifyWorker

LEMMA SendCodeKeeps ==
  ASSUME MessagesInv, NEW m \in Push, NEW pref \in {"auto", "push", "whatsapp", "sms"},
         NEW known \in BOOLEAN, NEW hinted \in BOOLEAN, SendCode(m, pref, known, hinted)
  PROVE  MessagesInv'
<1>1. PICK d \in Device :
        LET hint == IF hinted THEN {[device |-> d, token |-> installed[d], id |-> 0]} ELSE {}
            pick == PickChannel(pref, known, hint) IN
        /\ pick.channel # "refused"
        /\ StartPush(m, NewMessage(TRUE, pick.to, pick.channel, known))
        /\ UNCHANGED <<devices, installed, made, muted, rewritten, channels>>
  BY DEF SendCode
<1> DEFINE given == [device |-> d, token |-> installed[d], id |-> 0]
           hint == IF hinted THEN {given} ELSE {}
           pick == PickChannel(pref, known, hint)
<1>2. given \in Target /\ given.id = 0 /\ given.token = installed[given.device]
  BY PushAssumption DEF MessagesInv, Target
<1>3. devices # <<>> => Head(devices) \in DeviceRows
  <2>1. devices \in Seq(DeviceRow)
    BY DEF MessagesInv, DevicesSound
  <2>2. devices # <<>> => 1 \in 1 .. Len(devices) /\ Head(devices) = devices[1]
    BY <2>1
  <2> QED
    BY <2>2 DEF DeviceRows
<1> HIDE DEF given
<1>4. /\ pick.channel \in Channel \cup {"refused"}
      /\ \A t \in pick.to : t = given \/ t \in DeviceRows
  <2>1. CASE pref \in {"whatsapp", "sms"}
    BY <2>1 DEF PickChannel, Channel, Texts
  <2>2. CASE pref \in {"auto", "push"} /\ hint # {} /\ "push" \in channels
    BY <2>2 DEF PickChannel, Channel, Texts
  <2>3. CASE pref \in {"auto", "push"} /\ ~ (hint # {} /\ "push" \in channels)
    BY <1>3, <2>3 DEF PickChannel, Channel, Texts
  <2> QED
    BY <2>1, <2>2, <2>3
<1>5. /\ pick.channel # "refused"
      /\ StartPush(m, NewMessage(TRUE, pick.to, pick.channel, known))
      /\ UNCHANGED <<devices, installed, made, muted, rewritten, channels>>
  BY <1>1 DEF given
<1> HIDE DEF pick
<1>6. pick.to \in SUBSET Target /\ pick.channel \in Channel
  BY <1>2, <1>4, <1>5, RowFields DEF MessagesInv
<1> QED
  BY <1>2, <1>4, <1>5, <1>6, StartKeeps

LEMMA AttemptKeeps ==
  ASSUME MessagesInv, NEW m \in Push, NEW t \in push[m].todo, NEW answer \in FcmAnswers(t),
         Attempt(m, t, answer)
  PROVE  MessagesInv'
<1> DEFINE old == push[m]
           msg == [old EXCEPT
                    !.todo = @ \ {t},
                    !.dead = IF answer = "unregistered" THEN @ \union {t} ELSE @,
                    !.took = IF answer = "ok" THEN @ \union {"push"} ELSE @]
<1>1. /\ old.at = "send" /\ push \in [Push -> Message]
      /\ UNCHANGED <<devices, installed, made, muted, rewritten, channels>>
  BY DEF Attempt, MessagesInv
<1>2. old \in Outgoing /\ MessageSound(old)
  BY <1>1, MessageKinds DEF MessagesInv
<1>3. push' = [push EXCEPT ![m] = msg]
  BY <1>1, <1>2 DEF Attempt, Outgoing
<1>4. /\ msg \in Outgoing /\ msg.at = "send" /\ msg.todo \subseteq old.todo
      /\ msg.dead = IF answer = "unregistered" THEN old.dead \union {t} ELSE old.dead
  BY <1>1, <1>2 DEF Outgoing, Channel
<1> HIDE DEF msg
<1>5. answer = "unregistered" => t.token < installed[t.device]
  <2>1. t \in Target /\ TargetSound(t)
    BY <1>1, <1>2 DEF Outgoing, MessageSound, Flying
  <2>2. answer = "unregistered" => t.token # installed[t.device]
    BY DEF FcmAnswers
  <2>3. t.token \in Int /\ installed[t.device] \in Int /\ t.token <= installed[t.device]
    BY <2>1, PushAssumption DEF Target, TargetSound, MessagesInv
  <2> QED
    BY <2>2, <2>3
<1>6. MessageSound(msg)
  BY <1>1, <1>2, <1>4, <1>5 DEF MessageSound, Flying
<1>7. DevicesSound' /\ DeviceRows' = DeviceRows
  BY <1>1 DEF MessagesInv, DevicesSound, OneEach, DeviceRows
<1>8. msg \in Message
  BY <1>4, OutgoingMessage
<1> QED
  BY <1>1, <1>3, <1>6, <1>7, <1>8, MessageStep

\* A push that is done: what was rewritten is forgotten with the last in flight.
LEMMA DoneKeeps ==
  ASSUME MessagesInv, NEW m \in Push, push[m].at \in {"send", "prune"}, PushDone(m),
         DevicesSound', DeviceRows' \subseteq DeviceRows,
         UNCHANGED <<installed, made, muted, channels>>
  PROVE  MessagesInv'
<1> DEFINE old == push[m]
           msg == IF old.code THEN [old EXCEPT !.at = "texts", !.dead = {}] ELSE Unsent
<1>1. old \in Outgoing /\ push \in [Push -> Message]
  BY MessageKinds DEF MessagesInv
<1>2. push' = [push EXCEPT ![m] = msg]
  BY <1>1 DEF PushDone, Outgoing
<1>3. msg \in Message /\ msg.at \in {"texts", "idle"}
  BY <1>1, OutgoingMessage DEF Outgoing, Unsent
<1> HIDE DEF msg
<1>4. MessageSound(msg) /\ ~ Flying(msg)
  BY <1>3 DEF MessageSound, Flying
<1>5. \/ rewritten' = rewritten
      \/ rewritten' = {} /\ \A o \in Push \ {m} : ~ Flying(push[o])
  BY DEF PushDone, Flying
<1> QED
  BY <1>2, <1>3, <1>4, <1>5, MessageStep

LEMMA SentKeeps == ASSUME MessagesInv, NEW m \in Push, Sent(m) PROVE MessagesInv'
<1>1. /\ push[m].at = "send" /\ push \in [Push -> Message]
      /\ UNCHANGED <<devices, installed, made, muted, channels>>
  BY DEF Sent, MessagesInv
<1>2. DevicesSound' /\ DeviceRows' = DeviceRows
  BY <1>1 DEF MessagesInv, DevicesSound, OneEach, DeviceRows
<1>3. CASE PushDone(m)
  BY <1>1, <1>2, <1>3, DoneKeeps
<1>4. CASE push' = [push EXCEPT ![m].at = "prune"] /\ UNCHANGED rewritten
  <2> DEFINE msg == [push[m] EXCEPT !.at = "prune"]
  <2>1. push[m] \in Outgoing /\ MessageSound(push[m])
    BY <1>1, MessageKinds DEF MessagesInv
  <2>2. /\ push' = [push EXCEPT ![m] = msg] /\ msg \in Outgoing
        /\ msg.at = "prune" /\ msg.todo = push[m].todo /\ msg.dead = push[m].dead
    BY <1>1, <1>4, <2>1 DEF Outgoing
  <2> HIDE DEF msg
  <2>3. MessageSound(msg) /\ msg \in Message
    BY <1>1, <2>1, <2>2, OutgoingMessage DEF MessageSound, Flying
  <2> QED
    BY <1>1, <1>2, <1>4, <2>2, <2>3, MessageStep
<1> QED
  BY <1>3, <1>4 DEF Sent

LEMMA PruneKeeps == ASSUME MessagesInv, NEW m \in Push, Prune(m) PROVE MessagesInv'
<1>1. DevicesSound' /\ DeviceRows' \subseteq DeviceRows
  BY RemovedRows DEF Prune
<1> QED
  BY <1>1, DoneKeeps DEF Prune

LEMMA AnsweredKeeps ==
  ASSUME MessagesInv, NEW m \in Push, NEW up \in SUBSET Texts, Answered(m, up)
  PROVE  MessagesInv'
<1> DEFINE old == push[m]
           taken == TextsTaken(old.picked, up)
           took == old.took \union taken
           msg == [at |-> "answered", picked |-> old.picked, up |-> up, took |-> took,
                   channel |-> Reported(took)]
<1>1. /\ old.at = "texts" /\ push \in [Push -> Message]
      /\ UNCHANGED <<devices, installed, made, muted, rewritten, channels>>
  BY DEF Answered, MessagesInv
<1>2. old \in Outgoing /\ channels \subseteq {"push", "whatsapp"}
  BY <1>1, MessageKinds DEF MessagesInv
<1>3. push' = [push EXCEPT ![m] = msg]
  BY <1>1 DEF Answered
<1>4. taken \subseteq Texts
  BY DEF TextsTaken, Texts
<1>5. /\ took \subseteq Channel
      /\ Reported(took) \in Channel
      /\ took # {} => Reported(took) \in took
  <2>1. took \subseteq Channel
    BY <1>2, <1>4 DEF Outgoing, Channel
  <2> HIDE DEF took
  <2>2. CASE took = {}
    BY <2>2 DEF Reported, Channel, Texts
  <2>3. CASE took # {}
    BY <2>1, <2>3 DEF Reported
  <2> QED
    BY <2>1, <2>2, <2>3
<1>6. up \intersect (IF old.picked = "sms" THEN {"sms"}
                     ELSE {"sms"} \union (channels \ {"push"})) # {} => took # {}
  <2> SUFFICES ASSUME NEW c \in up, c = "sms" \/ (c = "whatsapp" /\ old.picked # "sms"
                                                  /\ "whatsapp" \in channels)
               PROVE  taken # {}
    BY <1>2
  <2> QED
    BY DEF TextsTaken
<1> HIDE DEF taken, took
<1>7. msg \in CodeAnswer
  BY <1>2, <1>5 DEF CodeAnswer, Outgoing
<1>8. /\ msg.at = "answered" /\ msg.picked = old.picked /\ msg.up = up
      /\ msg.took = took /\ msg.channel = Reported(took)
  OBVIOUS
<1> HIDE DEF msg
<1>9. MessageSound(msg) /\ msg \in Message
  BY <1>5, <1>6, <1>7, <1>8, OutgoingMessage DEF MessageSound, Flying, CodeReached
<1>10. DevicesSound' /\ DeviceRows' = DeviceRows
  BY <1>1 DEF MessagesInv, DevicesSound, OneEach, DeviceRows
<1> QED
  BY <1>1, <1>3, <1>9, <1>10, MessageStep

LEMMA MessagesInvStep == MessagesInv /\ [PushNext]_pushVars => MessagesInv'
<1> SUFFICES ASSUME MessagesInv, [PushNext]_pushVars PROVE MessagesInv'
  OBVIOUS
<1>1. CASE UNCHANGED pushVars
  <2>1. /\ UNCHANGED <<devices, installed, made, muted, push, rewritten, channels>>
        /\ DeviceRows' = DeviceRows
    BY <1>1 DEF pushVars, DeviceRows
  <2>2. DevicesSound' /\ \A t : TargetSound(t) => TargetSound(t)'
    BY <2>1 DEF MessagesInv, DevicesSound, OneEach, TargetSound
  <2>3. \A d \in Device : installed[d] <= installed'[d]
    BY <2>1, PushAssumption DEF MessagesInv
  <2> QED
    BY <2>1, <2>2, <2>3, AppStep DEF MessagesInv
<1>2. ASSUME NEW d \in Device, App(d) PROVE MessagesInv'
  BY <1>2, RegisterKeeps, UnregisterKeeps, NewTokenKeeps DEF App
<1> QED
  BY <1>1, <1>2, SetPreferenceKeeps, NotifyKeeps, SendCodeKeeps, AttemptKeeps, SentKeeps,
     PruneKeeps, AnsweredKeeps DEF PushNext

LEMMA MessagesInvKeeps ==
  MessagesInv => /\ PushTypeOK /\ CodeReaches
                 /\ \A m \in Push : push[m].at = "prune" =>
                      \A r \in Pruned(m) : r.token # installed[r.device] \/ r.id \in rewritten
<1> SUFFICES ASSUME MessagesInv
             PROVE  /\ PushTypeOK /\ CodeReaches
                    /\ \A m \in Push : push[m].at = "prune" =>
                         \A r \in Pruned(m) :
                            r.token # installed[r.device] \/ r.id \in rewritten
  OBVIOUS
<1>1. PushTypeOK
  BY RowFields DEF MessagesInv, DevicesSound, OneEach, PushTypeOK
<1>2. CodeReaches
  BY DEF MessagesInv, MessageSound, CodeReached, CodeReaches
<1>3. ASSUME NEW m \in Push, push[m].at = "prune", NEW r \in Pruned(m),
             r.id \notin rewritten
      PROVE  r.token # installed[r.device]
  <2>1. push[m] \in Outgoing /\ MessageSound(push[m]) /\ Flying(push[m])
    BY <1>3, MessageKinds DEF MessagesInv, Flying
  <2>2. PICK t \in push[m].dead : IF push[m].code THEN r.device = t.device ELSE r.id = t.id
    BY <1>3 DEF Pruned
  <2>3. r \in DeviceRows /\ TargetSound(t) /\ t.token < installed[t.device]
    BY <1>3, <2>1 DEF Pruned, MessageSound
  <2>4. r.device = t.device /\ r.token <= t.token
    BY <1>3, <2>2, <2>3 DEF TargetSound
  <2>5. t \in Target /\ r \in DeviceRow
    BY <2>1, <2>3, RowFields DEF Outgoing, MessagesInv
  <2>6. t.token \in Int /\ r.token \in Int /\ installed[t.device] \in Int
    BY <2>5, PushAssumption DEF Target, DeviceRow, MessagesInv
  <2> QED
    BY <2>3, <2>4, <2>6
<1> QED
  BY <1>1, <1>2, <1>3

(* A code that goes by push also goes by text and a text has another to fall back on,
   so it reaches the worker if any channel it may take is up
   (otp-channel.service.ts:146): for any number of devices and messages. *)
THEOREM CodesArrive == PushSpec => []CodeReaches
<1>1. MessagesInv => CodeReaches
  BY MessagesInvKeeps
<1> QED
  BY <1>1, MessagesInvInit, MessagesInvStep, PTL DEF PushSpec

(* A message removes the row of a device only when its token is dead or was written
   while a message was in flight (push-notification.service.ts:234 and 310): for any
   number of devices, tokens, rows and messages that cross. *)
THEOREM DeadRowsGo == PushSpec => PrunedWasDead
<1>1. MessagesInv => [\A m \in Push : push[m].at = "prune" /\ push'[m].at # "prune" =>
         \A r \in Pruned(m) : r.token # installed[r.device] \/ r.id \in rewritten]_pushVars
  BY MessagesInvKeeps
<1> QED
  BY <1>1, MessagesInvInit, MessagesInvStep, PTL DEF PushSpec, PrunedWasDead
================================================================================
