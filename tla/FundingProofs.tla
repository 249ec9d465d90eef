---------------------------- MODULE FundingProofs ----------------------------
(***************************************************************************)
(* Theorems about the idempotency service and about funding, for any       *)
(* number of calls, top-ups and deposits.                                  *)
(***************************************************************************)
EXTENDS Funding, CommonProofs

(***************************************************************************)
(* The idempotency service.                                                *)
(***************************************************************************)

\* While the answer is kept no call is about to delete the record, a call that
\* lost the race finds one, and every answer given is the one recorded.
KeptInv ==
    kept =>
        /\ record # None => record.fresh
        /\ \A c \in Call :
            /\ stage[c] # "stale"
            /\ stage[c] = "lost" => record # None
            /\ answer[c] # None => record # None /\ answer[c] = record.by

IdemInv == IdemTypeOK /\ KeptInv

LEMMA IdemStart == IdemInit => IdemInv
  BY DEF IdemInit, IdemInv, IdemTypeOK, KeptInv, Stage

\* Every step of the service keeps the invariant.
LEMMA IdemStep == IdemInv /\ [IdemNext]_idemVars => IdemInv'
<1> SUFFICES ASSUME IdemInv, [IdemNext]_idemVars PROVE IdemInv'
  OBVIOUS
<1> USE DEF IdemInv
<1>1. CASE UNCHANGED idemVars
  BY <1>1 DEF IdemTypeOK, KeptInv, idemVars
<1>2. ASSUME Expire, UNCHANGED reworded PROVE IdemInv'
  BY <1>2 DEF Expire, IdemTypeOK, KeptInv, Record
<1>3. ASSUME NEW c \in Call, LookUp(c), UNCHANGED reworded PROVE IdemInv'
  <2>1. CASE UNCHANGED <<record, answer, kept>>
    <3>1. PICK s \in {"working", "stale", "conflict", "done"} :
            /\ stage' = [stage EXCEPT ![c] = s]
            /\ s = "stale" => record # None /\ ~record.fresh
      BY <1>3, <2>1 DEF LookUp, GoTo, Answer
    <3>2. stage' \in [Call -> Stage] BY <3>1 DEF IdemTypeOK, Stage
    <3>3. IdemTypeOK' BY <1>3, <2>1, <3>2 DEF IdemTypeOK
    <3>4. KeptInv' BY <2>1, <3>1 DEF IdemTypeOK, KeptInv
    <3>5. QED BY <3>3, <3>4
  <2>2. CASE record # None /\ Answer(c, record.by) /\ UNCHANGED <<record, kept>>
    <3>1. IdemTypeOK' BY <1>3, <2>2 DEF IdemTypeOK, Answer, Stage, Record
    <3>2. KeptInv' BY <2>2 DEF IdemTypeOK, KeptInv, Answer
    <3>3. QED BY <3>1, <3>2
  <2>3. QED BY <1>3, <2>1, <2>2 DEF LookUp, GoTo
<1>4. ASSUME NEW c \in Call, DropRecord(c), UNCHANGED reworded PROVE IdemInv'
  <2>1. ~kept BY <1>4 DEF DropRecord, KeptInv
  <2>2. ~kept' BY <1>4, <2>1 DEF DropRecord
  <2>3. IdemTypeOK' BY <1>4 DEF DropRecord, IdemTypeOK, Stage
  <2>4. QED BY <2>2, <2>3 DEF KeptInv
<1>5. ASSUME NEW c \in Call, Store(c), UNCHANGED reworded PROVE IdemInv'
  <2>1. CASE record = None
    <3>1. /\ record' = [by |-> c, fresh |-> TRUE]
          /\ Answer(c, c)
          /\ UNCHANGED kept
      BY <1>5, <2>1 DEF Store
    <3>2. IdemTypeOK' BY <1>5, <3>1 DEF IdemTypeOK, Answer, Stage, Record
    <3>3. kept => \A d \in Call : answer[d] = None /\ stage[d] \notin {"stale", "lost"}
      BY <2>1 DEF KeptInv
    <3>4. KeptInv'
      <4>1. SUFFICES ASSUME kept' PROVE KeptInv' BY DEF KeptInv
      <4>2. \A d \in Call : answer[d] = None /\ stage[d] \notin {"stale", "lost"}
        BY <3>1, <3>3, <4>1
      <4>3. record' # None
        <5>1. record' = [by |-> c, fresh |-> TRUE] BY <3>1
        <5>2. [by |-> c, fresh |-> TRUE] \in [by : Call, fresh : BOOLEAN] OBVIOUS
        <5>3. QED BY <5>1, <5>2, NoneAssumption
      <4>4. QED BY <3>1, <4>2, <4>3 DEF KeptInv, Answer, IdemTypeOK
    <3>5. QED BY <3>2, <3>4
  <2>2. CASE record # None
    <3>1. GoTo(c, "lost") BY <1>5, <2>2 DEF Store
    <3>2. IdemTypeOK' BY <1>5, <3>1 DEF IdemTypeOK, GoTo, Stage
    <3>3. KeptInv' BY <2>2, <3>1 DEF IdemTypeOK, KeptInv, GoTo
    <3>4. QED BY <3>2, <3>3
  <2>3. QED BY <2>1, <2>2
<1>6. ASSUME NEW c \in Call, StoreFails(c), UNCHANGED reworded PROVE IdemInv'
  BY <1>6 DEF StoreFails, IdemTypeOK, KeptInv, Stage
<1>7. ASSUME NEW c \in Call, Reread(c), UNCHANGED reworded PROVE IdemInv'
  <2>1. IdemTypeOK' BY <1>7 DEF Reread, Answer, IdemTypeOK, Stage, Record
  <2>2. KeptInv' BY <1>7 DEF Reread, Answer, IdemTypeOK, KeptInv
  <2>3. QED BY <2>1, <2>2
<1>8. ASSUME NEW c \in Call, Compute(c) \/ Break(c), UNCHANGED reworded PROVE IdemInv'
  <2>1. PICK s \in {"computed", "gone"} : GoTo(c, s) BY <1>8 DEF Compute, Break
  <2>2. IdemTypeOK' BY <1>8, <2>1 DEF GoTo, IdemTypeOK, Stage
  <2>3. KeptInv' BY <2>1 DEF GoTo, IdemTypeOK, KeptInv
  <2>4. QED BY <2>2, <2>3
<1>9. QED
  BY <1>1, <1>2, <1>3, <1>4, <1>5, <1>6, <1>7, <1>8 DEF IdemNext, Idem, Protocol

\* The calls of one key get one answer as long as it is kept.
THEOREM IdemOneAnswer == IdemSpec => []OneAnswer
<1>1. IdemInv => OneAnswer BY DEF IdemInv, KeptInv, OneAnswer
<1>2. QED BY IdemStart, IdemStep, <1>1, PTL DEF IdemSpec
-----------------------------------------------------------------------------
(***************************************************************************)
(* Manual transfers use the service as it is: every step of funding is one *)
(* of the service's, or leaves it alone.                                   *)
(***************************************************************************)
THEOREM FundingUsesIdempotency == Spec => IdemSpec
<1>1. Init => IdemInit BY DEF Init
<1>2. [Next]_vars => [IdemNext]_idemVars
  <2> SUFFICES ASSUME [Next]_vars PROVE [IdemNext]_idemVars
    OBVIOUS
  <2>1. CASE UNCHANGED vars BY <2>1 DEF vars
  <2>2. CASE IssueNuban \/ SaveNuban BY <2>2 DEF IssueNuban, SaveNuban
  <2>3. CASE KeyExpires BY <2>3 DEF KeyExpires, IdemNext
  <2>4. ASSUME NEW t \in TopUp,
               Anchor(t) \/ Checkout(t) \/ RefuseTopUp(t) \/ StubCredit(t)
                 \/ Simulate(t) \/ CrashTopUp(t)
        PROVE UNCHANGED idemVars
    BY <2>4 DEF Anchor, Checkout, RefuseTopUp, StubCredit, Simulate, CrashTopUp
  <2>5. ASSUME NEW d \in Deposit, PayIn(d) PROVE UNCHANGED idemVars
    BY <2>5 DEF PayIn
  <2>6. ASSUME NEW s \in Source, FundingEvent(s) PROVE UNCHANGED idemVars
    BY <2>6 DEF FundingEvent
  <2>7. ASSUME NEW t \in Txn, SquadMoves(t) \/ TransferEvent(t) \/ Poll(t) \/ ApplyPoll(t)
        PROVE UNCHANGED idemVars
    BY <2>7 DEF SquadMoves, TransferEvent, Poll, ApplyPoll
  <2>8. ASSUME NEW c \in Call, SendTransfer(c) PROVE UNCHANGED idemVars
    BY <2>8 DEF SendTransfer
  <2>9. ASSUME NEW c \in Call, WriteRow(c) PROVE IdemNext
    BY <2>9 DEF WriteRow, IdemNext, Idem
  <2>10. ASSUME NEW c \in Call, Keyed(c) PROVE IdemNext
    BY <2>10 DEF Keyed, IdemNext, Idem
  <2>11. QED
    BY <2>1, <2>2, <2>3, <2>4, <2>5, <2>6, <2>7, <2>8, <2>9, <2>10 DEF Next
<1>3. QED BY <1>1, <1>2, PTL DEF Spec, IdemSpec

\* Calls of one key for a manual transfer get one answer.
THEOREM FundingOneAnswer == Spec => []OneAnswer
  BY FundingUsesIdempotency, IdemOneAnswer, PTL
-----------------------------------------------------------------------------
(***************************************************************************)
(* Types.                                                                  *)
(***************************************************************************)

\* A settlement keeps the type of the rows and leaves terminal ones alone.
LEMMA SettleRow ==
  ASSUME TypeOK, NEW t \in Txn, NEW status \in SettledStatuses, Settle(t, status)
  PROVE  /\ row' \in [Txn -> RowStatus]
         /\ \A u \in Txn : row[u] \in Terminal => row'[u] = row[u]
  BY DEF TypeOK, Settle, SettledStatuses, RowStatus, NonTerminal, Terminal

LEMMA TypeStart == Init => TypeOK
  BY DEF Init, TypeOK, IdemInit, IdemTypeOK, Stage, RowStatus, Truth

\* Every step keeps the types, given that the service keeps its own.
LEMMA TypeStep == TypeOK /\ IdemTypeOK' /\ [Next]_vars => TypeOK'
<1> SUFFICES ASSUME TypeOK, IdemTypeOK', [Next]_vars PROVE TypeOK'
  OBVIOUS
<1> USE DEF TypeOK, rowVars, walletVars
<1>1. CASE UNCHANGED vars
  BY <1>1 DEF vars
<1>2. CASE IssueNuban \/ SaveNuban
  BY <1>2 DEF IssueNuban, SaveNuban
<1>3. CASE KeyExpires
  BY <1>3 DEF KeyExpires
<1>4. ASSUME NEW t \in TopUp, Anchor(t) PROVE TypeOK'
  BY <1>4 DEF Anchor, RowStatus, NonTerminal, Txn
<1>5. ASSUME NEW t \in TopUp, Checkout(t) PROVE TypeOK'
  BY <1>5 DEF Checkout, EndTopUp, Truth, Txn
<1>6. ASSUME NEW t \in TopUp, RefuseTopUp(t) PROVE TypeOK'
  BY <1>6 DEF RefuseTopUp, EndTopUp, RowStatus, Terminal, Txn
<1>7. ASSUME NEW t \in TopUp, StubCredit(t) PROVE TypeOK'
  BY <1>7 DEF StubCredit, EndTopUp, Credit, RowStatus, Terminal, Txn, Source
<1>8. ASSUME NEW t \in TopUp, Simulate(t) PROVE TypeOK'
  <2>1. arrived' \subseteq Source BY <1>8 DEF Simulate, Source
  <2>2. row' \in [Txn -> RowStatus] BY <1>8 DEF Simulate, RowStatus, Terminal, Txn
  <2>3. QED BY <1>8, <2>1, <2>2 DEF Simulate, EndTopUp
<1>9. ASSUME NEW t \in TopUp, CrashTopUp(t) PROVE TypeOK'
  BY <1>9 DEF CrashTopUp
<1>10. ASSUME NEW d \in Deposit, PayIn(d) PROVE TypeOK'
  BY <1>10 DEF PayIn, Source
<1>11. ASSUME NEW s \in Source, FundingEvent(s) PROVE TypeOK'
  BY <1>11 DEF FundingEvent, Credit
<1>12. ASSUME NEW t \in Txn, SquadMoves(t) PROVE TypeOK'
  BY <1>12 DEF SquadMoves, Truth
<1>13. ASSUME NEW t \in Txn, TransferEvent(t) PROVE TypeOK'
  <2>1. PICK e \in events[t] : Settle(t, EventOf(e).dbStatus)
    BY <1>13 DEF TransferEvent
  <2>2. row' \in [Txn -> RowStatus] BY <2>1, EventOfType, SettleRow
  <2>3. QED BY <1>13, <2>2 DEF TransferEvent
<1>14. ASSUME NEW t \in Txn, Poll(t) PROVE TypeOK'
  BY <1>14 DEF Poll, Truth
<1>15. ASSUME NEW t \in Txn, ApplyPoll(t) PROVE TypeOK'
  <2>1. row' \in [Txn -> RowStatus] BY <1>15, VerifyOfType, SettleRow DEF ApplyPoll
  <2>2. QED BY <1>15, <2>1 DEF ApplyPoll
<1>16. ASSUME NEW c \in Call, SendTransfer(c) PROVE TypeOK'
  BY <1>16 DEF SendTransfer, Truth, Txn
<1>17. ASSUME NEW c \in Call, WriteRow(c) PROVE TypeOK'
  BY <1>17 DEF WriteRow, RowStatus, NonTerminal, Terminal, Txn
<1>18. ASSUME NEW c \in Call, Keyed(c) PROVE TypeOK'
  BY <1>18 DEF Keyed
<1>19. QED
  BY <1>1, <1>2, <1>3, <1>4, <1>5, <1>6, <1>7, <1>8, <1>9, <1>10, <1>11, <1>12,
     <1>13, <1>14, <1>15, <1>16, <1>17, <1>18 DEF Next

\* Every variable keeps its type.
THEOREM FundingTypeCorrect == Spec => []TypeOK
<1>1. IdemInv => IdemTypeOK BY DEF IdemInv
<1>2. Spec => []IdemTypeOK
  BY <1>1, FundingUsesIdempotency, IdemStart, IdemStep, PTL DEF IdemSpec
<1>3. QED BY <1>2, TypeStart, TypeStep, PTL DEF Spec
-----------------------------------------------------------------------------
(***************************************************************************)
(* The wallet.  Each payment is credited by the one event that books it,   *)
(* or, with the stub provider and no events, by the handler of its top-up, *)
(* in the step that completes the row.                                     *)
(***************************************************************************)
CreditInv ==
    /\ mode = "stub" => arrived = {}
    /\ booked \subseteq arrived
    /\ \A s \in Source :
        IF s \in booked THEN credits[s] = 1
        ELSE \/ credits[s] = 0
             \/ /\ credits[s] = 1
                /\ mode = "stub"
                /\ s \in TopUp /\ pc[s] = "done" /\ row[s] = "completed"

\* Money is credited only with a new booking, and by the stub top-up.
CreditsAlone == UNCHANGED <<mode, arrived, booked, credits>>

\* The steps that credit nothing keep the invariant if they leave the top-ups
\* that are completed as they are.
LEMMA CreditKept ==
  ASSUME CreditInv, CreditsAlone,
         \A t \in TopUp : pc[t] = "done" => pc'[t] = "done"
                          /\ (row[t] = "completed" => row'[t] = "completed")
  PROVE  CreditInv'
  BY DEF CreditInv, CreditsAlone

LEMMA CreditStep ==
  ASSUME Referenced, TypeOK, CreditInv, [Next]_vars PROVE CreditInv'
<1> USE DEF TypeOK, rowVars, walletVars
<1>1. CASE UNCHANGED vars
  BY <1>1, CreditKept DEF vars, CreditsAlone
<1>2. CASE IssueNuban \/ SaveNuban \/ KeyExpires
  BY <1>2, CreditKept DEF IssueNuban, SaveNuban, KeyExpires, CreditsAlone
<1>3. ASSUME NEW t \in TopUp, Anchor(t) PROVE CreditInv'
  BY <1>3, CreditKept DEF Anchor, CreditsAlone, Txn
<1>4. ASSUME NEW t \in TopUp, Checkout(t) \/ RefuseTopUp(t) \/ CrashTopUp(t)
      PROVE CreditInv'
  BY <1>4, CreditKept DEF Checkout, RefuseTopUp, CrashTopUp, EndTopUp, CreditsAlone, Txn
<1>5. ASSUME NEW t \in TopUp, StubCredit(t) PROVE CreditInv'
  <2>1. /\ mode = "stub" /\ pc[t] = "anchored"
        /\ row' = [row EXCEPT ![t] = "completed"]
        /\ credits' = [credits EXCEPT ![t] = @ + 1]
        /\ pc' = [pc EXCEPT ![t] = "done"]
        /\ UNCHANGED <<mode, arrived, booked>>
    BY <1>5 DEF StubCredit, Credit, EndTopUp
  <2>2. t \notin booked /\ t \in Source /\ t \in Txn
    BY <2>1 DEF CreditInv, Source, Txn
  <2>3. credits[t] = 0 BY <2>1, <2>2 DEF CreditInv
  <2>4. QED BY <2>1, <2>2, <2>3 DEF CreditInv, Txn
<1>6. ASSUME NEW t \in TopUp, Simulate(t) PROVE CreditInv'
  BY <1>6 DEF Simulate, EndTopUp, CreditInv
<1>7. ASSUME NEW d \in Deposit, PayIn(d) PROVE CreditInv'
  BY <1>7 DEF PayIn, CreditInv
<1>8. ASSUME NEW s \in Source, FundingEvent(s) PROVE CreditInv'
  <2>1. /\ s \in arrived /\ s \notin booked
        /\ booked' = booked \union {s}
        /\ credits' = [credits EXCEPT ![s] = @ + 1]
        /\ UNCHANGED <<mode, arrived, pc, row>>
    BY <1>8 DEF FundingEvent, Credit
  <2>2. mode # "stub" BY <2>1 DEF CreditInv
  <2>3. credits[s] = 0 BY <2>1, <2>2 DEF CreditInv
  <2>4. QED BY <2>1, <2>2, <2>3 DEF CreditInv
<1>9. ASSUME NEW t \in Txn, SquadMoves(t) \/ Poll(t) PROVE CreditInv'
  BY <1>9, CreditKept DEF SquadMoves, Poll, CreditsAlone
<1>10. ASSUME NEW t \in Txn, TransferEvent(t) PROVE CreditInv'
  <2>1. PICK e \in events[t] : Settle(t, EventOf(e).dbStatus)
    BY <1>10 DEF TransferEvent
  <2>2. \A u \in Txn : row[u] = "completed" => row'[u] = "completed"
    BY <2>1, EventOfType, SettleRow DEF Terminal
  <2>3. QED BY <1>10, <2>2, CreditKept DEF TransferEvent, CreditsAlone, Txn
<1>11. ASSUME NEW t \in Txn, ApplyPoll(t) PROVE CreditInv'
  <2>1. \A u \in Txn : row[u] = "completed" => row'[u] = "completed"
    BY <1>11, VerifyOfType, SettleRow DEF ApplyPoll, Terminal
  <2>2. QED BY <1>11, <2>1, CreditKept DEF ApplyPoll, CreditsAlone, Txn
<1>12. ASSUME NEW c \in Call, SendTransfer(c) \/ Keyed(c) PROVE CreditInv'
  BY <1>12, CreditKept DEF SendTransfer, Keyed, CreditsAlone
<1>13. ASSUME NEW c \in Call, WriteRow(c) PROVE CreditInv'
  BY <1>13, CreditKept, RowsAssumption DEF WriteRow, CreditsAlone, Txn
<1>14. QED
  BY <1>1, <1>2, <1>3, <1>4, <1>5, <1>6, <1>7, <1>8, <1>9, <1>10, <1>11, <1>12,
     <1>13 DEF Next

\* Every payment is credited at most once, and never without a row, provided
\* funding events carry their reference.
THEOREM PaymentsCreditedOnce ==
  ASSUME Referenced PROVE Spec => []CreditedOnce
<1>1. Init => CreditInv BY DEF Init, CreditInv
<1>2. CreditInv /\ TypeOK /\ [Next]_vars => CreditInv' BY CreditStep
<1>3. CreditInv => CreditedOnce BY DEF CreditInv, CreditedOnce
<1>4. QED BY <1>1, <1>2, <1>3, FundingTypeCorrect, PTL DEF Spec
-----------------------------------------------------------------------------
(***************************************************************************)
(* Manual transfers.  Squad's state of a transfer is set by the call that  *)
(* sends it, once; what was heard of it as "paid" stays true, because a    *)
(* paid transfer can only be reversed.                                     *)
(***************************************************************************)
WasPaid(c) == truth[c] \in {"paid", "reversed"}

HeardInv ==
    mode # "stub" =>
        \A c \in Call :
            /\ sent[c] = "none" => truth[c] = "unknown"
            /\ "paid" \in events[c] => WasPaid(c)
            /\ reply[c] = "paid" => WasPaid(c)
            /\ row[c] = "completed" => WasPaid(c)

LEMMA HeardStep == TypeOK /\ HeardInv /\ [Next]_vars => HeardInv'
<1> SUFFICES ASSUME TypeOK, HeardInv, [Next]_vars, mode # "stub" PROVE HeardInv'
  BY DEF HeardInv, Next, vars, rowVars, walletVars, IssueNuban, SaveNuban, KeyExpires,
     Anchor, Checkout, RefuseTopUp, StubCredit, Simulate, CrashTopUp, PayIn,
     FundingEvent, SquadMoves, TransferEvent, Poll, ApplyPoll, SendTransfer,
     WriteRow, Keyed
<1> USE DEF TypeOK, rowVars, walletVars
<1>1. CASE UNCHANGED vars
  BY <1>1 DEF vars, HeardInv, WasPaid
<1>2. CASE IssueNuban \/ SaveNuban \/ KeyExpires
  BY <1>2 DEF IssueNuban, SaveNuban, KeyExpires, HeardInv, WasPaid
<1>3. ASSUME NEW t \in TopUp,
             Anchor(t) \/ Checkout(t) \/ RefuseTopUp(t) \/ StubCredit(t)
               \/ Simulate(t) \/ CrashTopUp(t)
      PROVE HeardInv'
  <2>1. t \notin Call BY RowsAssumption
  <2>2. \A c \in Call : row'[c] = row[c] /\ truth'[c] = truth[c]
    BY <1>3, <2>1
       DEF Anchor, Checkout, RefuseTopUp, StubCredit, Simulate, CrashTopUp, Txn
  <2>3. UNCHANGED <<mode, sent, events, reply>>
    BY <1>3 DEF Anchor, Checkout, RefuseTopUp, StubCredit, Simulate, CrashTopUp
  <2>4. QED BY <2>2, <2>3 DEF HeardInv, WasPaid
<1>4. ASSUME NEW d \in Deposit, PayIn(d) PROVE HeardInv'
  BY <1>4 DEF PayIn, HeardInv, WasPaid
<1>5. ASSUME NEW s \in Source, FundingEvent(s) PROVE HeardInv'
  BY <1>5 DEF FundingEvent, HeardInv, WasPaid
<1>6. ASSUME NEW t \in Txn, SquadMoves(t) PROVE HeardInv'
  <2>1. PICK s \in {"paid", "failed", "reversed"} :
          /\ truth[t] = IF s = "reversed" THEN "paid" ELSE "accepted"
          /\ truth' = [truth EXCEPT ![t] = s]
          /\ events' = [events EXCEPT ![t] = @ \union {s}]
    BY <1>6 DEF SquadMoves
  <2>2. UNCHANGED <<mode, sent, row, reply>> BY <1>6 DEF SquadMoves
  <2>3. ASSUME NEW c \in Call
        PROVE  /\ sent[c] = "none" => truth'[c] = "unknown"
               /\ WasPaid(c) => WasPaid(c)'
               /\ "paid" \in events'[c] => "paid" \in events[c] \/ WasPaid(c)'
    BY <2>1 DEF HeardInv, WasPaid, Txn
  <2>4. QED BY <2>2, <2>3 DEF HeardInv
<1>7. ASSUME NEW t \in Txn, TransferEvent(t) PROVE HeardInv'
  <2>1. PICK e \in events[t] : Settle(t, EventOf(e).dbStatus)
    BY <1>7 DEF TransferEvent
  <2>2. e \in Truth BY <2>1
  <2>3. ASSUME NEW c \in Call, row'[c] = "completed", row[c] # "completed"
        PROVE "paid" \in events[c]
    BY <2>1, <2>2, <2>3, EventOfMeaning DEF Settle, Txn
  <2>4. QED BY <1>7, <2>3 DEF TransferEvent, HeardInv, WasPaid
<1>8. ASSUME NEW t \in Txn, Poll(t) PROVE HeardInv'
  BY <1>8 DEF Poll, HeardInv, WasPaid
<1>9. ASSUME NEW t \in Txn, ApplyPoll(t) PROVE HeardInv'
  <2>1. reply[t] \in Truth BY <1>9 DEF ApplyPoll
  <2>2. ASSUME NEW c \in Call, row'[c] = "completed", row[c] # "completed"
        PROVE reply[c] = "paid"
    BY <1>9, <2>1, <2>2, VerifyOfMeaning DEF ApplyPoll, Settle, Txn
  <2>3. ASSUME NEW c \in Call, reply'[c] = "paid" PROVE reply[c] = "paid"
    BY <1>9, <2>3, NoReplyAssumption DEF ApplyPoll, Txn, Truth
  <2>4. QED BY <1>9, <2>2, <2>3 DEF ApplyPoll, HeardInv, WasPaid
<1>10. ASSUME NEW c \in Call, SendTransfer(c) PROVE HeardInv'
  BY <1>10 DEF SendTransfer, HeardInv, WasPaid, Txn
<1>11. ASSUME NEW c \in Call, WriteRow(c) PROVE HeardInv'
  BY <1>11 DEF WriteRow, HeardInv, WasPaid, Txn
<1>12. ASSUME NEW c \in Call, Keyed(c) PROVE HeardInv'
  BY <1>12 DEF Keyed, HeardInv, WasPaid
<1>13. QED
  BY <1>1, <1>2, <1>3, <1>4, <1>5, <1>6, <1>7, <1>8, <1>9, <1>10, <1>11, <1>12 DEF Next

\* A manual transfer shown as completed was paid by Squad.
THEOREM TransfersTrulyPaid == Spec => []CompletedIsPaid
<1>1. Init => HeardInv BY NoReplyAssumption DEF Init, HeardInv, Txn, Truth
<1>2. HeardInv => CompletedIsPaid BY DEF HeardInv, CompletedIsPaid, WasPaid
<1>3. QED BY <1>1, <1>2, HeardStep, FundingTypeCorrect, PTL DEF Spec
=============================================================================
