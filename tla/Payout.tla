------------------------------- MODULE Payout -------------------------------
(***************************************************************************)
(* What a withdrawal promises, whatever the provider, the webhooks, the    *)
(* cron and the crashes do: the amount leaves the worker's funds when the  *)
(* claim is made, and the claim then ends at most once, either settled for *)
(* good or returned with exactly the amount that was taken.                *)
(***************************************************************************)
EXTENDS Integers

CONSTANTS Worker,   \* owners of wallets
          Txn,      \* identities of claims
          Amount,   \* amounts a claim can be made for
          Nobody    \* the owner of a claim that has not been made

VARIABLES phase,    \* phase[t]: "none", "held", "settled" or "returned"
          owner,    \* owner[t]: the worker whose funds claim t holds
          amount,   \* amount[t]: the amount claim t holds
          funds     \* funds[w]: what worker w can spend

vars == <<phase, owner, amount, funds>>

\* Every claim is unmade; the funds are whatever the instance starts with.
Init ==
    /\ phase = [t \in Txn |-> "none"]
    /\ owner = [t \in Txn |-> Nobody]
    /\ amount = [t \in Txn |-> 0]
    /\ funds \in [Worker -> Int]

\* A claim is made: its amount leaves the owner's funds.
Hold(t) ==
    \E w \in Worker, a \in Amount :
        /\ phase[t] = "none"
        /\ phase' = [phase EXCEPT ![t] = "held"]
        /\ owner' = [owner EXCEPT ![t] = w]
        /\ amount' = [amount EXCEPT ![t] = a]
        /\ funds' = [funds EXCEPT ![w] = @ - a]

\* A held claim is paid out; nothing returns to the owner.
Settle(t) ==
    /\ phase[t] = "held"
    /\ phase' = [phase EXCEPT ![t] = "settled"]
    /\ UNCHANGED <<owner, amount, funds>>

\* A held claim fails: the owner gets back the amount that was taken.
Return(t) ==
    /\ phase[t] = "held"
    /\ phase' = [phase EXCEPT ![t] = "returned"]
    /\ funds' = [funds EXCEPT ![owner[t]] = @ + amount[t]]
    /\ UNCHANGED <<owner, amount>>

Next == \E t \in Txn : Hold(t) \/ Settle(t) \/ Return(t)

Spec == Init /\ [][Next]_vars
=============================================================================
