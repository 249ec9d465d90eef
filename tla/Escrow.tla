------------------------------- MODULE Escrow -------------------------------
(***************************************************************************)
(* What an employer is promised about the pay of a job of one worker,      *)
(* whatever the worker, the reviews, the disputes, the pauses and the      *)
(* crons do: it leaves the wallet once, when the job is published and the  *)
(* wallet has it; it is then held for the job; and it leaves the job at    *)
(* most once, and whole, to one worker or back to the wallet.              *)
(***************************************************************************)
EXTENDS Integers

CONSTANTS Job,      \* jobs of the employer
          Worker,   \* workers
          Funds     \* what the wallet has at the start

VARIABLES phase,    \* phase[j]: "none", "held" or "over"
          held,     \* held[j]: what job j holds
          funds,    \* the wallet of the employer
          earned    \* earned[w]: what worker w was paid, its loan included

vars == <<phase, held, funds, earned>>

Init ==
    /\ phase = [j \in Job |-> "none"]
    /\ held = [j \in Job |-> 0]
    /\ funds = Funds
    /\ earned = [w \in Worker |-> 0]

\* A job is published: its pay leaves the wallet.
Hold(j) ==
    \E pay \in 1..funds :
        /\ phase[j] = "none"
        /\ phase' = [phase EXCEPT ![j] = "held"]
        /\ held' = [held EXCEPT ![j] = pay]
        /\ funds' = funds - pay
        /\ UNCHANGED earned

Ends(j) ==
    /\ phase[j] = "held"
    /\ phase' = [phase EXCEPT ![j] = "over"]
    /\ held' = [held EXCEPT ![j] = 0]

\* The work is paid with all that the job holds.
Release(j) ==
    /\ Ends(j)
    /\ \E w \in Worker : earned' = [earned EXCEPT ![w] = @ + held[j]]
    /\ UNCHANGED funds

\* The job is cancelled: all that it holds goes back.
Return(j) ==
    /\ Ends(j)
    /\ funds' = funds + held[j]
    /\ UNCHANGED earned

\* A job that was never published is given up.
Drop(j) ==
    /\ phase[j] = "none"
    /\ phase' = [phase EXCEPT ![j] = "over"]
    /\ UNCHANGED <<held, funds, earned>>

Next == \E j \in Job : Hold(j) \/ Release(j) \/ Return(j) \/ Drop(j)

Spec == Init /\ [][Next]_vars
=============================================================================
