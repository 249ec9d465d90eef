------------------------------ MODULE MCFunding ------------------------------
(***************************************************************************)
(* Instances of Funding for TLC.                                           *)
(***************************************************************************)
EXTENDS Funding, TLC

Symmetric == Permutations(Call) \union Permutations(TopUp)

\* Incoming money and manual transfers share the table and the cron, but no row:
\* a behaviour is followed until both have begun.
Apart ==
    \/ \A t \in TopUp : pc[t] = "idle" /\ arrived = {}
    \/ \A c \in Call : stage[c] = "idle"
=============================================================================
