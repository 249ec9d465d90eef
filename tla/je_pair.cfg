SPECIFICATION Spec
CONSTANTS
    Agent = {a1, a2}
    Worker = {w1, w2}
    Job = {j1}
    Pay = {1}
    Slots = {1}
    Funds = 1
    Debt = 0
    Percent = 0
    Ops = {"create", "cancel", "apply", "accept", "clock_in", "clock_out", "confirm", "dispute", "timeout", "pause"}
    OffFeed = FALSE
    MixedUse = FALSE
    Idle = Idle
    Nobody = Nobody

CHECK_DEADLOCK FALSE
SYMMETRY Symmetric
INVARIANTS
    PaidOnce
PROPERTIES
    DisputeBlocksPay
