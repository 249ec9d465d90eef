SPECIFICATION Spec
CONSTANTS
    Agent = {a1, a2}
    Worker = {w1, w2}
    Job = {j1}
    Pay = {1}
    Slots = {2}
    Funds = 2
    Debt = 0
    Percent = 0
    Ops = {"create", "apply", "accept_slot", "clock_in", "clock_out", "confirm", "auto_release"}
    OffFeed = FALSE
    MixedUse = FALSE
    Idle = Idle
    Nobody = Nobody

CHECK_DEADLOCK FALSE
INVARIANTS
    PaidOnce
