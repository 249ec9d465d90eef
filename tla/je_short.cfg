SPECIFICATION Spec
CONSTANTS
    Agent = {a1}
    Worker = {w1, w2}
    Job = {j1}
    Pay = {1}
    Slots = {2}
    Funds = 2
    Debt = 0
    Percent = 0
    Ops = {"create", "update", "publish", "cancel", "accept", "accept_slot", "reject", "apply", "withdraw", "clock_in", "clock_out", "confirm", "dispute", "auto_release", "timeout", "pause"}
    OffFeed = FALSE
    MixedUse = FALSE
    Idle = Idle
    Nobody = Nobody

CHECK_DEADLOCK FALSE
INVARIANTS
    NeverShort
