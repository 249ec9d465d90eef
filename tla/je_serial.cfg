SPECIFICATION Spec
CONSTANTS
    Agent = {a1}
    Worker = {w1, w2}
    Job = {j1, j2}
    Pay = {1, 2}
    Slots = {1}
    Funds = 3
    Debt = 1
    Percent = 50
    Ops = {"create", "update", "publish", "cancel", "accept", "accept_slot", "reject", "apply", "withdraw", "clock_in", "clock_out", "confirm", "dispute", "auto_release", "timeout", "pause"}
    OffFeed = FALSE
    MixedUse = FALSE
    Idle = Idle
    Nobody = Nobody

SYMMETRY Symmetric
INVARIANTS
    TypeOK
    FundsConserved
    
    
    JobTracksWork
PROPERTIES
    ApplicationFinal
    
    ImplementsEscrow
CHECK_DEADLOCK FALSE
