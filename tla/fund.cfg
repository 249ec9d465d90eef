SPECIFICATION Spec
CONSTANTS
    Call = {c1, c2}
    None = None
    TopUp = {t1, t2}
    Deposit = {d1}
    Modes = {"production", "sandbox", "stub"}
    Referenced = TRUE
    NoReply = NoReply
SYMMETRY Symmetric
CONSTRAINT Apart
CHECK_DEADLOCK FALSE
INVARIANTS
    TypeOK
    CreditedOnce
    OneAnswer
    
