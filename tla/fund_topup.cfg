SPECIFICATION Spec
CONSTANTS
    Call = {c1}
    None = None
    TopUp = {t1}
    Deposit = {d1}
    Modes = {"production"}
    Referenced = TRUE
    NoReply = NoReply
CHECK_DEADLOCK FALSE
INVARIANTS
    CompletedIsCredited
