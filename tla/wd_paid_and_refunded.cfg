SPECIFICATION Spec
CONSTANTS
    Worker = {w1}
    Txn = {t1}
    Amount = {1}
    Balance = 2
    Poller = {p1}
    MaxPerTick = 1
    Transport = TRUE
    Stub = FALSE
    Nobody = Nobody
    NoReply = NoReply

CHECK_DEADLOCK FALSE
INVARIANTS
    NeverPaidAndRefunded
