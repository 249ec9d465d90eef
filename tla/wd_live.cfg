SPECIFICATION LiveSpec
CONSTANTS
    Worker = {w1}
    Txn = {t1, t2}
    Amount = {1}
    Balance = 2
    Poller = {p1}
    MaxPerTick = 2
    Transport = TRUE
    Stub = FALSE
    Nobody = Nobody
    NoReply = NoReply

CHECK_DEADLOCK FALSE
PROPERTIES
    Backstop
