SPECIFICATION Spec
CONSTANTS
    Worker = {w1}
    Txn = {t1, t2}
    Amount = {1, 2}
    Balance = 3
    Poller = {p1, p2}
    MaxPerTick = 1
    Transport = FALSE
    Stub = FALSE
    Nobody = Nobody
    NoReply = NoReply

SYMMETRY Symmetric
CHECK_DEADLOCK FALSE
INVARIANTS
    TypeOK
    RefundedOnceIfFailed
    WalletBooks
    NeverPaidAndRefunded
    
    
PROPERTIES
    OutcomeFinal
    ImplementsPayout
