SPECIFICATION OnlineSpec

CONSTANTS
    UzumTxns    = {}
    ClickTxns   = {}
    Orders      = {o1}
    NoTxn       = NoTxn
    Profiles    <- MCBus
    Methods     = {"uzum_checkout"}
    Asked       = {"uzum_checkout"}
    MaxPayments = 2
    MaxRefunds  = 1
    MaxInflight = 1

CHECK_DEADLOCK FALSE

INVARIANTS
    PaidOrderIsNotFailed
