SPECIFICATION OnlineSpec

CONSTANTS
    UzumTxns    = {u1}
    ClickTxns   = {c1}
    Orders      = {}
    NoTxn       = NoTxn
    Profiles    <- MCAny
    Methods     = {"click"}
    Asked       = {"click"}
    MaxPayments = 3
    MaxRefunds  = 2
    MaxInflight = 1

CHECK_DEADLOCK FALSE

INVARIANTS
    SoldIsBacked
    PaidIsRefundable
    DebitMatchesRefund
