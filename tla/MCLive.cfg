SPECIFICATION FairSaleSpec

CONSTANTS
    UzumTxns    = {u1}
    ClickTxns   = {c1}
    Orders      = {o1}
    NoTxn       = NoTxn
    Profiles    <- MCBus
    Methods     = {"click", "uzum_checkout"}
    Asked       = {"uzum_checkout"}
    MaxPayments = 2
    MaxRefunds  = 1
    MaxInflight = 1

CHECK_DEADLOCK FALSE

PROPERTIES
    OpenIsResolved
    PartnerIsNotAwaited
    UzumIsClosed
