SPECIFICATION OnlineSpec

CONSTANTS
    UzumTxns    = {u1}
    ClickTxns   = {}
    Orders      = {o1}
    NoTxn       = NoTxn
    Profiles    <- MCBus
    Methods     = {"uzum_checkout"}
    Asked       = {"uzum_checkout"}
    MaxPayments = 2
    MaxRefunds  = 1
    MaxInflight = 2

CHECK_DEADLOCK FALSE

INVARIANTS
    OpenIsUnpaid
    RefundIsRemembered
PROPERTIES
    OutcomeIsFinal
    ImplementsSale
