SPECIFICATION Spec

CONSTANTS
    UzumTxns    = {}
    ClickTxns   = {c1, c2}
    Orders      = {}
    NoTxn       = NoTxn
    Profiles    <- MCBus
    Methods     = {"cash", "click"}
    Asked       = {"uzum"}
    MaxPayments = 1
    MaxRefunds  = 1
    MaxInflight = 1

CHECK_DEADLOCK FALSE

INVARIANTS
    TypeOK
    CreditedAtMostOnce

PROPERTIES
    NeverReopened
