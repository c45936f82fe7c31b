SPECIFICATION OnlineSpec

CONSTANTS
    UzumTxns    = {}
    ClickTxns   = {c1}
    Orders      = {}
    NoTxn       = NoTxn
    Profiles    <- MCBus
    Methods     = {"click"}
    Asked       = {"uzum"}
    MaxPayments = 2
    MaxRefunds  = 1
    MaxInflight = 1

CHECK_DEADLOCK FALSE

PROPERTIES
    OnlyDraftsDeleted
