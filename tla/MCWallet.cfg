SPECIFICATION Spec

CONSTANTS
    c1 = c1
    c2 = c2
    Calls = {c1, c2}
    MaxRequests = 3
    MaxEarned = 4
    MaxDebited = 2

SYMMETRY Symmetry

INVARIANTS
    TypeOK
    MoneyOutIsEarned

PROPERTIES
    PromisesAreCovered
    ImplementsAccount
