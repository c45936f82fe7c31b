SPECIFICATION Spec

CONSTANTS
    s1 = s1
    s2 = s2
    Seats <- MCSeats
    Modes = {"request"}
    MaxSales = 2
    MaxLimit = 1
    MaxCodes = 1
    MaxRequests = 2

SYMMETRY Symmetry

INVARIANTS
    TypeOK
    SeatsAreHeld
    CancelledTripIsEmpty
    UsesWithinLimit
    SeatsComeBack
