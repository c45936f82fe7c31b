SPECIFICATION Spec

CONSTANTS
    Decisions = {"approved", "rejected"}
    MaxHotels = 2
    MaxEdits = 2

INVARIANTS
    TypeOK
    ChangesAreReviewed
    SuspendedStayHidden
