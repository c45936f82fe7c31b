SPECIFICATION Spec

CONSTANTS
    c1 = c1
    c2 = c2
    Customers  <- MCCustomers
    SamePerson <- MCSamePerson
    MaxNight = 2
    MaxRooms = 2
    MaxStays = 3
    EditedNights = {1, 2}

SYMMETRY Symmetry

PROPERTIES
    NoNewOversell
