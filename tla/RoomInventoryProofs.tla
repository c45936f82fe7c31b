------------------------ MODULE RoomInventoryProofs -------------------------
(***************************************************************************)
(* Theorems about RoomInventory, for any number of customers, nights,      *)
(* rooms and bookings, and for any way of taking one customer for another. *)
(***************************************************************************)
EXTENDS RoomInventory, FiniteSetTheorems, TLAPS

USE DEF Nights, Rooms, BookingIds, Ends

-----------------------------------------------------------------------------
(* Counting rooms *)

\* The rooms of a booking, and those of a set of bookings, can be counted.
UnitsOf(S) == {u \in S \X Rooms : u[2] <= stays[u[1]].rooms}

LEMMA UnitsAreFinite ==
    ASSUME NEW S \in SUBSET BookingIds
    PROVE  IsFiniteSet(UnitsOf(S))
<1>1. IsFiniteSet(BookingIds) /\ IsFiniteSet(Rooms)
    BY FS_Interval, RoomInventoryAssumption
<1>2. IsFiniteSet(BookingIds \X Rooms)
    BY <1>1, FS_Product
<1>3. UnitsOf(S) \in SUBSET (BookingIds \X Rooms)
    BY DEF UnitsOf
<1> QED
    BY <1>2, <1>3, FS_Subset

LEMMA RoomsOfType ==
    ASSUME NEW S \in SUBSET BookingIds
    PROVE  RoomsOf(S) \in Nat
    BY UnitsAreFinite, FS_CardinalityType DEF RoomsOf, UnitsOf

\* A set of bookings has no fewer rooms than a part of it.
LEMMA RoomsOfSubset ==
    ASSUME NEW S \in SUBSET BookingIds, NEW T \in SUBSET S
    PROVE  RoomsOf(T) <= RoomsOf(S)
<1>1. UnitsOf(T) \in SUBSET UnitsOf(S)
    BY DEF UnitsOf
<1>2. Cardinality(UnitsOf(T)) <= Cardinality(UnitsOf(S))
    BY <1>1, UnitsAreFinite, FS_Subset
<1> QED
    BY <1>2 DEF RoomsOf, UnitsOf

-----------------------------------------------------------------------------
(* Types *)

LEMMA InitTypeOK == Init => TypeOK
    BY RoomInventoryAssumption DEF Init, TypeOK

LEMMA InsertTypeOK ==
    ASSUME TypeOK, NEW c \in Customers, NEW first \in Nights, NEW last \in Ends,
           NEW rooms \in Rooms, NEW status \in {"open", "sold"},
           Insert(c, first, last, rooms, status)
    PROVE  TypeOK'
<1>1. stays' \in [BookingIds -> Stay \union {NoStay}]
    BY DEF Insert, TypeOK, Stay
<1>2. nextStay' \in 1..(MaxStays + 1)
    BY RoomInventoryAssumption DEF Insert, TypeOK
<1> QED
    BY <1>1, <1>2 DEF Insert, TypeOK

LEMMA BecomesTypeOK ==
    ASSUME TypeOK, NEW b \in BookingIds, NEW status \in {"open", "sold", "over"},
           stays[b] # NoStay, Becomes(b, status)
    PROVE  TypeOK'
<1>1. stays[b] \in Stay
    BY DEF TypeOK
<1>2. [stays[b] EXCEPT !.status = status] \in Stay
    BY <1>1 DEF Stay
<1> QED
    BY <1>2 DEF Becomes, TypeOK

LEMMA CalendarTypeOK ==
    ASSUME TypeOK, CalendarStep
    PROVE  TypeOK'
<1>1. ASSUME NEW n \in EditedNights, BlackoutDate(n)
      PROVE  TypeOK'
    BY <1>1, RoomInventoryAssumption DEF BlackoutDate, Calendar, TypeOK
<1>2. ASSUME NEW n \in EditedNights, NEW isClosed \in BOOLEAN, UpdateInventory(n, isClosed)
      PROVE  TypeOK'
    BY <1>2, RoomInventoryAssumption DEF UpdateInventory, Calendar, TypeOK
<1>3. ASSUME NEW count \in 0..MaxRooms, ResizeRoom(count)
      PROVE  TypeOK'
    BY <1>3 DEF ResizeRoom, TypeOK
<1>4. ASSUME NEW first \in Nights, NEW last \in Ends, RoomAvailabilityBlock(first, last)
      PROVE  TypeOK'
    BY <1>4 DEF RoomAvailabilityBlock, Calendar, Between, TypeOK
<1>5. ASSUME NEW first \in Nights, NEW last \in Ends, RoomAvailabilityUnblock(first, last)
      PROVE  TypeOK'
    BY <1>5 DEF RoomAvailabilityUnblock, Calendar, TypeOK
<1> QED
    BY <1>1, <1>2, <1>3, <1>4, <1>5 DEF CalendarStep

\* The rows of the inventory keep their types.
THEOREM InventoryTypeCorrect == Spec => []TypeOK
<1>1. ASSUME TypeOK, [Next]_vars
      PROVE  TypeOK'
    <2>1. CASE CreationStep
        <3>1. PICK c \in Customers, first \in Nights, last \in Ends,
                   rooms \in Rooms, status \in {"open", "sold"} :
                  Insert(c, first, last, rooms, status)
            BY <2>1, RoomInventoryAssumption
               DEF CreationStep, CreateHotel, CreateVehicleRental, WalkIn
        <3> QED
            BY <1>1, <3>1, InsertTypeOK
    <2>2. CASE BookingStep
        <3>1. PICK b \in BookingIds, status \in {"open", "sold", "over"} :
                  stays[b] # NoStay /\ Becomes(b, status)
            BY <2>2 DEF BookingStep, Settle, End, Reinstate, NoStay
        <3> QED
            BY <1>1, <3>1, BecomesTypeOK
    <2>3. CASE CalendarStep
        BY <1>1, <2>3, CalendarTypeOK
    <2>4. CASE UNCHANGED vars
        BY <1>1, <2>4 DEF vars, TypeOK
    <2> QED
        BY <1>1, <2>1, <2>2, <2>3, <2>4 DEF Next
<1> QED
    BY <1>1, InitTypeOK, PTL DEF Spec

-----------------------------------------------------------------------------
(* Overselling *)

LEMMA LiveIsStay ==
    ASSUME TypeOK, NEW b \in Live
    PROVE  stays[b] \in Stay
<1>1. b \in BookingIds /\ stays[b].status # "none"
    BY DEF Live
<1>2. stays[b] \in Stay \union {NoStay}
    BY <1>1 DEF TypeOK
<1> QED
    BY <1>1, <1>2 DEF NoStay

\* A step after which every live booking was already live, and unchanged but for
\* its status, oversells no night unless rooms are taken away.
LEMMA NothingNew ==
    ASSUME TypeOK, TypeOK', inventory' >= inventory, Live' \subseteq Live,
           \A b \in Live' : /\ stays'[b].customer = stays[b].customer
                            /\ stays'[b].first = stays[b].first
                            /\ stays'[b].last = stays[b].last
                            /\ stays'[b].rooms = stays[b].rooms,
           NEW n \in Nights, Oversold(n)'
    PROVE  Oversold(n)
<1>1. PICK S \in SUBSET StayingAt(n)' : Strangers(S)' /\ RoomsOf(S)' > inventory'
    BY DEF Oversold
<1>2. S \subseteq Live'
    BY DEF StayingAt
<1>3. S \in SUBSET StayingAt(n)
    BY <1>2 DEF StayingAt
<1>4. Strangers(S)
    BY <1>1, <1>2 DEF Strangers
<1>5. RoomsOf(S)' = RoomsOf(S)
    <2>1. \A b \in S : stays'[b].rooms = stays[b].rooms
        BY <1>2
    <2> QED
        BY <2>1 DEF RoomsOf
<1>6. RoomsOf(S) > inventory
    <2>1. S \in SUBSET BookingIds
        BY <1>3 DEF StayingAt, Live
    <2>2. RoomsOf(S) \in Nat
        BY <2>1, RoomsOfType
    <2> QED
        BY <1>1, <1>5, <2>2 DEF TypeOK
<1> QED
    BY <1>3, <1>4, <1>6 DEF Oversold

\* The new booking and strangers staying on one of its nights fit together: the
\* strangers all overlap it, and none of them is left out of the count as the
\* customer's own.
LEMMA NewStayFits ==
    ASSUME TypeOK, NEW c \in Customers, NEW first \in Nights, NEW last \in Ends,
           NEW rooms \in Rooms, NEW status \in {"open", "sold"},
           RoomsOf(Conflicts(c, first, last)) + rooms <= inventory,
           Insert(c, first, last, rooms, status),
           NEW n \in Nights, Oversold(n)'
    PROVE  Oversold(n)
<1> DEFINE new == nextStay
<1>1. PICK S \in SUBSET StayingAt(n)' : Strangers(S)' /\ RoomsOf(S)' > inventory'
    BY DEF Oversold
<1>2. /\ new \in BookingIds
      /\ stays'[new] = [customer |-> c, first |-> first, last |-> last,
                        rooms |-> rooms, status |-> status]
      /\ \A b \in BookingIds \ {new} : stays'[b] = stays[b]
      /\ inventory' = inventory
    BY DEF Insert, TypeOK
<1>3. S \subseteq BookingIds
    BY DEF StayingAt, Live
<1> DEFINE T == S \ {new}
<1>4. /\ T \in SUBSET StayingAt(n)
      /\ Strangers(T)
    BY <1>1, <1>2, <1>3 DEF StayingAt, Live, Strangers
<1>5. CASE new \notin S
    <2>1. \A b \in S : stays'[b].rooms = stays[b].rooms
        BY <1>2, <1>3, <1>5
    <2>2. RoomsOf(S)' = RoomsOf(S) /\ T = S
        BY <1>5, <2>1 DEF RoomsOf
    <2> QED
        BY <1>1, <1>2, <1>4, <2>2 DEF Oversold
<1>6. CASE new \in S
    <2>1. first <= n /\ n < last
        BY <1>2, <1>6 DEF StayingAt
    <2>2. T \subseteq Overlapping(first, last)
        <3> SUFFICES ASSUME NEW b \in T
                     PROVE  b \in Live /\ stays[b].first < last /\ first < stays[b].last
            BY DEF Overlapping
        <3>1. b \in Live /\ stays[b].first <= n /\ n < stays[b].last
            BY <1>4 DEF StayingAt
        <3>2. stays[b] \in Stay
            BY <3>1, LiveIsStay
        <3>3. stays[b].first \in Nat /\ stays[b].last \in Nat
            BY <3>2, RoomInventoryAssumption DEF Stay
        <3> QED
            BY <2>1, <3>1, <3>3, RoomInventoryAssumption
    <2>3. \A b \in T : b \notin OwnUnpaid(c)
        BY <1>1, <1>2, <1>3, <1>6 DEF Strangers, OwnUnpaid
    <2>4. T \in SUBSET Conflicts(c, first, last) /\ Conflicts(c, first, last) \in SUBSET BookingIds
        BY <2>2, <2>3 DEF Conflicts, Overlapping, Live
    <2>5. RoomsOf(T) + rooms <= inventory
        BY <2>4, RoomsOfSubset, RoomsOfType DEF TypeOK
    <2>6. RoomsOf(S)' <= RoomsOf(T) + rooms
        <3> DEFINE Own == {new} \X (1..rooms)
                   After == {u \in S \X Rooms : u[2] <= stays'[u[1]].rooms}
        <3>1. IsFiniteSet(Own) /\ Cardinality(Own) = rooms
            <4>1. IsFiniteSet({new}) /\ Cardinality({new}) = 1
                BY FS_Singleton
            <4>2. IsFiniteSet(1..rooms) /\ Cardinality(1..rooms) = rooms
                BY FS_Interval
            <4>3. Cardinality(Own) = 1 * rooms /\ IsFiniteSet(Own)
                BY <4>1, <4>2, FS_Product
            <4> QED
                BY <4>3
        <3>2. After \in SUBSET (UnitsOf(T) \union Own)
            <4> SUFFICES ASSUME NEW u \in After, u \notin Own
                         PROVE  u \in UnitsOf(T)
                OBVIOUS
            <4>1. u \in S \X Rooms /\ u[2] <= stays'[u[1]].rooms
                OBVIOUS
            <4>2. u[1] # new
                <5> SUFFICES ASSUME u[1] = new PROVE u \in Own
                    OBVIOUS
                <5>1. u[2] <= rooms
                    BY <1>2, <4>1
                <5>2. u[2] \in 1..rooms /\ u = <<u[1], u[2]>>
                    BY <4>1, <5>1, RoomInventoryAssumption
                <5> QED
                    BY <5>2
            <4>3. u \in T \X Rooms /\ stays'[u[1]] = stays[u[1]]
                BY <1>2, <1>3, <4>1, <4>2
            <4> QED
                BY <4>1, <4>3 DEF UnitsOf
        <3>3. IsFiniteSet(UnitsOf(T)) /\ IsFiniteSet(UnitsOf(T) \intersect Own)
            BY <1>3, <3>1, UnitsAreFinite, FS_Intersection
        <3>4. /\ IsFiniteSet(UnitsOf(T) \union Own)
              /\ Cardinality(UnitsOf(T) \union Own) <= Cardinality(UnitsOf(T)) + rooms
            <4> DEFINE U == UnitsOf(T)
            <4>1. /\ IsFiniteSet(U \union Own)
                  /\ Cardinality(U \union Own)
                        = Cardinality(U) + Cardinality(Own) - Cardinality(U \intersect Own)
                BY <3>1, <3>3, FS_Union
            <4>2. Cardinality(U) \in Nat /\ Cardinality(U \intersect Own) \in Nat
                BY <3>3, FS_CardinalityType
            <4> QED
                BY <3>1, <4>1, <4>2
        <3>5. /\ Cardinality(After) <= Cardinality(UnitsOf(T) \union Own)
              /\ IsFiniteSet(After)
            BY <3>2, <3>4, FS_Subset
        <3>6. RoomsOf(S)' = Cardinality(After) /\ RoomsOf(T) = Cardinality(UnitsOf(T))
            BY DEF RoomsOf, UnitsOf
        <3> QED
            BY <3>3, <3>4, <3>5, <3>6, FS_CardinalityType
    <2>7. RoomsOf(S)' \in Nat
        <3>1. IsFiniteSet(S \X Rooms)
            <4>1. IsFiniteSet(BookingIds) /\ IsFiniteSet(Rooms)
                BY FS_Interval, RoomInventoryAssumption
            <4>2. IsFiniteSet(S)
                BY <1>3, <4>1, FS_Subset
            <4> QED
                BY <4>1, <4>2, FS_Product
        <3>2. {u \in S \X Rooms : u[2] <= stays'[u[1]].rooms} \in SUBSET (S \X Rooms)
            OBVIOUS
        <3> QED
            BY <3>1, <3>2, FS_Subset, FS_CardinalityType DEF RoomsOf
    <2> QED
        BY <1>1, <1>2, <1>3, <2>5, <2>6, <2>7, RoomsOfType DEF TypeOK
<1> QED
    BY <1>5, <1>6

LEMMA CreationSellsNothingTwice ==
    ASSUME TypeOK, CreationStep, inventory # 0, NEW n \in Nights, Oversold(n)'
    PROVE  Oversold(n)
<1>1. PICK c \in Customers, first \in Nights, last \in Ends,
           rooms \in Rooms, status \in {"open", "sold"} :
          /\ RoomsOf(Conflicts(c, first, last)) + rooms <= inventory
          /\ Insert(c, first, last, rooms, status)
    <2>1. RoomsOf({}) = 0
        BY FS_EmptySet DEF RoomsOf
    <2>2. inventory >= 1 /\ 1 \in Rooms
        BY RoomInventoryAssumption DEF TypeOK
    <2>3. PICK c \in Customers, first \in Nights, last \in Ends :
              \/ \E rooms \in Rooms, status \in {"open", "sold"} :
                    CreateHotel(c, first, last, rooms, status)
              \/ \E status \in {"open", "sold"} : CreateVehicleRental(c, first, last, status)
              \/ WalkIn(c, first, last)
        BY DEF CreationStep
    <2>4. CASE \E rooms \in Rooms, status \in {"open", "sold"} :
                  CreateHotel(c, first, last, rooms, status)
        BY <2>4 DEF CreateHotel, Accepts
    <2>5. CASE \E status \in {"open", "sold"} : CreateVehicleRental(c, first, last, status)
        BY <2>1, <2>2, <2>5 DEF CreateVehicleRental
    <2>6. CASE WalkIn(c, first, last)
        <3>1. Conflicts(c, first, last) = {} /\ Insert(c, first, last, 1, "sold")
            BY <2>6 DEF WalkIn, Conflicts
        <3> QED
            BY <2>1, <2>2, <3>1
    <2> QED
        BY <2>3, <2>4, <2>5, <2>6
<1> QED
    BY <1>1, NewStayFits

\* No step but a reinstatement or a cut of the inventory oversells a night.
THEOREM InventoryIsNotOversold == Spec => NoNewOversell
<1>1. ASSUME TypeOK, TypeOK', [Next]_vars,
             ~ \E b \in BookingIds : stays[b].status = "over" /\ stays'[b].status # "over",
             ~ inventory' < inventory, inventory # 0,
             NEW n \in Nights, Oversold(n)'
      PROVE  Oversold(n)
    <2>1. inventory' >= inventory
        BY <1>1 DEF TypeOK
    <2>2. CASE CreationStep
        BY <1>1, <2>2, CreationSellsNothingTwice
    <2>3. CASE BookingStep
        <3>1. PICK b \in BookingIds : Settle(b) \/ End(b)
            <4>1. ASSUME NEW b \in BookingIds, Reinstate(b) PROVE FALSE
                <5>1. stays[b] \in Stay /\ stays[b].status = "over"
                    BY <1>1, <4>1 DEF Reinstate, TypeOK, NoStay
                <5>2. stays'[b] = [stays[b] EXCEPT !.status = "sold"]
                    BY <1>1, <4>1 DEF Reinstate, Becomes, TypeOK
                <5>3. stays'[b].status = "sold"
                    BY <5>1, <5>2 DEF Stay
                <5> QED
                    BY <1>1, <5>1, <5>3
            <4> QED
                BY <2>3, <4>1 DEF BookingStep
        <3>2. PICK status \in {"sold", "over"} : Becomes(b, status) /\ b \in Live
            BY <3>1 DEF Settle, End, Live
        <3>3. stays[b] \in Stay
            BY <1>1, <3>2, LiveIsStay
        <3>4. /\ stays'[b] = [stays[b] EXCEPT !.status = status]
              /\ \A d \in BookingIds \ {b} : stays'[d] = stays[d]
            BY <1>1, <3>2 DEF Becomes, TypeOK
        <3>5. Live' \subseteq Live
            BY <3>2, <3>4 DEF Live
        <3>6. \A d \in Live' : /\ stays'[d].customer = stays[d].customer
                               /\ stays'[d].first = stays[d].first
                               /\ stays'[d].last = stays[d].last
                               /\ stays'[d].rooms = stays[d].rooms
            BY <3>3, <3>4 DEF Live, Stay
        <3> QED
            BY <1>1, <2>1, <3>5, <3>6, NothingNew
    <2>4. CASE CalendarStep \/ UNCHANGED vars
        <3>1. stays' = stays
            BY <2>4 DEF CalendarStep, BlackoutDate, UpdateInventory, RoomAvailabilityBlock,
                        RoomAvailabilityUnblock, Calendar, ResizeRoom, vars
        <3>2. Live' \subseteq Live
            BY <3>1 DEF Live
        <3> QED
            BY <1>1, <2>1, <3>1, <3>2, NothingNew
    <2> QED
        BY <1>1, <2>2, <2>3, <2>4 DEF Next
<1>2. TypeOK /\ TypeOK' /\ [Next]_vars
        => [\/ \E b \in BookingIds : stays[b].status = "over" /\ stays'[b].status # "over"
            \/ inventory' < inventory \/ inventory = 0
            \/ \A n \in Nights : Oversold(n)' => Oversold(n)]_vars
    BY <1>1
<1> QED
    BY <1>2, InventoryTypeCorrect, PTL DEF Spec, NoNewOversell

=============================================================================
