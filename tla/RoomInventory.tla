--------------------------- MODULE RoomInventory ----------------------------
(***************************************************************************)
(* What the bookings of one row of inventory share: a row of hotel_rooms,  *)
(* which stands for total_inventory rooms of a type, or a vehicle.  The    *)
(* customer's and the partner's creation of a booking lock that row before *)
(* they count, so each is one step; whatever becomes of a booking          *)
(* afterwards (module Settlement) takes no such lock.                      *)
(*                                                                         *)
(* A restaurant table is counted by the same query, with the 90 minutes of *)
(* its slot in place of the nights; it is not told apart here.             *)
(***************************************************************************)
EXTENDS Naturals, FiniteSets

CONSTANTS
    Customers,    \* user accounts, and guests known by e-mail and phone
    SamePerson,   \* the pairs <<d, c>> such that the query takes d for c
    MaxNight,     \* bound: nights 1 .. MaxNight can be booked
    MaxRooms,     \* bound: total_inventory, and rooms of one booking
    MaxStays,     \* bound: bookings ever made
    EditedNights  \* bound: the nights of which the calendar is edited

Nights   == 1..MaxNight
Rooms    == 1..MaxRooms
BookingIds  == 1..MaxStays

ASSUME RoomInventoryAssumption ==
    /\ MaxNight \in Nat
    /\ MaxRooms \in Nat \ {0}
    /\ MaxStays \in Nat
    /\ SamePerson \subseteq Customers \X Customers
    /\ EditedNights \subseteq Nights

VARIABLES
    kind,        \* what the row is: "room" (hotel_rooms) or "vehicle"
    inventory,   \* hotel_rooms.total_inventory; 1 for a vehicle
    stays,       \* the bookings of the row, by id
    nextStay,    \* the id the next booking takes
    closed       \* the nights of which room_inventory.closed is true

vars == <<kind, inventory, stays, nextStay, closed>>

-----------------------------------------------------------------------------

\* A booking from check_in to check_out, the night of which is not slept.
\* "over" is cancelled, expired or completed.
Stay == [customer : Customers,
         first    : Nights,
         last     : 2..(MaxNight + 1),
         rooms    : Rooms,
         status   : {"open", "sold", "over"}]

NoStay == [status |-> "none"]

TypeOK ==
    /\ kind \in {"room", "vehicle"}
    /\ inventory \in 0..MaxRooms
    /\ stays \in [BookingIds -> Stay \union {NoStay}]
    /\ nextStay \in 1..(MaxStays + 1)
    /\ closed \in SUBSET Nights

Init ==
    /\ kind \in {"room", "vehicle"}
    /\ inventory \in IF kind = "room" THEN Rooms ELSE Rooms \intersect {1}
    /\ stays = [b \in BookingIds |-> NoStay]
    /\ nextStay = 1
    /\ closed = {}

-----------------------------------------------------------------------------
(* The queries of the creation transactions.                               *)

Live == {b \in BookingIds : stays[b].status \in {"open", "sold"}}

\* check_in < last AND first < check_out
Overlapping(first, last) ==
    {b \in Live : stays[b].first < last /\ first < stays[b].last}

\* for OwnUnpaid: whoever has not paid yet is not counted.
AnyUnpaid(c) == {b \in Live : stays[b].status = "open"}

\* The bookings a customer has not paid yet do not stand in their own way.
OwnUnpaid(c) ==
    {b \in Live : stays[b].status = "open" /\ <<stays[b].customer, c>> \in SamePerson}

Conflicts(c, first, last) == Overlapping(first, last) \ OwnUnpaid(c)

\* SUM(price_snapshot.rooms): one element for every room of every booking.
RoomsOf(S) == Cardinality({u \in S \X Rooms : u[2] <= stays[u[1]].rooms})

Between(first, last) == {n \in Nights : first <= n /\ n < last}

Closed(first, last) == Between(first, last) \intersect closed # {}

\* createHotel's answer to a request for a room.
Accepts(c, first, last, rooms) ==
    /\ RoomsOf(Conflicts(c, first, last)) + rooms <= inventory
    /\ ~Closed(first, last)

-----------------------------------------------------------------------------
(* Creation: the row is locked FOR UPDATE, then counted, then inserted.    *)

\* A booking paid in cash, or one that costs nothing, is accepted at once.
Insert(c, first, last, rooms, status) ==
    /\ nextStay \in BookingIds
    /\ first < last
    /\ stays' = [stays EXCEPT ![nextStay] =
                    [customer |-> c, first |-> first, last |-> last,
                     rooms |-> rooms, status |-> status]]
    /\ nextStay' = nextStay + 1
    /\ UNCHANGED <<kind, inventory, closed>>

CreateHotel(c, first, last, rooms, status) ==
    /\ kind = "room"
    /\ Accepts(c, first, last, rooms)
    /\ Insert(c, first, last, rooms, status)

CreateVehicleRental(c, first, last, status) ==
    /\ kind = "vehicle"
    /\ Conflicts(c, first, last) = {}
    /\ Insert(c, first, last, 1, status)

\* partners.createBooking: a guest at the desk, who has paid.  Any conflict
\* refuses, whatever the inventory.
WalkIn(c, first, last) ==
    /\ kind = "room"
    /\ Overlapping(first, last) = {}
    /\ ~Closed(first, last)
    /\ Insert(c, first, last, 1, "sold")

-----------------------------------------------------------------------------
(* What becomes of a booking; none of these locks or counts the row.       *)

Becomes(b, status) ==
    /\ stays' = [stays EXCEPT ![b].status = status]
    /\ UNCHANGED <<kind, inventory, nextStay, closed>>

\* The payment arrives, or a code confirms that it will be made on the spot.
Settle(b) == stays[b].status = "open" /\ Becomes(b, "sold")

\* Expiry, cancellation, rejection, no-show, reversal, refund, check-out.
End(b) == stays[b].status \in {"open", "sold"} /\ Becomes(b, "over")

\* bookingStatus('checked_in'), which asks for no status, and the stale
\* confirmations of module Settlement.
Reinstate(b) == stays[b].status = "over" /\ Becomes(b, "sold")

-----------------------------------------------------------------------------
(* The calendar of the row, edited by the partner and by admins.  The       *)
(* total_count of a date is left out: no creation reads it.                *)

Calendar(nights) ==
    /\ kind = "room"
    /\ closed' = nights
    /\ UNCHANGED <<kind, inventory, stays, nextStay>>

\* blackoutDates: one statement per date.
BlackoutDate(n) == Calendar(closed \union {n})

\* updateInventory overwrites the date, and an item that does not say closed
\* opens it, also when an admin has blocked it.
UpdateInventory(n, isClosed) ==
    Calendar(IF isClosed THEN closed \union {n} ELSE closed \ {n})

RoomAvailabilityBlock(first, last) ==
    /\ first < last
    /\ Calendar(closed \union Between(first, last))

\* It also opens what the partner has closed.
RoomAvailabilityUnblock(first, last) ==
    /\ first < last
    /\ Calendar(closed \ Between(first, last))

\* updateRoom: total_inventory, without a look at the bookings.
ResizeRoom(count) ==
    /\ kind = "room"
    /\ inventory' = count
    /\ UNCHANGED <<kind, stays, nextStay, closed>>

-----------------------------------------------------------------------------

Ends == 2..(MaxNight + 1)

CreationStep ==
    \E c \in Customers, first \in Nights, last \in Ends :
        \/ \E rooms \in Rooms, status \in {"open", "sold"} :
              CreateHotel(c, first, last, rooms, status)
        \/ \E status \in {"open", "sold"} : CreateVehicleRental(c, first, last, status)
        \/ WalkIn(c, first, last)

BookingStep == \E b \in BookingIds : Settle(b) \/ End(b) \/ Reinstate(b)

CalendarStep ==
    \/ \E n \in EditedNights : BlackoutDate(n)
    \/ \E n \in EditedNights, isClosed \in BOOLEAN : UpdateInventory(n, isClosed)
    \/ \E count \in 0..MaxRooms : ResizeRoom(count)
    \/ \E first \in Nights, last \in Ends :
          /\ Between(first, last) \subseteq EditedNights
          /\ RoomAvailabilityBlock(first, last) \/ RoomAvailabilityUnblock(first, last)

Next == CreationStep \/ BookingStep \/ CalendarStep

Spec == Init /\ [][Next]_vars

-----------------------------------------------------------------------------
(* Properties *)

\* Nobody in S is taken for somebody else in S.
Strangers(S) ==
    \A b, d \in S : b # d => <<stays[b].customer, stays[d].customer>> \notin SamePerson

StayingAt(n) == {b \in Live : stays[b].first <= n /\ n < stays[b].last}

\* Bookings of people who are strangers to each other do not fit on that night.
Oversold(n) ==
    \E S \in SUBSET StayingAt(n) : Strangers(S) /\ RoomsOf(S) > inventory

\* No two customers are sold the same room: except by putting an ended booking
\* back, or by taking rooms out of the inventory, no step makes any night
\* oversold - though customers' unpaid bookings are left out of their own
\* count, and may all be paid later (createHotelInternal,
\* createVehicleRentalInternal, partners.createBooking).  A row of no rooms is
\* left out: a walk-in does not read total_inventory.
NoNewOversell ==
    [][\/ \E b \in BookingIds : stays[b].status = "over" /\ stays'[b].status # "over"
       \/ inventory' < inventory \/ inventory = 0
       \/ \A n \in Nights : Oversold(n)' => Oversold(n)]_vars

=============================================================================
