------------------------------ MODULE SeatSale ------------------------------
(***************************************************************************)
(* What the bookings of one bus trip share: its seats, and a promo code    *)
(* that hotel and vehicle bookings may use as well.  bookings.service      *)
(* creates and ends bookings, partners.service ends them and cancels the   *)
(* trip, admin.service edits the trip and the code, promos.service counts  *)
(* the uses of the code.                                                   *)
(*                                                                         *)
(* A creation reads the trip and the code, and only then opens its         *)
(* transaction: anything may happen in between.                            *)
(***************************************************************************)
EXTENDS Naturals, FiniteSets

CONSTANTS
    Seats,        \* the rows of trip_seats
    Modes,        \* confirmation_mode of the bookings, see Mode
    MaxSales,     \* bound: bookings ever made
    MaxLimit,     \* bound: usageLimit of a code
    MaxCodes,     \* bound: how often the code is created
    MaxRequests   \* bound: creations between their reads and their transaction

Mode    == {"instant", "request"}
SaleIds == 1..MaxSales
Codes   == 1..MaxCodes
Nobody  == 0

ASSUME SeatSaleAssumption ==
    /\ Modes \subseteq Mode
    /\ MaxSales \in Nat
    /\ MaxLimit \in Nat
    /\ MaxCodes \in Nat
    /\ MaxRequests \in Nat
    /\ IsFiniteSet(Seats)

VARIABLES
    trip,       \* trips.status, see TripStatus
    holder,     \* trip_seats.held_by_booking_id; Nobody when available
    sales,      \* the bookings, by id
    nextSale,   \* the id the next booking takes
    promo,      \* the row of cms_entries with the code, if there is one
    requests    \* creations that have read the trip and the code

vars == <<trip, holder, sales, nextSale, promo, requests>>

-----------------------------------------------------------------------------

\* A trip that is no longer scheduled is "emptied" when cancelTrip has written
\* its status last, and "off" when only the status was written.
TripStatus == {"scheduled", "emptied", "off"}

LiveStatuses == {"open", "confirming", "sold"}

\* bookings.status 'cancelled' is split by cancel_reason_text: "unanswered" is
\* what the partner's deadline writes, "returned" what an approved refund does.
EndedStatuses == {"expired", "cancelled", "unanswered", "returned", "completed"}

\* seats is empty for a hotel or vehicle booking.  code is 0 without a
\* promo, else says which creation of the code was redeemed.  History: late,
\* that the trip was no longer scheduled when the booking was made; again,
\* that the booking was confirmed after it had ended.
Sale == [seats  : SUBSET Seats,
         mode   : Modes,
         code   : 0..MaxCodes,
         status : LiveStatuses \union EndedStatuses,
         late   : BOOLEAN,
         again  : BOOLEAN]

NoSale == [status |-> "none"]

\* number counts the creations of the code.  limit is the usageLimit while the
\* code is published and not past its date, else 0.  top is history: the
\* highest limit the admin has set.
Promo == [exists : BOOLEAN,
          number : 0..MaxCodes,
          limit  : 0..MaxLimit,
          top    : 0..MaxLimit,
          used   : Nat]

NoPromo(number) == [exists |-> FALSE, number |-> number,
                    limit |-> 0, top |-> 0, used |-> 0]

Request == [seats : SUBSET Seats, mode : Modes, promo : BOOLEAN]

TypeOK ==
    /\ trip \in TripStatus
    /\ holder \in [Seats -> SaleIds \union {Nobody}]
    /\ sales \in [SaleIds -> Sale \union {NoSale}]
    /\ nextSale \in 1..(MaxSales + 1)
    /\ promo \in Promo
    /\ requests \in SUBSET Request

Init ==
    /\ trip = "scheduled"
    /\ holder = [s \in Seats |-> Nobody]
    /\ sales = [b \in SaleIds |-> NoSale]
    /\ nextSale = 1
    /\ promo = NoPromo(0)
    /\ requests = {}

Live == {b \in SaleIds : sales[b].status \in LiveStatuses}
Made == {b \in SaleIds : sales[b] # NoSale}

-----------------------------------------------------------------------------
(* Creation *)

\* promos.validate: published, not past its date, and not used up.
PromoValid == promo.exists /\ promo.used < promo.limit

\* createBus has read the trip and the code.
BusRequest(seats, mode, withPromo) ==
    /\ trip = "scheduled"
    /\ seats # {}
    /\ withPromo => PromoValid
    /\ Cardinality(requests) < MaxRequests
    /\ requests' = requests \union {[seats |-> seats, mode |-> mode, promo |-> withPromo]}
    /\ UNCHANGED <<trip, holder, sales, nextSale, promo>>

\* createHotel and createVehicleRental: only the code matters here.
OtherRequest(mode) ==
    /\ PromoValid
    /\ Cardinality(requests) < MaxRequests
    /\ requests' = requests \union {[seats |-> {}, mode |-> mode, promo |-> TRUE]}
    /\ UNCHANGED <<trip, holder, sales, nextSale, promo>>

\* Faulty variants, used by no action: each is what a plausible mistake would
\* make of the definition it is named for.

\* for Available: one free seat lets all of them through.
AvailableInPart(seats) == \E s \in seats : holder[s] = Nobody

\* for CanRedeem: the limit is left to the check of the request.
CanRedeemUnchecked == promo.exists

Available(seats) == \A s \in seats : holder[s] = Nobody

\* promos.redeem: one conditional UPDATE.
CanRedeem == promo.exists /\ promo.used < promo.limit

\* The transaction of createBus, createHotel or createVehicleRental: lock the
\* seats, redeem the code, insert, hold the seats, settleNewBooking.  Cash, or
\* a total of zero, is accepted at once.  The trip is not read again.
Create(q, cash) ==
    LET accepted == IF q.mode = "request" THEN "confirming" ELSE "sold"
        sale == [seats  |-> q.seats,
                 mode   |-> q.mode,
                 code   |-> IF q.promo THEN promo.number ELSE 0,
                 status |-> IF cash THEN accepted ELSE "open",
                 late   |-> trip # "scheduled",
                 again  |-> FALSE]
    IN  /\ nextSale \in SaleIds
        /\ Available(q.seats)
        /\ q.promo => CanRedeem
        /\ sales' = [sales EXCEPT ![nextSale] = sale]
        /\ nextSale' = nextSale + 1
        /\ holder' = [s \in Seats |-> IF s \in q.seats THEN nextSale ELSE holder[s]]
        /\ promo' = IF q.promo THEN [promo EXCEPT !.used = @ + 1] ELSE promo
        /\ requests' \in {requests, requests \ {q}}   \* an equal one may go on
        /\ UNCHANGED trip

\* A seat is taken or the code used up: everything is rolled back.  Or the
\* request simply dies.
GiveUp(q) ==
    /\ requests' = requests \ {q}
    /\ UNCHANGED <<trip, holder, sales, nextSale, promo>>

-----------------------------------------------------------------------------
(* Bookings go on *)

BecomesLive(b, status) ==
    /\ sales' = [sales EXCEPT
                    ![b].status = status,
                    ![b].again  = @ \/ sales[b].status \notin LiveStatuses]
    /\ UNCHANGED <<trip, holder, nextSale, promo, requests>>

\* A payment is applied, under the lock of the booking.
Pay(b) ==
    /\ sales[b].status = "open"
    /\ BecomesLive(b, IF sales[b].mode = "request" THEN "confirming" ELSE "sold")

\* The partner's confirmation and the customer's by SMS code write by id what
\* they decided on an earlier read; a check-in asks for no status.
Confirm(b) == b \in Made /\ BecomesLive(b, "sold")

-----------------------------------------------------------------------------
(* Bookings end *)

Freed(B) == [s \in Seats |-> IF holder[s] \in B THEN Nobody ELSE holder[s]]

Ends(B, status) ==
    /\ sales' = [b \in SaleIds |->
                    IF b \in B THEN [sales[b] EXCEPT !.status = status] ELSE sales[b]]
    /\ UNCHANGED <<trip, nextSale, promo, requests>>

\* expireStaleBookings, first statement pair.
Expire(b) ==
    /\ sales[b].status = "open"
    /\ Ends({b}, "expired")
    /\ holder' = Freed({b})

\* expireStaleBookings, the unconfirmed ones: the seats stay as they are.
PartnerTimeout(b) ==
    /\ sales[b].status = "confirming"
    /\ Ends({b}, "unanswered")
    /\ UNCHANGED holder

\* for Cancel: the seats are forgotten.
CancelHolding(b) ==
    /\ b \in Made
    /\ Ends({b}, "cancelled")
    /\ UNCHANGED holder

\* cancel, rejectBooking, markNoShow, applyNoShowPenalty: they write by id
\* what they decided on an earlier read of the status.
Cancel(b) ==
    /\ b \in Made
    /\ Ends({b}, "cancelled")
    /\ holder' = Freed({b})

\* uzumReverse, under the lock of the booking.
UzumReverse(b) ==
    /\ b \in Live
    /\ Ends({b}, "cancelled")
    /\ holder' = Freed({b})

\* for RefundApprove: the booking takes the status of its payment.
RefundApproveInBooking(b) ==
    /\ sales[b].status \in LiveStatuses \union {"expired"}
    /\ Ends({b}, "refunded")
    /\ UNCHANGED holder

\* refundApprove: the seats stay as they are.
RefundApprove(b) ==
    /\ sales[b].status \in LiveStatuses \union {"expired"}
    /\ Ends({b}, "returned")
    /\ UNCHANGED holder

\* bookingStatus('completed') asks for no status.
Complete(b) ==
    /\ b \in Made
    /\ Ends({b}, "completed")
    /\ UNCHANGED holder

-----------------------------------------------------------------------------
(* The trip *)

\* for CancelTrip: bookings that wait for the partner are overlooked.
CancelTripSold ==
    LET onTrip == {b \in Live : sales[b].seats # {} /\ sales[b].status # "confirming"}
    IN  /\ trip' = "emptied"
        /\ holder' = [s \in Seats |-> Nobody]
        /\ sales' = [b \in SaleIds |->
                        IF b \in onTrip THEN [sales[b] EXCEPT !.status = "cancelled"]
                                        ELSE sales[b]]
        /\ UNCHANGED <<nextSale, promo, requests>>

CancelTrip ==
    LET onTrip == {b \in Live : sales[b].seats # {}}
    IN  /\ trip' = "emptied"
        /\ holder' = [s \in Seats |-> Nobody]
        /\ sales' = [b \in SaleIds |->
                        IF b \in onTrip THEN [sales[b] EXCEPT !.status = "cancelled"]
                                        ELSE sales[b]]
        /\ UNCHANGED <<nextSale, promo, requests>>

\* admin.tripStatus, and updateTrip with any status: only the row of trips.
SetTripStatus(status) ==
    /\ trip' = status
    /\ UNCHANGED <<holder, sales, nextSale, promo, requests>>

-----------------------------------------------------------------------------
(* The code *)

PromoCreate(limit) ==
    /\ ~promo.exists
    /\ promo.number < MaxCodes
    /\ promo' = [exists |-> TRUE, number |-> promo.number + 1,
                 limit |-> limit, top |-> limit, used |-> 0]
    /\ UNCHANGED <<trip, holder, sales, nextSale, requests>>

\* A new limit, or 0: a new status, date or name.
PromoUpdate(limit) ==
    /\ promo.exists
    /\ promo' = [promo EXCEPT !.limit = limit, !.top = IF limit > @ THEN limit ELSE @]
    /\ UNCHANGED <<trip, holder, sales, nextSale, requests>>

PromoDelete ==
    /\ promo.exists
    /\ promo' = NoPromo(promo.number)
    /\ UNCHANGED <<trip, holder, sales, nextSale, requests>>

-----------------------------------------------------------------------------

CreationStep ==
    \/ \E seats \in SUBSET Seats, mode \in Modes, withPromo \in BOOLEAN :
          BusRequest(seats, mode, withPromo)
    \/ \E mode \in Modes : OtherRequest(mode)
    \/ \E q \in requests : GiveUp(q) \/ \E cash \in BOOLEAN : Create(q, cash)

SaleStep ==
    \E b \in SaleIds :
        \/ Pay(b) \/ Confirm(b)
        \/ Expire(b) \/ PartnerTimeout(b) \/ Cancel(b)
        \/ UzumReverse(b) \/ RefundApprove(b) \/ Complete(b)

TripStep ==
    \/ CancelTrip
    \/ \E status \in {"scheduled", "off"} : SetTripStatus(status)

PromoStep ==
    \/ \E limit \in 0..MaxLimit : PromoCreate(limit)
    \/ \E limit \in 0..MaxLimit : PromoUpdate(limit)
    \/ PromoDelete

Next == CreationStep \/ SaleStep \/ TripStep \/ PromoStep

Spec == Init /\ [][Next]_vars

-----------------------------------------------------------------------------
(* Properties *)

\* Who has paid, or may still pay, for a seat holds it: whatever ends other
\* bookings, frees a trip or sells at the same time never takes the seat of a
\* live booking, and so no seat is sold twice - unless a booking that had ended
\* is confirmed again (createBusInternal, and every release of trip_seats).
SeatsAreHeld ==
    \A b \in Live : ~sales[b].again => \A s \in sales[b].seats : holder[s] = b

\* A booking that has expired, or was cancelled by anyone, in whatever state and
\* however often, holds no seat: its seats are on sale again or sold to somebody
\* else.  Only the partner's deadline, the approval of a refund and the end of
\* the journey leave a booking its seats (every release of trip_seats).
SeatsComeBack ==
    \A b \in Made : sales[b].status \in {"expired", "cancelled"} =>
        \A s \in Seats : holder[s] # b

\* After the partner has cancelled a trip, the only bookings left on it are
\* those whose request had already read the trip, and those confirmed again
\* after they had ended: nobody else waits for a bus that does not go
\* (cancelTrip).
CancelledTripIsEmpty ==
    trip = "emptied" =>
        \A b \in Live : sales[b].seats # {} => sales[b].late \/ sales[b].again

\* The code is used by no more bookings than the limit the admin has set has
\* ever allowed, though every request has checked it long before it uses it
\* and one code serves buses, hotels and cars (promos.redeem).
UsesWithinLimit ==
    promo.exists =>
        Cardinality({b \in Made : sales[b].code = promo.number}) <= promo.top

=============================================================================
