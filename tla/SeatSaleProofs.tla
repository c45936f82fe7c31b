--------------------------- MODULE SeatSaleProofs ---------------------------
(***************************************************************************)
(* Theorems about SeatSale, for any number of seats, bookings, codes,      *)
(* limits and requests.                                                    *)
(***************************************************************************)
EXTENDS SeatSale, FiniteSetTheorems, TLAPS

USE DEF SaleIds, Codes, Nobody, Mode

-----------------------------------------------------------------------------
(* Types *)

LEMMA InitTypeOK == Init => TypeOK
    BY SeatSaleAssumption DEF Init, TypeOK, TripStatus, Promo, NoPromo

\* What Made and Live say of a row.
LEMMA MadeIsSale ==
    ASSUME TypeOK, NEW b \in SaleIds
    PROVE  /\ b \in Made <=> sales[b] \in Sale
           /\ b \in Live => b \in Made
           /\ b \in Made => sales[b].status # "none"
    BY DEF TypeOK, Made, Live, LiveStatuses, Sale, NoSale, EndedStatuses

LEMMA CreateTypeOK ==
    ASSUME TypeOK, NEW q \in requests, NEW cash \in BOOLEAN, Create(q, cash)
    PROVE  TypeOK'
<1> DEFINE sale == [seats  |-> q.seats,
                    mode   |-> q.mode,
                    code   |-> IF q.promo THEN promo.number ELSE 0,
                    status |-> IF cash THEN IF q.mode = "request" THEN "confirming" ELSE "sold"
                                       ELSE "open",
                    late   |-> trip # "scheduled",
                    again  |-> FALSE]
<1>1. sale \in Sale
    BY SeatSaleAssumption DEF TypeOK, Request, Sale, Promo, LiveStatuses
<1>2. sales' = [sales EXCEPT ![nextSale] = sale] /\ nextSale \in SaleIds
    BY DEF Create
<1>3. sales' \in [SaleIds -> Sale \union {NoSale}]
    BY <1>1, <1>2 DEF TypeOK
<1>4. holder' \in [Seats -> SaleIds \union {Nobody}]
    BY <1>2 DEF Create, TypeOK
<1>5. promo' \in Promo
    BY DEF Create, TypeOK, Promo
<1>6. nextSale' \in 1..(MaxSales + 1)
    BY <1>2, SeatSaleAssumption DEF Create, TypeOK
<1> QED
    BY <1>3, <1>4, <1>5, <1>6 DEF Create, TypeOK

LEMMA CreationTypeOK ==
    ASSUME TypeOK, CreationStep
    PROVE  TypeOK'
<1>1. ASSUME NEW seats \in SUBSET Seats, NEW mode \in Modes, NEW withPromo \in BOOLEAN,
             BusRequest(seats, mode, withPromo)
      PROVE  TypeOK'
    BY <1>1 DEF BusRequest, TypeOK, Request
<1>2. ASSUME NEW mode \in Modes, OtherRequest(mode)
      PROVE  TypeOK'
    <2>1. [seats |-> {}, mode |-> mode, promo |-> TRUE] \in Request
        BY DEF Request
    <2> QED
        BY <1>2, <2>1 DEF OtherRequest, TypeOK
<1>3. ASSUME NEW q \in requests, GiveUp(q)
      PROVE  TypeOK'
    BY <1>3 DEF GiveUp, TypeOK
<1> QED
    BY <1>1, <1>2, <1>3, CreateTypeOK DEF CreationStep

LEMMA BecomesLiveTypeOK ==
    ASSUME TypeOK, NEW b \in Made, NEW status \in LiveStatuses, BecomesLive(b, status)
    PROVE  TypeOK'
<1>1. sales[b] \in Sale /\ b \in SaleIds
    BY MadeIsSale DEF Made
<1>2. [sales[b] EXCEPT !.status = status,
                       !.again = @ \/ sales[b].status \notin LiveStatuses] \in Sale
    BY <1>1 DEF Sale
<1> QED
    BY <1>1, <1>2 DEF BecomesLive, TypeOK

LEMMA EndsTypeOK ==
    ASSUME TypeOK, NEW B \in SUBSET Made, NEW status \in EndedStatuses,
           Ends(B, status), holder' = holder \/ holder' = Freed(B)
    PROVE  TypeOK'
<1>1. \A b \in B : [sales[b] EXCEPT !.status = status] \in Sale
    BY MadeIsSale DEF Sale, Made
<1>2. sales' \in [SaleIds -> Sale \union {NoSale}]
    BY <1>1 DEF Ends, TypeOK
<1>3. holder' \in [Seats -> SaleIds \union {Nobody}]
    BY DEF Freed, TypeOK
<1> QED
    BY <1>2, <1>3 DEF Ends, TypeOK

\* Every step of a booking either makes it live or ends it.
LEMMA SaleStepCases ==
    ASSUME TypeOK, NEW b \in SaleIds,
           \/ Pay(b) \/ Confirm(b) \/ Expire(b) \/ PartnerTimeout(b) \/ Cancel(b)
           \/ UzumReverse(b) \/ RefundApprove(b) \/ Complete(b)
    PROVE  /\ b \in Made
           /\ \/ \E status \in LiveStatuses : BecomesLive(b, status)
              \/ /\ \E status \in EndedStatuses : Ends({b}, status)
                 /\ holder' = holder \/ holder' = Freed({b})
<1>1. b \in Made
    BY MadeIsSale
       DEF Pay, Confirm, Expire, PartnerTimeout, Cancel, UzumReverse, RefundApprove,
           Complete, Made, NoSale, LiveStatuses
<1>2. CASE Pay(b) \/ Confirm(b)
    BY <1>1, <1>2 DEF Pay, Confirm, LiveStatuses
<1>3. CASE \/ Expire(b) \/ PartnerTimeout(b) \/ Cancel(b)
           \/ UzumReverse(b) \/ RefundApprove(b) \/ Complete(b)
    BY <1>1, <1>3
       DEF Expire, PartnerTimeout, Cancel, UzumReverse, RefundApprove, Complete, EndedStatuses
<1> QED
    BY <1>1, <1>2, <1>3

LEMMA TripTypeOK ==
    ASSUME TypeOK, TripStep
    PROVE  TypeOK'
<1>1. CASE CancelTrip
    <2>1. \A b \in Live : [sales[b] EXCEPT !.status = "cancelled"] \in Sale
        BY MadeIsSale DEF Sale, Live, EndedStatuses
    <2>2. sales' \in [SaleIds -> Sale \union {NoSale}]
        BY <1>1, <2>1 DEF CancelTrip, TypeOK
    <2> QED
        BY <1>1, <2>2 DEF CancelTrip, TypeOK, TripStatus
<1>2. ASSUME NEW status \in {"scheduled", "off"}, SetTripStatus(status)
      PROVE  TypeOK'
    BY <1>2 DEF SetTripStatus, TypeOK, TripStatus
<1> QED
    BY <1>1, <1>2 DEF TripStep

LEMMA PromoTypeOK ==
    ASSUME TypeOK, PromoStep
    PROVE  TypeOK'
<1>1. ASSUME NEW limit \in 0..MaxLimit, PromoCreate(limit)
      PROVE  TypeOK'
    BY <1>1, SeatSaleAssumption DEF PromoCreate, TypeOK, Promo
<1>2. ASSUME NEW limit \in 0..MaxLimit, PromoUpdate(limit)
      PROVE  TypeOK'
    BY <1>2, SeatSaleAssumption DEF PromoUpdate, TypeOK, Promo
<1>3. CASE PromoDelete
    BY <1>3, SeatSaleAssumption DEF PromoDelete, NoPromo, TypeOK, Promo
<1> QED
    BY <1>1, <1>2, <1>3 DEF PromoStep

LEMMA NextTypeOK ==
    ASSUME TypeOK, [Next]_vars
    PROVE  TypeOK'
<1>1. CASE SaleStep
    <2>1. PICK b \in SaleIds :
              \/ Pay(b) \/ Confirm(b) \/ Expire(b) \/ PartnerTimeout(b) \/ Cancel(b)
              \/ UzumReverse(b) \/ RefundApprove(b) \/ Complete(b)
        BY <1>1 DEF SaleStep
    <2> QED
        BY <2>1, SaleStepCases, BecomesLiveTypeOK, EndsTypeOK
<1>2. CASE UNCHANGED vars
    BY <1>2 DEF vars, TypeOK
<1> QED
    BY <1>1, <1>2, CreationTypeOK, TripTypeOK, PromoTypeOK DEF Next

\* The seats, the bookings and the code keep their types.
THEOREM SeatTypeCorrect == Spec => []TypeOK
    BY InitTypeOK, NextTypeOK, PTL DEF Spec

-----------------------------------------------------------------------------
(* Seats *)

LEMMA InitSeatsAreHeld == Init => SeatsAreHeld
    BY DEF Init, SeatsAreHeld, Live, NoSale, LiveStatuses

\* A step of booking b takes no seat from another booking.
LEMMA UntouchedIsHeld ==
    ASSUME TypeOK, SeatsAreHeld, NEW b \in SaleIds,
           \A d \in SaleIds \ {b} : sales'[d] = sales[d],
           \A s \in Seats : holder[s] \notin {b, Nobody} => holder'[s] = holder[s],
           NEW d \in SaleIds, d # b, d \in Live', ~sales'[d].again
    PROVE  \A s \in sales'[d].seats : holder'[s] = d
<1>1. d \in Live /\ sales'[d] = sales[d]
    BY DEF Live
<1>2. sales[d].seats \subseteq Seats
    BY <1>1, MadeIsSale DEF Sale
<1> QED
    BY <1>1, <1>2, SeatSaleAssumption DEF SeatsAreHeld

LEMMA CreateSeats ==
    ASSUME TypeOK, SeatsAreHeld, NEW q \in requests, NEW cash \in BOOLEAN, Create(q, cash)
    PROVE  SeatsAreHeld'
<1>1. nextSale \in SaleIds /\ q.seats \subseteq Seats
    BY DEF Create, TypeOK, Request
<1>2. \A s \in Seats : holder'[s] = IF s \in q.seats THEN nextSale ELSE holder[s]
    BY DEF Create
<1>3. \A s \in Seats : holder[s] # Nobody => holder'[s] = holder[s]
    BY <1>2 DEF Create, Available
<1>4. \A d \in SaleIds \ {nextSale} : sales'[d] = sales[d]
    BY DEF Create, TypeOK
<1>5. sales'[nextSale].seats = q.seats
    BY <1>1 DEF Create, TypeOK
<1>6. ASSUME NEW d \in Live', ~sales'[d].again
      PROVE  \A s \in sales'[d].seats : holder'[s] = d
    <2>1. CASE d = nextSale
        BY <1>1, <1>2, <1>5, <2>1
    <2>2. CASE d # nextSale
        BY <1>1, <1>3, <1>4, <1>6, <2>2, UntouchedIsHeld DEF Live
    <2> QED
        BY <2>1, <2>2
<1> QED
    BY <1>6 DEF SeatsAreHeld

LEMMA BecomesLiveSeats ==
    ASSUME TypeOK, SeatsAreHeld, NEW b \in Made, NEW status \in LiveStatuses,
           BecomesLive(b, status)
    PROVE  SeatsAreHeld'
<1>1. sales[b] \in Sale /\ b \in SaleIds
    BY MadeIsSale DEF Made
<1>2. /\ sales'[b].seats = sales[b].seats
      /\ ~sales'[b].again => ~sales[b].again /\ b \in Live
      /\ holder' = holder
      /\ \A d \in SaleIds \ {b} : sales'[d] = sales[d]
    BY <1>1 DEF BecomesLive, TypeOK, Sale, Live
<1>3. ASSUME NEW d \in Live', ~sales'[d].again
      PROVE  \A s \in sales'[d].seats : holder'[s] = d
    <2>1. CASE d = b
        BY <1>2, <1>3, <2>1 DEF SeatsAreHeld
    <2>2. CASE d # b
        BY <1>1, <1>2, <1>3, <2>2, UntouchedIsHeld DEF Live
    <2> QED
        BY <2>1, <2>2
<1> QED
    BY <1>3 DEF SeatsAreHeld

LEMMA EndsSeats ==
    ASSUME TypeOK, SeatsAreHeld, NEW b \in Made,
           NEW status \in EndedStatuses,
           Ends({b}, status), holder' = holder \/ holder' = Freed({b})
    PROVE  SeatsAreHeld'
<1>1. sales[b] \in Sale /\ b \in SaleIds
    BY MadeIsSale DEF Made
<1>2. b \notin Live'
    BY <1>1 DEF Ends, Live, LiveStatuses, Sale, EndedStatuses
<1>3. \A d \in SaleIds \ {b} : sales'[d] = sales[d]
    BY DEF Ends
<1>4. \A s \in Seats : holder[s] \notin {b, Nobody} => holder'[s] = holder[s]
    BY DEF Freed
<1>5. ASSUME NEW d \in Live', ~sales'[d].again
      PROVE  \A s \in sales'[d].seats : holder'[s] = d
    BY <1>1, <1>2, <1>3, <1>4, <1>5, UntouchedIsHeld DEF Live
<1> QED
    BY <1>5 DEF SeatsAreHeld

\* Nobody is left on the trip, and who is not on it has no seats.
LEMMA CancelTripLeaves ==
    ASSUME TypeOK, CancelTrip
    PROVE  \A d \in Live' : sales'[d].seats = {}
<1> SUFFICES ASSUME NEW d \in SaleIds, sales'[d].status \in LiveStatuses
             PROVE  sales'[d].seats = {}
    BY DEF Live
<1>1. CASE d \in Live /\ sales[d].seats # {}
    <2>1. sales'[d] = [sales[d] EXCEPT !.status = "cancelled"] /\ sales[d] \in Sale
        BY <1>1, MadeIsSale DEF CancelTrip
    <2> QED
        BY <2>1 DEF LiveStatuses, Sale
<1>2. CASE ~(d \in Live /\ sales[d].seats # {})
    BY <1>2 DEF CancelTrip, Live
<1> QED
    BY <1>1, <1>2

LEMMA NextSeatsAreHeld ==
    ASSUME TypeOK, SeatsAreHeld, [Next]_vars
    PROVE  SeatsAreHeld'
<1>1. CASE UNCHANGED <<sales, holder>>
    BY <1>1 DEF SeatsAreHeld, Live
<1>2. CASE CreationStep
    BY <1>1, <1>2, CreateSeats
       DEF CreationStep, BusRequest, OtherRequest, GiveUp
<1>3. CASE SaleStep
    <2>1. PICK b \in SaleIds :
              \/ Pay(b) \/ Confirm(b) \/ Expire(b) \/ PartnerTimeout(b) \/ Cancel(b)
              \/ UzumReverse(b) \/ RefundApprove(b) \/ Complete(b)
        BY <1>3 DEF SaleStep
    <2> QED
        BY <2>1, SaleStepCases, BecomesLiveSeats, EndsSeats
<1>4. CASE CancelTrip
    BY <1>4, CancelTripLeaves DEF SeatsAreHeld
<1> QED
    BY <1>1, <1>2, <1>3, <1>4
       DEF Next, vars, TripStep, SetTripStatus, PromoStep, PromoCreate, PromoUpdate, PromoDelete

\* No seat is sold twice, whatever runs at the same time.
THEOREM SeatsStayHeld == Spec => []SeatsAreHeld
<1>1. TypeOK /\ SeatsAreHeld /\ [Next]_vars => SeatsAreHeld'
    BY NextSeatsAreHeld
<1> QED
    BY <1>1, SeatTypeCorrect, InitSeatsAreHeld, PTL DEF Spec

\* A booking that is over without a claim to its seats is left as it is, and gets
\* no seat; or it has become so, and its seats are free.
LEMMA NextSeatsComeBack ==
    ASSUME TypeOK, SeatsComeBack, [Next]_vars
    PROVE  SeatsComeBack'
<1> SUFFICES ASSUME NEW b \in SaleIds, sales'[b].status \in {"expired", "cancelled"},
                    NEW s \in Seats
             PROVE  holder'[s] # b
    BY DEF SeatsComeBack, Made
<1>1. ASSUME sales'[b] = sales[b], holder'[s] \in {holder[s], Nobody}
      PROVE  holder'[s] # b
    BY <1>1, SeatSaleAssumption DEF SeatsComeBack, Made, NoSale, SaleIds, Nobody
<1>2. CASE CreationStep
    <2>1. CASE UNCHANGED <<sales, holder>>
        BY <1>1, <2>1
    <2>2. ASSUME NEW q \in requests, NEW cash \in BOOLEAN, Create(q, cash)
          PROVE  holder'[s] # b
        <3>1. /\ nextSale \in SaleIds
              /\ sales'[nextSale].status \in LiveStatuses
              /\ \A d \in SaleIds \ {nextSale} : sales'[d] = sales[d]
              /\ holder'[s] \in {holder[s], nextSale}
            BY <2>2 DEF Create, LiveStatuses, TypeOK
        <3>2. b # nextSale
            BY <3>1 DEF LiveStatuses
        <3> QED
            BY <1>1, <3>1, <3>2
    <2> QED
        BY <1>2, <2>1, <2>2 DEF CreationStep, BusRequest, OtherRequest, GiveUp
<1>3. CASE SaleStep
    <2>1. PICK d \in SaleIds :
              \/ Pay(d) \/ Confirm(d) \/ Expire(d) \/ PartnerTimeout(d) \/ Cancel(d)
              \/ UzumReverse(d) \/ RefundApprove(d) \/ Complete(d)
        BY <1>3 DEF SaleStep
    <2>2. d \in Made /\ holder'[s] \in {holder[s], Nobody}
        BY <2>1, SaleStepCases DEF BecomesLive, Freed, TypeOK
    <2>3. CASE d # b
        <3>1. sales'[b] = sales[b]
            <4>1. \/ \E status \in LiveStatuses : BecomesLive(d, status)
                  \/ \E status \in EndedStatuses : Ends({d}, status)
                BY <2>1, SaleStepCases
            <4>2. ASSUME NEW status, BecomesLive(d, status) PROVE sales'[b] = sales[b]
                BY <2>3, <4>2 DEF BecomesLive, TypeOK
            <4>3. ASSUME NEW status, Ends({d}, status) PROVE sales'[b] = sales[b]
                BY <2>3, <4>3 DEF Ends, TypeOK
            <4> QED
                BY <4>1, <4>2, <4>3
        <3> QED
            BY <1>1, <2>2, <3>1
    <2>4. CASE d = b
        <3>1. sales[b] \in Sale
            BY <2>2, <2>4, MadeIsSale
        <3>2. CASE Pay(b) \/ Confirm(b)
            <4>1. PICK status \in LiveStatuses : BecomesLive(b, status)
                BY <3>2 DEF Pay, Confirm, LiveStatuses
            <4>2. sales'[b].status = status
                BY <3>1, <4>1 DEF BecomesLive, TypeOK, Sale
            <4> QED
                BY <4>1, <4>2 DEF LiveStatuses
        <3>3. CASE PartnerTimeout(b) \/ RefundApprove(b) \/ Complete(b)
            <4>1. PICK status \in {"unanswered", "returned", "completed"} : Ends({b}, status)
                BY <3>3 DEF PartnerTimeout, RefundApprove, Complete
            <4>2. sales'[b].status = status
                BY <3>1, <4>1 DEF Ends, Sale
            <4> QED
                BY <4>1, <4>2
        <3>4. CASE Expire(b) \/ Cancel(b) \/ UzumReverse(b)
            BY <3>4, SeatSaleAssumption
               DEF Expire, Cancel, UzumReverse, Freed, TypeOK, SaleIds, Nobody
        <3> QED
            BY <2>1, <2>4, <3>2, <3>3, <3>4
    <2> QED
        BY <2>3, <2>4
<1>4. CASE CancelTrip
    BY <1>4, SeatSaleAssumption DEF CancelTrip, SaleIds, Nobody
<1>5. CASE UNCHANGED <<sales, holder>>
    BY <1>1, <1>5
<1> QED
    BY <1>2, <1>3, <1>4, <1>5
       DEF Next, vars, TripStep, SetTripStatus, PromoStep, PromoCreate, PromoUpdate, PromoDelete

\* A booking that has expired or was cancelled by anyone keeps no seat.
THEOREM SeatsAreReturned == Spec => []SeatsComeBack
<1>1. Init => SeatsComeBack
    BY DEF Init, SeatsComeBack, Made
<1>2. TypeOK /\ SeatsComeBack /\ [Next]_vars => SeatsComeBack'
    BY NextSeatsComeBack
<1> QED
    BY <1>1, <1>2, SeatTypeCorrect, PTL DEF Spec

-----------------------------------------------------------------------------
(* The trip *)

LEMMA NextTripIsEmpty ==
    ASSUME TypeOK, CancelledTripIsEmpty, [Next]_vars
    PROVE  CancelledTripIsEmpty'
<1>1. CASE UNCHANGED <<sales, trip>>
    BY <1>1 DEF CancelledTripIsEmpty, Live
<1>2. ASSUME NEW q \in requests, NEW cash \in BOOLEAN, Create(q, cash)
      PROVE  CancelledTripIsEmpty'
    <2>1. nextSale \in SaleIds /\ sales \in [SaleIds -> Sale \union {NoSale}] /\ trip' = trip
        BY <1>2 DEF Create, TypeOK
    <2>2. /\ trip = "emptied" => sales'[nextSale].late
          /\ \A d \in SaleIds \ {nextSale} : sales'[d] = sales[d]
        BY <1>2, <2>1 DEF Create
    <2> QED
        BY <2>1, <2>2 DEF CancelledTripIsEmpty, Live
<1>3. CASE CreationStep
    BY <1>1, <1>2, <1>3 DEF CreationStep, BusRequest, OtherRequest, GiveUp
<1>4. CASE SaleStep
    <2>1. PICK b \in SaleIds :
              \/ Pay(b) \/ Confirm(b) \/ Expire(b) \/ PartnerTimeout(b) \/ Cancel(b)
              \/ UzumReverse(b) \/ RefundApprove(b) \/ Complete(b)
        BY <1>4 DEF SaleStep
    <2>2. sales[b] \in Sale
        BY <2>1, SaleStepCases, MadeIsSale
    <2>3. CASE \E status \in LiveStatuses : BecomesLive(b, status)
        <3>1. /\ trip' = trip
              /\ \A d \in SaleIds \ {b} : sales'[d] = sales[d]
              /\ sales'[b].seats = sales[b].seats
              /\ sales'[b].late = sales[b].late
              /\ sales'[b].again <=> sales[b].again \/ b \notin Live
            BY <2>2, <2>3 DEF BecomesLive, TypeOK, Sale, Live
        <3> QED
            BY <3>1 DEF CancelledTripIsEmpty, Live
    <2>4. CASE \E status \in EndedStatuses : Ends({b}, status)
        <3>1. /\ trip' = trip
              /\ \A d \in SaleIds \ {b} : sales'[d] = sales[d]
              /\ b \notin Live'
            BY <2>2, <2>4 DEF Ends, Sale, Live, LiveStatuses, EndedStatuses
        <3> QED
            BY <3>1 DEF CancelledTripIsEmpty, Live
    <2> QED
        BY <2>1, <2>3, <2>4, SaleStepCases
<1>5. CASE CancelTrip
    BY <1>5, CancelTripLeaves DEF CancelledTripIsEmpty
<1>6. ASSUME NEW status \in {"scheduled", "off"}, SetTripStatus(status)
      PROVE  CancelledTripIsEmpty'
    BY <1>6 DEF SetTripStatus, CancelledTripIsEmpty
<1>7. CASE PromoStep
    BY <1>1, <1>7 DEF PromoStep, PromoCreate, PromoUpdate, PromoDelete
<1> QED
    BY <1>1, <1>3, <1>4, <1>5, <1>6, <1>7 DEF Next, vars, TripStep

\* Nobody but latecomers is left on a trip its partner has cancelled.
THEOREM TripIsEmptied == Spec => []CancelledTripIsEmpty
<1>1. Init => CancelledTripIsEmpty
    BY DEF Init, CancelledTripIsEmpty
<1>2. TypeOK /\ CancelledTripIsEmpty /\ [Next]_vars => CancelledTripIsEmpty'
    BY NextTripIsEmpty
<1> QED
    BY <1>1, <1>2, SeatTypeCorrect, PTL DEF Spec

-----------------------------------------------------------------------------
(* The code *)

Users == {b \in Made : sales[b].code = promo.number}

\* UsesWithinLimit is not inductive.  used counts the bookings made with the
\* code; no booking knows a creation of the code still to come.
PromoInv ==
    /\ promo.limit <= promo.top
    /\ promo.used <= promo.top
    /\ \A b \in Made : sales[b].code <= promo.number
    /\ promo.exists => Cardinality(Users) <= promo.used /\ promo.number > 0

LEMMA UsersAreFinite ==
    /\ IsFiniteSet(Users) /\ Cardinality(Users) \in Nat
    /\ IsFiniteSet(Users') /\ Cardinality(Users') \in Nat
<1>1. IsFiniteSet(SaleIds)
    BY FS_Interval, SeatSaleAssumption
<1>2. Users \in SUBSET SaleIds /\ Users' \in SUBSET SaleIds
    BY DEF Users, Made
<1> QED
    BY <1>1, <1>2, FS_Subset, FS_CardinalityType

\* A booking keeps its code for life.
LEMMA CodesStay ==
    ASSUME TypeOK, SaleStep \/ TripStep
    PROVE  /\ promo' = promo
           /\ Made' = Made
           /\ \A b \in Made : sales'[b].code = sales[b].code
<1>1. CASE SaleStep
    <2>1. PICK b \in SaleIds :
              \/ Pay(b) \/ Confirm(b) \/ Expire(b) \/ PartnerTimeout(b) \/ Cancel(b)
              \/ UzumReverse(b) \/ RefundApprove(b) \/ Complete(b)
        BY <1>1 DEF SaleStep
    <2>2. sales[b] \in Sale /\ b \in Made
        BY <2>1, SaleStepCases, MadeIsSale
    <2>3. /\ promo' = promo
          /\ \A d \in SaleIds \ {b} : sales'[d] = sales[d]
          /\ sales'[b] \in Sale
          /\ sales'[b].code = sales[b].code
        <3>1. CASE \E status \in LiveStatuses : BecomesLive(b, status)
            <4>1. PICK status \in LiveStatuses : BecomesLive(b, status)
                BY <3>1
            <4>2. TypeOK'
                BY <2>2, <4>1, BecomesLiveTypeOK
            <4>3. sales'[b].status \in LiveStatuses /\ sales'[b].code = sales[b].code
                BY <2>2, <4>1 DEF BecomesLive, TypeOK, Sale
            <4>4. sales'[b] \in Sale
                BY <2>2, <4>2, <4>3 DEF TypeOK, Made, NoSale, LiveStatuses
            <4> QED
                BY <4>1, <4>3, <4>4 DEF BecomesLive, TypeOK
        <3>2. CASE \E status \in EndedStatuses : Ends({b}, status)
            BY <2>2, <3>2 DEF Ends, TypeOK, Sale, LiveStatuses
        <3> QED
            BY <2>1, <3>1, <3>2, SaleStepCases
    <2>4. sales'[b] # NoSale
        BY <2>3 DEF Sale, NoSale, LiveStatuses
    <2> QED
        BY <2>2, <2>3, <2>4 DEF Made
<1>2. CASE CancelTrip
    <2>1. \A b \in Live : sales[b] \in Sale
        BY MadeIsSale DEF Live
    <2>2. \A b \in SaleIds :
              \/ sales'[b] = sales[b]
              \/ /\ sales[b] # NoSale /\ sales'[b] # NoSale
                 /\ sales'[b].code = sales[b].code
        BY <1>2, <2>1 DEF CancelTrip, Sale, NoSale, LiveStatuses
    <2> QED
        BY <1>2, <2>2 DEF CancelTrip, Made
<1>3. CASE \E status \in {"scheduled", "off"} : SetTripStatus(status)
    <2>1. promo' = promo /\ sales' = sales
        BY <1>3 DEF SetTripStatus
    <2> QED
        BY <2>1 DEF Made
<1> QED
    BY <1>1, <1>2, <1>3 DEF TripStep

LEMMA CreatePromo ==
    ASSUME TypeOK, PromoInv, NEW q \in requests, NEW cash \in BOOLEAN, Create(q, cash)
    PROVE  PromoInv'
<1>1. nextSale \in SaleIds /\ promo \in Promo /\ q \in Request
    BY DEF Create, TypeOK
<1>2. /\ sales' \in [SaleIds -> Sale \union {NoSale}]
      /\ \A d \in SaleIds \ {nextSale} : sales'[d] = sales[d]
      /\ sales'[nextSale].code = IF q.promo THEN promo.number ELSE 0
    BY <1>1, CreateTypeOK DEF Create, TypeOK
<1>3. Made' \subseteq Made \union {nextSale}
    BY <1>2 DEF Made
<1>4. CASE q.promo
    <2>1. promo' = [promo EXCEPT !.used = @ + 1] /\ promo.used < promo.limit /\ promo.exists
        BY <1>4 DEF Create, CanRedeem
    <2>2. Users' \subseteq Users \union {nextSale}
        BY <1>1, <1>2, <1>3, <2>1 DEF Users, Made, Promo
    <2>3. Cardinality(Users') <= Cardinality(Users) + 1
        <3>1. IsFiniteSet(Users \union {nextSale})
            BY UsersAreFinite, FS_AddElement
        <3>2. Cardinality(Users \union {nextSale}) <= Cardinality(Users) + 1
            <4>1. Cardinality(Users \union {nextSale})
                      = IF nextSale \in Users THEN Cardinality(Users) ELSE Cardinality(Users) + 1
                BY UsersAreFinite, FS_AddElement
            <4> QED
                BY <4>1, UsersAreFinite
        <3>3. Cardinality(Users') <= Cardinality(Users \union {nextSale})
            BY <2>2, <3>1, FS_Subset
        <3>4. Cardinality(Users \union {nextSale}) \in Nat
            BY <3>1, FS_CardinalityType
        <3> QED
            BY <3>2, <3>3, <3>4, UsersAreFinite
    <2>4. /\ promo'.limit = promo.limit /\ promo'.top = promo.top
          /\ promo'.number = promo.number /\ promo'.exists = promo.exists
          /\ promo'.used = promo.used + 1
        BY <1>1, <2>1 DEF Promo
    <2>5. /\ promo.limit \in Nat /\ promo.top \in Nat /\ promo.used \in Nat
          /\ promo.number \in Nat
        BY <1>1, SeatSaleAssumption DEF Promo
    <2>6. promo'.limit <= promo'.top /\ promo'.used <= promo'.top
        BY <2>1, <2>4, <2>5 DEF PromoInv
    <2>7. \A b \in Made' : sales'[b].code <= promo'.number
        BY <1>2, <1>3, <1>4, <2>4, <2>5 DEF PromoInv, Made
    <2>8. Cardinality(Users') <= promo'.used /\ promo'.number > 0
        BY <2>1, <2>3, <2>4, <2>5, UsersAreFinite DEF PromoInv
    <2> QED
        BY <2>6, <2>7, <2>8 DEF PromoInv
<1>5. CASE ~q.promo
    <2>1. promo' = promo
        BY <1>5 DEF Create
    <2>2. promo.exists => promo.number > 0 /\ promo.number \in Nat
        BY <1>1, SeatSaleAssumption DEF PromoInv, Promo
    <2>3. promo.exists => Users' \subseteq Users
        BY <1>2, <1>3, <1>5, <2>1, <2>2 DEF Users, Made
    <2>4. promo.exists => Cardinality(Users') <= Cardinality(Users)
        BY <2>3, UsersAreFinite, FS_Subset
    <2>5. promo.number \in Nat /\ promo.used \in Nat
        BY <1>1, SeatSaleAssumption DEF Promo
    <2>6. \A b \in Made' : sales'[b].code <= promo'.number
        BY <1>2, <1>3, <1>5, <2>1, <2>5 DEF PromoInv, Made
    <2>7. promo.exists => Cardinality(Users') <= promo.used
        BY <2>4, <2>5, UsersAreFinite DEF PromoInv
    <2> QED
        BY <2>1, <2>6, <2>7 DEF PromoInv
<1> QED
    BY <1>4, <1>5

LEMMA AdminPromo ==
    ASSUME TypeOK, PromoInv, PromoStep
    PROVE  PromoInv'
<1>1. promo \in Promo /\ sales' = sales /\ Made' = Made
    BY DEF TypeOK, PromoStep, PromoCreate, PromoUpdate, PromoDelete, Made
<1>2. \A b \in Made : sales[b].code \in Nat
    BY MadeIsSale, SeatSaleAssumption DEF Made, Sale
<1>3. /\ promo.number \in Nat /\ promo.used \in Nat /\ promo.limit \in Nat
      /\ promo.top \in Nat
    BY <1>1, SeatSaleAssumption DEF Promo
<1>4. ASSUME NEW limit \in 0..MaxLimit, PromoCreate(limit)
      PROVE  PromoInv'
    <2>1. /\ promo'.limit = limit /\ promo'.top = limit /\ promo'.used = 0
          /\ promo'.number = promo.number + 1
        BY <1>4 DEF PromoCreate
    <2>2. \A b \in Made : sales[b].code < promo'.number
        BY <1>2, <1>3, <2>1 DEF PromoInv
    <2>3. Users' = {}
        BY <1>1, <1>2, <1>3, <2>1, <2>2 DEF Users
    <2>4. Cardinality(Users') = 0
        BY <2>3, FS_EmptySet
    <2> QED
        BY <1>1, <1>2, <1>3, <2>1, <2>2, <2>4, SeatSaleAssumption DEF PromoInv
<1>5. ASSUME NEW limit \in 0..MaxLimit, PromoUpdate(limit)
      PROVE  PromoInv'
    <2>1. /\ promo'.limit = limit /\ promo'.used = promo.used /\ promo'.number = promo.number
          /\ promo'.exists = promo.exists
          /\ promo'.top = IF limit > promo.top THEN limit ELSE promo.top
        BY <1>1, <1>5 DEF PromoUpdate, Promo
    <2>2. Users' = Users
        BY <1>1, <2>1 DEF Users
    <2> QED
        BY <1>1, <1>3, <2>1, <2>2, SeatSaleAssumption DEF PromoInv
<1>6. CASE PromoDelete
    <2>1. /\ promo'.limit = 0 /\ promo'.top = 0 /\ promo'.used = 0
          /\ promo'.number = promo.number /\ promo'.exists = FALSE
        BY <1>6 DEF PromoDelete, NoPromo
    <2> QED
        BY <1>1, <2>1 DEF PromoInv
<1> QED
    BY <1>4, <1>5, <1>6 DEF PromoStep

LEMMA NextPromoInv ==
    ASSUME TypeOK, PromoInv, [Next]_vars
    PROVE  PromoInv'
<1>1. CASE UNCHANGED <<sales, promo>>
    BY <1>1 DEF PromoInv, Users, Made
<1>2. CASE CreationStep
    BY <1>1, <1>2, CreatePromo DEF CreationStep, BusRequest, OtherRequest, GiveUp
<1>3. CASE SaleStep \/ TripStep
    <2>1. Users' = Users
        BY <1>3, CodesStay DEF Users
    <2> QED
        BY <1>3, <2>1, CodesStay DEF PromoInv
<1> QED
    BY <1>1, <1>2, <1>3, AdminPromo DEF Next, vars

\* No more bookings get the discount than the admin's limit has allowed.
THEOREM UsesStayWithinLimit == Spec => []UsesWithinLimit
<1>1. Init => PromoInv
    BY DEF Init, PromoInv, NoPromo, Made, NoSale
<1>2. TypeOK /\ PromoInv /\ [Next]_vars => PromoInv'
    BY NextPromoInv
<1>3. TypeOK /\ PromoInv => UsesWithinLimit
    <2> SUFFICES ASSUME TypeOK, PromoInv, promo.exists
                 PROVE  Cardinality(Users) <= promo.top
        BY DEF UsesWithinLimit, Users
    <2>1. promo.used \in Nat /\ promo.top \in Nat
        BY SeatSaleAssumption DEF TypeOK, Promo
    <2> QED
        BY <2>1, UsersAreFinite DEF PromoInv
<1> QED
    BY <1>1, <1>2, <1>3, SeatTypeCorrect, PTL DEF Spec

=============================================================================
