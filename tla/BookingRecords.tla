--------------------------- MODULE BookingRecords ---------------------------
(***************************************************************************)
(* The rows that one booking owns in the SAFAAR database, and the reads    *)
(* that every service makes of them: the booking row, its payments, the    *)
(* claimed payment events, its refunds and its partner ledger entries.     *)
(*                                                                         *)
(* Every transaction of payments.service, bookings.service, admin.service  *)
(* and partners.service that is modelled on top of this module reads and   *)
(* writes the rows of a single booking, so a behaviour of this module is   *)
(* the life of one booking.  What several bookings share (seats, rooms,    *)
(* the partner's balance) is in modules of its own.                        *)
(***************************************************************************)
EXTENDS Naturals, FiniteSets

CONSTANTS
    UzumTxns,     \* transId values that Uzum Bank (Merchant API) may use
    ClickTxns,    \* click_trans_id values that Click may use
    Orders,       \* orderId values that Uzum Checkout may hand out
    NoTxn,        \* a NULL provider_reference or idempotency_key
    Profiles,     \* the kinds of booking created: mode, bus seats, guest or not
    Methods,      \* payment methods a booking may be created with
    Asked,        \* payment methods a new session may then be asked for
    MaxPayments,  \* bound: payment rows one booking may ever have
    MaxRefunds,   \* bound: refund rows one booking may ever have
    MaxInflight   \* bound: requests that are between two awaits at a time

Txns == UzumTxns \union ClickTxns \union Orders

PaymentIds == 1..MaxPayments      \* in the order of payments.created_at
RefundIds  == 1..MaxRefunds

ASSUME BookingRecordsAssumption ==
    /\ MaxPayments \in Nat \ {0}
    /\ MaxRefunds \in Nat
    /\ MaxInflight \in Nat
    /\ NoTxn \notin Txns
    /\ UzumTxns \intersect ClickTxns = {}
    /\ UzumTxns \intersect Orders = {}
    /\ ClickTxns \intersect Orders = {}
    /\ Profiles \subseteq [mode  : {"instant_confirmation", "request_confirmation"},
                           seats : {"none", "held"},
                           guest : BOOLEAN]
    /\ Methods \union Asked \subseteq {"click", "uzum", "uzum_checkout", "cash"}

VARIABLES
    booking,   \* the row of bookings, with the seats it holds in trip_seats
    payments,  \* the rows of payments, by id; "absent" before insert and after delete
    nextPay,   \* the id the next inserted payment takes
    events,    \* payment_events.event_key values that have been claimed
    refunds,   \* the rows of refunds: the status of each
    ledger,    \* how many partner_ledger_entries of each type the booking has
    orders,    \* the state of each order at Uzum Checkout (external)
    inflight   \* requests suspended at an await, with what they read before it

vars == <<booking, payments, nextPay, events, refunds, ledger, orders, inflight>>

-----------------------------------------------------------------------------
(* Types *)

OpenStatuses    == {"pending", "awaiting_payment"}
SoldStatuses    == {"confirmed", "awaiting_partner_confirmation", "completed"}
SettledStatuses == {"expired", "cancelled"}
BookingStatuses == OpenStatuses \union SoldStatuses \union SettledStatuses

OpenPayment      == {"pending", "processing"}
TerminalPayment  == {"paid", "reversed", "refunded", "failed"}
PaymentStatuses  == OpenPayment \union TerminalPayment \union {"awaiting_cash"}

\* confirmation_mode, expires_at, partner_confirmation_deadline (relative to
\* now), the bus seats held_by this booking, payment_method = 'cash', and
\* whether the booking has no user_id.
Booking == [status   : BookingStatuses,
            mode     : {"instant_confirmation", "request_confirmation"},
            expires  : {"never", "ahead", "past"},
            deadline : {"none", "ahead", "past"},
            seats    : {"none", "held", "released"},
            cash     : BOOLEAN,
            guest    : BOOLEAN]

\* age of created_at: under 5 minutes, under 30 minutes, older.
Ages == {"fresh", "settling", "stale"}

Payment == [status   : PaymentStatuses,
            provider : {"click", "uzum", "uzum_checkout", "cash"},
            ref      : Txns \union {NoTxn},    \* provider_reference
            idem     : Txns \union {NoTxn},    \* idempotency_key, without its prefix
            age      : Ages]

Absent == [status   |-> "absent", provider |-> "cash",
           ref      |-> NoTxn,    idem     |-> NoTxn, age |-> "fresh"]

EventKinds == {"prepare", "complete", "create", "confirm", "reverse"}
EventKeys  == EventKinds \X Txns

RefundStatuses == {"absent", "requested", "approved", "rejected"}

Ledger == [earned : Nat, reversed : Nat, refund : Nat]

OrderStates == {"none", "registered", "offered", "completed", "declined", "refunded"}

\* A suspended request: the handler and step it waits in, the method asked
\* for, the payment row and the transaction it read before the await.
TxnOps   == {"pay.insert", "confirm", "callback", "sync"}
PlainOps == {"pay.select", "pay.delete", "pay.write", "retry.select", "retry.insert",
             "cancel", "cash", "reject", "status.confirmed", "noshow",
             "refund.insert"}

RequestOf(ops, txns) ==
    [op     : ops,
     method : {"click", "uzum", "uzum_checkout", "cash"},
     pay    : 0..MaxPayments,
     txn    : txns]

Request == RequestOf(TxnOps, Txns) \union RequestOf(PlainOps, {NoTxn})

TypeOK ==
    /\ booking \in Booking
    /\ payments \in [PaymentIds -> Payment \union {Absent}]
    /\ nextPay \in 1..(MaxPayments + 1)
    /\ events \in SUBSET EventKeys
    /\ refunds \in [RefundIds -> RefundStatuses]
    /\ ledger \in Ledger
    /\ orders \in [Orders -> OrderStates]
    /\ inflight \in SUBSET Request

-----------------------------------------------------------------------------
(* Reads *)

Stored == {p \in PaymentIds : payments[p] # Absent}

WithStatus(S) == {p \in Stored : payments[p].status \in S}

\* ORDER BY created_at DESC LIMIT 1
Latest(S) == CHOOSE p \in S : \A q \in S : q <= p

\* ORDER BY (status IN ('pending', 'processing')) DESC, created_at DESC LIMIT 1
Picked(S) ==
    Latest(IF S \intersect WithStatus(OpenPayment) # {}
             THEN S \intersect WithStatus(OpenPayment) ELSE S)

\* provider = 'uzum' AND (provider_reference = t OR idempotency_key = 'uzum:t')
UzumPayments(t) ==
    {p \in Stored : /\ payments[p].provider = "uzum"
                    /\ t \in {payments[p].ref, payments[p].idem}}

HasPaid == WithStatus({"paid"}) # {}

LiveRefund     == \E r \in RefundIds : refunds[r] \in {"requested", "approved"}
FreeRefunds    == {r \in RefundIds : refunds[r] = "absent"}
RoomForPayment == nextPay <= MaxPayments

-----------------------------------------------------------------------------
(* Writes *)

\* INSERT INTO payments: created_at is later than that of every other row.
Inserted(row) == [payments EXCEPT ![nextPay] = row]

NewRow(status, provider, txn) ==
    [status |-> status, provider |-> provider, ref |-> txn, idem |-> txn, age |-> "fresh"]

\* INSERT INTO refunds ... 'requested'
OpenRefund ==
    /\ FreeRefunds # {}
    /\ refunds' = [refunds EXCEPT ![CHOOSE r \in FreeRefunds :
                                        \A s \in FreeRefunds : r <= s] = "requested"]

\* UPDATE trip_seats SET status = 'available' WHERE held_by_booking_id = id
Released(seats) == IF seats = "held" THEN "released" ELSE seats

\* A request is suspended at an await, keeping what it has read.
Suspend(op, method, pay, txn) ==
    LET q == [op |-> op, method |-> method, pay |-> pay, txn |-> txn]
    IN  /\ Cardinality(inflight) < MaxInflight
        /\ q \notin inflight
        /\ inflight' = inflight \union {q}

Resume(q) == inflight' = inflight \ {q}

\* The same request passes its next await.
Advance(q, op, pay, txn) ==
    inflight' = (inflight \ {q}) \union
                {[op |-> op, method |-> q.method, pay |-> pay, txn |-> txn]}

=============================================================================
