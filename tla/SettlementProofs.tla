-------------------------- MODULE SettlementProofs --------------------------
(***************************************************************************)
(* What TLAPS proves of Settlement, for every value of its constants.      *)
(***************************************************************************)
EXTENDS Settlement, WellFoundedInduction, TLAPS

-----------------------------------------------------------------------------
(* The reads of BookingRecords.                                            *)

\* ORDER BY created_at DESC LIMIT 1 returns a row of the set, and its latest.
LEMMA LatestIsLast ==
    ASSUME NEW S \in SUBSET PaymentIds, S # {}
    PROVE  Latest(S) \in S /\ \A q \in S : q <= Latest(S)
<1> DEFINE fromTop == {MaxPayments - s : s \in S}
<1>1. MaxPayments \in Nat
    BY BookingRecordsAssumption
<1>2. fromTop \in SUBSET Nat
    BY <1>1 DEF PaymentIds
<1>3. PICK s \in S : TRUE
    OBVIOUS
<1>4. MaxPayments - s \in fromTop
    OBVIOUS
<1> HIDE DEF fromTop
<1>5. PICK m \in fromTop : \A k \in fromTop : <<k, m>> \notin OpToRel(<, Nat)
    BY <1>2, <1>4, WFMin, NatLessThanWellFounded
<1>6. \A k \in fromTop : ~ (k < m)
    BY <1>2, <1>5 DEF OpToRel
<1>7. PICK top \in S : m = MaxPayments - top
    BY <1>5 DEF fromTop
<1>8. \A q \in S : q <= top
    <2> SUFFICES ASSUME NEW q \in S PROVE q <= top
        OBVIOUS
    <2>1. ~ (MaxPayments - q < MaxPayments - top)
        BY <1>6, <1>7 DEF fromTop
    <2>2. q \in Int /\ top \in Int
        BY <1>1 DEF PaymentIds
    <2> QED
        BY <2>1, <2>2, <1>1
<1> QED
    BY <1>8 DEF Latest

\* So does the preference for open rows, among the rows it is given.
LEMMA PickedIsMember ==
    ASSUME NEW S \in SUBSET PaymentIds, S # {}
    PROVE  Picked(S) \in S
<1>1. CASE S \intersect WithStatus(OpenPayment) # {}
    BY <1>1, LatestIsLast, S \intersect WithStatus(OpenPayment) \in SUBSET PaymentIds DEF Picked
<1>2. CASE S \intersect WithStatus(OpenPayment) = {}
    BY <1>2, LatestIsLast DEF Picked
<1> QED
    BY <1>1, <1>2

\* INSERT INTO refunds opens one, and touches no other.
LEMMA OpenRefundOpens ==
    ASSUME refunds \in [RefundIds -> RefundStatuses], OpenRefund
    PROVE  RefundOutstanding' /\ \A r \in RefundIds : refunds[r] # "absent" => refunds'[r] = refunds[r]
<1> DEFINE first == CHOOSE r \in FreeRefunds : \A s \in FreeRefunds : r <= s
<1>1. FreeRefunds \in SUBSET Nat
    BY BookingRecordsAssumption DEF FreeRefunds, RefundIds
<1>2. PICK free \in FreeRefunds : TRUE
    BY DEF OpenRefund
<1>3. PICK m \in FreeRefunds : \A s \in FreeRefunds : <<s, m>> \notin OpToRel(<, Nat)
    BY <1>1, <1>2, WFMin, NatLessThanWellFounded
<1>4. \A s \in FreeRefunds : m <= s
    <2> SUFFICES ASSUME NEW s \in FreeRefunds PROVE m <= s
        OBVIOUS
    <2>1. m \in Nat /\ s \in Nat /\ ~ (s < m)
        BY <1>1, <1>3 DEF OpToRel
    <2> QED
        BY <2>1
<1>5. first \in FreeRefunds
    BY <1>4
<1>6. first \in RefundIds /\ refunds[first] = "absent"
    BY <1>5 DEF FreeRefunds
<1>7. refunds' = [refunds EXCEPT ![first] = "requested"]
    BY DEF OpenRefund
<1> HIDE DEF first
<1>8. refunds'[first] = "requested" /\ \A r \in RefundIds : r # first => refunds'[r] = refunds[r]
    BY <1>6, <1>7
<1> QED
    BY <1>6, <1>8 DEF RefundOutstanding

-----------------------------------------------------------------------------
(* Type correctness.                                                       *)

\* The type of each kind of write to the rows.
Rows == [PaymentIds -> Payment \union {Absent}]

LEMMA StatusUpdate ==
    ASSUME NEW rows \in Rows, NEW p, NEW s \in PaymentStatuses
    PROVE  [rows EXCEPT ![p].status = s] \in Rows
<1>1. ASSUME p \in PaymentIds
      PROVE  [rows[p] EXCEPT !.status = s] \in Payment
    BY <1>1 DEF Rows, Payment, Absent, Ages
<1> QED
    BY <1>1 DEF Rows

\* ... and of the reference with it, by an event.
LEMMA EventUpdate ==
    ASSUME NEW rows \in Rows, NEW p, NEW s \in PaymentStatuses, NEW t \in Txns
    PROVE  [rows EXCEPT ![p].status = s, ![p].ref = t] \in Rows
<1>1. ASSUME NEW row \in Payment
      PROVE  [row EXCEPT !.status = s, !.ref = t] \in Payment
    BY DEF Payment
<1>2. [Absent EXCEPT !.status = s, !.ref = t] \in Payment
    BY DEF Payment, Absent, Ages
<1>3. p \in PaymentIds => [rows[p] EXCEPT !.status = s, !.ref = t] \in Payment
    BY <1>1, <1>2 DEF Rows
<1> QED
    BY <1>3 DEF Rows

LEMMA RowUpdate ==
    ASSUME NEW rows \in Rows, NEW p, NEW row \in Payment \union {Absent}
    PROVE  [rows EXCEPT ![p] = row] \in Rows
BY DEF Rows

LEMMA SuspendType ==
    ASSUME inflight \in SUBSET Request, NEW op,
           NEW method \in {"click", "uzum", "uzum_checkout", "cash"},
           NEW pay \in 0..MaxPayments, NEW txn,
           (op \in TxnOps /\ txn \in Txns) \/ (op \in PlainOps /\ txn = NoTxn),
           Suspend(op, method, pay, txn)
    PROVE  inflight' \in SUBSET Request
<1>1. [op |-> op, method |-> method, pay |-> pay, txn |-> txn] \in Request
    BY DEF Request, RequestOf
<1> QED
    BY <1>1 DEF Suspend

LEMMA ResumeType ==
    ASSUME inflight \in SUBSET Request, NEW q \in inflight, Resume(q)
    PROVE  inflight' \in SUBSET Request
BY DEF Resume

LEMMA AdvanceType ==
    ASSUME inflight \in SUBSET Request, NEW q \in inflight, NEW op,
           NEW pay \in 0..MaxPayments, NEW txn,
           (op \in TxnOps /\ txn \in Txns) \/ (op \in PlainOps /\ txn = NoTxn),
           Advance(q, op, pay, txn)
    PROVE  inflight' \in SUBSET Request
<1>1. [op |-> op, method |-> q.method, pay |-> pay, txn |-> txn] \in Request
    BY DEF Request, RequestOf
<1> QED
    BY <1>1 DEF Advance

LEMMA OpenRefundType ==
    ASSUME refunds \in [RefundIds -> RefundStatuses], OpenRefund
    PROVE  refunds' \in [RefundIds -> RefundStatuses]
BY DEF OpenRefund, RefundStatuses

LEMMA InitTypeOK == Init => TypeOK
<1> SUFFICES ASSUME Init PROVE TypeOK
    OBVIOUS
<1>1. PICK profile \in Profiles, method \in Methods : Created(profile, method)
    BY DEF Init
<1>2. /\ method \in {"click", "uzum", "uzum_checkout", "cash"}
      /\ profile \in [mode  : {"instant_confirmation", "request_confirmation"},
                      seats : {"none", "held"}, guest : BOOLEAN]
    BY BookingRecordsAssumption
<1>3. booking \in Booking
    BY <1>1, <1>2 DEF Created, Booking, BookingStatuses, OpenStatuses, SoldStatuses
<1>4. payments \in [PaymentIds -> Payment \union {Absent}]
    BY <1>1, <1>2 DEF Created, Draft, NewRow, Payment, PaymentStatuses, OpenPayment, Ages
<1>5. nextPay \in 1..(MaxPayments + 1)
    BY BookingRecordsAssumption DEF Init
<1> QED
    BY <1>3, <1>4, <1>5 DEF Init, TypeOK, RefundStatuses, OrderStates, Ledger

LEMMA PaySelectType ==
    ASSUME TypeOK, NEW q \in inflight, PaySelect(q)
    PROVE  TypeOK'
<1> DEFINE open == WithStatus(OpenPayment)
<1>1. open \in SUBSET PaymentIds
    BY DEF WithStatus, Stored
<1>2. open # {} => Latest(open) \in 0..MaxPayments
    <2> SUFFICES ASSUME open # {} PROVE Latest(open) \in 0..MaxPayments
        OBVIOUS
    <2>1. Latest(open) \in PaymentIds
        BY <1>1, LatestIsLast
    <2> QED
        BY <2>1, BookingRecordsAssumption DEF PaymentIds
<1> HIDE DEF open
<1>3. inflight' \in SUBSET Request
    <2>1. CASE Advance(q, "pay.write", 0, NoTxn)
        BY <2>1, AdvanceType, BookingRecordsAssumption DEF TypeOK, PlainOps
    <2>2. CASE open # {} /\ Advance(q, "pay.delete", Latest(open), NoTxn)
        BY <2>2, <1>2, AdvanceType DEF TypeOK, PlainOps
    <2>3. CASE Resume(q)
        BY <2>3, ResumeType DEF TypeOK
    <2> QED
        BY <2>1, <2>2, <2>3 DEF PaySelect, open
<1> QED
    BY <1>3 DEF PaySelect, TypeOK

LEMMA PayDeleteType ==
    ASSUME TypeOK, NEW q \in inflight, PayDelete(q)
    PROVE  TypeOK'
<1>1. inflight' \in SUBSET Request
    BY AdvanceType, BookingRecordsAssumption DEF PayDelete, TypeOK, PlainOps
<1>2. payments' \in Rows
    BY RowUpdate DEF PayDelete, TypeOK, Rows
<1> QED
    BY <1>1, <1>2 DEF PayDelete, TypeOK, Rows

LEMMA PayWriteType ==
    ASSUME TypeOK, NEW q \in inflight, PayWrite(q)
    PROVE  TypeOK'
<1>1. CASE q.method = "uzum_checkout"
    <2>1. PICK o \in Orders : /\ orders' = [orders EXCEPT ![o] = "registered"]
                              /\ Advance(q, "pay.insert", 0, o)
        BY <1>1 DEF PayWrite
    <2>2. inflight' \in SUBSET Request
        BY <2>1, AdvanceType, BookingRecordsAssumption DEF TypeOK, TxnOps, Txns
    <2>3. orders' \in [Orders -> OrderStates]
        BY <2>1 DEF TypeOK, OrderStates
    <2> QED
        BY <1>1, <2>2, <2>3 DEF PayWrite, TypeOK
<1>2. CASE q.method # "uzum_checkout"
    <2>1. inflight' \in SUBSET Request
        BY <1>2, ResumeType DEF PayWrite, TypeOK
    <2> DEFINE row == NewRow(IF q.method = "cash" THEN "awaiting_cash" ELSE "pending",
                             q.method, NoTxn)
    <2>2. row \in Payment
        BY DEF TypeOK, Request, RequestOf, NewRow, Payment, PaymentStatuses, OpenPayment, Ages
    <2>3. payments' = [payments EXCEPT ![nextPay] = row]
        BY <1>2 DEF PayWrite, Inserted
    <2> HIDE DEF row
    <2>4. payments' \in Rows
        BY <2>2, <2>3, RowUpdate DEF TypeOK, Rows
    <2>5. nextPay' \in 1..(MaxPayments + 1)
        BY <1>2, BookingRecordsAssumption DEF PayWrite, TypeOK, RoomForPayment
    <2> QED
        BY <1>2, <2>1, <2>4, <2>5 DEF PayWrite, TypeOK, Rows
<1> QED
    BY <1>1, <1>2

LEMMA PayInsertType ==
    ASSUME TypeOK, NEW q \in inflight, PayInsert(q)
    PROVE  TypeOK'
<1>1. NewRow("processing", "uzum_checkout", q.txn) \in Payment
    BY DEF TypeOK, Request, RequestOf, NewRow, Payment, PaymentStatuses, OpenPayment, Ages
<1>2. payments' \in Rows
    BY <1>1, RowUpdate DEF PayInsert, Inserted, TypeOK, Rows
<1>3. nextPay' \in 1..(MaxPayments + 1)
    BY BookingRecordsAssumption DEF PayInsert, TypeOK, RoomForPayment
<1>4. inflight' \in SUBSET Request
    BY ResumeType DEF PayInsert, TypeOK
<1>5. orders' \in [Orders -> OrderStates]
    BY DEF PayInsert, TypeOK, OrderStates
<1> QED
    BY <1>2, <1>3, <1>4, <1>5 DEF PayInsert, TypeOK, Rows

\* The common transaction of the webhooks.
LEMMA ProcessPaymentEventType ==
    ASSUME TypeOK, NEW kind \in EventKinds, NEW t \in Txns,
           NEW status \in {"processing", "paid"},
           ProcessPaymentEvent(kind, t, status)
    PROVE  /\ booking' \in Booking
           /\ payments' \in Rows
           /\ nextPay' \in 1..(MaxPayments + 1)
           /\ events' \in SUBSET EventKeys
           /\ refunds' \in [RefundIds -> RefundStatuses]
           /\ ledger' \in Ledger
           /\ orders' \in [Orders -> OrderStates]
<1>1. events' \in SUBSET EventKeys
    BY DEF ProcessPaymentEvent, TypeOK, EventKeys
<1>2. payments' \in Rows
    <2> DEFINE p == Picked(Stored)
    <2>1. CASE UNCHANGED payments
        BY <2>1 DEF TypeOK, Rows
    <2>2. ASSUME payments' = [payments EXCEPT ![p].status = status, ![p].ref = t]
          PROVE  payments' \in Rows
        <3>1. status \in PaymentStatuses
            BY DEF PaymentStatuses, OpenPayment, TerminalPayment
        <3> QED
            BY <2>2, <3>1, EventUpdate DEF TypeOK, Rows
    <2> QED
        BY <2>1, <2>2 DEF ProcessPaymentEvent
<1>3. /\ booking' \in Booking
      /\ refunds' \in [RefundIds -> RefundStatuses]
      /\ ledger' \in Ledger
    <2>1. CASE UNCHANGED <<booking, refunds, ledger>>
        BY <2>1 DEF TypeOK
    <2>2. CASE SettleOpenBooking
        <3>1. ASSUME NEW s \in SoldStatuses
              PROVE  [booking EXCEPT !.status = s, !.expires = "never"] \in Booking
            BY DEF TypeOK, Booking, BookingStatuses
        <3>2. booking' \in Booking
            BY <2>2, <3>1 DEF SettleOpenBooking, SoldStatuses
        <3>3. ledger' \in Ledger
            BY <2>2 DEF SettleOpenBooking, TypeOK, Ledger
        <3> QED
            BY <2>2, <3>2, <3>3 DEF SettleOpenBooking, TypeOK
    <2>3. CASE RefundLostRace
        BY <2>3, OpenRefundType DEF RefundLostRace, TypeOK
    <2> QED
        BY <2>1, <2>2, <2>3 DEF ProcessPaymentEvent, KeepSoldBooking
<1> QED
    BY <1>1, <1>2, <1>3 DEF ProcessPaymentEvent, TypeOK

\* The writes to the booking: a new status, with its seats released or not.
LEMMA BookingUpdate ==
    ASSUME booking \in Booking, NEW s \in BookingStatuses
    PROVE  /\ [booking EXCEPT !.status = s] \in Booking
           /\ [booking EXCEPT !.status = s, !.seats = Released(@)] \in Booking
           /\ [booking EXCEPT !.seats = Released(@)] \in Booking
           /\ [booking EXCEPT !.status = s, !.expires = "never",
                              !.seats = Released(@)] \in Booking
           /\ [booking EXCEPT !.status = s, !.cash = TRUE, !.expires = "never"] \in Booking
<1>1. Released(booking.seats) \in {"none", "held", "released"}
    BY DEF Booking, Released
<1> DEFINE seats == Released(booking.seats)
<1> HIDE DEF seats
<1>2. seats \in {"none", "held", "released"}
    BY <1>1 DEF seats
<1>3. /\ [booking EXCEPT !.status = s, !.seats = seats] \in Booking
      /\ [booking EXCEPT !.seats = seats] \in Booking
      /\ [booking EXCEPT !.status = s, !.expires = "never", !.seats = seats] \in Booking
    BY <1>2 DEF Booking
<1>4. /\ [booking EXCEPT !.status = s] \in Booking
      /\ [booking EXCEPT !.status = s, !.cash = TRUE, !.expires = "never"] \in Booking
    BY DEF Booking
<1> QED
    BY <1>3, <1>4 DEF seats

LEMMA UzumCreateType ==
    ASSUME TypeOK, NEW t \in UzumTxns, UzumCreate(t)
    PROVE  TypeOK'
<1> DEFINE open == WithStatus(OpenPayment)
           row(age) == [status |-> "processing", provider |-> "uzum",
                        ref |-> t, idem |-> t, age |-> age]
<1>1. ASSUME NEW age \in Ages PROVE row(age) \in Payment
    BY DEF Payment, PaymentStatuses, OpenPayment, Txns
<1>2. payments' \in Rows /\ nextPay' \in 1..(MaxPayments + 1)
    <2>1. CASE open # {}
        <3>1. Latest(open) \in open
            BY <2>1, LatestIsLast DEF WithStatus, Stored
        <3>2. payments[Latest(open)] \in Payment
            BY <3>1 DEF WithStatus, Stored, TypeOK
        <3>3. payments[Latest(open)].age \in Ages
            BY <3>2 DEF Payment
        <3> HIDE DEF open, row
        <3>4. payments' = [payments EXCEPT ![Latest(open)] = row(payments[Latest(open)].age)]
              /\ UNCHANGED nextPay
            BY <2>1 DEF UzumCreate, open, row
        <3>5. row(payments[Latest(open)].age) \in Payment
            BY <1>1, <3>3
        <3> QED
            BY <3>4, <3>5, RowUpdate DEF TypeOK, Rows
    <2>2. CASE open = {}
        <3>1. row("fresh") \in Payment
            BY <1>1 DEF Ages
        <3>2. RoomForPayment /\ payments' = Inserted(row("fresh")) /\ nextPay' = nextPay + 1
            BY <2>2 DEF UzumCreate
        <3> HIDE DEF row
        <3> QED
            BY <3>1, <3>2, RowUpdate, BookingRecordsAssumption
               DEF Inserted, RoomForPayment, TypeOK, Rows
    <2> QED
        BY <2>1, <2>2
<1>3. booking' \in Booking
    BY DEF UzumCreate, TypeOK, Booking
<1>4. events' \in SUBSET EventKeys
    BY DEF UzumCreate, TypeOK, EventKeys, EventKinds, Txns
<1> QED
    BY <1>2, <1>3, <1>4 DEF UzumCreate, TypeOK, Rows

LEMMA UzumReverseType ==
    ASSUME TypeOK, NEW t \in UzumTxns, UzumReverse(t)
    PROVE  TypeOK'
<1>1. "reversed" \in PaymentStatuses
    BY DEF PaymentStatuses, TerminalPayment
<1>2. payments' \in Rows
    BY <1>1, StatusUpdate DEF UzumReverse, TypeOK, Rows
<1>3. "cancelled" \in BookingStatuses
    BY DEF BookingStatuses, SettledStatuses
<1>4. booking' \in Booking
    BY <1>3, BookingUpdate DEF UzumReverse, TypeOK
<1>5. ledger' \in Ledger
    BY DEF UzumReverse, TypeOK, Ledger
<1>6. events' \in SUBSET EventKeys
    BY DEF UzumReverse, TypeOK, EventKeys, EventKinds, Txns
<1> QED
    BY <1>2, <1>4, <1>5, <1>6 DEF UzumReverse, TypeOK, Rows

\* Requests that only read, and wait.
LEMMA ReadTypes ==
    ASSUME TypeOK,
           \/ \E m \in Asked : PayRequest(m)
           \/ \E t \in UzumTxns : UzumConfirmRead(t)
           \/ \E o \in Orders : CheckoutCallback(o)
           \/ \E p \in PaymentIds : SyncRead(p)
           \/ CancelRequest \/ RetryRequest \/ CashRequest \/ NoShowRequest
           \/ ConfirmRequest \/ RejectRequest \/ RefundRequest
    PROVE  TypeOK'
<1> USE DEF TypeOK, TxnOps, PlainOps
<1>1. inflight' \in SUBSET Request
    <2>1. CASE \E m \in Asked : PayRequest(m)
        <3>1. PICK m \in Asked : Suspend("pay.select", m, 0, NoTxn)
            BY <2>1 DEF PayRequest
        <3>2. [op |-> "pay.select", method |-> m, pay |-> 0, txn |-> NoTxn] \in Request
            BY BookingRecordsAssumption DEF Request, RequestOf
        <3> QED
            BY <3>1, <3>2 DEF Suspend
    <2>2. CASE \E t \in UzumTxns : UzumConfirmRead(t)
        <3>1. PICK t \in UzumTxns : Suspend("confirm", "uzum", 0, t)
            BY <2>2 DEF UzumConfirmRead
        <3>2. [op |-> "confirm", method |-> "uzum", pay |-> 0, txn |-> t] \in Request
            BY BookingRecordsAssumption DEF Request, RequestOf, Txns
        <3> QED
            BY <3>1, <3>2 DEF Suspend
    <2>3. CASE \E o \in Orders : CheckoutCallback(o)
        <3>1. PICK o \in Orders : Suspend("callback", "uzum_checkout", 0, o)
            BY <2>3 DEF CheckoutCallback
        <3>2. [op |-> "callback", method |-> "uzum_checkout", pay |-> 0, txn |-> o] \in Request
            BY BookingRecordsAssumption DEF Request, RequestOf, Txns
        <3> QED
            BY <3>1, <3>2 DEF Suspend
    <2>4. CASE \E p \in PaymentIds : SyncRead(p)
        <3>1. PICK p \in PaymentIds : /\ payments[p].ref \in Orders
                                      /\ Suspend("sync", "uzum_checkout", p, payments[p].ref)
            BY <2>4 DEF SyncRead
        <3>2. p \in 0..MaxPayments
            BY BookingRecordsAssumption DEF PaymentIds
        <3> QED
            BY <3>1, <3>2, SuspendType DEF Txns
    <2>5. CASE \/ CancelRequest \/ RetryRequest \/ CashRequest \/ NoShowRequest
               \/ ConfirmRequest \/ RejectRequest \/ RefundRequest
        <3>1. PICK op \in PlainOps, m \in {"click", "cash"} : Suspend(op, m, 0, NoTxn)
            BY <2>5 DEF CancelRequest, RetryRequest, CashRequest, NoShowRequest,
                        ConfirmRequest, RejectRequest, RefundRequest
        <3>2. 0 \in 0..MaxPayments
            BY BookingRecordsAssumption
        <3>3. op \in PlainOps /\ m \in {"click", "uzum", "uzum_checkout", "cash"}
            OBVIOUS
        <3> HIDE DEF PlainOps, TxnOps
        <3>4. inflight \in SUBSET Request
            OBVIOUS
        <3> HIDE DEF TypeOK
        <3> QED
            BY <3>1, <3>2, <3>3, <3>4, SuspendType
    <2> QED
        BY <2>1, <2>2, <2>3, <2>4, <2>5
<1>2. UNCHANGED <<booking, payments, nextPay, events, refunds, ledger, orders>>
    BY DEF PayRequest, UzumConfirmRead, CheckoutCallback, SyncRead, CancelRequest,
           RetryRequest, CashRequest, NoShowRequest, ConfirmRequest, RejectRequest,
           RefundRequest
<1> QED
    BY <1>1, <1>2

LEMMA SyncFailedType ==
    ASSUME TypeOK, NEW q \in inflight, SyncFailed(q)
    PROVE  TypeOK'
<1>1. "failed" \in PaymentStatuses
    BY DEF PaymentStatuses, TerminalPayment
<1>2. payments' \in Rows
    BY <1>1, StatusUpdate DEF SyncFailed, TypeOK, Rows
<1>3. inflight' \in SUBSET Request
    BY ResumeType DEF SyncFailed, TypeOK
<1> QED
    BY <1>2, <1>3 DEF SyncFailed, TypeOK, Rows

LEMMA FailStaleType ==
    ASSUME TypeOK, FailStaleUzumTransactions
    PROVE  TypeOK'
<1>1. ASSUME NEW p \in StaleUzum
      PROVE  [payments[p] EXCEPT !.status = "failed"] \in Payment
    <2>1. payments[p] \in Payment
        BY DEF StaleUzum, WithStatus, Stored, TypeOK
    <2> QED
        BY <2>1 DEF Payment, PaymentStatuses, TerminalPayment
<1>2. payments' \in Rows
    BY <1>1 DEF FailStaleUzumTransactions, TypeOK, Rows
<1> QED
    BY <1>2 DEF FailStaleUzumTransactions, TypeOK, Rows

LEMMA PaymentAgesType ==
    ASSUME TypeOK, NEW p \in PaymentIds, PaymentAges(p)
    PROVE  TypeOK'
<1>1. payments[p] \in Payment
    BY DEF PaymentAges, WithStatus, Stored, TypeOK
<1>2. Older(payments[p].age) \in Ages
    BY DEF Older, Ages
<1> DEFINE age == Older(payments[p].age)
<1>3. payments' = [payments EXCEPT ![p].age = age]
    BY DEF PaymentAges
<1> HIDE DEF age
<1>4. [payments[p] EXCEPT !.age = age] \in Payment
    BY <1>1, <1>2 DEF Payment, age
<1>5. payments' \in Rows
    BY <1>3, <1>4 DEF TypeOK, Rows
<1> QED
    BY <1>5 DEF PaymentAges, TypeOK, Rows

LEMMA PaymentStepType ==
    ASSUME TypeOK, PaymentStep
    PROVE  TypeOK'
<1>1. ASSUME NEW m \in Asked, PayRequest(m) PROVE TypeOK'
    BY <1>1, ReadTypes
<1>2. ASSUME NEW q \in inflight, PaySelect(q) PROVE TypeOK'
    BY <1>2, PaySelectType
<1>3. ASSUME NEW q \in inflight, PayDelete(q) PROVE TypeOK'
    BY <1>3, PayDeleteType
<1>4. ASSUME NEW q \in inflight, PayWrite(q) PROVE TypeOK'
    BY <1>4, PayWriteType
<1>5. ASSUME NEW q \in inflight, PayInsert(q) PROVE TypeOK'
    BY <1>5, PayInsertType
<1>6. ASSUME NEW q \in inflight, UzumConfirm(q) \/ CheckoutApply(q) PROVE TypeOK'
    <2>1. /\ ProcessPaymentEvent("confirm", q.txn, "paid")
          /\ Resume(q)
          /\ q.op \in TxnOps
        BY <1>6 DEF UzumConfirm, CheckoutApply, TxnOps
    <2>2. q.txn \in Txns
        BY <2>1 DEF TypeOK, Request, RequestOf, TxnOps, PlainOps
    <2>3. inflight' \in SUBSET Request
        BY <2>1, ResumeType DEF TypeOK
    <2> QED
        BY <2>1, <2>2, <2>3, ProcessPaymentEventType DEF TypeOK, Rows, EventKinds
<1>7. ASSUME NEW q \in inflight, SyncPaid(q) PROVE TypeOK'
    <2>1. q.txn \in Txns
        BY <1>7 DEF SyncPaid, TypeOK, Request, RequestOf, PlainOps
    <2>2. inflight \in SUBSET Request /\ "callback" \in TxnOps /\ 0 \in 0..MaxPayments
        BY BookingRecordsAssumption DEF TypeOK, TxnOps
    <2>3. Advance(q, "callback", 0, q.txn)
        BY <1>7 DEF SyncPaid
    <2>4. inflight' \in SUBSET Request
        BY <2>1, <2>2, <2>3, AdvanceType
    <2> QED
        BY <1>7, <2>4 DEF SyncPaid, TypeOK
<1>8. ASSUME NEW q \in inflight, SyncFailed(q) PROVE TypeOK'
    BY <1>8, SyncFailedType
<1>9. ASSUME NEW q \in inflight, RequestDies(q) PROVE TypeOK'
    BY <1>9, ResumeType DEF RequestDies, TypeOK
<1>10. ASSUME NEW t \in ClickTxns, ClickPrepare(t) \/ ClickComplete(t) PROVE TypeOK'
    BY <1>10, ProcessPaymentEventType
       DEF ClickPrepare, ClickComplete, TypeOK, Rows, EventKinds, Txns
<1>11. ASSUME NEW t \in UzumTxns, UzumCreate(t) PROVE TypeOK'
    BY <1>11, UzumCreateType
<1>12. ASSUME NEW t \in UzumTxns, UzumReverse(t) PROVE TypeOK'
    BY <1>12, UzumReverseType
<1>13. ASSUME NEW o \in Orders, CustomerPays(o) PROVE TypeOK'
    BY <1>13 DEF CustomerPays, TypeOK, OrderStates
<1>14. ASSUME NEW p \in PaymentIds, PaymentAges(p) PROVE TypeOK'
    BY <1>14, PaymentAgesType
<1>15. CASE FailStaleUzumTransactions
    BY <1>15, FailStaleType
<1>16. CASE ExpiryPasses
    BY <1>16 DEF ExpiryPasses, TypeOK, Booking
<1> QED
    BY <1>1, <1>2, <1>3, <1>4, <1>5, <1>6, <1>7, <1>8, <1>9, <1>10, <1>11, <1>12,
       <1>13, <1>14, <1>15, <1>16, ReadTypes DEF PaymentStep

\* The writes that the staff, the customer and the crons make to the booking.
LEMMA BookingStepType ==
    ASSUME TypeOK, OnlineBookingStep \/ CashBookingStep
    PROVE  TypeOK'
<1> "cancelled" \in BookingStatuses /\ "expired" \in BookingStatuses
    BY DEF BookingStatuses, SettledStatuses
<1>1. CASE Expire
    BY <1>1, BookingUpdate DEF Expire, TypeOK
<1>2. CASE PartnerTimeout
    <2>1. refunds' \in [RefundIds -> RefundStatuses]
        BY <1>2, OpenRefundType DEF PartnerTimeout, TypeOK
    <2> QED
        BY <1>2, <2>1, BookingUpdate DEF PartnerTimeout, TypeOK
<1>3. CASE DeadlinePasses
    BY <1>3 DEF DeadlinePasses, TypeOK, Booking
<1>4. ASSUME NEW q \in inflight, Cancel(q) PROVE TypeOK'
    <2>1. refunds' \in [RefundIds -> RefundStatuses]
        BY <1>4, OpenRefundType DEF Cancel, TypeOK
    <2> QED
        BY <1>4, <2>1, BookingUpdate, ResumeType DEF Cancel, TypeOK
<1>5. ASSUME NEW q \in inflight, RetrySelect(q) PROVE TypeOK'
    <2>1. inflight' \in SUBSET Request
        BY <1>5, ResumeType, AdvanceType, BookingRecordsAssumption
           DEF RetrySelect, TypeOK, PlainOps
    <2> QED
        BY <1>5, <2>1 DEF RetrySelect, TypeOK
<1>6. ASSUME NEW m \in {"click", "uzum", "uzum_checkout", "cash"}
      PROVE  Draft(m) \in Payment
    BY DEF Draft, NewRow, Payment, PaymentStatuses, OpenPayment, Ages
<1>7. ASSUME NEW m \in {"click", "uzum", "uzum_checkout", "cash"},
             RoomForPayment, payments' = Inserted(Draft(m)), nextPay' = nextPay + 1
      PROVE  payments' \in Rows /\ nextPay' \in 1..(MaxPayments + 1)
    <2>1. payments' \in Rows
        BY <1>6, <1>7, RowUpdate DEF Inserted, TypeOK, Rows
    <2> QED
        BY <1>7, <2>1, BookingRecordsAssumption DEF RoomForPayment, TypeOK
<1>8. ASSUME NEW q \in inflight, RetryInsert(q) PROVE TypeOK'
    <2>1. PICK m \in Methods : payments' = Inserted(Draft(m))
        BY <1>8 DEF RetryInsert
    <2>2. payments' \in Rows /\ nextPay' \in 1..(MaxPayments + 1)
        BY <1>7, <1>8, <2>1, BookingRecordsAssumption DEF RetryInsert
    <2> QED
        BY <1>8, <2>2, ResumeType DEF RetryInsert, TypeOK, Rows
<1>9. ASSUME NEW q \in inflight, CashConfirm(q) PROVE TypeOK'
    <2>1. AcceptedStatus \in BookingStatuses
        BY DEF AcceptedStatus, BookingStatuses, SoldStatuses
    <2>2. booking' \in Booking
        BY <1>9, <2>1, BookingUpdate DEF CashConfirm, TypeOK
    <2>3. payments' \in Rows /\ nextPay' \in 1..(MaxPayments + 1)
        <3>1. CASE Stored # {}
            <4>1. ASSUME NEW p, NEW row \in Payment
                  PROVE  [row EXCEPT !.provider = "cash", !.status = "awaiting_cash"] \in Payment
                BY DEF Payment, PaymentStatuses
            <4>2. Latest(Stored) \in Stored
                BY <3>1, LatestIsLast DEF Stored
            <4>3. payments[Latest(Stored)] \in Payment
                BY <4>2 DEF Stored, TypeOK
            <4> DEFINE p == Latest(Stored)
            <4>4. payments' = [payments EXCEPT ![p].provider = "cash", ![p].status = "awaiting_cash"]
                  /\ UNCHANGED nextPay
                BY <1>9, <3>1 DEF CashConfirm
            <4> HIDE DEF p
            <4>5. payments' \in Rows
                BY <4>1, <4>3, <4>4 DEF TypeOK, Rows, p
            <4> QED
                BY <4>4, <4>5 DEF TypeOK
        <3>2. CASE Stored = {}
            BY <1>7, <1>9, <3>2 DEF CashConfirm
        <3> QED
            BY <3>1, <3>2
    <2> QED
        BY <1>9, <2>2, <2>3, ResumeType DEF CashConfirm, TypeOK, Rows
<1>10. ASSUME NEW q \in inflight, NoShow(q) PROVE TypeOK'
    <2>1. ASSUME NEW p \in WithStatus({"awaiting_cash"})
          PROVE  [payments[p] EXCEPT !.status = "failed"] \in Payment
        <3>1. payments[p] \in Payment
            BY DEF WithStatus, Stored, TypeOK
        <3> QED
            BY <3>1 DEF Payment, PaymentStatuses, TerminalPayment
    <2>2. payments' \in Rows
        BY <1>10, <2>1 DEF NoShow, TypeOK, Rows
    <2>3. booking' \in Booking
        BY <1>10, BookingUpdate DEF NoShow, TypeOK
    <2> QED
        BY <1>10, <2>2, <2>3, ResumeType DEF NoShow, TypeOK, Rows
<1> QED
    BY <1>1, <1>2, <1>3, <1>4, <1>5, <1>8, <1>9, <1>10, ReadTypes
       DEF OnlineBookingStep, CashBookingStep

LEMMA RefundStepType ==
    ASSUME TypeOK, RefundStep
    PROVE  TypeOK'
<1>1. CASE RefundRequest
    BY <1>1, ReadTypes
<1>5. ASSUME NEW q \in inflight, RefundInsert(q) PROVE TypeOK'
    BY <1>5, OpenRefundType, ResumeType DEF RefundInsert, TypeOK
<1>2. ASSUME NEW r \in RefundIds, RefundApprove(r) PROVE TypeOK'
    <2>1. orders' \in [Orders -> OrderStates]
        BY <1>2 DEF RefundApprove, RefundAtProvider, TypeOK, OrderStates
    <2>2. refunds' \in [RefundIds -> RefundStatuses]
        BY <1>2 DEF RefundApprove, TypeOK, RefundStatuses
    <2>3. ASSUME NEW p \in WithStatus({"paid"})
          PROVE  [payments[p] EXCEPT !.status = "refunded"] \in Payment
        <3>1. payments[p] \in Payment
            BY DEF WithStatus, Stored, TypeOK
        <3> QED
            BY <3>1 DEF Payment, PaymentStatuses, TerminalPayment
    <2>4. payments' \in Rows
        BY <1>2, <2>3 DEF RefundApprove, BookRefund, TypeOK, Rows
    <2>5. "cancelled" \in BookingStatuses
        BY DEF BookingStatuses, SettledStatuses
    <2>6. booking' \in Booking
        BY <1>2, <2>5, BookingUpdate DEF RefundApprove, BookRefund, TypeOK
    <2>7. ledger' \in Ledger
        BY <1>2 DEF RefundApprove, BookRefund, TypeOK, Ledger
    <2> QED
        BY <1>2, <2>1, <2>2, <2>4, <2>6, <2>7 DEF RefundApprove, TypeOK, Rows
<1>3. ASSUME NEW r \in RefundIds, RefundApproveLost(r) PROVE TypeOK'
    BY <1>3 DEF RefundApproveLost, RefundAtProvider, TypeOK, OrderStates
<1>4. ASSUME NEW r \in RefundIds, RefundReject(r) \/ RefundRetry(r) PROVE TypeOK'
    BY <1>4 DEF RefundReject, RefundRetry, TypeOK, RefundStatuses
<1> QED
    BY <1>1, <1>2, <1>3, <1>4, <1>5 DEF RefundStep

LEMMA PartnerStepType ==
    ASSUME TypeOK, PartnerStep
    PROVE  TypeOK'
<1> /\ "cancelled" \in BookingStatuses
    /\ "confirmed" \in BookingStatuses
    /\ "completed" \in BookingStatuses
    BY DEF BookingStatuses, SettledStatuses, SoldStatuses
<1>1. CASE CheckIn \/ Complete
    BY <1>1, BookingUpdate DEF CheckIn, Complete, TypeOK
<1>2. ASSUME NEW q \in inflight, PartnerConfirm(q) \/ RejectBooking(q) PROVE TypeOK'
    <2>1. booking' \in Booking
        BY <1>2, BookingUpdate DEF PartnerConfirm, RejectBooking, TypeOK
    <2>2. inflight' \in SUBSET Request
        BY <1>2, ResumeType DEF PartnerConfirm, RejectBooking, TypeOK
    <2> QED
        BY <1>2, <2>1, <2>2 DEF PartnerConfirm, RejectBooking, TypeOK
<1>3. ASSUME NEW collected \in BOOLEAN, CashCollected(collected) PROVE TypeOK'
    <2>1. PICK p \in Stored, s \in PaymentStatuses :
              payments' = [payments EXCEPT ![p].status = s]
        BY <1>3 DEF CashCollected, PaymentStatuses, TerminalPayment
    <2>2. payments' \in Rows
        BY <2>1, StatusUpdate DEF TypeOK, Rows
    <2> QED
        BY <1>3, <2>2 DEF CashCollected, TypeOK, Rows
<1>4. CASE CancelTrip
    <2>1. booking' \in Booking
        BY <1>4, BookingUpdate DEF CancelTrip, TypeOK
    <2>2. refunds' \in [RefundIds -> RefundStatuses]
        BY <1>4, OpenRefundType DEF CancelTrip, TypeOK
    <2> QED
        BY <1>4, <2>1, <2>2 DEF CancelTrip, TypeOK
<1> QED
    BY <1>1, <1>2, <1>3, <1>4, ReadTypes DEF PartnerStep

LEMMA NextTypeOK ==
    ASSUME TypeOK, [Next]_vars
    PROVE  TypeOK'
<1>1. CASE UNCHANGED vars
    BY <1>1 DEF vars, TypeOK
<1> QED
    BY <1>1, PaymentStepType, BookingStepType, RefundStepType, PartnerStepType
       DEF Next, OnlineNext, SaleStep

\* Every row keeps its type, whatever handlers run in whatever order.
THEOREM TypeCorrect == Spec => []TypeOK
<1>1. TypeOK /\ [Next]_vars => TypeOK'
    BY NextTypeOK
<1> QED
    BY <1>1, InitTypeOK, PTL DEF Spec

-----------------------------------------------------------------------------
(* The sale.                                                               *)

\* The only two things a step does to the booking's status and to the credit.
Sells ==
    /\ booking.status \in OpenStatuses
    /\ booking'.status \in {"confirmed", "awaiting_partner_confirmation"}
    /\ ledger'.earned = ledger.earned + 1
    /\ HasPaid'

Keeps(statuses) ==
    /\ booking'.status = booking.status \/ booking'.status \in statuses
    /\ ledger'.earned = ledger.earned

LEMMA EventSells ==
    ASSUME TypeOK, NEW kind, NEW t, NEW status, ProcessPaymentEvent(kind, t, status)
    PROVE  Sells \/ Keeps({})
<1> DEFINE p == Picked(Stored)
<1>1. CASE /\ SettleOpenBooking
           /\ status = "paid"
           /\ payments' = [payments EXCEPT ![p].status = status, ![p].ref = t]
    <2>1. p \in Stored
        BY PickedIsMember DEF ProcessPaymentEvent, Stored
    <2>2. payments[p] \in Payment
        BY <2>1 DEF Stored, TypeOK
    <2> HIDE DEF p
    <2>3. [payments[p] EXCEPT !.status = status, !.ref = t].status = "paid"
        BY <1>1, <2>2 DEF Payment
    <2>4. payments'[p].status = "paid"
        BY <1>1, <2>1, <2>3 DEF TypeOK, Stored
    <2>5. HasPaid'
        BY <2>1, <2>4 DEF HasPaid, WithStatus, Stored, Absent
    <2> QED
        BY <1>1, <2>5 DEF SettleOpenBooking, Sells, SoldStatuses, TypeOK, Booking, Ledger
<1>2. CASE UNCHANGED <<booking, ledger>>
    BY <1>2 DEF Keeps
<1> QED
    BY <1>1, <1>2 DEF ProcessPaymentEvent, RefundLostRace, KeepSoldBooking

LEMMA OnlineStepSells ==
    ASSUME TypeOK, OnlineNext
    PROVE  Sells \/ Keeps(SettledStatuses)
<1> USE DEF TypeOK, Booking, Ledger, SettledStatuses
<1>1. CASE PaymentStep
    <2>1. ASSUME NEW q \in inflight, UzumConfirm(q) \/ CheckoutApply(q)
          PROVE  Sells \/ Keeps({})
        BY <2>1, EventSells DEF UzumConfirm, CheckoutApply
    <2>2. ASSUME NEW t \in ClickTxns, ClickPrepare(t) \/ ClickComplete(t)
          PROVE  Sells \/ Keeps({})
        BY <2>2, EventSells DEF ClickPrepare, ClickComplete
    <2>3. ASSUME NEW t \in UzumTxns, UzumCreate(t)
          PROVE  Keeps({})
        BY <2>3 DEF UzumCreate, Keeps
    <2>4. ASSUME NEW t \in UzumTxns, UzumReverse(t)
          PROVE  Keeps(SettledStatuses)
        BY <2>4 DEF UzumReverse, Keeps
    <2>5. CASE ExpiryPasses
        BY <2>5 DEF ExpiryPasses, Keeps
    <2>6. CASE UNCHANGED <<booking, ledger>>
        BY <2>6 DEF Keeps
    <2> QED
        BY <1>1, <2>1, <2>2, <2>3, <2>4, <2>5, <2>6
           DEF PaymentStep, PayRequest, PaySelect, PayDelete, PayWrite, PayInsert,
               SyncPaid, SyncFailed, RequestDies, UzumConfirmRead, CustomerPays,
               CheckoutCallback, SyncRead, PaymentAges, FailStaleUzumTransactions, Keeps
<1>2. CASE OnlineBookingStep
    BY <1>2 DEF OnlineBookingStep, Expire, PartnerTimeout, DeadlinePasses, CancelRequest,
                RetryRequest, Cancel, RetrySelect, RetryInsert, Keeps
<1>3. CASE RefundStep
    <2>1. ASSUME NEW r \in RefundIds, RefundApprove(r) PROVE Keeps(SettledStatuses)
        BY <2>1 DEF RefundApprove, BookRefund, Keeps
    <2>2. CASE UNCHANGED <<booking, ledger>>
        BY <2>2 DEF Keeps
    <2> QED
        BY <1>3, <2>1, <2>2 DEF RefundStep, RefundRequest, RefundInsert,
                                RefundApproveLost, RefundReject, RefundRetry
<1> QED
    BY <1>1, <1>2, <1>3 DEF OnlineNext, SaleStep

LEMMA StepSells ==
    ASSUME TypeOK, Next
    PROVE  Sells \/ Keeps(BookingStatuses \ OpenStatuses)
<1> USE DEF TypeOK, Booking, BookingStatuses, OpenStatuses, SoldStatuses, SettledStatuses
<1>1. CASE OnlineNext
    BY <1>1, OnlineStepSells DEF Keeps
<1>2. CASE CashBookingStep
    BY <1>2 DEF CashBookingStep, CashRequest, NoShowRequest, CashConfirm, NoShow,
                AcceptedStatus, Keeps
<1>3. CASE PartnerStep
    BY <1>3 DEF PartnerStep, ConfirmRequest, CheckIn, Complete, RejectRequest, CancelTrip,
                PartnerConfirm, RejectBooking, CashCollected, Keeps
<1> QED
    BY <1>1, <1>2, <1>3 DEF Next

\* CreditedAtMostOnce is not inductive: it also takes that an open booking has
\* not been credited yet.
OpenIsUncredited == booking.status \in OpenStatuses => ledger.earned = 0

SaleInv == TypeOK /\ OpenIsUncredited /\ CreditedAtMostOnce

\* The partner is credited at most once for a booking.
THEOREM CreditedOnce == Spec => []CreditedAtMostOnce
<1>1. Init => SaleInv
    BY InitTypeOK DEF Init, SaleInv, OpenIsUncredited, CreditedAtMostOnce
<1>2. SaleInv /\ [Next]_vars => SaleInv'
    <2> SUFFICES ASSUME SaleInv, [Next]_vars PROVE OpenIsUncredited' /\ CreditedAtMostOnce'
        BY NextTypeOK DEF SaleInv
    <2> USE DEF SaleInv, OpenIsUncredited, CreditedAtMostOnce
    <2>1. CASE UNCHANGED vars
        BY <2>1 DEF vars
    <2>2. CASE Sells
        BY <2>2 DEF Sells, TypeOK, Ledger, OpenStatuses, SoldStatuses
    <2>3. CASE Keeps(BookingStatuses \ OpenStatuses)
        BY <2>3 DEF Keeps
    <2> QED
        BY <2>1, <2>2, <2>3, StepSells
<1> QED
    BY <1>1, <1>2, PTL DEF Spec, SaleInv

\* A booking that has left pending and awaiting_payment is never payable again.
THEOREM NotReopened == Spec => NeverReopened
<1>1. TypeOK /\ [Next]_vars =>
          [booking.status \notin OpenStatuses => booking'.status \notin OpenStatuses]_vars
    <2> SUFFICES ASSUME TypeOK, Next, booking.status \notin OpenStatuses
                 PROVE  booking'.status \notin OpenStatuses
        OBVIOUS
    <2> QED
        BY StepSells DEF Sells, Keeps
<1> QED
    BY <1>1, TypeCorrect, PTL DEF Spec, NeverReopened

\* A booking that is paid online implements the sale of BookingSale.
THEOREM OnlineImplementsSale ==
    ASSUME "cash" \notin Methods
    PROVE  OnlineSpec => ImplementsSale
<1> DEFINE phase == IF booking.status \in OpenStatuses THEN "open"
                    ELSE IF booking.status \in SoldStatuses THEN "sold" ELSE "settled"
<1>1. Init => Sale!SaleInit
    BY DEF Init, Created, Sale!SaleInit, OpenStatuses
<1>2. TypeOK /\ [OnlineNext]_vars => [Sale!SaleNext]_(Sale!saleVars)
    <2> SUFFICES ASSUME TypeOK, [OnlineNext]_vars
                 PROVE  Sale!SaleNext \/ UNCHANGED Sale!saleVars
        OBVIOUS
    <2> USE DEF Sale!SaleNext, Sale!Sell, Sale!Lapse, Sale!Undo, Sale!saleVars,
                OpenStatuses, SoldStatuses, SettledStatuses
    <2>1. CASE UNCHANGED vars
        BY <2>1 DEF vars
    <2>2. CASE Sells
        BY <2>2 DEF Sells
    <2>3. CASE Keeps(SettledStatuses)
        BY <2>3 DEF Keeps
    <2> QED
        BY <2>1, <2>2, <2>3, OnlineStepSells
<1>3. TypeOK /\ [OnlineNext]_vars => TypeOK'
    BY NextTypeOK DEF Next
<1> QED
    BY <1>1, <1>2, <1>3, InitTypeOK, PTL DEF OnlineSpec, ImplementsSale, Sale!SaleSpec

-----------------------------------------------------------------------------
(* The payment rows of a booking that is paid online.                      *)

\* What one step may do to the row p.
RowKept(p)     == payments'[p] = payments[p]
RowDeleted(p)  == /\ payments'[p] = Absent
                  /\ \E q \in inflight : q.op = "pay.delete"
RowInserted(p) == /\ p = nextPay
                  /\ nextPay' = nextPay + 1
                  /\ payments'[p].status \notin TerminalPayment
RowMoved(p)    == /\ p \in Stored
                  /\ payments[p].status \notin TerminalPayment
                  /\ payments'[p] # Absent
                  /\ payments'[p].status = "paid" =>
                        /\ booking'.status \notin OpenStatuses
                        /\ booking'.status \in SettledStatuses => RefundOutstanding'
RowReturned(p) == /\ p \in Stored
                  /\ payments[p].status = "paid"
                  /\ payments'[p].status \in {"reversed", "refunded"}
                  /\ booking.status # "completed" => booking'.status \in SettledStatuses

RowStep(p) ==
    RowKept(p) \/ RowDeleted(p) \/ RowInserted(p) \/ RowMoved(p) \/ RowReturned(p)

RowSteps ==
    /\ nextPay' \in {nextPay, nextPay + 1}
    /\ \A p \in PaymentIds : RowStep(p)

LEMMA RowsUnchanged ==
    ASSUME UNCHANGED <<payments, nextPay>>
    PROVE  RowSteps
BY DEF RowSteps, RowStep, RowKept

LEMMA RowStatusSet ==
    ASSUME payments \in Rows, NEW x \in Stored, NEW s,
           payments[x].status \notin TerminalPayment,
           s \notin {"paid", "absent"},
           payments' = [payments EXCEPT ![x].status = s],
           UNCHANGED nextPay
    PROVE  RowSteps
<1>1. x \in PaymentIds
    BY DEF Stored
<1>2. payments[x] \in Payment
    BY <1>1 DEF Stored, Rows
<1>3. [payments[x] EXCEPT !.status = s].status = s
    BY <1>2 DEF Payment
<1>4. payments'[x].status = s /\ \A p \in PaymentIds : p # x => payments'[p] = payments[p]
    BY <1>1, <1>3 DEF Rows
<1> QED
    BY <1>4 DEF RowSteps, RowStep, RowKept, RowMoved, Absent

LEMMA RowAdded ==
    ASSUME payments \in Rows, NEW row, row.status \notin TerminalPayment,
           payments' = Inserted(row), nextPay' = nextPay + 1
    PROVE  RowSteps
<1>1. \A p \in PaymentIds : payments'[p] = IF p = nextPay THEN row ELSE payments[p]
    BY DEF Inserted, Rows
<1> QED
    BY <1>1 DEF RowSteps, RowStep, RowKept, RowInserted

LEMMA EventRows ==
    ASSUME TypeOK, NEW kind, NEW t, NEW status \in {"processing", "paid"},
           ProcessPaymentEvent(kind, t, status)
    PROVE  RowSteps
<1> DEFINE x == Picked(Stored)
<1>1. x \in Stored
    BY PickedIsMember DEF ProcessPaymentEvent, Stored
<1>2. payments[x] \in Payment
    BY <1>1 DEF Stored, TypeOK
<1>3. CASE payments[x].status \in TerminalPayment
    BY <1>3, RowsUnchanged DEF ProcessPaymentEvent
<1>4. CASE payments[x].status \notin TerminalPayment
    <2>1. payments' = [payments EXCEPT ![x].status = status, ![x].ref = t] /\ UNCHANGED nextPay
        BY <1>4 DEF ProcessPaymentEvent
    <2>2. status = "paid" => booking'.status \notin OpenStatuses
        BY <1>4 DEF ProcessPaymentEvent, SettleOpenBooking, RefundLostRace, KeepSoldBooking,
                    OpenStatuses, SoldStatuses, SettledStatuses, TypeOK, Booking
    <2> HIDE DEF x
    <2>3. [payments[x] EXCEPT !.status = status, !.ref = t].status = status
        BY <1>2 DEF Payment
    <2>4. payments'[x].status = status /\ \A p \in PaymentIds : p # x => payments'[p] = payments[p]
        BY <1>1, <2>1, <2>3 DEF TypeOK, Stored
    <2>5. status = "paid" /\ booking'.status \in SettledStatuses => RefundOutstanding'
        <3>1. CASE RefundLostRace
            BY <3>1, OpenRefundOpens DEF RefundLostRace, TypeOK
        <3>2. CASE SettleOpenBooking \/ KeepSoldBooking
            BY <3>2 DEF SettleOpenBooking, KeepSoldBooking, SoldStatuses, SettledStatuses,
                        TypeOK, Booking
        <3> QED
            BY <1>4, <3>1, <3>2 DEF ProcessPaymentEvent, x
    <2>6. RowMoved(x)
        BY <1>1, <1>4, <2>2, <2>4, <2>5 DEF RowMoved, Absent
    <2> QED
        BY <1>1, <2>1, <2>4, <2>6 DEF RowSteps, RowStep, RowKept
<1> QED
    BY <1>3, <1>4

LEMMA PaymentRows ==
    ASSUME TypeOK, PaymentStep
    PROVE  RowSteps
<1>0. payments \in Rows
    BY DEF TypeOK, Rows
<1>1. ASSUME NEW q \in inflight, PayDelete(q) PROVE RowSteps
    BY <1>0, <1>1 DEF PayDelete, RowSteps, RowStep, RowKept, RowDeleted, Rows
<1>2. ASSUME NEW q \in inflight, PayWrite(q) PROVE RowSteps
    <2>1. CASE q.method = "uzum_checkout"
        BY <1>2, <2>1, RowsUnchanged DEF PayWrite
    <2>2. CASE q.method # "uzum_checkout"
        BY <1>0, <1>2, <2>2, RowAdded DEF PayWrite, NewRow, TerminalPayment
    <2> QED
        BY <2>1, <2>2
<1>3. ASSUME NEW q \in inflight, PayInsert(q) PROVE RowSteps
    BY <1>0, <1>3, RowAdded DEF PayInsert, NewRow, TerminalPayment
<1>4. ASSUME NEW q \in inflight, UzumConfirm(q) \/ CheckoutApply(q) PROVE RowSteps
    BY <1>4, EventRows DEF UzumConfirm, CheckoutApply
<1>5. ASSUME NEW t \in ClickTxns, ClickPrepare(t) \/ ClickComplete(t) PROVE RowSteps
    BY <1>5, EventRows DEF ClickPrepare, ClickComplete
<1>6. ASSUME NEW t \in UzumTxns, UzumCreate(t) PROVE RowSteps
    <2> DEFINE open == WithStatus(OpenPayment)
               row(age) == [status |-> "processing", provider |-> "uzum",
                            ref |-> t, idem |-> t, age |-> age]
    <2>1. CASE open # {}
        <3>1. Latest(open) \in open
            BY <2>1, LatestIsLast DEF WithStatus, Stored
        <3>2. payments' = [payments EXCEPT ![Latest(open)] = row(payments[Latest(open)].age)]
              /\ UNCHANGED nextPay
            BY <1>6, <2>1 DEF UzumCreate
        <3>3. \A p \in PaymentIds : p # Latest(open) => payments'[p] = payments[p]
            BY <3>2, <1>0 DEF Rows
        <3>4. payments'[Latest(open)].status = "processing"
            BY <3>1, <3>2, <1>0 DEF Rows, WithStatus, Stored
        <3>5. /\ Latest(open) \in Stored
              /\ payments[Latest(open)].status \notin TerminalPayment
            BY <3>1 DEF WithStatus, OpenPayment, TerminalPayment
        <3> HIDE DEF open
        <3> QED
            BY <3>2, <3>3, <3>4, <3>5 DEF RowSteps, RowStep, RowKept, RowMoved, Absent
    <2>2. CASE open = {}
        <3>1. payments' = Inserted(row("fresh")) /\ nextPay' = nextPay + 1
            BY <1>6, <2>2 DEF UzumCreate
        <3>2. row("fresh").status \notin TerminalPayment
            BY DEF TerminalPayment
        <3> HIDE DEF row
        <3> QED
            BY <1>0, <3>1, <3>2, RowAdded
    <2> QED
        BY <2>1, <2>2
<1>7. ASSUME NEW t \in UzumTxns, UzumReverse(t) PROVE RowSteps
    <2> DEFINE x == Latest(UzumPayments(t))
    <2>1. x \in UzumPayments(t)
        BY <1>7, LatestIsLast DEF UzumReverse, UzumPayments, Stored
    <2>2. x \in Stored /\ payments[x] \in Payment
        BY <2>1 DEF UzumPayments, Stored, TypeOK
    <2>3. /\ payments' = [payments EXCEPT ![x].status = "reversed"]
          /\ UNCHANGED nextPay
          /\ payments[x].status \in {"processing", "paid"}
        BY <1>7 DEF UzumReverse
    <2>6. booking'.status \in SettledStatuses \/ booking.status = "completed"
        BY <1>7 DEF UzumReverse, SettledStatuses, TypeOK, Booking
    <2> HIDE DEF x
    <2>4. [payments[x] EXCEPT !.status = "reversed"].status = "reversed"
        BY <2>2 DEF Payment
    <2>5. payments'[x].status = "reversed" /\ \A p \in PaymentIds : p # x => payments'[p] = payments[p]
        BY <2>2, <2>3, <2>4, <1>0 DEF Rows, Stored
    <2> QED
        BY <2>2, <2>3, <2>5, <2>6
           DEF RowSteps, RowStep, RowKept, RowMoved, RowReturned, TerminalPayment, Absent
<1>8. ASSUME NEW q \in inflight, SyncFailed(q) PROVE RowSteps
    <2>1. CASE q.pay \in WithStatus(OpenPayment)
        <3>1. /\ q.pay \in Stored
              /\ payments[q.pay].status \notin TerminalPayment
            BY <2>1 DEF WithStatus, OpenPayment, TerminalPayment
        <3>2. payments' = [payments EXCEPT ![q.pay].status = "failed"] /\ UNCHANGED nextPay
            BY <1>8, <2>1 DEF SyncFailed
        <3> DEFINE x == q.pay
        <3> HIDE DEF x
        <3>3. x \in Stored /\ payments[x].status \notin TerminalPayment
            BY <3>1 DEF x
        <3>4. payments' = [payments EXCEPT ![x].status = "failed"]
            BY <3>2 DEF x
        <3>5. "failed" \notin {"paid", "absent"}
            OBVIOUS
        <3> QED
            BY <1>0, <3>2, <3>3, <3>4, <3>5, RowStatusSet
    <2>2. CASE q.pay \notin WithStatus(OpenPayment)
        BY <1>8, <2>2, RowsUnchanged DEF SyncFailed
    <2> QED
        BY <2>1, <2>2
<1>9. ASSUME FailStaleUzumTransactions PROVE RowSteps
    <2>1. ASSUME NEW p \in StaleUzum PROVE RowMoved(p)
        <3>1. /\ p \in Stored
              /\ payments[p] \in Payment
              /\ payments[p].status \notin TerminalPayment
            BY <2>1 DEF StaleUzum, WithStatus, Stored, TypeOK, OpenPayment, TerminalPayment
        <3>2. payments'[p] = [payments[p] EXCEPT !.status = "failed"]
            BY <1>9, <3>1 DEF FailStaleUzumTransactions, Stored
        <3>3. payments'[p].status = "failed"
            BY <3>1, <3>2 DEF Payment
        <3> QED
            BY <3>1, <3>3 DEF RowMoved, Absent
    <2>2. ASSUME NEW p \in PaymentIds, p \notin StaleUzum PROVE RowKept(p)
        BY <1>9, <2>2 DEF FailStaleUzumTransactions, RowKept
    <2> QED
        BY <1>9, <2>1, <2>2 DEF FailStaleUzumTransactions, RowSteps, RowStep
<1>10. ASSUME NEW x \in PaymentIds, PaymentAges(x) PROVE RowSteps
    <2>1. /\ x \in Stored
          /\ payments[x] \in Payment
          /\ payments[x].status \in OpenPayment
        BY <1>10 DEF PaymentAges, WithStatus, Stored, TypeOK
    <2>2. payments'[x].status = payments[x].status
        BY <1>0, <1>10, <2>1 DEF PaymentAges, Rows, Payment
    <2>3. \A p \in PaymentIds : p # x => payments'[p] = payments[p]
        BY <1>0, <1>10 DEF PaymentAges, Rows
    <2> QED
        BY <1>10, <2>1, <2>2, <2>3
           DEF PaymentAges, RowSteps, RowStep, RowKept, RowMoved, OpenPayment,
               TerminalPayment, Absent
<1>11. CASE UNCHANGED <<payments, nextPay>>
    BY <1>11, RowsUnchanged
<1> QED
    BY <1>1, <1>2, <1>3, <1>4, <1>5, <1>6, <1>7, <1>8, <1>9, <1>10, <1>11
       DEF PaymentStep, PayRequest, PaySelect, SyncPaid, RequestDies, UzumConfirmRead,
           CustomerPays, CheckoutCallback, SyncRead, ExpiryPasses

LEMMA OnlineRows ==
    ASSUME TypeOK, OnlineNext
    PROVE  RowSteps
<1>0. payments \in Rows
    BY DEF TypeOK, Rows
<1>1. CASE PaymentStep
    BY <1>1, PaymentRows
<1>2. CASE OnlineBookingStep
    <2>1. ASSUME NEW q \in inflight, RetryInsert(q) PROVE RowSteps
        <3>1. PICK m \in Methods : payments' = Inserted(Draft(m)) /\ nextPay' = nextPay + 1
            BY <2>1 DEF RetryInsert
        <3>2. Draft(m).status \notin TerminalPayment
            BY DEF Draft, NewRow, TerminalPayment
        <3> QED
            BY <1>0, <3>1, <3>2, RowAdded
    <2>2. CASE UNCHANGED <<payments, nextPay>>
        BY <2>2, RowsUnchanged
    <2> QED
        BY <1>2, <2>1, <2>2
           DEF OnlineBookingStep, Expire, PartnerTimeout, DeadlinePasses, CancelRequest,
               RetryRequest, Cancel, RetrySelect
<1>3. CASE RefundStep
    <2>1. ASSUME NEW r \in RefundIds, RefundApprove(r) PROVE RowSteps
        <3>1. ASSUME NEW p \in WithStatus({"paid"}) PROVE RowReturned(p)
            <4>1. p \in Stored /\ payments[p] \in Payment /\ payments[p].status = "paid"
                BY <3>1 DEF WithStatus, Stored, TypeOK
            <4>2. payments'[p] = [payments[p] EXCEPT !.status = "refunded"]
                BY <2>1, <4>1, <3>1 DEF RefundApprove, BookRefund, Stored
            <4>3. payments'[p].status = "refunded"
                BY <4>1, <4>2 DEF Payment
            <4>4. booking'.status \in SettledStatuses \/ booking.status = "completed"
                BY <2>1, <3>1 DEF RefundApprove, BookRefund, HasPaid, SettledStatuses,
                                  TypeOK, Booking
            <4> QED
                BY <4>1, <4>3, <4>4 DEF RowReturned
        <3>2. ASSUME NEW p \in PaymentIds, p \notin WithStatus({"paid"}) PROVE RowKept(p)
            BY <2>1, <3>2 DEF RefundApprove, BookRefund, RowKept
        <3> QED
            BY <2>1, <3>1, <3>2 DEF RefundApprove, RowSteps, RowStep
    <2>2. CASE UNCHANGED <<payments, nextPay>>
        BY <2>2, RowsUnchanged
    <2> QED
        BY <1>3, <2>1, <2>2 DEF RefundStep, RefundRequest, RefundInsert,
                                RefundApproveLost, RefundReject, RefundRetry
<1> QED
    BY <1>1, <1>2, <1>3 DEF OnlineNext, SaleStep

\* No payment is paid while its booking still waits for payment.
THEOREM OpenBookingIsUnpaid == OnlineSpec => []OpenIsUnpaid
<1>1. Init => OpenIsUnpaid
    BY DEF Init, Created, Draft, NewRow, OpenIsUnpaid, HasPaid, WithStatus, Stored, Absent
<1>2. TypeOK /\ OpenIsUnpaid /\ [OnlineNext]_vars => OpenIsUnpaid'
    <2> SUFFICES ASSUME TypeOK, OpenIsUnpaid, OnlineNext,
                        booking'.status \in OpenStatuses,
                        NEW p \in PaymentIds
                 PROVE  payments'[p].status # "paid"
        BY DEF vars, OpenIsUnpaid, HasPaid, WithStatus, Stored
    <2>1. booking.status \in OpenStatuses
        BY OnlineStepSells DEF Sells, Keeps, OpenStatuses, SoldStatuses, SettledStatuses
    <2>2. payments[p].status # "paid"
        BY <2>1 DEF OpenIsUnpaid, HasPaid, WithStatus, Stored, Absent
    <2>3. RowStep(p)
        BY OnlineRows DEF RowSteps
    <2> QED
        BY <2>2, <2>3 DEF RowStep, RowKept, RowDeleted, RowInserted, RowMoved, RowReturned,
                          Absent, TerminalPayment
<1>3. TypeOK /\ [OnlineNext]_vars => TypeOK'
    BY NextTypeOK DEF Next
<1> QED
    BY <1>1, <1>2, <1>3, InitTypeOK, PTL DEF OnlineSpec

\* OutcomeIsFinal needs that an inserted row never falls on a stored one.
FutureIsAbsent == \A p \in PaymentIds : p >= nextPay => payments[p] = Absent

LEMMA FutureStaysAbsent ==
    ASSUME TypeOK, FutureIsAbsent, [OnlineNext]_vars
    PROVE  FutureIsAbsent'
<1>1. CASE UNCHANGED vars
    BY <1>1 DEF vars, FutureIsAbsent
<1>2. CASE OnlineNext
    <2> SUFFICES ASSUME NEW p \in PaymentIds, p >= nextPay'
                 PROVE  payments'[p] = Absent
        BY DEF FutureIsAbsent
    <2>1. nextPay \in Nat /\ nextPay' \in {nextPay, nextPay + 1} /\ RowStep(p)
        BY <1>2, OnlineRows, BookingRecordsAssumption DEF RowSteps, TypeOK
    <2>2. p \in Int
        BY BookingRecordsAssumption DEF PaymentIds
    <2>3. payments[p] = Absent
        BY <2>1, <2>2 DEF FutureIsAbsent
    <2> QED
        BY <2>1, <2>2, <2>3
           DEF RowStep, RowKept, RowDeleted, RowInserted, RowMoved, RowReturned, Stored
<1> QED
    BY <1>1, <1>2

\* The invariants that every argument about an online booking starts from.
OnlineInv == TypeOK /\ FutureIsAbsent /\ OpenIsUnpaid

LEMMA OnlineInvHolds == OnlineSpec => []OnlineInv
<1>1. Init => FutureIsAbsent
    BY DEF Init, Created, FutureIsAbsent, PaymentIds
<1>2. TypeOK /\ FutureIsAbsent /\ [OnlineNext]_vars => FutureIsAbsent'
    BY FutureStaysAbsent
<1>3. TypeOK /\ [OnlineNext]_vars => TypeOK'
    BY NextTypeOK DEF Next
<1> QED
    BY <1>1, <1>2, <1>3, InitTypeOK, OpenBookingIsUnpaid, PTL DEF OnlineSpec, OnlineInv

\* A payment keeps its outcome, but for the return of one that was paid.
THEOREM OutcomeStands == OnlineSpec => OutcomeIsFinal
<1>1. OnlineInv /\ [OnlineNext]_vars =>
          [\A p \in WithStatus(TerminalPayment) :
              \/ payments'[p].status = payments[p].status
              \/ payments'[p] = Absent
              \/ /\ payments[p].status = "paid"
                 /\ payments'[p].status \in {"reversed", "refunded"}]_vars
    <2> SUFFICES ASSUME TypeOK, FutureIsAbsent, OnlineNext,
                        NEW p \in WithStatus(TerminalPayment)
                 PROVE  \/ payments'[p].status = payments[p].status
                        \/ payments'[p] = Absent
                        \/ /\ payments[p].status = "paid"
                           /\ payments'[p].status \in {"reversed", "refunded"}
        BY DEF OnlineInv
    <2>1. p \in PaymentIds /\ payments[p] # Absent /\ payments[p].status \in TerminalPayment
        BY DEF WithStatus, Stored
    <2>2. p # nextPay
        BY <2>1, BookingRecordsAssumption DEF FutureIsAbsent, PaymentIds
    <2>3. RowStep(p)
        BY <2>1, OnlineRows DEF RowSteps
    <2> QED
        BY <2>1, <2>2, <2>3
           DEF RowStep, RowKept, RowDeleted, RowInserted, RowMoved, RowReturned
<1> QED
    BY <1>1, OnlineInvHolds, PTL DEF OnlineSpec, OutcomeIsFinal

=============================================================================
