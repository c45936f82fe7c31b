---------------------------- MODULE MoneyProofs ----------------------------
(***************************************************************************)
(* What TLAPS proves of the money of a booking that is paid online: that   *)
(* paid money can be refunded, that a sold booking is backed by a payment, *)
(* and that the partner is not debited without a refund.                   *)
(***************************************************************************)
EXTENDS SettlementProofs, FiniteSetTheorems

-----------------------------------------------------------------------------
(* A row whose outcome is known, one step later.                           *)

\* A paid row stays paid, is deleted, or is returned.
LEMMA PaidRowStep ==
    ASSUME OnlineInv, OnlineNext, NEW p \in WithStatus({"paid"})
    PROVE  \/ p \in WithStatus({"paid"})'
           \/ payments'[p] = Absent
           \/ RowReturned(p)
<1>1. p \in PaymentIds /\ payments[p] # Absent /\ payments[p].status = "paid"
    BY DEF WithStatus, Stored
<1>2. p # nextPay
    BY <1>1, BookingRecordsAssumption DEF OnlineInv, FutureIsAbsent, PaymentIds
<1>3. RowStep(p)
    BY <1>1, OnlineRows DEF RowSteps, OnlineInv
<1> QED
    BY <1>1, <1>2, <1>3 DEF RowStep, RowKept, RowDeleted, RowInserted, RowMoved,
                            RowReturned, TerminalPayment, WithStatus, Stored

\* A refunded row stays refunded, or is deleted.
LEMMA RefundedRowStep ==
    ASSUME OnlineInv, OnlineNext, NEW p \in WithStatus({"refunded"})
    PROVE  p \in WithStatus({"refunded"})' \/ payments'[p] = Absent
<1>1. p \in PaymentIds /\ payments[p] # Absent /\ payments[p].status = "refunded"
    BY DEF WithStatus, Stored
<1>2. p # nextPay
    BY <1>1, BookingRecordsAssumption DEF OnlineInv, FutureIsAbsent, PaymentIds
<1>3. RowStep(p)
    BY <1>1, OnlineRows DEF RowSteps, OnlineInv
<1> QED
    BY <1>1, <1>2, <1>3 DEF RowStep, RowKept, RowDeleted, RowInserted, RowMoved,
                            RowReturned, TerminalPayment, WithStatus, Stored

\* A row that is paid after a step was paid before it, or its money has just
\* arrived: then a booking that is over has a refund asked for.
LEMMA PaidRowOrigin ==
    ASSUME OnlineInv, OnlineNext, NEW p \in WithStatus({"paid"})'
    PROVE  \/ p \in WithStatus({"paid"})
           \/ booking'.status \in SettledStatuses => RefundOutstanding'
<1>1. p \in PaymentIds /\ payments'[p] # Absent /\ payments'[p].status = "paid"
    BY DEF WithStatus, Stored
<1>2. RowStep(p)
    BY <1>1, OnlineRows DEF RowSteps, OnlineInv
<1> QED
    BY <1>1, <1>2 DEF RowStep, RowKept, RowDeleted, RowInserted, RowMoved, RowReturned,
                      TerminalPayment, WithStatus, Stored

-----------------------------------------------------------------------------
(* A sold booking is backed by a payment that is paid, unless createPayment *)
(* deletes that payment (the run draft_deleted), or it is paid on the spot. *)

\* What OnlyDraftsDeleted says of one step.
DraftsDeleted ==
    \A p \in Stored : payments'[p] = Absent =>
        payments[p].status = "pending" /\ payments[p].ref = NoTxn

\* Nobody completes a booking but the partner's staff.
NotCompleted == booking.status # "completed"

LEMMA StaysUncompleted ==
    ASSUME TypeOK, NotCompleted, OnlineNext
    PROVE  NotCompleted'
BY OnlineStepSells DEF Sells, Keeps, SettledStatuses, NotCompleted

\* A booking that is sold and not undone has a paid payment, as long as
\* createPayment deletes no payment but untouched drafts (draft_deleted shows a
\* behaviour in which it deletes the paid one) and nobody pays in cash.
THEOREM SoldStaysBacked ==
    ASSUME "cash" \notin Methods
    PROVE  OnlineSpec /\ OnlyDraftsDeleted => []SoldIsBacked
<1>1. Init => NotCompleted /\ SoldIsBacked
    BY DEF Init, Created, NotCompleted, SoldIsBacked, SoldStatuses
<1>2. OnlineInv /\ NotCompleted /\ SoldIsBacked /\ [OnlineNext]_vars /\ [DraftsDeleted]_vars
          => (NotCompleted /\ SoldIsBacked)'
    <2>1. CASE UNCHANGED vars
        BY <2>1 DEF vars, NotCompleted, SoldIsBacked, HasPaid, WithStatus, Stored
    <2>2. ASSUME OnlineInv, NotCompleted, SoldIsBacked, OnlineNext, DraftsDeleted,
                 booking'.status \in SoldStatuses
          PROVE  HasPaid'
        <3> USE <2>2
        <3>1. CASE Sells
            BY <3>1 DEF Sells
        <3>2. CASE Keeps(SettledStatuses)
            <4>1. booking.status \in SoldStatuses
                BY <3>2 DEF Keeps, SoldStatuses, SettledStatuses
            <4>2. PICK p \in WithStatus({"paid"}) : TRUE
                BY <4>1 DEF SoldIsBacked, HasPaid
            <4>3. payments'[p] # Absent
                BY <4>2 DEF DraftsDeleted, WithStatus
            <4>4. ~RowReturned(p)
                BY DEF RowReturned, NotCompleted, SoldStatuses, SettledStatuses
            <4> QED
                BY <4>3, <4>4, PaidRowStep DEF HasPaid
        <3> QED
            BY <3>1, <3>2, OnlineStepSells DEF OnlineInv
    <2> QED
        BY <2>1, <2>2, StaysUncompleted DEF SoldIsBacked, OnlineInv
<1> QED
    BY <1>1, <1>2, OnlineInvHolds, PTL DEF OnlineSpec, OnlyDraftsDeleted, DraftsDeleted

-----------------------------------------------------------------------------
(* Every debit of the partner has a payment that turned refunded.          *)

\* refundApprove debits the partner once, and only with a paid row to refund.
LEMMA DebitStep ==
    ASSUME OnlineInv, OnlineNext
    PROVE  \/ ledger'.refund = ledger.refund
           \/ /\ ledger'.refund = ledger.refund + 1
              /\ \E p \in WithStatus({"paid"}) : p \in WithStatus({"refunded"})'
<1> USE DEF OnlineInv, TypeOK, Ledger
<1>1. ASSUME NEW kind, NEW t, NEW status, ProcessPaymentEvent(kind, t, status)
      PROVE  ledger'.refund = ledger.refund
    BY <1>1 DEF ProcessPaymentEvent, SettleOpenBooking, RefundLostRace, KeepSoldBooking
<1>2. ASSUME NEW t \in UzumTxns, UzumReverse(t)
      PROVE  ledger'.refund = ledger.refund
    BY <1>2 DEF UzumReverse
<1>3. ASSUME NEW r \in RefundIds, RefundApprove(r), HasPaid
      PROVE  /\ ledger'.refund = ledger.refund + 1
             /\ \E p \in WithStatus({"paid"}) : p \in WithStatus({"refunded"})'
    <2>1. PICK p \in WithStatus({"paid"}) : TRUE
        BY <1>3 DEF HasPaid
    <2>2. p \in PaymentIds /\ payments[p] \in Payment
        BY <2>1 DEF WithStatus, Stored
    <2>3. payments'[p] = [payments[p] EXCEPT !.status = "refunded"]
        BY <1>3, <2>1, <2>2 DEF RefundApprove, BookRefund
    <2>4. payments'[p].status = "refunded"
        BY <2>2, <2>3 DEF Payment
    <2>5. p \in WithStatus({"refunded"})'
        BY <2>2, <2>4 DEF WithStatus, Stored, Absent
    <2> QED
        BY <1>3, <2>1, <2>5 DEF RefundApprove, BookRefund
<1>4. ASSUME NEW r \in RefundIds, RefundApprove(r), ~HasPaid
      PROVE  ledger'.refund = ledger.refund
    BY <1>4 DEF RefundApprove, BookRefund
<1>5. CASE PaymentStep
    BY <1>1, <1>2, <1>5
       DEF PaymentStep, PayRequest, PaySelect, PayDelete, PayWrite, PayInsert,
           UzumConfirm, CheckoutApply, SyncPaid, SyncFailed, RequestDies, ClickPrepare,
           ClickComplete, UzumCreate, UzumConfirmRead, CustomerPays,
           CheckoutCallback, SyncRead, PaymentAges, FailStaleUzumTransactions, ExpiryPasses
<1>6. CASE OnlineBookingStep
    BY <1>6 DEF OnlineBookingStep, Expire, PartnerTimeout, DeadlinePasses, CancelRequest,
                RetryRequest, Cancel, RetrySelect, RetryInsert
<1>7. CASE RefundStep
    BY <1>3, <1>4, <1>7 DEF RefundStep, RefundRequest, RefundInsert, RefundApproveLost,
                            RefundReject, RefundRetry
<1> QED
    BY <1>5, <1>6, <1>7 DEF OnlineNext, SaleStep

LEMMA FiniteWithStatus ==
    ASSUME NEW S
    PROVE  /\ IsFiniteSet(WithStatus(S)) /\ Cardinality(WithStatus(S)) \in Nat
           /\ IsFiniteSet(WithStatus(S)') /\ Cardinality(WithStatus(S)') \in Nat
<1>1. IsFiniteSet(PaymentIds)
    BY FS_Interval, BookingRecordsAssumption DEF PaymentIds
<1>2. WithStatus(S) \subseteq PaymentIds /\ WithStatus(S)' \subseteq PaymentIds
    BY DEF WithStatus, Stored
<1> QED
    BY <1>1, <1>2, FS_Subset, FS_CardinalityType

\* The partner is debited no more often than a payment turned refunded, under
\* the same condition: a refunded payment that was deleted is not counted.
THEOREM DebitsMatchRefunds ==
    OnlineSpec /\ OnlyDraftsDeleted => []DebitMatchesRefund
<1> DEFINE refunded == WithStatus({"refunded"})
<1>1. Init => DebitMatchesRefund
    <2> SUFFICES ASSUME Init PROVE 0 <= Cardinality(refunded)
        BY DEF Init, DebitMatchesRefund
    <2> QED
        BY FiniteWithStatus
<1>2. OnlineInv /\ DebitMatchesRefund /\ [OnlineNext]_vars /\ [DraftsDeleted]_vars
          => DebitMatchesRefund'
    <2>1. CASE UNCHANGED vars
        BY <2>1 DEF vars, DebitMatchesRefund, WithStatus, Stored
    <2>2. ASSUME OnlineInv, DebitMatchesRefund, OnlineNext, DraftsDeleted
          PROVE  DebitMatchesRefund'
        <3> USE <2>2
        <3>1. refunded \subseteq refunded'
            <4> SUFFICES ASSUME NEW p \in WithStatus({"refunded"})
                         PROVE  p \in WithStatus({"refunded"})'
                OBVIOUS
            <4>1. payments'[p] # Absent
                BY DEF DraftsDeleted, WithStatus
            <4> QED
                BY <4>1, RefundedRowStep
        <3>2. /\ IsFiniteSet(refunded) /\ Cardinality(refunded) \in Nat
              /\ IsFiniteSet(refunded') /\ Cardinality(refunded') \in Nat
            BY FiniteWithStatus
        <3>3. Cardinality(refunded) <= Cardinality(refunded')
            BY <3>1, <3>2, FS_Subset
        <3>4. ledger.refund \in Nat /\ ledger.refund <= Cardinality(refunded)
            BY DEF DebitMatchesRefund, OnlineInv, TypeOK, Ledger
        <3>5. CASE ledger'.refund = ledger.refund
            BY <3>2, <3>3, <3>4, <3>5 DEF DebitMatchesRefund
        <3>6. ASSUME ledger'.refund = ledger.refund + 1,
                     NEW p \in WithStatus({"paid"}), p \in WithStatus({"refunded"})'
              PROVE  DebitMatchesRefund'
            <4>1. p \notin refunded
                BY DEF WithStatus
            <4>2. refunded \union {p} \subseteq refunded'
                BY <3>1, <3>6
            <4>3. Cardinality(refunded \union {p}) = Cardinality(refunded) + 1
                BY <3>2, <4>1, FS_AddElement
            <4>4. Cardinality(refunded \union {p}) <= Cardinality(refunded')
                BY <3>2, <4>2, FS_Subset
            <4> QED
                BY <3>2, <3>4, <3>6, <4>3, <4>4 DEF DebitMatchesRefund
        <3> QED
            BY <3>5, <3>6, DebitStep
    <2> QED
        BY <2>1, <2>2
<1> QED
    BY <1>1, <1>2, OnlineInvHolds, PTL DEF OnlineSpec, OnlyDraftsDeleted, DraftsDeleted

-----------------------------------------------------------------------------
(* Paid money of a booking that is over is in the refund queue.            *)

\* Approving a refund leaves nothing of the booking paid.
LEMMA ApprovalSettles ==
    ASSUME TypeOK, NEW r \in RefundIds, RefundApprove(r)
    PROVE  ~HasPaid'
<1> SUFFICES ASSUME NEW p \in WithStatus({"paid"})' PROVE FALSE
    BY DEF HasPaid
<1>1. p \in PaymentIds /\ payments'[p] # Absent /\ payments'[p].status = "paid"
    BY DEF WithStatus, Stored
<1>2. CASE p \in WithStatus({"paid"})
    <2>1. payments[p] \in Payment
        BY <1>2 DEF WithStatus, Stored, TypeOK
    <2>2. payments'[p] = [payments[p] EXCEPT !.status = "refunded"]
        BY <1>1, <1>2 DEF RefundApprove, BookRefund
    <2> QED
        BY <1>1, <2>1, <2>2 DEF Payment
<1>3. CASE p \notin WithStatus({"paid"})
    BY <1>1, <1>3 DEF RefundApprove, BookRefund, WithStatus, Stored
<1> QED
    BY <1>2, <1>3

\* No other handler takes a refund out of the table or decides on one, or
\* debits the partner, or gives a claimed event back.
LEMMA RefundsStay ==
    ASSUME OnlineInv, OnlineNext, \A r \in RefundIds : ~RefundApprove(r)
    PROVE  /\ RefundOutstanding => RefundOutstanding'
           /\ ReversedByUzum => ReversedByUzum'
           /\ ApprovedForNothing => ApprovedForNothing'
<1>0. refunds \in [RefundIds -> RefundStatuses]
    BY DEF OnlineInv, TypeOK
<1> DEFINE DebitKept == ledger'.refund = ledger.refund
<1> USE DEF RefundOutstanding, ReversedByUzum, ApprovedForNothing
<1>1. CASE UNCHANGED refunds /\ events \subseteq events' /\ DebitKept
    BY <1>1
<1>2. CASE OpenRefund /\ events \subseteq events' /\ DebitKept
    BY <1>0, <1>2, OpenRefundOpens
<1>3. ASSUME NEW kind, NEW t, NEW status, ProcessPaymentEvent(kind, t, status)
      PROVE  (UNCHANGED refunds \/ OpenRefund) /\ events \subseteq events' /\ DebitKept
    BY <1>3 DEF ProcessPaymentEvent, SettleOpenBooking, RefundLostRace, KeepSoldBooking,
                OnlineInv, TypeOK, Ledger
<1>4. ASSUME NEW t \in UzumTxns, UzumReverse(t)
      PROVE  UNCHANGED refunds /\ events \subseteq events' /\ DebitKept
    BY <1>4 DEF UzumReverse, OnlineInv, TypeOK, Ledger
<1>5. CASE PaymentStep
    BY <1>1, <1>2, <1>3, <1>4, <1>5
       DEF PaymentStep, PayRequest, PaySelect, PayDelete, PayWrite, PayInsert,
           UzumConfirm, CheckoutApply, SyncPaid, SyncFailed, RequestDies, ClickPrepare,
           ClickComplete, UzumCreate, UzumConfirmRead, CustomerPays,
           CheckoutCallback, SyncRead, PaymentAges, FailStaleUzumTransactions, ExpiryPasses
<1>6. CASE OnlineBookingStep
    BY <1>1, <1>2, <1>6
       DEF OnlineBookingStep, Expire, PartnerTimeout, DeadlinePasses, CancelRequest,
           RetryRequest, Cancel, RetrySelect, RetryInsert
<1>7. CASE RefundStep
    <2>1. ASSUME NEW r \in RefundIds, RefundReject(r) \/ RefundRetry(r)
          PROVE  /\ RefundOutstanding'
                 /\ \A s \in RefundIds : refunds[s] = "approved" => refunds'[s] = "approved"
                 /\ UNCHANGED <<events, ledger>>
        BY <1>0, <2>1 DEF RefundReject, RefundRetry
    <2> QED
        BY <1>1, <1>2, <1>7, <2>1 DEF RefundStep, RefundRequest, RefundInsert,
                                      RefundApproveLost
<1> QED
    BY <1>5, <1>6, <1>7 DEF OnlineNext, SaleStep

\* A booking whose money was given back is over, and stays so.
RefundedIsSettled == ledger.refund > 0 => booking.status \in SettledStatuses

LEMMA StaysRefunded ==
    ASSUME OnlineInv, NotCompleted, RefundedIsSettled, OnlineNext
    PROVE  RefundedIsSettled'
<1>1. ledger.refund \in Nat
    BY DEF OnlineInv, TypeOK, Ledger
<1>2. CASE ledger'.refund = ledger.refund
    BY <1>2, OnlineStepSells DEF RefundedIsSettled, OnlineInv, Sells, Keeps,
                                 OpenStatuses, SettledStatuses
<1>3. ASSUME NEW p \in WithStatus({"paid"}), p \in WithStatus({"refunded"})'
      PROVE  booking'.status \in SettledStatuses
    <2>1. p \notin WithStatus({"paid"})' /\ payments'[p] # Absent
        BY <1>3 DEF WithStatus, Stored
    <2>2. RowReturned(p)
        BY <2>1, PaidRowStep
    <2> QED
        BY <2>2 DEF RowReturned, NotCompleted
<1> QED
    BY <1>2, <1>3, DebitStep DEF RefundedIsSettled

\* What undoes the sale of a paid booking asks for a refund, but for the
\* reversal, and for the cancellation that finds one already approved: approved
\* for nothing, since the booking is still sold.
LEMMA UndoneIsRefunded ==
    ASSUME OnlineInv, RefundedIsSettled, OnlineNext, HasPaid,
           \A r \in RefundIds : ~RefundApprove(r),
           booking.status \in SoldStatuses, booking'.status \in SettledStatuses
    PROVE  RefundOutstanding' \/ ReversedByUzum' \/ ApprovedForNothing'
<1>0. refunds \in [RefundIds -> RefundStatuses]
    BY DEF OnlineInv, TypeOK
<1>1. booking'.status # booking.status
    BY DEF SoldStatuses, SettledStatuses
<1>2. CASE PaymentStep
    <2>1. ASSUME NEW kind, NEW t, NEW status, ProcessPaymentEvent(kind, t, status)
          PROVE  FALSE
        BY <1>1, <2>1 DEF ProcessPaymentEvent, SettleOpenBooking, RefundLostRace,
                          KeepSoldBooking, OpenStatuses, SoldStatuses
    <2>2. ASSUME NEW t \in UzumTxns, UzumReverse(t) PROVE ReversedByUzum'
        BY <2>2 DEF UzumReverse, ReversedByUzum
    <2>3. ASSUME NEW t \in UzumTxns, UzumCreate(t) PROVE FALSE
        BY <2>3 DEF UzumCreate, UzumPayable, OpenStatuses, SoldStatuses
    <2>4. CASE ExpiryPasses
        BY <1>1, <2>4 DEF ExpiryPasses, OnlineInv, TypeOK, Booking
    <2>5. CASE UNCHANGED booking
        BY <1>1, <2>5
    <2> QED
        BY <1>2, <2>1, <2>2, <2>3, <2>4, <2>5
           DEF PaymentStep, PayRequest, PaySelect, PayDelete, PayWrite, PayInsert,
               UzumConfirm, CheckoutApply, SyncPaid, SyncFailed, RequestDies, ClickPrepare,
               ClickComplete, UzumConfirmRead, CustomerPays,
               CheckoutCallback, SyncRead, PaymentAges, FailStaleUzumTransactions
<1>3. CASE OnlineBookingStep
    <2>1. CASE Expire
        BY <2>1 DEF Expire, OpenStatuses, SoldStatuses
    <2>2. CASE PartnerTimeout
        BY <1>0, <2>2, OpenRefundOpens DEF PartnerTimeout
    <2>3. CASE DeadlinePasses
        BY <1>1, <2>3 DEF DeadlinePasses, OnlineInv, TypeOK, Booking
    <2>4. ASSUME NEW q \in inflight, Cancel(q)
          PROVE  RefundOutstanding' \/ ApprovedForNothing'
        <3>1. CASE LiveRefund
            <4>1. UNCHANGED <<refunds, ledger>>
                BY <2>4, <3>1 DEF Cancel
            <4>2. ledger.refund = 0
                BY DEF RefundedIsSettled, SoldStatuses, SettledStatuses, OnlineInv,
                       TypeOK, Ledger
            <4> QED
                BY <3>1, <4>1, <4>2 DEF LiveRefund, RefundOutstanding, ApprovedForNothing
        <3>2. CASE ~LiveRefund
            BY <1>0, <2>4, <3>2, OpenRefundOpens DEF Cancel
        <3> QED
            BY <3>1, <3>2
    <2>5. CASE UNCHANGED booking
        BY <1>1, <2>5
    <2> QED
        BY <1>3, <2>1, <2>2, <2>3, <2>4, <2>5
           DEF OnlineBookingStep, CancelRequest, RetryRequest, RetrySelect, RetryInsert
<1>4. CASE RefundStep
    BY <1>1, <1>4 DEF RefundStep, RefundRequest, RefundInsert, RefundApproveLost,
                      RefundReject, RefundRetry
<1> QED
    BY <1>2, <1>3, <1>4 DEF OnlineNext, SaleStep

\* A booking that is over and has a payment still paid has a refund asked for
\* and not given, unless Uzum has reversed a payment of the booking or the only
\* refunds ever approved found nothing to give back.
THEOREM PaidIsQueued == OnlineSpec => []PaidIsRefundable
<1> DEFINE Inv == NotCompleted /\ RefundedIsSettled /\ PaidIsRefundable
<1>1. Init => Inv
    BY DEF Init, Created, Draft, NewRow, PaidIsRefundable, HasPaid, WithStatus, Stored,
           Absent, NotCompleted, RefundedIsSettled
<1>2. OnlineInv /\ Inv /\ [OnlineNext]_vars => Inv'
    <2>1. CASE UNCHANGED vars
        BY <2>1 DEF vars, PaidIsRefundable, HasPaid, WithStatus, Stored, RefundOutstanding,
                    ReversedByUzum, ApprovedForNothing, NotCompleted, RefundedIsSettled
    <2>2. ASSUME OnlineInv, Inv, OnlineNext,
                 booking'.status \in SettledStatuses, NEW p \in WithStatus({"paid"})'
          PROVE  RefundOutstanding' \/ ReversedByUzum' \/ ApprovedForNothing'
        <3> USE <2>2
        <3>1. \A r \in RefundIds : ~RefundApprove(r)
            BY ApprovalSettles DEF OnlineInv, HasPaid
        <3>2. CASE p \notin WithStatus({"paid"})
            BY <3>2, PaidRowOrigin
        <3>3. CASE p \in WithStatus({"paid"})
            <4>1. HasPaid
                BY <3>3 DEF HasPaid
            <4>2. booking.status \notin OpenStatuses
                BY <4>1 DEF OnlineInv, OpenIsUnpaid
            <4>3. CASE booking.status \in SettledStatuses
                BY <3>1, <4>1, <4>3, RefundsStay DEF PaidIsRefundable
            <4>4. CASE booking.status \in SoldStatuses
                BY <3>1, <4>1, <4>4, UndoneIsRefunded
            <4> QED
                BY <4>2, <4>3, <4>4 DEF OnlineInv, TypeOK, Booking, BookingStatuses
        <3> QED
            BY <3>2, <3>3
    <2>3. OnlineInv /\ Inv /\ OnlineNext => NotCompleted' /\ RefundedIsSettled'
        BY StaysUncompleted, StaysRefunded DEF OnlineInv
    <2> QED
        BY <2>1, <2>2, <2>3 DEF PaidIsRefundable, HasPaid
<1> QED
    BY <1>1, <1>2, OnlineInvHolds, PTL DEF OnlineSpec

-----------------------------------------------------------------------------
(* What Uzum Checkout has given back is not forgotten.                     *)

\* A step that pays nothing: whatever is paid after it was paid before it, by
\* the same transaction.
PaysNothing ==
    \A p \in WithStatus({"paid"})' :
        p \in WithStatus({"paid"}) /\ payments'[p].ref = payments[p].ref

\* A step that pays by an event, which it claims.
PaysBy(kind, t) ==
    /\ <<kind, t>> \notin events
    /\ <<kind, t>> \in events'
    /\ \A p \in WithStatus({"paid"})' :
          \/ p \in WithStatus({"paid"}) /\ payments'[p].ref = payments[p].ref
          \/ payments'[p].ref = t

LEMMA UnpaidRowWritten ==
    ASSUME payments \in Rows, NEW x, NEW row, row.status # "paid",
           payments' = [payments EXCEPT ![x] = row]
    PROVE  PaysNothing
BY DEF PaysNothing, WithStatus, Stored, Rows

LEMMA UnpaidStatusWritten ==
    ASSUME payments \in Rows, NEW x \in Stored, NEW s, s # "paid",
           payments' = [payments EXCEPT ![x].status = s]
    PROVE  PaysNothing
<1>1. payments[x] \in Payment
    BY DEF Rows, Stored
<1>2. [payments[x] EXCEPT !.status = s].status # "paid"
    BY <1>1 DEF Payment
<1> QED
    BY <1>2, UnpaidRowWritten

LEMMA EventPays ==
    ASSUME TypeOK, NEW kind, NEW t, NEW status, ProcessPaymentEvent(kind, t, status)
    PROVE  PaysBy(kind, t)
<1> DEFINE x == Picked(Stored)
<1>0. x \in Stored
    BY PickedIsMember DEF ProcessPaymentEvent, Stored
<1>1. x \in PaymentIds /\ payments[x] \in Payment
    BY <1>0 DEF Stored, TypeOK
<1>2. <<kind, t>> \notin events /\ <<kind, t>> \in events'
    BY DEF ProcessPaymentEvent
<1>3. CASE UNCHANGED payments
    BY <1>2, <1>3 DEF PaysBy, WithStatus, Stored
<1>4. CASE payments' = [payments EXCEPT ![x].status = status, ![x].ref = t]
    <2> HIDE DEF x
    <2>1. payments'[x].ref = t
        BY <1>1, <1>4 DEF TypeOK, Payment
    <2>2. \A p \in PaymentIds : p # x => payments'[p] = payments[p]
        BY <1>4 DEF TypeOK
    <2> QED
        BY <1>2, <2>1, <2>2 DEF PaysBy, WithStatus, Stored
<1> QED
    BY <1>3, <1>4 DEF ProcessPaymentEvent

\* Only an event pays, and an order's only event is its confirmation.
LEMMA PaymentStepPays ==
    ASSUME TypeOK, PaymentStep
    PROVE  PaysNothing \/ \E kind, t : PaysBy(kind, t) /\ (t \in Orders => kind = "confirm")
<1>0. payments \in Rows
    BY DEF TypeOK, Rows
<1>1. ASSUME NEW q \in inflight, PayDelete(q) PROVE PaysNothing
    <2>1. Absent.status # "paid" /\ payments' = [payments EXCEPT ![q.pay] = Absent]
        BY <1>1 DEF PayDelete, Absent
    <2> QED
        BY <1>0, <2>1, UnpaidRowWritten
<1>2. ASSUME NEW q \in inflight, PayWrite(q), q.method # "uzum_checkout" PROVE PaysNothing
    BY <1>0, <1>2, UnpaidRowWritten DEF PayWrite, Inserted, NewRow
<1>3. ASSUME NEW q \in inflight, PayInsert(q) PROVE PaysNothing
    BY <1>0, <1>3, UnpaidRowWritten DEF PayInsert, Inserted, NewRow
<1>4. ASSUME NEW q \in inflight, UzumConfirm(q) \/ CheckoutApply(q)
      PROVE  PaysBy("confirm", q.txn)
    BY <1>4, EventPays DEF UzumConfirm, CheckoutApply
<1>5. ASSUME NEW t \in ClickTxns, ClickPrepare(t) \/ ClickComplete(t)
      PROVE  t \notin Orders /\ \E kind : PaysBy(kind, t)
    BY <1>5, EventPays, BookingRecordsAssumption DEF ClickPrepare, ClickComplete
<1>6. ASSUME NEW t \in UzumTxns, UzumCreate(t) PROVE PaysNothing
    <2> DEFINE row(age) == [status |-> "processing", provider |-> "uzum",
                            ref |-> t, idem |-> t, age |-> age]
    <2>1. ASSUME NEW age PROVE row(age).status # "paid"
        OBVIOUS
    <2>2. PICK p, age : payments' = [payments EXCEPT ![p] = row(age)]
        BY <1>6 DEF UzumCreate, Inserted
    <2> HIDE DEF row
    <2> QED
        BY <1>0, <2>1, <2>2, UnpaidRowWritten
<1>7. ASSUME NEW t \in UzumTxns, UzumReverse(t) PROVE PaysNothing
    <2> DEFINE x == Latest(UzumPayments(t))
    <2>1. x \in Stored
        BY <1>7, LatestIsLast DEF UzumReverse, UzumPayments, Stored
    <2>2. payments' = [payments EXCEPT ![x].status = "reversed"]
        BY <1>7 DEF UzumReverse
    <2> HIDE DEF x
    <2> QED
        BY <1>0, <2>1, <2>2, UnpaidStatusWritten
<1>8. ASSUME NEW q \in inflight, SyncFailed(q), q.pay \in WithStatus(OpenPayment)
      PROVE  PaysNothing
    <2> DEFINE x == q.pay
    <2>1. x \in Stored /\ payments' = [payments EXCEPT ![x].status = "failed"]
        BY <1>8 DEF SyncFailed, WithStatus
    <2> HIDE DEF x
    <2> QED
        BY <1>0, <2>1, UnpaidStatusWritten
<1>9. CASE FailStaleUzumTransactions
    <2>1. ASSUME NEW p \in StaleUzum PROVE payments'[p].status # "paid"
        <3>1. p \in PaymentIds /\ payments[p] \in Payment
            BY <2>1 DEF StaleUzum, WithStatus, Stored, TypeOK
        <3>2. payments'[p] = [payments[p] EXCEPT !.status = "failed"]
            BY <1>9, <3>1, <2>1 DEF FailStaleUzumTransactions
        <3> QED
            BY <3>1, <3>2 DEF Payment
    <2> QED
        BY <1>9, <2>1 DEF FailStaleUzumTransactions, PaysNothing, WithStatus, Stored
<1>10. ASSUME NEW x \in PaymentIds, PaymentAges(x) PROVE PaysNothing
    <2> DEFINE row == [payments[x] EXCEPT !.age = Older(@)]
    <2>1. payments[x] \in Payment /\ payments[x].status \in OpenPayment
        BY <1>10 DEF PaymentAges, WithStatus, Stored, TypeOK
    <2>2. row.status = payments[x].status
        BY <2>1 DEF Payment
    <2>3. payments' = [payments EXCEPT ![x] = row]
        BY <1>0, <1>10 DEF PaymentAges, Rows
    <2> HIDE DEF row
    <2> QED
        BY <1>0, <2>1, <2>2, <2>3, UnpaidRowWritten DEF OpenPayment
<1>11. CASE UNCHANGED payments
    BY <1>11 DEF PaysNothing, WithStatus, Stored
<1> QED
    BY <1>1, <1>2, <1>3, <1>4, <1>5, <1>6, <1>7, <1>8, <1>9, <1>10, <1>11
       DEF PaymentStep, PayRequest, PaySelect, PayWrite, SyncPaid, SyncFailed, RequestDies,
           UzumConfirmRead, CustomerPays, CheckoutCallback, SyncRead, ExpiryPasses

LEMMA StepPays ==
    ASSUME OnlineInv, OnlineNext
    PROVE  PaysNothing \/ \E kind, t : PaysBy(kind, t) /\ (t \in Orders => kind = "confirm")
<1>1. CASE UNCHANGED payments
    BY <1>1 DEF PaysNothing, WithStatus, Stored
<1>2. ASSUME NEW q \in inflight, RetryInsert(q) PROVE PaysNothing
    <2>1. PICK m \in Methods : payments' = Inserted(Draft(m))
        BY <1>2 DEF RetryInsert
    <2>2. Draft(m).status # "paid"
        BY DEF Draft, NewRow
    <2>3. payments \in Rows
        BY DEF OnlineInv, TypeOK, Rows
    <2> QED
        BY <2>1, <2>2, <2>3, UnpaidRowWritten DEF Inserted
<1>3. ASSUME NEW r \in RefundIds, RefundApprove(r) PROVE PaysNothing
    BY <1>3, ApprovalSettles DEF OnlineInv, HasPaid, PaysNothing
<1>4. CASE OnlineBookingStep
    BY <1>1, <1>2, <1>4
       DEF OnlineBookingStep, Expire, PartnerTimeout, DeadlinePasses, CancelRequest,
           RetryRequest, Cancel, RetrySelect
<1>5. CASE RefundStep
    BY <1>1, <1>3, <1>5 DEF RefundStep, RefundRequest, RefundInsert, RefundApproveLost,
                            RefundReject, RefundRetry
<1> QED
    BY <1>4, <1>5, PaymentStepPays DEF OnlineNext, SaleStep, OnlineInv

\* An order is refunded only for a row that is paid, and then either approved or
\* still to be approved.  No claimed event is given back.
LEMMA OrderRefunded ==
    ASSUME OnlineInv, OnlineNext
    PROVE  /\ events \subseteq events'
           /\ \A o \in Orders : orders'[o] = "refunded" =>
                 \/ orders[o] = "refunded"
                 \/ /\ \E p \in WithStatus({"paid"}) : payments[p].ref = o
                    /\ RefundOutstanding' \/ \E r \in RefundIds : RefundApprove(r)
<1> USE DEF OnlineInv, TypeOK
<1>1. CASE UNCHANGED orders /\ events \subseteq events'
    BY <1>1
<1>2. ASSUME NEW kind, NEW t, NEW status, ProcessPaymentEvent(kind, t, status)
      PROVE  UNCHANGED orders /\ events \subseteq events'
    BY <1>2 DEF ProcessPaymentEvent
<1>3. CASE PaymentStep
    BY <1>1, <1>2, <1>3
       DEF PaymentStep, PayRequest, PaySelect, PayDelete, PayWrite, PayInsert,
           UzumConfirm, CheckoutApply, SyncPaid, SyncFailed, RequestDies, ClickPrepare,
           ClickComplete, UzumCreate, UzumConfirmRead, UzumReverse, CustomerPays,
           CheckoutCallback, SyncRead, PaymentAges, FailStaleUzumTransactions, ExpiryPasses
<1>4. CASE OnlineBookingStep
    BY <1>1, <1>4 DEF OnlineBookingStep, Expire, PartnerTimeout, DeadlinePasses,
                      CancelRequest, RetryRequest, Cancel, RetrySelect, RetryInsert
<1>5. CASE RefundStep
    <2>1. ASSUME NEW p \in WithStatus({"paid"}), RefundAtProvider(p), NEW o \in Orders,
                 orders'[o] = "refunded"
          PROVE  orders[o] = "refunded" \/ payments[p].ref = o
        BY <2>1 DEF RefundAtProvider
    <2>2. ASSUME NEW r \in RefundIds, RefundApproveLost(r)
          PROVE  RefundOutstanding' /\ \E p \in WithStatus({"paid"}) : RefundAtProvider(p)
        BY <2>2 DEF RefundApproveLost, RefundOutstanding
    <2>3. ASSUME NEW r \in RefundIds, RefundApprove(r)
          PROVE  UNCHANGED orders \/ \E p \in WithStatus({"paid"}) : RefundAtProvider(p)
        BY <2>3 DEF RefundApprove
    <2>4. UNCHANGED events
        BY <1>5 DEF RefundStep, RefundRequest, RefundInsert, RefundApprove,
                    RefundApproveLost, RefundReject, RefundRetry
    <2>5. CASE UNCHANGED orders
        BY <2>4, <2>5
    <2>6. ASSUME NEW r \in RefundIds, RefundApproveLost(r) \/ RefundApprove(r),
                 NEW p \in WithStatus({"paid"}), RefundAtProvider(p), NEW o \in Orders,
                 orders'[o] = "refunded", orders[o] # "refunded"
          PROVE  /\ payments[p].ref = o
                 /\ RefundOutstanding' \/ RefundApprove(r)
        BY <2>1, <2>2, <2>6
    <2> QED
        BY <1>5, <2>2, <2>3, <2>4, <2>5, <2>6
           DEF RefundStep, RefundRequest, RefundInsert, RefundReject, RefundRetry
<1> QED
    BY <1>3, <1>4, <1>5 DEF OnlineNext, SaleStep

\* An order that paid a row, and one that was refunded, had its confirmation
\* claimed: it will pay no other row.
PaidIsClaimed ==
    \A p \in WithStatus({"paid"}) :
        payments[p].ref \in Orders => <<"confirm", payments[p].ref>> \in events

RefundedIsClaimed == \A o \in Orders : orders[o] = "refunded" => <<"confirm", o>> \in events

\* A payment whose order was refunded at Uzum Checkout and that still says paid
\* has its refund outstanding.
THEOREM RefundsAreRemembered == OnlineSpec => []RefundIsRemembered
<1> DEFINE Inv == PaidIsClaimed /\ RefundedIsClaimed /\ RefundIsRemembered
<1>1. Init => Inv
    BY DEF Init, PaidIsClaimed, RefundedIsClaimed, RefundIsRemembered, Created, Draft,
           NewRow, WithStatus, Stored, Absent
<1>2. OnlineInv /\ Inv /\ [OnlineNext]_vars => Inv'
    <2>1. CASE UNCHANGED vars
        BY <2>1 DEF vars, PaidIsClaimed, RefundedIsClaimed, RefundIsRemembered, WithStatus,
                    Stored, RefundOutstanding
    <2>2. ASSUME OnlineInv, Inv, OnlineNext PROVE Inv'
        <3> USE <2>2
        <3>1. PaidIsClaimed'
            BY StepPays, OrderRefunded DEF PaidIsClaimed, PaysNothing, PaysBy
        <3>2. RefundedIsClaimed'
            BY OrderRefunded DEF RefundedIsClaimed, PaidIsClaimed
        <3>3. ASSUME NEW p \in WithStatus({"paid"})', payments'[p].ref \in Orders,
                     orders'[payments'[p].ref] = "refunded"
              PROVE  RefundOutstanding'
            <4> DEFINE o == payments'[p].ref
            <4>1. \A r \in RefundIds : ~RefundApprove(r)
                BY <3>3, ApprovalSettles DEF OnlineInv, HasPaid
            <4>2. CASE orders[o] = "refunded"
                <5>1. <<"confirm", o>> \in events
                    BY <3>3, <4>2 DEF RefundedIsClaimed
                <5>2. p \in WithStatus({"paid"}) /\ payments[p].ref = o
                    BY <3>3, <5>1, StepPays DEF PaysNothing, PaysBy
                <5> QED
                    BY <3>3, <4>1, <4>2, <5>2, RefundsStay DEF RefundIsRemembered
            <4>3. CASE orders[o] # "refunded"
                BY <3>3, <4>1, <4>3, OrderRefunded
            <4> QED
                BY <4>2, <4>3
        <3> QED
            BY <3>1, <3>2, <3>3 DEF RefundIsRemembered
    <2> QED
        BY <2>1, <2>2
<1> QED
    BY <1>1, <1>2, OnlineInvHolds, PTL DEF OnlineSpec

-----------------------------------------------------------------------------
(* createPayment deletes nothing when new sessions ask for the method the   *)
(* booking was made with, unless that is Uzum Checkout.  Then the two       *)
(* theorems above hold without their hypothesis.                            *)

SameMethod ==
    \A asked \in Asked, m \in Methods \union Asked : asked = m /\ asked # "uzum_checkout"

\* A session that is being opened was asked for, and will delete no row.
SoundRequest(q) ==
    /\ q.op # "pay.delete"
    /\ q.op \in {"pay.select", "pay.write"} => q.method \in Asked

\* An open row is of the method that is asked for, or some provider works on it.
SoundRow(row) ==
    row.status \in OpenPayment =>
        \A asked \in Asked :
            row.provider = asked \/ row.status = "processing" \/ row.ref # NoTxn

SoundRequests == \A q \in inflight : SoundRequest(q)
SoundRows     == \A p \in PaymentIds : SoundRow(payments[p])

\* createPayment finds a row it can keep.
LEMMA NothingToDelete ==
    ASSUME SameMethod, TypeOK, SoundRequests, SoundRows, NEW q \in inflight, PaySelect(q)
    PROVE  SoundRequests'
<1> DEFINE open == WithStatus(OpenPayment)
           old  == Latest(open)
           keep == IF payments[old].provider = q.method
                     THEN Live(old) \/ q.method # "uzum_checkout"
                     ELSE Live(old)
<1>1. q.method \in Asked
    BY DEF PaySelect, SoundRequests, SoundRequest
<1>2. open # {} => keep
    <2> SUFFICES ASSUME open # {} PROVE keep
        OBVIOUS
    <2>1. old \in open
        BY LatestIsLast DEF WithStatus, Stored
    <2>2. old \in PaymentIds /\ payments[old].status \in OpenPayment
        BY <2>1 DEF WithStatus, Stored
    <2>3. payments[old].provider = q.method \/ Live(old)
        BY <1>1, <2>2 DEF SoundRows, SoundRow, Live
    <2>4. q.method # "uzum_checkout"
        BY <1>1 DEF SameMethod
    <2> QED
        BY <2>3, <2>4
<1> HIDE DEF open, old
<1>3. Advance(q, "pay.write", 0, NoTxn) \/ Resume(q)
    BY <1>2 DEF PaySelect, open, old
<1> QED
    BY <1>1, <1>3 DEF Advance, Resume, SoundRequests, SoundRequest

LEMMA RequestsStaySound ==
    ASSUME SameMethod, TypeOK, SoundRequests, SoundRows, OnlineNext
    PROVE  SoundRequests'
<1> USE DEF SoundRequests, SoundRequest
<1>1. ASSUME NEW op, op \notin {"pay.select", "pay.delete", "pay.write"},
             NEW m, NEW p, NEW t, Suspend(op, m, p, t)
      PROVE  SoundRequests'
    BY <1>1 DEF Suspend
<1>2. ASSUME NEW q, NEW op, op \notin {"pay.select", "pay.delete", "pay.write"},
             NEW p, NEW t, Advance(q, op, p, t)
      PROVE  SoundRequests'
    BY <1>2 DEF Advance
<1>3. ASSUME NEW q, Resume(q) PROVE SoundRequests'
    BY <1>3 DEF Resume
<1>4. ASSUME NEW m \in Asked, PayRequest(m) PROVE SoundRequests'
    BY <1>4 DEF PayRequest, Suspend
<1>5. ASSUME NEW q \in inflight, PaySelect(q) PROVE SoundRequests'
    BY <1>5, NothingToDelete
<1>6. ASSUME NEW q \in inflight, PayDelete(q) PROVE SoundRequests'
    BY <1>6 DEF PayDelete
<1>7. CASE UNCHANGED inflight
    BY <1>7
<1>8. CASE PaymentStep
    BY <1>1, <1>2, <1>3, <1>4, <1>5, <1>6, <1>7, <1>8
       DEF PaymentStep, PayWrite, PayInsert, UzumConfirm, CheckoutApply, SyncPaid,
           SyncFailed, RequestDies, ClickPrepare, ClickComplete, UzumCreate,
           UzumConfirmRead, UzumReverse, CustomerPays, CheckoutCallback, SyncRead,
           PaymentAges, FailStaleUzumTransactions, ExpiryPasses
<1>9. CASE OnlineBookingStep
    BY <1>1, <1>2, <1>3, <1>7, <1>9
       DEF OnlineBookingStep, Expire, PartnerTimeout, DeadlinePasses, CancelRequest,
           RetryRequest, Cancel, RetrySelect, RetryInsert
<1>10. CASE RefundStep
    BY <1>1, <1>3, <1>7, <1>10
       DEF RefundStep, RefundRequest, RefundInsert, RefundApprove, RefundApproveLost,
           RefundReject, RefundRetry
<1> QED
    BY <1>8, <1>9, <1>10 DEF OnlineNext, SaleStep

\* Writing one sound row.
LEMMA SoundRowWritten ==
    ASSUME payments \in Rows, SoundRows, NEW p, NEW row, SoundRow(row),
           payments' = [payments EXCEPT ![p] = row]
    PROVE  SoundRows'
BY DEF SoundRows, Rows

\* ... or a status that is no longer open.
LEMMA SoundStatusWritten ==
    ASSUME payments \in Rows, SoundRows, NEW p \in Stored, NEW s, s \notin OpenPayment,
           payments' = [payments EXCEPT ![p].status = s]
    PROVE  SoundRows'
<1>1. payments[p] \in Payment
    BY DEF Rows, Stored
<1>2. SoundRow([payments[p] EXCEPT !.status = s])
    BY <1>1 DEF SoundRow, Payment
<1> QED
    BY <1>2, SoundRowWritten

LEMMA EventRowsSound ==
    ASSUME TypeOK, SoundRows, NEW kind, NEW t \in Txns, NEW status,
           ProcessPaymentEvent(kind, t, status)
    PROVE  SoundRows'
<1> DEFINE x == Picked(Stored)
<1>1. payments[x] \in Payment
    BY PickedIsMember DEF ProcessPaymentEvent, Stored, TypeOK
<1>2. CASE UNCHANGED payments
    BY <1>2 DEF SoundRows
<1>3. CASE payments' = [payments EXCEPT ![x].status = status, ![x].ref = t]
    <2> HIDE DEF x
    <2>1. SoundRow([payments[x] EXCEPT !.status = status, !.ref = t])
        BY <1>1, BookingRecordsAssumption DEF SoundRow, Payment
    <2>2. payments' = [payments EXCEPT ![x] = [payments[x] EXCEPT !.status = status, !.ref = t]]
        BY <1>3 DEF TypeOK
    <2> QED
        BY <2>1, <2>2, SoundRowWritten DEF TypeOK, Rows
<1> QED
    BY <1>2, <1>3 DEF ProcessPaymentEvent

LEMMA PaymentRowsSound ==
    ASSUME SameMethod, TypeOK, SoundRequests, SoundRows, PaymentStep
    PROVE  SoundRows'
<1>0. payments \in Rows
    BY DEF TypeOK, Rows
<1>1. ASSUME NEW q \in inflight, PayDelete(q) PROVE SoundRows'
    BY <1>1 DEF PayDelete, SoundRequests, SoundRequest
<1>2. ASSUME NEW q \in inflight, PayWrite(q), q.method # "uzum_checkout" PROVE SoundRows'
    <2>1. q.method \in Asked
        BY <1>2 DEF PayWrite, SoundRequests, SoundRequest
    <2> DEFINE row == NewRow(IF q.method = "cash" THEN "awaiting_cash" ELSE "pending",
                             q.method, NoTxn)
    <2>2. SoundRow(row)
        BY <2>1 DEF SoundRow, NewRow, SameMethod
    <2>3. payments' = [payments EXCEPT ![nextPay] = row]
        BY <1>2 DEF PayWrite, Inserted
    <2> HIDE DEF row
    <2> QED
        BY <1>0, <2>2, <2>3, SoundRowWritten
<1>3. ASSUME NEW q \in inflight, PayInsert(q) PROVE SoundRows'
    <2>1. SoundRow(NewRow("processing", "uzum_checkout", q.txn))
        BY DEF SoundRow, NewRow
    <2> QED
        BY <1>0, <1>3, <2>1, SoundRowWritten DEF PayInsert, Inserted
<1>4. ASSUME NEW q \in inflight, UzumConfirm(q) \/ CheckoutApply(q) PROVE SoundRows'
    <2>1. q.txn \in Txns
        BY <1>4 DEF UzumConfirm, CheckoutApply, TypeOK, Request, RequestOf, PlainOps
    <2> QED
        BY <1>4, <2>1, EventRowsSound DEF UzumConfirm, CheckoutApply
<1>5. ASSUME NEW t \in ClickTxns, ClickPrepare(t) \/ ClickComplete(t) PROVE SoundRows'
    BY <1>5, EventRowsSound DEF ClickPrepare, ClickComplete, Txns
<1>6. ASSUME NEW t \in UzumTxns, UzumCreate(t) PROVE SoundRows'
    <2> DEFINE row(age) == [status |-> "processing", provider |-> "uzum",
                            ref |-> t, idem |-> t, age |-> age]
    <2>1. ASSUME NEW age PROVE SoundRow(row(age))
        BY DEF SoundRow
    <2>2. PICK p, age : payments' = [payments EXCEPT ![p] = row(age)]
        BY <1>6 DEF UzumCreate, Inserted
    <2> HIDE DEF row
    <2> QED
        BY <1>0, <2>1, <2>2, SoundRowWritten
<1>7. ASSUME NEW t \in UzumTxns, UzumReverse(t) PROVE SoundRows'
    <2> DEFINE x == Latest(UzumPayments(t))
    <2>1. x \in Stored
        BY <1>7, LatestIsLast DEF UzumReverse, UzumPayments, Stored
    <2>2. payments' = [payments EXCEPT ![x].status = "reversed"]
        BY <1>7 DEF UzumReverse
    <2>3. "reversed" \notin OpenPayment
        BY DEF OpenPayment
    <2> HIDE DEF x
    <2> QED
        BY <1>0, <2>1, <2>2, <2>3, SoundStatusWritten
<1>8. ASSUME NEW q \in inflight, SyncFailed(q) PROVE SoundRows'
    <2>1. CASE q.pay \in WithStatus(OpenPayment)
        <3> DEFINE x == q.pay
        <3>1. x \in Stored /\ payments' = [payments EXCEPT ![x].status = "failed"]
            BY <1>8, <2>1 DEF SyncFailed, WithStatus
        <3>2. "failed" \notin OpenPayment
            BY DEF OpenPayment
        <3> HIDE DEF x
        <3> QED
            BY <1>0, <3>1, <3>2, SoundStatusWritten
    <2>2. CASE q.pay \notin WithStatus(OpenPayment)
        BY <1>8, <2>2 DEF SyncFailed, SoundRows
    <2> QED
        BY <2>1, <2>2
<1>9. CASE FailStaleUzumTransactions
    <2>1. ASSUME NEW p \in StaleUzum PROVE SoundRow(payments'[p])
        <3>1. p \in PaymentIds /\ payments[p] \in Payment
            BY <2>1 DEF StaleUzum, WithStatus, Stored, TypeOK
        <3>2. payments'[p] = [payments[p] EXCEPT !.status = "failed"]
            BY <1>9, <3>1, <2>1 DEF FailStaleUzumTransactions
        <3>3. payments'[p].status = "failed"
            BY <3>1, <3>2 DEF Payment
        <3> QED
            BY <3>3 DEF SoundRow, OpenPayment
    <2> QED
        BY <1>9, <2>1 DEF FailStaleUzumTransactions, SoundRows
<1>10. ASSUME NEW x \in PaymentIds, PaymentAges(x) PROVE SoundRows'
    <2> DEFINE row == [payments[x] EXCEPT !.age = Older(@)]
    <2>1. payments[x] \in Payment
        BY <1>10 DEF PaymentAges, WithStatus, Stored, TypeOK
    <2>2. /\ row.status = payments[x].status
          /\ row.provider = payments[x].provider
          /\ row.ref = payments[x].ref
        BY <2>1 DEF Payment
    <2>3. payments' = [payments EXCEPT ![x] = row]
        BY <1>0, <1>10 DEF PaymentAges, Rows
    <2> HIDE DEF row
    <2>4. SoundRow(row)
        BY <2>2 DEF SoundRows, SoundRow
    <2> QED
        BY <1>0, <2>3, <2>4, SoundRowWritten
<1>11. CASE UNCHANGED payments
    BY <1>11 DEF SoundRows
<1> QED
    BY <1>1, <1>2, <1>3, <1>4, <1>5, <1>6, <1>7, <1>8, <1>9, <1>10, <1>11
       DEF PaymentStep, PayRequest, PaySelect, PayWrite, SyncPaid, RequestDies,
           UzumConfirmRead, CustomerPays, CheckoutCallback, SyncRead, ExpiryPasses

LEMMA RowsStaySound ==
    ASSUME SameMethod, TypeOK, SoundRequests, SoundRows, OnlineNext
    PROVE  SoundRows'
<1>0. payments \in Rows
    BY DEF TypeOK, Rows
<1>1. CASE UNCHANGED payments
    BY <1>1 DEF SoundRows
<1>2. ASSUME NEW q \in inflight, RetryInsert(q) PROVE SoundRows'
    <2>1. PICK m \in Methods : payments' = Inserted(Draft(m))
        BY <1>2 DEF RetryInsert
    <2>2. SoundRow(Draft(m))
        BY DEF SoundRow, Draft, NewRow, SameMethod
    <2> QED
        BY <1>0, <2>1, <2>2, SoundRowWritten DEF Inserted
<1>3. ASSUME NEW r \in RefundIds, RefundApprove(r) PROVE SoundRows'
    <2>1. ASSUME NEW p \in WithStatus({"paid"}) PROVE SoundRow(payments'[p])
        <3>1. p \in PaymentIds /\ payments[p] \in Payment
            BY <2>1 DEF WithStatus, Stored, TypeOK
        <3>2. payments'[p] = [payments[p] EXCEPT !.status = "refunded"]
            BY <1>3, <2>1, <3>1 DEF RefundApprove, BookRefund
        <3>3. payments'[p].status = "refunded"
            BY <3>1, <3>2 DEF Payment
        <3> QED
            BY <3>3 DEF SoundRow, OpenPayment
    <2> QED
        BY <1>3, <2>1 DEF RefundApprove, BookRefund, SoundRows
<1>4. CASE OnlineBookingStep
    BY <1>1, <1>2, <1>4
       DEF OnlineBookingStep, Expire, PartnerTimeout, DeadlinePasses, CancelRequest,
           RetryRequest, Cancel, RetrySelect
<1>5. CASE RefundStep
    BY <1>1, <1>3, <1>5 DEF RefundStep, RefundRequest, RefundInsert, RefundApproveLost,
                            RefundReject, RefundRetry
<1> QED
    BY <1>4, <1>5, PaymentRowsSound DEF OnlineNext, SaleStep

\* A session for the method the booking has deletes no payment at all.
THEOREM NothingIsDeleted ==
    ASSUME SameMethod
    PROVE  OnlineSpec => OnlyDraftsDeleted
<1>1. Init => SoundRequests /\ SoundRows
    <2> SUFFICES ASSUME Init PROVE SoundRows
        BY DEF Init, SoundRequests
    <2>1. PICK profile \in Profiles, m \in Methods : Created(profile, m)
        BY DEF Init
    <2>2. SoundRow(Draft(m)) /\ SoundRow(Absent)
        BY DEF SoundRow, Draft, NewRow, Absent, OpenPayment, SameMethod
    <2> QED
        BY <2>1, <2>2 DEF Created, SoundRows
<1>2. OnlineInv /\ SoundRequests /\ SoundRows /\ [OnlineNext]_vars
          => (SoundRequests /\ SoundRows)'
    <2>1. CASE UNCHANGED vars
        BY <2>1 DEF vars, SoundRequests, SoundRows
    <2> QED
        BY <2>1, RequestsStaySound, RowsStaySound DEF OnlineInv
<1>3. OnlineInv /\ SoundRequests /\ [OnlineNext]_vars =>
          [\A p \in Stored : payments'[p] = Absent =>
              payments[p].status = "pending" /\ payments[p].ref = NoTxn]_vars
    <2> SUFFICES ASSUME OnlineInv, SoundRequests, OnlineNext,
                        NEW p \in Stored, payments'[p] = Absent
                 PROVE  FALSE
        OBVIOUS
    <2>1. p \in PaymentIds /\ payments[p] # Absent
        BY DEF Stored
    <2>2. p # nextPay
        BY <2>1, BookingRecordsAssumption DEF OnlineInv, FutureIsAbsent, PaymentIds
    <2>3. RowStep(p)
        BY <2>1, OnlineRows DEF RowSteps, OnlineInv
    <2>4. ~RowDeleted(p)
        BY DEF RowDeleted, SoundRequests, SoundRequest
    <2> QED
        BY <2>1, <2>2, <2>3, <2>4
           DEF RowStep, RowKept, RowInserted, RowMoved, RowReturned, Absent
<1> QED
    BY <1>1, <1>2, <1>3, OnlineInvHolds, PTL DEF OnlineSpec, OnlyDraftsDeleted

\* Then a sold booking has a paid payment in every behaviour ...
COROLLARY SoldIsBackedAtOneMethod ==
    ASSUME SameMethod, "cash" \notin Methods
    PROVE  OnlineSpec => []SoldIsBacked
BY SoldStaysBacked, NothingIsDeleted, PTL

\* ... and every debit of the partner has its refund.
COROLLARY DebitsMatchAtOneMethod ==
    ASSUME SameMethod
    PROVE  OnlineSpec => []DebitMatchesRefund
BY DebitsMatchRefunds, NothingIsDeleted, PTL

=============================================================================
