------------------------------ MODULE Bookings ------------------------------
(***************************************************************************)
(* bookings.service: the booking as settleNewBooking leaves it, the expiry *)
(* cron, cancellation by the customer, payment retry, the cash             *)
(* confirmation by SMS code and the no-show penalty.                       *)
(***************************************************************************)
EXTENDS BookingRecords

\* confirmation_mode decides where an accepted booking goes.
AcceptedStatus == IF booking.mode = "request_confirmation"
                    THEN "awaiting_partner_confirmation" ELSE "confirmed"

-----------------------------------------------------------------------------
(* Creation: createBooking, then settleNewBooking in the same transaction.  *)

\* The draft payment row: no reference, nothing registered anywhere.
Draft(method) ==
    NewRow(IF method = "cash" THEN "awaiting_cash" ELSE "pending", method, NoTxn)

\* A priced booking just created, by any of the three creation flows (only a
\* bus booking holds seats).  A cash booking is accepted at once.
Created(profile, method) ==
    LET request == profile.mode = "request_confirmation"
        cash    == method = "cash"
    IN  /\ booking =
             [status   |-> IF ~cash THEN "pending"
                           ELSE IF request THEN "awaiting_partner_confirmation"
                                           ELSE "confirmed",
              mode     |-> profile.mode,
              expires  |-> IF cash THEN "never" ELSE "ahead",
              deadline |-> IF request THEN "ahead" ELSE "none",
              seats    |-> profile.seats,
              cash     |-> cash,
              guest    |-> profile.guest]
        /\ payments = [p \in PaymentIds |-> IF p = 1 THEN Draft(method) ELSE Absent]

Init ==
    /\ \E profile \in Profiles, method \in Methods : Created(profile, method)
    /\ nextPay = 2
    /\ events = {}
    /\ refunds = [r \in RefundIds |-> "absent"]
    /\ ledger = [earned |-> 0, reversed |-> 0, refund |-> 0]
    /\ orders = [o \in Orders |-> "none"]
    /\ inflight = {}

-----------------------------------------------------------------------------
(* The cron of every minute: expireStaleBookings.                          *)

\* Faulty variants, used by no action (see Payments).

\* for HoldsOff: any processing payment does, however old.
HoldsOffForEver(p) == payments[p].status \in {"paid", "processing"}

\* A payment that keeps the booking alive: paid, or processing and recent.
HoldsOff(p) ==
    \/ payments[p].status = "paid"
    \/ payments[p].status = "processing" /\ payments[p].age = "fresh"

Expire ==
    /\ booking.status \in OpenStatuses
    /\ booking.expires = "past"
    /\ ~ \E p \in Stored : HoldsOff(p)
    /\ booking' = [booking EXCEPT !.status = "expired", !.seats = Released(@)]
    /\ UNCHANGED <<payments, nextPay, events, refunds, ledger, orders, inflight>>

\* for PartnerTimeout: no refund is requested.
PartnerTimeoutUnrefunded ==
    /\ booking.status = "awaiting_partner_confirmation"
    /\ booking.deadline = "past"
    /\ booking' = [booking EXCEPT !.status = "cancelled"]
    /\ UNCHANGED <<payments, nextPay, events, refunds, ledger, orders, inflight>>

\* for PartnerTimeout: expires_at is tested, which a payment has cleared.
PartnerTimeoutByExpiry ==
    /\ booking.status = "awaiting_partner_confirmation"
    /\ booking.expires = "past"
    /\ booking' = [booking EXCEPT !.status = "cancelled"]
    /\ IF HasPaid THEN OpenRefund ELSE UNCHANGED refunds
    /\ UNCHANGED <<payments, nextPay, events, ledger, orders, inflight>>

\* The partner did not answer in time; the seats are left as they are.
PartnerTimeout ==
    /\ booking.status = "awaiting_partner_confirmation"
    /\ booking.deadline = "past"
    /\ booking' = [booking EXCEPT !.status = "cancelled"]
    /\ IF HasPaid THEN OpenRefund ELSE UNCHANGED refunds
    /\ UNCHANGED <<payments, nextPay, events, ledger, orders, inflight>>

DeadlinePasses ==
    /\ booking.deadline = "ahead"
    /\ booking' = [booking EXCEPT !.deadline = "past"]
    /\ UNCHANGED <<payments, nextPay, events, refunds, ledger, orders, inflight>>

-----------------------------------------------------------------------------
(* cancel: only a cancelled booking is refused, by a read before the       *)
(* transaction.                                                            *)

CancelRequest ==
    /\ booking.status # "cancelled"
    /\ Suspend("cancel", "cash", 0, NoTxn)
    /\ UNCHANGED <<booking, payments, nextPay, events, refunds, ledger, orders>>

Cancel(q) ==
    /\ q.op = "cancel"
    /\ booking' = [booking EXCEPT !.status = "cancelled", !.seats = Released(@)]
    /\ IF HasPaid /\ ~LiveRefund THEN OpenRefund ELSE UNCHANGED refunds
    /\ Resume(q)
    /\ UNCHANGED <<payments, nextPay, events, ledger, orders>>

-----------------------------------------------------------------------------
(* retryPayment: the status is read, then the open row, then the insert.   *)

RetryRequest ==
    /\ booking.status \notin SoldStatuses
    /\ Suspend("retry.select", "click", 0, NoTxn)
    /\ UNCHANGED <<booking, payments, nextPay, events, refunds, ledger, orders>>

RetrySelect(q) ==
    /\ q.op = "retry.select"
    /\ IF WithStatus(OpenPayment) # {} THEN Resume(q)
                                       ELSE Advance(q, "retry.insert", 0, NoTxn)
    /\ UNCHANGED <<booking, payments, nextPay, events, refunds, ledger, orders>>

\* createPayment inserts a draft of the booking's own payment method.
RetryInsert(q) ==
    /\ q.op = "retry.insert"
    /\ RoomForPayment
    /\ \E m \in Methods : /\ (m = "cash") = booking.cash
                          /\ payments' = Inserted(Draft(m))
    /\ nextPay' = nextPay + 1
    /\ Resume(q)
    /\ UNCHANGED <<booking, events, refunds, ledger, orders>>

-----------------------------------------------------------------------------
(* Cash confirmation by SMS code: confirmCashBooking and verifyCashOtp     *)
(* read the status, await the code check, then execute unconditionally.    *)

CashRequest ==
    /\ booking.status \notin {"confirmed", "completed", "cancelled", "expired"}
    /\ Suspend("cash", "cash", 0, NoTxn)
    /\ UNCHANGED <<booking, payments, nextPay, events, refunds, ledger, orders>>

\* executeCashBookingConfirmation: the latest payment row becomes a cash one.
CashConfirm(q) ==
    /\ q.op = "cash"
    /\ booking' = [booking EXCEPT !.status = AcceptedStatus, !.cash = TRUE,
                                  !.expires = "never"]
    /\ \/ /\ Stored # {}
          /\ payments' = [payments EXCEPT ![Latest(Stored)].provider = "cash",
                                          ![Latest(Stored)].status = "awaiting_cash"]
          /\ UNCHANGED nextPay
       \/ /\ Stored = {}
          /\ RoomForPayment
          /\ payments' = Inserted(Draft("cash"))
          /\ nextPay' = nextPay + 1
    /\ Resume(q)
    /\ UNCHANGED <<events, refunds, ledger, orders>>

-----------------------------------------------------------------------------
(* applyNoShowPenalty, from its hourly cron or by hand.  The customer's    *)
(* 60 day block is not modelled here: no row of the booking depends on it. *)

NoShowRequest ==
    /\ booking.status \notin {"cancelled", "completed"}
    /\ Suspend("noshow", "cash", 0, NoTxn)
    /\ UNCHANGED <<booking, payments, nextPay, events, refunds, ledger, orders>>

NoShow(q) ==
    /\ q.op = "noshow"
    /\ booking' = [booking EXCEPT !.status = "cancelled", !.seats = Released(@)]
    /\ payments' = [p \in PaymentIds |->
                       IF p \in WithStatus({"awaiting_cash"})
                         THEN [payments[p] EXCEPT !.status = "failed"] ELSE payments[p]]
    /\ Resume(q)
    /\ UNCHANGED <<nextPay, events, refunds, ledger, orders>>

-----------------------------------------------------------------------------

\* What happens to a booking that is paid online.
OnlineBookingStep ==
    \/ Expire \/ PartnerTimeout \/ DeadlinePasses
    \/ CancelRequest \/ RetryRequest
    \/ \E q \in inflight : Cancel(q) \/ RetrySelect(q) \/ RetryInsert(q)

\* What the payment on the spot adds.
CashBookingStep ==
    \/ CashRequest \/ NoShowRequest
    \/ \E q \in inflight : CashConfirm(q) \/ NoShow(q)

=============================================================================
