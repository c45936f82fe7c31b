---------------------------- MODULE PartnerDesk -----------------------------
(***************************************************************************)
(* partners.service: what the partner's staff do to a booking of theirs.   *)
(* Ownership and status are read before, and not again inside, the write.  *)
(***************************************************************************)
EXTENDS BookingRecords

\* bookingStatus('confirmed') requires awaiting_partner_confirmation when read.
ConfirmRequest ==
    /\ booking.status = "awaiting_partner_confirmation"
    /\ Suspend("status.confirmed", "cash", 0, NoTxn)
    /\ UNCHANGED <<booking, payments, nextPay, events, refunds, ledger, orders>>

\* for PartnerConfirm: a booking its partner accepts is yet to be paid.
PartnerConfirmUnpaid(q) ==
    /\ q.op = "status.confirmed"
    /\ booking' = [booking EXCEPT !.status = "awaiting_payment"]
    /\ Resume(q)
    /\ UNCHANGED <<payments, nextPay, events, refunds, ledger, orders>>

PartnerConfirm(q) ==
    /\ q.op = "status.confirmed"
    /\ booking' = [booking EXCEPT !.status = "confirmed"]
    /\ Resume(q)
    /\ UNCHANGED <<payments, nextPay, events, refunds, ledger, orders>>

\* bookingStatus('checked_in') and bookingStatus('completed') ask for no status.
CheckIn ==
    /\ booking' = [booking EXCEPT !.status = "confirmed"]
    /\ UNCHANGED <<payments, nextPay, events, refunds, ledger, orders, inflight>>

Complete ==
    /\ booking' = [booking EXCEPT !.status = "completed"]
    /\ UNCHANGED <<payments, nextPay, events, refunds, ledger, orders, inflight>>

\* rejectBooking: no refund is requested and no history is written.
RejectRequest ==
    /\ booking.status = "awaiting_partner_confirmation"
    /\ Suspend("reject", "cash", 0, NoTxn)
    /\ UNCHANGED <<booking, payments, nextPay, events, refunds, ledger, orders>>

RejectBooking(q) ==
    /\ q.op = "reject"
    /\ booking' = [booking EXCEPT !.status = "cancelled", !.seats = Released(@)]
    /\ Resume(q)
    /\ UNCHANGED <<payments, nextPay, events, refunds, ledger, orders>>

\* for CashCollected: the status asked for is written as it is.
CashCollectedAsAsked(collected) ==
    /\ \E p \in Stored :
          payments' = [payments EXCEPT
                          ![p].status = IF collected THEN "collected" ELSE "awaiting_cash"]
    /\ UNCHANGED <<booking, nextPay, events, refunds, ledger, orders, inflight>>

\* cashStatus: any one payment row of the booking (no ORDER BY) is paid by
\* hand or put back; nothing is credited.
CashCollected(collected) ==
    /\ \E p \in Stored :
          payments' = [payments EXCEPT
                          ![p].status = IF collected THEN "paid" ELSE "awaiting_cash"]
    /\ UNCHANGED <<booking, nextPay, events, refunds, ledger, orders, inflight>>

\* cancelTrip, for a booking that holds seats of the trip.
CancelTrip ==
    /\ booking.seats # "none"
    /\ \/ /\ booking.status \notin {"cancelled", "expired", "completed"}
          /\ booking' = [booking EXCEPT !.status = "cancelled", !.seats = Released(@)]
          /\ IF HasPaid THEN OpenRefund ELSE UNCHANGED refunds
       \/ /\ booking.status \in {"cancelled", "expired", "completed"}
          /\ booking' = [booking EXCEPT !.seats = Released(@)]
          /\ UNCHANGED refunds
    /\ UNCHANGED <<payments, nextPay, events, ledger, orders, inflight>>

PartnerStep ==
    \/ ConfirmRequest \/ CheckIn \/ Complete \/ RejectRequest \/ CancelTrip
    \/ \E q \in inflight : PartnerConfirm(q) \/ RejectBooking(q)
    \/ \E collected \in BOOLEAN : CashCollected(collected)

=============================================================================
