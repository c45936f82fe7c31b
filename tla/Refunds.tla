------------------------------ MODULE Refunds -------------------------------
(***************************************************************************)
(* refunds.service.create and the refund desk of admin.service: approve,   *)
(* reject and retry.                                                       *)
(***************************************************************************)
EXTENDS BookingRecords

\* create reads the booking, of which only what never changes matters, and
\* looks for a live refund of the same user; a NULL user_id never matches, so a
\* guest booking (asked for by an admin) is never found to have one.
RefundRequest ==
    /\ booking.guest \/ ~LiveRefund
    /\ Suspend("refund.insert", "cash", 0, NoTxn)
    /\ UNCHANGED <<booking, payments, nextPay, events, refunds, ledger, orders>>

\* The INSERT asks for nothing, not even for money paid.
RefundInsert(q) ==
    /\ q.op = "refund.insert"
    /\ OpenRefund
    /\ Resume(q) \/ UNCHANGED inflight   \* an equal one may go on
    /\ UNCHANGED <<booking, payments, nextPay, events, ledger, orders>>

\* The paid row whose order is refunded at Uzum Checkout, when there is one.
ProviderRefund(p) ==
    /\ payments[p].provider = "uzum_checkout"
    /\ payments[p].ref # NoTxn

\* Faulty variants, used by no action (see Payments).

\* for BookRefund: the partner is debited for every approved request.
BookRefundAlways ==
    /\ payments' = [p \in PaymentIds |->
                       IF p \in WithStatus({"paid"})
                         THEN [payments[p] EXCEPT !.status = "refunded"] ELSE payments[p]]
    /\ booking' = IF HasPaid /\ booking.status \notin {"cancelled", "completed"}
                    THEN [booking EXCEPT !.status = "cancelled"] ELSE booking
    /\ ledger' = [ledger EXCEPT !.refund = @ + 1]

\* for BookRefund: a booking still waiting for its partner is not cancelled.
BookRefundConfirmed ==
    /\ payments' = [p \in PaymentIds |->
                       IF p \in WithStatus({"paid"})
                         THEN [payments[p] EXCEPT !.status = "refunded"] ELSE payments[p]]
    /\ booking' = IF HasPaid /\ booking.status = "confirmed"
                    THEN [booking EXCEPT !.status = "cancelled"] ELSE booking
    /\ ledger' = IF HasPaid THEN [ledger EXCEPT !.refund = @ + 1] ELSE ledger

\* Every paid row of the booking becomes refunded; only then is the booking
\* cancelled and the partner debited.
BookRefund ==
    /\ payments' = [p \in PaymentIds |->
                       IF p \in WithStatus({"paid"})
                         THEN [payments[p] EXCEPT !.status = "refunded"] ELSE payments[p]]
    /\ booking' = IF HasPaid /\ booking.status \notin {"cancelled", "completed"}
                    THEN [booking EXCEPT !.status = "cancelled"] ELSE booking
    /\ ledger' = IF HasPaid THEN [ledger EXCEPT !.refund = @ + 1] ELSE ledger

\* checkout.refund for the picked row; it fails, and everything rolls back, for
\* an order the provider does not know or has not been paid for.
RefundAtProvider(p) ==
    /\ ProviderRefund(p)
    /\ payments[p].ref \in Orders
    /\ orders[payments[p].ref] \in {"completed", "refunded"}
    /\ orders' = [orders EXCEPT ![payments[p].ref] = "refunded"]

\* refundApprove: SELECT ... WHERE status = 'paid' picks some paid row, if any.
RefundApprove(r) ==
    /\ refunds[r] = "requested"
    /\ refunds' = [refunds EXCEPT ![r] = "approved"]
    /\ \/ ~HasPaid /\ UNCHANGED orders
       \/ \E p \in WithStatus({"paid"}) :
             RefundAtProvider(p) \/ (~ProviderRefund(p) /\ UNCHANGED orders)
    /\ BookRefund
    /\ UNCHANGED <<nextPay, events, inflight>>

\* for RefundApproveLost: the request is closed before the provider is asked,
\* in a transaction of its own.
RefundApproveHalf(r) ==
    /\ refunds[r] = "requested"
    /\ \E p \in WithStatus({"paid"}) : RefundAtProvider(p)
    /\ refunds' = [refunds EXCEPT ![r] = "approved"]
    /\ UNCHANGED <<booking, payments, nextPay, events, ledger, inflight>>

\* The provider has refunded the order, and the transaction does not commit.
RefundApproveLost(r) ==
    /\ refunds[r] = "requested"
    /\ \E p \in WithStatus({"paid"}) : RefundAtProvider(p)
    /\ UNCHANGED <<booking, payments, nextPay, events, refunds, ledger, inflight>>

RefundReject(r) ==
    /\ refunds[r] = "requested"
    /\ refunds' = [refunds EXCEPT ![r] = "rejected"]
    /\ UNCHANGED <<booking, payments, nextPay, events, ledger, orders, inflight>>

RefundRetry(r) ==
    /\ refunds[r] = "rejected"
    /\ refunds' = [refunds EXCEPT ![r] = "requested"]
    /\ UNCHANGED <<booking, payments, nextPay, events, ledger, orders, inflight>>

RefundStep ==
    \/ RefundRequest
    \/ \E q \in inflight : RefundInsert(q)
    \/ \E r \in RefundIds : \/ RefundApprove(r) \/ RefundApproveLost(r)
                            \/ RefundReject(r) \/ RefundRetry(r)

=============================================================================
