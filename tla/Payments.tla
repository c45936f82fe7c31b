------------------------------ MODULE Payments ------------------------------
(***************************************************************************)
(* payments.service: opening a payment session, the Click, Uzum Merchant   *)
(* and Uzum Checkout webhooks, and the two crons that poll and fail        *)
(* payments.  A handler that runs inside pg.transaction locks the booking  *)
(* or the payment it works on before it decides, so it is one step; a      *)
(* handler that reads, awaits and then writes outside a transaction is one *)
(* step per await, and what it has read is kept in inflight.               *)
(*                                                                         *)
(* Every amount of the booking equals its total in this model, so the      *)
(* amount and currency checks pass; where they fail in the code the whole  *)
(* transaction rolls back, which is a stuttering step.                     *)
(***************************************************************************)
EXTENDS BookingRecords

-----------------------------------------------------------------------------
(* The common transaction of every "money arrived" event.                  *)

\* Faulty variants, used by no action: the invariants must notice them when they
\* stand in for the definition named after "for".

\* for SettleOpenBooking: the status is only tested to be payable, so a second
\* provider credits the booking again.
SettleUnsettledBooking ==
    /\ booking.status \notin SettledStatuses
    /\ booking' = [booking EXCEPT !.status = "confirmed", !.expires = "never"]
    /\ ledger' = [ledger EXCEPT !.earned = @ + 1]
    /\ UNCHANGED refunds

\* for SettleOpenBooking: the status is not tested at all, so late money brings
\* an expired booking back.
SettleAnyBooking ==
    /\ booking' = [booking EXCEPT !.status = "confirmed", !.expires = "never"]
    /\ ledger' = [ledger EXCEPT !.earned = IF @ = 0 THEN 1 ELSE @]
    /\ UNCHANGED refunds

\* for KeepSoldBooking: the payment is stored and an open booking forgotten.
KeepUnsettledBooking ==
    /\ booking.status \notin SettledStatuses
    /\ UNCHANGED <<booking, refunds, ledger>>

\* The booking was still open: confirm it, clear expires_at, credit the partner.
SettleOpenBooking ==
    /\ booking.status \in OpenStatuses
    /\ booking' = [booking EXCEPT
           !.status  = IF booking.mode = "request_confirmation"
                         THEN "awaiting_partner_confirmation" ELSE "confirmed",
           !.expires = "never"]
    /\ ledger' = [ledger EXCEPT !.earned = @ + 1]
    /\ UNCHANGED refunds

\* Lost race: the booking was expired or cancelled before the money arrived.
RefundLostRace ==
    /\ booking.status \in SettledStatuses
    /\ OpenRefund
    /\ UNCHANGED <<booking, ledger>>

KeepSoldBooking ==
    /\ booking.status \in SoldStatuses
    /\ UNCHANGED <<booking, refunds, ledger>>

\* for ProcessPaymentEvent: no test of a terminal payment.
ProcessAnyPaymentEvent(kind, txn, status) ==
    LET p == Picked(Stored)
    IN  /\ <<kind, txn>> \notin events
        /\ Stored # {}
        /\ events' = events \union {<<kind, txn>>}
        /\ payments' = [payments EXCEPT ![p].status = status, ![p].ref = txn]
        /\ \/ status = "paid" /\ (SettleOpenBooking \/ RefundLostRace \/ KeepSoldBooking)
           \/ status = "processing" /\ UNCHANGED <<booking, refunds, ledger>>
        /\ UNCHANGED <<nextPay, orders>>

\* processPaymentEvent.  A claimed key, or a booking without payments (the
\* claim rolls back), changes nothing and is no step.
ProcessPaymentEvent(kind, txn, status) ==
    LET p == Picked(Stored)
    IN  /\ <<kind, txn>> \notin events
        /\ Stored # {}
        /\ events' = events \union {<<kind, txn>>}
        /\ \/ /\ payments[p].status \in TerminalPayment
              /\ UNCHANGED <<booking, payments, refunds, ledger>>
           \/ /\ payments[p].status \notin TerminalPayment
              /\ payments' = [payments EXCEPT ![p].status = status, ![p].ref = txn]
              /\ \/ /\ status = "paid"
                    /\ SettleOpenBooking \/ RefundLostRace \/ KeepSoldBooking
                 \/ /\ status = "processing"
                    /\ UNCHANGED <<booking, refunds, ledger>>
        /\ UNCHANGED <<nextPay, orders>>

-----------------------------------------------------------------------------
(* Opening a payment session: payments.createPayment, four awaits.         *)

PayRequest(method) ==
    /\ booking.status \notin SoldStatuses
    /\ Suspend("pay.select", method, 0, NoTxn)
    /\ UNCHANGED <<booking, payments, nextPay, events, refunds, ledger, orders>>

\* The method a payment row stands for; a card scheme is carried by Checkout.
Live(p) == payments[p].status = "processing" \/ payments[p].ref # NoTxn

PaySelect(q) ==
    LET open == WithStatus(OpenPayment)
        old  == Latest(open)
        keep == IF payments[old].provider = q.method
                  THEN Live(old) \/ q.method # "uzum_checkout"
                  ELSE Live(old)
    IN  /\ q.op = "pay.select"
        /\ \/ open = {} /\ Advance(q, "pay.write", 0, NoTxn)
           \/ open # {} /\ keep /\ Resume(q)
           \/ open # {} /\ ~keep /\ Advance(q, "pay.delete", old, NoTxn)
        /\ UNCHANGED <<booking, payments, nextPay, events, refunds, ledger, orders>>

\* DELETE FROM payments WHERE id = old, whatever the row has become.
PayDelete(q) ==
    /\ q.op = "pay.delete"
    /\ payments' = [payments EXCEPT ![q.pay] = Absent]
    /\ Advance(q, "pay.write", 0, NoTxn)
    /\ UNCHANGED <<booking, nextPay, events, refunds, ledger, orders>>

\* writeNewPayment: register an order at Uzum Checkout, or insert at once.
PayWrite(q) ==
    /\ q.op = "pay.write"
    /\ \/ /\ q.method = "uzum_checkout"
          /\ \E o \in Orders :
                /\ orders[o] = "none"
                /\ orders' = [orders EXCEPT ![o] = "registered"]
                /\ Advance(q, "pay.insert", 0, o)
          /\ UNCHANGED <<payments, nextPay>>
       \/ /\ q.method # "uzum_checkout"
          /\ RoomForPayment
          /\ payments' = Inserted(NewRow(
                 IF q.method = "cash" THEN "awaiting_cash" ELSE "pending",
                 q.method, NoTxn))
          /\ nextPay' = nextPay + 1
          /\ Resume(q)
          /\ UNCHANGED orders
    /\ UNCHANGED <<booking, events, refunds, ledger>>

\* createUzumCheckoutPayment after register(): the row and the payment URL.
PayInsert(q) ==
    /\ q.op = "pay.insert"
    /\ RoomForPayment
    /\ payments' = Inserted(NewRow("processing", "uzum_checkout", q.txn))
    /\ nextPay' = nextPay + 1
    /\ orders' = [orders EXCEPT ![q.txn] = "offered"]
    /\ Resume(q)
    /\ UNCHANGED <<booking, events, refunds, ledger>>

-----------------------------------------------------------------------------
(* Click: prepare and complete carry only the booking id.                  *)

ClickPrepare(t) ==
    /\ ProcessPaymentEvent("prepare", t, "processing")
    /\ UNCHANGED inflight

ClickComplete(t) ==
    /\ ProcessPaymentEvent("complete", t, "paid")
    /\ UNCHANGED inflight

-----------------------------------------------------------------------------
(* Uzum Merchant API: create, confirm, reverse.                            *)

UzumPayable ==
    /\ booking.status \in OpenStatuses
    /\ booking.expires # "past"

UzumCreate(t) ==
    LET open == WithStatus(OpenPayment)
        row(age) == [status |-> "processing", provider |-> "uzum",
                     ref |-> t, idem |-> t, age |-> age]
    IN  /\ UzumPayments(t) = {}
        /\ <<"create", t>> \notin events
        /\ ~HasPaid
        /\ UzumPayable
        /\ events' = events \union {<<"create", t>>}
        /\ \/ /\ open # {}       \* take over the open row; created_at stays
              /\ payments' = [payments EXCEPT
                                 ![Latest(open)] = row(payments[Latest(open)].age)]
              /\ UNCHANGED nextPay
           \/ /\ open = {}
              /\ RoomForPayment
              /\ payments' = Inserted(row("fresh"))
              /\ nextPay' = nextPay + 1
        /\ booking' = [booking EXCEPT !.expires = "ahead"]
        /\ UNCHANGED <<refunds, ledger, orders, inflight>>

\* uzumConfirm reads the payment outside the transaction that applies it.
UzumConfirmRead(t) ==
    /\ UzumPayments(t) # {}
    /\ payments[Latest(UzumPayments(t))].status \notin TerminalPayment
    /\ Suspend("confirm", "uzum", 0, t)
    /\ UNCHANGED <<booking, payments, nextPay, events, refunds, ledger, orders>>

UzumConfirm(q) ==
    /\ q.op = "confirm"
    /\ ProcessPaymentEvent("confirm", q.txn, "paid")
    /\ Resume(q)

\* The bank has given the money back; no refund row is opened.
UzumReverse(t) ==
    LET p == Latest(UzumPayments(t))
    IN  /\ UzumPayments(t) # {}
        /\ payments[p].status \in {"processing", "paid"}
        /\ <<"reverse", t>> \notin events
        /\ events' = events \union {<<"reverse", t>>}
        /\ payments' = [payments EXCEPT ![p].status = "reversed"]
        /\ \/ /\ booking.status \notin {"cancelled", "completed", "expired"}
              /\ booking' = [booking EXCEPT !.status = "cancelled", !.expires = "never",
                                            !.seats  = Released(@)]
              /\ ledger' = [ledger EXCEPT !.reversed =
                               IF payments[p].status = "paid" THEN @ + 1 ELSE @]
           \/ /\ booking.status \in {"cancelled", "completed", "expired"}
              /\ UNCHANGED <<booking, ledger>>
        /\ UNCHANGED <<nextPay, refunds, orders, inflight>>

-----------------------------------------------------------------------------
(* Uzum Checkout: callback, polling and reconciliation.                    *)

\* The customer finishes at the checkout page (external).
CustomerPays(o) ==
    /\ orders[o] = "offered"
    /\ \E s \in {"completed", "declined"} : orders' = [orders EXCEPT ![o] = s]
    /\ UNCHANGED <<booking, payments, nextPay, events, refunds, ledger, inflight>>

\* uzumCheckoutCallback looks the payment up before it verifies the order.
IsCheckoutPayment(hits) ==
    /\ hits # {}
    /\ \/ payments[Picked(hits)].provider = "uzum_checkout"
       \/ payments[Picked(hits)].idem \in Orders

OrderPayments(o) == {p \in Stored : o \in {payments[p].ref, payments[p].idem}}

\* The callback may also name the booking, and then any payment of it matches.
CheckoutCallback(o) ==
    /\ orders[o] = "completed"
    /\ \E hits \in {OrderPayments(o), Stored} : IsCheckoutPayment(hits)
    /\ Suspend("callback", "uzum_checkout", 0, o)
    /\ UNCHANGED <<booking, payments, nextPay, events, refunds, ledger, orders>>

CheckoutApply(q) ==
    /\ q.op = "callback"
    /\ ProcessPaymentEvent("confirm", q.txn, "paid")
    /\ Resume(q)

\* payment() and reconcileUzumCheckoutPayments: read the row, then ask Uzum.
SyncRead(p) ==
    /\ p \in WithStatus(OpenPayment)
    /\ payments[p].provider = "uzum_checkout"
    /\ payments[p].ref \in Orders
    /\ Suspend("sync", "uzum_checkout", p, payments[p].ref)
    /\ UNCHANGED <<booking, payments, nextPay, events, refunds, ledger, orders>>

SyncPaid(q) ==
    /\ q.op = "sync"
    /\ orders[q.txn] = "completed"
    /\ IsCheckoutPayment(OrderPayments(q.txn) \union (Stored \intersect {q.pay}))
    /\ Advance(q, "callback", 0, q.txn)
    /\ UNCHANGED <<booking, payments, nextPay, events, refunds, ledger, orders>>

\* The order was declined: the row is failed if it is still open, by id.
SyncFailed(q) ==
    /\ q.op = "sync"
    /\ orders[q.txn] = "declined"
    /\ payments' = IF q.pay \in WithStatus(OpenPayment)
                     THEN [payments EXCEPT ![q.pay].status = "failed"] ELSE payments
    /\ Resume(q)
    /\ UNCHANGED <<booking, nextPay, events, refunds, ledger, orders>>

\* for StaleUzum: the other Uzum API is forgotten.
StaleMerchant == {p \in WithStatus(OpenPayment) :
                     payments[p].provider = "uzum" /\ payments[p].age = "stale"}

\* The cron that fails Uzum payments created more than 30 minutes ago.
StaleUzum == {p \in WithStatus(OpenPayment) :
                 /\ payments[p].provider \in {"uzum", "uzum_checkout"}
                 /\ payments[p].age = "stale"}

FailStaleUzumTransactions ==
    /\ StaleUzum # {}
    /\ payments' = [p \in PaymentIds |->
                       IF p \in StaleUzum THEN [payments[p] EXCEPT !.status = "failed"]
                                          ELSE payments[p]]
    /\ UNCHANGED <<booking, nextPay, events, refunds, ledger, orders, inflight>>

-----------------------------------------------------------------------------
(* Time and crashes.                                                       *)

Older(age) == IF age = "fresh" THEN "settling" ELSE "stale"

\* created_at moves past the 5 and then the 30 minute thresholds; only the
\* age of a payment that is still open is ever read.
PaymentAges(p) ==
    /\ p \in WithStatus(OpenPayment)
    /\ payments[p].age # "stale"
    /\ payments' = [payments EXCEPT ![p].age = Older(@)]
    /\ UNCHANGED <<booking, nextPay, events, refunds, ledger, orders, inflight>>

ExpiryPasses ==
    /\ booking.expires = "ahead"
    /\ booking' = [booking EXCEPT !.expires = "past"]
    /\ UNCHANGED <<payments, nextPay, events, refunds, ledger, orders, inflight>>

\* The request ends without effect: its await fails, or the process restarts.
RequestDies(q) ==
    /\ Resume(q)
    /\ UNCHANGED <<booking, payments, nextPay, events, refunds, ledger, orders>>

PaymentStep ==
    \/ \E m \in Asked : PayRequest(m)
    \/ \E q \in inflight : \/ PaySelect(q) \/ PayDelete(q) \/ PayWrite(q) \/ PayInsert(q)
                           \/ UzumConfirm(q) \/ CheckoutApply(q)
                           \/ SyncPaid(q) \/ SyncFailed(q) \/ RequestDies(q)
    \/ \E t \in ClickTxns : ClickPrepare(t) \/ ClickComplete(t)
    \/ \E t \in UzumTxns : UzumCreate(t) \/ UzumConfirmRead(t) \/ UzumReverse(t)
    \/ \E o \in Orders : CustomerPays(o) \/ CheckoutCallback(o)
    \/ \E p \in PaymentIds : SyncRead(p) \/ PaymentAges(p)
    \/ FailStaleUzumTransactions
    \/ ExpiryPasses

=============================================================================
