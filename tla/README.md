# SAFAAR.uz: models, checks and proofs

SAFAAR is a marketplace for hotel rooms, restaurant tables, bus seats and rental
cars. A NestJS backend (`src/apps/backend/src`) keeps everything in PostgreSQL;
three Next.js applications (`web-user`, `web-partner`, `web-admin`) call its
routes; Click, Uzum Bank (Merchant API) and Uzum Checkout report payments to its
webhooks; crons run inside the same process. This directory models the parts where
most is at stake and where most actors meet: the life of a booking, from its
creation through its payments to its last refund; the rooms, vehicles, bus seats and
promo codes its creation competes for; the partner's balance and withdrawals; the
review of the partner's listings; and the sign-in sessions of the partner
application. Section 6 lists what is left.

## 1. Inventory

| component | state | operations | what makes it hard | what makes it correct |
|---|---|---|---|---|
| payments (`payments/payments.service.ts`) | `payments`, `payment_events` | open a session, Click prepare/complete, Uzum check/create/confirm/reverse/status, Uzum Checkout callback, polling, two crons | repeated and reordered webhooks, two providers at once, reads before an await and writes after it, a timeout racing a late success | money is applied once, a known outcome stands, late money reaches the refund queue |
| bookings (`bookings/bookings.service.ts`) | `bookings`, `trip_seats`, `booking_status_history`, `booking_penalties` | create (hotel, restaurant, bus, vehicle), cancel, retry payment, cash confirmation by SMS code, expiry cron, no-show cron | expiry against payment, status read before the code check, row locks | an open booking is unpaid, a settled one stays settled, inventory is not sold twice |
| refunds (`refunds/refunds.service.ts`) and the refund desk (`admin/admin.service.ts`) | `refunds`, `partner_ledger_entries` | request, approve, reject, retry | several requests of one booking, a provider call inside the transaction, a lost commit | one payment is refunded once and debited once |
| partner desk (`partners/partners.service.ts`) | `bookings`, `payments`, `trips`, `withdrawal_requests` | confirm, check in, complete, reject, cash status, cancel a trip, walk-in booking, withdraw | checks made outside the write | staff do not undo what the money decided |
| partner listings (`partners/`, `admin/`, `jobs/jobs.processor.ts`) | `partner_organizations.status`, `hotels` | apply, edit, reset, submit, publish, decide, suspend, translate | the content and its status are written by two statements without a transaction | guests see what an administrator has published |
| balance (`partners/`, `admin/`) | `partner_ledger_entries`, `withdrawal_requests` | credit, debit, withdraw, decide | a sum is read, another is read, and then a row is inserted | nothing is promised that is not there |
| auth (`auth/`, `web-partner/lib`) | `auth_sessions`, the tokens of the browser tabs, one-time codes and proofs in memory | sign in, refresh, revoke, reset the password, send and check codes | concurrent exchanges, lost answers, several tabs, restarts, rate limits | a replayed refresh token ends the session, a reset ends them all, a code is used once |
| infrastructure (`infrastructure/`) | Redis and memory cache, connection pool, job queue | get-or-produce, invalidate, transaction, enqueue | invalidation against a running producer, failover between two stores | nothing stale is served after an invalidation |
| jobs (`jobs/`) | export jobs, webhook deliveries, translations | deliver with retries, export, translate | retry after a lost answer | each event is delivered at least once |
| promos (`promos/`) | `cms_entries` of type promo | validate, redeem | the limit is checked long before it is used | a limit is not exceeded |
| pricing, finance (`common/`) | none | price, commission | rounding | amounts add up |
| hotels, buses, catalog, cms, reviews, chat, support, notifications, realtime, uploads, exports, reports, stats, i18n, currency | rows of their own | search, read, single-row CRUD, events sent and forgotten | little | little |
| web applications, `packages/`, `scripts/`, `monitoring/` | none of their own but the tokens above | clients, types, operations | | |

Components interact through rows of PostgreSQL (READ COMMITTED, `SELECT ... FOR
UPDATE` where a handler asks for it), through calls inside a transaction
(`processPaymentEvent` is called by every payment handler), and through HTTP calls
to Uzum Checkout. WebSocket events and e-mails are sent after a transaction and
are not read back.

`PROJECT.json` lists, under `hazards`, what in this code a test would hardly
reach, each at its line, with the properties that would notice it.

## 2. Modules

| module | models |
|---|---|
| `BookingRecords` | the rows one booking owns, their types, and the reads and writes every service makes of them |
| `Payments` | `payments.service`: session opening, Click, Uzum Merchant, Uzum Checkout, the two payment crons |
| `Bookings` | `bookings.service`: the initial booking, expiry, partner deadline, cancel, retry, cash confirmation, no-show |
| `Refunds` | `refunds.service.create` and `refundApprove`, `refundReject`, `refundRetry` of `admin.service` |
| `PartnerDesk` | `partners.service`: confirm, check in, complete, reject, cash status, trip cancellation |
| `BookingSale` | the abstract specification: open, sold at most once with one credit, settled for good |
| `Settlement` | the composition of the four services, its properties and the refinement of `BookingSale` |
| `MCSettlement` | the kinds of booking TLC starts from |
| `SettlementProofs` | the theorems about the sale and the types of `Settlement` |
| `MoneyProofs` | the theorems about refunds, backing and debits of `Settlement`, on top of `SettlementProofs` |
| `RoomInventory` | one row of inventory (a room type or a vehicle) and all its bookings: creation in `bookings.service`, walk-ins and the room calendar of `partners.service`, the availability blocks of `admin.service` |
| `MCRoomInventory` | two customers and who is taken for whom |
| `RoomInventoryProofs` | the theorems about `RoomInventory` |
| `SeatSale` | one bus trip with its seats and bookings, and a promo code that hotel and vehicle bookings use too: `createBusInternal`, every way a booking ends, `cancelTrip`, `promos.validate` and `redeem`, the admin's edits of trip and code |
| `MCSeatSale`, `SeatSaleProofs` | interchangeable seats; the theorems |
| `Sessions` | the sessions of one partner account: `auth.service`, `session-store`, and the tabs of the partner application (`client.ts`, `auth-store.ts`) |
| `MCSessions`, `SessionsProofs` | the instance; the theorems |
| `Listings` | one partner organisation and its hotel listings: `partners.service`, the decisions of `admin.service`, the translation job, the status check of `roles.guard` |
| `MCListings`, `ListingsProofs` | the instance; the theorems |
| `Wallet` | the balance of one organisation, `withdrawal` and `withdrawalStatus` |
| `PartnerAccount` | the abstract specification of `Wallet`: money is earned, taken back, promised out of the balance of that moment, declined, paid out |
| `MCWallet`, `WalletProofs` | two interchangeable calls; the theorems |

`Settlement` follows one booking through everything that can happen to it.
`RoomInventory` follows many bookings of one row and keeps of each only whether it
counts (`open`, `sold`) or not (`over`). They meet in three actions: `Settle`, `End`
and `Reinstate` stand for the steps of `Settlement` that take a booking from open to
settled, out of both, and back. `SeatSale` does the same for the bookings of a bus trip:
`Pay`, `Expire`, `Cancel`, `UzumReverse`, `RefundApprove` and the others are the steps of
`Settlement` as the seats see them. `Wallet` meets `Settlement` in `Credit` and `Debit`,
the ledger entries. `Sessions` and `Listings` stand alone.

### How the model corresponds to the code

*State.* `booking` is the row of `bookings` with `expires_at` and
`partner_confirmation_deadline` kept as "never/none", "ahead" or "past" relative to
now, plus what `trip_seats.held_by_booking_id` says of it. `payments` is indexed
by the order of `created_at`; a row that is not (or no longer) there is `Absent`.
`events` holds the claimed `payment_events.event_key` values. `ledger` counts the
`partner_ledger_entries` of the booking by type. `orders` is what Uzum Checkout
knows (external). `inflight` holds the requests that are between two awaits, with
exactly what they have read so far and will still use.

*Steps.* A handler that works inside `pg.transaction` locks the booking or payment
row before it decides, so it is one step. A handler that reads, awaits and then
writes is one step per await: `PayRequest`, `PaySelect`, `PayDelete`, `PayWrite`
and `PayInsert` are the awaits of one `createPayment`; `UzumConfirmRead` and
`UzumConfirm`, `CheckoutCallback` and `CheckoutApply`, `SyncRead` and
`SyncPaid`/`SyncFailed`, `CancelRequest` and `Cancel`, and the requests of the
staff and of the cash confirmation likewise, and `RefundRequest` and `RefundInsert`, the
SELECT and the INSERT of a refund somebody asks for. `RequestDies` ends a suspended request
at any await: its call failed, or the process restarted.

*Crashes.* A transaction that does not commit leaves nothing, which is a stuttering
step. What a crash can separate is modelled: an order registered at Uzum Checkout
without a row (`PayWrite` then `RequestDies`), and a refund made at the provider
whose transaction is lost (`RefundApproveLost`).

*Abstractions.*
- One booking at a time. No handler of these services reads another booking's rows
  except through inventory (`RoomInventory`), seats and promo codes (`SeatSale`) and
  the partner's balance (`Wallet`).
- Every amount equals the booking's total, so amount and currency checks pass; where
  they fail in the code the transaction rolls back. Partial refunds are therefore not
  told apart from full ones.
- A card scheme is the provider `uzum_checkout` that carries it.
- Time is three ages of a payment (under 5 minutes, under 30, older) and two
  deadlines. They advance independently, so the model has more timings than the
  clock allows. This is safe for what holds; the counterexamples of section 4 were
  read against the real intervals.
- Signatures, formats, histories, notifications and audit rows are left out.
- `admin.bookingCancel` and `bookingStatusAction` write upper case enum labels,
  which PostgreSQL refuses: they change nothing and are not steps.

### How `RoomInventory` corresponds to the code

- *State.* `stays` are the rows of `bookings` that name the inventory row, with
  check-in and check-out as nights and `price_snapshot.rooms` as `rooms`; `inventory`
  is `hotel_rooms.total_inventory`; `closed` the nights whose `room_inventory.closed`
  is true.
- *Steps.* `createHotelInternal`, `createVehicleRentalInternal` and
  `partners.createBooking` select the inventory row `FOR UPDATE` before they count,
  and insert in the same transaction: two creations cannot interleave, so each is
  one step. Payment, expiry, cancellation and the calendar take no such lock. A
  calendar write between the reading of `closed` and the insert orders as if it had
  come after the creation; a booking that ends between the count and the insert only
  makes the count too high. A reinstatement in between could make it too low: it is
  an exception of the property in any case.
- *Who counts.* The query leaves out the caller's own bookings that are still
  unpaid. The caller is recognised by `user_id`, or as a guest by e-mail or phone, so
  the relation `SamePerson` is a constant and is not assumed to be an equivalence.
- *Left out.* Prices and identity checks; the `status` of the inventory row, a
  delisted row just refuses; restaurant tables, whose slot of 90 minutes has the
  shape of a stay and whose query is the same; `room_inventory.total_count`, which
  `updateInventory` writes and no creation reads; a walk-in that names no room, which
  holds nothing.

### How `SeatSale` corresponds to the code

- *State.* `holder` is `trip_seats.held_by_booking_id`, `sales` the bookings that have
  seats of the trip or the code, `promo` the row of `cms_entries`. `requests` are
  creations that have read the trip and validated the code and not yet opened their
  transaction; equal ones are one element of the set, which is why `Create` may leave
  it there.
- *Steps.* `createBusInternal` selects its seats `FOR UPDATE`, redeems the code by one
  conditional UPDATE, inserts the booking and writes the seats in one transaction: one
  step, `Create`. It does not look at the trip again. What ends a booking either runs
  under its lock (`Pay`, `Expire`, `UzumReverse`, `RefundApprove`) and asks for its
  status, or writes by id what an earlier read decided (`Confirm`, `Cancel`,
  `Complete`): then any status is possible when it writes.
- *Status.* `cancelled` in the table is three statuses here, by who wrote it: `unanswered`
  (`PartnerTimeout`), `returned` (`RefundApprove`) and `cancelled` (everybody else). The first
  two keep their seats and the last must not, which one word could not tell apart.
- *Abstractions.* The limit of a code that is unpublished or past its date is 0: both
  refuse it. A code deleted and created again is another code of the same name.
  Seats are not told apart, neither are passengers or prices.

### How `Sessions` corresponds to the code

- *State.* A row of `auth_sessions` keeps the one token that may be exchanged next; a
  token is named by the exchange that issued it. `tabs` is the memory of each browser
  tab, `stored` the `localStorage` they share, `waiting` the `refreshPromise` of
  `client.ts`. Revoked and expired are one state, `over`: every reader treats them alike.
- *Steps.* `rotate` reads the row (`RotateRead`), decides, and writes (`RotateWrite`, or
  `RotateReuse` for a token that was superseded). A password is written by one
  statement and the sessions revoked by the next (`WritePassword`, and `FinishReset` or
  `FailReset`). `refresh` answers any error of `rotate` with 401, its own refusals and a
  failing database alike. `RotateFails` is that: the exchange is `failed` when no token can
  have been written, and `torn` when the UPDATE was sent and the connection broke or timed
  out (`session-store.ts:76`); then it may still take effect, at any later moment
  (`TornWrite`, after which it is `landed`). The tab does not look at why it was refused.
  An answer reaches the tab (`Granted`, `Refused`) or does not (`LoseAnswer`).
  `Restart` ends every exchange and reset where it stands.
- *Abstractions.* Access tokens, roles and devices; the other two applications;
  one-time codes and how a sign-in is checked: `SignIn` is its last step, `issueTokens`.

### How `Listings` corresponds to the code

- *State.* `hotels` has the status and `next_draft_prepared_at` of each row. `content`
  and `kept` are history: who changed the content since it was last published, and
  whether a suspension has hidden the listing since.
- *Steps.* An edit of texts, places, amenities or pictures writes the content and then
  calls `touchHotel` (`BeginEdit`, `FinishEdit`); `AbandonEdit` is the process that dies
  in between. `resetHotel` and `partnerStatus` have two steps for the same reason.
  `updateListingRules` and `updateHotel` write once. `hotelStatus` is a transaction that
  holds the row; the draft it prepares is part of its step (`HotelStatusReuse`,
  `HotelStatusInsert`).
- *Abstractions.* Content has no value, only its last writer. Whether a listing is
  complete enough to be published is content. `BeginEdit` stands for all routes that
  end in `touchHotel`; `ChangeRooms` for those of rooms, beds and prices, which do not.

### How `Wallet` corresponds to the code

- *State.* The ledger by the sums of its positive and negative rows, which is all that
  the balance reads; the requests with their amounts; the calls of `withdrawal` with
  what their transaction has read so far.
- *Steps.* One per statement: `LockOrganisation` (`SELECT ... FOR UPDATE`),
  `ReadBalance`, `ReadPromised`, `InsertRequest` or `RefuseRequest`. A ledger entry has a
  foreign key to the organisation, so that PostgreSQL makes its INSERT wait for the
  lock: `Credit` and `Debit` ask for `Unlocked`. `withdrawal_requests` has no such key, and
  `withdrawalStatus` is one UPDATE of its own row: it may run at any moment.
- *Sums.* `committedWithdrawals` is a SUM over the requests. `MoneyIn` counts the units
  of money instead, the pairs of a request and a number up to its amount (`UnitsIn`):
  the same value, and what requests of other statuses add to it follows from the
  cardinality of sets.
- *Refinement.* `ImplementsAccount` maps `promised` to `CommittedWithdrawals`, which is a
  function of the rows: the insertion of a request is `Promise`, a rejection `Decline`, a
  payment `PayOut`, the ledger entries `Earn` and `TakeBack`, and the reads of a call, its
  lock, its refusal and its rollback are stutters.
- *Abstractions.* Which booking an entry belongs to (`Settlement` says when one is
  made); the bank details; the currency.

## 3. Properties and runs

The runs up to `live`, and those of section 4, instantiate `MCSettlement`: `OnlineSpec`
is customers, providers, crons and the refund desk; `Spec` adds payment on the spot and
the partner's staff; `FairSaleSpec` is the sale under fairness.

| run | specification and instance | shows |
|---|---|---|
| `online_merchant` | `OnlineSpec`, one Uzum and one Click transaction, bookings made for Click and sessions asked for Click, a bus booking awaiting its partner and an instant guest booking, three payment rows, two refunds | `SoldIsBacked`, `PaidIsRefundable`, `DebitMatchesRefund` |
| `online_both` | `OnlineSpec`, one Uzum transaction and one Checkout order, two suspended requests | `OpenIsUnpaid`, `OutcomeIsFinal`, `ImplementsSale`, `RefundIsRemembered` |
| `everyone` | `Spec`, cash and Click bookings, sessions asked for Uzum, two Click transactions on one payment row | `TypeOK`, `CreditedAtMostOnce`, `NeverReopened` |
| `live` | `FairSaleSpec`, bookings made for Click and for Checkout, one Click and one Uzum transaction, one Checkout order | `OpenIsResolved`, `PartnerIsNotAwaited`, `UzumIsClosed` |
| `rooms` | `RoomInventory!Spec`, two customers, a row of one or two rooms, two nights, three bookings | `NoNewOversell` |
| `seats` | `SeatSale!Spec`, two seats, two bookings, two requests under way, one code with a limit of one | `TypeOK`, `SeatsAreHeld`, `CancelledTripIsEmpty`, `UsesWithinLimit`, `SeatsComeBack` |
| `auth` | `Sessions!FairSpec`, two tabs, one session, three exchanges, one password reset | `TypeOK`, `SingleFlight`, `RefusalIsFinal`, `ResetEndsSessions`, `RefreshSettles` |
| `listings` | `Listings!Spec`, two listings, two edits of each under way, a partner that is approved and rejected | `TypeOK`, `ChangesAreReviewed`, `SuspendedStayHidden` |
| `wallet` | `Wallet!Spec`, two withdrawals under way, three requests, four units earned and two taken back | `TypeOK`, `MoneyOutIsEarned`, `PromisesAreCovered`, `ImplementsAccount` |

*Bounds of the settlement.* Two payment rows are the fewest with which a webhook can hit
another row than the one it is about. `online_merchant` has three, since a retried
session, an Uzum and a Click payment may each have a row; sessions are asked for the
method of the booking there, because a change of method deletes drafts, and
`draft_deleted` shows what that breaks. One row is enough in `everyone`: a confirmation
on the spot puts the paid row back to `awaiting_cash`, and the second transaction pays
it again. Two refund rows are needed for a second approval, and for a request that was
approved before the booking was paid beside the one that should follow.
`RefundIsRemembered` needs an order at Uzum Checkout, and so stands in `online_both`,
where one refund row suffices. One suspended request interleaved with every atomic
handler already gives every stale read; two (`online_both`) give two requests that are
stale to each other. Elsewhere one transaction per provider suffices: repeats of a
transaction are repeats of its event key, and two different transactions are covered by
two providers. Deadlock checking is off: a booking whose clock has run out and whose
requests are spent really stops.

*Bounds of the rest.* In `rooms`, three bookings are the fewest with which two can be
left out of each other's count and a third, by a stranger, still has to be weighed
against both; two rooms make a request of several rooms differ from one of one; two
nights make stays that touch differ from stays that overlap, and a stay part closed
differ from one wholly closed. The customers are interchangeable (symmetry). A row that
is a vehicle has one unit by definition. In `seats`, two bookings compete for a seat or
for the last use of the code, two seats make bookings overlap in part, and the code can
be deleted but not created again: a code of the same name starts a new count, which the
proofs cover. In `auth`, two tabs hold the same session, and three exchanges are the
fewest with which a token that was written late is superseded once more. One session is
opened: with two, checking `RefreshSettles` would take a run to the limit of its time
(the safety properties alone hold on 1,296,273 states of two sessions and two
exchanges), and what a second session adds, a sign-in after the reset and an answer for
the session before, is covered by the theorems for any number. In `listings`, two edits
of one listing fall on either side of a publication, and two listings let one be the
draft that the decision on the other reuses or makes; of the eight statuses of the
partner the code only tells the approved one (`partnerStatus`), the three of `Admitted`
and the two of `ResubmitApplication` apart, and `approved` and `rejected` meet every
branch. In `wallet`, the third request is one asked after two were decided, and the
amounts are large enough for two requests that fit alone but not together. All of these
check for deadlocks: there is none.

*Size.* Distinct states: `online_merchant` 764,757, `online_both` 930,408, `everyone`
1,000,288, `live` 417,019, `rooms` 222,412, `seats` 2,880,660, `auth` 714,722, `listings`
1,195,410, `wallet` 390,645. Each is explored completely, in half a minute to a little over
three minutes; together the runs take every step of every module.

*Fairness.* `CronFairness` is weak fairness of the clock and of the crons that run
every minute (`expireStaleBookings`, `failStaleUzumTransactions`). Both are
unconditional statements over all rows, so a row that stays eligible is reached by
the next run. Nothing is assumed of customers, providers, staff or of requests in
flight. `Fairness` of `Sessions` is weak fairness of each exchange and of the answers to
each tab: a request that Node has begun runs to its end unless the process dies, which
`Restart` is, and its answer arrives unless the network fails, which `LoseAnswer` is.
Nobody is assumed to sign in, to send a request or to reset a password.

## 4. Where the code departs from its comments

Each of these is a run that TLC must find violated; `PROJECT.json` quotes the line.

- `draft_deleted`: `createPayment` deletes by id the row it read before an await. A
  Click prepare or complete in between makes it live, or paid, and it is deleted all
  the same, together with the only trace of the money.
- `paid_order_failed`: `failStaleUzumTransactions` fails an open Checkout payment
  after 30 minutes without asking Uzum. If the order was completed and neither
  callback nor poll has reported it, `failed` is terminal for `processPaymentEvent`
  and the money is never applied nor queued for refund.
- `debit`: money that arrives after the booking expired opens a refund; approving it
  writes the negative ledger entry although the partner was never credited.

The following are steps of the models too, without a run of their own.

*Settlement.* A confirmation by SMS code or by the partner that read the status before
the booking was cancelled or expired confirms it by id. `PartnerTimeout` and
`refundApprove` leave bus seats held (the statuses `unanswered` and `returned`, of which
`SeatsComeBack` says nothing). `rejectBooking` opens no refund for a paid booking.
`uzumReverse` writes no compensation when the booking was already cancelled. It also
cancels a sold booking when the row it reverses was never paid: with a third payment row
and sessions asked for Uzum, or with two Uzum transactions, TLC finds a booking sold by
Click, whose other, still processing, Uzum payment is then reversed; the Click payment
stays paid, and neither the bank's answer nor a refund request returns it.
`PaidIsRefundable` names the reversal as its exception (`ReversedByUzum`).
`refunds.create` does not ask whether anything was paid: a request that was made and
approved while the booking waited for payment moves no money, and when the booking is
then paid and cancelled, `cancel` finds that approved row
(`bookings.service.ts:2686-2690`) and opens no other, although its comment
(`:2667-2672`) says that the money of a paid booking no longer gets lost this way; TLC
finds it when the exception `ApprovedForNothing` is taken out of `PaidIsRefundable`. Two
such requests made at once both insert a row. `refundApprove` marks every paid row of
the booking refunded, but asks Uzum Checkout to refund one order. Two concurrent
`createPayment` calls both insert an open payment. `uzumCreate` keeps the `created_at`
of the row it takes over, so the 30 minutes of that transaction started before it.

*Inventory.* `createHotelInternal` adds up the rooms of all bookings that overlap the
stay anywhere. Two bookings of one room each, on different nights, make a two room
type "sold out" for a stay across both, while the admin's calendar, whose comment
(`admin.service.ts:2857-2860`) says it uses the same formula, shows a free room on each
night; nothing is oversold by it. `updateInventory` writes `closed` for every date it
sends, false when the item does not say, and so opens a date the admin has blocked
(the comment at `partners.service.ts:5013-5016` says what such a block is for); the
admin's unblock opens dates the partner closed. One customer may open two bookings of
the last room and pay both. Checking in a booking that has ended sells its room again. A
walk-in does not read `total_inventory`. The `total_count` a partner gives a date is shown
by calendars and limits no booking.

*Seats and codes.* `promos.release`, whose comment says that cancelled and expired
bookings give their use of the code back, is never called: a use is never returned. A
creation that has read a trip sells seats of it after it was cancelled.

*Sessions.* Two exchanges of one token that both pass the test before either writes are
both answered, although the comment in `client.ts` calls the token single-use; the first
answer is superseded already. An answer that is lost, or a tab that shares its session
with another, leads to an exchange that is taken for a theft and ends the session. When
the database fails in an exchange, `refresh` answers "session not found or revoked"
(`auth.service.ts:1335-1344`) although the row is active: the tab clears its session, or tries
the same token again, which is in order when nothing was written, and taken for a theft when
the UPDATE was. `RefusalIsFinal` therefore speaks of the decisions of `rotate` only, and
`SingleFlight` names the UPDATE that was reported as failed as an exception (`Lost`). A
sign-in that checked the old password and inserts its session after the revocation
survives the reset.

*Listings.* `updateHotel` writes any status the partner sends, `published` too, which
`updateListingStatus` refuses to the partner. Rooms, prices and translations change
without a review. The decision of `hotelStatus` is about the listing, not about the
content the administrator has looked at. `submitApplication` asks for no status,
although the comment at `resubmitApplication` describes this as repaired there. A
suspension hides drafts too, which then are no drafts any more.
`prepareNextHotelDraft` wipes whatever other draft the partner has. `createBusCompany`
(not modelled) checks and then inserts without a constraint, although its comment says
that repeated calls make no duplicates.

*Balance.* Approving and paying a withdrawal do not look at the balance again: a refund
between the request and the payment leaves the partner with a negative one.

## 5. Proofs

### Settlement

`SettlementProofs` holds for every value of the constants that satisfies
`BookingRecordsAssumption`: any number of transactions, orders, payments, refunds
and suspended requests.

- `TypeCorrect`: `Spec => []TypeOK`. One lemma per group of actions; the lemmas
  `LatestIsLast` (the newest row of a non-empty set of ids exists, by the well-founded
  order of the naturals) and `PickedIsMember` carry the reads, `RowUpdate`,
  `StatusUpdate` and `EventUpdate` the writes.
- `CreditedOnce`: `Spec => []CreditedAtMostOnce`. The property is not inductive: a
  step from a state with an open booking and one credit would break it. The
  invariant `SaleInv` adds `OpenIsUncredited` (an open booking has no credit), which
  holds because every step that credits also closes the booking and none reopens it.
- `NotReopened`: `Spec => NeverReopened`, from the same case analysis. It needs no
  invariant about what suspended requests have read: no handler writes an open status.
- `OnlineImplementsSale`: `OnlineSpec => ImplementsSale` when no booking is paid in
  cash. Init maps to `SaleInit`; every step of `OnlineNext` maps to `Sell`, `Lapse`,
  `Undo` or a stutter.
- `OpenBookingIsUnpaid`: `OnlineSpec => []OpenIsUnpaid`: a payment becomes paid only
  in the step that takes the booking out of its open status.
- `OutcomeStands`: `OnlineSpec => OutcomeIsFinal`, with the invariant
  `FutureIsAbsent` (ids not yet handed out are absent), without which an insert could
  overwrite a settled row.

### Money of a booking

`MoneyProofs` carries on from `SettlementProofs`. Its invariant is `OnlineInv`: `TypeOK`,
`FutureIsAbsent` and `OpenIsUnpaid`. `RowStep` says all that a step of `OnlineNext` does to one
payment row, `Sells` all that it does to the status of the booking; the lemmas
`PaidRowStep`, `RefundedRowStep` and `PaidRowOrigin` read off where a paid or a refunded row
comes from and where it goes.

- `PaidIsQueued`: `OnlineSpec => []PaidIsRefundable`, without a further hypothesis. A request
  leaves the queue by an approval only, and an approval leaves no row paid
  (`ApprovalSettles`, `RefundsStay`); a booking that is over and has a paid row was sold before
  (`UndoneIsRefunded`), or waited for payment and was unpaid, or its money has arrived in this
  step. A booking whose money was given back is over, and stays so (`RefundedIsSettled`), which
  is why an approval that did move money excuses nothing.
- `RefundsAreRemembered`: `OnlineSpec => []RefundIsRemembered`. Only `RefundAtProvider` refunds an
  order, and it asks for a request in the queue (`OrderRefunded`); the event
  that pays a row of it is claimed by then and stays claimed, so no row of it becomes paid
  afterwards (`PaidIsClaimed`, `RefundedIsClaimed`).
- `SoldStaysBacked`: `OnlineSpec /\ OnlyDraftsDeleted => []SoldIsBacked` if `"cash"` is no
  method: a booking in cash counts as sold from its creation, before anyone has paid.
- `DebitsMatchRefunds`: `OnlineSpec /\ OnlyDraftsDeleted => []DebitMatchesRefund`. A debit
  is made in the step that turns a paid row refunded, so the set of refunded rows grows by
  one member that was not in it (`DebitStep`); refunded rows stay.
- The hypothesis `OnlyDraftsDeleted` is there because the code does not grant it: the run
  `draft_deleted` shows `createPayment` delete a paid row, and then a sold booking has no
  payment and a debit no refunded row. `NothingIsDeleted` proves the hypothesis from
  `SameMethod`: sessions are asked for the one method the booking was made with, and that is
  not Uzum Checkout. It needs to know what suspended requests have read (`SoundRequests`) and
  where open rows come from (`SoundRows`). `SoldIsBackedAtOneMethod` and
  `DebitsMatchAtOneMethod` put the two together; `online_merchant` is an instance of them.

### Inventory

`RoomInventoryProofs` holds for any customers, nights, rooms and bookings, and any
relation `SamePerson`.

- `InventoryTypeCorrect`: `Spec => []TypeOK`, a lemma per way of writing the state
  (`InsertTypeOK`, `BecomesTypeOK`, `CalendarTypeOK`).
- `InventoryIsNotOversold`: `Spec => NoNewOversell`. `RoomsOf` counts pairs of a
  booking and a room number, not a sum, so that "more bookings hold no fewer rooms"
  is the monotonicity of cardinality and needs no induction. `NothingNew`: a step
  that adds no live booking and takes no room oversells no night. `NewStayFits`: take
  the set of strangers that oversells a night after a creation; if the new booking is
  not in it, it oversold before; if it is, nobody else in it is taken for the new
  customer, so they were all among the conflicts the creation counted, and the count
  plus the new rooms is within the inventory. `CreationSellsNothingTwice` applies it
  to the three creations. `TypeOK` is the only invariant needed, because the
  property compares a state with the one before it.

### Seats and promo codes

`SeatSaleProofs` holds for any seats, bookings, limits and creations of the code.

- `SeatTypeCorrect`: `Spec => []TypeOK`.
- `SeatsStayHeld`: `Spec => []SeatsAreHeld`, inductive together with `TypeOK`: a creation takes
  only seats that nobody holds (`CreateSeats`), a booking that ends frees no seat that
  another holds (`EndsSeats`), and a booking that becomes live without holding its seats
  is marked `again`.
- `SeatsAreReturned`: `Spec => []SeatsComeBack`. Inductive together with `TypeOK`: whatever writes
  `expired` or `cancelled` frees what the booking holds, and seats are only ever taken for a
  booking made in that step.
- `TripIsEmptied`: `Spec => []CancelledTripIsEmpty`.
- `UsesStayWithinLimit`: `Spec => []UsesWithinLimit`. Not inductive: `PromoInv` adds that
  `used` is within `top` and no less than the number of bookings with the code, and that
  no booking knows a code that is still to be created, without which a code created
  again would begin with uses of its predecessor.

### Sessions

`SessionsProofs` holds for any tabs, sessions, exchanges and resets.

- `SessionTypeCorrect`, `RefusalsAreFinal` and `ResetsEndSessions` follow from `IInv`: the
  properties themselves, that exchanges and tabs name sessions that were opened
  (`NamesOpened`), and that no password is counted that was not written
  (`PasswordsCounted`). The heart of both is that `Rotate` writes the token only and
  leaves the state of the row alone, whenever it lands.
- `TabsKeepTheirSession`: `Spec => []SingleFlight`. `FlightInv` says of a session that one tab
  holds, none of whose answers was lost and none of whose tokens was written against its
  answer (`Clean`) what keeps its exchanges in step
  (`InStep`): the token the tab sends is the one the row expects, until the answer with
  the next one has arrived. `HoldersKnown` ties the tabs to the sessions whose tokens
  they have. A session once shared or orphaned never counts as `Clean` again, which is why
  the case analysis only ever has one tab to follow.

### Listings

`ListingsProofs` holds for any listings, edits under way and decisions.

- `ListingsTypeCorrect`, `ChangesGoToReview` and `SuspensionIsNotUndone` from one
  invariant: `TypeOK`, both properties, `UnderWayIsListed` (edits, resets and jobs are of
  rows that exist, so that a new row starts without any) and `MadeInOrder`. `RowStep`
  reduces a step to the rows it writes; one lemma per group of actions says which row
  each of them leaves.

### Balance

`WalletProofs` holds for any calls, requests and amounts.

- The lemmas about `MoneyIn` are those of a sum: what disjoint statuses hold adds up
  (`MoneyAddsUp`), a request that enters a set of statuses brings its amount
  (`RequestEnters`), one that leaves brings nothing (`RequestLeaves`), one that stays changes
  nothing (`RequestStays`).
- `WalletInv` is the inductive invariant, which TLC checked on the instance of the run first.
  `OneTransaction`: the lock admits one call. `ReadsHold`: under it the balance a call has
  read is the balance, and what it has read of the promises is no less than what is
  promised, since decisions, which take no lock, only ever lower it. `PaidIsKnown` ties
  `paidOut` to the paid requests, which never leave that status. `CommittedIsEarned`.
  `MoneyOutIsEarned` alone is not inductive: a step that inserts a request says nothing
  of what the call read before.
- `WalletTypeCorrect`, `MoneyOutStaysEarned` and `PromisesStayCovered` follow from it.
- `WalletImplementsAccount`: `Spec => ImplementsAccount`, one case for each kind of action
  (`WalletStepIsAccountStep`); `PaidIsPromised` is why a payment stays within what is
  promised.

### Model-checked only

Every invariant and every safety property of a passing run is stated by a theorem. Left
to TLC: the liveness properties `OpenIsResolved`, `PartnerIsNotAwaited`, `UzumIsClosed` and
`RefreshSettles` (the prover has neither fairness nor ENABLED), and the counterexamples of
section 4.

## 6. Plan and what is not modelled

Done: settlement, rooms, seats and promo codes, sessions, listings, balance. Worth doing
next, in this order:

1. One-time codes: the store in memory (rate limit, resend guard, attempts) and the copy
   of the cash confirmation's code in the cache.
2. A timed model of the Uzum confirmation window (30 and 35 minutes against the
   booking's 15), replacing the independent ages.
3. Lock order: `uzumReverse` (payment, then booking) against `processPaymentEvent` and
   `uzumCreate` (booking, then payment), and the seat locks of `createBusInternal`.
4. Cache and idempotency keys: get-or-produce against invalidation, the two stores.
5. Jobs: webhook delivery with retries, export jobs.
6. Pure functions: commission, card scheme fee, promo discount, room and vehicle price,
   operating hours, against reference definitions.

Not modelled: `partnerDelete` (a chain of statements without a transaction; it ends what the
other modules are about), the order of featured hotels, penalties and the block of a
user, `assignRoom`, the CRUD of staff, vehicles, routes, beds, promotions and API keys:
single rows without a protocol between actors. Content, chat, notifications, reports and
the pages of the web applications keep no state that another actor decides on.
