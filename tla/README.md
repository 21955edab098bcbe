# Marketplace: models, checks and proofs

The marketplace is a customer shop, an order service and a supplier service.
An order is decided by users of two services and takes its stock from the
database of a third; no transaction spans them. The services send each other
messages over Kafka, each written to an outbox table with the rows it reports
on and recorded in an inbox table by its receiver.

The centre of the project is that saga, since this is where the code is hard to
test: four writers of one order row (customer, supplier, timeout worker, stock
results), messages that are repeated, reordered or lost, and two databases that
have to end in agreement. Around it are the parts the saga stands on, each with
its own processes, faults and promises: the outbox publishers, the consumers,
checkout with its cart, and the catalogue with the copy of it the customers see.

## 1. Inventory of the system

| Component | State | Operations | Talks to |
|---|---|---|---|
| Order creation (`order-service/app/services/order_creation.py`) | `orders`, `order_items`, `order_idempotency`, `order_outbox` | claim the idempotency key, read the cart snapshot, persist the order with its reservation command | customer-service over HTTP; stock commands |
| Order actions (`services/order_actions.py`) | `orders`, `order_outbox` | confirm, reject, cancel | stock commands |
| Timeout worker (`services/operation_timeout.py`) | `orders`, `order_outbox` | repeat a pending operation, or fail it | stock commands |
| Stock results (`services/stock_result.py`, `stock_events_consumer.py`) | `orders`, `order_inbox`, `order_outbox` | apply a result, compensate a late reservation, ignore a duplicate, dead-letter the rest | stock events in, stock commands out |
| Outbox publishers (both services) | outbox rows: status, attempts, lease | claim, renew, publish, mark, give up; set the reservation deadline at the first claim | Kafka |
| Reservation (`supplier-service/app/services/reservation.py`) | `products.reserved_stocks`, `stock_reservations`, their items, `supplier_inbox`, `supplier_outbox` | reserve all items of an order or refuse | stock commands in, events out |
| Finalization and release (`services/stock_lifecycle.py`) | the same, and `products.stocks` | sell or give back a reservation | stock commands in, events out |
| Supplier catalogue (`supplier-service/app/main.py`) | suppliers, warehouses, `warehouse_products`, products | CRUD, restock, recount | product and stock events, published after the commit |
| Consumers (`order-service/app/stock_events_consumer.py`, `supplier-service/app/stock_consumer.py`) | offsets, `order_inbox`, `supplier_inbox`, dead letter topics | attempt, record, dead-letter, mark, commit, seek back; replay by `scripts/dlq.py` | Kafka; results and reservations |
| Cart (`customer-service/app/main.py`) | `carts.version`, `cart_items` | add, change, remove, page, snapshot; the old order endpoint empties it | order-service over HTTP |
| Catalogue projection (`customer-service/app/kafka_consumers.py`) | `products` of the shop | apply product and stock events, full synchronisation | supplier-service |
| Legacy orders, favorites, users (customer-service), audit consumer, order reads, frontend, scripts | own tables, or none | CRUD, reads, presentation | - |

What makes each of them hard, and what makes it correct:

- **Order row.** Two accepted decisions, a late result after the worker gave
  up, a late reservation after a cancellation. Correct: one way out per order,
  terminal statuses are final, the row satisfies the table's CHECK constraints
  after every transaction (otherwise the event is dead-lettered), and the
  status never contradicts what the supplier did.
- **Stock.** Rival orders, repeated commands with new event ids, recounts and
  edits in between. Correct: the reserved stock is what the active reservations
  hold, it never exceeds the total, and a reservation is sold once.
- **Messages.** At least once, in any order, or not at all when a publisher
  gives up. Correct: what happened at the supplier reaches the order, pending
  operations end, the stock of a cancelled order comes back.
- **Creation.** Lease take-over while the cart is fetched, two keys for one
  cart version, an ambiguous commit. Correct: one order per cart version, every
  successful answer names it, and a completed key names it for ever.
- **Publisher.** Lease end during a slow publication, crash between publication
  and mark, an acknowledgement that does not come. Correct: every message is
  delivered or lost for good, an old owner never undoes the claim of a new one,
  and all copies of a reservation request carry one deadline.
- **Consumer.** Attempts, inbox row, dead letter and offset are four writes with
  a crash or a rebalance between any two. Correct: an event is applied once,
  nothing is passed over in silence, and nothing holds up the partition for ever.
  (The code keeps the last of these only for messages whose dead letter can be
  written.)
- **Cart.** Rows, version and prices are read by statements of their own.
  Correct: the snapshot of version v is the cart as of v; one supplier per order.
- **Catalogue and projection.** Overlapping restocks and deletions of warehouses
  that read before they lock, two topics, no outbox, two synchronisations.
  Correct: no recount takes reserved stock away, the total is that of the
  warehouse rows but for four named races, customers see totals the product has
  had, and they come to see the last edit unless one of
  three named things went wrong.

`PROJECT.json` lists the hazards at their lines, with the properties that
cover them, or the reason why none does.

## 2. Modules

```
StockChannel            messages, outbox rows, what the transport may do
  OrderAggregate        order-service: users, worker, stock results
  SupplierStock         supplier-service: reservation, finalization, release, edits
    OrderSaga           both, fairness, properties, mapping to OrderLifecycle
      MCOrderSaga         constants for TLC
      OrderSagaInvariant  the inductive invariant
        OrderSagaProofs     rows, invariant and their theorems
          OrderLifecycleProofs  the saga implements OrderLifecycle
          StockHistoryProofs    the stock ledger, refusals, holds of cancelled orders
OrderLifecycle          abstract: what is promised of one order

OutboxPublisher         one outbox table and its publisher processes
  MCOutboxPublisher, OutboxPublisherProofs
MessageDelivery         abstract: what a written outbox row may rely on

StockConsumer           one partition, its consumer group, inbox and dead letters
  MCStockConsumer, StockConsumerProofs

Cart                    the cart of one customer
  OrderCreation           POST /orders of that customer, composed with the cart
    MCOrderCreation, OrderCreationProofs

Catalogue               one product, its warehouses, and the customers' copy
  MCCatalogue, CatalogueProofs

Quantities              the sum of a column, for OrderSaga and Catalogue
  QuantitiesProofs
```

The parts meet in what one relies on and the other shows. `OrderSaga` lets a
message arrive now, late, again, out of order, or never once it is abandoned:
that is `MessageDelivery`, and `OutboxPublisher` implements it. `OrderSaga`
handles an event id once, or leaves it to the dead letters: that is `AppliedOnce`
and `NothingLost` of `StockConsumer`. `OrderSaga` starts from an order row whose
items are fixed: `OrderCreation` says where it comes from. The totals that
`SupplierStock` lets any recount write are those `Catalogue` counts.

### The saga

**StockChannel.** `commands` and `events` are the outbox rows of the two
services. A row is never taken out: it may be received now, later or again, and
in any order with other rows. Kafka orders the messages of one order, but the
publishers do not send them in the order they were written (a failed
publication is put back with a delay, `outbox_publisher.py:214`, and several
publishers skip each other's locked rows). A row in `abandoned` was given up
(status FAILED) and is never received. A command that supplier-service
dead-letters for technical reasons ends the same way, since its inbox then takes
every redelivery for a duplicate.

Identifiers are small numbers. Each UUID is drawn in a transaction that also
raises the order's version (or handles one command), so that version (the
command's id) stands for it. Ids are only compared, never ordered.

**OrderAggregate.** `orders[o]` is the row, without what only times or
describes it. One action per transaction:

| Action | Code |
|---|---|
| `CreateOrder` | `_persist_new_order` with the reservation command |
| `ConfirmOrder`, `RejectOrder`, `CancelOrder` | `_perform_action` |
| `RetryOperation`, `ExhaustOperation` | `OperationTimeoutService._process_order` |
| `ReservationSucceeded`, `ReservationFailed` | `StockResultService.process` |
| `CancelledWithoutReservation`, `CompensateLateSuccess` | `_process_late_reservation_result` |
| `Finalized`, `Released`, `FinalizationFailed`, `ReleaseFailed` | `_process_lifecycle_result` |
| `IgnoreResult` | `_no_op_result` and the early returns for late results |
| `DeadLetterResult` | `StockResultMessageHandler.handle` after the last attempt |

`Disposition` is the order in which the handler decides; it reads like the code
and every result action asks for one of its values. Requests that change
nothing (a replay, a stale If-Match version, a forbidden transition) are not
actions, nor is the redelivery of an event already PROCESSED. An event in
`orderDlq` stays receivable: its inbox row is FAILED and a replay is handled
again if the order's state has come to allow it.

Left out because it cannot happen: `StockReleaseFailed` with `retryable` true
(the supplier sets it only for reasons it never gives), an order that the event
does not find, mismatched suppliers, request ids and items (both sides copy
them from the order).

**SupplierStock.** `products`, `reservations` and `held` (the reserved
quantity of each item). `ReserveStock` and `RefuseReservation` are the two ends
of `ReservationService.process`; a refusal may always be the expired deadline.
`FinalizeStock` and `ReleaseStock` move stock; `AnswerFinalization` and
`AnswerRelease` are the answers that move none: already done, nothing to do, or
refused, in the order the code checks. A product that is missing, archived or
inactive is refused as `PRODUCT_UNAVAILABLE` (`active` is false), one that
another supplier owns as `SUPPLIER_MISMATCH` (`owned` is false): the two are
kept apart because `owned` also matters to a release and `active` does not.
`EditProduct` is PUT and DELETE of a product; `RecalculateStocks` is a
restock or the deletion of a warehouse, whose total may be any number that is
not below the reserved stock. `restock_products` may compare with a reserved
stock it read before it had the lock; the table's CHECK
`products_reserved_not_above_total` then rolls the transaction back, so the
guard of the action holds either way.

**OrderLifecycle.** The order as the documentation would draw it, without
services: `decision` (open, confirm, reject, cancel), `stock` (what the supplier
did) and `outcome`. A decision is taken once, stock moves only the way of the
decision, and a confirmed or rejected order is concluded after its stock has
moved. The mapping in `OrderSaga` reads the decision off the operation columns of
the row (`DecisionOf`), the outcome off its status (`OutcomeOf`) and the stock
off the reservation, so one transaction of either service is one abstract step or
none. Writing it showed one promise the code does not make: a cancellation waits
for nobody, since `NO_RESERVATION` is answered for stock that may still be
reserved (deviation 1 below).

**Quantities.** What the orders hold of a product and what its warehouses hold is
a sum over a finite set. It is written as the number of units (`SumOf` is the
cardinality of the set of numbered units), which is the same number and can be
reasoned about with the theorems of finite sets, without induction.

### Publishing

**OutboxPublisher.** Both services run the same publisher. `row[e]` is the outbox
row, `worker[w]` what the process keeps in memory, `topic` and `inFlight` what
Kafka has and what it may yet store.

| Action | Code |
|---|---|
| `ClaimBatch` | `claim_batch`: due rows get owner, lease and attempt; the first claim of a reservation request fixes the order's deadline |
| `RenewClaim` | `renew_claim`; a row that was taken over is left alone |
| `PublishAcknowledged`, `PublishFails`, `FateOf` | `publish`; a timed out message may be stored later |
| `MarkPublished`, `MarkFailedAttempt` | the marks, both only by the owner; the last attempt makes FAILED |
| `LeaseEnds` | the lease runs out, under a dead owner or a slow one |
| `DatabaseFails`, `BatchAborted`, `Crash` | an exception in one row, in the whole batch, a killed process |

Time is left open: a put-back row may be due again at once, and a lease may end
at any moment.

**MessageDelivery.** A message is delivered, perhaps often, or lost, never both,
and one of them happens. The mapping calls a row lost when it is FAILED and no
copy of it is stored, in flight or on its way in the memory of an overtaken
process: a FAILED row alone may still be delivered.

### Consuming

**StockConsumer.** One module for both services, which differ in one condition:
`Duplicate` takes an inbox row with status DLQ for a handled event in
supplier-service and not in order-service. `service` is chosen at the start, so
every run covers both. What a handled event does is one effect here.

A message that cannot be parsed goes to the dead letters like one that is
refused, unless its dead letter cannot be written either. There are two kinds of
these. `Valueless` messages have null for a value: order-service turns that into
a dead letter, supplier-service decodes it once in `_decode_envelope` and again
in `_build_dlq_message`, and raises both times. `Unencodable` ones have a JSON
string with a lone surrogate, which `json.loads` accepts and UTF-8 cannot encode:
parsing fails on the hash of the envelope, and the producer of either service on
the dead letter. `Publishable` says which messages are neither.

| Action | Code |
|---|---|
| `Poll`, `CommitOffset`, `CommitFenced` | the loop of the worker; commit by a process that no longer owns the partition |
| `SkipDuplicate`, `HandleMessage`, `RefuseMessage`, `HandlingRaises` | one attempt, `handle`; the commit may raise and yet have taken effect |
| `RecordRetryableFailure`, `RecordingRaises` | the note in the inbox after a technical error |
| `PublishDeadLetter`, `MarkTerminal` | after the last attempt |
| `DeadLetterImpossible` | after the last attempt, when the dead letter cannot be written: the worker seeks back to the message |
| `DeadLetterRaises`, `MarkRaises`, `CommitRaises`, `Crash`, `Rebalance` | a fault between any two of these |
| `Produce`, `Replay`, `Repair` | the publisher of the other side (repeats included), `scripts/dlq.py`, an operator |

### Checkout

**Cart.** Rows, version and contents of one customer's cart. Mutations
(`AddToCart`, `UpdateCartItem`, `DeleteCartItem`, `LegacyOrder`) run under the
lock of the `carts` row and raise its version. GET /cart is two actions
(`ReadCartItems`, `ReadCartVersion`), as it is two statements without a lock; the
legacy order reads the rows before it has the lock (`ReadForLegacyOrder`).
`ProjectionChanges` is a product event: it changes prices and suppliers, and no
cart. Stock and state of a product only ever refuse a mutation and are left out.

**OrderCreation.** `claim[k]` is the idempotency row of a key, `request[r]` a call
of the endpoint and where it is, `order[r]` the order it wrote.

| Action | Code |
|---|---|
| `Submit` | the customer checks out the page they see, with any key |
| `InsertClaim`, `LockClaim` | `_claim_idempotency` |
| `FindOrderByCartVersion`, `FindWinner` | the lookups before the snapshot and after the constraint refused |
| `GetCartSnapshot` | the HTTP call and the snapshot transaction of customer-service, with the validation of its answer |
| `PersistNewOrder` | `_persist_new_order` with its three ends |
| `CompleteClaimWithExistingOrder`, `MarkClaimFailed`, `DeleteClaim` | the ends of a call that wrote no order |
| `LeaseEnds`, `SnapshotUnavailable`, `PersistRaises`, `Crash` | 60 seconds are over; a call or a commit fails; a killed process |

The snapshot reads the offers of its products together, where the code reads one
product after the other under the lock of the cart. Nothing is lost by that:
products change independently, so a change that falls between two of these reads
can as well be put before or after all of them. A version can only come from a
page, and a page has a `carts` row, so the branch of the snapshot that creates
one, which commits and then reads without the lock, is never taken. (It serves
customers from before the `carts` table, whose page reports version 0; their
checkout is not modelled.) Keys are never deleted: the lifetime of 24 hours of
`docs/to-be/04-order-service-architecture.md:522` is not in the code, and what is
said of a key "for ever" is said of the code.

### Catalogue

**Catalogue.** One product; the card stands for all its editable fields, and an
edit makes a new card. `stocked` is the set of warehouses that have a row of the
product, `rows` what the rows say.

A restock is two actions because it reads the product and the warehouse row
before it locks the product, and the ORM does not refresh what it has read.
`ReadForRestock` keeps both in the request. In `CommitRestock` the flush writes
the row only if there was none or its level changes (`RowIsWritten`), and fails
if another request has inserted or deleted that row meanwhile (`MayWriteRow`);
the row it has read is counted as it was read; and `Recalculate` compares with,
and decides whether to write by, the product as it was read. The lock of the
product, taken after the flush and held to the commit, makes flush, count and
commit one step: between the flush and the lock another request can only do what
it could as well have done before, since the row that was written is locked. The
model is of a request whose last item is this product; the rows of its other
products do not meet it.

A deletion is two actions as well: `ReadForDelete` reads without a lock which
products have a row in the warehouse, and `CommitDelete` deletes the rows that
are there by then and recounts the products it has found before, from a product
first read under its lock. A product whose row was inserted in between is not
recounted and no event is sent for it. Bulk deletion, recount and commit are one
step because the deleted rows are locked, and a row inserted after the bulk
deletion makes the deletion of the warehouse fail on the foreign key
(`RefuseRequest`).

`EditProduct`, `RefreshProduct` and `SendProduct` are commit, re-read and event
of one request, which others may overtake between any two. `ReserveUnit`,
`ReleaseUnit` and `FinalizeUnit` are the saga's hand on the row. The consumer
thread of customer-service takes the two topics in any order
(`ConsumeProductEvent`, `ConsumeStockEvent`, and, for a stock event that changes
nothing, fetch, apply, try again), the start of the service synchronises beside
it (`StartupFetches`, `StartupApplies`), its commits are asynchronous and may not
have arrived when it restarts (`CommitOffset`), and faults lose an event (`EventLost`,
`MessageDropped`), fail an attempt or a fetch, or restart the service.

## 3. Model checking

| Run | Instance | Shows |
|---|---|---|
| `one_order` | one order, one product, three attempts, one abandoned message, every edit and recount; 622 000 states | `TypeOK`, `StockLedger`, `NeverOversold`, `OutcomesAgree`, `OneOutcome`, `RowConstraintsHold`, `TerminalIsFinal`, `CancellationSticks`, `ImplementsLifecycle` |
| `two_orders` | two orders, two products, stock for one of them, two attempts, no edits; 549 000 states | `StockLedger`, `NeverOversold`, `SoldExactlyOnce`, `CancelledHoldIsTracked`, `NothingRefused` |
| `outcomes` | one order, two attempts, two abandoned messages, the product may change its owner; 13 000 states | liveness: `OperationSettles`, `OutcomeReachesOrder`, `AnsweredReservationSettles`, `OwnedStockReturns` |
| `publisher` | two rows (one a reservation request), two processes, batches of two, two attempts, two faults; 161 000 states | `TypeOK`, `PublishedWasSent`, `OneDeadline`, `OwnerLetsGo`, `SettledStays`, `ImplementsDelivery` |
| `consumer` | four events (one in order, one unparsable, one without a value, one that cannot be encoded), three messages, two consumers, two attempts, two faults, either service; 472 000 states | `TypeOK`, `AppliedOnce`, `NothingLost`, `OrderCopiesHandled`, `PartitionAdvances` |
| `checkout` | two products, each of either of two suppliers, two calls, two keys, quantities and versions up to two, one fault; 630 000 states | `TypeOK`, `OrderHoldsVersion`, `AnswersAgree`, `OrderAnswersItsKey`, `KeySettles`, `OwnerKeepsClaim` |
| `catalogue` | two warehouses, a product that is new or has a unit, two overlapping requests, one unit reserved and sold, two faults; 522 000 states | `TypeOK`, `ReservedWithinTotal`, `StockIsWarehouseTotal`, `ShownWasTrue`, `CardConverges` |
| `unmarked_hold` | violation | a hold of a CANCELLED order that no column shows |
| `lost_reservation` | violation | an order that waits for ever |
| `owner_edit` | violation | stock of a CANCELLED order that is never given back |
| `stock_replay` | violation | a replayed command that is skipped |
| `confirmed_price` | violation | an order at a price its customer has not seen |

`CHECK_DEADLOCK FALSE` appears where the system may really stop: all orders done
and, in that instance, no edits left to make; all rows settled; all messages
consumed; all supplier requests answered.

Bounds, and why they are enough:

- **Saga.** `MaxAttempts` (the code's default is 3) is 3 in `one_order`: first
  attempt, one retry, last retry before exhaustion. Elsewhere it is 2.
  `MaxAbandoned` bounds the messages that are given up: an order's last answer is
  lost with one, a command and its retry's answer with two. Versions need no
  bound: every row passes through finitely many transactions. The demand is 2 of
  3 units, so that a recount to 1 is refused and one to 4 is taken, with a hold
  and without. With two orders, `o1` wants 2 of `p1` and 1 of `p2`, `o2` wants 1
  of `p1`, and there are 2 of `p1` and 1 of `p2`: either order can be served, not
  both, and one has an item the other does not touch.
- **Publisher.** Two attempts are one that is put back and one that is final. Two
  processes and two faults are an overtaken owner whose successor fails too, and
  two rows are a batch whose second row waits while the first is sent.
- **Consumer.** Three messages are an event, its repetition and its replay, with
  one of the three other kinds before, between or behind; two faults are a lost
  note and a crash, or a rebalance and an ambiguous commit.
- **Checkout.** Two calls meet with one key or with two; two versions are the one
  a call names and the one the cart has moved to. Two products of two suppliers
  are needed for an order of mixed suppliers, and a quantity of two for a changed
  row. One fault and the lease, which is no fault, give every overtaking.
- **Catalogue.** The product is new and unknown to the customers, or it has a unit
  in one warehouse and they see it. Two requests are an edit and a restock, two
  edits whose events are sent the wrong way round, or, with the unit there, two
  restocks of which one does not write because of what it saw, or a restock and a
  deletion. Two faults are a lost event and a restart. One race needs a
  third request: for a total to differ because a restock counted a stale row,
  two others must have changed both warehouses after it read. That instance,
  `MaxRequests = 3` and no faults (2 682 000 states), has been checked for the two
  stock properties and is not among the runs.
- Symmetry is used only in `checkout`, whose properties are safety: calls, keys
  and products are interchangeable there. In the saga orders and products differ
  in demand, and liveness is checked without it.

**Fairness.**

- *Saga.* The consumers and the worker are loops that only stop when they are
  told to (`run_forever`, `timeout_worker.py`), and an uncommitted message is
  redelivered. So each order gets weak fairness on handling a command that is
  there, on handling an event that is there and not dead-lettered, and on the
  worker. Nothing is assumed of users, of edits, or of the replay of a dead
  letter, and nothing of a message in `abandoned`. `OperationSettles` holds with
  lost messages, because it rests on the worker alone; the other three say
  "unless a message is lost", and `OwnedStockReturns` also needs the product to
  stay with its supplier, since `owner_edit` shows that it does not hold
  otherwise.
- *Publisher.* Weak fairness of `ClaimBatch` and `Deliver` of every process (they
  poll for ever and are restarted), of the end of a lease whose owner no longer
  has the row in memory, and of Kafka deciding on a message. Nothing makes a
  lease end under a living owner, and faults are finitely many.
- *Consumer.* Weak fairness of the work of each member: `PartitionAdvances`. Its
  premise is that the dead letter of every message up to this one could be written
  if it came to that. Without the premise TLC finds the worker seeking back for
  ever.
- *Catalogue.* Weak fairness of a request that has begun, of the consumer, and
  of the synchronisation at the start. No supplier has to send a request.

`checkout` has no liveness property: a call may always be answered with an error,
and what a customer then does is up to them.

**Named exceptions.** Two properties of the catalogue hold only without certain
events, which the model records in `anomalies` when they happen:
`StockIsWarehouseTotal` without `SOLD` (finalization lowers the total and leaves
the warehouse rows, `stock_lifecycle.py:264`), `UNWRITTEN` (a restock does not
write a total equal to the one it read before the lock, which another request has
changed since, `main.py:97`), `MISCOUNTED` (a restock counts its row as it read
it, and another request has changed it, `main.py:105`) and `UNSEEN` (a deletion
takes along a row that was inserted after it had read the rows, `main.py:331`);
`CardConverges` without `LOST` (no outbox; an event is dropped after three
attempts), `INVERTED` (two requests publish in the opposite order of their
commits) and `OVERTAKEN` (the synchronisation at the start writes over newer
events). The model records each by the comparison the code makes or fails to
make, never by its effect on the total: a restock that has read what is there
leaves total and rows equal, whatever they were before. Each is needed: with any
one of the seven taken out, TLC finds the property violated, `MISCOUNTED` in the
instance of three requests and the others in the instance of the run. No document
promises otherwise, so they are stated as what the code does guarantee and not as
deviations.

**Deviations from the documentation.** The violation runs each state what a
document under `docs/to-be/` promises.

1. `unmarked_hold`: a terminal order whose stock is still held should be marked
   by `reservation_state` (`05-order-state-machine.md:632`). When the release
   overtakes the reservation request, the order is CANCELLED/RELEASED first and
   the stock is reserved afterwards; the late-success branch leaves
   `reservation_state` as it is, and the table's CHECK would refuse anything else.
2. `lost_reservation`: a reservation should time out into FAILED with a
   protective release (lines 428 and 754-760). The worker does not look at
   reservations.
3. `owner_edit`: the recovery path should stay active (line 632). A compensation
   that is refused, here because the product changed its owner, is dead-lettered
   and asked for by nobody again.
4. `stock_replay`: a dead letter can be replayed
   (`02-mvp-scope-roles-and-user-scenarios.md:454`). supplier-service's inbox takes
   the replayed event id for a duplicate even when the cause of the failure is
   gone; order-service handles it.
5. `confirmed_price`: the price of an order is the one its customer confirmed
   (`04-order-service-architecture.md:351`). The checkout confirms a cart version,
   a changed price does not change it, and the snapshot takes the price of the
   moment.

One more promise is not kept and has no run of its own: an invalid message goes to
the dead letters and does not block its partition for ever
(`01-vision-and-architecture-principles.md:416-417`). A null value raises in
supplier-service while the dead letter is built (`stock_consumer.py:452`), a string
with a lone surrogate raises in either service while it is encoded
(`messaging/kafka.py:74`); the worker seeks back (`:329`) and starts over. The
`consumer` run has both messages, and `PartitionAdvances` excludes them by its
premise.

## 4. Proofs

`tlapm` checks the eight proof modules for all values of the constants under the
assumptions the modules name: `OrderAssumption` (there are finitely many orders,
as in any database), `DemandAssumption` (every order wants something),
`StockAssumption`, `MaxAttemptsAssumption`, `MaxAbandonedAssumption`,
`PublisherAssumption`, `ConsumerAssumption`, `CartAssumption`,
`CreationAssumption` and `CatalogueAssumption`. They say what the constants are (finite
sets of rows, limits that are positive, a name that is none of the processes), and
nothing about behaviour. Three theorems have a hypothesis of their own, stated in
them: nobody counts stock again (`Totals = {}`), or no product changes hands
(`[]Owned`).

### The saga

None of the safety properties is inductive. `OutcomesAgree` alone allows a
state in which a CANCELLED order has a finalization under way; the next step
sells its stock. `SagaInvariant` therefore ties the three records of an order
together:

- `RowsConsistent`: the shape of a row between two transactions, with what the
  CHECK constraints leave open (a FAILED row has its phase determined by its
  target; an idle RESERVED row has reservation state RESERVED);
- `CommandsCommit`: a finalization was only ever sent for an order that is
  `Confirming`, a release only for one that is `Releasing`. A row is never both
  and leaves neither, which is why the outcome is unique;
- `EventsHold`: a stock event stays true of the reservation it reports. The one
  exception is spelled out: a `StockReleased` that found no reservation can be
  followed by one, but then the order's cancellation is active;
- `SidesAgree`: statuses of order and reservation match, and a sold or released
  reservation belongs to an order committed to that;
- `HoldsWholeOrder` and `NeverOversold` for the counters.

The first part of `OrderSagaProofs` shows what each handler makes of one row,
without any message or stock; the rest lifts it to the system, one lemma per
action, and combines them in `Invariance`. `OrderLifecycleProofs` uses the same lemmas about
rows once more: what a handler may do to `DecisionOf` and `OutcomeOf` of a row
follows from `RowStep`, and with the invariant, which knows the stock when a
decision is taken or concluded, every step of the saga is one of `OrderLifecycle`
or leaves the life of every order alone.

| Theorem | States |
|---|---|
| `Invariance` | `Spec => []SagaInvariant` |
| `TypeCorrect` | `Spec => []TypeOK` |
| `RowsSatisfyConstraints` | `Spec => []RowConstraintsHold` |
| `OneOutcomeOnly` | `Spec => []OneOutcome` |
| `OutcomesAlwaysAgree` | `Spec => []OutcomesAgree` |
| `TerminalStaysFinal` | `Spec => TerminalIsFinal` |
| `CancellationStaysActive` | `Spec => CancellationSticks` |
| `StockNeverOversold` | `Spec => [](NeverOversold /\ HoldsWholeOrder)` |
| `SagaImplementsLifecycle` (`OrderLifecycleProofs`) | `Spec => ImplementsLifecycle` |

### The stock of the orders

`SagaInvariant` says nothing of which reservation a message means, nor of what was
seen when. `HistoryInvariant` adds that:

- `ReservedIsHeld`: the ledger. A step changes what one reservation holds, and
  the products row by as much (`SumChanges` of `QuantitiesProofs`);
- `IdsAgree`, `FinalizationsAgree`: row, commands and events of an order name the
  one reservation there is, or none, and the one finalization. A new finalization
  id is drawn only by a row that is free to be decided, and then no finalization
  was ever sent;
- `CommandsNumbered`, `HandledWasSent`: commands are numbered by versions, so a
  release that is sent now is none the supplier has handled;
- `AbsentUntilCreated`, and `ReservationsAnnounced`: a reservation is announced by an
  event, and the order knows only of one whose event it has handled.

It is inductive together with `SagaInvariant`, whatever is edited. What the
supplier answers depends on more: it refuses a command when a product of the
reservation has changed hands (`stock_lifecycle.py:256`), and a refused release
of a cancelled order is asked for by nobody again (deviation 3). So the last two
theorems are about behaviours in which that does not happen. There a
finalization finds its reservation RESERVED with its stock in place, or FINALIZED
by itself, and a release finds it RESERVED, ended, or not there at all: that is
`NothingRefused`. For `CancelledHoldIsTracked` the invariant is
`SeenHoldIsReleased`: an order that is being cancelled and has seen that its
stock is reserved has a release on its way until the stock is back. Every
transaction that turns an order to cancellation, and every one by which a
cancelled order learns of its reservation, sends one, and the supplier does not
answer it without giving the stock back.

| Theorem of `StockHistoryProofs` | States |
|---|---|
| `HistoryInvariance` | `Spec => []HistoryInvariant` |
| `LedgerBalances` | `Spec => []StockLedger` |
| `StockSoldOnce` | `Spec => []SoldExactlyOnce`, if `Totals = {}` |
| `NothingIsRefused` | `Spec /\ []Owned => []NothingRefused` |
| `CancelledHoldStaysTracked` | `Spec /\ []Owned => []CancelledHoldIsTracked` |

### The publishers

`PublishedWasSent` is not inductive because a process marks a row from memory,
and the row may have been taken over since. `PublisherInvariant` says what the
memory is worth: a process about to mark has sent its message (`MarkedWasSent`),
rows and orders agree on the deadline (`RowsAgree`), and every copy anywhere, in
memory, in flight or stored, carries that deadline (`CopiesAgree`).

| Theorem | States |
|---|---|
| `Invariance` | `Spec => []PublisherInvariant` |
| `TypeCorrect` | `Spec => []TypeOK` |
| `OnlySentIsPublished` | `Spec => []PublishedWasSent` |
| `DeadlineIsOne` | `Spec => []OneDeadline` |
| `OnlyOwnerLetsGo` | `Spec => OwnerLetsGo` |
| `SettledRowStays` | `Spec => SettledStays` |
| `PublishersImplementDelivery` | `Spec => Delivery!DeliverySpec`, the safety part of `ImplementsDelivery` |

### The consumers

A committed offset tells nothing of the step that committed it, which may belong
to a process that has lost the partition. `ConsumerInvariant` therefore keeps what
each step of a process has behind it: an inbox row says DLQ only of a dead letter
that is there, and a process about to write that has just sent it
(`MarkedIsDeadLetter`); what a process is about to commit, all it has read past and all that is committed is done (`PassedIsDone`);
offsets stay within the log (`InLog`). Seeking back to a message whose dead letter
cannot be written passes nothing over, so the three safety theorems hold for such
messages too; what they cost is liveness, the premise of `PartitionAdvances`.

| Theorem | States |
|---|---|
| `Invariance` | `Spec => []ConsumerInvariant` |
| `TypeCorrect` | `Spec => []TypeOK` |
| `EventAppliedOnce` | `Spec => []AppliedOnce` |
| `NothingIsLost` | `Spec => []NothingLost` |
| `EveryOrderCopyHandled` | `Spec => []OrderCopiesHandled` |

### Checkout

`CreationInvariant` ties four records together: the rows are the contents of the
current version (`CartOK`), a call that is about to persist holds a snapshot of the version it
names, which no later mutation can touch, and a winner it found is an order of that
version (`CallOK`), an order has the contents of its version and its key is completed with it
(`OrderOK`), a claim is about the version its owner or its order names (`ClaimOK`),
and there is one order per version (`OneOrderPerVersion`).

| Theorem | States |
|---|---|
| `Invariance` | `Spec => []CreationInvariant` |
| `TypeCorrect` | `Spec => []TypeOK` |
| `OrderIsItsVersion` | `Spec => []OrderHoldsVersion` |
| `AnswersAlwaysAgree` | `Spec => []AnswersAgree` |
| `OrderHasItsKey` | `Spec => []OrderAnswersItsKey` |
| `KeyStaysSettled` | `Spec => KeySettles` |
| `OwnerKeeps` | `Spec => OwnerKeepsClaim` |

### The catalogue

What customers see is true because every copy of a total is. `KnownInvariant`
follows it from the product through what an overlapping restock has read, the
message of a request, the two topics and the answers of supplier-service to the
projection: each holds a total of `past`, which only grows. `Recalculate` is the one
step where this could fail: the total it publishes is either written, or equal to
the one it has seen.

`StockInvariant` is about the counters of the supplier: only an existing warehouse
has a row, and one without a row adds nothing (`RowsSound`), so deleting a
warehouse changes the total by what it held; what an overlapping restock has read
is a number (`SeenSound`). A restock that is neither `UNWRITTEN` nor `MISCOUNTED`
leaves the product with the total it has counted, and has counted the rows it
leaves; a deletion recounts under the lock what it has found, and where it has
found no row and none was inserted the rows do not change. That is
`TotalIsOfWarehouses`, for any number of overlapping requests.

| Theorem | States |
|---|---|
| `Invariance` | `Spec => []KnownInvariant` |
| `ShownIsTrue` | `Spec => []ShownWasTrue` |
| `StockInvariance` | `Spec => []StockInvariant` |
| `TypeCorrect` | `Spec => []TypeOK` |
| `ReservedStaysWithinTotal` | `Spec => []ReservedWithinTotal` |
| `TotalIsOfWarehouses` | `Spec => []StockIsWarehouseTotal` |

### Only model-checked

All liveness, and the liveness part of `ImplementsDelivery`: the prover has no
rules for fairness. Every invariant and every action property the passing runs
check is also proved.

## 5. What is not modelled

- Reads, presentation, configuration, logging, migrations, frontend, seed and
  test drivers: they change no state the system depends on.
- The audit consumer appends each delivery to a table that nothing reads back.
- Suppliers, and creating and renaming warehouses: rows of one table, written in
  one transaction each. (Deleting a warehouse recounts and is in `Catalogue`.)
- Favorites, users and the tables of legacy orders: one transaction per request,
  meeting nothing else. What the legacy order does to the cart is in `Cart`.
- `PRODUCT_DELETED`: supplier-service archives and never sends it.
- The first two mutations of a customer without a `carts` row, both inserting
  one: the unique constraint rolls the loser back to an error, so there is
  nothing left to state.
- A confirmation that failed for good (FAILED, phase CONFIRMATION) is a dead end
  of the saga, documented as manual recovery; only a late result leads out of it.

Worth doing next: the placing of the order as a first step of `OrderLifecycle`, and a
product row that `SupplierStock` and `Catalogue` both implement.
