-------------------------------- MODULE OrderSaga --------------------------------
(***************************************************************************)
(* The stock saga of the marketplace: order-service and supplier-service   *)
(* with their own databases, joined only by the messages of StockChannel.  *)
(***************************************************************************)
EXTENDS OrderAggregate, SupplierStock, Quantities

vars == <<channelVars, orderVars, supplierVars>>

TypeOK ==
  /\ ChannelTypeOK
  /\ OrderTypeOK
  /\ SupplierTypeOK

Init ==
  /\ ChannelInit
  /\ OrderInit
  /\ SupplierInit

\* An outbox row whose publication failed outbox_max_attempts times.
AbandonMessage(m) ==
  /\ m \notin supplierInbox \cup orderInbox \cup abandoned
  /\ Cardinality(abandoned) < MaxAbandoned
  /\ abandoned' = abandoned \cup {m}
  /\ UNCHANGED <<commands, events, orderVars, supplierVars>>

Next ==
  \/ OrderStep /\ UNCHANGED supplierVars
  \/ SupplierStep /\ UNCHANGED orderVars
  \/ \E m \in commands \cup events : AbandonMessage(m)

Spec == Init /\ [][Next]_vars

(***************************************************************************)
(* The worker and the two consumers are loops that never stop by choice;   *)
(* a published message is redelivered until it is handled or dead-lettered.*)
(* Users owe nothing, and nobody owes the replay of a dead letter.         *)
(***************************************************************************)
HandleCommand(o) ==
  \E c \in commands : c.order = o /\ CommandStep(c) /\ UNCHANGED orderVars

HandleResult(o) ==
  \E e \in events \ orderDlq :
    e.order = o /\ ResultStep(e) /\ UNCHANGED supplierVars

RunWorker(o) == WorkerStep(o) /\ UNCHANGED supplierVars

Fairness ==
  \A o \in Order :
    /\ WF_vars(HandleCommand(o))
    /\ WF_vars(HandleResult(o))
    /\ WF_vars(RunWorker(o))

FairSpec == Spec /\ Fairness

-----------------------------------------------------------------------------
(* Safety *)

HeldOf(p) == SumOf([o \in Order |-> held[o][p]])

SoldOf(p) ==
  SumOf([o \in Order |->
           IF reservations[o].status = "FINALIZED" THEN Demand[o][p] ELSE 0])

\* A reservation holds all of its order or nothing (reservation.py checks
\* every item before it writes one).
HoldsWholeOrder ==
  \A o \in Order : \A p \in Product :
    held[o][p] = IF Active(o) THEN Demand[o][p] ELSE 0

\* The reserved stock of a product is exactly what the active reservations
\* hold, whatever the orders that compete for it and the commands that are
\* repeated (reservation.py, stock_lifecycle.py).
StockLedger ==
  /\ \A p \in Product : products[p].reserved = HeldOf(p)
  /\ HoldsWholeOrder

\* No more is reserved than there is: not by two orders that want the last
\* units, not by a recount between a reservation and its finalization
\* (reservation.py, recalculate_product_stocks).
NeverOversold == \A p \in Product : products[p].reserved <= products[p].stocks

\* As long as nobody counts stock again, a product has lost exactly what its
\* finalized reservations sold, however often finalization was retried
\* (StockLifecycleService._finalize).
SoldExactlyOnce ==
  \A p \in Product : products[p].stocks + SoldOf(p) = InitialStock[p]

\* The two services never disagree about what became of an order: a confirmed
\* order was taken from the stock, a rejected one holds nothing, a cancelled
\* one was not sold, an order offered for decision still holds its stock.
OutcomesAgree ==
  \A o \in Order :
    LET r == orders[o]
        status == reservations[o].status
    IN  /\ r.business = "CONFIRMED" => status = "FINALIZED"
        /\ r.business = "REJECTED" => status \in {"REJECTED", "RELEASED"}
        /\ r.business = "CANCELLED" => status # "FINALIZED"
        /\ r.business = "RESERVED" /\ r.operation = "NONE" => status = "RESERVED"

\* The supplier is never asked both to sell and to give back the stock of
\* one order, whatever the race of confirm, reject, cancel, timeout and late
\* results (order_actions._validate_transition).
OneOutcome ==
  \A c, d \in commands :
    ~ /\ c.order = d.order
      /\ c.type = "StockFinalizationRequested"
      /\ d.type = "StockReleaseRequested"

\* While a cancelled order still holds stock, something is under way that
\* will give it back: the unseen reservation result that triggers the
\* compensation, or a release the supplier has not handled.
CancelledHoldIsTracked ==
  \A o \in Order :
    orders[o].business = "CANCELLED" /\ Active(o) =>
      \/ \E e \in events \ orderInbox :
           e.order = o /\ e.type = "StockReservationSucceeded"
      \/ \E c \in commands \ supplierInbox :
           c.order = o /\ c.type = "StockReleaseRequested"

\* While no product changes hands the supplier refuses neither a sale nor a
\* give-back: whatever was repeated, reordered, recounted or delisted, the
\* reservation a command names is there and its stock is there to be moved
\* (StockLifecycleService._finalize and _release).
NothingRefused ==
  \A e \in events : e.type \notin {"StockFinalizationFailed", "StockReleaseFailed"}

\* Every row the handlers write satisfies the CHECK constraints of the orders
\* table (models.py): a row that does not would turn the event that caused it
\* into a dead letter.
RowConstraintsHold ==
  \A o \in Order :
    LET r == orders[o]
    IN  /\ r.operation = "NONE" => r.target = "NONE"
        /\ r.operation \in ReleasePending =>
             /\ r.reservation = "RELEASE_REQUESTED"
             /\ r.release_id # NoId
             /\ r.target = IF r.operation = "CANCELLATION_PENDING"
                           THEN "CANCELLED" ELSE "REJECTED"
        /\ r.business = "CONFIRMED" => Idle(r) /\ r.reservation = "RESERVED"
        /\ r.operation = "CONFIRMATION_PENDING" =>
             /\ r.business = "RESERVED" /\ r.reservation = "RESERVED"
             /\ r.finalization_id # NoId /\ r.target = "NONE"
        /\ r.business = "CANCELLED" => Idle(r) /\ r.reservation = "RELEASED"
        /\ r.business = "REJECTED" =>
             Idle(r) /\ r.reservation \in {"NOT_RESERVED", "RELEASED"}
        /\ r.operation = "FAILED" =>
             r.failure_phase # "NONE" /\ r.failure_reason # NoReason

-----------------------------------------------------------------------------
(* What a step may never do *)

\* A terminal status is never taken back or replaced, not even by a late or
\* repeated stock event.
TerminalIsFinal ==
  [][\A o \in Order :
       orders[o].business \in Terminal => orders'[o].business = orders[o].business]_vars

\* Once a cancellation is under way it stays so, through retries, failures
\* and late reservation results, until the order is cancelled.
CancellationSticks ==
  [][\A o \in Order :
       CancellationActive(orders[o]) => CancellationActive(orders'[o])]_vars

-----------------------------------------------------------------------------
(* The abstract order: what a row says of it *)

\* The order is being, or has been, confirmed.
Confirming(r) ==
  \/ r.operation = "CONFIRMATION_PENDING"
  \/ r.operation = "FAILED" /\ r.failure_phase = "CONFIRMATION"
  \/ r.business = "CONFIRMED"

\* The order is being, or has been, rejected or cancelled.
Releasing(r) ==
  \/ r.operation \in ReleasePending
  \/ r.operation = "FAILED" /\ r.failure_phase = "RELEASE"
  \/ r.business \in {"REJECTED", "CANCELLED"}

DecisionOf(r) ==
  IF Confirming(r) THEN "CONFIRM"
  ELSE IF CancellationActive(r) THEN "CANCEL"
  ELSE IF Releasing(r) THEN "REJECT"
  ELSE "OPEN"

OutcomeOf(r) == IF r.business \in Terminal THEN r.business ELSE "NONE"

LifeOf(r, status) ==
  [decision |-> DecisionOf(r), stock |-> status, outcome |-> OutcomeOf(r)]

Life == [o \in Order |-> LifeOf(orders[o], reservations[o].status)]

Lifecycle == INSTANCE OrderLifecycle WITH life <- Life

\* Every order lives the life of OrderLifecycle: four writers of its row and
\* one of its reservation, with messages lost, repeated and reordered between
\* them, never change a decision, never move the stock another way and never
\* conclude an order as something it was not decided to be.
ImplementsLifecycle == Lifecycle!Spec

-----------------------------------------------------------------------------
(* Liveness *)

\* A pending confirmation, rejection or cancellation ends: with its result,
\* or FAILED by the worker.
OperationSettles ==
  \A o \in Order :
    orders[o].operation \in OperationPending ~> orders[o].operation \notin OperationPending

\* Loss and a change of owner are beyond what the services recover from.
Lossless == abandoned = {}
Owned == \A p \in Product : products[p].owned

\* Stock the supplier took or gave back becomes the outcome of its order,
\* even when the worker had already given the operation up, as long as no
\* message is lost (stock_result._expected_operation_for_result).
OutcomeReachesOrder ==
  \A o \in Order :
    /\ reservations[o].status = "FINALIZED" ~> orders[o].business = "CONFIRMED" \/ ~Lossless
    /\ reservations[o].status = "RELEASED" ~>
         orders[o].business \in {"REJECTED", "CANCELLED"} \/ ~Lossless

\* The stock of a cancelled order comes back.
CancelledStockReturns ==
  \A o \in Order : orders[o].business = "CANCELLED" ~> ~Active(o)

\* It does when no message is lost and no product changes hands: the
\* compensation of a late reservation needs no worker and no user.
OwnedStockReturns ==
  []Owned =>
    \A o \in Order : orders[o].business = "CANCELLED" ~> ~Active(o) \/ ~Lossless

Settling(o) ==
  orders[o].business # "PENDING_RESERVATION" \/ orders[o].operation = "FAILED"

\* An order whose reservation was asked for does not wait for ever.
ReservationSettles ==
  \A o \in Order : orders[o].business = "PENDING_RESERVATION" ~> Settling(o)

\* It does not when no message is lost, whatever the supplier answers and the
\* customer does meanwhile.
AnsweredReservationSettles ==
  \A o \in Order :
    orders[o].business = "PENDING_RESERVATION" ~> Settling(o) \/ ~Lossless

-----------------------------------------------------------------------------
(* What the documentation promises and the code does not keep *)

\* docs/to-be/05-order-state-machine.md: a terminal order whose stock is
\* still reserved is marked by reservation_state UNKNOWN or RELEASE_REQUESTED.
CancelledHoldIsMarked ==
  \A o \in Order :
    orders[o].business = "CANCELLED" /\ Active(o) =>
      orders[o].reservation \in {"UNKNOWN", "RELEASE_REQUESTED"}
================================================================================
