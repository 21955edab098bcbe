--------------------------- MODULE OrderSagaInvariant ---------------------------
(***************************************************************************)
(* The inductive invariant of OrderSaga.  It ties the three records of an  *)
(* order together: the orders row, the reservation of supplier-service and *)
(* the messages between them.                                              *)
(***************************************************************************)
EXTENDS OrderSaga

\* What the row of one order looks like between two transactions.
RowConsistent(r) ==
  /\ r.business \in {"NOT_CREATED"} \cup Terminal => Idle(r)
  /\ Idle(r) => r.target = "NONE"
  /\ r.business = "RESERVED" /\ Idle(r) => r.reservation = "RESERVED"
  /\ r.business = "CONFIRMED" => r.reservation = "RESERVED"
  /\ r.business = "CANCELLED" => r.reservation = "RELEASED"
  /\ r.business = "REJECTED" => r.reservation \in {"NOT_RESERVED", "RELEASED"}
  /\ r.operation = "CONFIRMATION_PENDING" =>
       r.target = "NONE" /\ r.finalization_id # NoId
  /\ r.operation = "CONFIRMATION_PENDING"
       \/ (r.operation = "FAILED" /\ r.failure_phase = "CONFIRMATION") =>
       r.business = "RESERVED" /\ r.reservation = "RESERVED"
  /\ r.operation \in ReleasePending =>
       /\ r.target = IF r.operation = "CANCELLATION_PENDING" THEN "CANCELLED" ELSE "REJECTED"
       /\ r.reservation = "RELEASE_REQUESTED"
       /\ r.release_id # NoId
  /\ r.operation = "FAILED" =>
       /\ r.failure_phase = IF r.target = "NONE" THEN "CONFIRMATION" ELSE "RELEASE"
       /\ r.failure_reason # NoReason
  /\ r.target = "REJECTED" => r.business = "RESERVED"

RowsConsistent == \A o \in Order : RowConsistent(orders[o])

\* A sent command commits its order to one of the two ways out.
CommandCommits(c, r) ==
  /\ c.type = "StockFinalizationRequested" => Confirming(r)
  /\ c.type = "StockReleaseRequested" => Releasing(r)

CommandsCommit == \A c \in commands : CommandCommits(c, orders[c.order])

\* A stock event stays true of the reservation it reports on; only a release
\* that found no reservation may be followed by one, when the order is
\* cancelled.
EventHolds(e, status, r) ==
  /\ e.type = "StockReservationSucceeded" => status \notin {"NONE", "REJECTED"}
  /\ e.type = "StockReservationFailed" =>
       status = "REJECTED" /\ e.reason \in ReservationRefusals
  /\ e.type = "StockFinalized" => status = "FINALIZED"
  /\ e.type = "StockReleased" => status \in {"REJECTED", "RELEASED"} \/ CancellationActive(r)
  /\ e.type \in {"StockFinalizationFailed", "StockReleaseFailed"} =>
       e.reason \in LifecycleRefusals

EventsHold ==
  \A e \in events : EventHolds(e, reservations[e.order].status, orders[e.order])

\* What the order became is what the supplier did.
BusinessFits(r, status) ==
  /\ r.business \in {"RESERVED", "CONFIRMED"} => status \notin {"NONE", "REJECTED"}
  /\ r.business = "CONFIRMED" => status = "FINALIZED"
  /\ r.business = "REJECTED" => status \in {"REJECTED", "RELEASED"}

\* ... and what the supplier did is what the order is committed to.
SidesAgree ==
  \A o \in Order :
    /\ BusinessFits(orders[o], reservations[o].status)
    /\ reservations[o].status = "FINALIZED" => Confirming(orders[o])
    /\ reservations[o].status = "RELEASED" => Releasing(orders[o])

SagaInvariant ==
  /\ TypeOK
  /\ RowsConsistent
  /\ CommandsCommit
  /\ EventsHold
  /\ SidesAgree
  /\ HoldsWholeOrder
  /\ NeverOversold

-----------------------------------------------------------------------------
(* The stock, the identifiers and the history of a reservation.  They hold  *)
(* of every order; the last two need products that keep their owner.        *)

\* The products row counts what the items of the reservations hold.
ReservedIsHeld == \A p \in Product : products[p].reserved = HeldOf(p)

\* Whoever names a reservation names the one there is: the row, the commands
\* and the events of an order.
IdsAgree ==
  /\ \A o \in Order : orders[o].reservation_id \in {NoId, reservations[o].id}
  /\ \A c \in commands : c.reservation_id \in {NoId, reservations[c.order].id}
  /\ \A e \in events :
       /\ e.reservation_id \in {NoId, reservations[e.order].id}
       /\ e.type = "StockReservationSucceeded" => e.reservation_id # NoId
  /\ \A o \in Order : reservations[o].status = "NONE" => reservations[o].id = NoId

\* ... and one finalization per order.
FinalizationsAgree ==
  /\ \A c \in commands :
       c.type = "StockFinalizationRequested" => c.request_id = orders[c.order].finalization_id
  /\ \A o \in Order :
       reservations[o].status = "FINALIZED" =>
         reservations[o].finalization_id = orders[o].finalization_id

\* The ids of the commands of an order are versions it has had, so the next
\* one is new.
CommandsNumbered ==
  \A c \in commands : c.id # NoId /\ c.id <= orders[c.order].version

\* What a service has handled was sent to it.
HandledWasSent ==
  /\ supplierInbox \subseteq commands
  /\ orderInbox \subseteq events

\* An order that is not created has no history.
AbsentUntilCreated ==
  \A o \in Order : orders[o].business = "NOT_CREATED" => orders[o] = Absent

Announced(o) == {e \in events : e.order = o /\ e.type = "StockReservationSucceeded"}

\* The supplier announces every reservation, and the order knows only of one
\* that was announced.
ReservationsAnnounced ==
  \A o \in Order :
    /\ Active(o) => Announced(o) # {}
    /\ orders[o].reservation_id # NoId => Announced(o) \cap orderInbox # {}

HistoryInvariant ==
  /\ ReservedIsHeld
  /\ IdsAgree
  /\ FinalizationsAgree
  /\ CommandsNumbered
  /\ HandledWasSent
  /\ AbsentUntilCreated
  /\ ReservationsAnnounced

\* Once the order that is being cancelled has seen that its stock is reserved,
\* a release is on its way until the stock is back.
SeenHoldIsReleased ==
  \A o \in Order :
    /\ CancellationActive(orders[o])
    /\ Active(o)
    /\ Announced(o) \cap orderInbox # {}
    => \E c \in commands \ supplierInbox :
         c.order = o /\ c.type = "StockReleaseRequested"
================================================================================
