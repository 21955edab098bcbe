----------------------------- MODULE OrderAggregate -----------------------------
(***************************************************************************)
(* The order side of the stock saga: the orders row, the commands of the   *)
(* customer and the supplier (order_actions.py), the worker that repeats   *)
(* or fails pending operations (operation_timeout.py) and the handler of   *)
(* stock events with its inbox (stock_result.py,                           *)
(* stock_events_consumer.py).                                              *)
(*                                                                         *)
(* Every action is one database transaction under the lock of the order    *)
(* row.  A request that is a replay, that carries a stale If-Match version *)
(* or that the state forbids changes nothing and is not an action.  Wall   *)
(* clock deadlines are left open: they may have passed or not whenever the *)
(* worker looks.                                                           *)
(***************************************************************************)
EXTENDS StockChannel

CONSTANT MaxAttempts   \* timeout_worker_max_attempts

ASSUME MaxAttemptsAssumption == MaxAttempts \in Nat \ {0}

VARIABLES
  orders,       \* the orders rows
  orderInbox,   \* stock events whose inbox row is PROCESSED
  orderDlq      \* stock events whose inbox row is FAILED, copied to the DLQ

orderVars == <<orders, orderInbox, orderDlq>>

BusinessStatus ==
  {"NOT_CREATED", "PENDING_RESERVATION", "RESERVED", "CONFIRMED", "REJECTED", "CANCELLED"}
Terminal == {"CONFIRMED", "REJECTED", "CANCELLED"}
ReleasePending == {"REJECTION_PENDING", "CANCELLATION_PENDING"}
OperationState == {"NONE", "CONFIRMATION_PENDING", "FAILED"} \cup ReleasePending
OperationPending == {"CONFIRMATION_PENDING"} \cup ReleasePending
ReservationState ==
  {"NOT_RESERVED", "REQUESTED", "RESERVED", "RELEASE_REQUESTED", "RELEASED", "UNKNOWN"}

Row ==
  [business : BusinessStatus, operation : OperationState,
   reservation : ReservationState, target : {"NONE", "REJECTED", "CANCELLED"},
   reservation_id : Nat, finalization_id : Nat, release_id : Nat,
   finalization_attempts : Nat, release_attempts : Nat,
   failure_phase : {"NONE", "CONFIRMATION", "RELEASE"},
   failure_reason : {NoReason, "OPERATION_RETRY_EXHAUSTED"} \cup LifecycleRefusals,
   rejection_reason : {NoReason, "SUPPLIER_REJECTED"} \cup ReservationRefusals,
   version : Nat]

Absent ==
  [business |-> "NOT_CREATED", operation |-> "NONE", reservation |-> "NOT_RESERVED",
   target |-> "NONE", reservation_id |-> NoId, finalization_id |-> NoId,
   release_id |-> NoId, finalization_attempts |-> 0, release_attempts |-> 0,
   failure_phase |-> "NONE", failure_reason |-> NoReason,
   rejection_reason |-> NoReason, version |-> 0]

OrderTypeOK ==
  /\ orders \in [Order -> Row]
  /\ orderInbox \subseteq Event
  /\ orderDlq \subseteq Event

OrderInit ==
  /\ orders = [o \in Order |-> Absent]
  /\ orderInbox = {}
  /\ orderDlq = {}

-----------------------------------------------------------------------------
(* Writing a row: every mutation raises the version by one. *)

Bumped(r) == [r EXCEPT !.version = @ + 1]

\* Mutant: the target survives the operation.
SettledKeepingTarget(r) ==
  [r EXCEPT !.operation = "NONE", !.failure_phase = "NONE", !.failure_reason = NoReason]

Settled(r) ==
  [r EXCEPT !.operation = "NONE", !.target = "NONE",
            !.failure_phase = "NONE", !.failure_reason = NoReason]

Write(o, r) == orders' = [orders EXCEPT ![o] = r]

ReservationCommand(o, r) ==
  [type |-> "StockReservationRequested", order |-> o, id |-> r.version,
   reservation_id |-> NoId, request_id |-> NoId]

FinalizationCommand(o, r) ==
  [type |-> "StockFinalizationRequested", order |-> o, id |-> r.version,
   reservation_id |-> r.reservation_id, request_id |-> r.finalization_id]

ReleaseCommand(o, r) ==
  [type |-> "StockReleaseRequested", order |-> o, id |-> r.version,
   reservation_id |-> r.reservation_id, request_id |-> r.release_id]

Send(c) == commands' = commands \cup {c}

-----------------------------------------------------------------------------
(* Commands of the users *)

CreateOrder(o) ==
  LET row == Bumped([Absent EXCEPT !.business = "PENDING_RESERVATION",
                                   !.reservation = "REQUESTED"])
  IN  /\ orders[o].business = "NOT_CREATED"
      /\ Write(o, row)
      /\ Send(ReservationCommand(o, row))
      /\ UNCHANGED <<orderInbox, orderDlq, events, abandoned>>

Idle(r) == r.operation = "NONE"

\* Mutants: a decision is taken on a row whose earlier operation has failed; a
\* cancellation forgets to look at the business status.
MayDecideAfterFailure(r) ==
  r.operation \in {"NONE", "FAILED"} /\ r.business = "RESERVED"
MayCancelWhenIdle(r) == Idle(r) /\ r.business # "NOT_CREATED"

MayDecide(r) == Idle(r) /\ r.business = "RESERVED"

MayCancel(r) == Idle(r) /\ r.business \in {"PENDING_RESERVATION", "RESERVED"}

ConfirmOrder(o) ==
  LET r == orders[o]
      row == [Bumped(r) EXCEPT !.operation = "CONFIRMATION_PENDING",
                               !.finalization_id = r.version + 1,
                               !.finalization_attempts = 1,
                               !.failure_phase = "NONE", !.failure_reason = NoReason]
  IN  /\ MayDecide(r)
      /\ Write(o, row)
      /\ Send(FinalizationCommand(o, row))
      /\ UNCHANGED <<orderInbox, orderDlq, events, abandoned>>

ReleaseRequested(r, operation, target) ==
  [Bumped(r) EXCEPT !.operation = operation, !.target = target,
                    !.reservation = "RELEASE_REQUESTED",
                    !.release_id = r.version + 1, !.release_attempts = 1,
                    !.failure_phase = "NONE", !.failure_reason = NoReason]

RejectOrder(o) ==
  LET row == [ReleaseRequested(orders[o], "REJECTION_PENDING", "REJECTED")
                EXCEPT !.rejection_reason = "SUPPLIER_REJECTED"]
  IN  /\ MayDecide(orders[o])
      /\ Write(o, row)
      /\ Send(ReleaseCommand(o, row))
      /\ UNCHANGED <<orderInbox, orderDlq, events, abandoned>>

CancelOrder(o) ==
  LET row == ReleaseRequested(orders[o], "CANCELLATION_PENDING", "CANCELLED")
  IN  /\ MayCancel(orders[o])
      /\ Write(o, row)
      /\ Send(ReleaseCommand(o, row))
      /\ UNCHANGED <<orderInbox, orderDlq, events, abandoned>>

-----------------------------------------------------------------------------
(* The timeout worker: order rows with a pending operation, one at a time.  *)
(* It looks at no other rows: not at a reservation that got no answer, not  *)
(* at a FAILED operation, not at the compensation of a CANCELLED order.     *)

\* Mutant: the query forgets one of the pending states.
SelectsWithoutRejection(r) ==
  r.operation \in {"CONFIRMATION_PENDING", "CANCELLATION_PENDING"}

WorkerSelects(r) == r.operation \in OperationPending

Attempts(r) ==
  IF r.operation = "CONFIRMATION_PENDING" THEN r.finalization_attempts
                                          ELSE r.release_attempts

RetryOperation(o) ==
  LET r == orders[o]
      retried == IF r.operation = "CONFIRMATION_PENDING"
                 THEN [Bumped(r) EXCEPT !.finalization_attempts = @ + 1]
                 ELSE [Bumped(r) EXCEPT !.release_attempts = @ + 1]
  IN  /\ WorkerSelects(r)
      /\ Attempts(r) < MaxAttempts
      /\ Write(o, retried)
      /\ Send(IF r.operation = "CONFIRMATION_PENDING"
              THEN FinalizationCommand(o, retried)
              ELSE ReleaseCommand(o, retried))
      /\ UNCHANGED <<orderInbox, orderDlq, events, abandoned>>

\* Mutant: the failed operation is rolled back and the order offered again.
ExhaustedToIdle(r) == [Bumped(r) EXCEPT !.operation = "NONE"]

Exhausted(r) ==
  LET failed == [Bumped(r) EXCEPT !.operation = "FAILED",
                                  !.failure_reason = "OPERATION_RETRY_EXHAUSTED"]
  IN  IF r.operation = "CONFIRMATION_PENDING"
      THEN [failed EXCEPT !.failure_phase = "CONFIRMATION"]
      ELSE [failed EXCEPT !.failure_phase = "RELEASE", !.reservation = "UNKNOWN"]

\* The deadline may pass at any attempt; the last attempt fails without it.
ExhaustOperation(o) ==
  /\ WorkerSelects(orders[o])
  /\ Write(o, Exhausted(orders[o]))
  /\ UNCHANGED <<orderInbox, orderDlq, channelVars>>

-----------------------------------------------------------------------------
(* The handler of stock events.  Disposition is the order in which the code *)
(* decides: the link to the order, a late reservation result, a result that *)
(* changes nothing, a lifecycle result, a reservation result.               *)

Linked(r, e) ==
  /\ e.type \in LifecycleEvents =>
       \/ e.reservation_id = NoId
       \/ r.reservation_id = NoId
       \/ e.reservation_id = r.reservation_id
  /\ e.type \in FinalizationEvents => e.request_id = r.finalization_id
  /\ e.type \in ReleaseEvents => e.request_id = r.release_id

\* Mutant: the late reservation result of a cancelled order is not told
\* apart from an ordinary one.
NoCancellationActive(r) == FALSE

CancellationActive(r) ==
  \/ r.operation = "CANCELLATION_PENDING"
  \/ r.business = "CANCELLED"
  \/ r.operation = "FAILED" /\ r.target = "CANCELLED"

LateChangesNothing(r, e) ==
  IF e.type = "StockReservationFailed" THEN r.business = "CANCELLED"
                                       ELSE r.reservation_id = e.reservation_id

NoOp(r, e) ==
  CASE e.type = "StockFinalized" -> r.business = "CONFIRMED" /\ Idle(r)
    [] e.type = "StockReleased" -> r.business \in {"CANCELLED", "REJECTED"} /\ Idle(r)
    [] e.type \in {"StockFinalizationFailed", "StockReleaseFailed"} ->
         r.operation = "FAILED" /\ r.failure_reason = e.reason
    [] e.type = "StockReservationSucceeded" ->
         \/ /\ r.business \in {"RESERVED", "CONFIRMED"}
            /\ r.reservation_id = e.reservation_id
            /\ r.reservation \in {"RESERVED", "RELEASE_REQUESTED"}
         \/ r.operation \in ReleasePending \cup {"FAILED"}
         \/ r.business = "CANCELLED"
    [] e.type = "StockReservationFailed" ->
         \/ /\ r.business = "REJECTED" /\ Idle(r)
            /\ r.reservation = "NOT_RESERVED"
            /\ r.rejection_reason = e.reason
         \/ r.operation \in ReleasePending \cup {"FAILED"}
         \/ r.business = "CANCELLED"

\* Mutant: a result that comes after the worker gave up is not expected.
ExpectPendingOnly(r, e) ==
  IF e.type \in FinalizationEvents THEN "CONFIRMATION_PENDING"
  ELSE CASE r.target = "CANCELLED" -> "CANCELLATION_PENDING"
         [] r.target = "REJECTED" -> "REJECTION_PENDING"
         [] r.target = "NONE" -> "NOT_EXPECTED"

\* "NOT_EXPECTED" is the None that no operation state equals.
ExpectedOperation(r, e) ==
  IF e.type \in FinalizationEvents
  THEN IF r.operation = "FAILED" /\ r.failure_phase = "CONFIRMATION"
       THEN "FAILED" ELSE "CONFIRMATION_PENDING"
  ELSE IF r.operation = "FAILED" /\ r.failure_phase = "RELEASE" /\ r.target # "NONE"
       THEN "FAILED"
       ELSE CASE r.target = "CANCELLED" -> "CANCELLATION_PENDING"
              [] r.target = "REJECTED" -> "REJECTION_PENDING"
              [] r.target = "NONE" -> "NOT_EXPECTED"

\* Mutant: the answer to a first reservation request is refused.
CanTransitionFromUnknown(r) ==
  r.business = "PENDING_RESERVATION" /\ Idle(r) /\ r.reservation = "UNKNOWN"

CanTransition(r) ==
  /\ r.business = "PENDING_RESERVATION"
  /\ Idle(r)
  /\ r.reservation \in {"REQUESTED", "UNKNOWN"}

Disposition(r, e) ==
  IF ~Linked(r, e) THEN "INCOMPATIBLE"
  ELSE IF e.type \in ReservationEvents /\ CancellationActive(r)
       THEN IF LateChangesNothing(r, e) THEN "NO_OP" ELSE "LATE"
  ELSE IF NoOp(r, e) THEN "NO_OP"
  ELSE IF e.type \in LifecycleEvents
       THEN IF r.operation = ExpectedOperation(r, e) THEN "LIFECYCLE" ELSE "INCOMPATIBLE"
  ELSE IF CanTransition(r) THEN "TRANSITION" ELSE "INCOMPATIBLE"

\* The inbox row is claimed, and marked PROCESSED in the same transaction.
Claim(e) ==
  /\ e \in events
  /\ Delivered(e)
  /\ e \notin orderInbox
  /\ orderInbox' = orderInbox \cup {e}

Handle(e, disposition, type) ==
  /\ Claim(e)
  /\ e.type = type
  /\ Disposition(orders[e.order], e) = disposition
  /\ UNCHANGED <<orderDlq, events, abandoned>>

ReservationSucceeded(e) ==
  /\ Handle(e, "TRANSITION", "StockReservationSucceeded")
  /\ Write(e.order,
       [Bumped(Settled(orders[e.order]))
          EXCEPT !.business = "RESERVED", !.reservation = "RESERVED",
                 !.reservation_id = e.reservation_id, !.rejection_reason = NoReason])
  /\ UNCHANGED commands

ReservationFailed(e) ==
  /\ Handle(e, "TRANSITION", "StockReservationFailed")
  /\ Write(e.order,
       [Bumped(Settled(orders[e.order]))
          EXCEPT !.business = "REJECTED", !.reservation = "NOT_RESERVED",
                 !.reservation_id = NoId, !.rejection_reason = e.reason])
  /\ UNCHANGED commands

CancelledWithoutReservation(e) ==
  /\ Handle(e, "LATE", "StockReservationFailed")
  /\ Write(e.order,
       [Bumped(Settled(orders[e.order]))
          EXCEPT !.business = "CANCELLED", !.reservation = "RELEASED"])
  /\ UNCHANGED commands

\* The supplier reserved stock for an order that is being or has been
\* cancelled: the release is asked for (again), now with the reservation's id.
Compensated(r, reservation_id) ==
  [Bumped(r) EXCEPT !.reservation_id = reservation_id,
                    !.release_id = IF @ = NoId THEN r.version + 1 ELSE @,
                    !.release_attempts = @ + 1]

CompensateLateSuccess(e) ==
  LET row == Compensated(orders[e.order], e.reservation_id)
  IN  /\ Handle(e, "LATE", "StockReservationSucceeded")
      /\ Write(e.order, row)
      /\ Send(ReleaseCommand(e.order, row))

Finalized(e) ==
  /\ Handle(e, "LIFECYCLE", "StockFinalized")
  /\ Write(e.order, [Bumped(Settled(orders[e.order])) EXCEPT !.business = "CONFIRMED"])
  /\ UNCHANGED commands

\* Mutant: the target is read after it was reset.
OutcomeAfterReset(r) == Settled(r).target

\* Mutant: whatever was released had been cancelled.
OutcomeAlwaysCancelled(r) == "CANCELLED"

ReleaseOutcome(r) == r.target

Released(e) ==
  /\ Handle(e, "LIFECYCLE", "StockReleased")
  /\ Write(e.order,
       [Bumped(Settled(orders[e.order]))
          EXCEPT !.business = ReleaseOutcome(orders[e.order]), !.reservation = "RELEASED"])
  /\ UNCHANGED commands

FinalizationFailed(e) ==
  /\ Handle(e, "LIFECYCLE", "StockFinalizationFailed")
  /\ Write(e.order,
       [Bumped(orders[e.order])
          EXCEPT !.operation = "FAILED", !.failure_phase = "CONFIRMATION",
                 !.failure_reason = e.reason])
  /\ UNCHANGED commands

ReleaseFailed(e) ==
  /\ Handle(e, "LIFECYCLE", "StockReleaseFailed")
  /\ Write(e.order,
       [Bumped(orders[e.order])
          EXCEPT !.operation = "FAILED", !.failure_phase = "RELEASE",
                 !.failure_reason = e.reason, !.reservation = "UNKNOWN"])
  /\ UNCHANGED commands

IgnoreResult(e) ==
  /\ Handle(e, "NO_OP", e.type)
  /\ UNCHANGED <<orders, commands>>

\* The transaction is rolled back at every attempt; the event is copied to
\* the DLQ and its inbox row left FAILED, so that a replay is tried again.
DeadLetterResult(e) ==
  /\ e \in events
  /\ Delivered(e)
  /\ e \notin orderInbox \cup orderDlq
  /\ Disposition(orders[e.order], e) = "INCOMPATIBLE"
  /\ orderDlq' = orderDlq \cup {e}
  /\ UNCHANGED <<orders, orderInbox, channelVars>>

-----------------------------------------------------------------------------

UserStep(o) ==
  CreateOrder(o) \/ ConfirmOrder(o) \/ RejectOrder(o) \/ CancelOrder(o)

WorkerStep(o) == RetryOperation(o) \/ ExhaustOperation(o)

ResultStep(e) ==
  \/ ReservationSucceeded(e)
  \/ ReservationFailed(e)
  \/ CancelledWithoutReservation(e)
  \/ CompensateLateSuccess(e)
  \/ Finalized(e)
  \/ Released(e)
  \/ FinalizationFailed(e)
  \/ ReleaseFailed(e)
  \/ IgnoreResult(e)
  \/ DeadLetterResult(e)

OrderStep ==
  \/ \E o \in Order : UserStep(o) \/ WorkerStep(o)
  \/ \E e \in events : ResultStep(e)
================================================================================
