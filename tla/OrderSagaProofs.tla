----------------------------- MODULE OrderSagaProofs -----------------------------
(***************************************************************************)
(* Proofs about OrderSaga for any orders, products, demands, stock, edits  *)
(* and bounds.  The argument: SagaInvariant holds at the start; every      *)
(* transaction of order-service takes the row of one order through a       *)
(* RowStep, every transaction of supplier-service takes one reservation    *)
(* through a StatusStep, and both keep SagaInvariant.                      *)
(***************************************************************************)
EXTENDS OrderSagaInvariant, TLAPS

-----------------------------------------------------------------------------
(* The row of one order: each way order-service writes it leaves a sound   *)
(* row and undoes no commitment of the old one.                            *)

Rejecting(r) == Releasing(r) /\ ~CancellationActive(r)

\* What a transaction of order-service owes: the new row is sound, and no
\* commitment of the old one is undone.
RowStep(r, s) ==
  /\ s \in Row
  /\ RowConsistent(s)
  /\ Confirming(r) => Confirming(s)
  /\ Releasing(r) => Releasing(s)
  /\ CancellationActive(r) => CancellationActive(s)
  /\ Rejecting(r) => Rejecting(s)
  /\ r.business \in Terminal => s.business = r.business
  /\ s.business = "CANCELLED" => CancellationActive(r)

\* A row that stays as it is takes such a step.
LEMMA SelfStep == ASSUME NEW r \in Row, RowConsistent(r) PROVE RowStep(r, r)
<1>1. r.business = "CANCELLED" => CancellationActive(r)
  BY DEF CancellationActive
<1> QED
  BY <1>1 DEF RowStep

\* Two rows that differ in their counters and their version only.
SameState(r, s) ==
  /\ s.business = r.business
  /\ s.operation = r.operation
  /\ s.reservation = r.reservation
  /\ s.target = r.target
  /\ s.reservation_id = r.reservation_id
  /\ s.finalization_id = r.finalization_id
  /\ s.release_id = r.release_id
  /\ s.failure_phase = r.failure_phase
  /\ s.failure_reason = r.failure_reason

-----------------------------------------------------------------------------
(* Rows *)

\* An order that is not there yet is a sound row.
LEMMA AbsentRow == Absent \in Row /\ RowConsistent(Absent)
BY DEF Absent, Row, RowConsistent, BusinessStatus, OperationState, ReleasePending,
       ReservationState, NoReason, NoId, Terminal, Idle

\* Raising the version changes nothing else.
LEMMA BumpedRow == ASSUME NEW r \in Row PROVE Bumped(r) \in Row /\ SameState(r, Bumped(r))
BY DEF Bumped, Row, SameState

\* Clearing the operation leaves no operation and no target.
LEMMA SettledRow ==
  ASSUME NEW r \in Row
  PROVE  /\ Bumped(Settled(r)) \in Row
         /\ Bumped(Settled(r)).operation = "NONE"
         /\ Bumped(Settled(r)).target = "NONE"
         /\ Bumped(Settled(r)).reservation = r.reservation
<1>1. /\ Settled(r) \in Row /\ Settled(r).operation = "NONE" /\ Settled(r).target = "NONE"
      /\ Settled(r).reservation = r.reservation
  BY DEF Settled, Row, OperationState, NoReason
<1> QED
  BY <1>1, BumpedRow DEF SameState

\* An identifier drawn by a transaction is not None.
LEMMA FreshId == ASSUME NEW r \in Row PROVE r.version + 1 \in Nat /\ r.version + 1 # NoId
BY DEF Row, NoId

\* A created order waits for its reservation, uncommitted (order_creation.py).
LEMMA CreateRow ==
  ASSUME NEW r \in Row, RowConsistent(r), r.business = "NOT_CREATED",
         NEW s, s = Bumped([Absent EXCEPT !.business = "PENDING_RESERVATION",
                                          !.reservation = "REQUESTED"])
  PROVE  RowStep(r, s) /\ s.business = "PENDING_RESERVATION"
<1> DEFINE a == [Absent EXCEPT !.business = "PENDING_RESERVATION", !.reservation = "REQUESTED"]
<1>1. /\ a \in Row /\ a.business = "PENDING_RESERVATION" /\ a.operation = "NONE"
      /\ a.target = "NONE"
  BY AbsentRow DEF Row, Absent, BusinessStatus, ReservationState
<1> HIDE DEF a
<1>2. s \in Row /\ SameState(a, s)
  BY <1>1, BumpedRow DEF a
<1> QED
  BY <1>1, <1>2 DEF SameState, RowStep, RowConsistent, Idle, Confirming, Releasing, Rejecting,
                    CancellationActive, Terminal, ReleasePending

\* Confirming an idle RESERVED order commits it to the confirmation.
LEMMA ConfirmRow ==
  ASSUME NEW r \in Row, RowConsistent(r), MayDecide(r),
         NEW s, s = [Bumped(r) EXCEPT !.operation = "CONFIRMATION_PENDING",
                                      !.finalization_id = r.version + 1,
                                      !.finalization_attempts = 1,
                                      !.failure_phase = "NONE", !.failure_reason = NoReason]
  PROVE  RowStep(r, s) /\ Confirming(s) /\ ~Releasing(r) /\ s.business = r.business
<1> DEFINE b == Bumped(r)
<1>1. b \in Row /\ SameState(r, b)
  BY BumpedRow
<1> HIDE DEF b
<1>2. s \in Row
  BY <1>1, FreshId DEF b, Row, OperationState, NoReason
<1>3. /\ s.business = r.business /\ s.reservation = r.reservation /\ s.target = r.target
      /\ s.operation = "CONFIRMATION_PENDING" /\ s.finalization_id # NoId
  BY <1>1, FreshId DEF b, Row, SameState
<1> QED
  BY <1>2, <1>3 DEF MayDecide, Idle, RowStep, RowConsistent, Confirming, Releasing, Rejecting,
                    CancellationActive, Terminal, ReleasePending

\* Rejecting an idle RESERVED order, or cancelling an idle open one, commits
\* it to the release.
LEMMA ReleaseRow ==
  ASSUME NEW r \in Row, RowConsistent(r), NEW operation, NEW target,
         \/ operation = "REJECTION_PENDING" /\ target = "REJECTED" /\ MayDecide(r)
         \/ operation = "CANCELLATION_PENDING" /\ target = "CANCELLED" /\ MayCancel(r)
  PROVE  LET s == ReleaseRequested(r, operation, target)
         IN  RowStep(r, s) /\ Releasing(s) /\ s.business = r.business
<1> DEFINE b == Bumped(r)
           s == ReleaseRequested(r, operation, target)
<1>1. b \in Row /\ SameState(r, b)
  BY BumpedRow
<1> HIDE DEF b
<1>2. s \in Row
  <2>1. operation \in OperationState /\ target \in {"NONE", "REJECTED", "CANCELLED"}
    BY DEF OperationState, ReleasePending
  <2>2. "RELEASE_REQUESTED" \in ReservationState
    BY DEF ReservationState
  <2> DEFINE c == [b EXCEPT !.operation = operation, !.target = target,
                            !.reservation = "RELEASE_REQUESTED"]
  <2>3. c \in Row
    BY <1>1, <2>1, <2>2 DEF Row
  <2>4. s = [c EXCEPT !.release_id = r.version + 1, !.release_attempts = 1,
                      !.failure_phase = "NONE", !.failure_reason = NoReason]
    BY DEF b, ReleaseRequested
  <2> HIDE DEF c, s
  <2> QED
    BY <2>3, <2>4, FreshId DEF Row
<1>3. /\ s.business = r.business /\ s.reservation = "RELEASE_REQUESTED"
      /\ s.target = target /\ s.operation = operation /\ s.release_id # NoId
  BY <1>1, FreshId DEF b, ReleaseRequested, Row, SameState
<1> HIDE DEF s
<1>4. RowStep(r, s) /\ Releasing(s)
  BY <1>2, <1>3 DEF MayDecide, MayCancel, Idle, RowStep, RowConsistent, Confirming, Releasing,
                    Rejecting,
                    CancellationActive, Terminal, ReleasePending
<1> QED
  BY <1>3, <1>4 DEF s

\* The rejection reason on the row is no part of what a step owes.
LEMMA RejectRow ==
  ASSUME NEW r \in Row, RowConsistent(r), MayDecide(r),
         NEW s, s = [ReleaseRequested(r, "REJECTION_PENDING", "REJECTED")
                       EXCEPT !.rejection_reason = "SUPPLIER_REJECTED"]
  PROVE  RowStep(r, s) /\ Releasing(s) /\ s.business = r.business
<1> DEFINE q == ReleaseRequested(r, "REJECTION_PENDING", "REJECTED")
<1>1. RowStep(r, q) /\ Releasing(q) /\ q.business = r.business
  BY ReleaseRow
<1>2. q \in Row
  BY <1>1 DEF RowStep
<1> HIDE DEF q
<1>3. s \in Row /\ SameState(q, s)
  BY <1>2 DEF q, Row, SameState
<1> QED
  BY <1>1, <1>3 DEF RowStep, SameState, RowConsistent, Idle, Confirming, Releasing, Rejecting,
                    CancellationActive

\* A retry of the worker changes an attempts counter only.
LEMMA RetryRow ==
  ASSUME NEW r \in Row, RowConsistent(r), WorkerSelects(r),
         NEW s, s = IF r.operation = "CONFIRMATION_PENDING"
                    THEN [Bumped(r) EXCEPT !.finalization_attempts = @ + 1]
                    ELSE [Bumped(r) EXCEPT !.release_attempts = @ + 1]
  PROVE  RowStep(r, s) /\ SameState(r, s)
<1> DEFINE b == Bumped(r)
<1>1. b \in Row /\ SameState(r, b)
  BY BumpedRow
<1> HIDE DEF b
<1>2. s \in Row
  BY <1>1 DEF b, Row
<1>3. SameState(r, s)
  BY <1>1 DEF b, Row, SameState
<1> QED
  BY <1>2, <1>3 DEF SameState, Idle, RowStep, RowConsistent, Confirming, Releasing,
                    Rejecting, CancellationActive

\* An operation the worker gives up keeps its order committed, in FAILED.
LEMMA ExhaustRow ==
  ASSUME NEW r \in Row, RowConsistent(r), WorkerSelects(r)
  PROVE  RowStep(r, Exhausted(r)) /\ Exhausted(r).business = r.business
<1> DEFINE b == Bumped(r)
           s == Exhausted(r)
           f == [b EXCEPT !.operation = "FAILED",
                          !.failure_reason = "OPERATION_RETRY_EXHAUSTED"]
<1>1. b \in Row /\ SameState(r, b)
  BY BumpedRow
<1> HIDE DEF b
<1>2. /\ f \in Row /\ f.business = r.business /\ f.operation = "FAILED" /\ f.target = r.target
      /\ f.reservation = r.reservation /\ f.failure_reason = "OPERATION_RETRY_EXHAUSTED"
  BY <1>1 DEF Row, OperationState, SameState
<1>3. s = IF r.operation = "CONFIRMATION_PENDING"
          THEN [f EXCEPT !.failure_phase = "CONFIRMATION"]
          ELSE [f EXCEPT !.failure_phase = "RELEASE", !.reservation = "UNKNOWN"]
  BY DEF Exhausted, b
<1> HIDE DEF f, s
<1>4. s \in Row
  <2>1. CASE r.operation = "CONFIRMATION_PENDING"
    BY <1>2, <1>3, <2>1 DEF Row
  <2>2. CASE r.operation # "CONFIRMATION_PENDING"
    <3>1. "UNKNOWN" \in ReservationState
      BY DEF ReservationState
    <3> QED
      BY <1>2, <1>3, <2>2, <3>1 DEF Row
  <2> QED
    BY <2>1, <2>2
<1>5. /\ s.business = r.business /\ s.operation = "FAILED" /\ s.target = r.target
      /\ s.failure_reason = "OPERATION_RETRY_EXHAUSTED"
      /\ s.failure_phase = IF r.operation = "CONFIRMATION_PENDING" THEN "CONFIRMATION" ELSE "RELEASE"
      /\ r.operation = "CONFIRMATION_PENDING" => s.reservation = r.reservation
  BY <1>2, <1>3 DEF Row
<1>6. r.operation \in {"CONFIRMATION_PENDING", "REJECTION_PENDING", "CANCELLATION_PENDING"}
  BY DEF WorkerSelects, OperationPending, ReleasePending
<1>7. RowConsistent(s)
  BY <1>5, <1>6 DEF RowConsistent, Idle, Terminal, ReleasePending, NoReason
<1>8. /\ Confirming(r) => Confirming(s)
      /\ Releasing(r) => Releasing(s)
      /\ CancellationActive(r) <=> CancellationActive(s)
  BY <1>5, <1>6 DEF RowConsistent, Idle, Terminal, ReleasePending, Confirming, Releasing,
                    CancellationActive
<1>9. s.business = "CANCELLED" => CancellationActive(r)
  BY <1>5 DEF CancellationActive
<1> QED
  BY <1>4, <1>5, <1>7, <1>8, <1>9 DEF RowStep, Rejecting, s

-----------------------------------------------------------------------------
(* Rows a stock event leaves behind *)

\* A successful reservation offers the waiting order for a decision.
LEMMA SucceededRow ==
  ASSUME NEW r \in Row, RowConsistent(r), CanTransition(r), NEW id \in Nat,
         NEW s, s = [Bumped(Settled(r)) EXCEPT
                       !.business = "RESERVED", !.reservation = "RESERVED",
                       !.reservation_id = id, !.rejection_reason = NoReason]
  PROVE  RowStep(r, s) /\ s.business = "RESERVED"
<1> DEFINE b == Bumped(Settled(r))
<1>1. b \in Row /\ b.operation = "NONE" /\ b.target = "NONE"
  BY SettledRow
<1> HIDE DEF b
<1>2. s \in Row
  BY <1>1 DEF b, Row, BusinessStatus, ReservationState, NoReason
<1>3. /\ s.business = "RESERVED" /\ s.reservation = "RESERVED"
      /\ s.operation = "NONE" /\ s.target = "NONE"
  BY <1>1 DEF b, Row
<1> QED
  BY <1>2, <1>3 DEF CanTransition, Idle, RowStep, RowConsistent, Confirming, Releasing, Rejecting,
                    CancellationActive, Terminal, ReleasePending

\* A refused reservation rejects the waiting order.
LEMMA FailedRow ==
  ASSUME NEW r \in Row, RowConsistent(r), CanTransition(r),
         NEW reason \in ReservationRefusals,
         NEW s, s = [Bumped(Settled(r)) EXCEPT
                       !.business = "REJECTED", !.reservation = "NOT_RESERVED",
                       !.reservation_id = NoId, !.rejection_reason = reason]
  PROVE  RowStep(r, s) /\ s.business = "REJECTED"
<1> DEFINE b == Bumped(Settled(r))
<1>1. b \in Row /\ b.operation = "NONE" /\ b.target = "NONE"
  BY SettledRow
<1> HIDE DEF b
<1>2. s \in Row
  BY <1>1 DEF b, Row, BusinessStatus, ReservationState, NoId
<1>3. /\ s.business = "REJECTED" /\ s.reservation = "NOT_RESERVED"
      /\ s.operation = "NONE" /\ s.target = "NONE"
  BY <1>1 DEF b, Row
<1> QED
  BY <1>2, <1>3 DEF CanTransition, Idle, RowStep, RowConsistent, Confirming, Releasing, Rejecting,
                    CancellationActive, Terminal, ReleasePending

\* An order whose cancellation is active is committed to the release.
LEMMA CancellationReleases ==
  ASSUME NEW r \in Row, RowConsistent(r), CancellationActive(r)
  PROVE  Releasing(r) /\ ~Confirming(r) /\ r.business \notin {"CONFIRMED", "REJECTED"}
BY DEF CancellationActive, RowConsistent, Releasing, Confirming, Idle, Terminal, ReleasePending

\* A late refusal of the reservation completes the cancellation.
LEMMA CancelledRow ==
  ASSUME NEW r \in Row, RowConsistent(r), CancellationActive(r),
         NEW s, s = [Bumped(Settled(r)) EXCEPT
                       !.business = "CANCELLED", !.reservation = "RELEASED"]
  PROVE  RowStep(r, s) /\ s.business = "CANCELLED"
<1> DEFINE b == Bumped(Settled(r))
<1>1. b \in Row /\ b.operation = "NONE" /\ b.target = "NONE"
  BY SettledRow
<1> HIDE DEF b
<1>2. s \in Row
  BY <1>1 DEF b, Row, BusinessStatus, ReservationState
<1>3. /\ s.business = "CANCELLED" /\ s.reservation = "RELEASED"
      /\ s.operation = "NONE" /\ s.target = "NONE"
  BY <1>1 DEF b, Row
<1> QED
  BY <1>2, <1>3, CancellationReleases
     DEF Idle, RowStep, RowConsistent, Confirming, Releasing, Rejecting,
         CancellationActive, Terminal,
         ReleasePending

\* A late reservation is compensated without touching the cancellation.
LEMMA CompensatedRow ==
  ASSUME NEW r \in Row, RowConsistent(r), CancellationActive(r), NEW id \in Nat
  PROVE  LET s == Compensated(r, id)
         IN  RowStep(r, s) /\ s.business = r.business /\ Releasing(s)
<1> DEFINE b == Bumped(r)
           fresh == IF b.release_id = NoId THEN r.version + 1 ELSE b.release_id
           s == Compensated(r, id)
<1>1. b \in Row /\ SameState(r, b)
  BY BumpedRow
<1>2. /\ fresh \in Nat /\ b.release_attempts + 1 \in Nat
      /\ r.release_id # NoId => fresh # NoId
  BY <1>1, FreshId DEF Row, SameState
<1> HIDE DEF b
<1>3. s = [b EXCEPT !.reservation_id = id, !.release_id = fresh,
                    !.release_attempts = b.release_attempts + 1]
  BY <1>1 DEF b, Compensated, Row
<1> HIDE DEF fresh, s
<1>4. s \in Row
  BY <1>1, <1>2, <1>3 DEF Row
<1>5. /\ s.business = r.business /\ s.operation = r.operation /\ s.target = r.target
      /\ s.reservation = r.reservation /\ s.finalization_id = r.finalization_id
      /\ s.failure_phase = r.failure_phase /\ s.failure_reason = r.failure_reason
      /\ r.release_id # NoId => s.release_id # NoId
  BY <1>1, <1>2, <1>3 DEF Row, SameState
<1>6. RowConsistent(s)
  BY <1>5 DEF RowConsistent, Idle
<1> QED
  BY <1>4, <1>5, <1>6, CancellationReleases
     DEF RowStep, Confirming, Releasing, Rejecting, CancellationActive, s

\* The operation a lifecycle event answers is still open, or was given up.
ConfirmationOpen(r) ==
  \/ r.operation = "CONFIRMATION_PENDING"
  \/ r.operation = "FAILED" /\ r.failure_phase = "CONFIRMATION"

ReleaseOpen(r) ==
  /\ \/ r.operation \in ReleasePending
     \/ r.operation = "FAILED" /\ r.failure_phase = "RELEASE"
  /\ r.target \in {"REJECTED", "CANCELLED"}

\* A lifecycle event that is expected finds its own operation open: a
\* finalization result never meets a release, nor the other way round.
LEMMA ExpectedIsOpen ==
  ASSUME NEW r \in Row, RowConsistent(r), NEW e \in Event, r.operation = ExpectedOperation(r, e)
  PROVE  /\ e.type \in FinalizationEvents => ConfirmationOpen(r)
         /\ e.type \in ReleaseEvents => ReleaseOpen(r)
<1>1. r.target \in {"NONE", "REJECTED", "CANCELLED"} /\ r.operation # "NOT_EXPECTED"
  BY DEF Row, OperationState, ReleasePending
<1>2. ASSUME e.type \in FinalizationEvents PROVE ConfirmationOpen(r)
  BY <1>2 DEF ExpectedOperation, ConfirmationOpen
<1>3. ASSUME e.type \in ReleaseEvents PROVE ReleaseOpen(r)
  <2>1. e.type \notin FinalizationEvents
    BY <1>3 DEF FinalizationEvents, ReleaseEvents
  <2>2. CASE r.operation = "FAILED" /\ r.failure_phase = "RELEASE" /\ r.target # "NONE"
    BY <1>1, <2>2 DEF ReleaseOpen
  <2>3. CASE ~(r.operation = "FAILED" /\ r.failure_phase = "RELEASE" /\ r.target # "NONE")
    <3>1. r.operation = CASE r.target = "CANCELLED" -> "CANCELLATION_PENDING"
                          [] r.target = "REJECTED" -> "REJECTION_PENDING"
                          [] r.target = "NONE" -> "NOT_EXPECTED"
      BY <2>1, <2>3 DEF ExpectedOperation
    <3>2. CASE r.target = "CANCELLED"
      BY <3>1, <3>2 DEF ReleaseOpen, ReleasePending
    <3>3. CASE r.target = "REJECTED"
      BY <3>1, <3>3 DEF ReleaseOpen, ReleasePending
    <3>4. CASE r.target = "NONE"
      BY <1>1, <3>1, <3>4
    <3> QED
      BY <1>1, <3>2, <3>3, <3>4
  <2> QED
    BY <2>2, <2>3
<1> QED
  BY <1>2, <1>3

\* Finalized stock confirms an order whose confirmation is open.
LEMMA FinalizedRow ==
  ASSUME NEW r \in Row, RowConsistent(r), ConfirmationOpen(r),
         NEW s, s = [Bumped(Settled(r)) EXCEPT !.business = "CONFIRMED"]
  PROVE  RowStep(r, s) /\ s.business = "CONFIRMED"
<1> DEFINE b == Bumped(Settled(r))
<1>1. /\ b \in Row /\ b.operation = "NONE" /\ b.target = "NONE"
      /\ b.reservation = r.reservation
  BY SettledRow
<1> HIDE DEF b
<1>2. s \in Row
  BY <1>1 DEF b, Row, BusinessStatus
<1>3. /\ s.business = "CONFIRMED" /\ s.reservation = r.reservation
      /\ s.operation = "NONE" /\ s.target = "NONE"
  BY <1>1 DEF b, Row
<1> QED
  BY <1>2, <1>3 DEF ConfirmationOpen, Idle, RowStep, RowConsistent, Confirming, Releasing,
                    Rejecting,
                    CancellationActive, Terminal, ReleasePending

\* Released stock gives the order the status its release was asked for.
LEMMA ReleasedRow ==
  ASSUME NEW r \in Row, RowConsistent(r), ReleaseOpen(r),
         NEW s, s = [Bumped(Settled(r)) EXCEPT
                       !.business = ReleaseOutcome(r), !.reservation = "RELEASED"]
  PROVE  RowStep(r, s) /\ s.business = r.target
<1> DEFINE b == Bumped(Settled(r))
<1>1. b \in Row /\ b.operation = "NONE" /\ b.target = "NONE"
  BY SettledRow
<1> HIDE DEF b
<1>2. s \in Row
  BY <1>1 DEF b, Row, BusinessStatus, ReservationState, ReleaseOpen, ReleaseOutcome
<1>3. /\ s.business = r.target /\ s.reservation = "RELEASED"
      /\ s.operation = "NONE" /\ s.target = "NONE"
  BY <1>1 DEF b, Row, ReleaseOutcome
<1> QED
  BY <1>2, <1>3 DEF ReleaseOpen, Idle, RowStep, RowConsistent, Confirming, Releasing, Rejecting,
                    CancellationActive, Terminal, ReleasePending

\* A refused finalization leaves the confirmation open, in FAILED.
LEMMA FinalizationFailedRow ==
  ASSUME NEW r \in Row, RowConsistent(r), ConfirmationOpen(r), NEW reason \in LifecycleRefusals,
         NEW s, s = [Bumped(r) EXCEPT !.operation = "FAILED",
                                      !.failure_phase = "CONFIRMATION",
                                      !.failure_reason = reason]
  PROVE  RowStep(r, s) /\ s.business = r.business
<1> DEFINE b == Bumped(r)
<1>1. b \in Row /\ SameState(r, b)
  BY BumpedRow
<1>2. reason # NoReason
  BY DEF LifecycleRefusals, NoReason
<1> HIDE DEF b
<1>3. s \in Row
  BY <1>1 DEF b, Row, OperationState
<1>4. /\ s.business = r.business /\ s.operation = "FAILED" /\ s.target = r.target
      /\ s.reservation = r.reservation
      /\ s.failure_phase = "CONFIRMATION" /\ s.failure_reason = reason
  BY <1>1 DEF b, Row, SameState
<1>5. r.target = "NONE" /\ r.business = "RESERVED" /\ r.reservation = "RESERVED"
  BY DEF RowConsistent, ConfirmationOpen, Row
<1> QED
  BY <1>2, <1>3, <1>4, <1>5
     DEF ConfirmationOpen, Idle, RowStep, RowConsistent, Confirming, Releasing, Rejecting,
         CancellationActive, Terminal, ReleasePending

\* A refused release leaves the release open, in FAILED.
LEMMA ReleaseFailedRow ==
  ASSUME NEW r \in Row, RowConsistent(r), ReleaseOpen(r), NEW reason \in LifecycleRefusals,
         NEW s, s = [Bumped(r) EXCEPT !.operation = "FAILED", !.failure_phase = "RELEASE",
                                      !.failure_reason = reason, !.reservation = "UNKNOWN"]
  PROVE  RowStep(r, s) /\ s.business = r.business
<1> DEFINE b == Bumped(r)
<1>1. b \in Row /\ SameState(r, b)
  BY BumpedRow
<1>2. reason # NoReason
  BY DEF LifecycleRefusals, NoReason
<1> HIDE DEF b
<1>3. s \in Row
  BY <1>1 DEF b, Row, OperationState, ReservationState
<1>4. /\ s.business = r.business /\ s.operation = "FAILED" /\ s.target = r.target
      /\ s.failure_phase = "RELEASE" /\ s.failure_reason = reason
  BY <1>1 DEF b, Row, SameState
<1> QED
  BY <1>2, <1>3, <1>4
     DEF ReleaseOpen, Idle, RowStep, RowConsistent, Confirming, Releasing, Rejecting,
         CancellationActive, Terminal, ReleasePending

-----------------------------------------------------------------------------
(* Transactions of order-service *)

OrderKept == SagaInvariant' /\ \A x \in Order : RowStep(orders[x], orders'[x])

\* A transaction that writes the row of one order, and sends at most commands
\* the new row is committed to, keeps the invariant.
LEMMA OrderWrites ==
  ASSUME SagaInvariant, UNCHANGED <<events, abandoned, supplierVars>>,
         NEW o \in Order, NEW s, Write(o, s), RowStep(orders[o], s),
         BusinessFits(s, reservations[o].status),
         \A c \in commands' \ commands : c \in Command /\ c.order = o /\ CommandCommits(c, s),
         orderInbox' \subseteq orderInbox \cup events, orderDlq' \subseteq orderDlq \cup events
  PROVE  OrderKept
<1> USE DEF SagaInvariant
<1>1. orders \in [Order -> Row] /\ \A x \in Order : RowConsistent(orders[x])
  BY DEF TypeOK, OrderTypeOK, RowsConsistent
<1>2. /\ orders'[o] = s
      /\ \A x \in Order \ {o} : orders'[x] = orders[x]
  BY <1>1 DEF Write
<1>3. \A x \in Order : RowStep(orders[x], orders'[x])
  <2>1. \A x \in Order : RowStep(orders[x], orders[x])
    BY <1>1, SelfStep
  <2> QED
    BY <1>2, <2>1
<1>4. TypeOK'
  <2>1. orders' \in [Order -> Row]
    BY <1>1 DEF Write, RowStep
  <2>2. ChannelTypeOK'
    BY DEF TypeOK, ChannelTypeOK
  <2>3. SupplierTypeOK'
    BY DEF TypeOK, SupplierTypeOK, supplierVars
  <2>4. orderInbox' \subseteq Event /\ orderDlq' \subseteq Event
    BY DEF TypeOK, OrderTypeOK, ChannelTypeOK
  <2> QED
    BY <2>1, <2>2, <2>3, <2>4 DEF TypeOK, OrderTypeOK
<1>5. RowsConsistent'
  BY <1>3 DEF RowsConsistent, RowStep
<1>6. CommandsCommit'
  <2> SUFFICES ASSUME NEW c \in commands' PROVE CommandCommits(c, orders'[c.order])
    BY DEF CommandsCommit
  <2>1. CASE c \in commands
    <3>1. c.order \in Order
      BY <2>1 DEF TypeOK, ChannelTypeOK, Command
    <3>2. CommandCommits(c, orders[c.order])
      BY <2>1 DEF CommandsCommit
    <3> QED
      BY <1>3, <3>1, <3>2 DEF RowStep, CommandCommits
  <2>2. CASE c \notin commands
    BY <1>2, <2>2
  <2> QED
    BY <2>1, <2>2
<1>7. EventsHold'
  <2> SUFFICES ASSUME NEW e \in events
               PROVE  EventHolds(e, reservations[e.order].status, orders'[e.order])
    BY DEF EventsHold, supplierVars
  <2>1. e.order \in Order
    BY DEF TypeOK, ChannelTypeOK, Event
  <2>2. EventHolds(e, reservations[e.order].status, orders[e.order])
    BY DEF EventsHold
  <2> QED
    BY <1>3, <2>1, <2>2 DEF RowStep, EventHolds
<1>8. SidesAgree'
  <2> SUFFICES ASSUME NEW x \in Order
               PROVE  /\ BusinessFits(orders'[x], reservations[x].status)
                      /\ reservations[x].status = "FINALIZED" => Confirming(orders'[x])
                      /\ reservations[x].status = "RELEASED" => Releasing(orders'[x])
    BY DEF SidesAgree, supplierVars
  <2>1. BusinessFits(orders'[x], reservations[x].status)
    BY <1>2 DEF SidesAgree
  <2>2. /\ reservations[x].status = "FINALIZED" => Confirming(orders'[x])
        /\ reservations[x].status = "RELEASED" => Releasing(orders'[x])
    BY <1>3 DEF SidesAgree, RowStep
  <2> QED
    BY <2>1, <2>2
<1>9. HoldsWholeOrder' /\ NeverOversold'
  BY DEF HoldsWholeOrder, NeverOversold, supplierVars, Active
<1> QED
  BY <1>3, <1>4, <1>5, <1>6, <1>7, <1>8, <1>9 DEF OrderKept

\* What the invariant says of the row of one order.
LEMMA RowFacts ==
  ASSUME SagaInvariant, NEW o \in Order
  PROVE  /\ orders[o] \in Row
         /\ RowConsistent(orders[o])
         /\ BusinessFits(orders[o], reservations[o].status)
BY DEF SagaInvariant, TypeOK, OrderTypeOK, RowsConsistent, SidesAgree

\* The commands are commands, and commit the row they are built from.
LEMMA CommandsAreTyped ==
  ASSUME NEW o \in Order, NEW s \in Row
  PROVE  /\ ReservationCommand(o, s) \in Command /\ ReservationCommand(o, s).order = o
         /\ FinalizationCommand(o, s) \in Command /\ FinalizationCommand(o, s).order = o
         /\ ReleaseCommand(o, s) \in Command /\ ReleaseCommand(o, s).order = o
         /\ CommandCommits(ReservationCommand(o, s), s)
         /\ Confirming(s) => CommandCommits(FinalizationCommand(o, s), s)
         /\ Releasing(s) => CommandCommits(ReleaseCommand(o, s), s)
<1>1. /\ ReservationCommand(o, s) \in Command
      /\ FinalizationCommand(o, s) \in Command
      /\ ReleaseCommand(o, s) \in Command
  BY DEF Row, Command, CommandTypes, ReservationCommand, FinalizationCommand, ReleaseCommand, NoId
<1>2. /\ ReservationCommand(o, s).order = o
      /\ FinalizationCommand(o, s).order = o
      /\ ReleaseCommand(o, s).order = o
      /\ ReservationCommand(o, s).type = "StockReservationRequested"
      /\ FinalizationCommand(o, s).type = "StockFinalizationRequested"
      /\ ReleaseCommand(o, s).type = "StockReleaseRequested"
  BY DEF ReservationCommand, FinalizationCommand, ReleaseCommand
<1> QED
  BY <1>1, <1>2 DEF CommandCommits

\* Creating, confirming, rejecting and cancelling an order keep the invariant
\* (order_creation.py, order_actions.py).
LEMMA UserKeeps ==
  ASSUME SagaInvariant, NEW o \in Order, UserStep(o), UNCHANGED supplierVars
  PROVE  OrderKept
<1> DEFINE r == orders[o]
<1>1. r \in Row /\ RowConsistent(r) /\ BusinessFits(r, reservations[o].status)
  BY RowFacts
<1>2. CASE CreateOrder(o)
  <2> DEFINE s == Bumped([Absent EXCEPT !.business = "PENDING_RESERVATION",
                                        !.reservation = "REQUESTED"])
  <2>1. r.business = "NOT_CREATED" /\ Write(o, s) /\ Send(ReservationCommand(o, s))
    BY <1>2 DEF CreateOrder
  <2>2. RowStep(r, s) /\ s.business = "PENDING_RESERVATION"
    BY <1>1, <2>1, CreateRow
  <2> HIDE DEF s
  <2>3. BusinessFits(s, reservations[o].status)
    BY <2>2 DEF BusinessFits
  <2>4. \A c \in commands' \ commands : c \in Command /\ c.order = o /\ CommandCommits(c, s)
    BY <2>1, <2>2, CommandsAreTyped DEF Send, RowStep
  <2> QED
    BY <1>2, <2>1, <2>2, <2>3, <2>4, OrderWrites DEF CreateOrder
<1>3. CASE ConfirmOrder(o)
  <2> DEFINE s == [Bumped(r) EXCEPT !.operation = "CONFIRMATION_PENDING",
                                    !.finalization_id = r.version + 1,
                                    !.finalization_attempts = 1,
                                    !.failure_phase = "NONE", !.failure_reason = NoReason]
  <2>1. MayDecide(r) /\ Write(o, s) /\ Send(FinalizationCommand(o, s))
    BY <1>3 DEF ConfirmOrder
  <2>2. RowStep(r, s) /\ Confirming(s) /\ s.business = r.business
    BY <1>1, <2>1, ConfirmRow
  <2> HIDE DEF s
  <2>3. BusinessFits(s, reservations[o].status)
    BY <1>1, <2>2 DEF BusinessFits
  <2>4. \A c \in commands' \ commands : c \in Command /\ c.order = o /\ CommandCommits(c, s)
    BY <2>1, <2>2, CommandsAreTyped DEF Send, RowStep
  <2> QED
    BY <1>3, <2>1, <2>2, <2>3, <2>4, OrderWrites DEF ConfirmOrder
<1>4. CASE RejectOrder(o)
  <2> DEFINE s == [ReleaseRequested(r, "REJECTION_PENDING", "REJECTED")
                     EXCEPT !.rejection_reason = "SUPPLIER_REJECTED"]
  <2>1. MayDecide(r) /\ Write(o, s) /\ Send(ReleaseCommand(o, s))
    BY <1>4 DEF RejectOrder
  <2>2. RowStep(r, s) /\ Releasing(s) /\ s.business = r.business
    BY <1>1, <2>1, RejectRow
  <2> HIDE DEF s
  <2>3. BusinessFits(s, reservations[o].status)
    BY <1>1, <2>2 DEF BusinessFits
  <2>4. \A c \in commands' \ commands : c \in Command /\ c.order = o /\ CommandCommits(c, s)
    BY <2>1, <2>2, CommandsAreTyped DEF Send, RowStep
  <2> QED
    BY <1>4, <2>1, <2>2, <2>3, <2>4, OrderWrites DEF RejectOrder
<1>5. CASE CancelOrder(o)
  <2> DEFINE s == ReleaseRequested(r, "CANCELLATION_PENDING", "CANCELLED")
  <2>1. MayCancel(r) /\ Write(o, s) /\ Send(ReleaseCommand(o, s))
    BY <1>5 DEF CancelOrder
  <2>2. RowStep(r, s) /\ Releasing(s) /\ s.business = r.business
    BY <1>1, <2>1, ReleaseRow
  <2> HIDE DEF s
  <2>3. BusinessFits(s, reservations[o].status)
    BY <1>1, <2>2 DEF BusinessFits
  <2>4. \A c \in commands' \ commands : c \in Command /\ c.order = o /\ CommandCommits(c, s)
    BY <2>1, <2>2, CommandsAreTyped DEF Send, RowStep
  <2> QED
    BY <1>5, <2>1, <2>2, <2>3, <2>4, OrderWrites DEF CancelOrder
<1> QED
  BY <1>2, <1>3, <1>4, <1>5 DEF UserStep

\* The timeout worker keeps the invariant (operation_timeout.py).
LEMMA WorkerKeeps ==
  ASSUME SagaInvariant, NEW o \in Order, WorkerStep(o), UNCHANGED supplierVars
  PROVE  OrderKept
<1> DEFINE r == orders[o]
<1>1. r \in Row /\ RowConsistent(r) /\ BusinessFits(r, reservations[o].status)
  BY RowFacts
<1>2. CASE RetryOperation(o)
  <2> DEFINE s == IF r.operation = "CONFIRMATION_PENDING"
                  THEN [Bumped(r) EXCEPT !.finalization_attempts = @ + 1]
                  ELSE [Bumped(r) EXCEPT !.release_attempts = @ + 1]
  <2>1. /\ WorkerSelects(r) /\ Write(o, s)
        /\ Send(IF r.operation = "CONFIRMATION_PENDING" THEN FinalizationCommand(o, s)
                                                         ELSE ReleaseCommand(o, s))
    BY <1>2 DEF RetryOperation
  <2>2. RowStep(r, s) /\ SameState(r, s)
    BY <1>1, <2>1, RetryRow
  <2> HIDE DEF s
  <2>3. BusinessFits(s, reservations[o].status)
    BY <1>1, <2>2 DEF BusinessFits, SameState
  <2>4. IF r.operation = "CONFIRMATION_PENDING" THEN Confirming(s) ELSE Releasing(s)
    BY <2>1, <2>2 DEF WorkerSelects, OperationPending, SameState, Confirming, Releasing
  <2>5. \A c \in commands' \ commands : c \in Command /\ c.order = o /\ CommandCommits(c, s)
    BY <2>1, <2>2, <2>4, CommandsAreTyped DEF Send, RowStep
  <2> QED
    BY <1>2, <2>1, <2>2, <2>3, <2>5, OrderWrites DEF RetryOperation
<1>3. CASE ExhaustOperation(o)
  <2>1. RowStep(r, Exhausted(r)) /\ Exhausted(r).business = r.business
    BY <1>1, <1>3, ExhaustRow DEF ExhaustOperation
  <2>2. BusinessFits(Exhausted(r), reservations[o].status)
    BY <1>1, <2>1 DEF BusinessFits
  <2> QED
    BY <1>3, <2>1, <2>2, OrderWrites DEF ExhaustOperation, channelVars
<1> QED
  BY <1>2, <1>3 DEF WorkerStep

\* What each disposition says of the row and the event.
LEMMA DispositionMeans ==
  ASSUME NEW r, NEW e
  PROVE  /\ Disposition(r, e) = "TRANSITION" => CanTransition(r)
         /\ Disposition(r, e) = "LATE" => CancellationActive(r)
         /\ Disposition(r, e) = "LIFECYCLE" => r.operation = ExpectedOperation(r, e)
BY DEF Disposition

\* Every way of handling a stock event keeps the invariant
\* (stock_result.py).
LEMMA ResultKeeps ==
  ASSUME SagaInvariant, NEW e \in events, ResultStep(e), UNCHANGED supplierVars
  PROVE  OrderKept
<1> DEFINE o == e.order
           r == orders[o]
           status == reservations[o].status
<1>1. e \in Event /\ o \in Order /\ e.reservation_id \in Nat
  BY DEF SagaInvariant, TypeOK, ChannelTypeOK, Event
<1>2. r \in Row /\ RowConsistent(r) /\ BusinessFits(r, status)
  BY <1>1, RowFacts
<1>3. EventHolds(e, status, r)
  BY DEF SagaInvariant, EventsHold
<1> HIDE DEF o
<1>4. CASE ReservationSucceeded(e)
  <2> DEFINE s == [Bumped(Settled(r)) EXCEPT
                     !.business = "RESERVED", !.reservation = "RESERVED",
                     !.reservation_id = e.reservation_id, !.rejection_reason = NoReason]
  <2>1. /\ CanTransition(r) /\ Write(o, s) /\ UNCHANGED commands
        /\ e.type = "StockReservationSucceeded"
    BY <1>4, DispositionMeans DEF ReservationSucceeded, Handle, o
  <2>2. RowStep(r, s) /\ s.business = "RESERVED"
    BY <1>1, <1>2, <2>1, SucceededRow
  <2> HIDE DEF s
  <2>3. BusinessFits(s, status)
    BY <1>3, <2>1, <2>2 DEF BusinessFits, EventHolds
  <2> QED
    BY <1>1, <1>4, <2>1, <2>2, <2>3, OrderWrites DEF ReservationSucceeded, Handle, Claim
<1>5. CASE ReservationFailed(e)
  <2> DEFINE s == [Bumped(Settled(r)) EXCEPT
                     !.business = "REJECTED", !.reservation = "NOT_RESERVED",
                     !.reservation_id = NoId, !.rejection_reason = e.reason]
  <2>1. /\ CanTransition(r) /\ Write(o, s) /\ UNCHANGED commands
        /\ e.type = "StockReservationFailed"
    BY <1>5, DispositionMeans DEF ReservationFailed, Handle, o
  <2>2. e.reason \in ReservationRefusals /\ status = "REJECTED"
    BY <1>3, <2>1 DEF EventHolds
  <2>3. RowStep(r, s) /\ s.business = "REJECTED"
    BY <1>2, <2>1, <2>2, FailedRow
  <2> HIDE DEF s
  <2>4. BusinessFits(s, status)
    BY <2>2, <2>3 DEF BusinessFits
  <2> QED
    BY <1>1, <1>5, <2>1, <2>3, <2>4, OrderWrites DEF ReservationFailed, Handle, Claim
<1>6. CASE CancelledWithoutReservation(e)
  <2> DEFINE s == [Bumped(Settled(r)) EXCEPT
                     !.business = "CANCELLED", !.reservation = "RELEASED"]
  <2>1. CancellationActive(r) /\ Write(o, s) /\ UNCHANGED commands
    BY <1>6, DispositionMeans DEF CancelledWithoutReservation, Handle, o
  <2>2. RowStep(r, s) /\ s.business = "CANCELLED"
    BY <1>2, <2>1, CancelledRow
  <2> HIDE DEF s
  <2>3. BusinessFits(s, status)
    BY <2>2 DEF BusinessFits
  <2> QED
    BY <1>1, <1>6, <2>1, <2>2, <2>3, OrderWrites DEF CancelledWithoutReservation, Handle, Claim
<1>7. CASE CompensateLateSuccess(e)
  <2> DEFINE s == Compensated(r, e.reservation_id)
  <2>1. CancellationActive(r) /\ Write(o, s) /\ Send(ReleaseCommand(o, s))
    BY <1>7, DispositionMeans DEF CompensateLateSuccess, Handle, o
  <2>2. RowStep(r, s) /\ s.business = r.business /\ Releasing(s)
    BY <1>1, <1>2, <2>1, CompensatedRow
  <2> HIDE DEF s
  <2>3. BusinessFits(s, status)
    BY <1>2, <2>2 DEF BusinessFits
  <2>4. \A c \in commands' \ commands : c \in Command /\ c.order = o /\ CommandCommits(c, s)
    BY <1>1, <2>1, <2>2, CommandsAreTyped DEF Send, RowStep
  <2> QED
    BY <1>1, <1>7, <2>1, <2>2, <2>3, <2>4, OrderWrites DEF CompensateLateSuccess, Handle, Claim
<1>8. CASE Finalized(e)
  <2> DEFINE s == [Bumped(Settled(r)) EXCEPT !.business = "CONFIRMED"]
  <2>1. /\ r.operation = ExpectedOperation(r, e) /\ Write(o, s) /\ UNCHANGED commands
        /\ e.type = "StockFinalized"
    BY <1>8, DispositionMeans DEF Finalized, Handle, o
  <2>2. ConfirmationOpen(r)
    BY <1>1, <1>2, <2>1, ExpectedIsOpen DEF FinalizationEvents
  <2>3. RowStep(r, s) /\ s.business = "CONFIRMED"
    BY <1>2, <2>2, FinalizedRow
  <2> HIDE DEF s
  <2>4. BusinessFits(s, status)
    BY <1>3, <2>1, <2>3 DEF BusinessFits, EventHolds
  <2> QED
    BY <1>1, <1>8, <2>1, <2>3, <2>4, OrderWrites DEF Finalized, Handle, Claim
<1>9. CASE Released(e)
  <2> DEFINE s == [Bumped(Settled(r)) EXCEPT
                     !.business = ReleaseOutcome(r), !.reservation = "RELEASED"]
  <2>1. /\ r.operation = ExpectedOperation(r, e) /\ Write(o, s) /\ UNCHANGED commands
        /\ e.type = "StockReleased"
    BY <1>9, DispositionMeans DEF Released, Handle, o
  <2>2. ReleaseOpen(r)
    BY <1>1, <1>2, <2>1, ExpectedIsOpen DEF ReleaseEvents
  <2>3. RowStep(r, s) /\ s.business = r.target
    BY <1>2, <2>2, ReleasedRow
  <2> HIDE DEF s
  <2>4. CancellationActive(r) => r.target # "REJECTED"
    BY <1>2, <2>2 DEF CancellationActive, RowConsistent, ReleaseOpen
  <2>5. BusinessFits(s, status)
    BY <1>3, <2>1, <2>2, <2>3, <2>4 DEF BusinessFits, EventHolds, ReleaseOpen
  <2> QED
    BY <1>1, <1>9, <2>1, <2>3, <2>5, OrderWrites DEF Released, Handle, Claim
<1>10. CASE FinalizationFailed(e)
  <2> DEFINE s == [Bumped(r) EXCEPT !.operation = "FAILED", !.failure_phase = "CONFIRMATION",
                                    !.failure_reason = e.reason]
  <2>1. /\ r.operation = ExpectedOperation(r, e) /\ Write(o, s) /\ UNCHANGED commands
        /\ e.type = "StockFinalizationFailed"
    BY <1>10, DispositionMeans DEF FinalizationFailed, Handle, o
  <2>2. ConfirmationOpen(r) /\ e.reason \in LifecycleRefusals
    BY <1>1, <1>2, <1>3, <2>1, ExpectedIsOpen DEF FinalizationEvents, EventHolds
  <2>3. RowStep(r, s) /\ s.business = r.business
    BY <1>2, <2>2, FinalizationFailedRow
  <2> HIDE DEF s
  <2>4. BusinessFits(s, status)
    BY <1>2, <2>3 DEF BusinessFits
  <2> QED
    BY <1>1, <1>10, <2>1, <2>3, <2>4, OrderWrites DEF FinalizationFailed, Handle, Claim
<1>11. CASE ReleaseFailed(e)
  <2> DEFINE s == [Bumped(r) EXCEPT !.operation = "FAILED", !.failure_phase = "RELEASE",
                                    !.failure_reason = e.reason, !.reservation = "UNKNOWN"]
  <2>1. /\ r.operation = ExpectedOperation(r, e) /\ Write(o, s) /\ UNCHANGED commands
        /\ e.type = "StockReleaseFailed"
    BY <1>11, DispositionMeans DEF ReleaseFailed, Handle, o
  <2>2. ReleaseOpen(r) /\ e.reason \in LifecycleRefusals
    BY <1>1, <1>2, <1>3, <2>1, ExpectedIsOpen DEF ReleaseEvents, EventHolds
  <2>3. RowStep(r, s) /\ s.business = r.business
    BY <1>2, <2>2, ReleaseFailedRow
  <2> HIDE DEF s
  <2>4. BusinessFits(s, status)
    BY <1>2, <2>3 DEF BusinessFits
  <2> QED
    BY <1>1, <1>11, <2>1, <2>3, <2>4, OrderWrites DEF ReleaseFailed, Handle, Claim
<1>12. RowStep(r, r) /\ (UNCHANGED orders => Write(o, r))
  <2>1. r \in Row /\ RowConsistent(r)
    BY <1>1, <1>2, RowFacts
  <2>2. UNCHANGED orders => Write(o, r)
    BY <1>1, <1>2 DEF Write, SagaInvariant, TypeOK, OrderTypeOK
  <2> QED
    BY <2>1, <2>2, SelfStep
<1>13. CASE IgnoreResult(e)
  BY <1>1, <1>2, <1>12, <1>13, OrderWrites DEF IgnoreResult, Handle, Claim
<1>14. CASE DeadLetterResult(e)
  BY <1>1, <1>2, <1>12, <1>14, OrderWrites DEF DeadLetterResult, channelVars
<1> QED
  BY <1>4, <1>5, <1>6, <1>7, <1>8, <1>9, <1>10, <1>11, <1>13, <1>14 DEF ResultStep

-----------------------------------------------------------------------------
(* Transactions of supplier-service *)

\* The status of a reservation moves forward.
StatusStep(a, b) ==
  \/ b = a
  \/ a = "NONE" /\ b \in {"RESERVED", "REJECTED"}
  \/ a = "RESERVED" /\ b \in {"FINALIZED", "RELEASED"}

\* What an event reports, and what an order became of it, survives the step.
LEMMA StatusStepKeeps ==
  ASSUME NEW a, NEW b, StatusStep(a, b)
  PROVE  /\ \A r : BusinessFits(r, a) => BusinessFits(r, b)
         /\ \A e, r : EventHolds(e, a, r) => EventHolds(e, b, r)
BY DEF StatusStep, BusinessFits, EventHolds

\* A transaction that moves at most one reservation, to where its order is
\* committed, and reports what is true afterwards keeps the invariant.
LEMMA SupplierWrites ==
  ASSUME SagaInvariant, UNCHANGED <<orderVars, commands, abandoned>>,
         SupplierTypeOK', HoldsWholeOrder', NeverOversold',
         \A x \in Order :
           LET status == reservations'[x].status
           IN  /\ StatusStep(reservations[x].status, status)
               /\ status = "FINALIZED" => Confirming(orders[x])
               /\ status = "RELEASED" => Releasing(orders[x]),
         \A e \in events' \ events :
           e \in Event /\ EventHolds(e, reservations'[e.order].status, orders[e.order])
  PROVE  SagaInvariant'
<1> USE DEF SagaInvariant
<1>1. UNCHANGED <<orders, orderInbox, orderDlq>>
  BY DEF orderVars
<1>2. TypeOK'
  BY <1>1 DEF TypeOK, ChannelTypeOK, OrderTypeOK
<1>3. RowsConsistent' /\ CommandsCommit'
  BY <1>1 DEF RowsConsistent, CommandsCommit
<1>4. EventsHold'
  <2> SUFFICES ASSUME NEW e \in events'
               PROVE  EventHolds(e, reservations'[e.order].status, orders[e.order])
    BY <1>1 DEF EventsHold
  <2>1. CASE e \in events
    <3>1. e.order \in Order
      BY <2>1 DEF TypeOK, ChannelTypeOK, Event
    <3>2. EventHolds(e, reservations[e.order].status, orders[e.order])
      BY <2>1 DEF EventsHold
    <3> QED
      BY <3>1, <3>2, StatusStepKeeps
  <2>2. CASE e \notin events
    BY <2>2
  <2> QED
    BY <2>1, <2>2
<1>5. SidesAgree'
  <2> SUFFICES ASSUME NEW x \in Order
               PROVE  /\ BusinessFits(orders[x], reservations'[x].status)
                      /\ reservations'[x].status = "FINALIZED" => Confirming(orders[x])
                      /\ reservations'[x].status = "RELEASED" => Releasing(orders[x])
    BY <1>1 DEF SidesAgree
  <2> QED
    BY StatusStepKeeps DEF SidesAgree
<1> QED
  BY <1>2, <1>3, <1>4, <1>5

\* What every command step starts from.
LEMMA SupplierFacts ==
  ASSUME SagaInvariant, NEW c \in commands
  PROVE  /\ c \in Command /\ c.order \in Order /\ c.id \in Nat
         /\ c.reservation_id \in Nat /\ c.request_id \in Nat
         /\ CommandCommits(c, orders[c.order])
         /\ SupplierTypeOK
         /\ reservations[c.order].status \in ReservationStatus
         /\ reservations[c.order].id \in Nat
BY DEF SagaInvariant, TypeOK, ChannelTypeOK, Command, CommandsCommit, SupplierTypeOK, Reservation

\* Where the reservations stay as they are.
LEMMA SameStatus ==
  ASSUME SagaInvariant, UNCHANGED reservations
  PROVE  \A x \in Order :
           LET status == reservations'[x].status
           IN  /\ StatusStep(reservations[x].status, status)
               /\ status = "FINALIZED" => Confirming(orders[x])
               /\ status = "RELEASED" => Releasing(orders[x])
BY DEF SagaInvariant, SidesAgree, StatusStep

\* An order's reservation holds what it demands, and nothing of a product it
\* does not contain.
LEMMA HeldIsDemanded ==
  ASSUME SagaInvariant, NEW o \in Order
  PROVE  /\ held[o] \in [Product -> Nat]
         /\ \A p \in Product : Demand[o][p] \in Nat
         /\ \A p \in Product \ Items(o) : held[o][p] = 0 /\ Demand[o][p] = 0
<1>1. /\ held[o] \in [Product -> Nat]
      /\ \A p \in Product : Demand[o][p] \in Nat
      /\ \A p \in Product : held[o][p] = IF Active(o) THEN Demand[o][p] ELSE 0
  BY DemandAssumption DEF SagaInvariant, TypeOK, SupplierTypeOK, HoldsWholeOrder
<1>2. \A p \in Product \ Items(o) : Demand[o][p] = 0
  BY <1>1 DEF Items
<1> QED
  BY <1>1, <1>2

\* Reserving all items of an order keeps the invariant (reservation.py).
LEMMA ReserveKeeps ==
  ASSUME SagaInvariant, NEW c \in commands, ReserveStock(c), UNCHANGED orderVars
  PROVE  SagaInvariant'
<1> DEFINE o == c.order
           row(p) == [products[p] EXCEPT !.reserved = @ + Demand[o][p]]
<1>1. /\ o \in Order /\ c.id \in Nat /\ c.request_id \in Nat /\ c \in Command
      /\ SupplierTypeOK
  BY SupplierFacts
<1>2. /\ UNCHANGED <<commands, abandoned>>
      /\ supplierInbox' = supplierInbox \cup {c}
      /\ reservations[o].status = "NONE" /\ AllItemsAvailable(o)
      /\ products' = [p \in Product |-> row(p)]
      /\ reservations' = [reservations EXCEPT
           ![o] = [status |-> "RESERVED", id |-> c.id, finalization_id |-> NoId]]
      /\ held' = [held EXCEPT ![o] = Demand[o]]
      /\ Answer(c, "StockReservationSucceeded", c.id, NoReason)
  BY DEF ReserveStock, Accept
<1>3. \A p \in Product :
        /\ row(p) \in ProductRow
        /\ row(p).reserved = products[p].reserved + Demand[o][p]
        /\ row(p).stocks = products[p].stocks
  BY <1>1, HeldIsDemanded DEF SupplierTypeOK, ProductRow
<1>4. SupplierTypeOK'
  <2>1. products' \in [Product -> ProductRow]
    BY <1>2, <1>3
  <2>2. reservations' \in [Order -> Reservation]
    BY <1>1, <1>2 DEF SupplierTypeOK, Reservation, ReservationStatus, NoId
  <2>3. held' \in [Order -> [Product -> Nat]]
    BY <1>1, <1>2, DemandAssumption DEF SupplierTypeOK
  <2>4. supplierInbox' \subseteq Command
    BY <1>1, <1>2 DEF SupplierTypeOK
  <2> QED
    BY <2>1, <2>2, <2>3, <2>4 DEF SupplierTypeOK
<1>5. HoldsWholeOrder'
  BY <1>1, <1>2 DEF HoldsWholeOrder, Active, SagaInvariant, SupplierTypeOK
<1>6. NeverOversold'
  <2> SUFFICES ASSUME NEW p \in Product
               PROVE  row(p).reserved <= row(p).stocks
    BY <1>2 DEF NeverOversold
  <2>1. /\ products[p].reserved \in Nat /\ products[p].stocks \in Nat
        /\ products[p].reserved <= products[p].stocks
    BY <1>1 DEF SagaInvariant, NeverOversold, SupplierTypeOK, ProductRow
  <2>2. CASE p \in Items(o)
    <3>1. ~(Available(p) < Demand[o][p])
      BY <1>2, <2>2 DEF AllItemsAvailable, ItemRefusal, NoReason
    <3> QED
      BY <1>1, <1>3, <2>1, <3>1, HeldIsDemanded DEF Available
  <2>3. CASE p \notin Items(o)
    BY <1>1, <1>3, <2>1, <2>3, HeldIsDemanded
  <2> QED
    BY <2>2, <2>3
<1>7. \A x \in Order :
        LET status == reservations'[x].status
        IN  /\ StatusStep(reservations[x].status, status)
            /\ status = "FINALIZED" => Confirming(orders[x])
            /\ status = "RELEASED" => Releasing(orders[x])
  BY <1>1, <1>2 DEF StatusStep, SagaInvariant, SidesAgree, SupplierTypeOK
<1>8. \A e \in events' \ events :
        e \in Event /\ EventHolds(e, reservations'[e.order].status, orders[e.order])
  <2> DEFINE e == [type |-> "StockReservationSucceeded", order |-> o, cause |-> c.id,
                   reservation_id |-> c.id, request_id |-> c.request_id, reason |-> NoReason]
  <2>1. events' = events \cup {e}
    BY <1>2 DEF Answer
  <2>2. e \in Event
    BY <1>1 DEF Event, ReservationEvents
  <2>3. EventHolds(e, reservations'[e.order].status, orders[e.order])
    BY <1>1, <1>2 DEF EventHolds, SupplierTypeOK
  <2> QED
    BY <2>1, <2>2, <2>3
<1> QED
  BY <1>2, <1>4, <1>5, <1>6, <1>7, <1>8, SupplierWrites

\* Refusing a reservation keeps the invariant (reservation.py).
LEMMA RefuseKeeps ==
  ASSUME SagaInvariant, NEW c \in commands, RefuseReservation(c), UNCHANGED orderVars
  PROVE  SagaInvariant'
<1> DEFINE o == c.order
<1>1. /\ o \in Order /\ c.id \in Nat /\ c.request_id \in Nat /\ c \in Command
      /\ SupplierTypeOK
  BY SupplierFacts
<1>2. /\ UNCHANGED <<commands, abandoned, products, held>>
      /\ supplierInbox' = supplierInbox \cup {c}
      /\ reservations[o].status = "NONE"
      /\ reservations' = [reservations EXCEPT
           ![o] = [status |-> "REJECTED", id |-> c.id, finalization_id |-> NoId]]
  BY DEF RefuseReservation, Accept
<1>3. PICK reason \in Refusals(o) : Answer(c, "StockReservationFailed", NoId, reason)
  BY DEF RefuseReservation
<1>4. reason \in ReservationRefusals
  <2>1. reason \in {"RESERVATION_DEADLINE_EXPIRED", "SUPPLIER_MISMATCH",
                    "PRODUCT_UNAVAILABLE", "INSUFFICIENT_STOCK"}
    BY <1>3 DEF Refusals, ItemRefusal, NoReason
  <2> QED
    BY <2>1 DEF ReservationRefusals
<1>5. SupplierTypeOK'
  <2>1. reservations' \in [Order -> Reservation]
    BY <1>1, <1>2 DEF SupplierTypeOK, Reservation, ReservationStatus, NoId
  <2> QED
    BY <1>1, <1>2, <2>1 DEF SupplierTypeOK
<1>6. HoldsWholeOrder' /\ NeverOversold'
  BY <1>1, <1>2 DEF HoldsWholeOrder, NeverOversold, Active, SagaInvariant, SupplierTypeOK
<1>7. \A x \in Order :
        LET status == reservations'[x].status
        IN  /\ StatusStep(reservations[x].status, status)
            /\ status = "FINALIZED" => Confirming(orders[x])
            /\ status = "RELEASED" => Releasing(orders[x])
  BY <1>1, <1>2 DEF StatusStep, SagaInvariant, SidesAgree, SupplierTypeOK
<1>8. \A e \in events' \ events :
        e \in Event /\ EventHolds(e, reservations'[e.order].status, orders[e.order])
  <2> DEFINE e == [type |-> "StockReservationFailed", order |-> o, cause |-> c.id,
                   reservation_id |-> NoId, request_id |-> c.request_id, reason |-> reason]
  <2>1. events' = events \cup {e}
    BY <1>3 DEF Answer
  <2>2. e \in Event
    BY <1>1, <1>4 DEF Event, ReservationEvents, NoId
  <2>3. EventHolds(e, reservations'[e.order].status, orders[e.order])
    BY <1>1, <1>2, <1>4 DEF EventHolds, SupplierTypeOK
  <2> QED
    BY <2>1, <2>2, <2>3
<1> QED
  BY <1>2, <1>5, <1>6, <1>7, <1>8, SupplierWrites

\* Taking the reserved units out of the stock keeps the invariant
\* (stock_lifecycle.py).
LEMMA FinalizeKeeps ==
  ASSUME SagaInvariant, NEW c \in commands, FinalizeStock(c), UNCHANGED orderVars
  PROVE  SagaInvariant'
<1> DEFINE o == c.order
           row(p) == Deduct(products[p], held[o][p])
<1>1. /\ o \in Order /\ c.id \in Nat /\ c.request_id \in Nat /\ c \in Command
      /\ SupplierTypeOK /\ reservations[o].id \in Nat
      /\ CommandCommits(c, orders[o])
  BY SupplierFacts
<1>2. /\ UNCHANGED <<commands, abandoned>>
      /\ c.type = "StockFinalizationRequested"
      /\ supplierInbox' = supplierInbox \cup {c}
      /\ reservations[o].status = "RESERVED" /\ FinalizationRefusal(c) = NoReason
      /\ products' = [p \in Product |-> row(p)]
      /\ held' = [held EXCEPT ![o] = [p \in Product |-> 0]]
      /\ reservations' = [reservations EXCEPT
           ![o].status = "FINALIZED", ![o].finalization_id = c.request_id]
      /\ Answer(c, "StockFinalized", reservations[o].id, NoReason)
  BY DEF FinalizeStock, Accept, Active
<1>3. \A p \in Product : products[p].stocks >= held[o][p] /\ products[p].reserved >= held[o][p]
  <2>1. Deductible(o)
    BY <1>2 DEF FinalizationRefusal, NoReason
  <2>2. \A p \in Product : products[p].stocks \in Nat /\ products[p].reserved \in Nat
    BY <1>1 DEF SupplierTypeOK, ProductRow
  <2> QED
    BY <1>1, <2>1, <2>2, HeldIsDemanded DEF Deductible, ItemsIntact
<1>4. \A p \in Product :
        /\ row(p) \in ProductRow
        /\ row(p).reserved = products[p].reserved - held[o][p]
        /\ row(p).stocks = products[p].stocks - held[o][p]
  <2> SUFFICES ASSUME NEW p \in Product
               PROVE  /\ row(p) \in ProductRow
                      /\ row(p).reserved = products[p].reserved - held[o][p]
                      /\ row(p).stocks = products[p].stocks - held[o][p]
    OBVIOUS
  <2>1. products[p] \in ProductRow /\ held[o][p] \in Nat
    BY <1>1, HeldIsDemanded DEF SupplierTypeOK
  <2>2. products[p].reserved - held[o][p] \in Nat /\ products[p].stocks - held[o][p] \in Nat
    BY <1>3, <2>1 DEF ProductRow
  <2> QED
    BY <2>1, <2>2 DEF ProductRow, Deduct
<1>5. /\ reservations' \in [Order -> Reservation]
      /\ reservations'[o].status = "FINALIZED"
      /\ \A x \in Order \ {o} : reservations'[x] = reservations[x]
  BY <1>1, <1>2 DEF SupplierTypeOK, Reservation, ReservationStatus
<1>6. SupplierTypeOK'
  <2>1. products' \in [Product -> ProductRow]
    BY <1>2, <1>4
  <2>2. held' \in [Order -> [Product -> Nat]]
    BY <1>1, <1>2 DEF SupplierTypeOK
  <2> QED
    BY <1>1, <1>2, <1>5, <2>1, <2>2 DEF SupplierTypeOK
<1>7. HoldsWholeOrder'
  BY <1>1, <1>2, <1>5 DEF HoldsWholeOrder, Active, SagaInvariant, SupplierTypeOK
<1>8. NeverOversold'
  <2> SUFFICES ASSUME NEW p \in Product
               PROVE  row(p).reserved <= row(p).stocks
    BY <1>2 DEF NeverOversold
  <2>1. /\ products[p].reserved \in Nat /\ products[p].stocks \in Nat /\ held[o][p] \in Nat
        /\ products[p].reserved <= products[p].stocks
    BY <1>1, HeldIsDemanded DEF SagaInvariant, NeverOversold, SupplierTypeOK, ProductRow
  <2> QED
    BY <1>4, <2>1
<1>9. \A x \in Order :
        LET status == reservations'[x].status
        IN  /\ StatusStep(reservations[x].status, status)
            /\ status = "FINALIZED" => Confirming(orders[x])
            /\ status = "RELEASED" => Releasing(orders[x])
  BY <1>1, <1>2, <1>5 DEF StatusStep, SagaInvariant, SidesAgree, CommandCommits
<1>10. \A e \in events' \ events :
        e \in Event /\ EventHolds(e, reservations'[e.order].status, orders[e.order])
  <2> DEFINE e == [type |-> "StockFinalized", order |-> o, cause |-> c.id,
                   reservation_id |-> reservations[o].id, request_id |-> c.request_id,
                   reason |-> NoReason]
  <2>1. events' = events \cup {e}
    BY <1>2 DEF Answer
  <2>2. e \in Event
    BY <1>1 DEF Event, LifecycleEvents, FinalizationEvents
  <2>3. EventHolds(e, reservations'[e.order].status, orders[e.order])
    BY <1>5 DEF EventHolds
  <2> QED
    BY <2>1, <2>2, <2>3
<1> QED
  BY <1>2, <1>6, <1>7, <1>8, <1>9, <1>10, SupplierWrites

\* Giving the reserved units back keeps the invariant (stock_lifecycle.py).
LEMMA ReleaseKeeps ==
  ASSUME SagaInvariant, NEW c \in commands, ReleaseStock(c), UNCHANGED orderVars
  PROVE  SagaInvariant'
<1> DEFINE o == c.order
           row(p) == [products[p] EXCEPT !.reserved = @ - held[o][p]]
<1>1. /\ o \in Order /\ c.id \in Nat /\ c.request_id \in Nat /\ c \in Command
      /\ SupplierTypeOK /\ reservations[o].id \in Nat
      /\ CommandCommits(c, orders[o])
  BY SupplierFacts
<1>2. /\ UNCHANGED <<commands, abandoned>>
      /\ c.type = "StockReleaseRequested"
      /\ supplierInbox' = supplierInbox \cup {c}
      /\ reservations[o].status = "RESERVED" /\ ReleaseRefusal(c) = NoReason
      /\ products' = [p \in Product |-> row(p)]
      /\ held' = [held EXCEPT ![o] = [p \in Product |-> 0]]
      /\ reservations' = [reservations EXCEPT ![o].status = "RELEASED"]
      /\ Answer(c, "StockReleased", reservations[o].id, NoReason)
  BY DEF ReleaseStock, Accept, Active
<1>3. \A p \in Product : products[p].reserved >= held[o][p]
  <2>1. ItemsIntact(o)
    BY <1>2 DEF ReleaseRefusal, NoReason
  <2>2. \A p \in Product : products[p].reserved \in Nat
    BY <1>1 DEF SupplierTypeOK, ProductRow
  <2> QED
    BY <1>1, <2>1, <2>2, HeldIsDemanded DEF ItemsIntact
<1>4. \A p \in Product :
        /\ row(p) \in ProductRow
        /\ row(p).reserved = products[p].reserved - held[o][p]
        /\ row(p).stocks = products[p].stocks
  <2> SUFFICES ASSUME NEW p \in Product
               PROVE  /\ row(p) \in ProductRow
                      /\ row(p).reserved = products[p].reserved - held[o][p]
                      /\ row(p).stocks = products[p].stocks
    OBVIOUS
  <2>1. products[p] \in ProductRow /\ held[o][p] \in Nat
    BY <1>1, HeldIsDemanded DEF SupplierTypeOK
  <2>2. products[p].reserved - held[o][p] \in Nat
    BY <1>3, <2>1 DEF ProductRow
  <2> QED
    BY <2>1, <2>2 DEF ProductRow
<1>5. /\ reservations' \in [Order -> Reservation]
      /\ reservations'[o].status = "RELEASED"
      /\ \A x \in Order \ {o} : reservations'[x] = reservations[x]
  BY <1>1, <1>2 DEF SupplierTypeOK, Reservation, ReservationStatus
<1>6. SupplierTypeOK'
  <2>1. products' \in [Product -> ProductRow]
    BY <1>2, <1>4
  <2>2. held' \in [Order -> [Product -> Nat]]
    BY <1>1, <1>2 DEF SupplierTypeOK
  <2> QED
    BY <1>1, <1>2, <1>5, <2>1, <2>2 DEF SupplierTypeOK
<1>7. HoldsWholeOrder'
  BY <1>1, <1>2, <1>5 DEF HoldsWholeOrder, Active, SagaInvariant, SupplierTypeOK
<1>8. NeverOversold'
  <2> SUFFICES ASSUME NEW p \in Product
               PROVE  row(p).reserved <= row(p).stocks
    BY <1>2 DEF NeverOversold
  <2>1. /\ products[p].reserved \in Nat /\ products[p].stocks \in Nat /\ held[o][p] \in Nat
        /\ products[p].reserved <= products[p].stocks
    BY <1>1, HeldIsDemanded DEF SagaInvariant, NeverOversold, SupplierTypeOK, ProductRow
  <2> QED
    BY <1>4, <2>1
<1>9. \A x \in Order :
        LET status == reservations'[x].status
        IN  /\ StatusStep(reservations[x].status, status)
            /\ status = "FINALIZED" => Confirming(orders[x])
            /\ status = "RELEASED" => Releasing(orders[x])
  BY <1>1, <1>2, <1>5 DEF StatusStep, SagaInvariant, SidesAgree, CommandCommits
<1>10. \A e \in events' \ events :
        e \in Event /\ EventHolds(e, reservations'[e.order].status, orders[e.order])
  <2> DEFINE e == [type |-> "StockReleased", order |-> o, cause |-> c.id,
                   reservation_id |-> reservations[o].id, request_id |-> c.request_id,
                   reason |-> NoReason]
  <2>1. events' = events \cup {e}
    BY <1>2 DEF Answer
  <2>2. e \in Event
    BY <1>1 DEF Event, LifecycleEvents, ReleaseEvents
  <2>3. EventHolds(e, reservations'[e.order].status, orders[e.order])
    BY <1>5 DEF EventHolds
  <2> QED
    BY <2>1, <2>2, <2>3
<1> QED
  BY <1>2, <1>6, <1>7, <1>8, <1>9, <1>10, SupplierWrites

\* A truthful answer that moves no stock keeps the invariant.
LEMMA AnswerKeeps ==
  ASSUME SagaInvariant, NEW c \in commands, UNCHANGED <<orderVars, stockVars, commands, abandoned>>,
         supplierInbox' = supplierInbox \cup {c},
         NEW type \in LifecycleEvents, NEW reason \in {NoReason} \cup LifecycleRefusals,
         Answer(c, type, AnsweredId(c), reason),
         \A e : /\ e.type = type /\ e.reason = reason
               => EventHolds(e, reservations[c.order].status, orders[c.order])
  PROVE  SagaInvariant'
<1> DEFINE e == [type |-> type, order |-> c.order, cause |-> c.id,
                 reservation_id |-> AnsweredId(c), request_id |-> c.request_id,
                 reason |-> reason]
<1>1. /\ c.order \in Order /\ c.id \in Nat /\ c.request_id \in Nat /\ c \in Command
      /\ c.reservation_id \in Nat /\ reservations[c.order].id \in Nat
      /\ SupplierTypeOK
  BY SupplierFacts
<1>2. events' = events \cup {e}
  BY DEF Answer
<1>3. e \in Event
  BY <1>1 DEF Event, AnsweredId
<1>4. EventHolds(e, reservations[c.order].status, orders[c.order])
  OBVIOUS
<1>5. UNCHANGED <<products, reservations, held>>
  BY DEF stockVars
<1>6. SupplierTypeOK' /\ HoldsWholeOrder' /\ NeverOversold'
  BY <1>1, <1>5 DEF SagaInvariant, SupplierTypeOK, HoldsWholeOrder, NeverOversold, Active
<1>7. \A d \in events' \ events :
        d \in Event /\ EventHolds(d, reservations'[d.order].status, orders[d.order])
  BY <1>2, <1>3, <1>4, <1>5
<1> QED
  BY <1>5, <1>6, <1>7, SameStatus, SupplierWrites

\* A finalization is answered StockFinalized without a deduction only when
\* the stock was deducted before.
LEMMA AnswerFinalizationKeeps ==
  ASSUME SagaInvariant, NEW c \in commands, AnswerFinalization(c), UNCHANGED orderVars
  PROVE  SagaInvariant'
<1> DEFINE reason == FinalizationRefusal(c)
           type == IF reason = NoReason THEN "StockFinalized" ELSE "StockFinalizationFailed"
<1>1. /\ UNCHANGED <<orderVars, stockVars, commands, abandoned>>
      /\ supplierInbox' = supplierInbox \cup {c}
      /\ Answer(c, type, AnsweredId(c), reason)
      /\ Active(c.order) => reason # NoReason
  BY DEF AnswerFinalization, Accept
<1>2. /\ reason \in {NoReason} \cup LifecycleRefusals
      /\ reason = NoReason => reservations[c.order].status = "FINALIZED"
  BY <1>1, SupplierFacts DEF FinalizationRefusal, LifecycleRefusals, NoReason, Active
<1>3. type \in LifecycleEvents
  BY DEF LifecycleEvents, FinalizationEvents
<1>4. \A e : e.type = type /\ e.reason = reason
        => EventHolds(e, reservations[c.order].status, orders[c.order])
  BY <1>2 DEF EventHolds
<1> HIDE DEF reason, type
<1> QED
  BY <1>1, <1>2, <1>3, <1>4, AnswerKeeps

\* A release is answered StockReleased without a reservation only when its
\* order is being cancelled.
LEMMA AnswerReleaseKeeps ==
  ASSUME SagaInvariant, NEW c \in commands, AnswerRelease(c), UNCHANGED orderVars
  PROVE  SagaInvariant'
<1> DEFINE reason == ReleaseRefusal(c)
           type == IF reason = NoReason THEN "StockReleased" ELSE "StockReleaseFailed"
           status == reservations[c.order].status
<1>1. /\ UNCHANGED <<orderVars, stockVars, commands, abandoned>>
      /\ supplierInbox' = supplierInbox \cup {c}
      /\ Answer(c, type, AnsweredId(c), reason)
      /\ Active(c.order) => reason # NoReason
      /\ c.type = "StockReleaseRequested"
  BY DEF AnswerRelease, Accept
<1>2. /\ reason \in {NoReason} \cup LifecycleRefusals
      /\ reason = NoReason => status \in {"NONE", "RELEASED", "REJECTED"}
  BY <1>1, SupplierFacts DEF ReleaseRefusal, LifecycleRefusals, NoReason, Active, ReservationStatus
<1>3. type \in LifecycleEvents
  BY DEF LifecycleEvents, ReleaseEvents
<1>4. status = "NONE" => CancellationActive(orders[c.order])
  <2>1. /\ Releasing(orders[c.order]) /\ RowConsistent(orders[c.order])
        /\ BusinessFits(orders[c.order], status) /\ orders[c.order] \in Row
    BY <1>1, SupplierFacts, RowFacts DEF CommandCommits
  <2> QED
    BY <2>1 DEF Releasing, RowConsistent, BusinessFits, CancellationActive, ReleasePending, Row
<1>5. \A e : e.type = type /\ e.reason = reason
        => EventHolds(e, status, orders[c.order])
  BY <1>2, <1>4 DEF EventHolds
<1> HIDE DEF reason, type
<1> QED
  BY <1>1, <1>2, <1>3, <1>5, AnswerKeeps

\* Edits and recounts of a product keep the invariant (main.py).
LEMMA EditKeeps ==
  ASSUME SagaInvariant, NEW p \in Product, EditProduct(p) \/ RecalculateStocks(p),
         UNCHANGED orderVars
  PROVE  SagaInvariant'
<1>1. SupplierTypeOK /\ \A q \in Product : products[q] \in ProductRow
  BY DEF SagaInvariant, TypeOK, SupplierTypeOK
<1>2. UNCHANGED <<reservations, held, supplierInbox, commands, events, abandoned>>
  BY DEF EditProduct, RecalculateStocks, channelVars
<1>3. PICK row \in ProductRow :
        /\ products' = [products EXCEPT ![p] = row]
        /\ row.reserved = products[p].reserved
        /\ row.reserved <= row.stocks
  <2>1. products[p].reserved <= products[p].stocks
    BY DEF SagaInvariant, NeverOversold
  <2>2. CASE EditProduct(p)
    <3>1. PICK l \in Listings :
            products' = [products EXCEPT ![p].active = l.active, ![p].owned = l.owned]
      BY <2>2 DEF EditProduct
    <3>2. l.active \in BOOLEAN /\ l.owned \in BOOLEAN
      BY StockAssumption
    <3> DEFINE row == [products[p] EXCEPT !.active = l.active, !.owned = l.owned]
    <3>3. /\ row \in ProductRow /\ row.reserved = products[p].reserved
          /\ row.stocks = products[p].stocks
      BY <1>1, <3>2 DEF ProductRow
    <3>4. products' = [products EXCEPT ![p] = row]
      BY <1>1, <3>1 DEF SupplierTypeOK, ProductRow
    <3> QED
      BY <2>1, <3>3, <3>4
  <2>3. CASE RecalculateStocks(p)
    <3>1. PICK total \in Totals : /\ total >= products[p].reserved
                                 /\ products' = [products EXCEPT ![p].stocks = total]
      BY <2>3 DEF RecalculateStocks
    <3> DEFINE row == [products[p] EXCEPT !.stocks = total]
    <3>2. /\ row \in ProductRow /\ row.reserved = products[p].reserved /\ row.stocks = total
          /\ total \in Nat
      BY <1>1, StockAssumption DEF ProductRow
    <3>3. products' = [products EXCEPT ![p] = row]
      BY <1>1, <3>1 DEF SupplierTypeOK, ProductRow
    <3> QED
      BY <1>1, <3>1, <3>2, <3>3 DEF ProductRow
  <2> QED
    BY <2>2, <2>3
<1>4. SupplierTypeOK' /\ HoldsWholeOrder' /\ NeverOversold'
  BY <1>1, <1>2, <1>3 DEF SagaInvariant, SupplierTypeOK, HoldsWholeOrder, NeverOversold, Active
<1> QED
  BY <1>2, <1>4, SameStatus, SupplierWrites

\* Every transaction of supplier-service keeps the invariant.
LEMMA SupplierKeeps ==
  ASSUME SagaInvariant, SupplierStep, UNCHANGED orderVars
  PROVE  SagaInvariant'
<1>1. ASSUME NEW c \in commands, CommandStep(c) PROVE SagaInvariant'
  BY <1>1, ReserveKeeps, RefuseKeeps, FinalizeKeeps, ReleaseKeeps, AnswerFinalizationKeeps,
     AnswerReleaseKeeps DEF CommandStep
<1> QED
  BY <1>1, EditKeeps DEF SupplierStep

-----------------------------------------------------------------------------
(* The theorems *)

\* The invariant holds of the empty databases.
LEMMA InitSaga == Init => SagaInvariant
<1> SUFFICES ASSUME Init PROVE SagaInvariant
  OBVIOUS
<1>1. \A o \in Order : orders[o] = Absent
  BY DEF Init, OrderInit
<1>2. TypeOK
  <2>1. ChannelTypeOK
    BY DEF Init, ChannelInit, ChannelTypeOK
  <2>2. OrderTypeOK
    BY AbsentRow DEF Init, OrderInit, OrderTypeOK
  <2>3. SupplierTypeOK
    BY StockAssumption DEF Init, SupplierInit, SupplierTypeOK, ProductRow, Reservation,
                           ReservationStatus, NoId
  <2> QED
    BY <2>1, <2>2, <2>3 DEF TypeOK
<1>3. RowsConsistent
  BY <1>1, AbsentRow DEF RowsConsistent
<1>4. CommandsCommit /\ EventsHold
  BY DEF Init, ChannelInit, CommandsCommit, EventsHold
<1>5. SidesAgree
  BY <1>1 DEF Init, SupplierInit, SidesAgree, BusinessFits, Absent
<1>6. HoldsWholeOrder /\ NeverOversold
  BY StockAssumption DEF Init, SupplierInit, HoldsWholeOrder, NeverOversold, Active
<1> QED
  BY <1>2, <1>3, <1>4, <1>5, <1>6 DEF SagaInvariant

\* Every step keeps the invariant, and takes every row through a RowStep.
LEMMA NextSaga == SagaInvariant /\ [Next]_vars => OrderKept
<1> SUFFICES ASSUME SagaInvariant, [Next]_vars PROVE OrderKept
  OBVIOUS
<1>1. UNCHANGED orders => \A x \in Order : RowStep(orders[x], orders'[x])
  BY RowFacts, SelfStep
<1>2. CASE OrderStep /\ UNCHANGED supplierVars
  BY <1>2, UserKeeps, WorkerKeeps, ResultKeeps DEF OrderStep
<1>3. CASE SupplierStep /\ UNCHANGED orderVars
  BY <1>1, <1>3, SupplierKeeps DEF OrderKept, orderVars
<1>4. CASE \E m \in commands \cup events : AbandonMessage(m)
  <2>1. /\ UNCHANGED <<commands, events, orderVars, supplierVars>>
        /\ abandoned' \subseteq abandoned \cup commands \cup events
    BY <1>4 DEF AbandonMessage
  <2>2. ChannelTypeOK'
    BY <2>1 DEF ChannelTypeOK, SagaInvariant, TypeOK
  <2>3. SagaInvariant'
    BY <2>1, <2>2
       DEF SagaInvariant, TypeOK, OrderTypeOK, SupplierTypeOK, RowsConsistent, CommandsCommit,
           EventsHold, SidesAgree, HoldsWholeOrder, NeverOversold, Active, orderVars, supplierVars
  <2> QED
    BY <1>1, <2>1, <2>3 DEF OrderKept, orderVars
<1>5. CASE UNCHANGED vars
  <2>1. SagaInvariant'
    BY <1>5
       DEF SagaInvariant, TypeOK, ChannelTypeOK, OrderTypeOK, SupplierTypeOK, RowsConsistent,
           CommandsCommit, EventsHold, SidesAgree, HoldsWholeOrder, NeverOversold, Active, vars,
           channelVars, orderVars, supplierVars
  <2> QED
    BY <1>1, <1>5, <2>1 DEF OrderKept, vars, orderVars
<1> QED
  BY <1>2, <1>3, <1>4, <1>5 DEF Next

\* SagaInvariant holds in every reachable state.
THEOREM Invariance == Spec => []SagaInvariant
<1>1. SagaInvariant /\ [Next]_vars => SagaInvariant'
  BY NextSaga DEF OrderKept
<1> QED
  BY InitSaga, <1>1, PTL DEF Spec

\* Type correctness of both services and of the messages between them.
THEOREM TypeCorrect == Spec => []TypeOK
<1>1. SagaInvariant => TypeOK
  BY DEF SagaInvariant
<1> QED
  BY Invariance, <1>1, PTL

\* Every row that order_actions.py, operation_timeout.py and stock_result.py
\* write satisfies the CHECK constraints of the orders table (models.py).
THEOREM RowsSatisfyConstraints == Spec => []RowConstraintsHold
<1>1. SagaInvariant => RowConstraintsHold
  <2> SUFFICES ASSUME SagaInvariant, NEW o \in Order, NEW r, r = orders[o]
               PROVE  /\ r.operation = "NONE" => r.target = "NONE"
                      /\ r.operation \in ReleasePending =>
                           /\ r.reservation = "RELEASE_REQUESTED"
                           /\ r.release_id # NoId
                           /\ r.target = IF r.operation = "CANCELLATION_PENDING"
                                         THEN "CANCELLED" ELSE "REJECTED"
                      /\ r.business = "CONFIRMED" => Idle(r) /\ r.reservation = "RESERVED"
                      /\ r.operation = "CONFIRMATION_PENDING" =>
                           /\ r.business = "RESERVED" /\ r.reservation = "RESERVED"
                           /\ r.finalization_id # NoId /\ r.target = "NONE"
                      /\ r.business = "CANCELLED" => Idle(r) /\ r.reservation = "RELEASED"
                      /\ r.business = "REJECTED" =>
                           Idle(r) /\ r.reservation \in {"NOT_RESERVED", "RELEASED"}
                      /\ r.operation = "FAILED" =>
                           r.failure_phase # "NONE" /\ r.failure_reason # NoReason
    BY DEF RowConstraintsHold
  <2>1. RowConsistent(r)
    BY RowFacts
  <2> QED
    BY <2>1 DEF RowConsistent, Idle, Terminal
<1> QED
  BY Invariance, <1>1, PTL

\* The supplier is never asked both to sell and to give back the stock of an
\* order, whatever races confirm, reject, cancel, the worker and late results.
THEOREM OneOutcomeOnly == Spec => []OneOutcome
<1>1. SagaInvariant => OneOutcome
  <2> SUFFICES ASSUME SagaInvariant,
                      NEW c \in commands, NEW d \in commands, c.order = d.order,
                      c.type = "StockFinalizationRequested", d.type = "StockReleaseRequested"
               PROVE  FALSE
    BY DEF OneOutcome
  <2> DEFINE r == orders[c.order]
  <2>1. Confirming(r) /\ Releasing(r)
    BY SupplierFacts DEF CommandCommits
  <2>2. RowConsistent(r) /\ r \in Row
    BY SupplierFacts, RowFacts
  <2> QED
    BY <2>1, <2>2 DEF Confirming, Releasing, RowConsistent, Idle, Terminal, ReleasePending
<1> QED
  BY Invariance, <1>1, PTL

\* The two services agree about the outcome of every order, although they
\* share no transaction.
THEOREM OutcomesAlwaysAgree == Spec => []OutcomesAgree
<1>1. SagaInvariant => OutcomesAgree
  <2> SUFFICES ASSUME SagaInvariant, NEW o \in Order
               PROVE  /\ orders[o].business = "CONFIRMED" => reservations[o].status = "FINALIZED"
                      /\ orders[o].business = "REJECTED" =>
                           reservations[o].status \in {"REJECTED", "RELEASED"}
                      /\ orders[o].business = "CANCELLED" => reservations[o].status # "FINALIZED"
                      /\ orders[o].business = "RESERVED" /\ orders[o].operation = "NONE" =>
                           reservations[o].status = "RESERVED"
    BY DEF OutcomesAgree
  <2>1. /\ RowConsistent(orders[o]) /\ BusinessFits(orders[o], reservations[o].status)
        /\ reservations[o].status = "FINALIZED" => Confirming(orders[o])
        /\ reservations[o].status = "RELEASED" => Releasing(orders[o])
    BY RowFacts DEF SagaInvariant, SidesAgree
  <2>2. reservations[o].status \in ReservationStatus
    BY DEF SagaInvariant, TypeOK, SupplierTypeOK, Reservation
  <2>3. orders[o].business = "CONFIRMED" => reservations[o].status = "FINALIZED"
    BY <2>1 DEF BusinessFits
  <2>4. orders[o].business = "REJECTED" => reservations[o].status \in {"REJECTED", "RELEASED"}
    BY <2>1 DEF BusinessFits
  <2>5. orders[o].business = "CANCELLED" => reservations[o].status # "FINALIZED"
    BY <2>1 DEF RowConsistent, Confirming, Idle, Terminal
  <2>6. orders[o].business = "RESERVED" /\ orders[o].operation = "NONE"
          => reservations[o].status = "RESERVED"
    BY <2>1, <2>2 DEF BusinessFits, Confirming, Releasing, ReleasePending, ReservationStatus
  <2> QED
    BY <2>3, <2>4, <2>5, <2>6
<1> QED
  BY Invariance, <1>1, PTL

\* No stock event, late or repeated, and no worker changes a terminal status.
THEOREM TerminalStaysFinal == Spec => TerminalIsFinal
<1>1. SagaInvariant /\ [Next]_vars =>
        [\A o \in Order :
           orders[o].business \in Terminal => orders'[o].business = orders[o].business]_vars
  BY NextSaga DEF OrderKept, RowStep
<1> QED
  BY Invariance, <1>1, PTL DEF Spec, TerminalIsFinal

\* A cancellation under way is never forgotten, until the order is cancelled.
THEOREM CancellationStaysActive == Spec => CancellationSticks
<1>1. SagaInvariant /\ [Next]_vars =>
        [\A o \in Order :
           CancellationActive(orders[o]) => CancellationActive(orders'[o])]_vars
  <2> SUFFICES ASSUME SagaInvariant, [Next]_vars
               PROVE  \A o \in Order :
                        CancellationActive(orders[o]) => CancellationActive(orders'[o])
    OBVIOUS
  <2> QED
    BY NextSaga DEF OrderKept, RowStep
<1> QED
  BY Invariance, <1>1, PTL DEF Spec, CancellationSticks

\* No interleaving of reservations, finalizations, releases and recounts
\* reserves more of a product than there is, and a reservation always holds
\* all of its order or nothing (reservation.py, stock_lifecycle.py).
THEOREM StockNeverOversold == Spec => [](NeverOversold /\ HoldsWholeOrder)
<1>1. SagaInvariant => NeverOversold /\ HoldsWholeOrder
  BY DEF SagaInvariant
<1> QED
  BY Invariance, <1>1, PTL
================================================================================
