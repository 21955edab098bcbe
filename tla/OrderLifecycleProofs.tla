-------------------------- MODULE OrderLifecycleProofs --------------------------
(***************************************************************************)
(* OrderSaga implements OrderLifecycle, for any orders, products, demands, *)
(* stock, edits and bounds.  The argument: a step of the saga writes the   *)
(* row of one order or moves the stock of one; what SagaInvariant says of  *)
(* the two before and after leaves only the steps of the abstract order.   *)
(***************************************************************************)
EXTENDS OrderSagaProofs

\* A step of the abstract order, as a relation between its records.
LifeStep(a, b) ==
  \/ /\ a.decision \in {"OPEN", "CANCEL"} /\ a.stock = "NONE"
     /\ \E s \in {"RESERVED", "REJECTED"} : b = [a EXCEPT !.stock = s]
  \/ /\ a.decision = "OPEN" /\ a.stock = "RESERVED"
     /\ \E d \in {"CONFIRM", "REJECT"} : b = [a EXCEPT !.decision = d]
  \/ /\ a.decision = "OPEN" /\ a.stock \in {"NONE", "RESERVED", "REJECTED"}
     /\ b = [a EXCEPT !.decision = "CANCEL"]
  \/ /\ a.decision = "OPEN" /\ a.stock = "REJECTED"
     /\ b = [decision |-> "REJECT", stock |-> "REJECTED", outcome |-> "REJECTED"]
  \/ /\ a.decision = "CONFIRM" /\ a.stock = "RESERVED"
     /\ b = [a EXCEPT !.stock = "FINALIZED"]
  \/ /\ a.decision \in {"REJECT", "CANCEL"} /\ a.stock = "RESERVED"
     /\ b = [a EXCEPT !.stock = "RELEASED"]
  \/ /\ a.outcome = "NONE"
     /\ \/ /\ a.decision = "CONFIRM" /\ a.stock = "FINALIZED"
           /\ b = [a EXCEPT !.outcome = "CONFIRMED"]
        \/ /\ a.decision = "REJECT" /\ a.stock = "RELEASED"
           /\ b = [a EXCEPT !.outcome = "REJECTED"]
        \/ a.decision = "CANCEL" /\ b = [a EXCEPT !.outcome = "CANCELLED"]

\* Such a step of one order is a step of the abstract specification.
LEMMA StepOfOne ==
  ASSUME NEW o \in Order, LifeStep(Life[o], Life'[o]),
         \A x \in Order \ {o} : Life'[x] = Life[x]
  PROVE  Lifecycle!Next
<1> DEFINE a == Life[o]
           b == Life'[o]
<1>1. Life' = [Life EXCEPT ![o] = b]
  BY DEF Life
<1>2. \A z : b = z => Life' = [Life EXCEPT ![o] = z]
  BY <1>1
<1>3. \A d : b = [a EXCEPT !.decision = d] => Life' = [Life EXCEPT ![o].decision = d]
  BY <1>2
<1>4. \A d : b = [a EXCEPT !.stock = d] => Life' = [Life EXCEPT ![o].stock = d]
  BY <1>2
<1>5. \A d : b = [a EXCEPT !.outcome = d] => Life' = [Life EXCEPT ![o].outcome = d]
  BY <1>2
<1>6. LifeStep(a, b)
  OBVIOUS
<1> HIDE DEF b
<1>7. Lifecycle!Step(o)
  BY <1>2, <1>3, <1>4, <1>5, <1>6
     DEF LifeStep, Lifecycle!Step, Lifecycle!Hold, Lifecycle!Decide, Lifecycle!Cancel,
         Lifecycle!Decline, Lifecycle!Sell, Lifecycle!GiveBack, Lifecycle!Conclude
<1> QED
  BY <1>7 DEF Lifecycle!Next

-----------------------------------------------------------------------------
(* Steps of order-service: the decision and the outcome *)

\* What a sound row is committed to, and what that says of its outcome.
LEMMA DecisionFacts ==
  ASSUME NEW r \in Row, RowConsistent(r)
  PROVE  /\ DecisionOf(r) = "CONFIRM" <=> Confirming(r)
         /\ DecisionOf(r) = "CANCEL" <=> CancellationActive(r)
         /\ DecisionOf(r) = "REJECT" <=> Rejecting(r)
         /\ DecisionOf(r) = "OPEN" <=> ~Confirming(r) /\ ~Releasing(r)
         /\ DecisionOf(r) \in {"CONFIRM", "CANCEL", "REJECT", "OPEN"}
         /\ r.business = "CONFIRMED" => Confirming(r)
         /\ r.business = "CANCELLED" => CancellationActive(r)
         /\ r.business = "REJECTED" => Rejecting(r)
         /\ OutcomeOf(r) = IF r.business \in Terminal THEN r.business ELSE "NONE"
<1>1. CancellationActive(r) =>
        /\ Releasing(r) /\ ~Confirming(r) /\ r.business \notin {"CONFIRMED", "REJECTED"}
  BY CancellationReleases
<1>2. ~(Confirming(r) /\ Releasing(r))
  BY DEF Confirming, Releasing, RowConsistent, Idle, Terminal, ReleasePending
<1>3. /\ r.business = "CONFIRMED" => Confirming(r)
      /\ r.business = "CANCELLED" => CancellationActive(r)
      /\ r.business = "REJECTED" => Releasing(r)
  BY DEF Confirming, CancellationActive, Releasing
<1> QED
  BY <1>1, <1>2, <1>3 DEF DecisionOf, OutcomeOf, Rejecting

\* A rejection that is not over is one of an order that was offered.
LEMMA RejectingIsOffered ==
  ASSUME NEW r \in Row, RowConsistent(r), Rejecting(r), r.business # "REJECTED"
  PROVE  r.business = "RESERVED"
BY DEF Rejecting, Releasing, CancellationActive, RowConsistent, ReleasePending, Row

\* A transaction of order-service decides an open order, or concludes a
\* decided one the way it was decided.
LEMMA RowLives ==
  ASSUME NEW r \in Row, NEW s, NEW status \in ReservationStatus,
         RowConsistent(r), RowStep(r, s), BusinessFits(r, status), BusinessFits(s, status),
         status = "FINALIZED" => Confirming(r),
         status = "RELEASED" => Releasing(r)
  PROVE  \/ LifeOf(s, status) = LifeOf(r, status)
         \/ LifeStep(LifeOf(r, status), LifeOf(s, status))
<1> DEFINE a == LifeOf(r, status)
           b == LifeOf(s, status)
<1>1. /\ s \in Row /\ RowConsistent(s)
      /\ r.business \in Terminal => s.business = r.business
      /\ s.business = "CANCELLED" => CancellationActive(r)
      /\ Confirming(r) => Confirming(s)
      /\ CancellationActive(r) => CancellationActive(s)
      /\ Rejecting(r) => Rejecting(s)
  BY DEF RowStep
<1>2. /\ a = [decision |-> DecisionOf(r), stock |-> status, outcome |-> OutcomeOf(r)]
      /\ b = [decision |-> DecisionOf(s), stock |-> status, outcome |-> OutcomeOf(s)]
  BY DEF LifeOf
<1>3. status \in {"NONE", "RESERVED", "REJECTED", "FINALIZED", "RELEASED"}
  BY DEF ReservationStatus
<1>4. Rejecting(r) => Releasing(r)
  BY DEF Rejecting
<1>5. s.business = "CONFIRMED" => status = "FINALIZED"
  BY DEF BusinessFits
<1>6. s.business = "REJECTED" => status \in {"REJECTED", "RELEASED"}
  BY DEF BusinessFits
<1> HIDE DEF a, b
<1>7. CASE DecisionOf(r) = "OPEN"
  <2>1. ~Confirming(r) /\ ~Releasing(r) /\ ~CancellationActive(r) /\ OutcomeOf(r) = "NONE"
    BY <1>7, DecisionFacts DEF Terminal
  <2>2. status \in {"NONE", "RESERVED", "REJECTED"}
    BY <1>3, <2>1
  <2>3. s.business \notin {"CONFIRMED", "CANCELLED"}
    BY <1>1, <1>5, <2>1
  <2>4. CASE DecisionOf(s) = "OPEN"
    <3>1. OutcomeOf(s) = "NONE"
      BY <1>1, <2>4, DecisionFacts DEF Terminal, Rejecting
    <3> QED
      BY <1>2, <1>7, <2>1, <2>4, <3>1 DEF a, b
  <2>5. CASE DecisionOf(s) = "CONFIRM"
    <3>1. s.business = "RESERVED"
      BY <1>1, <2>3, <2>5, DecisionFacts DEF Confirming, RowConsistent
    <3>2. status = "RESERVED" /\ OutcomeOf(s) = "NONE"
      BY <2>2, <3>1 DEF BusinessFits, OutcomeOf, Terminal
    <3> QED
      BY <1>2, <1>7, <2>1, <2>5, <3>2 DEF LifeStep, a, b
  <2>6. CASE DecisionOf(s) = "CANCEL"
    <3>1. OutcomeOf(s) = "NONE"
      BY <1>1, <2>3, <2>6, DecisionFacts DEF Terminal, Rejecting
    <3> QED
      BY <1>2, <1>7, <2>1, <2>2, <2>6, <3>1 DEF LifeStep, a, b
  <2>7. CASE DecisionOf(s) = "REJECT"
    <3>1. CASE s.business = "REJECTED"
      <4>1. status = "REJECTED" /\ OutcomeOf(s) = "REJECTED"
        BY <1>6, <2>2, <3>1 DEF OutcomeOf, Terminal
      <4>2. b = [decision |-> "REJECT", stock |-> "REJECTED", outcome |-> "REJECTED"]
        BY <1>2, <2>7, <4>1
      <4>3. a.decision = "OPEN" /\ a.stock = "REJECTED"
        BY <1>2, <1>7, <4>1
      <4>4. LifeStep(a, b)
        BY <4>2, <4>3 DEF LifeStep
      <4> QED
        BY <4>4 DEF a, b
    <3>2. CASE s.business # "REJECTED"
      <4>1. s.business = "RESERVED"
        BY <1>1, <2>7, <3>2, DecisionFacts, RejectingIsOffered
      <4>2. status = "RESERVED" /\ OutcomeOf(s) = "NONE"
        BY <2>2, <4>1 DEF BusinessFits, OutcomeOf, Terminal
      <4> QED
        BY <1>2, <1>7, <2>1, <2>7, <4>2 DEF LifeStep, a, b
    <3> QED
      BY <3>1, <3>2
  <2> QED
    BY <1>1, <2>4, <2>5, <2>6, <2>7, DecisionFacts
<1>8. CASE DecisionOf(r) # "OPEN"
  <2>1. DecisionOf(s) = DecisionOf(r)
    BY <1>1, <1>8, DecisionFacts
  <2>2. CASE r.business \in Terminal
    <3>1. OutcomeOf(s) = OutcomeOf(r)
      BY <1>1, <2>2 DEF OutcomeOf
    <3> QED
      BY <1>2, <2>1, <3>1 DEF a, b
  <2>3. CASE r.business \notin Terminal /\ s.business \notin Terminal
    <3>1. OutcomeOf(s) = OutcomeOf(r)
      BY <2>3 DEF OutcomeOf
    <3> QED
      BY <1>2, <2>1, <3>1 DEF a, b
  <2>4. CASE r.business \notin Terminal /\ s.business \in Terminal
    <3>1. OutcomeOf(r) = "NONE" /\ OutcomeOf(s) = s.business
      BY <2>4 DEF OutcomeOf
    <3>2. CASE s.business = "CONFIRMED"
      <4>1. DecisionOf(r) = "CONFIRM" /\ status = "FINALIZED"
        BY <1>1, <1>5, <2>1, <3>2, DecisionFacts
      <4> QED
        BY <1>2, <2>1, <3>1, <3>2, <4>1 DEF LifeStep, a, b
    <3>3. CASE s.business = "CANCELLED"
      <4>1. DecisionOf(r) = "CANCEL"
        BY <1>1, <2>1, <3>3, DecisionFacts
      <4> QED
        BY <1>2, <2>1, <3>1, <3>3, <4>1 DEF LifeStep, a, b
    <3>4. CASE s.business = "REJECTED"
      <4>1. DecisionOf(r) = "REJECT"
        BY <1>1, <2>1, <3>4, DecisionFacts
      <4>2. r.business = "RESERVED"
        BY <2>4, <4>1, DecisionFacts, RejectingIsOffered DEF Terminal
      <4>3. status = "RELEASED"
        BY <1>6, <3>4, <4>2 DEF BusinessFits
      <4> QED
        BY <1>2, <2>1, <3>1, <3>4, <4>1, <4>3 DEF LifeStep, a, b
    <3> QED
      BY <2>4, <3>2, <3>3, <3>4 DEF Terminal
  <2> QED
    BY <2>2, <2>3, <2>4
<1> QED
  BY <1>7, <1>8 DEF a, b

\* A transaction of order-service writes the row of one order at most.
LEMMA OneRowAtATime ==
  ASSUME OrderStep, \A e \in events : e.order \in Order
  PROVE  \/ UNCHANGED orders
         \/ \E o \in Order : \E s : Write(o, s)
<1>1. ASSUME NEW o \in Order, UserStep(o) PROVE \E s : Write(o, s)
  BY <1>1 DEF UserStep, CreateOrder, ConfirmOrder, RejectOrder, CancelOrder
<1>2. ASSUME NEW o \in Order, WorkerStep(o) PROVE \E s : Write(o, s)
  BY <1>2 DEF WorkerStep, RetryOperation, ExhaustOperation
<1>3. ASSUME NEW e \in events, ResultStep(e)
      PROVE  UNCHANGED orders \/ \E s : Write(e.order, s)
  BY <1>3 DEF ResultStep, ReservationSucceeded, ReservationFailed, CancelledWithoutReservation,
              CompensateLateSuccess, Finalized, Released, FinalizationFailed, ReleaseFailed,
              IgnoreResult, DeadLetterResult
<1> QED
  BY <1>1, <1>2, <1>3 DEF OrderStep

\* Every transaction of order-service is a step of an abstract order, or none.
LEMMA OrderStepLives ==
  ASSUME SagaInvariant, SagaInvariant', OrderKept, OrderStep, UNCHANGED supplierVars
  PROVE  Lifecycle!Next \/ UNCHANGED Life
<1>1. \A e \in events : e.order \in Order
  BY DEF SagaInvariant, TypeOK, ChannelTypeOK, Event
<1>2. UNCHANGED reservations
  BY DEF supplierVars
<1>3. orders \in [Order -> Row]
  BY DEF SagaInvariant, TypeOK, OrderTypeOK
<1>4. CASE UNCHANGED orders
  BY <1>2, <1>4 DEF Life
<1>5. CASE \E o \in Order : \E s : Write(o, s)
  <2>1. PICK o \in Order : \E s : Write(o, s)
    BY <1>5
  <2>2. PICK s : Write(o, s)
    BY <2>1
  <2>3. /\ orders'[o] = s
        /\ \A x \in Order \ {o} : orders'[x] = orders[x]
    BY <1>3, <2>2 DEF Write
  <2> DEFINE r == orders[o]
             status == reservations[o].status
  <2>4. /\ r \in Row /\ RowConsistent(r) /\ BusinessFits(r, status)
        /\ status = "FINALIZED" => Confirming(r)
        /\ status = "RELEASED" => Releasing(r)
        /\ status \in ReservationStatus
    BY DEF SagaInvariant, TypeOK, OrderTypeOK, SupplierTypeOK, Reservation, RowsConsistent,
           SidesAgree
  <2>5. BusinessFits(s, status)
    BY <1>2, <2>3 DEF SagaInvariant, SidesAgree
  <2>6. RowStep(r, s)
    BY <2>3 DEF OrderKept
  <2>7. \/ LifeOf(s, status) = LifeOf(r, status)
        \/ LifeStep(LifeOf(r, status), LifeOf(s, status))
    BY <2>4, <2>5, <2>6, RowLives
  <2>8. /\ Life[o] = LifeOf(r, status)
        /\ Life'[o] = LifeOf(s, status)
        /\ \A x \in Order \ {o} : Life'[x] = Life[x]
    BY <1>2, <2>3 DEF Life
  <2>9. CASE LifeOf(s, status) = LifeOf(r, status)
    <3>1. \A x \in Order : Life'[x] = Life[x]
      BY <2>8, <2>9
    <3> QED
      BY <3>1 DEF Life
  <2>10. CASE LifeStep(LifeOf(r, status), LifeOf(s, status))
    BY <2>8, <2>10, StepOfOne
  <2> QED
    BY <2>7, <2>9, <2>10
<1> QED
  BY <1>1, <1>4, <1>5, OneRowAtATime

-----------------------------------------------------------------------------
(* Steps of supplier-service: the stock *)

\* The four moves of a reservation.
StockMove(a, b) ==
  \/ a = "NONE" /\ b \in {"RESERVED", "REJECTED"}
  \/ a = "RESERVED" /\ b \in {"FINALIZED", "RELEASED"}

\* A transaction of supplier-service moves one reservation at most.
LEMMA OneReservationAtATime ==
  ASSUME SagaInvariant, SupplierStep
  PROVE  \/ UNCHANGED reservations
         \/ \E o \in Order :
              /\ StockMove(reservations[o].status, reservations'[o].status)
              /\ \A x \in Order \ {o} : reservations'[x] = reservations[x]
<1>1. reservations \in [Order -> Reservation]
  BY DEF SagaInvariant, TypeOK, SupplierTypeOK
<1>2. ASSUME NEW c \in commands, CommandStep(c)
      PROVE  \/ UNCHANGED reservations
             \/ /\ StockMove(reservations[c.order].status, reservations'[c.order].status)
                /\ \A x \in Order \ {c.order} : reservations'[x] = reservations[x]
  <2>1. c.order \in Order
    BY SupplierFacts
  <2>2. CASE ReserveStock(c)
    BY <1>1, <2>1, <2>2 DEF ReserveStock, StockMove
  <2>3. CASE RefuseReservation(c)
    BY <1>1, <2>1, <2>3 DEF RefuseReservation, StockMove
  <2>4. CASE FinalizeStock(c)
    BY <1>1, <2>1, <2>4 DEF FinalizeStock, Active, StockMove, Reservation
  <2>5. CASE ReleaseStock(c)
    BY <1>1, <2>1, <2>5 DEF ReleaseStock, Active, StockMove, Reservation
  <2>6. CASE AnswerFinalization(c) \/ AnswerRelease(c)
    BY <2>6 DEF AnswerFinalization, AnswerRelease, stockVars
  <2> QED
    BY <1>2, <2>2, <2>3, <2>4, <2>5, <2>6 DEF CommandStep
<1>3. ASSUME NEW p \in Product, EditProduct(p) \/ RecalculateStocks(p)
      PROVE  UNCHANGED reservations
  BY <1>3 DEF EditProduct, RecalculateStocks
<1> QED
  BY <1>2, <1>3, SupplierFacts DEF SupplierStep

\* Stock is held for an order that is open or cancelled, sold for one that
\* is confirmed, given back for one that is not.
LEMMA MoveLives ==
  ASSUME NEW r \in Row, RowConsistent(r), NEW a, NEW b, StockMove(a, b), BusinessFits(r, a),
         b = "FINALIZED" => Confirming(r),
         b = "RELEASED" => Releasing(r)
  PROVE  LifeStep(LifeOf(r, a), LifeOf(r, b))
<1>1. LifeOf(r, b) = [LifeOf(r, a) EXCEPT !.stock = b]
  BY DEF LifeOf
<1>2. LifeOf(r, a).stock = a /\ LifeOf(r, a).decision = DecisionOf(r)
  BY DEF LifeOf
<1>3. CASE a = "NONE" /\ b \in {"RESERVED", "REJECTED"}
  <2>1. r.business \notin {"RESERVED", "CONFIRMED", "REJECTED"}
    BY <1>3 DEF BusinessFits
  <2>2. ~Confirming(r)
    BY <2>1 DEF Confirming, RowConsistent
  <2>3. ~Rejecting(r)
    BY <2>1, RejectingIsOffered
  <2>4. DecisionOf(r) \in {"OPEN", "CANCEL"}
    BY <2>2, <2>3, DecisionFacts
  <2> QED
    BY <1>1, <1>2, <1>3, <2>4 DEF LifeStep
<1>4. CASE a = "RESERVED" /\ b = "FINALIZED"
  <2>1. DecisionOf(r) = "CONFIRM"
    BY <1>4, DecisionFacts
  <2> QED
    BY <1>1, <1>2, <1>4, <2>1 DEF LifeStep
<1>5. CASE a = "RESERVED" /\ b = "RELEASED"
  <2>1. DecisionOf(r) \in {"REJECT", "CANCEL"}
    BY <1>5, DecisionFacts DEF Rejecting
  <2> QED
    BY <1>1, <1>2, <1>5, <2>1 DEF LifeStep
<1> QED
  BY <1>3, <1>4, <1>5 DEF StockMove

\* Every transaction of supplier-service is a step of an abstract order, or
\* none.
LEMMA SupplierStepLives ==
  ASSUME SagaInvariant, SagaInvariant', SupplierStep, UNCHANGED orderVars
  PROVE  Lifecycle!Next \/ UNCHANGED Life
<1>1. UNCHANGED orders
  BY DEF orderVars
<1>2. CASE UNCHANGED reservations
  BY <1>1, <1>2 DEF Life
<1>3. ASSUME NEW o \in Order,
             StockMove(reservations[o].status, reservations'[o].status),
             \A x \in Order \ {o} : reservations'[x] = reservations[x]
      PROVE  Lifecycle!Next
  <2> DEFINE r == orders[o]
             a == reservations[o].status
             b == reservations'[o].status
  <2>1. r \in Row /\ RowConsistent(r) /\ BusinessFits(r, a)
    BY RowFacts
  <2>2. /\ b = "FINALIZED" => Confirming(r)
        /\ b = "RELEASED" => Releasing(r)
    BY <1>1 DEF SagaInvariant, SidesAgree
  <2>3. LifeStep(LifeOf(r, a), LifeOf(r, b))
    BY <1>3, <2>1, <2>2, MoveLives
  <2>4. /\ Life[o] = LifeOf(r, a)
        /\ Life'[o] = LifeOf(r, b)
        /\ \A x \in Order \ {o} : Life'[x] = Life[x]
    BY <1>1, <1>3 DEF Life
  <2> QED
    BY <2>3, <2>4, StepOfOne
<1> QED
  BY <1>2, <1>3, OneReservationAtATime

-----------------------------------------------------------------------------

\* The saga implements the abstract order: with commands and events lost,
\* repeated and reordered between two databases and four writers of the row
\* (order_actions.py, operation_timeout.py, stock_result.py, order_creation.py),
\* an order is decided once, its stock moves only the way of the decision,
\* and it ends as what was decided (reservation.py, stock_lifecycle.py).
THEOREM SagaImplementsLifecycle == Spec => ImplementsLifecycle
<1>1. Init => Lifecycle!Init
  <2> SUFFICES ASSUME Init PROVE Lifecycle!Init
    OBVIOUS
  <2>1. \A o \in Order : orders[o] = Absent /\ reservations[o].status = "NONE"
    BY DEF Init, OrderInit, SupplierInit
  <2>2. DecisionOf(Absent) = "OPEN" /\ OutcomeOf(Absent) = "NONE"
    BY DEF DecisionOf, OutcomeOf, Confirming, Releasing, CancellationActive, Absent, Terminal,
           ReleasePending
  <2> QED
    BY <2>1, <2>2 DEF Lifecycle!Init, Life, LifeOf
<1>2. SagaInvariant /\ SagaInvariant' /\ [Next]_vars => [Lifecycle!Next]_Life
  <2> SUFFICES ASSUME SagaInvariant, SagaInvariant', [Next]_vars
               PROVE  Lifecycle!Next \/ UNCHANGED Life
    OBVIOUS
  <2>1. CASE OrderStep /\ UNCHANGED supplierVars
    BY <2>1, NextSaga, OrderStepLives DEF Next
  <2>2. CASE SupplierStep /\ UNCHANGED orderVars
    BY <2>2, SupplierStepLives
  <2>3. CASE \E m \in commands \cup events : AbandonMessage(m)
    BY <2>3 DEF AbandonMessage, orderVars, supplierVars, Life
  <2>4. CASE UNCHANGED vars
    BY <2>4 DEF vars, orderVars, supplierVars, Life
  <2> QED
    BY <2>1, <2>2, <2>3, <2>4 DEF Next
<1> QED
  BY Invariance, <1>1, <1>2, PTL DEF Spec, ImplementsLifecycle, Lifecycle!Spec
================================================================================
