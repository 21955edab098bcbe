--------------------------- MODULE StockHistoryProofs ---------------------------
(***************************************************************************)
(* Proofs about the stock that the orders hold: the reserved stock of a    *)
(* product is what its reservations hold, what is sold is sold once, and,  *)
(* while no product changes hands, the supplier refuses no finalization    *)
(* and no release and the stock of a cancelled order is on its way back.   *)
(*                                                                         *)
(* The argument follows the history of a reservation: which reservation a  *)
(* row, a command and an event name, how commands are numbered, and        *)
(* whether the order has seen the event that announces it                  *)
(* (HistoryInvariant).  It builds on SagaInvariant.                        *)
(***************************************************************************)
EXTENDS OrderSagaProofs, QuantitiesProofs

HistoryKept == HistoryInvariant' /\ (SeenHoldIsReleased => SeenHoldIsReleased')

Releases(sent) == \E c \in sent : c.type = "StockReleaseRequested"

-----------------------------------------------------------------------------
(* Transactions of order-service *)

\* What a transaction adds to the history of its order: one version; commands
\* numbered by it that name the reservation and the finalization of the row;
\* no reservation that was not announced; a release whenever the order turns
\* to cancellation or learns of a reservation while it is being cancelled.
HistoryStep(o, s, sent) ==
  LET r == orders[o]
  IN  /\ Write(o, s)
      /\ commands' = commands \cup sent
      /\ s.version = r.version + 1
      /\ s.business # "NOT_CREATED"
      /\ s.finalization_id = r.finalization_id \/ MayDecide(r)
      /\ \/ s.reservation_id \in {NoId, r.reservation_id}
         \/ \E e \in Announced(o) \cap orderInbox' : s.reservation_id = e.reservation_id
      /\ \A c \in sent :
           /\ c.order = o /\ c.id = s.version
           /\ c.reservation_id \in {NoId, s.reservation_id}
           /\ c.type = "StockFinalizationRequested" => c.request_id = s.finalization_id
      /\ CancellationActive(s) => CancellationActive(r) \/ Releases(sent)
      /\ orderInbox \subseteq orderInbox'
      /\ \A e \in orderInbox' \ orderInbox :
           /\ e \in events
           /\ e.type = "StockReservationSucceeded" =>
                e.order = o /\ (CancellationActive(s) => Releases(sent))

\* An order that is free to be decided was never asked to be finalized.
LEMMA UndecidedIsUnasked ==
  ASSUME SagaInvariant, NEW o \in Order, MayDecide(orders[o])
  PROVE  /\ \A c \in commands : c.order = o => c.type # "StockFinalizationRequested"
         /\ reservations[o].status # "FINALIZED"
<1>1. ~Confirming(orders[o])
  BY DEF MayDecide, Idle, Confirming
<1> QED
  BY <1>1 DEF SagaInvariant, CommandsCommit, CommandCommits, SidesAgree

LEMMA OrderHistory ==
  ASSUME SagaInvariant, HistoryInvariant, UNCHANGED <<events, supplierVars>>,
         NEW o \in Order, NEW s, NEW sent, HistoryStep(o, s, sent)
  PROVE  HistoryKept
<1> DEFINE r == orders[o]
<1>1. /\ orders \in [Order -> Row]
      /\ \A c \in commands : c.order \in Order
      /\ \A e \in events : e.order \in Order
  BY DEF SagaInvariant, TypeOK, OrderTypeOK, ChannelTypeOK, Command, Event
<1>2. /\ UNCHANGED <<products, reservations, held, supplierInbox, events>>
      /\ orders'[o] = s
      /\ \A x \in Order \ {o} : orders'[x] = orders[x]
      /\ \A x : Announced(x)' = Announced(x)
      /\ \A x : Active(x)' <=> Active(x)
      /\ commands' = commands \cup sent
      /\ orderInbox \subseteq orderInbox'
  BY <1>1 DEF HistoryStep, Write, supplierVars, Announced, Active
<1>3. r.version \in Nat /\ s.version = r.version + 1
  BY <1>1 DEF Row, HistoryStep
<1>4. s.reservation_id \in {NoId, reservations[o].id}
  BY DEF HistoryStep, HistoryInvariant, IdsAgree, Announced
<1>5. ReservedIsHeld'
  BY <1>2 DEF HistoryInvariant, ReservedIsHeld, HeldOf
<1>6. IdsAgree'
  <2>1. \A x \in Order : orders'[x].reservation_id \in {NoId, reservations[x].id}
    BY <1>2, <1>4 DEF HistoryInvariant, IdsAgree
  <2>2. \A c \in commands' : c.reservation_id \in {NoId, reservations[c.order].id}
    BY <1>2, <1>4 DEF HistoryInvariant, IdsAgree, HistoryStep
  <2> QED
    BY <1>2, <2>1, <2>2 DEF HistoryInvariant, IdsAgree
<1>7. FinalizationsAgree'
  <2>1. CASE s.finalization_id = r.finalization_id
    <3>1. \A x \in Order : orders'[x].finalization_id = orders[x].finalization_id
      BY <1>2, <2>1
    <3>2. \A c \in commands' : c.type = "StockFinalizationRequested" =>
            c.request_id = orders'[c.order].finalization_id
      BY <1>1, <1>2, <3>1 DEF HistoryInvariant, FinalizationsAgree, HistoryStep
    <3> QED
      BY <1>2, <3>1, <3>2 DEF HistoryInvariant, FinalizationsAgree
  <2>2. CASE MayDecide(r)
    <3>1. \A c \in commands' : c.type = "StockFinalizationRequested" =>
            c.request_id = orders'[c.order].finalization_id
      BY <1>1, <1>2, <2>2, UndecidedIsUnasked DEF HistoryInvariant, FinalizationsAgree, HistoryStep
    <3> QED
      BY <1>2, <2>2, <3>1, UndecidedIsUnasked DEF HistoryInvariant, FinalizationsAgree
  <2> QED
    BY <2>1, <2>2 DEF HistoryStep
<1>8. CommandsNumbered' /\ HandledWasSent'
  <2>1. \A c \in commands : c.id \in Nat /\ c.id # NoId /\ c.id <= orders[c.order].version
    BY DEF HistoryInvariant, CommandsNumbered, SagaInvariant, TypeOK, ChannelTypeOK, Command
  <2>2. \A c \in commands : c.id <= orders'[c.order].version
    BY <1>1, <1>2, <1>3, <2>1
  <2>3. \A c \in sent : c.id # NoId /\ c.id <= orders'[c.order].version
    BY <1>2, <1>3 DEF HistoryStep, NoId
  <2> QED
    BY <1>2, <2>1, <2>2, <2>3
       DEF HistoryInvariant, CommandsNumbered, HandledWasSent, HistoryStep
<1>9. AbsentUntilCreated'
  BY <1>2 DEF HistoryInvariant, AbsentUntilCreated, HistoryStep
<1>10. ReservationsAnnounced'
  <2>1. ASSUME NEW x \in Order, orders'[x].reservation_id # NoId
        PROVE  Announced(x) \cap orderInbox' # {}
    <3>1. CASE orders'[x].reservation_id = orders[x].reservation_id
      BY <1>2, <2>1, <3>1 DEF HistoryInvariant, ReservationsAnnounced
    <3>2. CASE orders'[x].reservation_id # orders[x].reservation_id
      BY <1>2, <2>1, <3>2 DEF HistoryStep
    <3> QED
      BY <3>1, <3>2
  <2>2. \A x \in Order : Active(x) => Announced(x) # {}
    BY DEF HistoryInvariant, ReservationsAnnounced
  <2> QED
    BY <1>2, <2>1, <2>2 DEF ReservationsAnnounced
<1>11. ASSUME SeenHoldIsReleased PROVE SeenHoldIsReleased'
  <2> SUFFICES ASSUME NEW x \in Order, CancellationActive(orders'[x]), Active(x),
                      Announced(x) \cap orderInbox' # {}
               PROVE  \E c \in commands' \ supplierInbox :
                        c.order = x /\ c.type = "StockReleaseRequested"
    BY <1>2 DEF SeenHoldIsReleased
  <2>1. CASE CancellationActive(orders[x]) /\ Announced(x) \cap orderInbox # {}
    BY <1>2, <1>11, <2>1 DEF SeenHoldIsReleased
  <2>2. CASE x = o /\ Releases(sent)
    <3>1. PICK c \in sent : c.type = "StockReleaseRequested"
      BY <2>2 DEF Releases
    <3>2. c.order = o /\ c.id = r.version + 1
      BY <1>3 DEF HistoryStep
    <3>3. c \notin supplierInbox
      <4>1. \A d \in commands : d.order = o => d.id \in Nat /\ d.id <= r.version
        BY DEF HistoryInvariant, CommandsNumbered, SagaInvariant, TypeOK, ChannelTypeOK, Command
      <4> QED
        BY <1>3, <3>2, <4>1 DEF HistoryInvariant, HandledWasSent
    <3> QED
      BY <1>2, <2>2, <3>1, <3>2, <3>3
  <2>3. CASE ~CancellationActive(orders[x])
    <3>1. x = o /\ Releases(sent)
      BY <1>2, <2>3 DEF HistoryStep
    <3> QED
      BY <2>2, <3>1
  <2>4. CASE Announced(x) \cap orderInbox = {}
    <3>1. PICK e \in Announced(x) : e \in orderInbox' \ orderInbox
      BY <2>4
    <3>2. e.type = "StockReservationSucceeded" /\ e.order = x
      BY <3>1 DEF Announced
    <3>3. x = o /\ Releases(sent)
      BY <1>2, <3>1, <3>2 DEF HistoryStep
    <3> QED
      BY <2>2, <3>3
  <2> QED
    BY <2>1, <2>3, <2>4
<1> QED
  BY <1>5, <1>6, <1>7, <1>8, <1>9, <1>10, <1>11 DEF HistoryKept, HistoryInvariant

\* The identifiers of a row that is written again.
LEMMA RowHistory ==
  ASSUME NEW r \in Row
  PROVE  /\ Bumped(r).version = r.version + 1
         /\ Bumped(Settled(r)).version = r.version + 1
         /\ Bumped(Settled(r)) \in Row
         /\ Bumped(Settled(r)).reservation_id = r.reservation_id
         /\ Bumped(Settled(r)).finalization_id = r.finalization_id
BY SettledRow DEF Bumped, Settled, Row

\* Creating, confirming, rejecting and cancelling an order.
LEMMA UserHistory ==
  ASSUME SagaInvariant, HistoryInvariant, NEW o \in Order, UserStep(o), UNCHANGED supplierVars
  PROVE  HistoryKept
<1> DEFINE r == orders[o]
<1>1. r \in Row /\ RowConsistent(r)
  BY RowFacts
<1>2. CASE CreateOrder(o)
  <2> DEFINE s == Bumped([Absent EXCEPT !.business = "PENDING_RESERVATION",
                                        !.reservation = "REQUESTED"])
             sent == {ReservationCommand(o, s)}
  <2>1. /\ r = Absent /\ Write(o, s) /\ commands' = commands \cup sent
        /\ UNCHANGED <<orderInbox, events>>
    BY <1>2 DEF CreateOrder, Send, HistoryInvariant, AbsentUntilCreated
  <2>2. /\ s.version = r.version + 1 /\ s.business = "PENDING_RESERVATION"
        /\ s.finalization_id = r.finalization_id /\ s.reservation_id = NoId
        /\ s.operation = "NONE"
    BY <2>1 DEF Absent, Bumped
  <2>3. ~CancellationActive(s)
    BY <2>2 DEF CancellationActive
  <2> HIDE DEF s
  <2>4. HistoryStep(o, s, sent)
    BY <2>1, <2>2, <2>3 DEF HistoryStep, ReservationCommand
  <2> QED
    BY <2>1, <2>4, OrderHistory
<1>3. CASE ConfirmOrder(o)
  <2> DEFINE s == [Bumped(r) EXCEPT !.operation = "CONFIRMATION_PENDING",
                                    !.finalization_id = r.version + 1,
                                    !.finalization_attempts = 1,
                                    !.failure_phase = "NONE", !.failure_reason = NoReason]
             sent == {FinalizationCommand(o, s)}
  <2>1. /\ MayDecide(r) /\ Write(o, s) /\ commands' = commands \cup sent
        /\ UNCHANGED <<orderInbox, events>>
    BY <1>3 DEF ConfirmOrder, Send
  <2>2. /\ s.version = r.version + 1 /\ s.business = r.business
        /\ s.reservation_id = r.reservation_id /\ s.operation = "CONFIRMATION_PENDING"
    BY <1>1 DEF Bumped, Row
  <2>3. s.business = "RESERVED" /\ ~CancellationActive(s)
    BY <2>1, <2>2 DEF CancellationActive, MayDecide
  <2> HIDE DEF s
  <2>4. HistoryStep(o, s, sent)
    BY <2>1, <2>2, <2>3 DEF HistoryStep, FinalizationCommand
  <2> QED
    BY <2>1, <2>4, OrderHistory
<1>4. CASE RejectOrder(o)
  <2> DEFINE s == [ReleaseRequested(r, "REJECTION_PENDING", "REJECTED")
                     EXCEPT !.rejection_reason = "SUPPLIER_REJECTED"]
             sent == {ReleaseCommand(o, s)}
  <2>1. /\ MayDecide(r) /\ Write(o, s) /\ commands' = commands \cup sent
        /\ UNCHANGED <<orderInbox, events>>
    BY <1>4 DEF RejectOrder, Send
  <2>2. /\ s.version = r.version + 1 /\ s.business = r.business
        /\ s.reservation_id = r.reservation_id
    BY <1>1 DEF ReleaseRequested, Bumped, Row
  <2>3. s.business # "NOT_CREATED"
    BY <2>1, <2>2 DEF MayDecide
  <2> HIDE DEF s
  <2>4. HistoryStep(o, s, sent)
    BY <2>1, <2>2, <2>3 DEF HistoryStep, ReleaseCommand, Releases
  <2> QED
    BY <2>1, <2>4, OrderHistory
<1>5. CASE CancelOrder(o)
  <2> DEFINE s == ReleaseRequested(r, "CANCELLATION_PENDING", "CANCELLED")
             sent == {ReleaseCommand(o, s)}
  <2>1. /\ MayCancel(r) /\ Write(o, s) /\ commands' = commands \cup sent
        /\ UNCHANGED <<orderInbox, events>>
    BY <1>5 DEF CancelOrder, Send
  <2>2. /\ s.version = r.version + 1 /\ s.business = r.business
        /\ s.reservation_id = r.reservation_id /\ s.finalization_id = r.finalization_id
    BY <1>1 DEF ReleaseRequested, Bumped, Row
  <2>3. s.business # "NOT_CREATED"
    BY <2>1, <2>2 DEF MayCancel
  <2> HIDE DEF s
  <2>4. HistoryStep(o, s, sent)
    BY <2>1, <2>2, <2>3 DEF HistoryStep, ReleaseCommand, Releases
  <2> QED
    BY <2>1, <2>4, OrderHistory
<1> QED
  BY <1>2, <1>3, <1>4, <1>5 DEF UserStep

\* The worker repeats a command for the same reservation and finalization.
LEMMA WorkerHistory ==
  ASSUME SagaInvariant, HistoryInvariant, NEW o \in Order, WorkerStep(o), UNCHANGED supplierVars
  PROVE  HistoryKept
<1> DEFINE r == orders[o]
<1>1. r \in Row /\ RowConsistent(r)
  BY RowFacts
<1>2. WorkerSelects(r) => r.business # "NOT_CREATED"
  BY <1>1 DEF RowConsistent, Idle, WorkerSelects, OperationPending, ReleasePending
<1>3. CASE RetryOperation(o)
  <2> DEFINE s == IF r.operation = "CONFIRMATION_PENDING"
                  THEN [Bumped(r) EXCEPT !.finalization_attempts = @ + 1]
                  ELSE [Bumped(r) EXCEPT !.release_attempts = @ + 1]
             sent == {IF r.operation = "CONFIRMATION_PENDING" THEN FinalizationCommand(o, s)
                                                              ELSE ReleaseCommand(o, s)}
  <2>1. /\ WorkerSelects(r) /\ Write(o, s) /\ commands' = commands \cup sent
        /\ UNCHANGED <<orderInbox, events>>
    BY <1>3 DEF RetryOperation, Send
  <2>2. SameState(r, s) /\ s.version = r.version + 1
    BY <1>1, <2>1, RetryRow DEF Bumped, Row
  <2>3. CancellationActive(s) => CancellationActive(r)
    BY <2>2 DEF SameState, CancellationActive
  <2> HIDE DEF s
  <2>4. \A c \in sent :
           /\ c.order = o /\ c.id = s.version
           /\ c.reservation_id \in {NoId, s.reservation_id}
           /\ c.type = "StockFinalizationRequested" => c.request_id = s.finalization_id
    BY DEF FinalizationCommand, ReleaseCommand
  <2> HIDE DEF sent
  <2>5. HistoryStep(o, s, sent)
    BY <1>2, <2>1, <2>2, <2>3, <2>4 DEF HistoryStep, SameState
  <2> QED
    BY <2>1, <2>5, OrderHistory
<1>4. CASE ExhaustOperation(o)
  <2> DEFINE s == Exhausted(r)
             sent == {}
  <2>1. /\ WorkerSelects(r) /\ Write(o, s) /\ commands' = commands \cup sent
        /\ UNCHANGED <<orderInbox, events>>
    BY <1>4 DEF ExhaustOperation, channelVars
  <2>2. /\ s.version = r.version + 1 /\ s.business = r.business
        /\ s.reservation_id = r.reservation_id /\ s.finalization_id = r.finalization_id
        /\ s.target = r.target /\ s.operation = "FAILED"
    BY <1>1 DEF Exhausted, Bumped, Row
  <2>3. CancellationActive(s) => CancellationActive(r)
    BY <1>1, <2>1, <2>2 DEF CancellationActive, WorkerSelects, OperationPending, ReleasePending,
                            RowConsistent
  <2> HIDE DEF s
  <2>4. HistoryStep(o, s, sent)
    BY <1>2, <2>1, <2>2, <2>3 DEF HistoryStep
  <2> QED
    BY <2>1, <2>4, OrderHistory
<1> QED
  BY <1>3, <1>4 DEF WorkerStep

\* An event changes nothing: a reservation that an order being cancelled
\* learns of this way was known to it before.
LEMMA IgnoreHistory ==
  ASSUME SagaInvariant, HistoryInvariant, NEW e \in events, IgnoreResult(e) \/ DeadLetterResult(e),
         UNCHANGED supplierVars
  PROVE  HistoryKept
<1>1. /\ UNCHANGED <<orders, commands, events, products, reservations, held, supplierInbox>>
      /\ orderInbox' \in {orderInbox, orderInbox \cup {e}}
  BY DEF IgnoreResult, DeadLetterResult, Handle, Claim, channelVars, supplierVars
<1>2. /\ \A x : Announced(x)' = Announced(x)
      /\ \A x : Active(x)' <=> Active(x)
  BY <1>1 DEF Announced, Active
<1>3. HistoryInvariant'
  <2>1. ReservedIsHeld' /\ IdsAgree' /\ FinalizationsAgree' /\ CommandsNumbered'
          /\ HandledWasSent' /\ AbsentUntilCreated'
    BY <1>1 DEF HistoryInvariant, ReservedIsHeld, HeldOf, IdsAgree, FinalizationsAgree,
                CommandsNumbered, HandledWasSent, AbsentUntilCreated
  <2>2. ReservationsAnnounced'
    BY <1>1, <1>2 DEF HistoryInvariant, ReservationsAnnounced
  <2> QED
    BY <2>1, <2>2 DEF HistoryInvariant
<1>4. ASSUME SeenHoldIsReleased PROVE SeenHoldIsReleased'
  <2> SUFFICES ASSUME NEW x \in Order, CancellationActive(orders[x]), Active(x),
                      Announced(x) \cap orderInbox' # {}
               PROVE  Announced(x) \cap orderInbox # {}
    BY <1>1, <1>2, <1>4 DEF SeenHoldIsReleased
  <2>1. CASE orderInbox' = orderInbox \/ e \notin Announced(x)
    BY <1>1, <2>1
  <2>2. CASE orderInbox' # orderInbox /\ e \in Announced(x)
    <3>1. e.order = x /\ e.type = "StockReservationSucceeded"
      BY <2>2 DEF Announced
    <3>2. Disposition(orders[x], e) = "NO_OP"
      BY <2>2, <3>1 DEF IgnoreResult, DeadLetterResult, Handle
    <3>3. orders[x].reservation_id = e.reservation_id
      BY <3>1, <3>2 DEF Disposition, LateChangesNothing, ReservationEvents
    <3>4. e.reservation_id # NoId
      BY <3>1 DEF HistoryInvariant, IdsAgree
    <3> QED
      BY <3>3, <3>4 DEF HistoryInvariant, ReservationsAnnounced
  <2> QED
    BY <2>1, <2>2
<1> QED
  BY <1>3, <1>4 DEF HistoryKept

\* A result that sends nothing and names no new reservation.
LEMMA ResultWrites ==
  ASSUME SagaInvariant, HistoryInvariant, NEW e \in events, Claim(e),
         UNCHANGED <<commands, events, supplierVars>>,
         NEW s, Write(e.order, s),
         s.version = orders[e.order].version + 1,
         s.business # "NOT_CREATED",
         s.finalization_id = orders[e.order].finalization_id,
         \/ s.reservation_id \in {NoId, orders[e.order].reservation_id}
         \/ e.type = "StockReservationSucceeded" /\ s.reservation_id = e.reservation_id,
         CancellationActive(s) =>
           CancellationActive(orders[e.order]) /\ e.type # "StockReservationSucceeded"
  PROVE  HistoryKept
<1>1. e.order \in Order
  BY DEF SagaInvariant, TypeOK, ChannelTypeOK, Event
<1>2. orderInbox' = orderInbox \cup {e}
  BY DEF Claim
<1>3. HistoryStep(e.order, s, {})
  BY <1>2 DEF HistoryStep, Announced
<1> QED
  BY <1>1, <1>3, OrderHistory

\* The handler of stock events.
LEMMA ResultHistory ==
  ASSUME SagaInvariant, HistoryInvariant, NEW e \in events, ResultStep(e), UNCHANGED supplierVars
  PROVE  HistoryKept
<1> DEFINE o == e.order
           r == orders[o]
           b == Bumped(Settled(r))
<1>1. e \in Event /\ o \in Order /\ e.reservation_id \in Nat
  BY DEF SagaInvariant, TypeOK, ChannelTypeOK, Event
<1>2. r \in Row /\ RowConsistent(r)
  BY <1>1, RowFacts
<1>3. /\ b \in Row /\ b.operation = "NONE" /\ b.version = r.version + 1
      /\ b.reservation_id = r.reservation_id /\ b.finalization_id = r.finalization_id
  BY <1>2, RowHistory, SettledRow
<1> HIDE DEF b
<1>4. CASE ReservationSucceeded(e)
  <2> DEFINE s == [b EXCEPT !.business = "RESERVED", !.reservation = "RESERVED",
                            !.reservation_id = e.reservation_id, !.rejection_reason = NoReason]
  <2>1. /\ Claim(e) /\ Write(o, s) /\ UNCHANGED <<commands, events>>
        /\ e.type = "StockReservationSucceeded"
    BY <1>4 DEF ReservationSucceeded, Handle, b
  <2>2. /\ s.version = r.version + 1 /\ s.business = "RESERVED" /\ s.operation = "NONE"
        /\ s.finalization_id = r.finalization_id /\ s.reservation_id = e.reservation_id
    BY <1>3 DEF Row
  <2>3. ~CancellationActive(s)
    BY <2>2 DEF CancellationActive
  <2> HIDE DEF s
  <2> QED
    BY <2>1, <2>2, <2>3, ResultWrites
<1>5. CASE ReservationFailed(e)
  <2> DEFINE s == [b EXCEPT !.business = "REJECTED", !.reservation = "NOT_RESERVED",
                            !.reservation_id = NoId, !.rejection_reason = e.reason]
  <2>1. /\ Claim(e) /\ Write(o, s) /\ UNCHANGED <<commands, events>>
    BY <1>5 DEF ReservationFailed, Handle, b
  <2>2. /\ s.version = r.version + 1 /\ s.business = "REJECTED" /\ s.operation = "NONE"
        /\ s.finalization_id = r.finalization_id /\ s.reservation_id = NoId
    BY <1>3 DEF Row
  <2>3. ~CancellationActive(s)
    BY <2>2 DEF CancellationActive
  <2> HIDE DEF s
  <2> QED
    BY <2>1, <2>2, <2>3, ResultWrites
<1>6. CASE CancelledWithoutReservation(e)
  <2> DEFINE s == [b EXCEPT !.business = "CANCELLED", !.reservation = "RELEASED"]
  <2>1. /\ Claim(e) /\ Write(o, s) /\ UNCHANGED <<commands, events>>
        /\ e.type = "StockReservationFailed" /\ CancellationActive(r)
    BY <1>6, DispositionMeans DEF CancelledWithoutReservation, Handle, b
  <2>2. /\ s.version = r.version + 1 /\ s.business = "CANCELLED"
        /\ s.finalization_id = r.finalization_id /\ s.reservation_id = r.reservation_id
    BY <1>3 DEF Row
  <2> HIDE DEF s
  <2> QED
    BY <2>1, <2>2, ResultWrites
<1>7. CASE CompensateLateSuccess(e)
  <2> DEFINE s == Compensated(r, e.reservation_id)
             sent == {ReleaseCommand(o, s)}
  <2>1. /\ Claim(e) /\ Write(o, s) /\ commands' = commands \cup sent /\ UNCHANGED events
        /\ e.type = "StockReservationSucceeded" /\ CancellationActive(r)
    BY <1>7, DispositionMeans DEF CompensateLateSuccess, Handle, Send
  <2>2. /\ s.version = r.version + 1 /\ s.business = r.business
        /\ s.finalization_id = r.finalization_id /\ s.reservation_id = e.reservation_id
    BY <1>2 DEF Compensated, Bumped, Row
  <2>3. r.business # "NOT_CREATED"
    BY <1>2, <2>1 DEF RowConsistent, CancellationActive, Idle
  <2> HIDE DEF s
  <2>4. orderInbox' = orderInbox \cup {e} /\ e \in Announced(o)
    BY <2>1 DEF Claim, Announced
  <2>5. HistoryStep(o, s, sent)
    BY <2>1, <2>2, <2>3, <2>4 DEF HistoryStep, ReleaseCommand, Releases
  <2> QED
    BY <1>1, <2>1, <2>5, OrderHistory
<1>8. CASE Finalized(e)
  <2> DEFINE s == [b EXCEPT !.business = "CONFIRMED"]
  <2>1. /\ Claim(e) /\ Write(o, s) /\ UNCHANGED <<commands, events>>
    BY <1>8 DEF Finalized, Handle, b
  <2>2. /\ s.version = r.version + 1 /\ s.business = "CONFIRMED" /\ s.operation = "NONE"
        /\ s.finalization_id = r.finalization_id /\ s.reservation_id = r.reservation_id
    BY <1>3 DEF Row
  <2>3. ~CancellationActive(s)
    BY <2>2 DEF CancellationActive
  <2> HIDE DEF s
  <2> QED
    BY <2>1, <2>2, <2>3, ResultWrites
<1>9. CASE Released(e)
  <2> DEFINE s == [b EXCEPT !.business = ReleaseOutcome(r), !.reservation = "RELEASED"]
  <2>1. /\ Claim(e) /\ Write(o, s) /\ UNCHANGED <<commands, events>>
        /\ e.type = "StockReleased" /\ r.operation = ExpectedOperation(r, e)
    BY <1>9, DispositionMeans DEF Released, Handle, b
  <2>2. ReleaseOpen(r)
    BY <1>1, <1>2, <2>1, ExpectedIsOpen DEF ReleaseEvents
  <2>3. /\ s.version = r.version + 1 /\ s.business = r.target /\ s.operation = "NONE"
        /\ s.finalization_id = r.finalization_id /\ s.reservation_id = r.reservation_id
    BY <1>3 DEF Row, ReleaseOutcome
  <2>4. r.target # "NOT_CREATED" /\ (r.target = "CANCELLED" => CancellationActive(r))
    BY <1>2, <2>2 DEF ReleaseOpen, CancellationActive, ReleasePending, RowConsistent, Row
  <2>5. CancellationActive(s) => CancellationActive(r)
    BY <2>3, <2>4 DEF CancellationActive
  <2> HIDE DEF s
  <2> QED
    BY <2>1, <2>3, <2>4, <2>5, ResultWrites
<1>10. CASE FinalizationFailed(e)
  <2> DEFINE s == [Bumped(r) EXCEPT !.operation = "FAILED", !.failure_phase = "CONFIRMATION",
                                    !.failure_reason = e.reason]
  <2>1. /\ Claim(e) /\ Write(o, s) /\ UNCHANGED <<commands, events>>
        /\ e.type = "StockFinalizationFailed" /\ r.operation = ExpectedOperation(r, e)
    BY <1>10, DispositionMeans DEF FinalizationFailed, Handle
  <2>2. ConfirmationOpen(r)
    BY <1>1, <1>2, <2>1, ExpectedIsOpen DEF FinalizationEvents
  <2>3. /\ s.version = r.version + 1 /\ s.business = r.business /\ s.operation = "FAILED"
        /\ s.target = r.target
        /\ s.finalization_id = r.finalization_id /\ s.reservation_id = r.reservation_id
    BY <1>2 DEF Row, Bumped
  <2>4. r.business = "RESERVED" /\ r.target # "CANCELLED"
    BY <1>2, <2>2 DEF ConfirmationOpen, RowConsistent
  <2>5. ~CancellationActive(s)
    BY <2>3, <2>4 DEF CancellationActive
  <2> HIDE DEF s
  <2> QED
    BY <2>1, <2>3, <2>4, <2>5, ResultWrites
<1>11. CASE ReleaseFailed(e)
  <2> DEFINE s == [Bumped(r) EXCEPT !.operation = "FAILED", !.failure_phase = "RELEASE",
                                    !.failure_reason = e.reason, !.reservation = "UNKNOWN"]
  <2>1. /\ Claim(e) /\ Write(o, s) /\ UNCHANGED <<commands, events>>
        /\ e.type = "StockReleaseFailed" /\ r.operation = ExpectedOperation(r, e)
    BY <1>11, DispositionMeans DEF ReleaseFailed, Handle
  <2>2. ReleaseOpen(r)
    BY <1>1, <1>2, <2>1, ExpectedIsOpen DEF ReleaseEvents
  <2>3. /\ s.version = r.version + 1 /\ s.business = r.business /\ s.operation = "FAILED"
        /\ s.target = r.target
        /\ s.finalization_id = r.finalization_id /\ s.reservation_id = r.reservation_id
    BY <1>2 DEF Row, Bumped
  <2>4. /\ r.business # "NOT_CREATED"
        /\ r.target = "CANCELLED" \/ r.business = "CANCELLED" => CancellationActive(r)
    BY <1>2, <2>2 DEF ReleaseOpen, CancellationActive, ReleasePending, RowConsistent, Idle
  <2>5. CancellationActive(s) => CancellationActive(r)
    BY <2>3, <2>4 DEF CancellationActive
  <2> HIDE DEF s
  <2> QED
    BY <2>1, <2>3, <2>4, <2>5, ResultWrites
<1> QED
  BY <1>4, <1>5, <1>6, <1>7, <1>8, <1>9, <1>10, <1>11, IgnoreHistory DEF ResultStep

-----------------------------------------------------------------------------
(* The products and what is reserved of them *)

\* Where the reserved stock moves with what one reservation holds, it stays
\* what all of them hold.
LEMMA LedgerMoves ==
  ASSUME SagaInvariant, SagaInvariant', ReservedIsHeld, NEW o \in Order,
         \A x \in Order \ {o} : held'[x] = held[x],
         \A p \in Product : products'[p].reserved = products[p].reserved - held[o][p] + held'[o][p]
  PROVE  ReservedIsHeld'
<1>1. held \in [Order -> [Product -> Nat]] /\ held' \in [Order -> [Product -> Nat]]
  BY DEF SagaInvariant, TypeOK, SupplierTypeOK
<1> SUFFICES ASSUME NEW p \in Product PROVE products'[p].reserved = HeldOf(p)'
  BY DEF ReservedIsHeld
<1> DEFINE q == [x \in Order |-> held[x][p]]
           t == [x \in Order |-> held'[x][p]]
<1>2. q \in [Order -> Nat] /\ t \in [Order -> Nat]
  BY <1>1
<1>3. q[o] = held[o][p] /\ t[o] = held'[o][p] /\ \A x \in Order \ {o} : t[x] = q[x]
  OBVIOUS
<1>4. HeldOf(p) = SumOf(q) /\ HeldOf(p)' = SumOf(t)
  BY DEF HeldOf
<1> HIDE DEF q, t
<1>5. SumOf(t) = SumOf(q) - q[o] + t[o]
  BY <1>2, <1>3, OrderAssumption, SumChanges
<1> QED
  BY <1>3, <1>4, <1>5 DEF ReservedIsHeld

\* What a reservation holds is in the reserved stock.
LEMMA HeldIsReserved ==
  ASSUME SagaInvariant, ReservedIsHeld, NEW o \in Order, NEW p \in Product
  PROVE  /\ held[o][p] \in Nat /\ products[p].reserved \in Nat /\ products[p].stocks \in Nat
         /\ held[o][p] <= products[p].reserved
         /\ products[p].reserved <= products[p].stocks
<1>1. held \in [Order -> [Product -> Nat]] /\ products[p] \in ProductRow
  BY DEF SagaInvariant, TypeOK, SupplierTypeOK
<1> DEFINE q == [x \in Order |-> held[x][p]]
<1>2. q \in [Order -> Nat] /\ q[o] = held[o][p]
  BY <1>1
<1>3. HeldOf(p) = SumOf(q)
  BY DEF HeldOf
<1> HIDE DEF q
<1>4. held[o][p] <= products[p].reserved
  BY <1>2, <1>3, OrderAssumption, RowWithinSum DEF ReservedIsHeld
<1> QED
  BY <1>1, <1>4 DEF ProductRow, SagaInvariant, NeverOversold

\* Nothing is held before a reservation.
LEMMA NothingHeld ==
  ASSUME SagaInvariant, NEW o \in Order, ~Active(o), NEW p \in Product
  PROVE  held[o][p] = 0
BY DEF SagaInvariant, HoldsWholeOrder

\* While its products are the supplier's, the stock of an active reservation
\* is there to be moved.
LEMMA ReservationIntact ==
  ASSUME SagaInvariant, ReservedIsHeld, Owned, NEW o \in Order, Active(o)
  PROVE  ItemsIntact(o) /\ Deductible(o)
<1> SUFFICES ASSUME NEW p \in Items(o)
             PROVE  /\ products[p].owned /\ held[o][p] > 0
                    /\ products[p].reserved >= held[o][p]
                    /\ products[p].stocks >= held[o][p]
  BY DEF ItemsIntact, Deductible
<1>1. p \in Product /\ Demand[o][p] > 0
  BY DEF Items
<1>2. held[o][p] = Demand[o][p]
  BY <1>1 DEF SagaInvariant, HoldsWholeOrder
<1> QED
  BY <1>1, <1>2, HeldIsReserved DEF Owned

-----------------------------------------------------------------------------
(* The supplier refuses neither a sale nor a give-back *)

\* An order is committed to one of the two ways out.
LEMMA OneWayOut ==
  ASSUME NEW r \in Row, RowConsistent(r)
  PROVE  ~(Confirming(r) /\ Releasing(r))
BY DEF Confirming, Releasing, RowConsistent, Idle, Terminal, ReleasePending

\* A finalization finds its reservation, unsold and intact or sold by itself.
LEMMA FinalizationAccepted ==
  ASSUME SagaInvariant, HistoryInvariant, Owned, NEW c \in commands,
         c.type = "StockFinalizationRequested"
  PROVE  FinalizationRefusal(c) = NoReason
<1> DEFINE o == c.order
           r == orders[o]
           status == reservations[o].status
<1>1. o \in Order /\ Confirming(r)
  BY SupplierFacts DEF CommandCommits
<1>2. r \in Row /\ RowConsistent(r)
  BY <1>1, RowFacts
<1>3. /\ status \in ReservationStatus
      /\ BusinessFits(r, status)
      /\ status = "RELEASED" => Releasing(r)
  BY <1>1 DEF SagaInvariant, TypeOK, SupplierTypeOK, Reservation, SidesAgree
<1>4. r.business \in {"RESERVED", "CONFIRMED"}
  BY <1>1, <1>2 DEF Confirming, RowConsistent
<1>5. status \in {"RESERVED", "FINALIZED"}
  BY <1>1, <1>2, <1>3, <1>4, OneWayOut DEF BusinessFits, ReservationStatus
<1>6. ~Mismatched(c)
  BY DEF HistoryInvariant, IdsAgree, Mismatched
<1>7. status = "FINALIZED" => reservations[o].finalization_id = c.request_id
  BY <1>1 DEF HistoryInvariant, FinalizationsAgree
<1>8. status = "RESERVED" => Deductible(o)
  BY <1>1, ReservationIntact DEF Active, HistoryInvariant
<1> QED
  BY <1>5, <1>6, <1>7, <1>8 DEF FinalizationRefusal

\* A release finds no reservation, an ended one or an intact one.
LEMMA ReleaseAccepted ==
  ASSUME SagaInvariant, HistoryInvariant, Owned, NEW c \in commands,
         c.type = "StockReleaseRequested"
  PROVE  ReleaseRefusal(c) = NoReason
<1> DEFINE o == c.order
           r == orders[o]
           status == reservations[o].status
<1>1. o \in Order /\ Releasing(r)
  BY SupplierFacts DEF CommandCommits
<1>2. r \in Row /\ RowConsistent(r)
  BY <1>1, RowFacts
<1>3. status \in ReservationStatus /\ (status = "FINALIZED" => Confirming(r))
  BY <1>1 DEF SagaInvariant, TypeOK, SupplierTypeOK, Reservation, SidesAgree
<1>4. status # "FINALIZED"
  BY <1>1, <1>2, <1>3, OneWayOut
<1>5. ~Mismatched(c)
  BY DEF HistoryInvariant, IdsAgree, Mismatched
<1>6. status = "RESERVED" => ItemsIntact(o)
  BY <1>1, ReservationIntact DEF Active, HistoryInvariant
<1> QED
  BY <1>3, <1>4, <1>5, <1>6 DEF ReleaseRefusal, ReservationStatus

-----------------------------------------------------------------------------
(* Transactions of supplier-service *)

\* A handled command adds one event, which names the reservation there is; a
\* reservation gets its id once, and a new one is announced.
HandlingStep(c, type, id, reason, row) ==
  LET r == reservations[c.order]
  IN  /\ UNCHANGED <<orderVars, commands>>
      /\ supplierInbox' = supplierInbox \cup {c}
      /\ Answer(c, type, id, reason)
      /\ reservations' = [reservations EXCEPT ![c.order] = row]
      /\ row.id = r.id \/ r.status = "NONE"
      /\ row.status = "NONE" => row.id = NoId
      /\ row.status = "FINALIZED" => row.finalization_id = orders[c.order].finalization_id
      /\ row.status = "RESERVED" => Active(c.order) \/ type = "StockReservationSucceeded"
      /\ id \in {NoId, row.id}
      /\ type = "StockReservationSucceeded" => id # NoId

LEMMA HandledHistory ==
  ASSUME SagaInvariant, HistoryInvariant, ReservedIsHeld',
         NEW c \in commands, NEW type, NEW id, NEW reason, NEW row,
         HandlingStep(c, type, id, reason, row)
  PROVE  HistoryInvariant'
<1> DEFINE o == c.order
           e == [type |-> type, order |-> o, cause |-> c.id, reservation_id |-> id,
                 request_id |-> c.request_id, reason |-> reason]
<1>1. /\ o \in Order
      /\ \A d \in commands : d.order \in Order
      /\ \A d \in events : d.order \in Order
      /\ reservations \in [Order -> Reservation]
  BY SupplierFacts DEF SagaInvariant, TypeOK, SupplierTypeOK, ChannelTypeOK, Command, Event
<1>2. /\ UNCHANGED <<orders, orderInbox, commands>>
      /\ events' = events \cup {e}
      /\ supplierInbox' = supplierInbox \cup {c}
      /\ reservations'[o] = row
      /\ \A x \in Order \ {o} : reservations'[x] = reservations[x]
  BY <1>1 DEF HandlingStep, orderVars, Answer
<1>3. /\ row.id = reservations[o].id \/ reservations[o].status = "NONE"
      /\ row.status = "NONE" => row.id = NoId
      /\ row.status = "FINALIZED" => row.finalization_id = orders[o].finalization_id
      /\ row.status = "RESERVED" => Active(o) \/ type = "StockReservationSucceeded"
      /\ id \in {NoId, row.id}
      /\ type = "StockReservationSucceeded" => id # NoId
  BY DEF HandlingStep
<1>4. e.type = type /\ e.order = o /\ e.reservation_id = id
  OBVIOUS
<1> HIDE DEF e
<1>5. \A x \in Order : \A i \in {NoId, reservations[x].id} : i \in {NoId, reservations'[x].id}
  BY <1>2, <1>3 DEF HistoryInvariant, IdsAgree
<1>6. IdsAgree'
  <2>1. \A x \in Order : orders'[x].reservation_id \in {NoId, reservations'[x].id}
    BY <1>2, <1>5 DEF HistoryInvariant, IdsAgree
  <2>2. \A d \in commands' : d.reservation_id \in {NoId, reservations'[d.order].id}
    BY <1>1, <1>2, <1>5 DEF HistoryInvariant, IdsAgree
  <2>3. \A d \in events' :
          /\ d.reservation_id \in {NoId, reservations'[d.order].id}
          /\ d.type = "StockReservationSucceeded" => d.reservation_id # NoId
    BY <1>1, <1>2, <1>3, <1>4, <1>5 DEF HistoryInvariant, IdsAgree
  <2>4. \A x \in Order : reservations'[x].status = "NONE" => reservations'[x].id = NoId
    BY <1>2, <1>3 DEF HistoryInvariant, IdsAgree
  <2> QED
    BY <2>1, <2>2, <2>3, <2>4 DEF IdsAgree
<1>7. FinalizationsAgree'
  BY <1>2, <1>3 DEF HistoryInvariant, FinalizationsAgree
<1>8. CommandsNumbered' /\ HandledWasSent' /\ AbsentUntilCreated'
  BY <1>2, <1>3 DEF HistoryInvariant, CommandsNumbered, HandledWasSent, AbsentUntilCreated
<1>9. ReservationsAnnounced'
  <2>1. \A x : Announced(x) \subseteq Announced(x)'
    BY <1>2 DEF Announced
  <2>2. type = "StockReservationSucceeded" => e \in Announced(o)'
    BY <1>2, <1>4 DEF Announced
  <2>3. \A x \in Order : Active(x)' => Announced(x)' # {}
    BY <1>2, <1>3, <2>1, <2>2 DEF Active, HistoryInvariant, ReservationsAnnounced
  <2>4. \A x \in Order : orders'[x].reservation_id # NoId => Announced(x)' \cap orderInbox' # {}
    BY <1>2, <2>1 DEF HistoryInvariant, ReservationsAnnounced
  <2> QED
    BY <2>3, <2>4 DEF ReservationsAnnounced
<1> QED
  BY <1>6, <1>7, <1>8, <1>9 DEF HistoryInvariant

\* A handled command leaves the releases on their way, unless it is one and
\* the stock is back.
LEMMA HandledSeen ==
  ASSUME SeenHoldIsReleased,
         NEW c \in commands, UNCHANGED <<orderVars, commands>>,
         supplierInbox' = supplierInbox \cup {c},
         NEW type, type # "StockReservationSucceeded", NEW id, NEW reason,
         Answer(c, type, id, reason),
         \A x \in Order : Active(x)' => Active(x),
         c.type = "StockReleaseRequested" => ~Active(c.order)'
  PROVE  SeenHoldIsReleased'
<1>1. UNCHANGED <<orders, orderInbox, commands>>
  BY DEF orderVars
<1>2. \A x : Announced(x)' = Announced(x)
  BY DEF Announced, Answer
<1> SUFFICES ASSUME NEW x \in Order, CancellationActive(orders[x]), Active(x)',
                    Announced(x) \cap orderInbox # {}
             PROVE  \E d \in commands \ supplierInbox' :
                      d.order = x /\ d.type = "StockReleaseRequested"
  BY <1>1, <1>2 DEF SeenHoldIsReleased
<1>3. PICK d \in commands \ supplierInbox : d.order = x /\ d.type = "StockReleaseRequested"
  BY DEF SeenHoldIsReleased
<1>4. d # c
  BY <1>3
<1> QED
  BY <1>3, <1>4

\* What a transaction of supplier-service keeps.
SupplierHistoryKept ==
  HistoryInvariant' /\ (Owned /\ SeenHoldIsReleased => SeenHoldIsReleased')

\* A new reservation: nobody had heard of one.
LEMMA ReserveHistory ==
  ASSUME SagaInvariant, SagaInvariant', HistoryInvariant, NEW c \in commands, ReserveStock(c),
         UNCHANGED orderVars
  PROVE  SupplierHistoryKept
<1> DEFINE o == c.order
           row == [status |-> "RESERVED", id |-> c.id, finalization_id |-> NoId]
<1>1. /\ UNCHANGED commands /\ supplierInbox' = supplierInbox \cup {c}
      /\ reservations[o].status = "NONE"
      /\ products' = [p \in Product |-> [products[p] EXCEPT !.reserved = @ + Demand[o][p]]]
      /\ reservations' = [reservations EXCEPT ![o] = row]
      /\ held' = [held EXCEPT ![o] = Demand[o]]
      /\ Answer(c, "StockReservationSucceeded", c.id, NoReason)
  BY DEF ReserveStock, Accept
<1>2. o \in Order /\ SupplierTypeOK /\ c.id # NoId
  BY SupplierFacts DEF HistoryInvariant, CommandsNumbered
<1>3. /\ \A x \in Order \ {o} : held'[x] = held[x]
      /\ held'[o] = Demand[o]
  BY <1>1, <1>2 DEF SupplierTypeOK
<1>4. \A p \in Product : products'[p].reserved = products[p].reserved - held[o][p] + held'[o][p]
  <2> SUFFICES ASSUME NEW p \in Product
               PROVE  products'[p].reserved = products[p].reserved - held[o][p] + held'[o][p]
    OBVIOUS
  <2>1. products[p] \in ProductRow /\ Demand[o][p] \in Nat
    BY <1>2, DemandAssumption DEF SupplierTypeOK
  <2>2. products'[p].reserved = products[p].reserved + Demand[o][p]
    BY <1>1, <2>1 DEF ProductRow
  <2>3. held[o][p] = 0
    BY <1>1, <1>2, NothingHeld DEF Active
  <2> QED
    BY <1>3, <2>1, <2>2, <2>3 DEF ProductRow
<1>5. ReservedIsHeld'
  BY <1>2, <1>3, <1>4, LedgerMoves DEF HistoryInvariant
<1>6. HandlingStep(c, "StockReservationSucceeded", c.id, NoReason, row)
  BY <1>1, <1>2 DEF HandlingStep
<1> HIDE DEF row
<1>7. HistoryInvariant'
  BY <1>5, <1>6, HandledHistory
<1>8. ASSUME SeenHoldIsReleased PROVE SeenHoldIsReleased'
  <2>1. UNCHANGED <<orders, orderInbox>> /\ orderInbox \subseteq events
    BY DEF orderVars, HistoryInvariant, HandledWasSent
  <2>2. \A x : Announced(x)' \cap orderInbox = Announced(x) \cap orderInbox
    BY <1>1, <2>1 DEF Announced, Answer
  <2>3. Announced(o) = {}
    BY <1>1 DEF Announced, SagaInvariant, EventsHold, EventHolds
  <2>4. \A x \in Order : x # o => (Active(x)' <=> Active(x))
    BY <1>1, <1>2 DEF SupplierTypeOK, Active
  <2>5. c.type # "StockReleaseRequested"
    BY DEF ReserveStock, Accept
  <2> SUFFICES ASSUME NEW x \in Order, CancellationActive(orders[x]), Active(x)',
                      Announced(x) \cap orderInbox # {}
               PROVE  \E d \in commands \ supplierInbox' :
                        d.order = x /\ d.type = "StockReleaseRequested"
    BY <1>1, <2>1, <2>2 DEF SeenHoldIsReleased
  <2>6. PICK d \in commands \ supplierInbox : d.order = x /\ d.type = "StockReleaseRequested"
    BY <1>8, <2>3, <2>4 DEF SeenHoldIsReleased
  <2> QED
    BY <1>1, <2>5, <2>6
<1> QED
  BY <1>7, <1>8 DEF SupplierHistoryKept

\* A refused reservation holds nothing.
LEMMA RefuseHistory ==
  ASSUME SagaInvariant, HistoryInvariant, NEW c \in commands, RefuseReservation(c),
         UNCHANGED orderVars
  PROVE  SupplierHistoryKept
<1> DEFINE o == c.order
           row == [status |-> "REJECTED", id |-> c.id, finalization_id |-> NoId]
<1>1. /\ UNCHANGED <<commands, products, held>> /\ supplierInbox' = supplierInbox \cup {c}
      /\ reservations[o].status = "NONE" /\ c.type = "StockReservationRequested"
      /\ reservations' = [reservations EXCEPT ![o] = row]
  BY DEF RefuseReservation, Accept
<1>2. PICK reason : Answer(c, "StockReservationFailed", NoId, reason)
  BY DEF RefuseReservation
<1>3. ReservedIsHeld'
  BY <1>1 DEF HistoryInvariant, ReservedIsHeld, HeldOf
<1>4. row.status = "REJECTED"
  OBVIOUS
<1>5. \A x \in Order : Active(x)' => Active(x)
  BY <1>1, SupplierFacts DEF SupplierTypeOK, Active
<1> HIDE DEF row
<1>6. HistoryInvariant'
  <2>1. HandlingStep(c, "StockReservationFailed", NoId, reason, row)
    BY <1>1, <1>2, <1>4 DEF HandlingStep
  <2> QED
    BY <1>3, <2>1, HandledHistory
<1>7. ASSUME SeenHoldIsReleased PROVE SeenHoldIsReleased'
  BY <1>1, <1>2, <1>5, <1>7, HandledSeen
<1> QED
  BY <1>6, <1>7 DEF SupplierHistoryKept

\* A deduction takes as much from the reserved stock as from the total.
LEMMA DeductedRow ==
  ASSUME NEW row \in ProductRow, NEW quantity \in Nat
  PROVE  /\ Deduct(row, quantity).reserved = row.reserved - quantity
         /\ Deduct(row, quantity).stocks = row.stocks - quantity
BY DEF Deduct, ProductRow

\* Sold stock is neither reserved nor held, and the finalization is that of the row.
LEMMA FinalizeHistory ==
  ASSUME SagaInvariant, SagaInvariant', HistoryInvariant, NEW c \in commands, FinalizeStock(c),
         UNCHANGED orderVars
  PROVE  SupplierHistoryKept
<1> DEFINE o == c.order
           row == [reservations[o] EXCEPT !.status = "FINALIZED", !.finalization_id = c.request_id]
<1>1. /\ UNCHANGED commands /\ supplierInbox' = supplierInbox \cup {c}
      /\ c.type = "StockFinalizationRequested" /\ Active(o)
      /\ products' = [p \in Product |-> Deduct(products[p], held[o][p])]
      /\ held' = [held EXCEPT ![o] = [p \in Product |-> 0]]
      /\ reservations' = [reservations EXCEPT 
           ![o].status = "FINALIZED", ![o].finalization_id = c.request_id]
      /\ Answer(c, "StockFinalized", reservations[o].id, NoReason)
  BY DEF FinalizeStock, Accept
<1>2. o \in Order /\ SupplierTypeOK /\ reservations[o] \in Reservation
  BY SupplierFacts DEF SupplierTypeOK
<1>3. /\ \A x \in Order \ {o} : held'[x] = held[x]
      /\ \A p \in Product : held'[o][p] = 0
  BY <1>1, <1>2 DEF SupplierTypeOK
<1>4. \A p \in Product : products'[p].reserved = products[p].reserved - held[o][p] + held'[o][p]
  <2> SUFFICES ASSUME NEW p \in Product
               PROVE  products'[p].reserved = products[p].reserved - held[o][p] + held'[o][p]
    OBVIOUS
  <2>1. products[p] \in ProductRow /\ held[o][p] \in Nat
    BY <1>2 DEF SupplierTypeOK
  <2>2. products'[p] = Deduct(products[p], held[o][p])
    BY <1>1
  <2>3. products'[p].reserved = products[p].reserved - held[o][p]
    BY <2>1, <2>2, DeductedRow
  <2> QED
    BY <1>3, <2>1, <2>3 DEF ProductRow
<1>5. ReservedIsHeld'
  BY <1>2, <1>3, <1>4, LedgerMoves DEF HistoryInvariant
<1>6. /\ reservations' = [reservations EXCEPT ![o] = row]
      /\ row.status = "FINALIZED" /\ row.id = reservations[o].id /\ row.finalization_id = c.request_id
  BY <1>1, <1>2 DEF Reservation, SupplierTypeOK
<1> HIDE DEF row
<1>7. \A x \in Order : Active(x)' => Active(x) /\ x # o
  BY <1>2, <1>6 DEF SupplierTypeOK, Active
<1>8. HistoryInvariant'
  <2>1. c.request_id = orders[o].finalization_id
    BY <1>1 DEF HistoryInvariant, FinalizationsAgree
  <2>2. HandlingStep(c, "StockFinalized", row.id, NoReason, row)
    BY <1>1, <1>6, <2>1 DEF HandlingStep
  <2> QED
    BY <1>5, <2>2, HandledHistory
<1>9. ASSUME SeenHoldIsReleased PROVE SeenHoldIsReleased'
  BY <1>1, <1>2, <1>7, <1>9, HandledSeen
<1> QED
  BY <1>8, <1>9 DEF SupplierHistoryKept

\* Stock given back is neither reserved nor held.
LEMMA ReleaseHistory ==
  ASSUME SagaInvariant, SagaInvariant', HistoryInvariant, NEW c \in commands, ReleaseStock(c),
         UNCHANGED orderVars
  PROVE  SupplierHistoryKept
<1> DEFINE o == c.order
           row == [reservations[o] EXCEPT !.status = "RELEASED"]
<1>1. /\ UNCHANGED commands /\ supplierInbox' = supplierInbox \cup {c}
      /\ c.type = "StockReleaseRequested" /\ Active(o)
      /\ products' = [p \in Product |-> [products[p] EXCEPT !.reserved = @ - held[o][p]]]
      /\ held' = [held EXCEPT ![o] = [p \in Product |-> 0]]
      /\ reservations' = [reservations EXCEPT ![o].status = "RELEASED"]
      /\ Answer(c, "StockReleased", reservations[o].id, NoReason)
  BY DEF ReleaseStock, Accept
<1>2. o \in Order /\ SupplierTypeOK /\ reservations[o] \in Reservation
  BY SupplierFacts DEF SupplierTypeOK
<1>3. /\ \A x \in Order \ {o} : held'[x] = held[x]
      /\ \A p \in Product : held'[o][p] = 0
  BY <1>1, <1>2 DEF SupplierTypeOK
<1>4. \A p \in Product : products'[p].reserved = products[p].reserved - held[o][p] + held'[o][p]
  <2> SUFFICES ASSUME NEW p \in Product
               PROVE  products'[p].reserved = products[p].reserved - held[o][p] + held'[o][p]
    OBVIOUS
  <2>1. products[p] \in ProductRow /\ held[o][p] \in Nat
    BY <1>2 DEF SupplierTypeOK
  <2>2. products'[p].reserved = products[p].reserved - held[o][p]
    BY <1>1, <2>1 DEF ProductRow
  <2> QED
    BY <1>3, <2>1, <2>2 DEF ProductRow
<1>5. ReservedIsHeld'
  BY <1>2, <1>3, <1>4, LedgerMoves DEF HistoryInvariant
<1>6. /\ reservations' = [reservations EXCEPT ![o] = row]
      /\ row.status = "RELEASED" /\ row.id = reservations[o].id
  BY <1>1, <1>2 DEF Reservation, SupplierTypeOK
<1> HIDE DEF row
<1>7. \A x \in Order : Active(x)' => Active(x) /\ x # o
  BY <1>2, <1>6 DEF SupplierTypeOK, Active
<1>8. HistoryInvariant'
  <2>1. HandlingStep(c, "StockReleased", row.id, NoReason, row)
    BY <1>1, <1>6 DEF HandlingStep
  <2> QED
    BY <1>5, <2>1, HandledHistory
<1>9. ASSUME SeenHoldIsReleased PROVE SeenHoldIsReleased'
  BY <1>1, <1>2, <1>7, <1>9, HandledSeen
<1> QED
  BY <1>8, <1>9 DEF SupplierHistoryKept

\* An answer that moves no stock names the reservation there is, or the one
\* the command names.
LEMMA AnswerHistory ==
  ASSUME SagaInvariant, HistoryInvariant, NEW c \in commands,
         UNCHANGED <<orderVars, commands, stockVars>>, supplierInbox' = supplierInbox \cup {c},
         NEW type \in LifecycleEvents, NEW reason, Answer(c, type, AnsweredId(c), reason)
  PROVE  /\ HistoryInvariant'
         /\ \A x : Active(x)' <=> Active(x)
         /\ type # "StockReservationSucceeded"
<1> DEFINE o == c.order
           row == reservations[o]
           id == AnsweredId(c)
<1>1. o \in Order /\ SupplierTypeOK
  BY SupplierFacts
<1>2. UNCHANGED <<products, reservations, held>>
  BY DEF stockVars
<1>3. reservations' = [reservations EXCEPT ![o] = row]
  BY <1>1, <1>2 DEF SupplierTypeOK
<1>4. ReservedIsHeld'
  BY <1>2 DEF HistoryInvariant, ReservedIsHeld, HeldOf
<1>5. id \in {NoId, row.id}
  BY DEF AnsweredId, HistoryInvariant, IdsAgree
<1>6. row.status = "NONE" => row.id = NoId
  BY <1>1 DEF HistoryInvariant, IdsAgree
<1>7. row.status = "FINALIZED" => row.finalization_id = orders[o].finalization_id
  BY <1>1 DEF HistoryInvariant, FinalizationsAgree
<1>8. row.status = "RESERVED" => Active(o)
  BY DEF Active
<1>9. type # "StockReservationSucceeded"
  BY DEF LifecycleEvents, FinalizationEvents, ReleaseEvents
<1>10. row.id = reservations[o].id
  OBVIOUS
<1> HIDE DEF row
<1>11. HistoryInvariant'
  <2>1. HandlingStep(c, type, id, reason, row)
    BY <1>3, <1>5, <1>6, <1>7, <1>8, <1>9, <1>10 DEF HandlingStep
  <2> QED
    BY <1>4, <2>1, HandledHistory
<1> QED
  BY <1>2, <1>9, <1>11 DEF Active

\* While the products are the supplier's, a release that moves no stock is
\* one of an order that holds none.
LEMMA AnswersHistory ==
  ASSUME SagaInvariant, HistoryInvariant, NEW c \in commands,
         AnswerFinalization(c) \/ AnswerRelease(c), UNCHANGED orderVars
  PROVE  SupplierHistoryKept
<1>1. CASE AnswerFinalization(c)
  <2> DEFINE reason == FinalizationRefusal(c)
             type == IF reason = NoReason THEN "StockFinalized" ELSE "StockFinalizationFailed"
  <2>1. /\ UNCHANGED <<orderVars, commands, stockVars>> /\ supplierInbox' = supplierInbox \cup {c}
        /\ Answer(c, type, AnsweredId(c), reason) /\ c.type = "StockFinalizationRequested"
    BY <1>1 DEF AnswerFinalization, Accept
  <2>2. type \in LifecycleEvents
    BY DEF LifecycleEvents, FinalizationEvents
  <2> HIDE DEF type, reason
  <2>3. HistoryInvariant' /\ (\A x : Active(x)' <=> Active(x)) /\ type # "StockReservationSucceeded"
    BY <2>1, <2>2, AnswerHistory
  <2>4. ASSUME SeenHoldIsReleased PROVE SeenHoldIsReleased'
    BY <2>1, <2>3, <2>4, HandledSeen
  <2> QED
    BY <2>3, <2>4 DEF SupplierHistoryKept
<1>2. CASE AnswerRelease(c)
  <2> DEFINE reason == ReleaseRefusal(c)
             type == IF reason = NoReason THEN "StockReleased" ELSE "StockReleaseFailed"
  <2>1. /\ UNCHANGED <<orderVars, commands, stockVars>> /\ supplierInbox' = supplierInbox \cup {c}
        /\ Answer(c, type, AnsweredId(c), reason) /\ c.type = "StockReleaseRequested"
        /\ Active(c.order) => reason # NoReason
    BY <1>2 DEF AnswerRelease, Accept
  <2>2. type \in LifecycleEvents
    BY DEF LifecycleEvents, ReleaseEvents
  <2>3. Owned => reason = NoReason
    BY <2>1, ReleaseAccepted
  <2> HIDE DEF type, reason
  <2>4. HistoryInvariant' /\ (\A x : Active(x)' <=> Active(x)) /\ type # "StockReservationSucceeded"
    BY <2>1, <2>2, AnswerHistory
  <2>5. ASSUME SeenHoldIsReleased, Owned PROVE SeenHoldIsReleased'
    BY <2>1, <2>3, <2>4, <2>5, HandledSeen
  <2> QED
    BY <2>4, <2>5 DEF SupplierHistoryKept
<1> QED
  BY <1>1, <1>2

\* A step that leaves the rows of orders and reservations and the messages
\* alone.
LEMMA QuietHistory ==
  ASSUME HistoryInvariant,
         UNCHANGED <<orders, orderInbox, commands, events, reservations, held, supplierInbox>>,
         \A p \in Product : products'[p].reserved = products[p].reserved
  PROVE  HistoryInvariant' /\ (SeenHoldIsReleased => SeenHoldIsReleased')
<1>1. /\ \A x : Announced(x)' = Announced(x)
      /\ \A x : Active(x)' <=> Active(x)
  BY DEF Announced, Active
<1>2. ReservedIsHeld' /\ IdsAgree' /\ FinalizationsAgree' /\ CommandsNumbered'
        /\ HandledWasSent' /\ AbsentUntilCreated'
  BY DEF HistoryInvariant, ReservedIsHeld, HeldOf, IdsAgree, FinalizationsAgree,
         CommandsNumbered, HandledWasSent, AbsentUntilCreated
<1>3. ReservationsAnnounced'
  BY <1>1 DEF HistoryInvariant, ReservationsAnnounced
<1>4. SeenHoldIsReleased => SeenHoldIsReleased'
  BY <1>1 DEF SeenHoldIsReleased
<1> QED
  BY <1>2, <1>3, <1>4 DEF HistoryInvariant

\* An edit counts no stock, a recount reserves none.
LEMMA EditedRow ==
  ASSUME SagaInvariant, NEW p \in Product, EditProduct(p) \/ RecalculateStocks(p)
  PROVE  /\ \A x \in Product : products'[x].reserved = products[x].reserved
         /\ EditProduct(p) => \A x \in Product : products'[x].stocks = products[x].stocks
<1>1. \A x \in Product : products[x] \in ProductRow
  BY DEF SagaInvariant, TypeOK, SupplierTypeOK
<1>2. products \in [Product -> ProductRow]
  BY DEF SagaInvariant, TypeOK, SupplierTypeOK
<1>3. CASE EditProduct(p)
  <2>1. PICK l \in Listings :
          products' = [products EXCEPT ![p].active = l.active, ![p].owned = l.owned]
    BY <1>3 DEF EditProduct
  <2> DEFINE row == [products[p] EXCEPT !.active = l.active, !.owned = l.owned]
  <2>2. products' = [products EXCEPT ![p] = row]
    BY <1>1, <1>2, <2>1 DEF ProductRow
  <2>3. row.reserved = products[p].reserved /\ row.stocks = products[p].stocks
    BY <1>1 DEF ProductRow
  <2> HIDE DEF row
  <2> QED
    BY <1>2, <2>2, <2>3
<1>4. CASE RecalculateStocks(p)
  <2>1. PICK total \in Totals : products' = [products EXCEPT ![p].stocks = total]
    BY <1>4 DEF RecalculateStocks
  <2> DEFINE row == [products[p] EXCEPT !.stocks = total]
  <2>2. products' = [products EXCEPT ![p] = row] /\ row.reserved = products[p].reserved
    BY <1>1, <1>2, <2>1 DEF ProductRow
  <2>3. \A x \in Product : products'[x].reserved = products[x].reserved
    BY <1>2, <2>2
  <2> QED
    BY <1>3, <2>3
<1> QED
  BY <1>3, <1>4

LEMMA SupplierStepHistory ==
  ASSUME SagaInvariant, SagaInvariant', HistoryInvariant, SupplierStep, UNCHANGED orderVars
  PROVE  SupplierHistoryKept
<1>1. ASSUME NEW c \in commands, CommandStep(c) PROVE SupplierHistoryKept
  BY <1>1, ReserveHistory, RefuseHistory, FinalizeHistory, ReleaseHistory, AnswersHistory
     DEF CommandStep
<1>2. ASSUME NEW p \in Product, EditProduct(p) \/ RecalculateStocks(p) PROVE SupplierHistoryKept
  <2>1. /\ UNCHANGED <<orders, orderInbox, commands, events, reservations, held, supplierInbox>>
        /\ \A x \in Product : products'[x].reserved = products[x].reserved
    BY <1>2, EditedRow DEF EditProduct, RecalculateStocks, channelVars, orderVars
  <2> QED
    BY <2>1, QuietHistory DEF SupplierHistoryKept
<1> QED
  BY <1>1, <1>2 DEF SupplierStep

-----------------------------------------------------------------------------
(* The stock ledger *)

\* The history starts empty.
LEMMA InitHistory == Init => HistoryInvariant /\ SeenHoldIsReleased
<1> SUFFICES ASSUME Init PROVE HistoryInvariant /\ SeenHoldIsReleased
  OBVIOUS
<1>1. /\ commands = {} /\ events = {} /\ orderInbox = {} /\ supplierInbox = {}
      /\ \A o \in Order : orders[o] = Absent
      /\ \A o \in Order : reservations[o].status = "NONE" /\ reservations[o].id = NoId
  BY DEF Init, ChannelInit, OrderInit, SupplierInit
<1>2. ReservedIsHeld
  <2> SUFFICES ASSUME NEW p \in Product PROVE products[p].reserved = HeldOf(p)
    BY DEF ReservedIsHeld
  <2> DEFINE q == [o \in Order |-> held[o][p]]
  <2>1. products[p].reserved = 0 /\ q \in [Order -> Nat] /\ \A o \in Order : q[o] = 0
    BY DEF Init, SupplierInit
  <2>2. HeldOf(p) = SumOf(q)
    BY DEF HeldOf
  <2> HIDE DEF q
  <2> QED
    BY <2>1, <2>2, SumOfNone
<1>3. IdsAgree /\ FinalizationsAgree /\ CommandsNumbered /\ HandledWasSent /\ AbsentUntilCreated
  BY <1>1 DEF IdsAgree, FinalizationsAgree, CommandsNumbered, HandledWasSent, AbsentUntilCreated,
              Absent
<1>4. ReservationsAnnounced /\ SeenHoldIsReleased
  BY <1>1 DEF ReservationsAnnounced, SeenHoldIsReleased, Active, Absent
<1> QED
  BY <1>2, <1>3, <1>4 DEF HistoryInvariant

\* Every step keeps the history and, while the products are the supplier's,
\* the releases that are on their way.
LEMMA NextHistory ==
  SagaInvariant /\ SagaInvariant' /\ HistoryInvariant /\ [Next]_vars =>
    HistoryInvariant' /\ (Owned /\ SeenHoldIsReleased => SeenHoldIsReleased')
<1> SUFFICES ASSUME SagaInvariant, SagaInvariant', HistoryInvariant, [Next]_vars
             PROVE  SupplierHistoryKept
  BY DEF SupplierHistoryKept
<1>1. CASE OrderStep /\ UNCHANGED supplierVars
  <2>1. HistoryKept
    BY <1>1, UserHistory, WorkerHistory, ResultHistory DEF OrderStep
  <2> QED
    BY <2>1 DEF HistoryKept, SupplierHistoryKept
<1>2. CASE SupplierStep /\ UNCHANGED orderVars
  BY <1>2, SupplierStepHistory
<1>3. CASE UNCHANGED vars \/ \E m \in commands \cup events : AbandonMessage(m)
  <2>1. UNCHANGED <<orders, orderInbox, commands, events, products, reservations, held,
                    supplierInbox>>
    BY <1>3 DEF AbandonMessage, vars, channelVars, orderVars, supplierVars
  <2> QED
    BY <2>1, QuietHistory DEF SupplierHistoryKept
<1> QED
  BY <1>1, <1>2, <1>3 DEF Next

\* The reservations, commands and events of an order always name one
\* reservation and one finalization, and reserved stock is held stock.
THEOREM HistoryInvariance == Spec => []HistoryInvariant
<1>1. Init => HistoryInvariant
  BY InitHistory
<1>2. SagaInvariant /\ SagaInvariant' /\ HistoryInvariant /\ [Next]_vars => HistoryInvariant'
  BY NextHistory
<1> QED
  BY <1>1, <1>2, Invariance, PTL DEF Spec

\* The reserved stock of a product is exactly what the active reservations
\* hold, whatever competes and whatever is repeated (reservation.py,
\* stock_lifecycle.py).
THEOREM LedgerBalances == Spec => []StockLedger
<1>1. SagaInvariant /\ HistoryInvariant => StockLedger
  BY DEF SagaInvariant, HistoryInvariant, ReservedIsHeld, StockLedger
<1> QED
  BY <1>1, Invariance, HistoryInvariance, PTL

-----------------------------------------------------------------------------
(* What was sold *)

Sold(o) == reservations[o].status = "FINALIZED"

\* A step that sells nothing and counts nothing.
LEMMA NothingSold ==
  ASSUME SoldExactlyOnce, \A x \in Order : Sold(x)' <=> Sold(x),
         \A p \in Product : products'[p].stocks = products[p].stocks
  PROVE  SoldExactlyOnce'
<1> SUFFICES ASSUME NEW p \in Product PROVE SoldOf(p)' = SoldOf(p)
  BY DEF SoldExactlyOnce
<1>1. [x \in Order |-> IF reservations'[x].status = "FINALIZED" THEN Demand[x][p] ELSE 0]
      = [x \in Order |-> IF reservations[x].status = "FINALIZED" THEN Demand[x][p] ELSE 0]
  BY DEF Sold
<1> QED
  BY <1>1 DEF SoldOf

\* A finalization sells the whole order, which was not sold before.
LEMMA FinalizeSells ==
  ASSUME SagaInvariant, SoldExactlyOnce, NEW c \in commands, FinalizeStock(c)
  PROVE  SoldExactlyOnce'
<1> DEFINE o == c.order
<1>1. /\ Active(o)
      /\ products' = [p \in Product |-> Deduct(products[p], held[o][p])]
      /\ reservations' = [reservations EXCEPT
           ![o].status = "FINALIZED", ![o].finalization_id = c.request_id]
  BY DEF FinalizeStock
<1>2. o \in Order /\ SupplierTypeOK
  BY SupplierFacts
<1>3. /\ reservations[o].status = "RESERVED" /\ reservations'[o].status = "FINALIZED"
      /\ \A x \in Order \ {o} : reservations'[x] = reservations[x]
  BY <1>1, <1>2 DEF Active, SupplierTypeOK, Reservation
<1> SUFFICES ASSUME NEW p \in Product
             PROVE  products'[p].stocks + SoldOf(p)' = InitialStock[p]
  BY DEF SoldExactlyOnce
<1> DEFINE q == [x \in Order |-> IF reservations[x].status = "FINALIZED" THEN Demand[x][p] ELSE 0]
           t == [x \in Order |-> IF reservations'[x].status = "FINALIZED" THEN Demand[x][p] ELSE 0]
<1>4. q \in [Order -> Nat] /\ t \in [Order -> Nat]
  BY DemandAssumption
<1>5. q[o] = 0 /\ t[o] = Demand[o][p] /\ \A x \in Order \ {o} : t[x] = q[x]
  BY <1>2, <1>3
<1>6. SoldOf(p) = SumOf(q) /\ SoldOf(p)' = SumOf(t)
  BY DEF SoldOf
<1> HIDE DEF q, t
<1>7. SumOf(t) = SumOf(q) - q[o] + t[o]
  BY <1>2, <1>4, <1>5, OrderAssumption, SumChanges
<1>8. SumOf(q) \in Nat
  BY <1>4, OrderAssumption, SumIsNat
<1>9. products[p] \in ProductRow /\ held[o][p] \in Nat /\ held[o][p] = Demand[o][p]
  BY <1>1, <1>2 DEF SupplierTypeOK, SagaInvariant, HoldsWholeOrder
<1>10. products'[p].stocks = products[p].stocks - held[o][p]
  <2>1. products'[p] = Deduct(products[p], held[o][p])
    BY <1>1
  <2> QED
    BY <1>9, <2>1, DeductedRow
<1>11. products[p].stocks + SumOf(q) = InitialStock[p]
  BY <1>6 DEF SoldExactlyOnce
<1> QED
  BY <1>5, <1>6, <1>7, <1>8, <1>9, <1>10, <1>11 DEF ProductRow

\* Reservations and releases leave the total alone, and sell nothing.
LEMMA OthersSellNothing ==
  ASSUME SagaInvariant, SoldExactlyOnce, NEW c \in commands, CommandStep(c), ~FinalizeStock(c)
  PROVE  SoldExactlyOnce'
<1> DEFINE o == c.order
<1>1. o \in Order /\ SupplierTypeOK /\ \A p \in Product : products[p] \in ProductRow
  BY SupplierFacts DEF SupplierTypeOK
<1>2. CASE ReserveStock(c)
  <2>1. /\ reservations[o].status = "NONE"
        /\ products' = [p \in Product |-> [products[p] EXCEPT !.reserved = @ + Demand[o][p]]]
        /\ reservations' = [reservations EXCEPT ![o] =
             [status |-> "RESERVED", id |-> c.id, finalization_id |-> NoId]]
    BY <1>2 DEF ReserveStock
  <2>2. \A p \in Product : products'[p].stocks = products[p].stocks
    BY <1>1, <2>1 DEF ProductRow
  <2>3. \A x \in Order : Sold(x)' <=> Sold(x)
    BY <1>1, <2>1 DEF Sold, SupplierTypeOK
  <2> QED
    BY <2>2, <2>3, NothingSold
<1>3. CASE RefuseReservation(c)
  <2>1. /\ reservations[o].status = "NONE" /\ UNCHANGED products
        /\ reservations' = [reservations EXCEPT ![o] =
             [status |-> "REJECTED", id |-> c.id, finalization_id |-> NoId]]
    BY <1>3 DEF RefuseReservation
  <2>2. \A x \in Order : Sold(x)' <=> Sold(x)
    BY <1>1, <2>1 DEF Sold, SupplierTypeOK
  <2> QED
    BY <2>1, <2>2, NothingSold
<1>4. CASE ReleaseStock(c)
  <2>1. /\ Active(o)
        /\ products' = [p \in Product |-> [products[p] EXCEPT !.reserved = @ - held[o][p]]]
        /\ reservations' = [reservations EXCEPT ![o].status = "RELEASED"]
    BY <1>4 DEF ReleaseStock
  <2>2. \A p \in Product : products'[p].stocks = products[p].stocks
    BY <1>1, <2>1 DEF ProductRow
  <2>3. \A x \in Order : Sold(x)' <=> Sold(x)
    BY <1>1, <2>1 DEF Sold, Active, SupplierTypeOK, Reservation
  <2> QED
    BY <2>2, <2>3, NothingSold
<1>5. CASE AnswerFinalization(c) \/ AnswerRelease(c)
  <2>1. UNCHANGED <<products, reservations>>
    BY <1>5 DEF AnswerFinalization, AnswerRelease, stockVars
  <2> QED
    BY <2>1, NothingSold DEF Sold
<1> QED
  BY <1>2, <1>3, <1>4, <1>5 DEF CommandStep

\* As long as nobody counts stock again, a product has lost exactly what its
\* finalized reservations sold, however often a finalization is repeated
\* (StockLifecycleService._finalize).
THEOREM StockSoldOnce ==
  ASSUME Totals = {}
  PROVE  Spec => []SoldExactlyOnce
<1>1. Init => SoldExactlyOnce
  <2> SUFFICES ASSUME Init, NEW p \in Product PROVE products[p].stocks + SoldOf(p) = InitialStock[p]
    BY DEF SoldExactlyOnce
  <2> DEFINE q == [x \in Order |-> IF reservations[x].status = "FINALIZED" THEN Demand[x][p] ELSE 0]
  <2>1. q \in [Order -> Nat] /\ \A x \in Order : q[x] = 0
    BY DEF Init, SupplierInit
  <2>2. SoldOf(p) = SumOf(q)
    BY DEF SoldOf
  <2>3. products[p].stocks = InitialStock[p] /\ InitialStock[p] \in Nat
    BY StockAssumption DEF Init, SupplierInit
  <2> HIDE DEF q
  <2> QED
    BY <2>1, <2>2, <2>3, SumOfNone
<1>2. SagaInvariant /\ SoldExactlyOnce /\ [Next]_vars => SoldExactlyOnce'
  <2> SUFFICES ASSUME SagaInvariant, SoldExactlyOnce, [Next]_vars PROVE SoldExactlyOnce'
    OBVIOUS
  <2>1. ASSUME NEW c \in commands, CommandStep(c) PROVE SoldExactlyOnce'
    BY <2>1, FinalizeSells, OthersSellNothing
  <2>2. ASSUME NEW p \in Product, EditProduct(p) PROVE SoldExactlyOnce'
    <3>1. \A x \in Product : products'[x].stocks = products[x].stocks
      BY <2>2, EditedRow
    <3>2. \A x \in Order : Sold(x)' <=> Sold(x)
      BY <2>2 DEF EditProduct, Sold
    <3> QED
      BY <3>1, <3>2, NothingSold
  <2>3. \A p \in Product : ~RecalculateStocks(p)
    BY DEF RecalculateStocks
  <2>4. UNCHANGED <<products, reservations>> => SoldExactlyOnce'
    BY NothingSold DEF Sold
  <2> QED
    BY <2>1, <2>2, <2>3, <2>4
       DEF Next, SupplierStep, AbandonMessage, supplierVars, vars
<1> QED
  BY <1>1, <1>2, Invariance, PTL DEF Spec

-----------------------------------------------------------------------------
(* While no product changes hands *)

\* The supplier refuses neither a sale nor a give-back: the reservation a
\* command names is there and its stock is there to be moved
\* (StockLifecycleService._finalize and _release).
THEOREM NothingIsRefused == Spec /\ []Owned => []NothingRefused
<1>1. Init => NothingRefused
  BY DEF Init, ChannelInit, NothingRefused
<1>2. SagaInvariant /\ HistoryInvariant /\ Owned /\ NothingRefused /\ [Next]_vars => NothingRefused'
  <2> SUFFICES ASSUME SagaInvariant, HistoryInvariant, Owned, NothingRefused, [Next]_vars
               PROVE  NothingRefused'
    OBVIOUS
  <2> DEFINE Refused == {"StockFinalizationFailed", "StockReleaseFailed"}
  <2>1. ASSUME NEW c \in commands, NEW type, type \notin Refused, NEW id, NEW reason,
               Answer(c, type, id, reason)
        PROVE  NothingRefused'
    BY <2>1 DEF Answer, NothingRefused
  <2>2. UNCHANGED events => NothingRefused'
    BY DEF NothingRefused
  <2>3. ASSUME NEW c \in commands, CommandStep(c) PROVE NothingRefused'
    <3>1. CASE ReserveStock(c)
      BY <2>1, <3>1 DEF ReserveStock
    <3>2. CASE RefuseReservation(c)
      BY <2>1, <3>2 DEF RefuseReservation
    <3>3. CASE FinalizeStock(c)
      BY <2>1, <3>3 DEF FinalizeStock
    <3>4. CASE ReleaseStock(c)
      BY <2>1, <3>4 DEF ReleaseStock
    <3>5. CASE AnswerFinalization(c)
      <4>1. FinalizationRefusal(c) = NoReason
        BY <3>5, FinalizationAccepted DEF AnswerFinalization, Accept
      <4>2. Answer(c, "StockFinalized", AnsweredId(c), NoReason)
        BY <3>5, <4>1 DEF AnswerFinalization
      <4> QED
        BY <2>1, <4>2
    <3>6. CASE AnswerRelease(c)
      <4>1. ReleaseRefusal(c) = NoReason
        BY <3>6, ReleaseAccepted DEF AnswerRelease, Accept
      <4>2. Answer(c, "StockReleased", AnsweredId(c), NoReason)
        BY <3>6, <4>1 DEF AnswerRelease
      <4> QED
        BY <2>1, <4>2
    <3> QED
      BY <2>3, <3>1, <3>2, <3>3, <3>4, <3>5, <3>6 DEF CommandStep
  <2>4. OrderStep => UNCHANGED events
    <3>1. \A o \in Order : UserStep(o) => UNCHANGED events
      BY DEF UserStep, CreateOrder, ConfirmOrder, RejectOrder, CancelOrder
    <3>2. \A o \in Order : WorkerStep(o) => UNCHANGED events
      BY DEF WorkerStep, RetryOperation, ExhaustOperation, channelVars
    <3>3. \A e \in events : ResultStep(e) => UNCHANGED events
      BY DEF ResultStep, ReservationSucceeded, ReservationFailed, CancelledWithoutReservation,
             CompensateLateSuccess, Finalized, Released, FinalizationFailed, ReleaseFailed,
             IgnoreResult, DeadLetterResult, Handle, Claim, channelVars
    <3> QED
      BY <3>1, <3>2, <3>3 DEF OrderStep
  <2>5. \A p \in Product : EditProduct(p) \/ RecalculateStocks(p) => UNCHANGED events
    BY DEF EditProduct, RecalculateStocks, channelVars
  <2> QED
    BY <2>2, <2>3, <2>4, <2>5 DEF Next, SupplierStep, AbandonMessage, vars, channelVars
<1> QED
  BY <1>1, <1>2, Invariance, HistoryInvariance, PTL DEF Spec

\* The stock of a cancelled order is on its way back: the event that announces
\* its reservation has yet to be seen, or a release has yet to be handled.
THEOREM CancelledHoldStaysTracked == Spec /\ []Owned => []CancelledHoldIsTracked
<1>1. Init => SeenHoldIsReleased
  BY InitHistory
<1>2. SagaInvariant /\ SagaInvariant' /\ HistoryInvariant /\ Owned /\ SeenHoldIsReleased
        /\ [Next]_vars => SeenHoldIsReleased'
  BY NextHistory
<1>3. HistoryInvariant /\ SeenHoldIsReleased => CancelledHoldIsTracked
  <2> SUFFICES ASSUME HistoryInvariant, SeenHoldIsReleased, NEW o \in Order,
                      orders[o].business = "CANCELLED", Active(o)
               PROVE  \/ \E e \in events \ orderInbox :
                           e.order = o /\ e.type = "StockReservationSucceeded"
                      \/ \E c \in commands \ supplierInbox :
                           c.order = o /\ c.type = "StockReleaseRequested"
    BY DEF CancelledHoldIsTracked
  <2>1. CancellationActive(orders[o])
    BY DEF CancellationActive
  <2>2. PICK e \in Announced(o) : TRUE
    BY DEF HistoryInvariant, ReservationsAnnounced
  <2>3. CASE e \in orderInbox
    BY <2>1, <2>2, <2>3 DEF SeenHoldIsReleased
  <2>4. CASE e \notin orderInbox
    BY <2>2, <2>4 DEF Announced
  <2> QED
    BY <2>3, <2>4
<1> QED
  BY <1>1, <1>2, <1>3, Invariance, HistoryInvariance, PTL DEF Spec
================================================================================
