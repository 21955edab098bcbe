-------------------------- MODULE OutboxPublisherProofs --------------------------
(***************************************************************************)
(* What the outbox publishers guarantee for every number of rows, workers, *)
(* attempts and faults, and that their steps are steps of MessageDelivery. *)
(***************************************************************************)
EXTENDS OutboxPublisher, TLAPS

(***************************************************************************)
(* The inductive invariant.  A worker that is about to mark a row has seen *)
(* the broker store its copy; a row, its order and all copies of it, in    *)
(* the memory of a worker, under way or stored, say the same deadline.     *)
(***************************************************************************)
MarkedWasSent == \A w \in Worker : At(w, "MARK") => worker[w].current \in topic

RowsAgree ==
  \A e \in Event :
    row[e].deadline = deadline[e] /\ (e \notin Reservation => deadline[e] = None)

Agreed(m) ==
  m.deadline = deadline[m.event] /\ (m.event \in Reservation => m.deadline # None)

Held(w) == {m \in Message : m \in worker[w].claims \/ m = worker[w].current}

Copies == topic \cup inFlight \cup UNION {Held(w) : w \in Worker}

CopiesAgree == \A m \in Copies : Agreed(m)

PublisherInvariant ==
  TypeOK /\ PublishedWasSent /\ MarkedWasSent /\ RowsAgree /\ CopiesAgree

-----------------------------------------------------------------------------
(* Types *)

LEMMA NoneIsNoMessage == ASSUME NEW m \in Message PROVE m # None
BY PublisherAssumption DEF Message, Deadline

LEMMA MovedType ==
  ASSUME TypeOK, NEW w \in Worker, NEW m \in Message,
         NEW at \in {"LOOP", "SEND", "MARK", "FAIL"}
  PROVE  /\ Moved(w, m, at) \in Process
         /\ Moved(w, m, at).current = None <=> Moved(w, m, at).at = "LOOP"
BY NoneIsNoMessage DEF TypeOK, Moved, Process

LEMMA CurrentType ==
  ASSUME TypeOK, NEW w \in Worker, worker[w].at # "LOOP"
  PROVE  /\ worker[w].current \in Message
         /\ worker[w].current.event \in Event
BY DEF TypeOK, Process, Message

LEMMA RestingType == Resting \in Process /\ Resting.current = None /\ Resting.at = "LOOP"
BY DEF Resting, Process

\* The deadlines a claim fixes and copies.
LEMMA DeadlineTypes ==
  ASSUME TypeOK, NEW e \in Event
  PROVE  ActiveDeadline(e) \in Deadline /\ PayloadDeadline(e) \in Deadline
BY DEF TypeOK, Row, Deadline, ActiveDeadline, PayloadDeadline

LEMMA UnlockedType ==
  ASSUME NEW r \in Row, NEW status \in {"PENDING", "PUBLISHED", "FAILED"}
  PROVE  /\ Unlocked(r, status) \in Row
         /\ Unlocked(r, status).locked_by = None
         /\ Unlocked(r, status).status = status
         /\ Unlocked(r, status).deadline = r.deadline
BY DEF Unlocked, Row

LEMMA AfterFailureType ==
  ASSUME NEW r \in Row
  PROVE  /\ AfterFailure(r) \in Row
         /\ AfterFailure(r).locked_by = None
         /\ AfterFailure(r).status \in {"PENDING", "FAILED"}
         /\ AfterFailure(r).deadline = r.deadline
BY UnlockedType DEF AfterFailure

\* The rows of the table keep their type and their lock (row_lock).
RowsOK ==
  /\ row \in [Event -> Row]
  /\ \A e \in Event : row[e].locked_by # None <=> row[e].status = "IN_PROGRESS"

\* A worker has a current message exactly when it is not looking for one.
WorkersOK ==
  /\ worker \in [Worker -> Process]
  /\ \A w \in Worker : worker[w].current = None <=> worker[w].at = "LOOP"

LEMMA WorkerChange ==
  ASSUME TypeOK, NEW w \in Worker, NEW p \in Process, p.current = None <=> p.at = "LOOP",
         worker' = [worker EXCEPT ![w] = p]
  PROVE  WorkersOK'
BY DEF TypeOK, WorkersOK

LEMMA GotoType ==
  ASSUME TypeOK, NEW w \in Worker, worker[w].at # "LOOP",
         NEW at \in {"LOOP", "SEND", "MARK", "FAIL"}, Goto(w, at)
  PROVE  WorkersOK'
<1>1. worker[w].current \in Message
  BY CurrentType
<1>2. /\ Moved(w, worker[w].current, at) \in Process
      /\ Moved(w, worker[w].current, at).current = None
           <=> Moved(w, worker[w].current, at).at = "LOOP"
  BY <1>1, MovedType
<1> QED
  BY <1>2, WorkerChange DEF Goto

LEMMA RowChange ==
  ASSUME TypeOK, NEW e \in Event, NEW r \in Row, r.locked_by # None <=> r.status = "IN_PROGRESS",
         row' = [row EXCEPT ![e] = r]
  PROVE  RowsOK'
BY DEF TypeOK, RowsOK

LEMMA TypeInit == Init => TypeOK
<1> SUFFICES ASSUME Init PROVE TypeOK
  OBVIOUS
<1>1. RowsOK
  BY DEF Init, RowsOK, Row, Deadline
<1>2. WorkersOK
  BY RestingType DEF Init, WorkersOK
<1>3. deadline \in [Event -> Deadline] /\ inFlight \subseteq Message /\ topic \subseteq Message
      /\ faults \in 0..MaxFaults
  BY PublisherAssumption DEF Init, Deadline
<1> QED
  BY <1>1, <1>2, <1>3 DEF TypeOK, RowsOK, WorkersOK

LEMMA ClaimBatchType == ASSUME TypeOK, NEW w \in Worker, ClaimBatch(w) PROVE TypeOK'
<1> PICK batch \in SUBSET {e \in Event : Due(row[e])} :
      /\ row' = [e \in Event |->
                   IF e \in batch
                   THEN [status |-> "IN_PROGRESS",
                         attempt_count |-> row[e].attempt_count + 1,
                         locked_by |-> w, expired |-> FALSE,
                         deadline |-> PayloadDeadline(e)]
                   ELSE row[e]]
      /\ deadline' = [e \in Event |-> IF e \in batch THEN ActiveDeadline(e)
                                                     ELSE deadline[e]]
      /\ worker' = [worker EXCEPT ![w].claims =
                      {[event |-> e, deadline |-> PayloadDeadline(e)] : e \in batch}]
  BY DEF ClaimBatch
<1> DEFINE taken == {[event |-> e, deadline |-> PayloadDeadline(e)] : e \in batch}
           claimed == [worker[w] EXCEPT !.claims = taken]
<1>1. RowsOK'
  <2> SUFFICES ASSUME NEW e \in Event
               PROVE  /\ row'[e] \in Row
                      /\ row'[e].locked_by # None <=> row'[e].status = "IN_PROGRESS"
    BY DEF RowsOK
  <2>1. row[e].attempt_count + 1 \in Nat /\ w # None
    BY PublisherAssumption DEF TypeOK, Row
  <2> QED
    BY <2>1, DeadlineTypes DEF TypeOK, Row
<1>2. deadline' \in [Event -> Deadline]
  BY DeadlineTypes DEF TypeOK
<1>3. WorkersOK'
  <2>1. taken \subseteq Message
    BY DeadlineTypes DEF Message
  <2> HIDE DEF taken
  <2>1a. worker[w] = Resting
    BY DEF ClaimBatch
  <2>2. worker[w].current = None /\ worker[w].at = "LOOP" /\ worker[w] \in Process
    BY <2>1a, RestingType
  <2>3. claimed \in Process /\ claimed.current = None /\ claimed.at = "LOOP"
    BY <2>1, <2>2 DEF Process
  <2>4. worker' = [worker EXCEPT ![w] = claimed]
    BY DEF TypeOK, taken
  <2> QED
    BY <2>3, <2>4, WorkerChange
<1> QED
  BY <1>1, <1>2, <1>3 DEF TypeOK, RowsOK, WorkersOK, ClaimBatch, kafkaVars

LEMMA DeliverType == ASSUME TypeOK, NEW w \in Worker, Deliver(w) PROVE TypeOK'
<1>1. ASSUME NEW m \in worker[w].claims, RenewClaim(w, m) PROVE TypeOK'
  <2>1. m \in Message /\ m.event \in Event
    BY DEF TypeOK, Process, Message
  <2>2. WorkersOK'
    BY <1>1, <2>1, MovedType, WorkerChange DEF RenewClaim
  <2>3. RowsOK'
    <3>1. CASE UNCHANGED row
      BY <3>1 DEF RowsOK, TypeOK
    <3>2. CASE row' = [row EXCEPT ![m.event].expired = FALSE]
      <4>1. [row[m.event] EXCEPT !.expired = FALSE] \in Row
        BY <2>1 DEF TypeOK, Row
      <4> QED
        BY <2>1, <3>2, <4>1 DEF RowsOK, TypeOK
    <3> QED
      BY <1>1, <3>1, <3>2 DEF RenewClaim
  <2> QED
    BY <1>1, <2>2, <2>3 DEF TypeOK, RowsOK, WorkersOK, RenewClaim, kafkaVars
<1>2. CASE PublishAcknowledged(w)
  <2>1. worker[w].current \in Message /\ WorkersOK'
    BY <1>2, CurrentType, GotoType DEF PublishAcknowledged, At
  <2> QED
    BY <1>2, <2>1 DEF TypeOK, WorkersOK, PublishAcknowledged, rowVars
<1>3. CASE PublishFails(w)
  <2>1. worker[w].current \in Message /\ WorkersOK'
    BY <1>3, CurrentType, GotoType DEF PublishFails, At
  <2> QED
    BY <1>3, <2>1 DEF TypeOK, WorkersOK, PublishFails, rowVars
<1>4. CASE MarkPublished(w)
  <2>1. worker[w].current.event \in Event /\ WorkersOK'
    BY <1>4, CurrentType, GotoType DEF MarkPublished, At
  <2>2. RowsOK'
    <3> DEFINE e == worker[w].current.event
    <3>1. row[e] \in Row
      BY <2>1 DEF TypeOK
    <3>2. CASE row' = [row EXCEPT ![e] = Unlocked(@, "PUBLISHED")]
      <4>1. row' = [row EXCEPT ![e] = Unlocked(row[e], "PUBLISHED")]
        BY <3>2
      <4> QED
        BY <2>1, <3>1, <4>1, UnlockedType, RowChange
    <3>3. CASE row' = row
      BY <3>3 DEF RowsOK, TypeOK
    <3> QED
      BY <1>4, <3>2, <3>3 DEF MarkPublished
  <2> QED
    BY <1>4, <2>1, <2>2 DEF TypeOK, RowsOK, WorkersOK, MarkPublished, kafkaVars
<1>5. CASE MarkFailedAttempt(w)
  <2>1. worker[w].current.event \in Event /\ WorkersOK'
    BY <1>5, CurrentType, GotoType DEF MarkFailedAttempt, At
  <2>2. RowsOK'
    <3> DEFINE e == worker[w].current.event
    <3>1. row[e] \in Row
      BY <2>1 DEF TypeOK
    <3>2. CASE row' = [row EXCEPT ![e] = AfterFailure(@)]
      <4>1. row' = [row EXCEPT ![e] = AfterFailure(row[e])]
        BY <3>2
      <4>2. /\ AfterFailure(row[e]) \in Row
            /\ AfterFailure(row[e]).locked_by # None
                 <=> AfterFailure(row[e]).status = "IN_PROGRESS"
        BY <3>1, AfterFailureType
      <4> QED
        BY <2>1, <4>1, <4>2, RowChange
    <3>3. CASE row' = row
      BY <3>3 DEF RowsOK, TypeOK
    <3> QED
      BY <1>5, <3>2, <3>3 DEF MarkFailedAttempt
  <2> QED
    BY <1>5, <2>1, <2>2 DEF TypeOK, RowsOK, WorkersOK, MarkFailedAttempt, kafkaVars
<1> QED
  BY <1>1, <1>2, <1>3, <1>4, <1>5 DEF Deliver

LEMMA FaultType == ASSUME TypeOK, Fault PROVE faults' \in 0..MaxFaults
BY PublisherAssumption DEF TypeOK, Fault

LEMMA DisturbanceType ==
  ASSUME TypeOK, NEW w \in Worker, DatabaseFails(w) \/ BatchAborted(w) \/ Crash(w)
  PROVE  TypeOK'
<1>1. CASE DatabaseFails(w)
  <2>1. WorkersOK'
    <3>1. ASSUME NEW m \in worker[w].claims, worker' = [worker EXCEPT ![w] = Moved(w, m, "FAIL")]
          PROVE  WorkersOK'
      <4>1. m \in Message
        BY DEF TypeOK, Process
      <4> QED
        BY <3>1, <4>1, MovedType, WorkerChange
    <3>2. CASE At(w, "MARK") /\ Goto(w, "FAIL")
      BY <3>2, GotoType DEF At
    <3> QED
      BY <1>1, <3>1, <3>2 DEF DatabaseFails
  <2> QED
    BY <1>1, <2>1, FaultType DEF TypeOK, WorkersOK, DatabaseFails, rowVars, kafkaVars
<1>2. CASE BatchAborted(w)
  <2>1. WorkersOK'
    BY <1>2, RestingType, WorkerChange DEF BatchAborted
  <2> QED
    BY <1>2, <2>1, FaultType DEF TypeOK, WorkersOK, BatchAborted, rowVars, kafkaVars
<1>3. CASE Crash(w)
  <2>1. WorkersOK'
    BY <1>3, RestingType, WorkerChange DEF Crash
  <2>2. inFlight' \subseteq Message
    BY <1>3, CurrentType DEF Crash, At, TypeOK
  <2> QED
    BY <1>3, <2>1, <2>2, FaultType DEF TypeOK, WorkersOK, Crash, rowVars
<1> QED
  BY <1>1, <1>2, <1>3

LEMMA LeaseType == ASSUME TypeOK, NEW e \in Event, LeaseEnds(e) PROVE TypeOK'
<1>1. RowsOK'
  BY DEF LeaseEnds, TypeOK, RowsOK, Row
<1>2. faults' \in 0..MaxFaults
  BY FaultType DEF LeaseEnds, TypeOK
<1> QED
  BY <1>1, <1>2 DEF TypeOK, RowsOK, LeaseEnds, kafkaVars

LEMMA FateType == ASSUME TypeOK, NEW m \in inFlight, FateOf(m) PROVE TypeOK'
BY DEF TypeOK, FateOf, rowVars

LEMMA TypeStep == TypeOK /\ [PublisherStep]_vars => TypeOK'
<1> SUFFICES ASSUME TypeOK, [PublisherStep]_vars PROVE TypeOK'
  OBVIOUS
<1>1. CASE UNCHANGED vars
  BY <1>1 DEF vars, TypeOK
<1> QED
  BY <1>1, ClaimBatchType, DeliverType, DisturbanceType, LeaseType, FateType
     DEF PublisherStep

-----------------------------------------------------------------------------
(* What is marked was sent *)

LEMMA SentInit == Init => PublishedWasSent /\ MarkedWasSent
BY DEF Init, PublishedWasSent, MarkedWasSent, At, Resting

\* Nothing leaves the topic.
LEMMA TopicGrows == [PublisherStep]_vars => topic \subseteq topic'
BY DEF PublisherStep, ClaimBatch, Deliver, RenewClaim, PublishAcknowledged, PublishFails,
       MarkPublished, MarkFailedAttempt, DatabaseFails, BatchAborted, Crash, LeaseEnds, FateOf,
       rowVars, kafkaVars, vars

\* Only the broker's acknowledgement brings a worker to the mark.
LEMMA MarkedStep ==
  ASSUME TypeOK, MarkedWasSent, [PublisherStep]_vars
  PROVE  MarkedWasSent'
<1> SUFFICES ASSUME NEW v \in Worker, At(v, "MARK")'
             PROVE  worker'[v].current \in topic'
  BY DEF MarkedWasSent
<1>1. worker'[v].at = "MARK"
  BY DEF At
<1>2. worker'[v] = worker[v] => worker'[v].current \in topic'
  BY <1>1, TopicGrows DEF MarkedWasSent, At
<1>3. ASSUME NEW w \in Worker, ClaimBatch(w) PROVE worker'[v] = worker[v]
  <2>1. worker[w].at = "LOOP"
    BY <1>3, RestingType DEF ClaimBatch
  <2> QED
    BY <1>1, <1>3, <2>1 DEF ClaimBatch, TypeOK, Process
<1>4. ASSUME NEW w \in Worker, Deliver(w) PROVE worker'[v].current \in topic'
  <2>1. CASE PublishAcknowledged(w)
    <3>1. worker' = [worker EXCEPT ![w] = Moved(w, worker[w].current, "MARK")]
      BY <2>1 DEF PublishAcknowledged, Goto
    <3>2. Moved(w, worker[w].current, "MARK").current = worker[w].current
      BY DEF Moved
    <3>3. CASE v = w
      BY <2>1, <3>1, <3>2, <3>3 DEF PublishAcknowledged, TypeOK
    <3>4. CASE v # w
      BY <1>2, <3>1, <3>4 DEF TypeOK
    <3> QED
      BY <3>3, <3>4
  <2>2. CASE (\E m \in worker[w].claims : RenewClaim(w, m)) \/ PublishFails(w)
               \/ MarkPublished(w) \/ MarkFailedAttempt(w)
    <3>1. ASSUME NEW m, NEW at, at # "MARK", worker' = [worker EXCEPT ![w] = Moved(w, m, at)]
          PROVE  worker'[v].current \in topic'
      <4>1. Moved(w, m, at).at # "MARK"
        BY <3>1 DEF Moved
      <4> QED
        BY <1>1, <1>2, <3>1, <4>1 DEF TypeOK
    <3>2. ASSUME NEW m \in worker[w].claims, RenewClaim(w, m)
          PROVE  worker'[v].current \in topic'
      BY <3>1, <3>2 DEF RenewClaim
    <3>3. PublishFails(w) => worker'[v].current \in topic'
      BY <3>1 DEF PublishFails, Goto
    <3>4. MarkPublished(w) \/ MarkFailedAttempt(w) => worker'[v].current \in topic'
      BY <3>1 DEF MarkPublished, MarkFailedAttempt, Goto
    <3> QED
      BY <2>2, <3>2, <3>3, <3>4
  <2> QED
    BY <1>4, <2>1, <2>2 DEF Deliver
<1>5. ASSUME NEW w \in Worker, DatabaseFails(w) \/ BatchAborted(w) \/ Crash(w)
      PROVE  worker'[v] = worker[v]
  BY <1>1, <1>5 DEF DatabaseFails, BatchAborted, Crash, Goto, Moved, Resting, TypeOK
<1>6. ASSUME \/ \E e \in Event : LeaseEnds(e)
             \/ \E m \in inFlight : FateOf(m)
             \/ UNCHANGED vars
      PROVE  worker'[v] = worker[v]
  BY <1>6 DEF LeaseEnds, FateOf, vars
<1> QED
  BY <1>2, <1>3, <1>4, <1>5, <1>6 DEF PublisherStep

\* A row becomes PUBLISHED only by the worker that marks its own row.
LEMMA PublishedStep ==
  ASSUME TypeOK, PublishedWasSent, MarkedWasSent, [PublisherStep]_vars
  PROVE  PublishedWasSent'
<1> SUFFICES ASSUME NEW e \in Event, row'[e].status = "PUBLISHED"
             PROVE  Sent(e)'
  BY DEF PublishedWasSent
<1>1. row[e].status = "PUBLISHED" => Sent(e)'
  BY TopicGrows DEF PublishedWasSent, Sent
<1>2. ASSUME NEW w \in Worker, ClaimBatch(w) PROVE row[e].status = "PUBLISHED"
  BY <1>2 DEF ClaimBatch
<1>3. ASSUME NEW w \in Worker, NEW m \in worker[w].claims, RenewClaim(w, m)
      PROVE  row[e].status = "PUBLISHED"
  BY <1>3 DEF RenewClaim, TypeOK, Row
<1>4. ASSUME NEW w \in Worker, MarkPublished(w) PROVE Sent(e)'
  <2>1. worker[w].current \in topic
    BY <1>4 DEF MarkPublished, MarkedWasSent
  <2>2. row'[e] = row[e] \/ e = worker[w].current.event
    BY <1>4 DEF MarkPublished, TypeOK
  <2> QED
    BY <1>1, <2>1, <2>2, TopicGrows DEF Sent
<1>5. ASSUME NEW w \in Worker, MarkFailedAttempt(w) PROVE row[e].status = "PUBLISHED"
  <2>1. row'[e] = row[e] \/ row'[e] = AfterFailure(row[e])
    BY <1>5 DEF MarkFailedAttempt, TypeOK
  <2> QED
    BY <2>1, AfterFailureType DEF TypeOK
<1>6. ASSUME NEW w \in Worker,
             \/ PublishAcknowledged(w) \/ PublishFails(w)
             \/ DatabaseFails(w) \/ BatchAborted(w) \/ Crash(w)
      PROVE  row' = row
  BY <1>6 DEF PublishAcknowledged, PublishFails, DatabaseFails, BatchAborted, Crash, rowVars
<1>7. ASSUME \/ \E d \in Event : LeaseEnds(d)
             \/ \E m \in inFlight : FateOf(m)
             \/ UNCHANGED vars
      PROVE  row[e].status = "PUBLISHED"
  BY <1>7 DEF LeaseEnds, FateOf, rowVars, vars, TypeOK, Row
<1> QED
  BY <1>1, <1>2, <1>3, <1>4, <1>5, <1>6, <1>7 DEF PublisherStep, Deliver

-----------------------------------------------------------------------------
(* One deadline *)

LEMMA AgreeInit == Init => RowsAgree /\ CopiesAgree
<1> SUFFICES ASSUME Init PROVE RowsAgree /\ CopiesAgree
  OBVIOUS
<1>1. RowsAgree
  BY DEF Init, RowsAgree
<1>2. Copies = {}
  BY NoneIsNoMessage DEF Init, Copies, Held, Resting
<1> QED
  BY <1>1, <1>2 DEF CopiesAgree

\* No step but a claim makes a copy that was not there.
LEMMA CopiesKept ==
  ASSUME TypeOK, [PublisherStep]_vars, ~ \E w \in Worker : ClaimBatch(w)
  PROVE  Copies' \subseteq Copies
<1>1. ASSUME NEW w \in Worker, NEW m \in Message, m \in Held(w), NEW at,
             worker' = [worker EXCEPT ![w] = Moved(w, m, at)],
             topic' \cup inFlight' \subseteq topic \cup inFlight \cup {m}
      PROVE  Copies' \subseteq Copies
  <2>1. ASSUME NEW v \in Worker PROVE Held(v)' \subseteq Held(v)
    <3>1. CASE v = w
      BY <1>1, <3>1, NoneIsNoMessage DEF Held, Moved, TypeOK
    <3>2. CASE v # w
      BY <1>1, <3>2 DEF Held, TypeOK
    <3> QED
      BY <3>1, <3>2
  <2> QED
    BY <1>1, <2>1 DEF Copies
<1>2. ASSUME NEW w \in Worker, worker' = [worker EXCEPT ![w] = Resting],
             topic' \cup inFlight' \subseteq topic \cup inFlight \cup Held(w)
      PROVE  Copies' \subseteq Copies
  <2>1. ASSUME NEW v \in Worker PROVE Held(v)' \subseteq Held(v)
    <3>1. CASE v = w
      BY <1>2, <3>1, NoneIsNoMessage DEF Held, Resting, TypeOK
    <3>2. CASE v # w
      BY <1>2, <3>2 DEF Held, TypeOK
    <3> QED
      BY <3>1, <3>2
  <2> QED
    BY <1>2, <2>1 DEF Copies
<1>3. ASSUME NEW w \in Worker, NEW m \in worker[w].claims, RenewClaim(w, m)
      PROVE  Copies' \subseteq Copies
  <2>1. m \in Message /\ m \in Held(w)
    BY DEF TypeOK, Process, Held
  <2> QED
    BY <1>1, <1>3, <2>1 DEF RenewClaim, kafkaVars
<1>4. ASSUME NEW w \in Worker, NEW at, worker[w].at # "LOOP", Goto(w, at),
             topic' \cup inFlight' \subseteq topic \cup inFlight \cup {worker[w].current}
      PROVE  Copies' \subseteq Copies
  <2>1. worker[w].current \in Message /\ worker[w].current \in Held(w)
    BY <1>4, CurrentType DEF Held
  <2> QED
    BY <1>1, <1>4, <2>1 DEF Goto
<1>5. ASSUME NEW w \in Worker,
             PublishAcknowledged(w) \/ PublishFails(w) \/ MarkPublished(w)
               \/ MarkFailedAttempt(w)
      PROVE  Copies' \subseteq Copies
  BY <1>4, <1>5
     DEF PublishAcknowledged, PublishFails, MarkPublished, MarkFailedAttempt, At, kafkaVars
<1>6. ASSUME NEW w \in Worker, DatabaseFails(w) PROVE Copies' \subseteq Copies
  <2>1. ASSUME NEW m \in worker[w].claims,
               worker' = [worker EXCEPT ![w] = Moved(w, m, "FAIL")]
        PROVE  Copies' \subseteq Copies
    <3>1. m \in Message /\ m \in Held(w)
      BY DEF TypeOK, Process, Held
    <3> QED
      BY <1>1, <1>6, <2>1, <3>1 DEF DatabaseFails, kafkaVars
  <2>2. At(w, "MARK") /\ Goto(w, "FAIL") => Copies' \subseteq Copies
    BY <1>4, <1>6 DEF DatabaseFails, At, kafkaVars
  <2> QED
    BY <1>6, <2>1, <2>2 DEF DatabaseFails
<1>7. ASSUME NEW w \in Worker, BatchAborted(w) \/ Crash(w) PROVE Copies' \subseteq Copies
  <2>1. CASE BatchAborted(w)
    BY <1>2, <2>1 DEF BatchAborted, kafkaVars
  <2>2. CASE Crash(w)
    <3>1. At(w, "SEND") => worker[w].current \in Held(w)
      BY CurrentType DEF At, Held
    <3> QED
      BY <1>2, <2>2, <3>1 DEF Crash
  <2> QED
    BY <1>7, <2>1, <2>2
<1>8. ASSUME \/ \E e \in Event : LeaseEnds(e)
             \/ \E m \in inFlight : FateOf(m)
             \/ UNCHANGED vars
      PROVE  Copies' \subseteq Copies
  BY <1>8 DEF LeaseEnds, FateOf, kafkaVars, vars, Copies, Held
<1> QED
  BY <1>3, <1>5, <1>6, <1>7, <1>8 DEF PublisherStep, Deliver

\* No step but a claim writes a deadline.
LEMMA DeadlinesKept ==
  ASSUME TypeOK, [PublisherStep]_vars, ~ \E w \in Worker : ClaimBatch(w)
  PROVE  deadline' = deadline /\ \A e \in Event : row'[e].deadline = row[e].deadline
<1>1. deadline' = deadline
  BY DEF PublisherStep, Deliver, RenewClaim, PublishAcknowledged, PublishFails, MarkPublished,
         MarkFailedAttempt, DatabaseFails, BatchAborted, Crash, LeaseEnds, FateOf, rowVars, vars
<1>2. ASSUME NEW e \in Event PROVE row'[e].deadline = row[e].deadline
  <2>1. row[e] \in Row
    BY DEF TypeOK
  <2>2. ASSUME NEW w \in Worker, NEW m \in worker[w].claims, RenewClaim(w, m)
        PROVE  row'[e].deadline = row[e].deadline
    BY <2>2 DEF RenewClaim, TypeOK, Row
  <2>3. ASSUME NEW w \in Worker, MarkPublished(w) PROVE row'[e].deadline = row[e].deadline
    <3>1. row'[e] = row[e] \/ row'[e] = Unlocked(row[e], "PUBLISHED")
      BY <2>3 DEF MarkPublished, TypeOK
    <3> QED
      BY <2>1, <3>1, UnlockedType
  <2>4. ASSUME NEW w \in Worker, MarkFailedAttempt(w) PROVE row'[e].deadline = row[e].deadline
    <3>1. row'[e] = row[e] \/ row'[e] = AfterFailure(row[e])
      BY <2>4 DEF MarkFailedAttempt, TypeOK
    <3> QED
      BY <2>1, <3>1, AfterFailureType
  <2>5. ASSUME NEW d \in Event, LeaseEnds(d) PROVE row'[e].deadline = row[e].deadline
    BY <2>5 DEF LeaseEnds, TypeOK, Row
  <2>6. ASSUME \/ \E w \in Worker : PublishAcknowledged(w) \/ PublishFails(w)
                                    \/ DatabaseFails(w) \/ BatchAborted(w) \/ Crash(w)
               \/ \E m \in inFlight : FateOf(m)
               \/ UNCHANGED vars
        PROVE  row' = row
    BY <2>6 DEF PublishAcknowledged, PublishFails, DatabaseFails, BatchAborted, Crash,
                FateOf, rowVars, vars
  <2> QED
    BY <2>2, <2>3, <2>4, <2>5, <2>6 DEF PublisherStep, Deliver
<1> QED
  BY <1>1, <1>2

\* A claim fixes a deadline that was open, and copies one that was fixed.
LEMMA ClaimAgrees ==
  ASSUME TypeOK, RowsAgree, CopiesAgree, NEW w \in Worker, ClaimBatch(w)
  PROVE  RowsAgree' /\ CopiesAgree'
<1> PICK batch \in SUBSET {e \in Event : Due(row[e])} :
      /\ row' = [e \in Event |->
                   IF e \in batch
                   THEN [status |-> "IN_PROGRESS",
                         attempt_count |-> row[e].attempt_count + 1,
                         locked_by |-> w, expired |-> FALSE,
                         deadline |-> PayloadDeadline(e)]
                   ELSE row[e]]
      /\ deadline' = [e \in Event |-> IF e \in batch THEN ActiveDeadline(e)
                                                     ELSE deadline[e]]
      /\ worker' = [worker EXCEPT ![w].claims =
                      {[event |-> e, deadline |-> PayloadDeadline(e)] : e \in batch}]
  BY DEF ClaimBatch
<1> DEFINE taken == {[event |-> e, deadline |-> PayloadDeadline(e)] : e \in batch}
<1>1. ASSUME NEW e \in Event
      PROVE  /\ PayloadDeadline(e) = ActiveDeadline(e)
             /\ e \in Reservation => ActiveDeadline(e) # None
             /\ e \notin Reservation => ActiveDeadline(e) = None
             /\ deadline[e] # None => ActiveDeadline(e) = deadline[e]
  <2>1. row[e].attempt_count + 1 # None
    BY PublisherAssumption DEF TypeOK, Row
  <2> QED
    BY <2>1 DEF RowsAgree, PayloadDeadline, ActiveDeadline
<1>2. RowsAgree'
  BY <1>1 DEF RowsAgree
<1>3. ASSUME NEW m \in Message, Agreed(m) PROVE Agreed(m)'
  <2>1. m.event \in Event
    BY DEF Message
  <2>2. deadline'[m.event] = deadline[m.event]
    BY <1>1, <1>3, <2>1 DEF Agreed, RowsAgree
  <2> QED
    BY <1>3, <2>2 DEF Agreed
<1>4. ASSUME NEW m \in taken PROVE Agreed(m)'
  <2>1. PICK e \in batch : m = [event |-> e, deadline |-> PayloadDeadline(e)]
    OBVIOUS
  <2> QED
    BY <1>1, <2>1 DEF Agreed
<1>5. Copies \subseteq Message
  BY DEF Copies, Held, TypeOK
<1>6. Copies' \subseteq Copies \cup taken
  <2>1. ASSUME NEW v \in Worker PROVE Held(v)' \subseteq Held(v) \cup taken
    <3>1. CASE v = w
      BY <3>1 DEF Held, TypeOK, Process
    <3>2. CASE v # w
      BY <3>2 DEF Held, TypeOK
    <3> QED
      BY <3>1, <3>2
  <2>2. topic' = topic /\ inFlight' = inFlight
    BY DEF ClaimBatch, kafkaVars
  <2> HIDE DEF taken
  <2> QED
    BY <2>1, <2>2 DEF Copies
<1> HIDE DEF taken
<1> QED
  BY <1>2, <1>3, <1>4, <1>5, <1>6 DEF CopiesAgree

LEMMA AgreeStep ==
  ASSUME TypeOK, RowsAgree, CopiesAgree, [PublisherStep]_vars
  PROVE  RowsAgree' /\ CopiesAgree'
<1>1. CASE \E w \in Worker : ClaimBatch(w)
  BY <1>1, ClaimAgrees
<1>2. CASE ~ \E w \in Worker : ClaimBatch(w)
  BY <1>2, CopiesKept, DeadlinesKept DEF RowsAgree, CopiesAgree, Agreed
<1> QED
  BY <1>1, <1>2

-----------------------------------------------------------------------------
(* Theorems *)

\* The inductive invariant holds in every reachable state.
THEOREM Invariance == Spec => []PublisherInvariant
<1>1. Init => PublisherInvariant
  BY TypeInit, SentInit, AgreeInit DEF PublisherInvariant
<1>2. PublisherInvariant /\ [PublisherStep]_vars => PublisherInvariant'
  BY TypeStep, MarkedStep, PublishedStep, AgreeStep DEF PublisherInvariant
<1> QED
  BY <1>1, <1>2, PTL DEF Spec

\* Every variable of the publishers keeps its type (outbox_publisher.py).
THEOREM TypeCorrect == Spec => []TypeOK
<1>1. PublisherInvariant => TypeOK
  BY DEF PublisherInvariant
<1> QED
  BY Invariance, <1>1, PTL

\* No crash, overtaking or lost acknowledgement makes a row PUBLISHED whose
\* message the broker has not stored (process_once, mark_published).
THEOREM OnlySentIsPublished == Spec => []PublishedWasSent
<1>1. PublisherInvariant => PublishedWasSent
  BY DEF PublisherInvariant
<1> QED
  BY Invariance, <1>1, PTL

\* All stored copies of a reservation request say the deadline of its order,
\* whichever claims and workers sent them (_activate_reservation_deadline).
THEOREM DeadlineIsOne == Spec => []OneDeadline
<1>1. PublisherInvariant => OneDeadline
  BY DEF PublisherInvariant, CopiesAgree, Copies, Agreed, OneDeadline
<1> QED
  BY Invariance, <1>1, PTL

\* What one step may do to one row of the table.
LEMMA RowStep ==
  ASSUME TypeOK, [PublisherStep]_vars, NEW e \in Event, row'[e] # row[e]
  PROVE  \/ Due(row[e])
         \/ /\ row[e].status = "IN_PROGRESS"
            /\ \/ row'[e] = [row[e] EXCEPT !.expired = FALSE]
               \/ row'[e] = [row[e] EXCEPT !.expired = TRUE]
               \/ \E w \in Worker :
                    /\ row[e].locked_by = w
                    /\ \/ At(w, "MARK") /\ row'[e] = Unlocked(row[e], "PUBLISHED")
                       \/ At(w, "FAIL") /\ row'[e] = AfterFailure(row[e])
                    /\ Goto(w, "LOOP")
<1>1. ASSUME NEW w \in Worker, ClaimBatch(w) PROVE Due(row[e])
  BY <1>1 DEF ClaimBatch
<1>2. ASSUME NEW w \in Worker, NEW m \in worker[w].claims, RenewClaim(w, m)
      PROVE  row[e].status = "IN_PROGRESS" /\ row'[e] = [row[e] EXCEPT !.expired = FALSE]
  BY <1>2 DEF RenewClaim, OwnsClaim, TypeOK
<1>3. ASSUME NEW w \in Worker, MarkPublished(w)
      PROVE  /\ row[e].status = "IN_PROGRESS" /\ row[e].locked_by = w
             /\ At(w, "MARK") /\ row'[e] = Unlocked(row[e], "PUBLISHED") /\ Goto(w, "LOOP")
  BY <1>3 DEF MarkPublished, OwnsClaim, TypeOK
<1>4. ASSUME NEW w \in Worker, MarkFailedAttempt(w)
      PROVE  /\ row[e].status = "IN_PROGRESS" /\ row[e].locked_by = w
             /\ At(w, "FAIL") /\ row'[e] = AfterFailure(row[e]) /\ Goto(w, "LOOP")
  BY <1>4 DEF MarkFailedAttempt, OwnsClaim, TypeOK
<1>5. ASSUME NEW d \in Event, LeaseEnds(d)
      PROVE  row[e].status = "IN_PROGRESS" /\ row'[e] = [row[e] EXCEPT !.expired = TRUE]
  BY <1>5 DEF LeaseEnds, Leased, TypeOK
<1>6. ~ \/ \E w \in Worker : PublishAcknowledged(w) \/ PublishFails(w)
                             \/ DatabaseFails(w) \/ BatchAborted(w) \/ Crash(w)
        \/ \E m \in inFlight : FateOf(m)
        \/ UNCHANGED vars
  BY DEF PublishAcknowledged, PublishFails, DatabaseFails, BatchAborted, Crash, FateOf,
         rowVars, vars
<1> QED
  BY <1>1, <1>2, <1>3, <1>4, <1>5, <1>6 DEF PublisherStep, Deliver

\* A worker that lost its claim never takes it from the new owner: under a
\* running lease only the owner itself gives a row up (_owns_claim).
THEOREM OnlyOwnerLetsGo == Spec => OwnerLetsGo
<1>1. PublisherInvariant /\ [PublisherStep]_vars =>
        [\A e \in Event :
           Leased(e) /\ row'[e].locked_by # row[e].locked_by =>
             worker'[row[e].locked_by] # worker[row[e].locked_by]]_vars
  <2> SUFFICES ASSUME PublisherInvariant, [PublisherStep]_vars, NEW e \in Event,
                      Leased(e), row'[e].locked_by # row[e].locked_by
               PROVE  worker'[row[e].locked_by] # worker[row[e].locked_by]
    OBVIOUS
  <2>1. row[e] \in Row /\ TypeOK
    BY DEF PublisherInvariant, TypeOK
  <2>2. ~Due(row[e])
    BY DEF Leased, Due
  <2>3. PICK w \in Worker : row[e].locked_by = w /\ worker[w].at # "LOOP" /\ Goto(w, "LOOP")
    BY <2>1, <2>2, RowStep DEF At, Row
  <2>4. worker'[w].at = "LOOP"
    BY <2>1, <2>3 DEF Goto, Moved, TypeOK
  <2> QED
    BY <2>3, <2>4
<1> QED
  BY Invariance, <1>1, PTL DEF Spec, OwnerLetsGo

\* No late worker reopens a row that is PUBLISHED or FAILED (mark_failed_attempt).
THEOREM SettledRowStays == Spec => SettledStays
<1>1. PublisherInvariant /\ [PublisherStep]_vars =>
        [\A e \in Event : row[e].status \in {"PUBLISHED", "FAILED"} => row'[e] = row[e]]_vars
  <2> SUFFICES ASSUME PublisherInvariant, [PublisherStep]_vars, NEW e \in Event,
                      row[e].status \in {"PUBLISHED", "FAILED"}
               PROVE  row'[e] = row[e]
    OBVIOUS
  <2> QED
    BY RowStep DEF PublisherInvariant, Due
<1> QED
  BY Invariance, <1>1, PTL DEF Spec, SettledStays

-----------------------------------------------------------------------------
(* The publishers implement MessageDelivery *)

Arrived == {e \in Event : Sent(e)}
Gone == {e \in Event : Lost(e)}

\* A message that arrived is not gone.
LEMMA NeverBoth == Arrived \cap Gone = {}
BY DEF Arrived, Gone, Lost

\* The first state has delivered and lost nothing.
LEMMA DeliveryStarts == Init => Delivery!DeliveryInit
BY DEF Init, Delivery!DeliveryInit, Sent, Lost

\* How a step that stores nothing may settle one message at most.
LEMMA OnlyLoses ==
  ASSUME NEW e \in Event, Arrived' = Arrived,
         \A d \in Event \ {e} : Lost(d)' <=> Lost(d),
         Lost(e) => Lost(e)'
  PROVE  [Delivery!DeliveryNext]_(Delivery!deliveryVars)
<1>1. CASE Lost(e)' <=> Lost(e)
  <2>1. Gone' = Gone
    BY <1>1 DEF Gone
  <2> QED
    BY <2>1 DEF Delivery!deliveryVars, Arrived, Gone
<1>2. CASE Lost(e)' /\ ~Lost(e)
  <2>1. Gone' = Gone \cup {e}
    BY <1>2 DEF Gone
  <2>2. e \notin Arrived
    BY <1>2 DEF Arrived, Lost
  <2>3. Delivery!Lose(e)
    BY <2>1, <2>2 DEF Delivery!Lose, Arrived, Gone
  <2> QED
    BY <2>3 DEF Delivery!DeliveryNext
<1> QED
  BY <1>1, <1>2

\* A step that stores a copy that was on its way delivers a message.
LEMMA OnlyDelivers ==
  ASSUME TypeOK, NEW m \in Message, topic' = topic \cup {m}, OnItsWay(m.event),
         \A d \in Event \ {m.event} : OnItsWay(d)' <=> OnItsWay(d),
         \A d \in Event : row'[d].status = row[d].status
  PROVE  [Delivery!DeliveryNext]_(Delivery!deliveryVars)
<1>1. m.event \in Event
  BY DEF Message
<1>2. Arrived' = Arrived \cup {m.event}
  BY <1>1 DEF Arrived, Sent
<1>3. Gone' = Gone
  BY <1>1 DEF Gone, Lost, Sent
<1>4. m.event \notin Gone
  BY DEF Gone, Lost
<1>5. Delivery!Deliver(m.event)
  BY <1>2, <1>3, <1>4 DEF Delivery!Deliver, Arrived, Gone
<1> QED
  BY <1>1, <1>5 DEF Delivery!DeliveryNext

\* A step that stores nothing and loses nothing is a stutter.
LEMMA NothingSettled ==
  ASSUME topic' = topic, \A d \in Event : Lost(d)' <=> Lost(d)
  PROVE  [Delivery!DeliveryNext]_(Delivery!deliveryVars)
BY DEF Delivery!deliveryVars, Sent

\* So is one that changes neither what is on its way nor which rows FAILED.
LEMMA NothingMoved ==
  ASSUME topic' = topic,
         \A d \in Event : OnItsWay(d)' <=> OnItsWay(d),
         \A d \in Event : row'[d].status = "FAILED" <=> row[d].status = "FAILED"
  PROVE  [Delivery!DeliveryNext]_(Delivery!deliveryVars)
BY NothingSettled DEF Lost, Sent

LEMMA ClaimRefines ==
  ASSUME TypeOK, NEW w \in Worker, ClaimBatch(w)
  PROVE  [Delivery!DeliveryNext]_(Delivery!deliveryVars)
<1>1. worker[w].at = "LOOP"
  BY RestingType DEF ClaimBatch
<1>2. \A d \in Event : OnItsWay(d)' <=> OnItsWay(d)
  <2>1. inFlight' = inFlight
    BY DEF ClaimBatch, kafkaVars
  <2>2. \A v \in Worker : worker'[v].at = worker[v].at /\ worker'[v].current = worker[v].current
    BY DEF ClaimBatch, TypeOK, Process
  <2> QED
    BY <2>1, <2>2 DEF OnItsWay, At
<1>3. \A d \in Event : row'[d].status = "FAILED" <=> row[d].status = "FAILED"
  BY DEF ClaimBatch, Due
<1> QED
  BY <1>2, <1>3, NothingMoved DEF ClaimBatch, kafkaVars

LEMMA RenewRefines ==
  ASSUME TypeOK, NEW w \in Worker, NEW m \in worker[w].claims, RenewClaim(w, m)
  PROVE  [Delivery!DeliveryNext]_(Delivery!deliveryVars)
<1>1. m \in Message /\ m.event \in Event /\ worker[w].at = "LOOP"
  BY DEF TypeOK, Process, Message, RenewClaim
<1>2. PICK at \in {"SEND", "LOOP"} :
        /\ worker' = [worker EXCEPT ![w] = Moved(w, m, at)]
        /\ at = "SEND" => OwnsClaim(w, m.event)
  BY DEF RenewClaim
<1>3. PICK p \in Process : p = Moved(w, m, at)
  BY <1>1, MovedType
<1>4. \A d \in Event : row'[d].status = row[d].status
  BY DEF RenewClaim, TypeOK, Row
<1>5. topic' = topic /\ inFlight' = inFlight
  BY DEF RenewClaim, kafkaVars
<1>6. ASSUME NEW d \in Event, at = "LOOP" \/ d # m.event
      PROVE  OnItsWay(d)' <=> OnItsWay(d)
  <2>1. ~(p.at = "SEND" /\ p.current # None /\ p.current.event = d)
    BY <1>2, <1>3, <1>6 DEF Moved
  <2>2. worker' = [worker EXCEPT ![w] = p]
    BY <1>2, <1>3
  <2>3. OnItsWay(d)' <=>
          \/ \E n \in inFlight : n.event = d
          \/ \E v \in Worker \ {w} : At(v, "SEND") /\ worker[v].current.event = d
    <3>1. OnItsWay(d)' <=>
            \/ \E n \in inFlight' : n.event = d
            \/ p.at = "SEND" /\ p.current # None /\ p.current.event = d
            \/ \E v \in Worker \ {w} : At(v, "SEND") /\ worker[v].current.event = d
      BY <2>2 DEF OnItsWay, At, TypeOK
    <3>2. (\E n \in inFlight' : n.event = d) <=> (\E n \in inFlight : n.event = d)
      BY <1>5
    <3> QED
      BY <2>1, <3>1, <3>2
  <2>4. OnItsWay(d) <=>
          \/ \E n \in inFlight : n.event = d
          \/ \E v \in Worker \ {w} : At(v, "SEND") /\ worker[v].current.event = d
    BY <1>1 DEF OnItsWay, At
  <2> QED
    BY <2>3, <2>4
<1>7. ASSUME NEW d \in Event PROVE Lost(d)' <=> Lost(d)
  <2>1. CASE at = "LOOP" \/ d # m.event
    BY <1>4, <1>5, <1>6, <2>1 DEF Lost, Sent
  <2>2. CASE at = "SEND" /\ d = m.event
    <3>1. row[d].status = "IN_PROGRESS" /\ row'[d].status = "IN_PROGRESS"
      BY <1>2, <1>4, <2>2 DEF OwnsClaim
    <3> QED
      BY <3>1 DEF Lost
  <2> QED
    BY <2>1, <2>2
<1> QED
  BY <1>5, <1>7, NothingSettled

LEMMA SendRefines ==
  ASSUME TypeOK, NEW w \in Worker, PublishAcknowledged(w) \/ PublishFails(w)
  PROVE  [Delivery!DeliveryNext]_(Delivery!deliveryVars)
<1> PICK m \in Message : m = worker[w].current
  BY CurrentType DEF PublishAcknowledged, PublishFails, At
<1>1. worker[w].at = "SEND" /\ m # None /\ m.event \in Event
  BY NoneIsNoMessage DEF PublishAcknowledged, PublishFails, At, Message
<1>2. row' = row
  BY DEF PublishAcknowledged, PublishFails, rowVars
<1>3. OnItsWay(m.event)
  BY <1>1 DEF OnItsWay, At
<1>4. PICK at \in {"MARK", "FAIL"} : worker' = [worker EXCEPT ![w] = Moved(w, m, at)]
  BY DEF PublishAcknowledged, PublishFails, Goto
<1>5. Moved(w, m, at) \in Process /\ Moved(w, m, at).at # "SEND"
  BY <1>1, MovedType DEF Moved
<1>6. ASSUME NEW d \in Event \ {m.event},
             inFlight' = inFlight \/ inFlight' = inFlight \cup {m}
      PROVE  OnItsWay(d)' <=> OnItsWay(d)
  BY <1>1, <1>4, <1>5, <1>6 DEF OnItsWay, At, TypeOK
<1>7. CASE PublishAcknowledged(w)
  <2>1. topic' = topic \cup {m} /\ inFlight' = inFlight
    BY <1>7 DEF PublishAcknowledged
  <2> QED
    BY <1>1, <1>2, <1>3, <1>6, <2>1, OnlyDelivers
<1>8. CASE PublishFails(w)
  <2>1. topic' = topic /\ inFlight' = inFlight \cup {m}
    BY <1>8 DEF PublishFails
  <2>2. OnItsWay(m.event)'
    <3>1. m \in inFlight'
      BY <2>1
    <3> QED
      BY <3>1 DEF OnItsWay
  <2> QED
    BY <1>2, <1>3, <1>6, <2>1, <2>2, NothingMoved
<1> QED
  BY <1>7, <1>8

LEMMA MarkRefines ==
  ASSUME TypeOK, NEW w \in Worker, MarkPublished(w) \/ MarkFailedAttempt(w)
  PROVE  [Delivery!DeliveryNext]_(Delivery!deliveryVars)
<1> PICK m \in Message : m = worker[w].current
  BY CurrentType DEF MarkPublished, MarkFailedAttempt, At
<1>1. worker[w].at \in {"MARK", "FAIL"} /\ m # None /\ m.event \in Event
  BY NoneIsNoMessage DEF MarkPublished, MarkFailedAttempt, At, Message
<1>2. topic' = topic /\ inFlight' = inFlight
  BY DEF MarkPublished, MarkFailedAttempt, kafkaVars
<1>3. worker' = [worker EXCEPT ![w] = Moved(w, m, "LOOP")]
  BY DEF MarkPublished, MarkFailedAttempt, Goto
<1>4. Moved(w, m, "LOOP") \in Process /\ Moved(w, m, "LOOP").at # "SEND"
  BY <1>1, MovedType DEF Moved
<1>5. ASSUME NEW d \in Event PROVE OnItsWay(d)' <=> OnItsWay(d)
  BY <1>1, <1>2, <1>3, <1>4 DEF OnItsWay, At, TypeOK
<1>6. ASSUME NEW d \in Event \ {m.event} PROVE row'[d] = row[d]
  BY DEF MarkPublished, MarkFailedAttempt, TypeOK
<1>7. row[m.event].status = "FAILED" => row' = row
  BY DEF MarkPublished, MarkFailedAttempt, OwnsClaim
<1>8. \A d \in Event \ {m.event} : Lost(d)' <=> Lost(d)
  BY <1>2, <1>5, <1>6 DEF Lost, Sent
<1>9. Lost(m.event) => Lost(m.event)'
  BY <1>1, <1>2, <1>5, <1>7 DEF Lost, Sent
<1>10. Arrived' = Arrived
  BY <1>2 DEF Arrived, Sent
<1> QED
  BY <1>1, <1>8, <1>9, <1>10, OnlyLoses

LEMMA FaultRefines ==
  ASSUME TypeOK, NEW w \in Worker, DatabaseFails(w) \/ BatchAborted(w) \/ Crash(w)
  PROVE  [Delivery!DeliveryNext]_(Delivery!deliveryVars)
<1>1. topic' = topic /\ row' = row
  BY DEF DatabaseFails, BatchAborted, Crash, rowVars, kafkaVars
<1>2. ASSUME NEW p \in Process, p.at # "SEND", worker' = [worker EXCEPT ![w] = p],
             \/ inFlight' = inFlight /\ ~At(w, "SEND")
             \/ inFlight' = inFlight \cup {worker[w].current} /\ At(w, "SEND"),
             NEW d \in Event
      PROVE  OnItsWay(d)' <=> OnItsWay(d)
  BY <1>2 DEF OnItsWay, At, TypeOK
<1>3. CASE DatabaseFails(w)
  <2>1. inFlight' = inFlight /\ ~At(w, "SEND")
    BY <1>3 DEF DatabaseFails, kafkaVars, At
  <2>2. ASSUME NEW m \in Message, worker' = [worker EXCEPT ![w] = Moved(w, m, "FAIL")]
        PROVE  \A d \in Event : OnItsWay(d)' <=> OnItsWay(d)
    <3>1. Moved(w, m, "FAIL") \in Process /\ Moved(w, m, "FAIL").at # "SEND"
      BY MovedType DEF Moved
    <3> QED
      BY <1>2, <2>1, <2>2, <3>1
  <2>3. \E m \in Message : worker' = [worker EXCEPT ![w] = Moved(w, m, "FAIL")]
    <3>1. \A m \in worker[w].claims : m \in Message
      BY DEF TypeOK, Process
    <3>2. At(w, "MARK") => worker[w].current \in Message
      BY CurrentType DEF At
    <3> QED
      BY <1>3, <3>1, <3>2 DEF DatabaseFails, Goto
  <2> QED
    BY <1>1, <2>2, <2>3, NothingMoved
<1>4. CASE BatchAborted(w) \/ Crash(w)
  <2>1. worker' = [worker EXCEPT ![w] = Resting]
    BY <1>4 DEF BatchAborted, Crash
  <2>2. \/ inFlight' = inFlight /\ ~At(w, "SEND")
        \/ inFlight' = inFlight \cup {worker[w].current} /\ At(w, "SEND")
    BY <1>4 DEF BatchAborted, Crash, kafkaVars, At
  <2>3. \A d \in Event : OnItsWay(d)' <=> OnItsWay(d)
    BY <1>2, <2>1, <2>2, RestingType
  <2> QED
    BY <1>1, <2>3, NothingMoved
<1> QED
  BY <1>3, <1>4

LEMMA LeaseRefines ==
  ASSUME TypeOK, NEW e \in Event, LeaseEnds(e)
  PROVE  [Delivery!DeliveryNext]_(Delivery!deliveryVars)
<1>1. \A d \in Event : row'[d].status = row[d].status
  BY DEF LeaseEnds, TypeOK, Row
<1>2. topic' = topic /\ \A d \in Event : OnItsWay(d)' <=> OnItsWay(d)
  BY DEF LeaseEnds, kafkaVars, OnItsWay, At
<1> QED
  BY <1>1, <1>2, NothingMoved

LEMMA FateRefines ==
  ASSUME TypeOK, NEW m \in inFlight, FateOf(m)
  PROVE  [Delivery!DeliveryNext]_(Delivery!deliveryVars)
<1>1. m \in Message /\ m.event \in Event
  BY DEF TypeOK, Message
<1>2. row' = row /\ worker' = worker /\ inFlight' = inFlight \ {m}
  BY DEF FateOf, rowVars
<1>3. OnItsWay(m.event)
  BY DEF OnItsWay
<1>4. \A d \in Event \ {m.event} : OnItsWay(d)' <=> OnItsWay(d)
  BY <1>2 DEF OnItsWay, At
<1>5. CASE topic' = topic \cup {m}
  BY <1>1, <1>2, <1>3, <1>4, <1>5, OnlyDelivers
<1>6. CASE topic' = topic
  <2>1. Arrived' = Arrived
    BY <1>6 DEF Arrived, Sent
  <2>2. \A d \in Event \ {m.event} : Lost(d)' <=> Lost(d)
    BY <1>2, <1>4, <1>6 DEF Lost, Sent
  <2>3. ~Lost(m.event)
    BY <1>3 DEF Lost
  <2> QED
    BY <1>1, <2>1, <2>2, <2>3, OnlyLoses
<1> QED
  BY <1>5, <1>6 DEF FateOf

\* Every step of the publishers is a step of MessageDelivery or a stutter.
LEMMA StepRefines ==
  TypeOK /\ [PublisherStep]_vars => [Delivery!DeliveryNext]_(Delivery!deliveryVars)
<1> SUFFICES ASSUME TypeOK, [PublisherStep]_vars
             PROVE  [Delivery!DeliveryNext]_(Delivery!deliveryVars)
  OBVIOUS
<1>1. CASE UNCHANGED vars
  <2>1. topic' = topic /\ \A d \in Event : Lost(d)' <=> Lost(d)
    BY <1>1 DEF vars, Lost, Sent, OnItsWay, At
  <2> QED
    BY <2>1, NothingSettled
<1>2. CASE PublisherStep
  BY <1>2, ClaimRefines, RenewRefines, SendRefines, MarkRefines, FaultRefines, LeaseRefines,
     FateRefines
     DEF PublisherStep, Deliver
<1> QED
  BY <1>1, <1>2

\* What a transaction writes into the outbox is delivered, perhaps often, or
\* lost for good: nothing that was delivered is ever counted lost, nor the
\* reverse (the safety part of ImplementsDelivery).
THEOREM PublishersImplementDelivery == Spec => Delivery!DeliverySpec
<1>1. Init => Delivery!DeliveryInit
  BY DeliveryStarts
<1>2. TypeOK /\ [PublisherStep]_vars => [Delivery!DeliveryNext]_(Delivery!deliveryVars)
  BY StepRefines
<1> QED
  BY <1>1, <1>2, TypeCorrect, PTL DEF Spec, Delivery!DeliverySpec
================================================================================
