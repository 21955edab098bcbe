----------------------------- MODULE OutboxPublisher -----------------------------
(***************************************************************************)
(* The publisher processes of an outbox table, as order-service and        *)
(* supplier-service both run them (services/outbox_publisher.py): claim a  *)
(* batch of due rows under a lease, and for each of them renew the claim,  *)
(* send the message and mark the row.                                      *)
(*                                                                         *)
(* Time is left open: a row is due again at any time after a failed        *)
(* attempt, and a lease may end whatever its owner is doing.  A fault is a *)
(* crash, a database error, or a lease that ends under a living owner.     *)
(***************************************************************************)
EXTENDS Naturals, FiniteSets

CONSTANTS
  Event,          \* the rows of the outbox table
  Reservation,    \* the rows of type StockReservationRequested
  Worker,         \* publisher processes; the id is hostname and pid
  None,           \* no worker, no deadline, no message
  BatchSize,      \* outbox_batch_size
  MaxAttempts,    \* outbox_max_attempts
  MaxFaults       \* bound: faults of all workers together

ASSUME PublisherAssumption ==
  /\ Reservation \subseteq Event
  /\ None \notin Worker \cup Nat
  /\ None \notin [event : Event, deadline : Nat \cup {None}]
  /\ BatchSize \in Nat \ {0}
  /\ MaxAttempts \in Nat \ {0}
  /\ MaxFaults \in Nat

VARIABLES
  row,        \* the outbox rows
  deadline,   \* orders.reservation_deadline_at of the order a row is about
  worker,     \* what each process has claimed and where it is
  inFlight,   \* messages handed to Kafka whose fate the sender did not learn
  topic,      \* messages stored in the topic
  faults      \* faults so far

rowVars == <<row, deadline>>
kafkaVars == <<inFlight, topic>>
vars == <<row, deadline, worker, inFlight, topic, faults>>

\* The attempt that fixes a deadline stands for the time it is computed from.
Deadline == Nat \cup {None}

Row ==
  [status : {"PENDING", "IN_PROGRESS", "PUBLISHED", "FAILED"},
   attempt_count : Nat,
   locked_by : Worker \cup {None},
   expired : BOOLEAN,           \* locked_at is older than the lease
   deadline : Deadline]         \* reservation_deadline_at in the payload

\* A claimed row is copied into the memory of the process, payload and all.
Message == [event : Event, deadline : Deadline]

Process ==
  [claims : SUBSET Message,
   current : Message \cup {None},
   at : {"LOOP", "SEND", "MARK", "FAIL"}]

Resting == [claims |-> {}, current |-> None, at |-> "LOOP"]

TypeOK ==
  /\ row \in [Event -> Row]
  /\ \A e \in Event : row[e].locked_by # None <=> row[e].status = "IN_PROGRESS"
  /\ deadline \in [Event -> Deadline]
  /\ worker \in [Worker -> Process]
  /\ \A w \in Worker : worker[w].current = None <=> worker[w].at = "LOOP"
  /\ inFlight \subseteq Message
  /\ topic \subseteq Message
  /\ faults \in 0..MaxFaults

Init ==
  /\ row = [e \in Event |-> [status |-> "PENDING", attempt_count |-> 0,
                             locked_by |-> None, expired |-> FALSE, deadline |-> None]]
  /\ deadline = [e \in Event |-> None]
  /\ worker = [w \in Worker |-> Resting]
  /\ inFlight = {}
  /\ topic = {}
  /\ faults = 0

-----------------------------------------------------------------------------
(* Claiming *)

\* Mutant: nobody looks for the rows of a worker that died.
DueWhenPending(r) == r.status = "PENDING"

Due(r) == r.status = "PENDING" \/ (r.status = "IN_PROGRESS" /\ r.expired)

\* Mutant: every claim starts a new reservation period.
RenewedDeadline(e) ==
  IF e \in Reservation THEN row[e].attempt_count + 1 ELSE None

\* The first claim of a reservation request starts the reservation period.
ActiveDeadline(e) ==
  IF e \in Reservation /\ deadline[e] = None THEN row[e].attempt_count + 1
                                             ELSE deadline[e]

PayloadDeadline(e) ==
  IF e \in Reservation /\ row[e].deadline = None THEN ActiveDeadline(e)
                                                 ELSE row[e].deadline

ClaimBatch(w) ==
  /\ worker[w] = Resting
  /\ \E batch \in SUBSET {e \in Event : Due(row[e])} :
       /\ Cardinality(batch) \in 1..BatchSize
       /\ row' = [e \in Event |->
                    IF e \in batch
                    THEN [status |-> "IN_PROGRESS",
                          attempt_count |-> row[e].attempt_count + 1,
                          locked_by |-> w, expired |-> FALSE,
                          deadline |-> PayloadDeadline(e)]
                    ELSE row[e]]
       /\ deadline' = [e \in Event |-> IF e \in batch THEN ActiveDeadline(e)
                                                      ELSE deadline[e]]
       /\ worker' = [worker EXCEPT ![w].claims =
                       {[event |-> e, deadline |-> PayloadDeadline(e)] : e \in batch}]
  /\ UNCHANGED <<kafkaVars, faults>>

-----------------------------------------------------------------------------
(* Delivering the claimed rows one by one *)

InMemoryOf(w, e) ==
  \/ \E m \in worker[w].claims : m.event = e
  \/ worker[w].current # None /\ worker[w].current.event = e

\* Mutants: a worker trusts what it remembers; it looks at the status only.
Remembered(w, e) == InMemoryOf(w, e)
InProgress(w, e) == row[e].status = "IN_PROGRESS"

OwnsClaim(w, e) ==
  /\ row[e].status = "IN_PROGRESS"
  /\ row[e].locked_by = w

Moved(w, m, at) ==
  [claims |-> worker[w].claims \ {m},
   current |-> IF at = "LOOP" THEN None ELSE m,
   at |-> at]

RenewClaim(w, m) ==
  /\ worker[w].at = "LOOP"
  /\ m \in worker[w].claims
  /\ \/ /\ OwnsClaim(w, m.event)
        /\ row' = [row EXCEPT ![m.event].expired = FALSE]
        /\ worker' = [worker EXCEPT ![w] = Moved(w, m, "SEND")]
     \/ /\ ~OwnsClaim(w, m.event)   \* claim_lost_before_delivery
        /\ worker' = [worker EXCEPT ![w] = Moved(w, m, "LOOP")]
        /\ UNCHANGED row
  /\ UNCHANGED <<deadline, kafkaVars, faults>>

At(w, at) == worker[w].at = at /\ worker[w].current # None

Goto(w, at) ==
  worker' = [worker EXCEPT ![w] = Moved(w, worker[w].current, at)]

PublishAcknowledged(w) ==
  /\ At(w, "SEND")
  /\ topic' = topic \cup {worker[w].current}
  /\ Goto(w, "MARK")
  /\ UNCHANGED <<rowVars, inFlight, faults>>

\* The broker refused, or did not acknowledge within the delivery timeout.
PublishFails(w) ==
  /\ At(w, "SEND")
  /\ inFlight' = inFlight \cup {worker[w].current}
  /\ Goto(w, "FAIL")
  /\ UNCHANGED <<rowVars, topic, faults>>

FateOf(m) ==
  /\ m \in inFlight
  /\ inFlight' = inFlight \ {m}
  /\ topic' \in {topic, topic \cup {m}}
  /\ UNCHANGED <<rowVars, worker, faults>>

\* Mutant: the row keeps the name of its last owner.
UnlockedWithOwner(r, status) == [r EXCEPT !.status = status, !.expired = FALSE]

Unlocked(r, status) ==
  [r EXCEPT !.status = status, !.locked_by = None, !.expired = FALSE]

\* A row that is no longer the worker's is left alone.
MarkPublished(w) ==
  LET e == worker[w].current.event
  IN  /\ At(w, "MARK")
      /\ row' = IF OwnsClaim(w, e)
                THEN [row EXCEPT ![e] = Unlocked(@, "PUBLISHED")] ELSE row
      /\ Goto(w, "LOOP")
      /\ UNCHANGED <<deadline, kafkaVars, faults>>

\* Mutant: a failed attempt passes for a delivery.
Swallowed(r) == Unlocked(r, "PUBLISHED")

AfterFailure(r) ==
  Unlocked(r, IF r.attempt_count >= MaxAttempts THEN "FAILED" ELSE "PENDING")

MarkFailedAttempt(w) ==
  LET e == worker[w].current.event
  IN  /\ At(w, "FAIL")
      /\ row' = IF OwnsClaim(w, e) THEN [row EXCEPT ![e] = AfterFailure(@)] ELSE row
      /\ Goto(w, "LOOP")
      /\ UNCHANGED <<deadline, kafkaVars, faults>>

-----------------------------------------------------------------------------
(* Time and faults *)

Fault ==
  /\ faults < MaxFaults
  /\ faults' = faults + 1

Forgotten(e) == \A w \in Worker : row[e].locked_by = w => ~InMemoryOf(w, e)

Leased(e) == row[e].status = "IN_PROGRESS" /\ ~row[e].expired

LeaseEnds(e) ==
  /\ Leased(e)
  /\ row' = [row EXCEPT ![e].expired = TRUE]
  /\ IF Forgotten(e) THEN UNCHANGED faults ELSE Fault
  /\ UNCHANGED <<deadline, worker, kafkaVars>>

\* renew_claim or mark_published raises: the attempt has failed.
DatabaseFails(w) ==
  /\ Fault
  /\ \/ /\ worker[w].at = "LOOP"
        /\ \E m \in worker[w].claims :
             worker' = [worker EXCEPT ![w] = Moved(w, m, "FAIL")]
     \/ At(w, "MARK") /\ Goto(w, "FAIL")
  /\ UNCHANGED <<rowVars, kafkaVars>>

\* mark_failed_attempt raises: process_once ends and the rest of the batch
\* is forgotten.
BatchAborted(w) ==
  /\ Fault
  /\ At(w, "FAIL")
  /\ worker' = [worker EXCEPT ![w] = Resting]
  /\ UNCHANGED <<rowVars, kafkaVars>>

\* The process is killed and started again.
Crash(w) ==
  /\ Fault
  /\ worker[w] # Resting
  /\ inFlight' = IF At(w, "SEND") THEN inFlight \cup {worker[w].current} ELSE inFlight
  /\ worker' = [worker EXCEPT ![w] = Resting]
  /\ UNCHANGED <<rowVars, topic>>

-----------------------------------------------------------------------------

Deliver(w) ==
  \/ \E m \in worker[w].claims : RenewClaim(w, m)
  \/ PublishAcknowledged(w)
  \/ PublishFails(w)
  \/ MarkPublished(w)
  \/ MarkFailedAttempt(w)

PublisherStep ==
  \/ \E w \in Worker :
       \/ ClaimBatch(w)
       \/ Deliver(w)
       \/ DatabaseFails(w)
       \/ BatchAborted(w)
       \/ Crash(w)
  \/ \E e \in Event : LeaseEnds(e)
  \/ \E m \in inFlight : FateOf(m)

Spec == Init /\ [][PublisherStep]_vars

\* The processes poll for ever and a restarted one polls again; a lease whose
\* owner no longer has the row in memory runs out; Kafka decides.
Fairness ==
  /\ \A w \in Worker : WF_vars(ClaimBatch(w)) /\ WF_vars(Deliver(w))
  /\ \A e \in Event : WF_vars(LeaseEnds(e) /\ Forgotten(e))
  /\ WF_vars(\E m \in inFlight : FateOf(m))

FairSpec == Spec /\ Fairness

-----------------------------------------------------------------------------
(* Properties *)

Sent(e) == \E m \in topic : m.event = e

\* A row marked PUBLISHED has been sent, whatever worker marked it after
\* whatever lost acknowledgement, overtaking or restart (process_once,
\* mark_published).
PublishedWasSent == \A e \in Event : row[e].status = "PUBLISHED" => Sent(e)

\* Every copy of a reservation request says the same deadline, and it is the
\* one its order row has: a copy that an overtaken worker sends late agrees
\* with the copy of its successor (_activate_reservation_deadline).
OneDeadline ==
  \A m \in topic :
    m.deadline = deadline[m.event] /\ (m.event \in Reservation => m.deadline # None)

\* A worker that was overtaken never undoes or ends the claim of another: a
\* row under a running lease is let go only by the process that holds it
\* (_owns_claim).
OwnerLetsGo ==
  [][\A e \in Event :
       Leased(e) /\ row'[e].locked_by # row[e].locked_by =>
         worker'[row[e].locked_by] # worker[row[e].locked_by]]_vars

\* A row that is PUBLISHED or FAILED is never touched again.
SettledStays ==
  [][\A e \in Event : row[e].status \in {"PUBLISHED", "FAILED"} => row'[e] = row[e]]_vars

(***************************************************************************)
(* The publishers implement MessageDelivery.  A FAILED row is lost only    *)
(* when no copy of it was stored or can still be: by Kafka, or by a worker *)
(* that was overtaken on its way to Kafka.                                 *)
(***************************************************************************)
OnItsWay(e) ==
  \/ \E m \in inFlight : m.event = e
  \/ \E w \in Worker : At(w, "SEND") /\ worker[w].current.event = e

Lost(e) == row[e].status = "FAILED" /\ ~Sent(e) /\ ~OnItsWay(e)

Delivery ==
  INSTANCE MessageDelivery
    WITH Message <- Event,
         delivered <- {e \in Event : Sent(e)},
         lost <- {e \in Event : Lost(e)}

\* What a transaction writes into the outbox reaches the topic, or is lost
\* for good after all attempts; one of them happens.
ImplementsDelivery == Delivery!FairDeliverySpec
================================================================================
