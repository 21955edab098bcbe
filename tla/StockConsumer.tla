------------------------------ MODULE StockConsumer ------------------------------
(***************************************************************************)
(* The Kafka side of the two stock consumers: supplier-service handles     *)
(* stock commands (stock_consumer.py), order-service handles stock events  *)
(* (stock_events_consumer.py).  Both read a partition, try a message a     *)
(* fixed number of times, copy it to the dead letter queue when that does  *)
(* not help, and only then commit its offset; both keep an inbox row per   *)
(* event id.  What the handled message does to orders or stock is the      *)
(* business of OrderSaga; here it is one effect, applied or not.           *)
(*                                                                         *)
(* A fault is a crash, a rebalance, or a call of the database or of Kafka  *)
(* that raises, whether or not it took effect.                             *)
(***************************************************************************)
EXTENDS Naturals, Sequences

CONSTANTS
  Event,          \* event ids
  Unparsable,     \* events whose message cannot be parsed into a command
  Valueless,      \* those of them without a value: null instead of JSON
  Unencodable,    \* those whose JSON has a string that UTF-8 cannot encode
  Consumer,       \* members of the consumer group
  MaxAttempts,    \* consumer_max_attempts
  MaxMessages,    \* bound: messages in the partition
  MaxFaults       \* bound: faults of all consumers together

ASSUME ConsumerAssumption ==
  /\ Unparsable \subseteq Event
  /\ Valueless \cup Unencodable \subseteq Unparsable
  /\ Valueless \cap Unencodable = {}
  /\ Consumer # {}
  /\ MaxAttempts \in Nat \ {0}
  /\ MaxMessages \in Nat
  /\ MaxFaults \in Nat

VARIABLES
  service,     \* which of the two services this consumer belongs to
  log,         \* the messages of the partition, by the event they carry
  committed,   \* how many of them the group has committed
  owner,       \* the consumer the partition is assigned to
  consumer,    \* where each consumer is: message, attempt and step
  inbox,       \* status of the inbox row of an event
  effects,     \* history: how often the event's transaction took effect
  dlq,         \* offsets of the messages copied to the dead letter queue
  replays,     \* history: offsets of the messages that dlq.py sent again
  refused,     \* events the service would refuse as incompatible now
  faults       \* faults so far

messageVars == <<log, dlq, replays, refused>>
databaseVars == <<inbox, effects>>
groupVars == <<committed, owner>>
vars ==
  <<service, log, committed, owner, consumer, inbox, effects, dlq, replays, refused, faults>>

Services == {"order-service", "supplier-service"}

\* FAILED stands for FAILED of order-service and FAILED_RETRYABLE of
\* supplier-service.  PROCESSING is never seen from outside the transaction
\* that writes it.
InboxStatus == {"ABSENT", "FAILED", "DLQ", "PROCESSED"}

Offset == 1..MaxMessages

Process ==
  [offset : 1..(MaxMessages + 1), attempt : 1..MaxAttempts,
   at : {"POLL", "TRY", "RECORD", "DLQ", "MARK", "COMMIT"}]

TypeOK ==
  /\ service \in Services
  /\ log \in Seq(Event) /\ Len(log) <= MaxMessages
  /\ committed \in 0..Len(log)
  /\ owner \in Consumer
  /\ consumer \in [Consumer -> Process]
  /\ inbox \in [Event -> InboxStatus]
  /\ effects \in [Event -> Nat]
  /\ dlq \cup replays \subseteq 1..Len(log)
  /\ refused \subseteq Event
  /\ faults \in 0..MaxFaults

\* A consumer reads on from an offset.
ReadingFrom(offset) == [offset |-> offset, attempt |-> 1, at |-> "POLL"]

Init ==
  /\ service \in Services
  /\ log = <<>>
  /\ committed = 0
  /\ owner \in Consumer
  /\ consumer = [c \in Consumer |-> ReadingFrom(1)]
  /\ inbox = [e \in Event |-> "ABSENT"]
  /\ effects = [e \in Event |-> 0]
  /\ dlq = {}
  /\ replays = {}
  /\ refused \in SUBSET (Event \ Unparsable)
  /\ faults = 0

-----------------------------------------------------------------------------
(* The partition *)

\* The outbox publisher of the other service sends an event, perhaps again.
Produce(e) ==
  /\ Len(log) < MaxMessages
  /\ log' = Append(log, e)
  /\ UNCHANGED <<service, groupVars, consumer, databaseVars, dlq, replays, refused, faults>>

\* An operator finds why an event was refused and removes the cause.
Repair(e) ==
  /\ e \in refused
  /\ refused' = refused \ {e}
  /\ UNCHANGED <<service, log, groupVars, consumer, databaseVars, dlq, replays, faults>>

\* scripts/dlq.py replay: the original message again, with its event id; a
\* dead letter without the original value is not replayable.
Replay(offset) ==
  /\ offset \in dlq
  /\ log[offset] \notin Valueless
  /\ Len(log) < MaxMessages
  /\ log' = Append(log, log[offset])
  /\ replays' = replays \cup {Len(log) + 1}
  /\ UNCHANGED <<service, groupVars, consumer, databaseVars, dlq, refused, faults>>

-----------------------------------------------------------------------------
(* One message *)

Fault ==
  /\ faults < MaxFaults
  /\ faults' = faults + 1

At(c, at) == consumer[c].at = at
Current(c) == log[consumer[c].offset]
Goto(c, at) == consumer' = [consumer EXCEPT ![c].at = at]

Poll(c) ==
  /\ At(c, "POLL")
  /\ c = owner
  /\ consumer[c].offset <= Len(log)
  /\ Goto(c, "TRY")
  /\ UNCHANGED <<service, messageVars, groupVars, databaseVars, faults>>

\* Mutants: one attempt too many; a message that keeps failing is tried for
\* ever; the attempts end without a dead letter.
OneAttemptMore(p) ==
  IF p.attempt <= MaxAttempts THEN [p EXCEPT !.attempt = @ + 1, !.at = "TRY"]
                              ELSE [p EXCEPT !.at = "DLQ"]
TryForEver(p) == [p EXCEPT !.at = "TRY"]
ForgetDeadLetter(p) ==
  IF p.attempt < MaxAttempts THEN [p EXCEPT !.attempt = @ + 1, !.at = "TRY"]
                             ELSE [p EXCEPT !.at = "MARK"]

AfterAttempt(p) ==
  IF p.attempt < MaxAttempts THEN [p EXCEPT !.attempt = @ + 1, !.at = "TRY"]
                             ELSE [p EXCEPT !.at = "DLQ"]

AttemptFailed(c) == consumer' = [consumer EXCEPT ![c] = AfterAttempt(@)]

\* Mutant: order-service, too, takes a failed event for a handled one.
DuplicateOnceSeen(e) == inbox[e] # "ABSENT"

\* The inbox row says that the event needs no work.
Duplicate(e) ==
  \/ inbox[e] = "PROCESSED"
  \/ service = "supplier-service" /\ inbox[e] = "DLQ"

\* Business effect, outbox rows and inbox row are one transaction, and the
\* row lock of the inbox serialises two consumers of one event.
Apply(e) ==
  /\ inbox' = [inbox EXCEPT ![e] = "PROCESSED"]
  /\ effects' = [effects EXCEPT ![e] = @ + 1]

SkipDuplicate(c) ==
  /\ At(c, "TRY")
  /\ Current(c) \notin Unparsable
  /\ Duplicate(Current(c))
  /\ Goto(c, "COMMIT")
  /\ UNCHANGED <<service, messageVars, groupVars, databaseVars, faults>>

HandleMessage(c) ==
  /\ At(c, "TRY")
  /\ Current(c) \notin Unparsable \cup refused
  /\ ~Duplicate(Current(c))
  /\ Apply(Current(c))
  /\ Goto(c, "COMMIT")
  /\ UNCHANGED <<service, messageVars, groupVars, faults>>

\* The transaction, if it had begun, is rolled back and nothing is recorded.
RefuseMessage(c) ==
  /\ At(c, "TRY")
  /\ \/ Current(c) \in Unparsable
     \/ Current(c) \in refused /\ ~Duplicate(Current(c))
  /\ AttemptFailed(c)
  /\ UNCHANGED <<service, messageVars, groupVars, databaseVars, faults>>

\* The database raises, before the commit took effect or after it.
HandlingRaises(c) ==
  /\ Fault
  /\ At(c, "TRY")
  /\ Current(c) \notin Unparsable
  /\ \/ UNCHANGED databaseVars
     \/ /\ Current(c) \notin refused
        /\ ~Duplicate(Current(c))
        /\ Apply(Current(c))
  /\ Goto(c, "RECORD")
  /\ UNCHANGED <<service, messageVars, groupVars>>

\* Mutant: the failure is written over a row that has become PROCESSED.
Overwritten(e, status) == [inbox EXCEPT ![e] = status]

Recorded(e, status) ==
  [inbox EXCEPT ![e] = IF @ = "PROCESSED" THEN @ ELSE status]

RecordRetryableFailure(c) ==
  /\ At(c, "RECORD")
  /\ inbox' = Recorded(Current(c), "FAILED")
  /\ AttemptFailed(c)
  /\ UNCHANGED <<service, messageVars, groupVars, effects, faults>>

\* Only logged: the next attempt comes all the same.
RecordingRaises(c) ==
  /\ Fault
  /\ At(c, "RECORD")
  /\ AttemptFailed(c)
  /\ UNCHANGED <<service, messageVars, groupVars, databaseVars>>

\* The worker seeks back to the message and reads it again.
SeekBack(c) ==
  consumer' = [consumer EXCEPT ![c] = ReadingFrom(consumer[c].offset)]

\* _build_dlq_message of supplier-service decodes the value that is not there,
\* and the producer of either service encodes the original message.
Publishable(e) ==
  /\ e \notin Unencodable
  /\ service = "supplier-service" => e \notin Valueless

PublishDeadLetter(c) ==
  /\ At(c, "DLQ")
  /\ Publishable(Current(c))
  /\ dlq' = dlq \cup {consumer[c].offset}
  /\ Goto(c, IF Current(c) \in Unparsable THEN "COMMIT" ELSE "MARK")
  /\ UNCHANGED <<service, log, replays, refused, groupVars, databaseVars, faults>>

\* The dead letter raises, as it will at the next attempt and for ever.
DeadLetterImpossible(c) ==
  /\ At(c, "DLQ")
  /\ ~Publishable(Current(c))
  /\ SeekBack(c)
  /\ UNCHANGED <<service, messageVars, groupVars, databaseVars, faults>>

MarkTerminal(c) ==
  /\ At(c, "MARK")
  /\ inbox' = Recorded(Current(c),
                       IF service = "supplier-service" THEN "DLQ" ELSE "FAILED")
  /\ Goto(c, "COMMIT")
  /\ UNCHANGED <<service, messageVars, groupVars, effects, faults>>

CommitOffset(c) ==
  /\ At(c, "COMMIT")
  /\ c = owner
  /\ committed' = consumer[c].offset
  /\ consumer' = [consumer EXCEPT ![c] = ReadingFrom(consumer[c].offset + 1)]
  /\ UNCHANGED <<service, messageVars, owner, databaseVars, faults>>

\* The group has given the partition to another consumer meanwhile: commit
\* and seek raise, the process ends and is started again.
CommitFenced(c) ==
  /\ At(c, "COMMIT")
  /\ c # owner
  /\ consumer' = [consumer EXCEPT ![c] = ReadingFrom(committed + 1)]
  /\ UNCHANGED <<service, messageVars, groupVars, databaseVars, faults>>

-----------------------------------------------------------------------------
(* Faults outside the attempts *)

DeadLetterRaises(c) ==
  /\ Fault
  /\ At(c, "DLQ")
  /\ Publishable(Current(c))
  /\ dlq' \in {dlq, dlq \cup {consumer[c].offset}}
  /\ SeekBack(c)
  /\ UNCHANGED <<service, log, replays, refused, groupVars, databaseVars>>

MarkRaises(c) ==
  /\ Fault
  /\ At(c, "MARK")
  /\ SeekBack(c)
  /\ UNCHANGED <<service, messageVars, groupVars, databaseVars>>

CommitRaises(c) ==
  /\ Fault
  /\ At(c, "COMMIT")
  /\ c = owner
  /\ committed' \in {committed, consumer[c].offset}
  /\ SeekBack(c)
  /\ UNCHANGED <<service, messageVars, owner, databaseVars>>

Crash(c) ==
  /\ Fault
  /\ ~At(c, "POLL")
  /\ consumer' = [consumer EXCEPT ![c] = ReadingFrom(committed + 1)]
  /\ UNCHANGED <<service, messageVars, groupVars, databaseVars>>

\* The group gives the partition to another consumer; the old owner may still
\* be busy with a message.
Rebalance(c) ==
  /\ Fault
  /\ c # owner
  /\ At(c, "POLL")
  /\ owner' = c
  /\ consumer' = [consumer EXCEPT ![c] = ReadingFrom(committed + 1)]
  /\ UNCHANGED <<service, messageVars, committed, databaseVars>>

-----------------------------------------------------------------------------

Work(c) ==
  \/ Poll(c)
  \/ SkipDuplicate(c)
  \/ HandleMessage(c)
  \/ RefuseMessage(c)
  \/ RecordRetryableFailure(c)
  \/ PublishDeadLetter(c)
  \/ DeadLetterImpossible(c)
  \/ MarkTerminal(c)
  \/ CommitOffset(c)
  \/ CommitFenced(c)

Disturb(c) ==
  \/ HandlingRaises(c)
  \/ RecordingRaises(c)
  \/ DeadLetterRaises(c)
  \/ MarkRaises(c)
  \/ CommitRaises(c)
  \/ Crash(c)
  \/ Rebalance(c)

Next ==
  \/ \E c \in Consumer : Work(c) \/ Disturb(c)
  \/ \E e \in Event : Produce(e) \/ Repair(e)
  \/ \E offset \in dlq : Replay(offset)

Spec == Init /\ [][Next]_vars

\* The consumers are loops that never stop by choice.
FairSpec == Spec /\ \A c \in Consumer : WF_vars(Work(c))

-----------------------------------------------------------------------------
(* Properties *)

\* An event takes effect once and is PROCESSED from then on: not again after
\* an ambiguous commit, a redelivery, a replay or a rebalance, and no failure
\* that an overtaken consumer records late hides that it did (_claim_inbox,
\* record_retryable_failure, mark_dlq).
AppliedOnce ==
  \A e \in Event : effects[e] = IF inbox[e] = "PROCESSED" THEN 1 ELSE 0

\* The group never passes over a message in silence: what it committed is
\* processed or in the dead letter queue (process_message).
NothingLost ==
  \A n \in 1..committed :
    inbox[log[n]] = "PROCESSED" \/ \E m \in dlq : log[m] = log[n]

\* In order-service every single copy of a message that was committed was
\* processed or has a dead letter of its own: a repeated or replayed event is
\* tried again until it is processed (StockResultService._claim_inbox).
OrderCopiesHandled ==
  service = "order-service" =>
    \A n \in 1..committed : inbox[log[n]] = "PROCESSED" \/ n \in dlq

\* No message holds up those behind it, whatever else is wrong with it, as
\* long as its dead letter can be written (handle, _build_dlq_message).
PartitionAdvances ==
  \A n \in Offset :
    (Len(log) >= n /\ \A m \in 1..n : Publishable(log[m])) ~> committed >= n
-----------------------------------------------------------------------------
(* What the documentation promises and the code does not keep *)

\* docs/to-be/02-mvp-scope-roles-and-user-scenarios.md, MVP-ALT-018: what is
\* in the dead letter queue can be replayed.  A replayed message whose cause
\* of failure is gone is processed, or is dead-lettered anew.
ReplayIsHandled ==
  \A n \in replays :
    n <= committed /\ log[n] \notin refused =>
      inbox[log[n]] = "PROCESSED" \/ n \in dlq
================================================================================
