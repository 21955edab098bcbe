--------------------------- MODULE StockConsumerProofs ---------------------------
(***************************************************************************)
(* What the two stock consumers guarantee for every number of events,      *)
(* messages, consumers, attempts and faults.                               *)
(***************************************************************************)
EXTENDS StockConsumer, TLAPS

(***************************************************************************)
(* The inductive invariant.  A busy consumer is about a message of the     *)
(* partition; a consumer that marks or commits a message has done with it; *)
(* and everything before the message a consumer reads is done with, so     *)
(* that whoever commits passes over nothing.                               *)
(***************************************************************************)
InLog ==
  \A c \in Consumer :
    /\ consumer[c].offset <= Len(log) + 1
    /\ consumer[c].at # "POLL" => consumer[c].offset <= Len(log)

DeadLetterOf(e) == \E m \in dlq : log[m] = e

\* Processed, dead-lettered itself or, in supplier-service, a copy of a
\* message that was.
Done(n) ==
  \/ inbox[log[n]] = "PROCESSED"
  \/ n \in dlq
  \/ service = "supplier-service" /\ DeadLetterOf(log[n])

MarkedIsDeadLetter ==
  /\ \A e \in Event : inbox[e] = "DLQ" => DeadLetterOf(e)
  /\ \A c \in Consumer : consumer[c].at = "MARK" => consumer[c].offset \in dlq

Behind(c) ==
  {n \in 1..consumer[c].offset : n < consumer[c].offset \/ consumer[c].at = "COMMIT"}

PassedIsDone ==
  /\ \A n \in 1..committed : Done(n)
  /\ \A c \in Consumer : \A n \in Behind(c) : Done(n)

ConsumerInvariant ==
  TypeOK /\ InLog /\ AppliedOnce /\ MarkedIsDeadLetter /\ PassedIsDone

-----------------------------------------------------------------------------
(* Types *)

\* The message of a busy consumer.
LEMMA CurrentInLog ==
  ASSUME TypeOK, InLog, NEW c \in Consumer, consumer[c].at # "POLL"
  PROVE  /\ consumer[c].offset \in 1..Len(log)
         /\ Current(c) \in Event
BY DEF TypeOK, InLog, Process, Current

\* Where a consumer may be after it has moved.
Movable(c, p) ==
  /\ p \in Process
  /\ p.offset <= Len(log) + 1
  /\ p.at # "POLL" => p.offset <= Len(log)

LEMMA MovedTypes ==
  ASSUME TypeOK, InLog, NEW c \in Consumer, NEW p, Movable(c, p), log' = log,
         consumer' = [consumer EXCEPT ![c] = p]
  PROVE  consumer' \in [Consumer -> Process] /\ InLog'
BY DEF TypeOK, InLog, Movable

LEMMA GotoMovable ==
  ASSUME TypeOK, InLog, NEW c \in Consumer, consumer[c].at # "POLL",
         NEW at \in {"TRY", "RECORD", "DLQ", "MARK", "COMMIT"}
  PROVE  Movable(c, [consumer[c] EXCEPT !.at = at])
<1>1. consumer[c] \in Process /\ consumer[c].offset \in 1..Len(log) /\ Len(log) \in Nat
  BY CurrentInLog DEF TypeOK
<1>2. ASSUME NEW r \in Process
      PROVE  [r EXCEPT !.at = at] \in Process /\ [r EXCEPT !.at = at].offset = r.offset
  BY DEF Process
<1> QED
  BY <1>1, <1>2 DEF Movable

LEMMA AttemptMovable ==
  ASSUME TypeOK, InLog, NEW c \in Consumer, consumer[c].at # "POLL"
  PROVE  Movable(c, AfterAttempt(consumer[c]))
<1>1. consumer[c] \in Process /\ consumer[c].offset \in 1..Len(log)
  BY CurrentInLog DEF TypeOK
<1>2. ASSUME NEW r \in Process
      PROVE  AfterAttempt(r) \in Process /\ AfterAttempt(r).offset = r.offset
  <2>1. CASE r.attempt < MaxAttempts
    <3>1. AfterAttempt(r) = [offset |-> r.offset, attempt |-> r.attempt + 1, at |-> "TRY"]
      BY <2>1 DEF AfterAttempt, Process
    <3>2. r.attempt + 1 \in 1..MaxAttempts /\ r.offset \in 1..(MaxMessages + 1)
      BY <2>1, ConsumerAssumption DEF Process
    <3> QED
      BY <3>1, <3>2 DEF Process
  <2>2. CASE ~(r.attempt < MaxAttempts)
    BY <2>2 DEF AfterAttempt, Process
  <2> QED
    BY <2>1, <2>2
<1> QED
  BY <1>1, <1>2 DEF Movable, TypeOK

LEMMA ReadingMovable ==
  ASSUME TypeOK, NEW c \in Consumer, NEW offset \in 1..(Len(log) + 1)
  PROVE  Movable(c, ReadingFrom(offset))
BY ConsumerAssumption DEF Movable, ReadingFrom, Process, TypeOK

LEMMA InitTypes == Init => TypeOK /\ InLog
BY ConsumerAssumption DEF Init, TypeOK, InLog, ReadingFrom, Process, InboxStatus, Services

\* Another message in the partition leaves everything else as it was.
LEMMA Grown ==
  ASSUME TypeOK, InLog, log' \in Seq(Event), Len(log') = Len(log) + 1, Len(log') <= MaxMessages,
         replays' \subseteq 1..Len(log') \/ replays' = replays, dlq' = dlq,
         UNCHANGED <<service, committed, owner, consumer, inbox, effects, refused, faults>>
  PROVE  TypeOK' /\ InLog'
<1>1. Len(log) \in Nat /\ committed \in Nat /\ \A c \in Consumer : consumer[c].offset \in Nat
  BY DEF TypeOK, Process
<1>2. InLog'
  BY <1>1 DEF InLog
<1>3. committed' \in 0..Len(log') /\ (dlq \cup replays)' \subseteq 1..Len(log')
  BY <1>1 DEF TypeOK
<1> QED
  BY <1>2, <1>3 DEF TypeOK

\* The partition grows.
LEMMA ProduceTypes ==
  ASSUME TypeOK, InLog,
         \/ \E e \in Event : Produce(e) \/ Repair(e)
         \/ \E offset \in dlq : Replay(offset)
  PROVE  TypeOK' /\ InLog'
<1>1. ASSUME NEW e \in Event, Produce(e) PROVE TypeOK' /\ InLog'
  <2>1. log' \in Seq(Event) /\ Len(log') = Len(log) + 1 /\ Len(log') <= MaxMessages
    BY <1>1, ConsumerAssumption DEF Produce, TypeOK
  <2> QED
    BY <1>1, <2>1, Grown DEF Produce, groupVars, databaseVars
<1>2. ASSUME NEW e \in Event, Repair(e) PROVE TypeOK' /\ InLog'
  BY <1>2 DEF Repair, TypeOK, InLog, groupVars, databaseVars
<1>3. ASSUME NEW offset \in dlq, Replay(offset) PROVE TypeOK' /\ InLog'
  <2>1. log[offset] \in Event
    BY DEF TypeOK
  <2>2. log' \in Seq(Event) /\ Len(log') = Len(log) + 1 /\ Len(log') <= MaxMessages
    BY <1>3, <2>1, ConsumerAssumption DEF Replay, TypeOK
  <2>3. replays' \subseteq 1..Len(log')
    BY <1>3, <2>2 DEF Replay, TypeOK
  <2> QED
    BY <1>3, <2>2, <2>3, Grown DEF Replay, groupVars, databaseVars
<1> QED
  BY <1>1, <1>2, <1>3

LEMMA SeekBackTypes ==
  ASSUME TypeOK, InLog, NEW c \in Consumer, consumer[c].at # "POLL", SeekBack(c), log' = log
  PROVE  consumer' \in [Consumer -> Process] /\ InLog'
<1>1. Movable(c, ReadingFrom(consumer[c].offset))
  BY CurrentInLog, ReadingMovable DEF TypeOK
<1> QED
  BY <1>1, MovedTypes DEF SeekBack

\* One message is handled, and one fails to be.
LEMMA WorkTypes ==
  ASSUME TypeOK, InLog, NEW c \in Consumer, Work(c) PROVE TypeOK' /\ InLog'
<1>1. CASE Poll(c)
  <2>1. Movable(c, [consumer[c] EXCEPT !.at = "TRY"])
    <3>1. ASSUME NEW r \in Process
          PROVE  [r EXCEPT !.at = "TRY"] \in Process /\ [r EXCEPT !.at = "TRY"].offset = r.offset
      BY DEF Process
    <3>2. consumer[c] \in Process /\ consumer[c].offset <= Len(log) /\ Len(log) \in Nat
      BY <1>1 DEF Poll, TypeOK
    <3>3. consumer[c].offset \in Nat
      BY <3>2 DEF Process
    <3> QED
      BY <3>1, <3>2, <3>3 DEF Movable
  <2> QED
    BY <1>1, <2>1, MovedTypes DEF Poll, Goto, TypeOK, messageVars, groupVars, databaseVars
<1>2. CASE SkipDuplicate(c)
  BY <1>2, GotoMovable, MovedTypes
     DEF SkipDuplicate, Goto, At, TypeOK, messageVars, groupVars, databaseVars
<1>3. CASE HandleMessage(c)
  <2>1. consumer' \in [Consumer -> Process] /\ InLog'
    BY <1>3, GotoMovable, MovedTypes DEF HandleMessage, Goto, At, messageVars
  <2>2. inbox' \in [Event -> InboxStatus] /\ effects' \in [Event -> Nat]
    BY <1>3, CurrentInLog DEF HandleMessage, Apply, At, TypeOK, InboxStatus
  <2> QED
    BY <1>3, <2>1, <2>2 DEF HandleMessage, TypeOK, messageVars, groupVars
<1>4. CASE RefuseMessage(c)
  BY <1>4, AttemptMovable, MovedTypes
     DEF RefuseMessage, AttemptFailed, At, TypeOK, messageVars, groupVars, databaseVars
<1>5. CASE RecordRetryableFailure(c)
  <2>1. consumer' \in [Consumer -> Process] /\ InLog'
    BY <1>5, AttemptMovable, MovedTypes
       DEF RecordRetryableFailure, AttemptFailed, At, messageVars
  <2>2. inbox' \in [Event -> InboxStatus]
    BY <1>5 DEF RecordRetryableFailure, Recorded, TypeOK, InboxStatus
  <2> QED
    BY <1>5, <2>1, <2>2 DEF RecordRetryableFailure, TypeOK, messageVars, groupVars
<1>6. CASE PublishDeadLetter(c)
  <2>1. consumer' \in [Consumer -> Process] /\ InLog'
    BY <1>6, GotoMovable, MovedTypes DEF PublishDeadLetter, Goto, At
  <2>2. dlq' \subseteq 1..Len(log)
    BY <1>6, CurrentInLog DEF PublishDeadLetter, At, TypeOK
  <2> QED
    BY <1>6, <2>1, <2>2 DEF PublishDeadLetter, TypeOK, groupVars, databaseVars
<1>7. CASE MarkTerminal(c)
  <2>1. consumer' \in [Consumer -> Process] /\ InLog'
    BY <1>7, GotoMovable, MovedTypes DEF MarkTerminal, Goto, At, messageVars
  <2>2. inbox' \in [Event -> InboxStatus]
    BY <1>7 DEF MarkTerminal, Recorded, TypeOK, InboxStatus
  <2> QED
    BY <1>7, <2>1, <2>2 DEF MarkTerminal, TypeOK, messageVars, groupVars
<1>8. CASE CommitOffset(c)
  <2>1. consumer[c].offset \in 1..Len(log)
    BY <1>8, CurrentInLog DEF CommitOffset, At
  <2>2. Movable(c, ReadingFrom(consumer[c].offset + 1))
    BY <2>1, ReadingMovable DEF TypeOK
  <2>3. consumer' \in [Consumer -> Process] /\ InLog'
    BY <1>8, <2>2, MovedTypes DEF CommitOffset, messageVars
  <2> QED
    BY <1>8, <2>1, <2>3 DEF CommitOffset, TypeOK, messageVars, databaseVars
<1>9. CASE CommitFenced(c)
  <2>1. Movable(c, ReadingFrom(committed + 1))
    BY ReadingMovable DEF TypeOK
  <2>2. consumer' \in [Consumer -> Process] /\ InLog'
    BY <1>9, <2>1, MovedTypes DEF CommitFenced, messageVars
  <2> QED
    BY <1>9, <2>2 DEF CommitFenced, TypeOK, messageVars, groupVars, databaseVars
<1>10. CASE DeadLetterImpossible(c)
  BY <1>10, SeekBackTypes
     DEF DeadLetterImpossible, At, TypeOK, messageVars, groupVars, databaseVars
<1> QED
  BY <1>1, <1>2, <1>3, <1>4, <1>5, <1>6, <1>7, <1>8, <1>9, <1>10 DEF Work

LEMMA FaultType == ASSUME TypeOK, Fault PROVE faults' \in 0..MaxFaults
BY ConsumerAssumption DEF TypeOK, Fault

\* A fault leaves every consumer at a message of the partition.
LEMMA DisturbTypes ==
  ASSUME TypeOK, InLog, NEW c \in Consumer, Disturb(c) PROVE TypeOK' /\ InLog'
<1>1. faults' \in 0..MaxFaults
  BY FaultType
     DEF Disturb, HandlingRaises, RecordingRaises, DeadLetterRaises, MarkRaises, CommitRaises,
         Crash, Rebalance
<1>2. CASE HandlingRaises(c)
  <2>1. consumer' \in [Consumer -> Process] /\ InLog'
    BY <1>2, GotoMovable, MovedTypes DEF HandlingRaises, Goto, At, messageVars
  <2>2. inbox' \in [Event -> InboxStatus] /\ effects' \in [Event -> Nat]
    BY <1>2, CurrentInLog DEF HandlingRaises, Apply, At, TypeOK, InboxStatus, databaseVars
  <2> QED
    BY <1>1, <1>2, <2>1, <2>2 DEF HandlingRaises, TypeOK, messageVars, groupVars
<1>3. CASE RecordingRaises(c)
  <2>1. consumer' \in [Consumer -> Process] /\ InLog'
    BY <1>3, AttemptMovable, MovedTypes DEF RecordingRaises, AttemptFailed, At, messageVars
  <2> QED
    BY <1>1, <1>3, <2>1 DEF RecordingRaises, TypeOK, messageVars, groupVars, databaseVars
<1>4. ASSUME consumer[c].at # "POLL", SeekBack(c), log' = log
      PROVE  consumer' \in [Consumer -> Process] /\ InLog'
  BY <1>4, SeekBackTypes
<1>5. CASE DeadLetterRaises(c)
  <2>1. dlq' \subseteq 1..Len(log) /\ log' = log /\ consumer[c].at # "POLL"
    BY <1>5, CurrentInLog DEF DeadLetterRaises, At, TypeOK
  <2> QED
    BY <1>1, <1>4, <1>5, <2>1 DEF DeadLetterRaises, TypeOK, groupVars, databaseVars
<1>6. CASE MarkRaises(c)
  BY <1>1, <1>4, <1>6 DEF MarkRaises, At, TypeOK, messageVars, groupVars, databaseVars
<1>7. CASE CommitRaises(c)
  <2>1. consumer[c].offset \in 1..Len(log)
    BY <1>7, CurrentInLog DEF CommitRaises, At
  <2> QED
    BY <1>1, <1>4, <1>7, <2>1 DEF CommitRaises, At, TypeOK, messageVars, databaseVars
<1>8. CASE Crash(c) \/ Rebalance(c)
  <2>1. Movable(c, ReadingFrom(committed + 1))
    BY ReadingMovable DEF TypeOK
  <2>2. consumer' \in [Consumer -> Process] /\ InLog'
    BY <1>8, <2>1, MovedTypes DEF Crash, Rebalance, messageVars
  <2> QED
    BY <1>1, <1>8, <2>2 DEF Crash, Rebalance, TypeOK, messageVars, groupVars, databaseVars
<1> QED
  BY <1>2, <1>3, <1>5, <1>6, <1>7, <1>8 DEF Disturb

LEMMA TypeStep == TypeOK /\ InLog /\ [Next]_vars => TypeOK' /\ InLog'
<1> SUFFICES ASSUME TypeOK, InLog, [Next]_vars PROVE TypeOK' /\ InLog'
  OBVIOUS
<1>1. CASE UNCHANGED vars
  BY <1>1 DEF vars, TypeOK, InLog
<1> QED
  BY <1>1, ProduceTypes, WorkTypes, DisturbTypes DEF Next

-----------------------------------------------------------------------------
(* Applied once *)

\* An event is applied when it was not, and PROCESSED is never overwritten.
LEMMA AppliedStep ==
  ASSUME TypeOK, InLog, AppliedOnce, [Next]_vars
  PROVE  /\ AppliedOnce'
         /\ \A e \in Event : inbox[e] = "PROCESSED" => inbox'[e] = "PROCESSED"
<1> DEFINE Goal == /\ AppliedOnce'
                   /\ \A e \in Event : inbox[e] = "PROCESSED" => inbox'[e] = "PROCESSED"
<1>1. UNCHANGED databaseVars => Goal
  BY DEF AppliedOnce, databaseVars
<1>2. ASSUME NEW e \in Event, ~Duplicate(e), Apply(e) PROVE Goal
  BY <1>2 DEF Apply, Duplicate, AppliedOnce, TypeOK
<1>3. ASSUME NEW e, NEW status \in {"FAILED", "DLQ"}, inbox' = Recorded(e, status),
             effects' = effects
      PROVE  Goal
  BY <1>3 DEF Recorded, AppliedOnce, TypeOK
<1>4. ASSUME NEW c \in Consumer, Work(c) PROVE Goal
  <2>1. CASE HandleMessage(c)
    BY <1>2, <2>1, CurrentInLog DEF HandleMessage, At
  <2>2. CASE RecordRetryableFailure(c)
    BY <1>3, <2>2 DEF RecordRetryableFailure
  <2>3. CASE MarkTerminal(c)
    BY <1>3, <2>3 DEF MarkTerminal
  <2>4. CASE Poll(c) \/ SkipDuplicate(c) \/ RefuseMessage(c)
               \/ PublishDeadLetter(c) \/ DeadLetterImpossible(c)
               \/ CommitOffset(c) \/ CommitFenced(c)
    BY <1>1, <2>4
       DEF Poll, SkipDuplicate, RefuseMessage, PublishDeadLetter, DeadLetterImpossible,
           CommitOffset, CommitFenced
  <2> QED
    BY <1>4, <2>1, <2>2, <2>3, <2>4 DEF Work
<1>5. ASSUME NEW c \in Consumer, Disturb(c) PROVE Goal
  <2>1. CASE HandlingRaises(c)
    BY <1>1, <1>2, <2>1, CurrentInLog DEF HandlingRaises, At
  <2>2. CASE RecordingRaises(c) \/ DeadLetterRaises(c) \/ MarkRaises(c) \/ CommitRaises(c)
               \/ Crash(c) \/ Rebalance(c)
    BY <1>1, <2>2
       DEF RecordingRaises, DeadLetterRaises, MarkRaises, CommitRaises, Crash, Rebalance
  <2> QED
    BY <1>5, <2>1, <2>2 DEF Disturb
<1>6. ASSUME \/ \E e \in Event : Produce(e) \/ Repair(e)
             \/ \E offset \in dlq : Replay(offset)
             \/ UNCHANGED vars
      PROVE  Goal
  BY <1>1, <1>6 DEF Produce, Repair, Replay, vars, databaseVars
<1> QED
  BY <1>4, <1>5, <1>6 DEF Next

-----------------------------------------------------------------------------
(* Nothing is passed over *)

\* What the steps leave alone: messages stay where they are, and no dead
\* letter disappears.
LEMMA RecordsStay ==
  ASSUME TypeOK, [Next]_vars
  PROVE  /\ service' = service
         /\ dlq \subseteq dlq'
         /\ \A n \in 1..Len(log) : n \in 1..Len(log') /\ log'[n] = log[n]
<1>1. service' = service
  BY DEF Next, Work, Poll, SkipDuplicate, HandleMessage, RefuseMessage, RecordRetryableFailure,
         PublishDeadLetter,
         DeadLetterImpossible, MarkTerminal, CommitOffset, CommitFenced, Disturb, HandlingRaises,
         RecordingRaises, DeadLetterRaises, MarkRaises, CommitRaises, Crash, Rebalance,
         Produce, Repair, Replay, vars
<1>2. dlq \subseteq dlq'
  BY DEF Next, Work, Poll, SkipDuplicate, HandleMessage, RefuseMessage, RecordRetryableFailure,
         PublishDeadLetter,
         DeadLetterImpossible, MarkTerminal, CommitOffset, CommitFenced, Disturb, HandlingRaises,
         RecordingRaises, DeadLetterRaises, MarkRaises, CommitRaises, Crash, Rebalance,
         Produce, Repair, Replay, vars, messageVars
<1>3. log' = log \/ \E e \in Event : log' = Append(log, e)
  <2>1. \A offset \in dlq : log[offset] \in Event
    BY DEF TypeOK
  <2> QED
    BY <2>1
       DEF Next, Work, Poll, SkipDuplicate, HandleMessage, RefuseMessage,
           RecordRetryableFailure, PublishDeadLetter,
           DeadLetterImpossible, MarkTerminal, CommitOffset, CommitFenced,
           Disturb, HandlingRaises, RecordingRaises, DeadLetterRaises, MarkRaises,
           CommitRaises, Crash, Rebalance, Produce, Repair, Replay, vars, messageVars
<1>4. \A n \in 1..Len(log) : n \in 1..Len(log') /\ log'[n] = log[n]
  BY <1>3 DEF TypeOK
<1> QED
  BY <1>1, <1>2, <1>4

\* What is done with stays done with.
LEMMA DoneStays ==
  ASSUME TypeOK, InLog, AppliedOnce, [Next]_vars, NEW n \in 1..Len(log), Done(n)
  PROVE  Done(n)'
<1>1. log'[n] = log[n] /\ log[n] \in Event
  BY RecordsStay DEF TypeOK
<1>2. DeadLetterOf(log[n]) => DeadLetterOf(log[n])'
  BY <1>1, RecordsStay DEF DeadLetterOf, TypeOK
<1>3. inbox[log[n]] = "PROCESSED" => inbox'[log[n]] = "PROCESSED"
  BY <1>1, AppliedStep
<1> QED
  BY <1>1, <1>2, <1>3, RecordsStay DEF Done, DeadLetterOf

\* Where a step may take a consumer, and what it then has to show for it.
SameMessage(c) == consumer'[c].offset = consumer[c].offset

Reached(c) ==
  \/ SameMessage(c) /\ consumer'[c].at \notin {"MARK", "COMMIT"}
  \/ SameMessage(c) /\ consumer'[c].at = "MARK" /\ consumer[c].offset \in dlq'
  \/ /\ SameMessage(c) /\ consumer'[c].at = "COMMIT"
     /\ \E n \in Nat : n = consumer[c].offset /\ Done(n)'
  \/ consumer'[c] = ReadingFrom(committed + 1)
  \/ consumer'[c] = ReadingFrom(consumer[c].offset + 1) /\ consumer[c].at = "COMMIT"

LEMMA GotoReached ==
  ASSUME TypeOK, NEW c \in Consumer, NEW at, Goto(c, at)
  PROVE  SameMessage(c) /\ consumer'[c].at = at
<1>1. ASSUME NEW r \in Process
      PROVE  [r EXCEPT !.at = at].offset = r.offset /\ [r EXCEPT !.at = at].at = at
  BY DEF Process
<1>2. consumer'[c] = [consumer[c] EXCEPT !.at = at] /\ consumer[c] \in Process
  BY DEF Goto, TypeOK
<1> QED
  BY <1>1, <1>2 DEF SameMessage

LEMMA AttemptReached ==
  ASSUME TypeOK, NEW c \in Consumer, AttemptFailed(c)
  PROVE  Reached(c)
<1>1. ASSUME NEW r \in Process
      PROVE  AfterAttempt(r).offset = r.offset /\ AfterAttempt(r).at \in {"TRY", "DLQ"}
  <2>1. CASE r.attempt < MaxAttempts
    <3>1. AfterAttempt(r) = [offset |-> r.offset, attempt |-> r.attempt + 1, at |-> "TRY"]
      BY <2>1 DEF AfterAttempt, Process
    <3> QED
      BY <3>1
  <2>2. CASE ~(r.attempt < MaxAttempts)
    BY <2>2 DEF AfterAttempt, Process
  <2> QED
    BY <2>1, <2>2
<1>2. consumer'[c] = AfterAttempt(consumer[c]) /\ consumer[c] \in Process
  BY DEF AttemptFailed, TypeOK
<1> QED
  BY <1>1, <1>2 DEF Reached, SameMessage

LEMMA SeekBackReached ==
  ASSUME TypeOK, NEW c \in Consumer, SeekBack(c)
  PROVE  Reached(c)
<1>1. consumer'[c] = ReadingFrom(consumer[c].offset)
  BY DEF SeekBack, TypeOK
<1> QED
  BY <1>1 DEF Reached, SameMessage, ReadingFrom

\* Before a commit, the message is processed or dead-lettered.
LEMMA WorkReaches ==
  ASSUME ConsumerInvariant, [Next]_vars, NEW c \in Consumer, Work(c)
  PROVE  Reached(c)
<1> USE DEF ConsumerInvariant
<1> PICK o \in Nat : o = consumer[c].offset
  BY DEF TypeOK, Process
<1>1. ASSUME consumer[c].at # "POLL"
      PROVE  o \in 1..Len(log) /\ log'[o] = log[o] /\ log[o] \in Event /\ Current(c) = log[o]
  BY <1>1, CurrentInLog, RecordsStay DEF Current
<1>2. CASE Poll(c)
  BY <1>2, GotoReached DEF Poll, Reached
<1>3. CASE SkipDuplicate(c)
  <2>1. o \in 1..Len(log) /\ log[o] \in Event /\ Duplicate(log[o])
    BY <1>1, <1>3 DEF SkipDuplicate, At
  <2>2. Done(o)
    BY <2>1 DEF Duplicate, Done, MarkedIsDeadLetter
  <2>3. Done(o)'
    BY <2>1, <2>2, DoneStays
  <2> QED
    BY <1>3, <2>3, GotoReached DEF SkipDuplicate, Reached
<1>4. CASE HandleMessage(c)
  <2>1. o \in 1..Len(log) /\ log'[o] = log[o] /\ log[o] \in Event /\ Current(c) = log[o]
    BY <1>1, <1>4 DEF HandleMessage, At
  <2>2. Done(o)'
    BY <1>4, <2>1 DEF HandleMessage, Apply, Done, TypeOK
  <2> QED
    BY <1>4, <2>2, GotoReached DEF HandleMessage, Reached
<1>5. CASE RefuseMessage(c)
  BY <1>5, AttemptReached DEF RefuseMessage
<1>6. CASE RecordRetryableFailure(c)
  BY <1>6, AttemptReached DEF RecordRetryableFailure
<1>7. CASE PublishDeadLetter(c)
  <2>1. o \in dlq' /\ Done(o)'
    BY <1>7 DEF PublishDeadLetter, Done
  <2> QED
    BY <1>7, <2>1, GotoReached DEF PublishDeadLetter, Reached
<1>8. CASE MarkTerminal(c)
  <2>1. o \in dlq /\ Done(o)'
    BY <1>8, RecordsStay DEF MarkTerminal, At, MarkedIsDeadLetter, Done
  <2> QED
    BY <1>8, <2>1, GotoReached DEF MarkTerminal, Reached
<1>9. CASE CommitOffset(c)
  BY <1>9 DEF CommitOffset, At, Reached, TypeOK
<1>10. CASE CommitFenced(c)
  BY <1>10 DEF CommitFenced, Reached, TypeOK
<1>11. CASE DeadLetterImpossible(c)
  BY <1>11, SeekBackReached DEF DeadLetterImpossible
<1> QED
  BY <1>2, <1>3, <1>4, <1>5, <1>6, <1>7, <1>8, <1>9, <1>10, <1>11 DEF Work

LEMMA DisturbReaches ==
  ASSUME ConsumerInvariant, [Next]_vars, NEW c \in Consumer, Disturb(c)
  PROVE  Reached(c)
<1> USE DEF ConsumerInvariant
<1>1. CASE HandlingRaises(c)
  BY <1>1, GotoReached DEF HandlingRaises, Reached
<1>2. CASE RecordingRaises(c)
  BY <1>2, AttemptReached DEF RecordingRaises
<1>3. CASE DeadLetterRaises(c) \/ MarkRaises(c) \/ CommitRaises(c)
  BY <1>3, SeekBackReached DEF DeadLetterRaises, MarkRaises, CommitRaises
<1>4. CASE Crash(c) \/ Rebalance(c)
  BY <1>4 DEF Crash, Rebalance, Reached, TypeOK
<1> QED
  BY <1>1, <1>2, <1>3, <1>4 DEF Disturb

\* A step moves one consumer at most.
LEMMA StepReaches ==
  ASSUME ConsumerInvariant, [Next]_vars, NEW c \in Consumer
  PROVE  consumer'[c] = consumer[c] \/ Reached(c)
<1>1. ASSUME NEW b \in Consumer, b # c, Work(b) \/ Disturb(b) PROVE consumer'[c] = consumer[c]
  BY <1>1
     DEF ConsumerInvariant, TypeOK, Work, Poll, SkipDuplicate, HandleMessage, RefuseMessage,
         RecordRetryableFailure, PublishDeadLetter,
         DeadLetterImpossible, MarkTerminal, CommitOffset, CommitFenced,
         Disturb, HandlingRaises, RecordingRaises, DeadLetterRaises, MarkRaises, CommitRaises,
         Crash, Rebalance, Goto, AttemptFailed, SeekBack
<1>2. ASSUME \/ \E e \in Event : Produce(e) \/ Repair(e)
             \/ \E offset \in dlq : Replay(offset)
             \/ UNCHANGED vars
      PROVE  consumer' = consumer
  BY <1>2 DEF Produce, Repair, Replay, vars
<1> QED
  BY <1>1, <1>2, WorkReaches, DisturbReaches DEF Next

\* What the group has committed was at the commit step of its consumer.
LEMMA CommittedStep ==
  ASSUME TypeOK, [Next]_vars
  PROVE  \/ committed' = committed
         \/ \E c \in Consumer : consumer[c].at = "COMMIT" /\ committed' = consumer[c].offset
BY DEF TypeOK, Next, Work, Poll, SkipDuplicate, HandleMessage, RefuseMessage,
       RecordRetryableFailure, PublishDeadLetter,
       DeadLetterImpossible, MarkTerminal, CommitOffset, CommitFenced,
       Disturb, HandlingRaises, RecordingRaises, DeadLetterRaises, MarkRaises, CommitRaises,
       Crash, Rebalance, Produce, Repair, Replay, At, groupVars, vars

LEMMA MarkedStep ==
  ASSUME ConsumerInvariant, [Next]_vars
  PROVE  MarkedIsDeadLetter'
<1> USE DEF ConsumerInvariant
<1>1. ASSUME NEW c \in Consumer, consumer'[c].at = "MARK"
      PROVE  consumer'[c].offset \in dlq'
  <2>1. CASE consumer'[c] = consumer[c]
    BY <1>1, <2>1, RecordsStay DEF MarkedIsDeadLetter
  <2>2. CASE Reached(c)
    BY <1>1, <2>2 DEF Reached, SameMessage, ReadingFrom
  <2> QED
    BY <2>1, <2>2, StepReaches
<1>2. ASSUME NEW e \in Event, DeadLetterOf(e) PROVE DeadLetterOf(e)'
  BY <1>2, RecordsStay DEF DeadLetterOf, TypeOK
<1>3. ASSUME NEW e \in Event, inbox'[e] = "DLQ" PROVE DeadLetterOf(e)'
  <2>1. CASE inbox[e] = "DLQ"
    BY <1>2, <2>1 DEF MarkedIsDeadLetter
  <2>2. ASSUME NEW c \in Consumer, MarkTerminal(c), inbox'[e] # inbox[e] PROVE DeadLetterOf(e)'
    <3>1. e = Current(c) /\ consumer[c].offset \in dlq
      BY <2>2 DEF MarkTerminal, Recorded, At, MarkedIsDeadLetter, TypeOK
    <3>2. DeadLetterOf(e)
      BY <3>1 DEF DeadLetterOf, Current
    <3> QED
      BY <1>2, <3>2
  <2>3. ASSUME ~ \E c \in Consumer : MarkTerminal(c) PROVE inbox[e] = "DLQ"
    <3>1. ASSUME NEW c \in Consumer, RecordRetryableFailure(c) PROVE inbox[e] = "DLQ"
      BY <1>3, <3>1 DEF RecordRetryableFailure, Recorded, TypeOK
    <3>2. ASSUME NEW c \in Consumer, HandleMessage(c) \/ HandlingRaises(c) PROVE inbox[e] = "DLQ"
      BY <1>3, <3>2 DEF HandleMessage, HandlingRaises, Apply, TypeOK, databaseVars
    <3>3. ASSUME NEW c \in Consumer,
                 \/ Poll(c) \/ SkipDuplicate(c) \/ RefuseMessage(c)
                 \/ PublishDeadLetter(c) \/ DeadLetterImpossible(c)
                 \/ CommitOffset(c) \/ CommitFenced(c) \/ RecordingRaises(c)
                 \/ DeadLetterRaises(c) \/ MarkRaises(c) \/ CommitRaises(c)
                 \/ Crash(c) \/ Rebalance(c)
          PROVE  inbox' = inbox
      BY <3>3
         DEF Poll, SkipDuplicate, RefuseMessage, PublishDeadLetter, DeadLetterImpossible,
             CommitOffset, CommitFenced, RecordingRaises, DeadLetterRaises,
             MarkRaises, CommitRaises, Crash, Rebalance, databaseVars
    <3>4. ASSUME \/ \E d \in Event : Produce(d) \/ Repair(d)
                 \/ \E offset \in dlq : Replay(offset)
                 \/ UNCHANGED vars
          PROVE  inbox' = inbox
      BY <3>4 DEF Produce, Repair, Replay, databaseVars, vars
    <3> QED
      BY <1>3, <2>3, <3>1, <3>2, <3>3, <3>4 DEF Next, Work, Disturb
  <2> QED
    BY <1>3, <2>1, <2>2, <2>3
<1> QED
  BY <1>1, <1>3 DEF MarkedIsDeadLetter

\* Whoever commits, and wherever a consumer reads on after a crash, a rebalance
\* or an error, what lies before is done with.
LEMMA PassedStep ==
  ASSUME ConsumerInvariant, [Next]_vars
  PROVE  PassedIsDone'
<1> USE DEF ConsumerInvariant
<1>1. /\ committed \in Nat /\ committed <= Len(log) /\ Len(log) \in Nat
      /\ \A c \in Consumer : consumer[c].offset \in Nat /\ consumer[c].offset <= Len(log) + 1
  BY DEF TypeOK, InLog, Process
<1>2. ASSUME NEW n \in 1..committed PROVE Done(n)'
  <2>1. n \in 1..Len(log) /\ Done(n)
    BY <1>1 DEF PassedIsDone
  <2> QED
    BY <2>1, DoneStays
<1>3. ASSUME NEW c \in Consumer, NEW n \in Behind(c) PROVE Done(n)'
  <2>1. n \in 1..Len(log) /\ Done(n)
    BY <1>1 DEF PassedIsDone, Behind, InLog
  <2> QED
    BY <2>1, DoneStays
<1>4. ASSUME NEW n \in 1..committed' PROVE Done(n)'
  <2>1. ASSUME NEW c \in Consumer, consumer[c].at = "COMMIT", committed' = consumer[c].offset
        PROVE  Done(n)'
    BY <1>3, <2>1 DEF Behind
  <2> QED
    BY <1>2, <2>1, CommittedStep
<1>5. ASSUME NEW c \in Consumer, NEW n \in Nat, n \in Behind(c)' PROVE Done(n)'
  <2>1. CASE consumer'[c] = consumer[c]
    BY <1>3, <1>5, <2>1 DEF Behind
  <2>2. CASE SameMessage(c) /\ consumer'[c].at \in {"MARK", "COMMIT"} /\ Reached(c)
    <3>1. n < consumer[c].offset \/ n = consumer[c].offset
      BY <1>1, <1>5, <2>2 DEF Behind, SameMessage
    <3>2. CASE n < consumer[c].offset
      BY <1>1, <1>3, <1>5, <3>2 DEF Behind
    <3>3. CASE n = consumer[c].offset
      BY <1>1, <1>5, <2>2, <3>3 DEF Behind, Reached, SameMessage, ReadingFrom
    <3> QED
      BY <3>1, <3>2, <3>3
  <2>3. CASE SameMessage(c) /\ consumer'[c].at \notin {"MARK", "COMMIT"}
    BY <1>1, <1>3, <1>5, <2>3 DEF Behind, SameMessage
  <2>4. CASE consumer'[c] = ReadingFrom(committed + 1)
    BY <1>1, <1>2, <1>5, <2>4 DEF Behind, ReadingFrom
  <2>5. CASE consumer'[c] = ReadingFrom(consumer[c].offset + 1) /\ consumer[c].at = "COMMIT"
    BY <1>1, <1>3, <1>5, <2>5 DEF Behind, ReadingFrom
  <2> QED
    BY <2>1, <2>2, <2>3, <2>4, <2>5, StepReaches DEF Reached
<1>6. ASSUME NEW c \in Consumer, NEW n \in Behind(c)' PROVE n \in Nat
  BY <1>6 DEF Behind
<1> QED
  BY <1>4, <1>5, <1>6 DEF PassedIsDone

-----------------------------------------------------------------------------
(* Theorems *)

LEMMA InvariantInit == Init => ConsumerInvariant
<1> SUFFICES ASSUME Init PROVE ConsumerInvariant
  OBVIOUS
<1>1. TypeOK /\ InLog
  BY InitTypes
<1>2. AppliedOnce /\ MarkedIsDeadLetter
  BY DEF Init, AppliedOnce, MarkedIsDeadLetter, ReadingFrom
<1>3. PassedIsDone
  BY DEF Init, PassedIsDone, Behind, ReadingFrom
<1> QED
  BY <1>1, <1>2, <1>3 DEF ConsumerInvariant

\* The inductive invariant holds in every reachable state.
THEOREM Invariance == Spec => []ConsumerInvariant
<1>1. ConsumerInvariant /\ [Next]_vars => ConsumerInvariant'
  BY TypeStep, AppliedStep, MarkedStep, PassedStep DEF ConsumerInvariant
<1> QED
  BY InvariantInit, <1>1, PTL DEF Spec

\* Every variable of the consumers keeps its type (stock_consumer.py,
\* stock_events_consumer.py).
THEOREM TypeCorrect == Spec => []TypeOK
<1>1. ConsumerInvariant => TypeOK
  BY DEF ConsumerInvariant
<1> QED
  BY Invariance, <1>1, PTL

\* However often an event is delivered, replayed, half committed or handled by
\* two consumers, it takes effect once (_claim_inbox).
THEOREM EventAppliedOnce == Spec => []AppliedOnce
<1>1. ConsumerInvariant => AppliedOnce
  BY DEF ConsumerInvariant
<1> QED
  BY Invariance, <1>1, PTL

\* No crash, rebalance or failing call makes the group commit a message that
\* was neither processed nor copied to the dead letter queue (process_message).
THEOREM NothingIsLost == Spec => []NothingLost
<1>1. ConsumerInvariant => NothingLost
  <2> SUFFICES ASSUME ConsumerInvariant, NEW n \in 1..committed
               PROVE  inbox[log[n]] = "PROCESSED" \/ \E m \in dlq : log[m] = log[n]
    BY DEF NothingLost
  <2> QED
    BY DEF ConsumerInvariant, PassedIsDone, Done, DeadLetterOf
<1> QED
  BY Invariance, <1>1, PTL

\* In order-service no copy of an event is passed over because another copy was
\* dead-lettered (StockResultService._claim_inbox).
THEOREM EveryOrderCopyHandled == Spec => []OrderCopiesHandled
<1>1. ConsumerInvariant => OrderCopiesHandled
  <2> SUFFICES ASSUME ConsumerInvariant, service = "order-service", NEW n \in 1..committed
               PROVE  inbox[log[n]] = "PROCESSED" \/ n \in dlq
    BY DEF OrderCopiesHandled
  <2> QED
    BY DEF ConsumerInvariant, PassedIsDone, Done
<1> QED
  BY Invariance, <1>1, PTL
================================================================================
