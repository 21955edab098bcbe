------------------------------ MODULE StockChannel ------------------------------
(***************************************************************************)
(* What order-service and supplier-service say to each other over Kafka:   *)
(* stock commands one way, stock events the other.  Both sides write their *)
(* messages into an outbox table in the transaction that changes their     *)
(* rows, and a publisher sends them later.                                 *)
(*                                                                         *)
(* A message is never removed from commands or events: the publisher may   *)
(* send an outbox row twice, Kafka redelivers until the offset is          *)
(* committed, and a row whose publication failed is sent after younger     *)
(* rows of the same order.  So a message in one of the sets may be         *)
(* received now, later, again, or not at all.  The outbox rows that a      *)
(* publisher gave up on (status FAILED) are in abandoned and are never     *)
(* received.                                                               *)
(***************************************************************************)
EXTENDS Naturals, FiniteSets

CONSTANTS
  Order,         \* the orders customers may place
  Product,       \* the products of the supplier
  Demand,        \* Demand[o][p]: units of p in order o, 0 when p is not in it
  MaxAbandoned   \* bound: outbox rows whose publication is given up

ASSUME OrderAssumption == IsFiniteSet(Order)

ASSUME DemandAssumption ==
  /\ Demand \in [Order -> [Product -> Nat]]
  /\ \A o \in Order : \E p \in Product : Demand[o][p] > 0

ASSUME MaxAbandonedAssumption == MaxAbandoned \in Nat

VARIABLES
  commands,      \* outbox rows of order-service for supplier-service
  events,        \* outbox rows of supplier-service for order-service
  abandoned      \* rows of either outbox in status FAILED

channelVars == <<commands, events, abandoned>>

Items(o) == {p \in Product : Demand[o][p] > 0}

(***************************************************************************)
(* Identifiers.  Every UUID of the code is drawn in a transaction that     *)
(* gives the order a new version, or that handles one command, so that     *)
(* version (the command's id) stands for it.  NoId is None.                *)
(***************************************************************************)
NoId == 0
NoReason == "NONE"

ReservationRefusals ==
  {"RESERVATION_DEADLINE_EXPIRED", "SUPPLIER_MISMATCH", "PRODUCT_UNAVAILABLE",
   "INSUFFICIENT_STOCK"}

LifecycleRefusals ==
  {"RESERVATION_NOT_FOUND", "RESERVATION_MISMATCH", "RESERVATION_NOT_ACTIVE",
   "RESERVATION_ALREADY_TERMINAL", "UNKNOWN_RESERVATION_STATE",
   "STOCK_INVARIANT_VIOLATION"}

CommandTypes ==
  {"StockReservationRequested", "StockFinalizationRequested", "StockReleaseRequested"}

ReservationEvents == {"StockReservationSucceeded", "StockReservationFailed"}
FinalizationEvents == {"StockFinalized", "StockFinalizationFailed"}
ReleaseEvents == {"StockReleased", "StockReleaseFailed"}
LifecycleEvents == FinalizationEvents \cup ReleaseEvents

\* request_id is the finalization or release request id; a reservation
\* request has one id per order, which the order stands for.
Command ==
  [type : CommandTypes, order : Order, id : Nat, reservation_id : Nat, request_id : Nat]

\* cause is the id of the command the event answers (causation_id).
Event ==
  [type : ReservationEvents \cup LifecycleEvents, order : Order, cause : Nat,
   reservation_id : Nat, request_id : Nat,
   reason : {NoReason} \cup ReservationRefusals \cup LifecycleRefusals]

ChannelTypeOK ==
  /\ commands \subseteq Command
  /\ events \subseteq Event
  /\ abandoned \subseteq Command \cup Event

ChannelInit ==
  /\ commands = {}
  /\ events = {}
  /\ abandoned = {}

\* A message that its outbox publisher has not given up on can reach the
\* other service at any time.
Delivered(m) == m \notin abandoned
================================================================================
