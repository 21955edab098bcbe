----------------------------- MODULE MessageDelivery -----------------------------
(***************************************************************************)
(* What the sagas may rely on when a transaction writes a message into an  *)
(* outbox: the message reaches its topic, perhaps several times, or it is  *)
(* lost for good after its publication was given up; never both, and one   *)
(* of the two happens in the end.                                          *)
(***************************************************************************)
CONSTANT Message

VARIABLES
  delivered,   \* messages stored in the topic at least once
  lost         \* messages that will never be there

deliveryVars == <<delivered, lost>>

DeliveryInit ==
  /\ delivered = {}
  /\ lost = {}

Deliver(m) ==
  /\ m \notin lost
  /\ delivered' = delivered \cup {m}
  /\ UNCHANGED lost

Lose(m) ==
  /\ m \notin delivered
  /\ lost' = lost \cup {m}
  /\ UNCHANGED delivered

DeliveryNext == \E m \in Message : Deliver(m) \/ Lose(m)

DeliverySpec == DeliveryInit /\ [][DeliveryNext]_deliveryVars

FairDeliverySpec ==
  /\ DeliverySpec
  /\ \A m \in Message : <>(m \in delivered \cup lost)
================================================================================
