----------------------------- MODULE OrderLifecycle -----------------------------
(***************************************************************************)
(* What the marketplace promises about its orders, without services,       *)
(* messages or databases: an order is decided once and for all, its stock  *)
(* moves only the way of that decision, and it ends as what was decided,   *)
(* and not before the stock has moved.  OrderSaga implements it.           *)
(*                                                                         *)
(* One thing is weaker than one would expect, and it is what the code      *)
(* does: a cancellation waits for nobody.  The order may be cancelled      *)
(* before the supplier has looked at its reservation, and the stock is     *)
(* then reserved, or refused, and given back afterwards.                   *)
(***************************************************************************)
CONSTANT Order

VARIABLE life
  \* life[o].decision: what the order is committed to;
  \* life[o].stock: what the supplier has done with its stock;
  \* life[o].outcome: what the order has become.

Init == life = [o \in Order |-> [decision |-> "OPEN", stock |-> "NONE", outcome |-> "NONE"]]

\* The supplier holds the stock, or refuses to.
Hold(o) ==
  /\ life[o].decision \in {"OPEN", "CANCEL"}
  /\ life[o].stock = "NONE"
  /\ \E s \in {"RESERVED", "REJECTED"} : life' = [life EXCEPT ![o].stock = s]

\* Confirmation and rejection decide about stock that is there.
Decide(o) ==
  /\ life[o].decision = "OPEN"
  /\ life[o].stock = "RESERVED"
  /\ \E d \in {"CONFIRM", "REJECT"} : life' = [life EXCEPT ![o].decision = d]

Cancel(o) ==
  /\ life[o].decision = "OPEN"
  /\ life[o].stock \in {"NONE", "RESERVED", "REJECTED"}
  /\ life' = [life EXCEPT ![o].decision = "CANCEL"]

\* The order that got no stock is decided by that.
Decline(o) ==
  /\ life[o].decision = "OPEN"
  /\ life[o].stock = "REJECTED"
  /\ life' = [life EXCEPT ![o] =
       [decision |-> "REJECT", stock |-> "REJECTED", outcome |-> "REJECTED"]]

Sell(o) ==
  /\ life[o].decision = "CONFIRM"
  /\ life[o].stock = "RESERVED"
  /\ life' = [life EXCEPT ![o].stock = "FINALIZED"]

GiveBack(o) ==
  /\ life[o].decision \in {"REJECT", "CANCEL"}
  /\ life[o].stock = "RESERVED"
  /\ life' = [life EXCEPT ![o].stock = "RELEASED"]

Conclude(o, decision, outcome) ==
  /\ life[o].decision = decision
  /\ life[o].outcome = "NONE"
  /\ life' = [life EXCEPT ![o].outcome = outcome]

Step(o) ==
  \/ Hold(o) \/ Decide(o) \/ Cancel(o) \/ Decline(o) \/ Sell(o) \/ GiveBack(o)
  \/ life[o].stock = "FINALIZED" /\ Conclude(o, "CONFIRM", "CONFIRMED")
  \/ life[o].stock = "RELEASED" /\ Conclude(o, "REJECT", "REJECTED")
  \/ Conclude(o, "CANCEL", "CANCELLED")

Next == \E o \in Order : Step(o)

Spec == Init /\ [][Next]_life
================================================================================
