------------------------------- MODULE MCOrderSaga -------------------------------
(* Values of the constants of OrderSaga for TLC. *)
EXTENDS OrderSaga, TLC

CONSTANTS o1, o2, p1, p2

OneOrder == {o1}
TwoOrders == {o1, o2}
OneProduct == {p1}
TwoProducts == {p1, p2}

\* One order of two units of one product.
SingleDemand == o1 :> (p1 :> 2)
SingleStock == p1 :> 3

\* Two orders of which the stock can serve only one: both want p1, of which
\* there are enough for either, and o1 also wants p2.
RivalDemand == o1 :> (p1 :> 2 @@ p2 :> 1) @@ o2 :> (p1 :> 1 @@ p2 :> 0)
RivalStock == p1 :> 2 @@ p2 :> 1

NoEdits == {}
AnyEdit == [active : BOOLEAN, owned : BOOLEAN]
Delisting == {[active |-> FALSE, owned |-> TRUE]}
OwnerEdit == [active : {TRUE}, owned : BOOLEAN]

NoRecount == {}
Recounts == {1, 4}
================================================================================
