---------------------------- MODULE MCOrderCreation ----------------------------
(* Values of the constants of OrderCreation for TLC. *)
EXTENDS OrderCreation, TLC

CONSTANTS p1, p2, r1, r2, k1, k2

TwoProducts == {p1, p2}
OneProduct == {p1}
TwoCalls == {r1, r2}
TwoKeys == {k1, k2}
OneKey == {k1}

Said(supplier, price) == [supplier |-> supplier, price |-> price]

\* A product that may move to another supplier.
Suppliers == {Said("s1", 1), Said("s2", 1)}
OneSupplier == [p \in Product |-> Said("s1", 1)]

Interchangeable ==
  Permutations(Request) \cup Permutations(Key) \cup Permutations(Product)

\* A product that may change its price.
TwoPrices == {Said("s1", 1), Said("s1", 2)}
================================================================================
