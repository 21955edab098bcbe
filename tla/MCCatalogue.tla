------------------------------ MODULE MCCatalogue ------------------------------
(* Values of the constants of Catalogue for TLC. *)
EXTENDS Catalogue

CONSTANTS w1, w2, h1, h2

TwoWarehouses == {w1, w2}
TwoRequests == {h1, h2}
UpToOne == {0, 1}
OneUnit == {[w \in Warehouse |-> IF w = w1 THEN 1 ELSE 0]}
================================================================================
