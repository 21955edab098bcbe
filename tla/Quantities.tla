------------------------------- MODULE Quantities -------------------------------
(***************************************************************************)
(* The sum of a column.  A quantity is a number of units; the units of     *)
(* different rows are different, and the sum is how many there are.        *)
(***************************************************************************)
EXTENDS Naturals, FiniteSets

\* quantity[x] units for every row x, numbered.
Units(quantity) == UNION {{x} \X (1..quantity[x]) : x \in DOMAIN quantity}

SumOf(quantity) == Cardinality(Units(quantity))
================================================================================
