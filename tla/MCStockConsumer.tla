----------------------------- MODULE MCStockConsumer -----------------------------
(* Values of the constants of StockConsumer for TLC: a message that can be    *)
(* parsed, one that cannot, one without a value and one that cannot be        *)
(* encoded again; two members of the group.                                   *)
EXTENDS StockConsumer

CONSTANTS command, garbage, empty, surrogate, c1, c2

Events == {command, garbage, empty, surrogate}
Garbage == {garbage, empty, surrogate}
Empty == {empty}
Surrogate == {surrogate}
Nothing == {}
OnlyCommand == {command}
Group == {c1, c2}
================================================================================
