--------------------------- MODULE MCOutboxPublisher ---------------------------
(* Values of the constants of OutboxPublisher for TLC: a reservation request   *)
(* and a lifecycle request, two processes.                                     *)
EXTENDS OutboxPublisher

CONSTANTS reserve, release, w1, w2

Rows == {reserve, release}
Requests == {reserve}
Processes == {w1, w2}
================================================================================
