---------------------------- MODULE MCSelectLoop ----------------------------
(* A small instance of SelectLoop: one client sends two lines, which is    *)
(* what it takes to end the server by sending to one that has left.        *)
EXTENDS SelectLoop

CONSTANTS c1, c2
Clients == {c1, c2}
Lines == [k \in Clients |-> IF k = c1 THEN 2 ELSE 1]
==============================================================================
