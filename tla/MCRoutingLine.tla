---------------------------- MODULE MCRoutingLine ---------------------------
(* Three hosts in a line, a - b - c. *)
EXTENDS RoutingTree

CONSTANTS a, b, c

MCNode == {a, b, c}
MCLink == {{a, b}, {b, c}}
MCToward == [n \in MCNode |-> [d \in MCNode |-> IF n = b THEN d ELSE b]]
=============================================================================
