-------------------------- MODULE MCRoutingTriangle -------------------------
(* Three hosts with a link between every two, as B, C and D of the exam's     *)
(* topology.                                                                  *)
EXTENDS RoutingNetwork

CONSTANTS b, c, d

MCNode == {b, c, d}
MCLink == {{b, c}, {b, d}, {c, d}}
=============================================================================
