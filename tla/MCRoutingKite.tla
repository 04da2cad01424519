---------------------------- MODULE MCRoutingKite ---------------------------
(* B, C, D and E of the exam's topology: a triangle, and E on a link to D.    *)
EXTENDS RoutingNetwork

CONSTANTS b, c, d, e

MCNode == {b, c, d, e}
MCLink == {{b, c}, {b, d}, {c, d}, {d, e}}
=============================================================================
