---------------------------- MODULE MCRouteMerge ----------------------------
(* The table of a host with the neighbours b and c, and a host d further away.*)
EXTENDS RouteMerge

CONSTANTS b, c, d

MCNode == {b, c, d}
MCNeighbour == {b, c}
=============================================================================
