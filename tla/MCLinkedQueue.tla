---------------------------- MODULE MCLinkedQueue ---------------------------
(* Up to three entries, on a heap of four addresses.                          *)
EXTENDS LinkedQueue

CONSTANTS p1, p2, p3, p4, x, y

MCAddress == {p1, p2, p3, p4}
MCData == {x, y}
=============================================================================
