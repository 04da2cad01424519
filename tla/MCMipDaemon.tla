----------------------------- MODULE MCMipDaemon ----------------------------
(* One host with the adjacent host near, and a host far further off. *)
EXTENDS MipDaemon

CONSTANTS near, far

MCNeighbour == {near}
MCRemote == {far}

\* What the uninitialised arp table seems to hold: one entry, of no host.
MCStray == <<NoAddr>>

\* sdu is written and never tested, and neither are the addresses in the forward
\* queue, so states that differ in nothing else are not told apart (except where
\* the property is about them).
MCView ==
  <<status, conn, socket_data, socket_application, socket_routing, arp_t,
    Len(forward_queue), demand>>
=============================================================================
