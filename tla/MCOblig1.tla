------------------------------ MODULE MCOblig1 ------------------------------
(* A line of hosts A - B - C with a server on B.  One client runs on A, one   *)
(* on any host, and each pings any host.                                      *)
EXTENDS Oblig1Ping

CONSTANTS A, B, C, k1, k2

MCNode == {A, B, C}
MCLink == {{A, B}, {B, C}}
MCPing == {k1, k2}
MCClientHosts == [k \in MCPing |-> IF k = k1 THEN {A} ELSE MCNode]
MCServerHosts == {B}
=============================================================================
