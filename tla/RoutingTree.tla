----------------------------- MODULE RoutingTree ----------------------------
(***************************************************************************)
(* Properties of the routing daemons of a network without cycles, where     *)
(* split horizon is enough: a route never leads back to where it came from. *)
(***************************************************************************)
EXTENDS RoutingNetwork

CONSTANT Toward   \* Toward[n][d]: the neighbour of n on the path from n to d

\* What makes Toward the paths of a tree: from n the way to a neighbour is that
\* neighbour, and of two neighbours x and y one is the other's way to d.
ASSUME TreeAssumption ==
  /\ Toward \in [Node -> [Node -> Node]]
  /\ \A m, n \in Node : m \in Adjacent(n) => Toward[n][m] = m
  /\ \A m, n, d \in Node :
       m \in Adjacent(n) /\ d \notin {m, n} /\ Toward[m][d] # n
         => Toward[n][d] = m

\* A route table has room for a route to every other host: MAX_ROUTES is chosen
\* as the number of hosts (lib/routing.h, line 54).
ASSUME RoomAssumption == IsFiniteSet(Node) /\ Cardinality(Node) <= MAX_ROUTES

-----------------------------------------------------------------------------

\* Every route in r leads over the tree: it is to another host, and its next
\* hop is the neighbour on the path there.
OnPath(n, r) == r.dst # n /\ r.next_hop = Toward[n][r.dst]

\* A route table holds only routes along the tree's paths, whatever messages
\* were lost, links failed or daemons started late.  So no packet can loop
\* between hosts and no cost can count up: an UPDATE never hands a route back
\* to the host it leads through (send_update_message, compare_routing_tables).
RoutesFollowTree ==
  \A n \in Node : \A i \in DOMAIN r_table[n] : OnPath(n, r_table[n][i])

\* A destination has one route: a neighbour's HELLO, which adds a route without
\* looking for one (handle_hello_message, case 1), never finds one there.
OneRoutePerDestination ==
  \A n \in Node : \A i, j \in DOMAIN r_table[n] :
    r_table[n][i].dst = r_table[n][j].dst => i = j

=============================================================================
