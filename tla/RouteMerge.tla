----------------------------- MODULE RouteMerge -----------------------------
(***************************************************************************)
(* The life of one daemon's route table, with nothing assumed about the     *)
(* network: HELLOs from neighbours, silent neighbours, and UPDATEs with any *)
(* table.  compare_routing_tables is compared with the rule it implements,  *)
(* that of distance vector routing, in every table that can come up.        *)
(***************************************************************************)
EXTENDS RoutingTable

CONSTANTS
  Neighbour,    \* the hosts that send HELLOs and UPDATEs
  MaxAnnounced  \* bound: routes in an UPDATE

ASSUME NeighbourAssumption == Neighbour \subseteq Node
ASSUME AnnouncedAssumption == MaxAnnounced \in Nat

VARIABLE r_table

TypeOK == r_table \in RouteTable

Init == r_table = <<>>

\* What a neighbour announces: routes to other hosts.  Their next hop is not
\* looked at.
Announced(m) ==
  UNION {[1 .. k -> {[dst |-> d, next_hop |-> d, cost |-> c] :
                       d \in Node \ {m}, c \in Cost}] : k \in 0 .. MaxAnnounced}

\* A neighbour that is not in the neighbour table, or was disconnected.
HelloFromNew(m) == r_table' = routing_table_add_entry(r_table, m, m, 1)
HelloFromLost(m) == HasRoute(r_table, m) /\ r_table' = Restored(r_table, m)

LoseNeighbour(m) == r_table' = poison_reverse(r_table, {m})

ReceiveUpdate(m, new) == r_table' = compare_routing_tables(r_table, new, m)

Next ==
  \E m \in Neighbour :
    \/ HelloFromNew(m)
    \/ HelloFromLost(m)
    \/ LoseNeighbour(m)
    \/ \E new \in Announced(m) : ReceiveUpdate(m, new)

Spec == Init /\ [][Next]_r_table

-----------------------------------------------------------------------------

First(t, d) == t[routing_table_get_route_by_dst(t, d)]

\* The route to d by the rule of distance vector routing, known being what the
\* table holds and recv the cost that m announces.
Better(known, recv, m) ==
  LET through == [dst |-> known.dst, next_hop |-> m, cost |-> CostThrough(recv)]
  IN  IF known.next_hop = m \/ through.cost < known.cost THEN through ELSE known

Once(new, d) == \A i, j \in DOMAIN new : new[i].dst = d /\ new[j].dst = d => i = j

\* The costs with which an UPDATE announces d.
Costs(new, d) == {new[i].cost : i \in {j \in DOMAIN new : new[j].dst = d}}

\* One UPDATE gives a destination it names once the route that the rule gives,
\* or, if it was unknown, a route by m unless the table is full; it leaves the
\* other destinations alone, wherever in the array their routes are
\* (compare_routing_tables).  Nothing is said of two cases that the code gets
\* wrong: the route through m is announced with the cost held, which
\* CostChangeTaken is about, and an unknown destination is announced as
\* unreachable, see CostAtLeastHops in RoutingNetwork.
MergeFollowsRule ==
  \A m \in Neighbour : \A new \in Announced(m) :
    LET u == compare_routing_tables(r_table, new, m)
    IN  \A d \in Node :
          /\ HasRoute(r_table, d) /\ Costs(new, d) = {} => First(u, d) = First(r_table, d)
          /\ \A recv \in Costs(new, d) :
               Once(new, d) /\ HasRoute(r_table, d) =>
                 LET known == First(r_table, d)
                 IN  \/ known.next_hop = m /\ known.cost = recv
                     \/ First(u, d) = Better(known, recv, m)
          /\ \A recv \in Costs(new, d) \ {ROUTING_COST_INFINITY} :
               Once(new, d) /\ ~HasRoute(r_table, d) =>
                 IF HasRoute(u, d)
                 THEN First(u, d) = [dst |-> d, next_hop |-> m, cost |-> recv + 1]
                 ELSE Len(u) = MAX_ROUTES - 1

\* A route's cost follows what its next hop announces (compare_routing_tables:
\* the table is updated if "the cost of an existing route has changed either up
\* or down").
CostChangeTaken ==
  \A m \in Neighbour : \A new \in Announced(m) :
    LET u == compare_routing_tables(r_table, new, m)
    IN  \A d \in Node : \A recv \in Costs(new, d) :
          Once(new, d) /\ HasRoute(r_table, d) /\ First(r_table, d).next_hop = m =>
            First(u, d).cost = CostThrough(recv)

\* The UPDATE that a neighbour repeats every NO_UPDATE_COUNT_LIMIT ticks
\* changes nothing the second time, if it names no destination twice and none
\* that is unknown as unreachable (compare_routing_tables).
MergeIsIdempotent ==
  \A m \in Neighbour : \A new \in Announced(m) :
    LET u == compare_routing_tables(r_table, new, m)
    IN  (\A i \in DOMAIN new :
           /\ Once(new, new[i].dst)
           /\ new[i].cost = ROUTING_COST_INFINITY => HasRoute(r_table, new[i].dst))
          => compare_routing_tables(u, new, m) = u

=============================================================================
