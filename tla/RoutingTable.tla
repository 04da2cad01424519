---------------------------- MODULE RoutingTable ----------------------------
(***************************************************************************)
(* The route table of routing_daemon.c and the operations on it: adding a  *)
(* route, looking one up, the part of it an UPDATE message carries (split   *)
(* horizon), poisoning the routes through a lost neighbour, and merging     *)
(* the table a neighbour has sent.                                          *)
(*                                                                          *)
(* struct route_table is a count and an array of MAX_ROUTES records.  It is *)
(* modelled by the sequence of its first `count` records, in array order:   *)
(* the order matters, because every lookup takes the first match.           *)
(***************************************************************************)
EXTENDS Integers, Sequences

CONSTANTS
  Node,                   \* the MIP addresses of the hosts, none of them 0
  MAX_ROUTES,             \* size of the routes array (5 in the code)
  ROUTING_COST_INFINITY   \* greatest uint8_t, the cost of no route (255)

ASSUME MaxRoutesAssumption == MAX_ROUTES \in Nat \ {0}
ASSUME InfinityAssumption == ROUTING_COST_INFINITY \in Nat \ {0, 1}

\* Cost is a uint8_t, and ROUTING_COST_INFINITY is its greatest value.
Cost == 0 .. ROUTING_COST_INFINITY

\* What storing an int in a uint8_t keeps of it: 255 + 1 is stored as 0.
Truncate(c) == c % (ROUTING_COST_INFINITY + 1)

Route == [dst : Node, next_hop : Node, cost : Cost]

\* The tables a daemon can hold: routing_table_add_entry stops one short of
\* the array's size.
RouteTable == {t \in Seq(Route) : Len(t) < MAX_ROUTES}

-----------------------------------------------------------------------------

\* routing_table_get_route_by_dst does not return -1.
HasRoute(r_t, dst) == \E i \in DOMAIN r_t : r_t[i].dst = dst

\* The index of the first route to dst, which every lookup of the daemon
\* uses.  Meaningful only if HasRoute(r_t, dst).
routing_table_get_route_by_dst(r_t, dst) ==
  CHOOSE i \in DOMAIN r_t :
    /\ r_t[i].dst = dst
    /\ \A j \in 1 .. i - 1 : r_t[j].dst # dst

\* Mutants of routing_table_add_entry: one slot more is left unused; the last
\* slot is not tested for.
AddEntryStopsEarly(r_t, dst, next_hop, cost) ==
  IF Len(r_t) = MAX_ROUTES - 2
  THEN r_t
  ELSE Append(r_t, [dst |-> dst, next_hop |-> next_hop, cost |-> Truncate(cost)])
AddEntryUnchecked(r_t, dst, next_hop, cost) ==
  Append(r_t, [dst |-> dst, next_hop |-> next_hop, cost |-> Truncate(cost)])

\* The route is dropped when only the last slot is free, and no existing
\* route to the same destination is looked for.
routing_table_add_entry(r_t, dst, next_hop, cost) ==
  IF Len(r_t) = MAX_ROUTES - 1
  THEN r_t
  ELSE Append(r_t, [dst |-> dst, next_hop |-> next_hop, cost |-> Truncate(cost)])

\* Mutants of Advertised: each without one of the two tests.
AdvertisedWhereItLeads(r, dst_mip) == r.dst # dst_mip
AdvertisedToItsDst(r, dst_mip) == r.next_hop # dst_mip

\* Whether an UPDATE message to dst_mip carries route r: not if it leads
\* through dst_mip or to it.
Advertised(r, dst_mip) == r.next_hop # dst_mip /\ r.dst # dst_mip

\* The table to send after each turn of the loop of send_update_message, turn 0
\* being before the first.
SplitHorizonSteps(r_t, dst_mip) ==
  LET kept[i \in 0 .. Len(r_t)] ==
        IF i = 0 THEN <<>>
        ELSE IF Advertised(r_t[i], dst_mip)
             THEN Append(kept[i - 1], r_t[i])
             ELSE kept[i - 1]
  IN  kept

SplitHorizon(r_t, dst_mip) == SplitHorizonSteps(r_t, dst_mip)[Len(r_t)]

\* Every route through a member of `lost` gets infinite cost: poison_reverse,
\* once for every neighbour check_neighbours has found silent.
poison_reverse(r_t, lost) ==
  [i \in DOMAIN r_t |->
     IF r_t[i].next_hop \in lost
     THEN [r_t[i] EXCEPT !.cost = ROUTING_COST_INFINITY]
     ELSE r_t[i]]

\* Mutant of Restored: the route is added, as for a new neighbour.
RestoredAsNew(r_t, m) == routing_table_add_entry(r_t, m, m, 1)

\* A neighbour that was disconnected is heard again (handle_hello_message,
\* case 3): the first route to m leads to it directly again.
Restored(r_t, m) ==
  [r_t EXCEPT ![routing_table_get_route_by_dst(r_t, m)] =
     [dst |-> m, next_hop |-> m, cost |-> 1]]

-----------------------------------------------------------------------------

\* The new cost of a route whose next hop now announces `recv`.
CostThrough(recv) ==
  IF recv = ROUTING_COST_INFINITY THEN ROUTING_COST_INFINITY ELSE recv + 1

\* Mutants of MergeRoute: the next hop of the sender is copied; a route of the
\* same cost is taken over; the route is added without looking for one.
MergeCopiesNextHop(r_t, r, remote) ==
  IF ~HasRoute(r_t, r.dst)
  THEN routing_table_add_entry(r_t, r.dst, r.next_hop, r.cost + 1)
  ELSE r_t
MergeTakesEqual(r_t, r, remote) ==
  IF ~HasRoute(r_t, r.dst)
  THEN routing_table_add_entry(r_t, r.dst, remote, r.cost + 1)
  ELSE LET j == routing_table_get_route_by_dst(r_t, r.dst)
       IN  IF r_t[j].cost >= r.cost + 1
           THEN [r_t EXCEPT ![j].next_hop = remote,
                            ![j].cost = Truncate(r.cost + 1)]
           ELSE r_t
MergeAlwaysAdds(r_t, r, remote) ==
  routing_table_add_entry(r_t, r.dst, remote, r.cost + 1)

\* One turn of the loop of compare_routing_tables: route r, announced by
\* remote, is merged into the host's table.
MergeRoute(r_t, r, remote) ==
  IF ~HasRoute(r_t, r.dst)
  THEN routing_table_add_entry(r_t, r.dst, remote, r.cost + 1)
  ELSE LET j == routing_table_get_route_by_dst(r_t, r.dst)
       IN  IF r_t[j].next_hop = remote /\ r_t[j].cost # r.cost
           THEN [r_t EXCEPT ![j].cost = CostThrough(r.cost)]
           ELSE IF r_t[j].cost > r.cost + 1
                THEN [r_t EXCEPT ![j].next_hop = remote,
                                 ![j].cost = Truncate(r.cost + 1)]
                ELSE r_t

\* The host's table after each turn of the loop, turn 0 being before the first.
MergeSteps(r_t, new, remote) ==
  LET step[i \in 0 .. Len(new)] ==
        IF i = 0 THEN r_t ELSE MergeRoute(step[i - 1], new[i], remote)
  IN  step

compare_routing_tables(r_t, new, remote) ==
  MergeSteps(r_t, new, remote)[Len(new)]

=============================================================================
