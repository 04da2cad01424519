-------------------------- MODULE RoutingTreeProof --------------------------
(***************************************************************************)
(* Theorems about the routing daemons of a network without cycles.          *)
(***************************************************************************)
EXTENDS RoutingTree, RoutingNetworkProof, FiniteSetTheorems

\* The routes to other hosts along the paths of the tree.
TreeLegs ==
  [n \in Node |-> {p \in Node \X Node : p[1] # n /\ p[2] = Toward[n][p[1]]}]

\* What a neighbour may name in an UPDATE lies on its side of the link, so the
\* way there leads through it.
LEMMA TreeLegsClosed == ClosedLegs(TreeLegs)
<1> SUFFICES ASSUME NEW n \in Node, NEW m \in Adjacent(n)
    PROVE  /\ <<m, m>> \in TreeLegs[n]
           /\ \A d \in Carried(TreeLegs, m, n) : <<d, m>> \in TreeLegs[n]
  BY DEF ClosedLegs
<1>1. m \in Node /\ m # n
  BY ChannelHosts DEF Adjacent
<1>2. <<m, m>> \in TreeLegs[n]
  BY <1>1, TreeAssumption DEF TreeLegs
<1>3. ASSUME NEW d \in Carried(TreeLegs, m, n) PROVE <<d, m>> \in TreeLegs[n]
  <2>1. d \in Node /\ d # n /\ d # m /\ Toward[m][d] # n
    BY <1>1 DEF Carried, TreeLegs
  <2>2. Toward[n][d] = m
    BY <1>1, <2>1, TreeAssumption
  <2> QED BY <1>1, <2>1, <2>2 DEF TreeLegs
<1> QED BY <1>2, <1>3

\* In every network without cycles the daemons hold only routes along the
\* paths of the tree, for any number of hosts, losses, failures and restarts:
\* no packet can be sent round in a loop.
THEOREM RoutesNeverLeaveTree == Spec => []RoutesFollowTree
<1>1. Init => RoutesOn(TreeLegs)
  BY RoutesOnInit
<1>2. TypeOK /\ RoutesOn(TreeLegs) /\ [Next]_vars => RoutesOn(TreeLegs)'
  BY RoutesOnNext, TreeLegsClosed
<1>3. RoutesOn(TreeLegs) => RoutesFollowTree
  BY DEF RoutesOn, On, TreeLegs, RoutesFollowTree, OnPath
<1> QED BY <1>1, <1>2, <1>3, TypeCorrect, PTL DEF Spec

-----------------------------------------------------------------------------
(* One route to each destination, and one to each neighbour. *)

\* No two elements of sequence t have the same address, under the given name.
Distinct(addr) == \A i, j \in DOMAIN addr : addr[i] = addr[j] => i = j

\* The addresses that a route table leads to, and those of a neighbour table.
Dsts(r_t) == [i \in DOMAIN r_t |-> r_t[i].dst]
Addrs(n_t) == [i \in DOMAIN n_t |-> n_t[i].mip_addr]

\* The two tables of host n agree: they name no address twice, and the routes
\* to adjacent hosts are the routes to the hosts in the neighbour table.
Agree(n, n_t, r_t) ==
  /\ Distinct(Dsts(r_t))
  /\ Distinct(Addrs(n_t))
  /\ \A i \in DOMAIN n_t : n_t[i].mip_addr \in Adjacent(n)
  /\ \A m \in Adjacent(n) : HasRoute(r_t, m) <=> HasNeighbour(n_t, m)

TablesAgree == \A n \in Node : Agree(n, n_table[n], r_table[n])

\* A sequence that names no element of the finite set S twice, and leaves one
\* out, is shorter than S is large.
LEMMA DistinctFit ==
  ASSUME NEW S, IsFiniteSet(S), NEW x \in S, NEW k \in Nat,
         NEW f \in [1 .. k -> S], Distinct(f), \A i \in 1 .. k : f[i] # x
  PROVE  k < Cardinality(S)
<1> DEFINE g == [i \in 1 .. k + 1 |-> IF i = k + 1 THEN x ELSE f[i]]
<1>1. g \in [1 .. k + 1 -> S]
  OBVIOUS
<1>2. \A i, j \in 1 .. k + 1 : g[i] = g[j] => i = j
  BY DEF Distinct
<1> HIDE DEF g
<1>3. IsFiniteSet(1 .. k + 1) /\ Cardinality(1 .. k + 1) = k + 1
  <2>1. 1 \in Int /\ k + 1 \in Int /\ ~ (1 > k + 1) /\ (k + 1) - 1 + 1 = k + 1
    OBVIOUS
  <2> QED BY <2>1, FS_Interval
<1>4. Cardinality(S) \in Nat
  BY FS_CardinalityType
<1>5. ~ (Cardinality(S) < k + 1)
  BY <1>1, <1>2, <1>3, FS_PigeonHole
<1> QED BY <1>4, <1>5

\* A table of routes to different hosts other than n has room for one more.
LEMMA RoutesFit ==
  ASSUME NEW n \in Node, NEW t \in RouteTable, Distinct(Dsts(t)),
         \A i \in DOMAIN t : t[i].dst # n,
         NEW m \in Node, m # n, ~ HasRoute(t, m)
  PROVE  Len(t) # MAX_ROUTES - 1
<1>1. t \in Seq(Route) /\ Len(t) \in Nat
  BY DEF RouteTable
<1>2. \A i \in 1 .. Len(t) : t[i] \in Route
  BY <1>1
<1>3. \A i \in 1 .. Len(t) : t[i].dst \in Node \ {n} /\ t[i].dst # m
  BY <1>1, <1>2 DEF Route, HasRoute
<1>4. Dsts(t) \in [1 .. Len(t) -> Node \ {n}]
      /\ \A i \in 1 .. Len(t) : Dsts(t)[i] # m
  BY <1>1, <1>3 DEF Dsts
<1>5. /\ IsFiniteSet(Node \ {n})
      /\ Cardinality(Node \ {n}) = Cardinality(Node) - 1
  BY RoomAssumption, FS_RemoveElement
<1>6. Len(t) < Cardinality(Node \ {n})
  BY <1>1, <1>4, <1>5, DistinctFit
<1>7. Cardinality(Node) \in Nat
  BY RoomAssumption, FS_CardinalityType
<1> QED BY <1>1, <1>5, <1>6, <1>7, RoomAssumption, MaxRoutesAssumption

\* A table of different adjacent hosts has room for one more.
LEMMA NeighboursFit ==
  ASSUME NEW n \in Node, NEW t \in NeighbourTable, Distinct(Addrs(t)),
         \A i \in DOMAIN t : t[i].mip_addr \in Adjacent(n),
         NEW m \in Adjacent(n), ~ HasNeighbour(t, m)
  PROVE  Len(t) # MAX_NEIGHBOURS - 1
<1>1. t \in Seq(Neighbour) /\ Len(t) \in Nat
  BY DEF NeighbourTable
<1>2. Addrs(t) \in [1 .. Len(t) -> Adjacent(n)]
      /\ \A i \in 1 .. Len(t) : Addrs(t)[i] # m
  BY <1>1 DEF Addrs, HasNeighbour
<1>3. IsFiniteSet(Adjacent(n))
  <2>1. Adjacent(n) \in SUBSET Node
    BY DEF Adjacent
  <2> QED BY <2>1, RoomAssumption, FS_Subset
<1>4. Len(t) < Cardinality(Adjacent(n)) /\ Cardinality(Adjacent(n)) \in Nat
  BY <1>1, <1>2, <1>3, DistinctFit, FS_CardinalityType
<1> QED BY <1>1, <1>4, DegreeAssumption, MaxNeighboursAssumption

-----------------------------------------------------------------------------
(* What the operations on one table leave of that. *)

\* A table with the same destinations in the same places leads to the same.
LEMMA SameDsts ==
  ASSUME NEW t \in Seq(Route), NEW u \in Seq(Route), Len(u) = Len(t),
         \A i \in 1 .. Len(t) : u[i].dst = t[i].dst
  PROVE  /\ Dsts(u) = Dsts(t)
         /\ \A d : HasRoute(u, d) <=> HasRoute(t, d)
BY DEF Dsts, HasRoute

LEMMA SameAddrs ==
  ASSUME NEW t \in Seq(Neighbour), NEW u \in Seq(Neighbour), Len(u) = Len(t),
         \A i \in 1 .. Len(t) : u[i].mip_addr = t[i].mip_addr
  PROVE  /\ Addrs(u) = Addrs(t)
         /\ \A m : HasNeighbour(u, m) <=> HasNeighbour(t, m)
BY DEF Addrs, HasNeighbour

\* Appending a route to where none leads.
LEMMA AppendedRoute ==
  ASSUME NEW t \in Seq(Route), NEW u \in Seq(Route), Len(u) = Len(t) + 1,
         \A i \in 1 .. Len(t) : u[i].dst = t[i].dst,
         Distinct(Dsts(t)), ~ HasRoute(t, u[Len(u)].dst)
  PROVE  /\ Distinct(Dsts(u))
         /\ \A d : HasRoute(u, d) <=> HasRoute(t, d) \/ d = u[Len(u)].dst
<1>1. Len(t) \in Nat /\ DOMAIN t = 1 .. Len(t) /\ DOMAIN u = 1 .. Len(t) + 1
  OBVIOUS
<1>2. \A i \in 1 .. Len(t) + 1 : i \in 1 .. Len(t) \/ i = Len(t) + 1
  BY <1>1
<1>3. ASSUME NEW i \in DOMAIN u, NEW j \in DOMAIN u, u[i].dst = u[j].dst
      PROVE  i = j
  <2>1. CASE i \in 1 .. Len(t) /\ j \in 1 .. Len(t)
    BY <1>1, <1>3, <2>1 DEF Distinct, Dsts
  <2>2. CASE i = Len(t) + 1 /\ j \in 1 .. Len(t)
    BY <1>1, <1>3, <2>2 DEF HasRoute
  <2>3. CASE j = Len(t) + 1 /\ i \in 1 .. Len(t)
    BY <1>1, <1>3, <2>3 DEF HasRoute
  <2> QED BY <1>1, <1>2, <2>1, <2>2, <2>3
<1>4. Distinct(Dsts(u))
  BY <1>3 DEF Distinct, Dsts
<1>5. \A d : HasRoute(u, d) <=> HasRoute(t, d) \/ d = u[Len(u)].dst
  <2>1. Len(t) + 1 \in DOMAIN u /\ \A i \in 1 .. Len(t) : i \in DOMAIN u
    BY <1>1
  <2> QED BY <1>1, <1>2, <2>1 DEF HasRoute
<1> QED BY <1>4, <1>5

\* Adding an entry to the neighbour table for a host it does not hold.
LEMMA AppendedNeighbour ==
  ASSUME NEW n \in Node, NEW t \in NeighbourTable, Distinct(Addrs(t)),
         \A i \in DOMAIN t : t[i].mip_addr \in Adjacent(n),
         NEW m \in Adjacent(n), ~ HasNeighbour(t, m)
  PROVE  LET u == neighbour_table_add_entry(t, m)
         IN  /\ Distinct(Addrs(u))
             /\ \A i \in DOMAIN u : u[i].mip_addr \in Adjacent(n)
             /\ \A x : HasNeighbour(u, x) <=> HasNeighbour(t, x) \/ x = m
<1> DEFINE u == neighbour_table_add_entry(t, m)
           nb == Entry(m, "INIT", 0)
<1>1. t \in Seq(Neighbour) /\ Len(t) \in Nat
  BY DEF NeighbourTable
<1>2. u = Append(t, nb)
  BY NeighboursFit DEF neighbour_table_add_entry
<1>3. nb \in Neighbour /\ nb.mip_addr = m
  BY ChannelHosts, TicksInRange, EntryType DEF NeighbourState
<1> HIDE DEF u, nb
<1>4. /\ DOMAIN t = 1 .. Len(t) /\ DOMAIN u = 1 .. Len(t) + 1
      /\ u[Len(t) + 1].mip_addr = m
      /\ \A i \in 1 .. Len(t) : u[i] = t[i]
  BY <1>1, <1>2, <1>3
<1>5. \A i \in 1 .. Len(t) + 1 : i \in 1 .. Len(t) \/ i = Len(t) + 1
  BY <1>1
<1>6. ASSUME NEW i \in DOMAIN u, NEW j \in DOMAIN u, u[i].mip_addr = u[j].mip_addr
      PROVE  i = j
  <2>1. CASE i \in 1 .. Len(t) /\ j \in 1 .. Len(t)
    BY <1>4, <1>6, <2>1 DEF Distinct, Addrs
  <2>2. CASE i = Len(t) + 1 /\ j \in 1 .. Len(t)
    BY <1>4, <1>6, <2>2 DEF HasNeighbour
  <2>3. CASE j = Len(t) + 1 /\ i \in 1 .. Len(t)
    BY <1>4, <1>6, <2>3 DEF HasNeighbour
  <2> QED BY <1>4, <1>5, <2>1, <2>2, <2>3
<1>7. Distinct(Addrs(u))
  BY <1>6 DEF Distinct, Addrs
<1>8. \A i \in DOMAIN u : u[i].mip_addr \in Adjacent(n)
  BY <1>4, <1>5
<1>9. \A x : HasNeighbour(u, x) <=> HasNeighbour(t, x) \/ x = m
  <2>1. Len(t) + 1 \in DOMAIN u /\ \A i \in 1 .. Len(t) : i \in DOMAIN u
    BY <1>1, <1>4
  <2> QED BY <1>4, <1>5, <2>1 DEF HasNeighbour
<1> QED BY <1>7, <1>8, <1>9 DEF u

\* Merging an UPDATE names no destination twice, and adds routes to the
\* destinations it carries only.
LEMMA MergeKeepsDistinct ==
  ASSUME NEW t \in RouteTable, Distinct(Dsts(t)), NEW new \in RouteTable,
         NEW m \in Node, NEW A, \A k \in DOMAIN new : new[k].dst \notin A
  PROVE  LET u == compare_routing_tables(t, new, m)
         IN  /\ Distinct(Dsts(u))
             /\ \A d \in A : HasRoute(u, d) <=> HasRoute(t, d)
<1> DEFINE S == {u \in RouteTable :
                   /\ Distinct(Dsts(u))
                   /\ \A d \in A : HasRoute(u, d) <=> HasRoute(t, d)}
<1>1. new \in Seq(Route)
  BY DEF RouteTable
<1>2. \A k \in 1 .. Len(new) : new[k] \in Route /\ new[k].dst \notin A
  BY <1>1
<1>3. ASSUME NEW v \in RouteTable \cap S, NEW k \in 1 .. Len(new)
      PROVE  MergeRoute(v, new[k], m) \in S
  <2> DEFINE u == MergeRoute(v, new[k], m)
  <2>1. new[k] \in Route
    BY <1>2
  <2>2. /\ u \in RouteTable
        /\ \A i \in 1 .. Len(v) : u[i].dst = v[i].dst
        /\ \/ Len(u) = Len(v)
           \/ /\ Len(u) = Len(v) + 1
              /\ ~ HasRoute(v, new[k].dst)
              /\ u[Len(u)].dst = new[k].dst
    BY <2>1, MergeRouteEffect
  <2> HIDE DEF u
  <2>3. u \in Seq(Route) /\ v \in Seq(Route)
    BY <2>2 DEF RouteTable
  <2>4. Distinct(Dsts(v)) /\ \A d \in A : HasRoute(v, d) <=> HasRoute(t, d)
    OBVIOUS
  <2>5. CASE Len(u) = Len(v)
    <3>1. Dsts(u) = Dsts(v) /\ \A d : HasRoute(u, d) <=> HasRoute(v, d)
      BY <2>2, <2>3, <2>5, SameDsts
    <3> QED BY <2>2, <2>4, <3>1 DEF u
  <2>6. CASE /\ Len(u) = Len(v) + 1
             /\ ~ HasRoute(v, new[k].dst)
             /\ u[Len(u)].dst = new[k].dst
    <3>1. /\ Distinct(Dsts(u))
          /\ \A d : HasRoute(u, d) <=> HasRoute(v, d) \/ d = new[k].dst
      BY <2>2, <2>3, <2>4, <2>6, AppendedRoute
    <3> QED BY <1>2, <2>2, <2>4, <3>1 DEF u
  <2> QED BY <2>2, <2>5, <2>6
<1>4. t \in S
  OBVIOUS
<1> HIDE DEF S
<1>5. compare_routing_tables(t, new, m) \in S
  BY <1>1, <1>3, <1>4, MergeInduction
<1> QED BY <1>5 DEF S

-----------------------------------------------------------------------------
(* The steps of a network. *)

\* In a tree no UPDATE names a host adjacent to its receiver: the only way from
\* the sender to there is through the receiver, and split horizon leaves it out.
LEMMA CarriedElsewhere ==
  ASSUME NEW n \in Node, NEW m \in Adjacent(n), NEW d \in Carried(TreeLegs, m, n)
  PROVE  d \notin Adjacent(n)
<1>1. m \in Node /\ <<d, m>> \in TreeLegs[n]
  BY TreeLegsClosed, ChannelHosts DEF ClosedLegs
<1>2. d \in Node /\ d # m
  BY <1>1 DEF Carried, TreeLegs
<1>3. Toward[n][d] = m
  BY <1>1 DEF TreeLegs
<1> QED BY <1>2, <1>3, TreeAssumption

\* Empty tables agree.
LEMMA EmptyAgree == \A n : Agree(n, <<>>, <<>>)
BY DEF Agree, Distinct, Dsts, Addrs, HasRoute, HasNeighbour


\* What the other hosts hold does not change.
LEMMA OthersAgree ==
  ASSUME TablesAgree, NEW n \in Node,
         \A x \in Node \ {n} : n_table'[x] = n_table[x] /\ r_table'[x] = r_table[x],
         Agree(n, n_table'[n], r_table'[n])
  PROVE  TablesAgree'
<1>1. \A x \in Node : Agree(x, n_table'[x], r_table'[x])
  BY DEF TablesAgree
<1> QED BY <1>1 DEF TablesAgree

\* A step that keeps the addresses of both tables in their places.
LEMMA SamePlacesAgree ==
  ASSUME NEW n \in Node,
         NEW t \in NeighbourTable, NEW u \in NeighbourTable, Len(u) = Len(t),
         \A i \in 1 .. Len(t) : u[i].mip_addr = t[i].mip_addr,
         NEW r \in RouteTable, NEW s \in RouteTable, Len(s) = Len(r),
         \A i \in 1 .. Len(r) : s[i].dst = r[i].dst,
         Agree(n, t, r)
  PROVE  Agree(n, u, s)
<1>1. t \in Seq(Neighbour) /\ u \in Seq(Neighbour) /\ DOMAIN u = 1 .. Len(t)
      /\ DOMAIN t = 1 .. Len(t)
  BY DEF NeighbourTable
<1>2. r \in Seq(Route) /\ s \in Seq(Route)
  BY DEF RouteTable
<1>3. Dsts(s) = Dsts(r) /\ \A d : HasRoute(s, d) <=> HasRoute(r, d)
  BY <1>2, SameDsts
<1>4. Addrs(u) = Addrs(t) /\ \A m : HasNeighbour(u, m) <=> HasNeighbour(t, m)
  BY <1>1, SameAddrs
<1> QED BY <1>1, <1>3, <1>4 DEF Agree

LEMMA StopAgree ==
  ASSUME TypeOK, TablesAgree, NEW n \in Node, NEW how, StopDaemon(n, how)
  PROVE  TablesAgree'
<1>1. n_table'[n] = <<>> /\ r_table'[n] = <<>>
  BY DEF StopDaemon, TypeOK, DaemonTypeOK
<1>2. \A x \in Node \ {n} : n_table'[x] = n_table[x] /\ r_table'[x] = r_table[x]
  BY DEF StopDaemon, TypeOK, DaemonTypeOK
<1> QED BY <1>1, <1>2, EmptyAgree, OthersAgree

LEMMA HelloAgree ==
  ASSUME TypeOK, RoutesOn(TreeLegs), TablesAgree,
         NEW n \in Node, NEW m \in Adjacent(n), handle_hello_message(n, m)
  PROVE  TablesAgree'
<1> DEFINE t == n_table[n]
           r == r_table[n]
<1>1. m \in Node /\ m # n
  BY ChannelHosts DEF Adjacent
<1>2. /\ n_table \in [Node -> NeighbourTable] /\ r_table \in [Node -> RouteTable]
      /\ t \in NeighbourTable /\ r \in RouteTable /\ Agree(n, t, r)
  BY DEF TypeOK, DaemonTypeOK, TablesAgree
<1>3. t \in Seq(Neighbour) /\ r \in Seq(Route)
  BY <1>2 DEF NeighbourTable, RouteTable
<1>4. CASE HelloFromNew(n, m)
  <2> DEFINE u == neighbour_table_add_entry(t, m)
             s == routing_table_add_entry(r, m, m, 1)
  <2>1. ~ HasNeighbour(t, m) /\ ~ HasRoute(r, m)
    BY <1>2, <1>4 DEF HelloFromNew, Agree
  <2>2. \A i \in DOMAIN r : r[i].dst # n
    BY DEF RoutesOn, On, TreeLegs
  <2>3. /\ Distinct(Addrs(u))
        /\ \A i \in DOMAIN u : u[i].mip_addr \in Adjacent(n)
        /\ \A x : HasNeighbour(u, x) <=> HasNeighbour(t, x) \/ x = m
    BY <1>2, <2>1, AppendedNeighbour DEF Agree
  <2>4. s = Append(r, [dst |-> m, next_hop |-> m, cost |-> Truncate(1)])
    BY <1>1, <1>2, <2>1, <2>2, RoutesFit DEF routing_table_add_entry, Agree
  <2>5. s \in Seq(Route)
    BY <1>1, <1>2, AddEntryEffect DEF RouteTable
  <2>6. Len(s) = Len(r) + 1 /\ s[Len(s)].dst = m
        /\ \A i \in 1 .. Len(r) : s[i].dst = r[i].dst
    BY <1>3, <2>4
  <2> HIDE DEF u, s
  <2>7. /\ Distinct(Dsts(s))
        /\ \A d : HasRoute(s, d) <=> HasRoute(r, d) \/ d = m
    BY <1>2, <1>3, <2>1, <2>5, <2>6, AppendedRoute DEF Agree
  <2>8. Agree(n, u, s)
    BY <1>2, <2>3, <2>7 DEF Agree
  <2>9. n_table' = [n_table EXCEPT ![n] = u] /\ r_table' = [r_table EXCEPT ![n] = s]
    BY <1>4 DEF HelloFromNew, u, s
  <2> QED BY <1>2, <2>8, <2>9, OthersAgree
<1>5. ASSUME HasNeighbour(t, m)
      PROVE  LET u == Heard(t, find_neighbour_by_addr(t, m))
             IN  /\ u \in NeighbourTable
                 /\ Len(u) = Len(t)
                 /\ \A j \in 1 .. Len(t) : u[j].mip_addr = t[j].mip_addr
  <2>1. find_neighbour_by_addr(t, m) \in 1 .. Len(t)
    BY <1>3, <1>5, FirstNeighbour
  <2> QED BY <1>2, <2>1, HeardNeighbourEffect
<1>6. CASE HelloFromKnown(n, m)
  <2> DEFINE u == Heard(t, find_neighbour_by_addr(t, m))
  <2>1. n_table' = [n_table EXCEPT ![n] = u] /\ r_table' = r_table
    BY <1>6 DEF HelloFromKnown
  <2>2. /\ u \in NeighbourTable
        /\ Len(u) = Len(t)
        /\ \A j \in 1 .. Len(t) : u[j].mip_addr = t[j].mip_addr
    BY <1>5, <1>6 DEF HelloFromKnown
  <2> HIDE DEF u
  <2>3. Agree(n, u, r)
    BY <1>2, <2>2, SamePlacesAgree
  <2> QED BY <1>2, <2>1, <2>3, OthersAgree
<1>7. CASE HelloFromLost(n, m)
  <2> DEFINE u == Heard(t, find_neighbour_by_addr(t, m))
             s == Restored(r, m)
  <2>1. HasNeighbour(t, m) /\ HasRoute(r, m)
    BY <1>2, <1>7 DEF HelloFromLost, Agree
  <2>2. n_table' = [n_table EXCEPT ![n] = u] /\ r_table' = [r_table EXCEPT ![n] = s]
    BY <1>7, <2>1 DEF HelloFromLost
  <2>3. /\ u \in NeighbourTable
        /\ Len(u) = Len(t)
        /\ \A j \in 1 .. Len(t) : u[j].mip_addr = t[j].mip_addr
    BY <1>5, <2>1
  <2>4. /\ s \in RouteTable
        /\ Len(s) = Len(r)
        /\ \A i \in 1 .. Len(r) : s[i].dst = r[i].dst
    BY <1>1, <1>2, <2>1, RestoredEffect
  <2> HIDE DEF u, s
  <2>5. Agree(n, u, s)
    BY <1>2, <2>3, <2>4, SamePlacesAgree
  <2> QED BY <1>2, <2>2, <2>5, OthersAgree
<1> QED BY <1>4, <1>6, <1>7 DEF handle_hello_message

LEMMA UpdateAgree ==
  ASSUME TypeOK, RoutesOn(TreeLegs), TablesAgree,
         NEW n \in Node, NEW m \in Adjacent(n), ReceiveUpdate(m, n)
  PROVE  TablesAgree'
<1> DEFINE new == Head(chan[<<m, n>>]).table
           s == compare_routing_tables(r_table[n], new, m)
<1>1. <<m, n>> \in Channel /\ m \in Node
  BY ChannelHosts
<1>2. /\ new \in RouteTable
      /\ \A k \in DOMAIN new : new[k].dst \in Carried(TreeLegs, m, n)
  BY <1>1, HeadType DEF ReceiveUpdate, RoutesOn
<1>3. n_table' = n_table /\ r_table' = [r_table EXCEPT ![n] = s]
  BY DEF ReceiveUpdate, handle_update_message
<1>4. r_table \in [Node -> RouteTable] /\ r_table[n] \in RouteTable
      /\ Agree(n, n_table[n], r_table[n])
  BY DEF TypeOK, DaemonTypeOK, TablesAgree
<1> HIDE DEF new
<1>5. \A k \in DOMAIN new : new[k].dst \notin Adjacent(n)
  BY <1>2, CarriedElsewhere
<1>6. /\ Distinct(Dsts(s))
      /\ \A d \in Adjacent(n) : HasRoute(s, d) <=> HasRoute(r_table[n], d)
  BY <1>1, <1>2, <1>4, <1>5, MergeKeepsDistinct DEF Agree
<1> HIDE DEF s
<1>7. Agree(n, n_table[n], s)
  BY <1>4, <1>6 DEF Agree
<1> QED BY <1>3, <1>4, <1>7, OthersAgree

LEMMA TickAgree ==
  ASSUME TypeOK, TablesAgree, NEW n \in Node, NEW lost, TickDaemon(n, lost)
  PROVE  TablesAgree'
<1> DEFINE t == n_table[n]
           u == [i \in DOMAIN t |-> Aged(t[i], lost)]
           r == r_table[n]
           s == poison_reverse(r, lost)
<1>1. /\ n_table \in [Node -> NeighbourTable] /\ r_table \in [Node -> RouteTable]
      /\ t \in NeighbourTable /\ r \in RouteTable /\ Agree(n, t, r)
  BY DEF TypeOK, DaemonTypeOK, TablesAgree
<1>2. n_table' = [n_table EXCEPT ![n] = u] /\ r_table' = [r_table EXCEPT ![n] = s]
  BY DEF TickDaemon, check_neighbours
<1>3. /\ u \in NeighbourTable
      /\ Len(u) = Len(t)
      /\ \A i \in 1 .. Len(t) : u[i].mip_addr = t[i].mip_addr
  BY <1>1, AgedEffect DEF TickDaemon, check_neighbours
<1>4. /\ s \in RouteTable
      /\ Len(s) = Len(r)
      /\ \A i \in 1 .. Len(r) : s[i].dst = r[i].dst
  BY <1>1, PoisonEffect
<1> HIDE DEF u, s
<1>5. Agree(n, u, s)
  BY <1>1, <1>3, <1>4, SamePlacesAgree
<1> QED BY <1>1, <1>2, <1>5, OthersAgree

\* Every step keeps the tables agreed: one case for each action.
LEMMA TablesAgreeNext ==
  TypeOK /\ RoutesOn(TreeLegs) /\ TablesAgree /\ [Next]_vars => TablesAgree'
<1> SUFFICES ASSUME TypeOK, RoutesOn(TreeLegs), TablesAgree, [Next]_vars
    PROVE  TablesAgree'
  OBVIOUS
<1>1. CASE UNCHANGED <<n_table, r_table>>
  BY <1>1 DEF TablesAgree
<1>2. ASSUME NEW n \in Node, Tick(n) PROVE TablesAgree'
  BY <1>2, TickAgree DEF Tick
<1>3. ASSUME NEW n \in Node, NEW m \in Adjacent(n), ReceiveHello(m, n)
      PROVE  TablesAgree'
  BY <1>3, HelloAgree DEF ReceiveHello
<1>4. ASSUME NEW n \in Node, NEW m \in Adjacent(n), ReceiveUpdate(m, n)
      PROVE  TablesAgree'
  BY <1>4, UpdateAgree
<1>5. ASSUME NEW n \in Node, NEW dst \in Lookup, Request(n, dst)
      PROVE  TablesAgree'
  BY <1>1, <1>5, StopAgree DEF Request, handle_forwarding_packet, daemon_vars
<1>6. ASSUME NEW n \in Node, Kill(n) PROVE TablesAgree'
  BY <1>6, StopAgree DEF Kill
<1> QED
  BY <1>1, <1>2, <1>3, <1>4, <1>5, <1>6
  DEF Next, Daemon, Environment, vars, daemon_vars, Start, StartDaemon,
      ReadResponse, Lose, LinkDown, LinkUp

LEMMA TablesAgreeInit == Init => TablesAgree
BY EmptyAgree DEF Init, DaemonInit, TablesAgree

LEMMA TablesAlwaysAgree == Spec => []TablesAgree
<1>1. Init => RoutesOn(TreeLegs)
  BY RoutesOnInit
<1>2. TypeOK /\ RoutesOn(TreeLegs) /\ [Next]_vars => RoutesOn(TreeLegs)'
  BY RoutesOnNext, TreeLegsClosed
<1> QED BY <1>1, <1>2, TablesAgreeInit, TablesAgreeNext, TypeCorrect, PTL DEF Spec

\* In every network without cycles a daemon holds one route to a destination,
\* although handle_hello_message adds the direct one without looking for it.
THEOREM OneRouteEach == Spec => []OneRoutePerDestination
<1>1. TablesAgree => OneRoutePerDestination
  BY DEF TablesAgree, Agree, Distinct, Dsts, OneRoutePerDestination
<1> QED BY <1>1, TablesAlwaysAgree, PTL

\* In every network without cycles a host in the neighbour table has a route:
\* no HELLO finds its sender disconnected and without one, which would end the
\* daemon (handle_hello_message, case 3).
THEOREM NeighboursHaveRoutes == Spec => []NeighbourHasRoute
<1>1. TablesAgree => NeighbourHasRoute
  BY DEF TablesAgree, Agree, NeighbourHasRoute, HasNeighbour
<1> QED BY <1>1, TablesAlwaysAgree, PTL

=============================================================================
