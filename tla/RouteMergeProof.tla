--------------------------- MODULE RouteMergeProof --------------------------
(***************************************************************************)
(* Theorems about compare_routing_tables: for tables and UPDATEs of any     *)
(* size, it gives a destination the route that the rule of distance vector  *)
(* routing gives, and a repeated UPDATE changes nothing.                    *)
(***************************************************************************)
EXTENDS RouteMerge, RoutingTableProof

-----------------------------------------------------------------------------
(* The first route to a destination. *)

\* The index that a lookup returns is the least, and the only one that is.
LEMMA FirstIndex ==
  ASSUME NEW t \in Seq(Route), NEW d
  PROVE  /\ HasRoute(t, d) =>
              LET j == routing_table_get_route_by_dst(t, d)
              IN  /\ j \in 1 .. Len(t) /\ t[j].dst = d
                  /\ \A k \in 1 .. j - 1 : t[k].dst # d
         /\ \A j \in 1 .. Len(t) :
              t[j].dst = d /\ (\A k \in 1 .. j - 1 : t[k].dst # d)
                => routing_table_get_route_by_dst(t, d) = j
<1> DEFINE IsFirst(j) == t[j].dst = d /\ \A k \in 1 .. j - 1 : t[k].dst # d
           c == routing_table_get_route_by_dst(t, d)
<1>1. DOMAIN t = 1 .. Len(t) /\ Len(t) \in Nat
  OBVIOUS
<1>2. c = CHOOSE j \in 1 .. Len(t) : IsFirst(j)
  BY <1>1 DEF routing_table_get_route_by_dst
<1>3. ASSUME HasRoute(t, d) PROVE \E j \in 1 .. Len(t) : IsFirst(j)
  <2> DEFINE Found == {i \in 1 .. Len(t) : t[i].dst = d}
  <2>1. Found \subseteq Nat /\ Found # {}
    BY <1>1, <1>3 DEF HasRoute
  <2> HIDE DEF Found
  <2>2. PICK j \in Found : \A k \in Found : j <= k
    BY <2>1, LeastNatural
  <2>3. j \in 1 .. Len(t) /\ t[j].dst = d
    BY <2>2 DEF Found
  <2>4. ASSUME NEW k \in 1 .. j - 1 PROVE t[k].dst # d
    <3>1. k \in 1 .. Len(t) /\ ~ (j <= k)
      BY <1>1, <2>3
    <3> QED BY <2>2, <3>1 DEF Found
  <2> QED BY <2>3, <2>4
<1>4. ASSUME NEW j \in 1 .. Len(t), IsFirst(j), NEW k \in 1 .. Len(t), IsFirst(k)
      PROVE  j = k
  <2>1. ~ (j < k)
    BY <1>4
  <2>2. ~ (k < j)
    BY <1>4
  <2> QED BY <2>1, <2>2
<1> HIDE DEF IsFirst, c
<1>5. (\E j \in 1 .. Len(t) : IsFirst(j)) => c \in 1 .. Len(t) /\ IsFirst(c)
  BY <1>2
<1>6. \A j \in 1 .. Len(t) : IsFirst(j) => c = j
  BY <1>4, <1>5
<1> QED BY <1>3, <1>5, <1>6 DEF IsFirst, c

LEMMA FirstType ==
  ASSUME NEW t \in RouteTable, NEW d, HasRoute(t, d)
  PROVE  First(t, d) \in Route /\ First(t, d).dst = d
<1>1. t \in Seq(Route)
  BY DEF RouteTable
<1> QED BY <1>1, FirstRoute DEF First

\* Tables whose destinations are in the same places, and whose routes to d are
\* the same, have the same first route to d.
LEMMA SameFirst ==
  ASSUME NEW t \in Seq(Route), NEW u \in Seq(Route), NEW d,
         Len(t) <= Len(u), \A i \in 1 .. Len(t) : u[i].dst = t[i].dst,
         HasRoute(t, d)
  PROVE  /\ HasRoute(u, d)
         /\ routing_table_get_route_by_dst(u, d) = routing_table_get_route_by_dst(t, d)
<1> DEFINE j == routing_table_get_route_by_dst(t, d)
<1>1. j \in 1 .. Len(t) /\ t[j].dst = d /\ \A k \in 1 .. j - 1 : t[k].dst # d
  BY FirstIndex
<1> HIDE DEF j
<1>2. Len(t) \in Nat /\ Len(u) \in Nat /\ DOMAIN u = 1 .. Len(u)
  OBVIOUS
<1>3. j \in 1 .. Len(u) /\ u[j].dst = d
  BY <1>1, <1>2
<1>4. \A k \in 1 .. j - 1 : u[k].dst # d
  <2>1. \A k \in 1 .. j - 1 : k \in 1 .. Len(t)
    BY <1>1, <1>2
  <2> QED BY <1>1, <2>1
<1>5. routing_table_get_route_by_dst(u, d) = j
  BY <1>3, <1>4, FirstIndex
<1>6. HasRoute(u, d)
  BY <1>2, <1>3 DEF HasRoute
<1> QED BY <1>5, <1>6 DEF j

-----------------------------------------------------------------------------
(* One turn of the loop. *)

\* What a turn makes of a route to the announced destination, and the route it
\* adds where there was none.
Merged(known, recv, m) ==
  IF known.next_hop = m /\ known.cost = recv THEN known ELSE Better(known, recv, m)
Learned(d, recv, m) ==
  [dst |-> d, next_hop |-> m,
   cost |-> IF recv = ROUTING_COST_INFINITY THEN 0 ELSE recv + 1]

LEMMA RouteParts ==
  ASSUME NEW r \in Route
  PROVE  /\ r.dst \in Node /\ r.next_hop \in Node
         /\ r.cost \in Nat /\ r.cost <= ROUTING_COST_INFINITY
         /\ r = [dst |-> r.dst, next_hop |-> r.next_hop, cost |-> r.cost]
         /\ ROUTING_COST_INFINITY \in Nat /\ ROUTING_COST_INFINITY > 1
BY InfinityAssumption DEF Route, Cost

LEMMA TruncateValue ==
  ASSUME NEW c \in Nat, c <= ROUTING_COST_INFINITY
  PROVE  /\ c < ROUTING_COST_INFINITY => Truncate(c + 1) = c + 1
         /\ c = ROUTING_COST_INFINITY => Truncate(c + 1) = 0
<1>1. ROUTING_COST_INFINITY \in Nat /\ ROUTING_COST_INFINITY + 1 > 0
  BY InfinityAssumption
<1>2. c < ROUTING_COST_INFINITY => (c + 1) % (ROUTING_COST_INFINITY + 1) = c + 1
  BY <1>1
<1>3. (ROUTING_COST_INFINITY + 1) % (ROUTING_COST_INFINITY + 1) = 0
  BY <1>1
<1> QED BY <1>2, <1>3 DEF Truncate

\* A turn leaves the routes to the other destinations alone.
LEMMA TurnOther ==
  ASSUME NEW t \in RouteTable, NEW r \in Route, NEW m \in Node, NEW d, d # r.dst
  PROVE  LET u == MergeRoute(t, r, m)
         IN  /\ HasRoute(u, d) <=> HasRoute(t, d)
             /\ HasRoute(t, d) => First(u, d) = First(t, d)
<1> DEFINE u == MergeRoute(t, r, m)
           j == routing_table_get_route_by_dst(t, r.dst)
<1>1. /\ u \in RouteTable
      /\ \A i \in 1 .. Len(t) : u[i].dst = t[i].dst
      /\ \/ Len(u) = Len(t)
         \/ Len(u) = Len(t) + 1 /\ u[Len(u)].dst = r.dst
  BY MergeRouteEffect
<1>2. t \in Seq(Route) /\ u \in Seq(Route)
  BY <1>1 DEF RouteTable
<1>3. \A i \in 1 .. Len(t) : t[i].dst = d => u[i] = t[i]
  <2>1. r.cost + 1 \in Nat /\ r.dst \in Node
    BY RouteParts
  <2>2. CASE ~ HasRoute(t, r.dst)
    <3>1. u = t \/ u = Append(t, [dst |-> r.dst, next_hop |-> m,
                                  cost |-> Truncate(r.cost + 1)])
      BY <2>1, <2>2, AddEntryEffect DEF MergeRoute
    <3> HIDE DEF u
    <3> QED BY <1>2, <3>1
  <2>3. CASE HasRoute(t, r.dst)
    <3>1. j \in 1 .. Len(t) /\ t[j].dst = r.dst
      BY <1>2, <2>3, FirstRoute
    <3>2. \/ u = [t EXCEPT ![j].cost = CostThrough(r.cost)]
          \/ u = [t EXCEPT ![j].next_hop = m, ![j].cost = Truncate(r.cost + 1)]
          \/ u = t
      BY <2>3 DEF MergeRoute
    <3> HIDE DEF u, j
    <3>3. \A i \in 1 .. Len(t) : i # j => u[i] = t[i]
      BY <1>2, <3>2
    <3> QED BY <3>1, <3>3
  <2> QED BY <2>2, <2>3
<1> HIDE DEF u
<1>4. Len(t) \in Nat /\ Len(u) \in Nat
  BY <1>2
<1>5. HasRoute(u, d) => HasRoute(t, d)
  <2> SUFFICES ASSUME NEW i \in DOMAIN u, u[i].dst = d PROVE HasRoute(t, d)
    BY DEF HasRoute
  <2>1. i \in 1 .. Len(t) \/ (Len(u) = Len(t) + 1 /\ i = Len(u))
    BY <1>1, <1>2, <1>4
  <2>2. i \in 1 .. Len(t)
    BY <1>1, <2>1
  <2> QED BY <1>1, <1>2, <2>2 DEF HasRoute
<1>6. ASSUME HasRoute(t, d) PROVE HasRoute(u, d) /\ First(u, d) = First(t, d)
  <2> DEFINE k == routing_table_get_route_by_dst(t, d)
  <2>1. k \in 1 .. Len(t) /\ t[k].dst = d
    BY <1>2, <1>6, FirstRoute
  <2>2. Len(t) <= Len(u)
    BY <1>1, <1>4
  <2>3. HasRoute(u, d) /\ routing_table_get_route_by_dst(u, d) = k
    BY <1>1, <1>2, <1>6, <2>2, SameFirst
  <2> HIDE DEF k
  <2>4. u[k] = t[k]
    BY <1>3, <2>1
  <2> QED BY <2>3, <2>4 DEF First, k
<1> QED BY <1>5, <1>6 DEF u

\* A turn gives a known destination the route of the rule.
LEMMA TurnKnown ==
  ASSUME NEW t \in RouteTable, NEW r \in Route, NEW m \in Node, HasRoute(t, r.dst)
  PROVE  LET u == MergeRoute(t, r, m)
         IN  /\ HasRoute(u, r.dst)
             /\ First(u, r.dst) = Merged(First(t, r.dst), r.cost, m)
<1> DEFINE d == r.dst
           u == MergeRoute(t, r, m)
           j == routing_table_get_route_by_dst(t, d)
           known == First(t, d)
           new == Merged(known, r.cost, m)
<1>1. t \in Seq(Route) /\ j \in 1 .. Len(t) /\ t[j].dst = d
  BY FirstRoute DEF RouteTable
<1>2. /\ known \in Route /\ known.dst = d /\ t[j] = known
      /\ known = [dst |-> known.dst, next_hop |-> known.next_hop, cost |-> known.cost]
  BY FirstType, RouteParts DEF First
<1>3. /\ r.cost \in Nat /\ r.cost <= ROUTING_COST_INFINITY
      /\ known.cost \in Nat /\ known.cost <= ROUTING_COST_INFINITY
      /\ ROUTING_COST_INFINITY \in Nat
  BY <1>2, RouteParts
<1>4. u = IF known.next_hop = m /\ known.cost # r.cost
          THEN [t EXCEPT ![j].cost = CostThrough(r.cost)]
          ELSE IF known.cost > r.cost + 1
               THEN [t EXCEPT ![j].next_hop = m, ![j].cost = Truncate(r.cost + 1)]
               ELSE t
  BY <1>2 DEF MergeRoute
<1> DEFINE through == [dst |-> known.dst, next_hop |-> m, cost |-> CostThrough(r.cost)]
<1>5. new = IF known.next_hop = m /\ known.cost = r.cost THEN known
            ELSE IF known.next_hop = m \/ CostThrough(r.cost) < known.cost
                 THEN through ELSE known
  BY DEF Merged, Better
<1> HIDE DEF u, j, known, new
<1>6. u[j] = new
  <2>1. CASE known.next_hop = m /\ known.cost # r.cost
    <3>1. u[j] = [t[j] EXCEPT !.cost = CostThrough(r.cost)]
      BY <1>1, <1>4, <2>1
    <3>2. u[j] = through
      BY <1>2, <2>1, <3>1
    <3> QED BY <1>5, <2>1, <3>2
  <2>2. CASE ~ (known.next_hop = m /\ known.cost # r.cost) /\ known.cost > r.cost + 1
    <3>1. Truncate(r.cost + 1) = CostThrough(r.cost) /\ CostThrough(r.cost) = r.cost + 1
      BY <1>3, <2>2, TruncateValue DEF CostThrough
    <3>2. u[j] = [t[j] EXCEPT !.next_hop = m, !.cost = Truncate(r.cost + 1)]
      <4> DEFINE x == [t[j] EXCEPT !.next_hop = m, !.cost = Truncate(r.cost + 1)]
      <4>1. u = [t EXCEPT ![j].next_hop = m, ![j].cost = Truncate(r.cost + 1)]
        BY <1>4, <2>2
      <4>2. u = [t EXCEPT ![j] = x]
        BY <1>1, <4>1
      <4> HIDE DEF x
      <4>3. u[j] = x
        BY <1>1, <4>2
      <4> QED BY <4>3 DEF x
    <3>3. u[j] = through
      BY <1>2, <3>1, <3>2
    <3>4. known.next_hop # m /\ CostThrough(r.cost) < known.cost
      BY <1>3, <2>2, <3>1
    <3> QED BY <1>5, <3>3, <3>4
  <2>3. CASE ~ (known.next_hop = m /\ known.cost # r.cost) /\ ~ (known.cost > r.cost + 1)
    <3>1. u[j] = known
      BY <1>2, <1>4, <2>3
    <3>2. ~ (CostThrough(r.cost) < known.cost)
      BY <1>3, <2>3 DEF CostThrough
    <3>3. new = known
      BY <1>5, <2>3, <3>2
    <3> QED BY <3>1, <3>3
  <2> QED BY <2>1, <2>2, <2>3
<1>7. /\ u \in RouteTable
      /\ \A i \in 1 .. Len(t) : u[i].dst = t[i].dst
      /\ Len(u) = Len(t) \/ Len(u) = Len(t) + 1
  BY MergeRouteEffect DEF u
<1>8. u \in Seq(Route) /\ Len(t) <= Len(u)
  BY <1>1, <1>7 DEF RouteTable
<1>9. HasRoute(u, d) /\ routing_table_get_route_by_dst(u, d) = j
  BY <1>1, <1>7, <1>8, SameFirst DEF j
<1> QED BY <1>6, <1>9 DEF First, u, known, new

\* A turn that finds no route to the announced destination adds one, or finds
\* the table full.
LEMMA TurnUnknown ==
  ASSUME NEW t \in RouteTable, NEW r \in Route, NEW m \in Node, ~ HasRoute(t, r.dst)
  PROVE  LET u == MergeRoute(t, r, m)
         IN  \/ u = t /\ Len(t) = MAX_ROUTES - 1
             \/ /\ HasRoute(u, r.dst)
                /\ First(u, r.dst) = Learned(r.dst, r.cost, m)
<1> DEFINE d == r.dst
           u == MergeRoute(t, r, m)
           new == [dst |-> d, next_hop |-> m, cost |-> Truncate(r.cost + 1)]
<1>1. /\ d \in Node /\ r.cost \in Nat /\ r.cost + 1 \in Nat
      /\ r.cost <= ROUTING_COST_INFINITY /\ ROUTING_COST_INFINITY \in Nat
  BY RouteParts
<1>2. \/ u = t /\ Len(t) = MAX_ROUTES - 1
      \/ u = Append(t, new)
  BY <1>1, AddEntryEffect DEF MergeRoute
<1>3. new = Learned(d, r.cost, m)
  BY <1>1, TruncateValue DEF Learned
<1>4. t \in Seq(Route) /\ new \in Route /\ Len(t) \in Nat /\ new.dst = d
  BY <1>1, TruncateType DEF RouteTable, Route
<1> HIDE DEF u, new
<1>5. ASSUME u = Append(t, new)
      PROVE  HasRoute(u, d) /\ First(u, d) = new
  <2>1. /\ u \in Seq(Route) /\ Len(t) + 1 \in 1 .. Len(u) /\ DOMAIN u = 1 .. Len(u)
        /\ u[Len(t) + 1] = new
        /\ \A k \in 1 .. Len(t) : u[k] = t[k]
    BY <1>4, <1>5
  <2>2. \A k \in 1 .. (Len(t) + 1) - 1 : u[k].dst # d
    BY <1>4, <2>1 DEF HasRoute
  <2>3. routing_table_get_route_by_dst(u, d) = Len(t) + 1
    BY <1>4, <2>1, <2>2, FirstIndex
  <2> QED BY <1>4, <2>1, <2>3 DEF HasRoute, First
<1> QED BY <1>2, <1>3, <1>5 DEF u

-----------------------------------------------------------------------------
(* The loop. *)

\* After turn i of a loop in which only turn a announces d, the first route to
\* d in u is the one the rule gives: table t held known before the loop.
Settled(t, u, d, recv, m, done) ==
  /\ HasRoute(t, d) =>
       /\ HasRoute(u, d)
       /\ First(u, d) = IF done THEN Merged(First(t, d), recv, m) ELSE First(t, d)
  /\ ~ HasRoute(t, d) =>
       /\ HasRoute(u, d) => done /\ First(u, d) = Learned(d, recv, m)
       /\ ~ HasRoute(u, d) /\ done => Len(u) = MAX_ROUTES - 1

LEMMA TurnSettled ==
  ASSUME NEW t \in RouteTable, NEW u \in RouteTable, NEW r \in Route, NEW m \in Node,
         NEW d, NEW recv, NEW done \in BOOLEAN, Settled(t, u, d, recv, m, done),
         r.dst = d => ~ done /\ r.cost = recv
  PROVE  Settled(t, MergeRoute(u, r, m), d, recv, m, done \/ r.dst = d)
<1> DEFINE v == MergeRoute(u, r, m)
<1>1. CASE r.dst # d
  <2>1. /\ HasRoute(v, d) <=> HasRoute(u, d)
        /\ HasRoute(u, d) => First(v, d) = First(u, d)
    BY <1>1, TurnOther
  <2>2. Len(u) = MAX_ROUTES - 1 => Len(v) = MAX_ROUTES - 1
    <3>1. v \in RouteTable /\ (Len(v) = Len(u) \/ Len(v) = Len(u) + 1)
      BY MergeRouteEffect
    <3> HIDE DEF v
    <3>2. Len(v) \in Nat /\ Len(u) \in Nat /\ Len(v) < MAX_ROUTES
      BY <3>1 DEF RouteTable
    <3> QED BY <3>1, <3>2, MaxRoutesAssumption
  <2> HIDE DEF v
  <2>3. Settled(t, v, d, recv, m, done)
    BY <2>1, <2>2 DEF Settled
  <2>4. (done \/ r.dst = d) = done
    BY <1>1
  <2> QED BY <2>3, <2>4 DEF v
<1>2. CASE r.dst = d /\ HasRoute(u, d)
  <2>1. HasRoute(v, d) /\ First(v, d) = Merged(First(u, d), recv, m)
    BY <1>2, TurnKnown
  <2>2. HasRoute(t, d) /\ First(u, d) = First(t, d)
    BY <1>2 DEF Settled
  <2> HIDE DEF v
  <2>3. Settled(t, v, d, recv, m, TRUE)
    BY <2>1, <2>2 DEF Settled
  <2> QED BY <1>2, <2>3 DEF v
<1>3. CASE r.dst = d /\ ~ HasRoute(u, d)
  <2>1. \/ v = u /\ Len(u) = MAX_ROUTES - 1
        \/ HasRoute(v, d) /\ First(v, d) = Learned(d, recv, m)
    BY <1>3, TurnUnknown
  <2>2. ~ HasRoute(t, d)
    BY <1>3 DEF Settled
  <2> HIDE DEF v
  <2>3. Settled(t, v, d, recv, m, TRUE)
    BY <1>3, <2>1, <2>2 DEF Settled
  <2> QED BY <1>3, <2>3 DEF v
<1> QED BY <1>1, <1>2, <1>3

\* The loop, for a destination that the UPDATE announces at index a, at cost
\* recv, and nowhere else; or nowhere, a being behind its end.
LEMMA LoopSettled ==
  ASSUME NEW t \in RouteTable, NEW new \in Seq(Route), NEW m \in Node,
         NEW d, NEW recv, NEW a \in 1 .. Len(new) + 1,
         \A i \in 1 .. Len(new) : new[i].dst = d <=> i = a,
         a \in 1 .. Len(new) => new[a].cost = recv
  PROVE  Settled(t, compare_routing_tables(t, new, m), d, recv, m, a <= Len(new))
<1> DEFINE f == MergeSteps(t, new, m)
           n == Len(new)
           P == {i \in 0 .. n : f[i] \in RouteTable
                                /\ Settled(t, f[i], d, recv, m, a <= i)}
<1>1. n \in Nat /\ a \in 1 .. n + 1 /\ \A i \in 1 .. n : new[i] \in Route
  OBVIOUS
<1>2. f[0] = t /\ \A i \in 1 .. n : f[i] = MergeRoute(f[i - 1], new[i], m)
  BY MergeStepsDef
<1> HIDE DEF f, n
<1>3. 0 \in P
  <2>1. (a <= 0) = FALSE /\ 0 \in 0 .. n
    BY <1>1
  <2>2. Settled(t, t, d, recv, m, FALSE)
    BY DEF Settled
  <2> QED BY <1>2, <2>1, <2>2
<1>4. ASSUME NEW i \in 1 .. n, i - 1 \in P PROVE i \in P
  <2> DEFINE u == f[i - 1]
             r == new[i]
  <2>1. u \in RouteTable /\ Settled(t, u, d, recv, m, a <= i - 1) /\ r \in Route
    BY <1>1, <1>4
  <2>2. r.dst = d => ~ (a <= i - 1) /\ r.cost = recv
    BY <1>1 DEF n
  <2>3. (a <= i) = ((a <= i - 1) \/ r.dst = d)
    BY <1>1 DEF n
  <2>4. f[i] = MergeRoute(u, r, m) /\ i \in 0 .. n
    BY <1>1, <1>2
  <2>5. (a <= i - 1) \in BOOLEAN
    OBVIOUS
  <2> DEFINE done == a <= i - 1
  <2> HIDE DEF u, r, done
  <2>6. Settled(t, MergeRoute(u, r, m), d, recv, m, done \/ r.dst = d)
    BY <2>1, <2>2, <2>5, TurnSettled DEF done
  <2>7. MergeRoute(u, r, m) \in RouteTable
    BY <2>1, MergeRouteEffect
  <2> QED BY <2>3, <2>4, <2>6, <2>7 DEF done
<1> HIDE DEF P
<1>5. \A i \in 0 .. n : i \in P
  BY <1>1, <1>3, <1>4, TurnInduction
<1>6. n \in P
  BY <1>1, <1>5
<1> QED BY <1>6 DEF P, f, n, compare_routing_tables

-----------------------------------------------------------------------------
(* The rule. *)

LEMMA AnnouncedType ==
  ASSUME NEW m, NEW new \in Announced(m)
  PROVE  new \in Seq(Route)
<1> DEFINE R == {[dst |-> d, next_hop |-> d, cost |-> c] : d \in Node \ {m}, c \in Cost}
<1>1. R \subseteq Route
  BY DEF Route
<1>2. PICK k \in 0 .. MaxAnnounced : new \in [1 .. k -> R]
  BY DEF Announced
<1>3. k \in Nat
  BY AnnouncedAssumption
<1> HIDE DEF R
<1>4. new \in [1 .. k -> Route]
  BY <1>1, <1>2
<1> QED BY <1>3, <1>4

\* A destination that is announced once has one place in the UPDATE.
LEMMA OncePlace ==
  ASSUME NEW new \in Seq(Route), NEW d, Once(new, d),
         NEW a \in 1 .. Len(new), new[a].dst = d
  PROVE  \A i \in 1 .. Len(new) : new[i].dst = d <=> i = a
<1>1. DOMAIN new = 1 .. Len(new)
  OBVIOUS
<1> QED BY <1>1 DEF Once

LEMMA RuleHolds ==
  ASSUME NEW t \in RouteTable, NEW new \in Seq(Route), NEW m \in Node, NEW d
  PROVE  LET u == compare_routing_tables(t, new, m)
         IN  /\ HasRoute(t, d) /\ (\A i \in 1 .. Len(new) : new[i].dst # d)
                  => First(u, d) = First(t, d)
             /\ \A a \in 1 .. Len(new) : new[a].dst = d /\ Once(new, d) =>
                  Settled(t, u, d, new[a].cost, m, TRUE)
<1> DEFINE u == compare_routing_tables(t, new, m)
<1>1. Len(new) \in Nat
  OBVIOUS
<1>2. ASSUME \A i \in 1 .. Len(new) : new[i].dst # d
      PROVE  Settled(t, u, d, 0, m, FALSE)
  <2> DEFINE a == Len(new) + 1
  <2>1. a \in 1 .. Len(new) + 1 /\ a \notin 1 .. Len(new) /\ (a <= Len(new)) = FALSE
        /\ \A i \in 1 .. Len(new) : i # a
    BY <1>1
  <2> HIDE DEF a, u
  <2>2. Settled(t, compare_routing_tables(t, new, m), d, 0, m, a <= Len(new))
    BY <1>2, <2>1, LoopSettled
  <2> QED BY <2>1, <2>2 DEF u
<1>3. ASSUME NEW a \in 1 .. Len(new), new[a].dst = d, Once(new, d)
      PROVE  Settled(t, u, d, new[a].cost, m, TRUE)
  <2>1. a \in 1 .. Len(new) + 1 /\ (a <= Len(new)) = TRUE
    BY <1>1
  <2> HIDE DEF u
  <2>2. \A i \in 1 .. Len(new) : new[i].dst = d <=> i = a
    BY <1>3, OncePlace
  <2> DEFINE recv == new[a].cost
  <2>3. a \in 1 .. Len(new) => new[a].cost = recv
    OBVIOUS
  <2> HIDE DEF recv
  <2>4. Settled(t, compare_routing_tables(t, new, m), d, recv, m, a <= Len(new))
    BY <2>1, <2>2, <2>3, LoopSettled
  <2> QED BY <2>1, <2>4 DEF u, recv
<1> HIDE DEF u
<1>4. (\A i \in 1 .. Len(new) : new[i].dst # d) /\ HasRoute(t, d)
        => First(u, d) = First(t, d)
  BY <1>2 DEF Settled
<1> QED BY <1>3, <1>4 DEF u

LEMMA TypeFollowsRule == TypeOK => MergeFollowsRule
<1> SUFFICES ASSUME r_table \in RouteTable, NEW m \in Neighbour,
                    NEW new \in Announced(m), NEW d \in Node
    PROVE LET u == compare_routing_tables(r_table, new, m)
          IN  /\ HasRoute(r_table, d) /\ Costs(new, d) = {} =>
                   First(u, d) = First(r_table, d)
              /\ \A recv \in Costs(new, d) :
                   Once(new, d) /\ HasRoute(r_table, d) =>
                     LET known == First(r_table, d)
                     IN  \/ known.next_hop = m /\ known.cost = recv
                         \/ First(u, d) = Better(known, recv, m)
              /\ \A recv \in Costs(new, d) \ {ROUTING_COST_INFINITY} :
                   Once(new, d) /\ ~HasRoute(r_table, d) =>
                     IF HasRoute(u, d)
                     THEN First(u, d) = [dst |-> d, next_hop |-> m, cost |-> recv + 1]
                     ELSE Len(u) = MAX_ROUTES - 1
  BY DEF TypeOK, MergeFollowsRule
<1> DEFINE u == compare_routing_tables(r_table, new, m)
           all == Costs(new, d)
<1>1. new \in Seq(Route) /\ m \in Node /\ DOMAIN new = 1 .. Len(new)
  BY AnnouncedType, NeighbourAssumption
<1>2. /\ HasRoute(r_table, d) /\ (\A i \in 1 .. Len(new) : new[i].dst # d)
           => First(u, d) = First(r_table, d)
      /\ \A a \in 1 .. Len(new) : new[a].dst = d /\ Once(new, d) =>
           Settled(r_table, u, d, new[a].cost, m, TRUE)
  BY <1>1, RuleHolds
<1> HIDE DEF u
<1>3. HasRoute(r_table, d) /\ all = {} => First(u, d) = First(r_table, d)
  BY <1>1, <1>2 DEF Costs
<1>4. ASSUME NEW recv \in all, Once(new, d)
      PROVE  Settled(r_table, u, d, recv, m, TRUE)
  BY <1>1, <1>2, <1>4 DEF Costs
<1> HIDE DEF all
<1>5. ASSUME NEW recv \in all, Once(new, d), HasRoute(r_table, d)
      PROVE  First(u, d) = Merged(First(r_table, d), recv, m)
  BY <1>4, <1>5 DEF Settled
<1>6. ASSUME NEW recv \in all \ {ROUTING_COST_INFINITY},
             Once(new, d), ~ HasRoute(r_table, d)
      PROVE  IF HasRoute(u, d)
             THEN First(u, d) = [dst |-> d, next_hop |-> m, cost |-> recv + 1]
             ELSE Len(u) = MAX_ROUTES - 1
  BY <1>4, <1>6 DEF Settled, Learned
<1> QED BY <1>3, <1>5, <1>6 DEF Merged, u, all

-----------------------------------------------------------------------------
(* The repeated UPDATE. *)

\* A route that the loop has settled is not changed by the same announcement.
LEMMA SettledStays ==
  ASSUME NEW t \in RouteTable, NEW u \in RouteTable, NEW r \in Route, NEW m \in Node,
         Settled(t, u, r.dst, r.cost, m, TRUE),
         r.cost = ROUTING_COST_INFINITY => HasRoute(t, r.dst)
  PROVE  MergeRoute(u, r, m) = u
<1> DEFINE d == r.dst
           recv == r.cost
           j == routing_table_get_route_by_dst(u, d)
<1>1. u \in Seq(Route) /\ recv \in Nat /\ recv <= ROUTING_COST_INFINITY
      /\ ROUTING_COST_INFINITY \in Nat
  BY RouteParts DEF RouteTable
<1>2. CASE ~ HasRoute(u, d)
  <2>1. Len(u) = MAX_ROUTES - 1
    BY <1>2 DEF Settled
  <2> QED BY <1>2, <2>1 DEF MergeRoute, routing_table_add_entry
<1>3. CASE HasRoute(u, d)
  <2> DEFINE now == First(u, d)
  <2>1. j \in 1 .. Len(u) /\ u[j] = now /\ now \in Route
    BY <1>1, <1>3, FirstRoute, FirstType DEF First
  <2>2. now.cost \in Nat /\ now.cost <= ROUTING_COST_INFINITY
        /\ now = [dst |-> now.dst, next_hop |-> now.next_hop, cost |-> now.cost]
    BY <2>1, RouteParts
  <2>3. /\ now.next_hop = m /\ now.cost # recv => now.cost = CostThrough(recv)
        /\ ~ (now.cost > recv + 1)
    <3>1. CASE HasRoute(t, d)
      <4> DEFINE known == First(t, d)
      <4>1. now = Merged(known, recv, m)
        BY <1>3, <3>1 DEF Settled
      <4>2. known.cost \in Nat /\ known.cost <= ROUTING_COST_INFINITY
        BY <3>1, FirstType, RouteParts
      <4> HIDE DEF now, known, recv
      <4>3. \/ now = known /\ known.cost = recv
            \/ now.next_hop = m /\ now.cost = CostThrough(recv)
            \/ now = known /\ known.next_hop # m /\ ~ (CostThrough(recv) < known.cost)
        BY <4>1 DEF Merged, Better
      <4>4. CostThrough(recv) \in Nat /\ CostThrough(recv) <= recv + 1
        BY <1>1 DEF CostThrough
      <4> QED BY <1>1, <4>2, <4>3, <4>4
    <3>2. CASE ~ HasRoute(t, d)
      <4>1. now = Learned(d, recv, m) /\ recv # ROUTING_COST_INFINITY
        BY <1>3, <3>2 DEF Settled
      <4>2. now.cost = recv + 1 /\ CostThrough(recv) = recv + 1
        BY <4>1 DEF Learned, CostThrough
      <4> HIDE DEF now, recv
      <4> QED BY <1>1, <4>2
    <3> QED BY <3>1, <3>2
  <2>4. MergeRoute(u, r, m) =
          IF now.next_hop = m /\ now.cost # recv
          THEN [u EXCEPT ![j].cost = CostThrough(recv)] ELSE u
    BY <1>3, <2>1, <2>3 DEF MergeRoute
  <2> HIDE DEF now, j, recv
  <2>5. ASSUME now.next_hop = m, now.cost # recv
        PROVE  [u EXCEPT ![j].cost = CostThrough(recv)] = u
    <3> DEFINE x == [u[j] EXCEPT !.cost = CostThrough(recv)]
    <3>1. x = u[j]
      BY <2>1, <2>2, <2>3, <2>5
    <3>2. [u EXCEPT ![j].cost = CostThrough(recv)] = [u EXCEPT ![j] = x]
      OBVIOUS
    <3> HIDE DEF x
    <3> QED BY <1>1, <2>1, <3>1, <3>2
  <2> QED BY <2>4, <2>5 DEF recv
<1> QED BY <1>2, <1>3

LEMMA TypeIdempotent == TypeOK => MergeIsIdempotent
<1> SUFFICES ASSUME r_table \in RouteTable, NEW m \in Neighbour,
                    NEW new \in Announced(m),
                    \A i \in DOMAIN new :
                      /\ Once(new, new[i].dst)
                      /\ new[i].cost = ROUTING_COST_INFINITY
                           => HasRoute(r_table, new[i].dst)
    PROVE LET u == compare_routing_tables(r_table, new, m)
          IN  compare_routing_tables(u, new, m) = u
  BY DEF TypeOK, MergeIsIdempotent
<1> DEFINE u == compare_routing_tables(r_table, new, m)
<1>1. new \in Seq(Route) /\ m \in Node /\ DOMAIN new = 1 .. Len(new)
  BY AnnouncedType, NeighbourAssumption
<1>2. u \in RouteTable
  BY <1>1, CompareType
<1>3. ASSUME NEW i \in 1 .. Len(new) PROVE MergeRoute(u, new[i], m) = u
  <2> DEFINE r == new[i]
  <2>1. r \in Route
    BY <1>1
  <2>2. Settled(r_table, u, r.dst, r.cost, m, TRUE)
    BY <1>1, RuleHolds
  <2>3. r.cost = ROUTING_COST_INFINITY => HasRoute(r_table, r.dst)
    BY <1>1
  <2> HIDE DEF u, r
  <2>4. MergeRoute(u, r, m) = u
    BY <1>1, <1>2, <2>1, <2>2, <2>3, SettledStays
  <2> QED BY <2>4 DEF r
<1> HIDE DEF u
<1>4. \A v \in RouteTable \cap {u} : \A i \in 1 .. Len(new) :
        MergeRoute(v, new[i], m) \in {u}
  BY <1>3
<1> DEFINE S == {u}
<1>5. u \in S /\ \A v \in RouteTable \cap S : \A i \in 1 .. Len(new) :
        MergeRoute(v, new[i], m) \in S
  BY <1>4
<1> HIDE DEF S
<1>6. compare_routing_tables(u, new, m) \in S
  BY <1>1, <1>2, <1>5, MergeInduction
<1> QED BY <1>6 DEF S, u

-----------------------------------------------------------------------------

\* Whatever HELLOs, silent neighbours and UPDATEs come in whatever order, with
\* whatever tables, a daemon's route table stays a table, within its array.
THEOREM MergedTablesTyped == Spec => []TypeOK
<1>1. Init => TypeOK
  <2>1. <<>> \in RouteTable
    BY MaxRoutesAssumption DEF RouteTable
  <2> QED BY <2>1 DEF Init, TypeOK
<1>2. TypeOK /\ [Next]_r_table => TypeOK'
  <2> SUFFICES ASSUME r_table \in RouteTable, NEW m \in Neighbour,
                      \/ HelloFromNew(m) \/ HelloFromLost(m) \/ LoseNeighbour(m)
                      \/ \E new \in Announced(m) : ReceiveUpdate(m, new)
      PROVE  r_table' \in RouteTable
    BY DEF TypeOK, Next
  <2>1. m \in Node
    BY NeighbourAssumption
  <2>2. CASE HelloFromNew(m)
    BY <2>1, <2>2, AddEntryEffect DEF HelloFromNew
  <2>3. CASE HelloFromLost(m)
    BY <2>1, <2>3, RestoredEffect DEF HelloFromLost
  <2>4. CASE LoseNeighbour(m)
    BY <2>4, PoisonEffect DEF LoseNeighbour
  <2>5. CASE \E new \in Announced(m) : ReceiveUpdate(m, new)
    BY <2>1, <2>5, AnnouncedType, CompareType DEF ReceiveUpdate
  <2> QED BY <2>2, <2>3, <2>4, <2>5
<1> QED BY <1>1, <1>2, PTL DEF Spec

\* The loop of compare_routing_tables, for tables and UPDATEs of any size, costs
\* of any width and destinations in any order, gives every destination that is
\* announced once the route of the distance vector rule, except where it is
\* announced with the cost held or, unknown, as unreachable.
THEOREM MergeIsByTheRule == Spec => []MergeFollowsRule
BY MergedTablesTyped, TypeFollowsRule, PTL

\* The UPDATE that a neighbour repeats changes nothing, whatever its size: the
\* loop settles in one pass, also when the table has no room for all of it.
THEOREM RepeatChangesNothing == Spec => []MergeIsIdempotent
BY MergedTablesTyped, TypeIdempotent, PTL

=============================================================================
