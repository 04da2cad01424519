-------------------------- MODULE RoutingTableProof -------------------------
(***************************************************************************)
(* What the operations on a route table preserve, for tables of any size,   *)
(* proved by TLAPS.  The two loops, of send_update_message and              *)
(* compare_routing_tables, are recursive functions over 0 .. n; as the      *)
(* provers cannot use an induction theorem that takes a predicate, what     *)
(* holds of every turn is proved with sets in the predicate's place.        *)
(***************************************************************************)
EXTENDS RoutingTable, SequenceTheorems, WellFoundedInduction, TLAPS

(* Induction over the turns of a loop. *)

\* A set of naturals that is not empty has a least element.
LEMMA LeastNatural ==
  ASSUME NEW T, T \subseteq Nat, T # {}
  PROVE  \E m \in T : \A k \in T : m <= k
<1>1. PICK m \in T : \A k \in T : ~ (<<k, m>> \in OpToRel(<, Nat))
  BY NatLessThanWellFounded, WFMin
<1>2. ASSUME NEW k \in T PROVE m <= k
  <2>1. m \in Nat /\ k \in Nat
    OBVIOUS
  <2>2. ~ (k < m)
    BY <1>1, <2>1 DEF OpToRel
  <2> QED BY <2>1, <2>2
<1> QED BY <1>2

\* Induction up to n, with the set P in the place of a predicate.
LEMMA TurnInduction ==
  ASSUME NEW n \in Nat, NEW P,
         0 \in P, \A i \in 1 .. n : i - 1 \in P => i \in P
  PROVE  \A i \in 0 .. n : i \in P
<1> SUFFICES ASSUME NEW j \in 0 .. n, j \notin P PROVE FALSE
  OBVIOUS
<1> DEFINE T == {i \in 0 .. n : i \notin P}
<1>1. T \subseteq Nat /\ T # {}
  OBVIOUS
<1> HIDE DEF T
<1>2. PICK m \in T : \A k \in T : m <= k
  BY <1>1, LeastNatural
<1>3. m \in 1 .. n /\ m \notin P
  BY <1>2 DEF T
<1>4. m - 1 \in P
  <2>1. m - 1 \in 0 .. n
    BY <1>3
  <2>2. m - 1 \notin T
    BY <1>1, <1>2, <1>3, <2>1
  <2> QED BY <2>1, <2>2 DEF T
<1> QED BY <1>3, <1>4

\* f is the states in S of a loop of n turns, turn i of which takes s to
\* step[<<s, i>>].
LoopStates(f, S, first, n, step) ==
  /\ f \in [0 .. n -> S]
  /\ f[0] = first
  /\ \A i \in 1 .. n : f[i] = step[<<f[i - 1], i>>]

\* Every loop has its states.
LEMMA LoopRuns ==
  ASSUME NEW S, NEW first, first \in S, NEW n, n \in Nat,
         NEW step, step \in [S \X (1 .. n) -> S]
  PROVE  \E f : LoopStates(f, S, first, n, step)
<1> DEFINE Runs(k, f) == /\ f \in [0 .. k -> S]
                         /\ f[0] = first
                         /\ \A i \in 1 .. k : f[i] = step[<<f[i - 1], i>>]
           P == {k \in 0 .. n : \E f : Runs(k, f)}
<1>1. 0 \in P
  <2>1. Runs(0, [i \in 0 .. 0 |-> first])
    OBVIOUS
  <2>2. \E f : Runs(0, f)
    BY <2>1
  <2> QED BY <2>2
<1>2. ASSUME NEW i \in 1 .. n, i - 1 \in P PROVE i \in P
  <2>1. PICK f : Runs(i - 1, f)
    BY <1>2
  <2> DEFINE g == [k \in 0 .. i |-> IF k = i THEN step[<<f[i - 1], i>>] ELSE f[k]]
  <2>2. i - 1 \in 0 .. i - 1 /\ f[i - 1] \in S
    BY <2>1
  <2>3. step[<<f[i - 1], i>>] \in S
    BY <2>2
  <2>4. g \in [0 .. i -> S]
    BY <2>1, <2>3
  <2>5. g[0] = first
    BY <2>1
  <2>6. ASSUME NEW k \in 1 .. i PROVE g[k] = step[<<g[k - 1], k>>]
    <3>1. CASE k = i
      <4>1. i - 1 \in 0 .. i /\ i \in 0 .. i /\ i - 1 # i
        OBVIOUS
      <4>2. g[i] = step[<<f[i - 1], i>>] /\ g[i - 1] = f[i - 1]
        BY <4>1
      <4> QED BY <3>1, <4>2
    <3>2. CASE k # i
      <4>1. k \in 1 .. i - 1 /\ k - 1 \in 0 .. i /\ k - 1 # i
        BY <3>2
      <4> QED BY <2>1, <3>2, <4>1
    <3> QED BY <3>1, <3>2
  <2>7. Runs(i, g)
    BY <2>4, <2>5, <2>6
  <2> HIDE DEF g
  <2> QED BY <2>7
<1> HIDE DEF P
<1>3. n \in P
  BY <1>1, <1>2, TurnInduction
<1> QED BY <1>3 DEF P, LoopStates

-----------------------------------------------------------------------------
(* Lookup and the operations on one route. *)

\* A lookup that finds a route returns the index of a route to dst.
LEMMA FirstRoute ==
  ASSUME NEW t \in Seq(Route), NEW dst, HasRoute(t, dst)
  PROVE  /\ routing_table_get_route_by_dst(t, dst) \in 1 .. Len(t)
         /\ t[routing_table_get_route_by_dst(t, dst)].dst = dst
<1> DEFINE Found == {i \in 1 .. Len(t) : t[i].dst = dst}
<1>1. Found \subseteq Nat /\ Found # {}
  BY DEF HasRoute
<1> HIDE DEF Found
<1>2. PICK i \in Found : \A k \in Found : i <= k
  BY <1>1, LeastNatural
<1>3. /\ i \in DOMAIN t
      /\ t[i].dst = dst
      /\ \A j \in 1 .. i - 1 : t[j].dst # dst
  BY <1>2 DEF Found
<1> QED BY <1>3 DEF routing_table_get_route_by_dst

\* What is stored of a natural number is a cost.
LEMMA TruncateType ==
  ASSUME NEW c \in Nat
  PROVE  Truncate(c) \in Cost
BY InfinityAssumption DEF Truncate, Cost

\* A route is appended, or the table is full and stays as it is.
LEMMA AddEntryEffect ==
  ASSUME NEW t \in RouteTable, NEW dst \in Node, NEW hop \in Node, NEW c \in Nat
  PROVE  LET u == routing_table_add_entry(t, dst, hop, c)
         IN  /\ u \in RouteTable
             /\ \/ u = t /\ Len(t) = MAX_ROUTES - 1
                \/ u = Append(t, [dst |-> dst, next_hop |-> hop,
                                  cost |-> Truncate(c)])
<1> DEFINE r == [dst |-> dst, next_hop |-> hop, cost |-> Truncate(c)]
<1>1. r \in Route
  BY TruncateType DEF Route
<1>2. t \in Seq(Route) /\ Len(t) \in Nat /\ Len(t) < MAX_ROUTES
  BY DEF RouteTable
<1> HIDE DEF r
<1>3. Append(t, r) \in Seq(Route) /\ Len(Append(t, r)) = Len(t) + 1
  BY <1>1, <1>2
<1>4. Len(t) # MAX_ROUTES - 1 => Len(t) + 1 < MAX_ROUTES
  BY <1>2, MaxRoutesAssumption
<1> QED BY <1>2, <1>3, <1>4 DEF routing_table_add_entry, RouteTable, r

\* Poisoning changes costs only.
LEMMA PoisonEffect ==
  ASSUME NEW t \in RouteTable, NEW lost
  PROVE  LET u == poison_reverse(t, lost)
         IN  /\ u \in RouteTable
             /\ Len(u) = Len(t)
             /\ \A i \in 1 .. Len(t) : /\ u[i].dst = t[i].dst
                                       /\ u[i].next_hop = t[i].next_hop
<1> DEFINE u == poison_reverse(t, lost)
<1>1. t \in Seq(Route) /\ Len(t) \in Nat /\ Len(t) < MAX_ROUTES
  BY DEF RouteTable
<1>2. ROUTING_COST_INFINITY \in Cost
  BY InfinityAssumption DEF Cost
<1>3. \A i \in 1 .. Len(t) : t[i] \in Route
  BY <1>1
<1>4. \A i \in 1 .. Len(t) : /\ u[i] \in Route
                             /\ u[i].dst = t[i].dst
                             /\ u[i].next_hop = t[i].next_hop
  BY <1>1, <1>2, <1>3 DEF poison_reverse, Route
<1>5. u = [i \in 1 .. Len(t) |-> u[i]]
  BY <1>1 DEF poison_reverse
<1>6. u \in Seq(Route) /\ Len(u) = Len(t)
  BY <1>1, <1>4, <1>5
<1> QED BY <1>1, <1>4, <1>6 DEF RouteTable

\* Setting the first route to m back to the direct one changes no destination,
\* and no other next hop.
LEMMA RestoredEffect ==
  ASSUME NEW t \in RouteTable, NEW m \in Node, HasRoute(t, m)
  PROVE  LET u == Restored(t, m)
         IN  /\ u \in RouteTable
             /\ Len(u) = Len(t)
             /\ \A i \in 1 .. Len(t) : /\ u[i].dst = t[i].dst
                                       /\ \/ u[i].next_hop = t[i].next_hop
                                          \/ u[i].next_hop = m /\ u[i].dst = m
<1> DEFINE j == routing_table_get_route_by_dst(t, m)
           r == [dst |-> m, next_hop |-> m, cost |-> 1]
           u == Restored(t, m)
<1>1. t \in Seq(Route) /\ Len(t) \in Nat /\ Len(t) < MAX_ROUTES
  BY DEF RouteTable
<1>2. r \in Route
  BY InfinityAssumption DEF Route, Cost
<1>3. j \in 1 .. Len(t) /\ t[j].dst = m
  BY <1>1, FirstRoute
<1>4. r.dst = m /\ r.next_hop = m
  OBVIOUS
<1>5. u = [t EXCEPT ![j] = r]
  BY DEF Restored
<1> HIDE DEF u, r, j
<1>6. u \in Seq(Route) /\ Len(u) = Len(t)
  BY <1>1, <1>2, <1>3, <1>5, ExceptSeq
<1>7. \A i \in 1 .. Len(t) : u[i] = IF i = j THEN r ELSE t[i]
  BY <1>1, <1>2, <1>3, <1>5, ExceptSeq
<1> QED BY <1>1, <1>3, <1>4, <1>6, <1>7 DEF RouteTable, u

\* Merging a route changes no destination.  It may hand the routes to r's
\* destination over to the sender of r, and appends at most one route, to a
\* destination the table had none for.
LEMMA MergeRouteEffect ==
  ASSUME NEW t \in RouteTable, NEW r \in Route, NEW m \in Node
  PROVE  LET u == MergeRoute(t, r, m)
         IN  /\ u \in RouteTable
             /\ \A i \in 1 .. Len(t) :
                  /\ u[i].dst = t[i].dst
                  /\ \/ u[i].next_hop = t[i].next_hop
                     \/ u[i].next_hop = m /\ t[i].dst = r.dst
             /\ \/ Len(u) = Len(t)
                \/ /\ Len(u) = Len(t) + 1
                   /\ ~ HasRoute(t, r.dst)
                   /\ u[Len(u)].dst = r.dst
                   /\ u[Len(u)].next_hop = m
<1> DEFINE u == MergeRoute(t, r, m)
           j == routing_table_get_route_by_dst(t, r.dst)
<1>1. t \in Seq(Route) /\ Len(t) \in Nat /\ Len(t) < MAX_ROUTES
  BY DEF RouteTable
<1>2. /\ r.dst \in Node
      /\ r.cost \in Nat /\ r.cost <= ROUTING_COST_INFINITY /\ r.cost + 1 \in Nat
      /\ ROUTING_COST_INFINITY \in Nat
  BY InfinityAssumption DEF Route, Cost
<1>3. CASE ~ HasRoute(t, r.dst)
  <2>1. u = routing_table_add_entry(t, r.dst, m, r.cost + 1)
    BY <1>3 DEF MergeRoute
  <2>2. \/ u = t
        \/ u = Append(t, [dst |-> r.dst, next_hop |-> m,
                          cost |-> Truncate(r.cost + 1)])
    BY <1>2, <2>1, AddEntryEffect
  <2>3. u \in RouteTable
    BY <1>2, <2>1, AddEntryEffect
  <2> HIDE DEF u
  <2>4. Len(u) = Len(t) \/ Len(u) = Len(t) + 1
    BY <1>1, <2>2
  <2>5. \A i \in 1 .. Len(t) : u[i] = t[i]
    BY <1>1, <2>2
  <2>6. Len(u) = Len(t) + 1 => /\ u[Len(u)].dst = r.dst
                               /\ u[Len(u)].next_hop = m
    BY <1>1, <2>2
  <2> QED BY <1>3, <2>3, <2>4, <2>5, <2>6 DEF u
<1>4. CASE HasRoute(t, r.dst)
  <2>1. j \in 1 .. Len(t) /\ t[j].dst = r.dst
    BY <1>1, <1>4, FirstRoute
  <2>2. \/ u = [t EXCEPT ![j].cost = CostThrough(r.cost)]
        \/ u = [t EXCEPT ![j].next_hop = m, ![j].cost = Truncate(r.cost + 1)]
        \/ u = t
    BY <1>4 DEF MergeRoute
  <2>3. CostThrough(r.cost) \in Cost /\ Truncate(r.cost + 1) \in Cost
    BY <1>2, TruncateType DEF CostThrough, Cost
  <2> HIDE DEF u, j
  <2>4. t[j] \in Route
    BY <1>1, <2>1
  <2>5. PICK x \in Route : /\ u = [t EXCEPT ![j] = x]
                           /\ x.dst = t[j].dst
                           /\ x.next_hop = t[j].next_hop \/ x.next_hop = m
    <3>1. CASE u = [t EXCEPT ![j].cost = CostThrough(r.cost)]
      <4> DEFINE x == [t[j] EXCEPT !.cost = CostThrough(r.cost)]
      <4>1. x \in Route /\ x.dst = t[j].dst /\ x.next_hop = t[j].next_hop
        BY <2>3, <2>4 DEF Route
      <4>2. u = [t EXCEPT ![j] = x]
        BY <3>1
      <4> QED BY <4>1, <4>2
    <3>2. CASE u = [t EXCEPT ![j].next_hop = m, ![j].cost = Truncate(r.cost + 1)]
      <4> DEFINE x == [t[j] EXCEPT !.next_hop = m, !.cost = Truncate(r.cost + 1)]
      <4>1. x \in Route /\ x.dst = t[j].dst /\ x.next_hop = m
        BY <2>3, <2>4 DEF Route
      <4>2. u = [t EXCEPT ![j] = x]
        BY <1>1, <2>1, <3>2
      <4> QED BY <4>1, <4>2
    <3>3. CASE u = t
      BY <1>1, <2>1, <2>4, <3>3
    <3> QED BY <2>2, <3>1, <3>2, <3>3
  <2>6. u \in Seq(Route) /\ Len(u) = Len(t)
    BY <1>1, <2>1, <2>5, ExceptSeq
  <2>7. \A i \in 1 .. Len(t) :
          /\ u[i].dst = t[i].dst
          /\ \/ u[i].next_hop = t[i].next_hop
             \/ u[i].next_hop = m /\ t[i].dst = r.dst
    <3>1. \A i \in 1 .. Len(t) : i # j => u[i] = t[i]
      BY <1>1, <2>1, <2>5, ExceptSeq
    <3>2. u[j] = x
      BY <1>1, <2>1, <2>5, ExceptSeq
    <3> QED BY <2>1, <2>5, <3>1, <3>2
  <2> QED BY <1>1, <2>6, <2>7 DEF RouteTable, u
<1> QED BY <1>3, <1>4

-----------------------------------------------------------------------------
(* The loop of compare_routing_tables. *)

\* The loop's turns satisfy the equations that define them.
LEMMA MergeStepsDef ==
  ASSUME NEW t \in RouteTable, NEW new \in Seq(Route), NEW m \in Node
  PROVE  LET f == MergeSteps(t, new, m)
         IN  /\ f[0] = t
             /\ \A i \in 1 .. Len(new) : f[i] = MergeRoute(f[i - 1], new[i], m)
<1> DEFINE n == Len(new)
           step == [x \in RouteTable \X (1 .. n) |-> MergeRoute(x[1], new[x[2]], m)]
           Turns(f) == f = [i \in 0 .. n |->
                              IF i = 0 THEN t ELSE MergeRoute(f[i - 1], new[i], m)]
<1>1. n \in Nat /\ \A i \in 1 .. n : new[i] \in Route
  OBVIOUS
<1>2. \A u \in RouteTable, i \in 1 .. n : MergeRoute(u, new[i], m) \in RouteTable
  BY <1>1, MergeRouteEffect
<1> HIDE DEF n
<1>3. step \in [RouteTable \X (1 .. n) -> RouteTable]
  BY <1>2
<1>4. PICK g : LoopStates(g, RouteTable, t, n, step)
  <2> HIDE DEF step
  <2>1. n \in Nat /\ t \in RouteTable
    BY <1>1
  <2> QED BY <1>3, <2>1, LoopRuns
<1>5. \A i \in 1 .. n : g[i] = MergeRoute(g[i - 1], new[i], m)
  <2> SUFFICES ASSUME NEW i \in 1 .. n PROVE g[i] = MergeRoute(g[i - 1], new[i], m)
    OBVIOUS
  <2>1. i - 1 \in 0 .. n
    BY <1>1
  <2>2. <<g[i - 1], i>> \in RouteTable \X (1 .. n)
    BY <1>4, <2>1 DEF LoopStates
  <2> QED BY <1>4, <2>2 DEF LoopStates
<1>6. Turns(g)
  <2>1. g = [i \in 0 .. n |-> g[i]]
    BY <1>4 DEF LoopStates
  <2>2. \A i \in 0 .. n : g[i] = IF i = 0 THEN t ELSE MergeRoute(g[i - 1], new[i], m)
    BY <1>1, <1>4, <1>5 DEF LoopStates
  <2> QED BY <2>1, <2>2
<1>7. MergeSteps(t, new, m) = CHOOSE f : Turns(f)
  BY DEF MergeSteps, n
<1> HIDE DEF Turns
<1>8. Turns(MergeSteps(t, new, m))
  BY <1>6, <1>7
<1> QED BY <1>1, <1>8 DEF Turns, n

\* What holds of the table and is kept by every turn holds of the result.
LEMMA MergeInduction ==
  ASSUME NEW t \in RouteTable, NEW new \in Seq(Route), NEW m \in Node,
         NEW S, t \in S,
         \A u \in RouteTable \cap S : \A i \in 1 .. Len(new) :
           MergeRoute(u, new[i], m) \in S
  PROVE  compare_routing_tables(t, new, m) \in RouteTable \cap S
<1> DEFINE f == MergeSteps(t, new, m)
           n == Len(new)
           P == {i \in 0 .. n : f[i] \in RouteTable \cap S}
<1>1. n \in Nat /\ \A i \in 1 .. n : new[i] \in Route
  OBVIOUS
<1>2. /\ f[0] = t
      /\ \A i \in 1 .. n : f[i] = MergeRoute(f[i - 1], new[i], m)
  BY MergeStepsDef
<1>3. \A u \in RouteTable \cap S : \A i \in 1 .. n :
        MergeRoute(u, new[i], m) \in RouteTable \cap S
  BY <1>1, MergeRouteEffect
<1> HIDE DEF f, n
<1>4. 0 \in P
  BY <1>1, <1>2
<1>5. ASSUME NEW i \in 1 .. n, i - 1 \in P PROVE i \in P
  <2>1. f[i - 1] \in RouteTable \cap S /\ i \in 0 .. n
    BY <1>1, <1>5
  <2> QED BY <1>2, <1>3, <2>1
<1> HIDE DEF P
<1>6. \A i \in 0 .. n : i \in P
  BY <1>1, <1>4, <1>5, TurnInduction
<1>7. n \in P
  BY <1>1, <1>6
<1> QED BY <1>7 DEF P, f, n, compare_routing_tables

\* Merging yields a table.
LEMMA CompareType ==
  ASSUME NEW t \in RouteTable, NEW new \in Seq(Route), NEW m \in Node
  PROVE  compare_routing_tables(t, new, m) \in RouteTable
<1>1. \A u \in RouteTable : \A i \in 1 .. Len(new) :
        MergeRoute(u, new[i], m) \in RouteTable
  BY MergeRouteEffect
<1> QED BY <1>1, MergeInduction

-----------------------------------------------------------------------------
(* The loop of send_update_message. *)

\* What an UPDATE carries are routes of the table that split horizon admits,
\* and no more of them than the table has.
LEMMA SplitHorizonEffect ==
  ASSUME NEW t \in RouteTable, NEW m
  PROVE  LET u == SplitHorizon(t, m)
         IN  /\ u \in RouteTable
             /\ \A i \in 1 .. Len(u) :
                  Advertised(u[i], m) /\ \E j \in 1 .. Len(t) : u[i] = t[j]
<1> DEFINE n == Len(t)
           Sent == {r \in Route : Advertised(r, m) /\ \E j \in 1 .. n : r = t[j]}
           Partial == Seq(Sent)
           Turn(u, i) == IF Advertised(t[i], m) THEN Append(u, t[i]) ELSE u
           step == [x \in Partial \X (1 .. n) |-> Turn(x[1], x[2])]
           Turns(f) == f = [i \in 0 .. n |-> IF i = 0 THEN <<>> ELSE Turn(f[i - 1], i)]
           kept == SplitHorizonSteps(t, m)
           P == {i \in 0 .. n : kept[i] \in Partial /\ Len(kept[i]) <= i}
<1>1. n \in Nat /\ n < MAX_ROUTES /\ \A i \in 1 .. n : t[i] \in Route
  BY DEF RouteTable
<1>2. \A i \in 1 .. n : Advertised(t[i], m) => t[i] \in Sent
  BY <1>1
<1> HIDE DEF n, Sent
<1>3. \A u \in Partial, i \in 1 .. n :
        Turn(u, i) \in Partial /\ Len(Turn(u, i)) <= Len(u) + 1
  BY <1>2
<1>4. <<>> \in Partial /\ Len(<<>>) = 0 /\ \A u \in Partial : Len(u) \in Nat
  OBVIOUS
<1> HIDE DEF Turn, Partial
<1>5. step \in [Partial \X (1 .. n) -> Partial]
  BY <1>3
<1>6. PICK g : LoopStates(g, Partial, <<>>, n, step)
  <2> HIDE DEF step
  <2>1. n \in Nat /\ <<>> \in Partial
    BY <1>1, <1>4
  <2> QED BY <1>5, <2>1, LoopRuns
<1>7. Turns(g)
  <2>1. ASSUME NEW i \in 1 .. n PROVE g[i] = Turn(g[i - 1], i)
    <3>1. i - 1 \in 0 .. n
      BY <1>1
    <3>2. <<g[i - 1], i>> \in Partial \X (1 .. n)
      BY <1>6, <3>1 DEF LoopStates
    <3> QED BY <1>6, <3>2 DEF LoopStates
  <2>2. g = [i \in 0 .. n |-> g[i]]
    BY <1>6 DEF LoopStates
  <2>3. \A i \in 0 .. n : g[i] = IF i = 0 THEN <<>> ELSE Turn(g[i - 1], i)
    BY <1>1, <1>6, <2>1 DEF LoopStates
  <2> QED BY <2>2, <2>3
<1>8. kept = CHOOSE f : Turns(f)
  BY DEF SplitHorizonSteps, n, Turn
<1> HIDE DEF Turns, kept
<1>9. Turns(kept)
  BY <1>7, <1>8
<1>10. kept[0] = <<>> /\ \A i \in 1 .. n : kept[i] = Turn(kept[i - 1], i)
  BY <1>1, <1>9 DEF Turns
<1>11. 0 \in P
  BY <1>1, <1>4, <1>10
<1>12. ASSUME NEW i \in 1 .. n, i - 1 \in P PROVE i \in P
  <2>1. kept[i - 1] \in Partial /\ Len(kept[i - 1]) <= i - 1
    BY <1>12
  <2>2. kept[i] \in Partial /\ Len(kept[i]) <= Len(kept[i - 1]) + 1
    BY <1>3, <1>10, <2>1
  <2>3. Len(kept[i - 1]) \in Nat /\ Len(kept[i]) \in Nat
    BY <1>4, <2>1, <2>2
  <2> QED BY <1>1, <2>1, <2>2, <2>3
<1> HIDE DEF P
<1>13. n \in P
  <2>1. \A i \in 0 .. n : i \in P
    BY <1>1, <1>11, <1>12, TurnInduction
  <2> QED BY <1>1, <2>1
<1>14. kept[n] \in Seq(Sent) /\ Len(kept[n]) <= n
  BY <1>13 DEF P, Partial
<1>15. kept[n] \in Seq(Route)
  BY <1>14, SeqMonotonic DEF Sent
<1>16. kept[n] \in RouteTable
  <2>1. Len(kept[n]) \in Nat
    BY <1>15
  <2>2. Len(kept[n]) < MAX_ROUTES
    BY <1>1, <1>14, <2>1, MaxRoutesAssumption
  <2> QED BY <1>15, <2>2 DEF RouteTable
<1>17. \A i \in 1 .. Len(kept[n]) : kept[n][i] \in Sent
  BY <1>14
<1> QED BY <1>16, <1>17 DEF SplitHorizon, kept, n, Sent

=============================================================================
