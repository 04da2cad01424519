------------------------- MODULE RoutingNetworkProof ------------------------
(***************************************************************************)
(* Theorems about the routing daemons of every network: any hosts, links    *)
(* and table sizes that satisfy the assumptions, and any number of faults.  *)
(***************************************************************************)
EXTENDS RoutingNetwork, RoutingTableProof

-----------------------------------------------------------------------------
(* The neighbour table. *)

\* A lookup that finds a neighbour returns its index.
LEMMA FirstNeighbour ==
  ASSUME NEW t \in Seq(Neighbour), NEW m, HasNeighbour(t, m)
  PROVE  /\ find_neighbour_by_addr(t, m) \in 1 .. Len(t)
         /\ t[find_neighbour_by_addr(t, m)].mip_addr = m
<1> DEFINE Found == {i \in 1 .. Len(t) : t[i].mip_addr = m}
<1>1. Found \subseteq Nat /\ Found # {}
  BY DEF HasNeighbour
<1> HIDE DEF Found
<1>2. PICK i \in Found : \A k \in Found : i <= k
  BY <1>1, LeastNatural
<1>3. /\ i \in DOMAIN t
      /\ t[i].mip_addr = m
      /\ \A j \in 1 .. i - 1 : t[j].mip_addr # m
  BY <1>2 DEF Found
<1> QED BY <1>3 DEF find_neighbour_by_addr

\* An entry of the neighbour table is well typed, and keeps its address.
LEMMA EntryType ==
  ASSUME NEW m \in Node, NEW s \in NeighbourState, NEW k \in 0 .. MaxTicks
  PROVE  Entry(m, s, k) \in Neighbour /\ Entry(m, s, k).mip_addr = m
BY DEF Entry, Neighbour

LEMMA TicksInRange == 0 \in 0 .. MaxTicks
BY DisconnectionAssumption DEF MaxTicks

\* A neighbour is appended, or the table is full and stays as it is.
LEMMA AddNeighbourEffect ==
  ASSUME NEW t \in NeighbourTable, NEW m \in Node
  PROVE  LET u == neighbour_table_add_entry(t, m)
         IN  /\ u \in NeighbourTable
             /\ \/ u = t
                \/ u = Append(t, Entry(m, "INIT", 0))
<1> DEFINE nb == Entry(m, "INIT", 0)
<1>1. nb \in Neighbour
  BY TicksInRange, EntryType DEF NeighbourState
<1>2. t \in Seq(Neighbour) /\ Len(t) \in Nat /\ Len(t) < MAX_NEIGHBOURS
  BY DEF NeighbourTable
<1> HIDE DEF nb
<1>3. Append(t, nb) \in Seq(Neighbour) /\ Len(Append(t, nb)) = Len(t) + 1
  BY <1>1, <1>2
<1>4. Len(t) # MAX_NEIGHBOURS - 1 => Len(t) + 1 < MAX_NEIGHBOURS
  BY <1>2, MaxNeighboursAssumption
<1> QED BY <1>2, <1>3, <1>4 DEF neighbour_table_add_entry, NeighbourTable, nb

\* A HELLO of a known neighbour changes that neighbour's state and time only.
LEMMA HeardNeighbourEffect ==
  ASSUME NEW t \in NeighbourTable, NEW i \in 1 .. Len(t)
  PROVE  LET u == Heard(t, i)
         IN  /\ u \in NeighbourTable
             /\ Len(u) = Len(t)
             /\ \A j \in 1 .. Len(t) : u[j].mip_addr = t[j].mip_addr
<1> DEFINE u == Heard(t, i)
           x == Entry(t[i].mip_addr, "CONNECTED", 0)
<1>1. t \in Seq(Neighbour) /\ Len(t) \in Nat /\ Len(t) < MAX_NEIGHBOURS
  BY DEF NeighbourTable
<1>2. t[i] \in Neighbour
  BY <1>1
<1>3. x \in Neighbour /\ x.mip_addr = t[i].mip_addr
  BY <1>2, TicksInRange, EntryType DEF Neighbour, NeighbourState
<1>4. u = [t EXCEPT ![i] = x]
  BY DEF Heard
<1> HIDE DEF u, x
<1>5. u \in Seq(Neighbour) /\ Len(u) = Len(t)
  BY <1>1, <1>3, <1>4, ExceptSeq
<1>6. \A j \in 1 .. Len(t) : u[j] = IF j = i THEN x ELSE t[j]
  BY <1>1, <1>3, <1>4, ExceptSeq
<1> QED BY <1>1, <1>3, <1>5, <1>6 DEF NeighbourTable, u

\* A tick changes states and times only, and keeps the times in their range.
LEMMA AgedEffect ==
  ASSUME NEW t \in NeighbourTable, NEW lost, MustSilent(t) \subseteq lost
  PROVE  LET u == [i \in DOMAIN t |-> Aged(t[i], lost)]
         IN  /\ u \in NeighbourTable
             /\ Len(u) = Len(t)
             /\ \A i \in 1 .. Len(t) : u[i].mip_addr = t[i].mip_addr
<1> DEFINE u == [i \in DOMAIN t |-> Aged(t[i], lost)]
<1>1. t \in Seq(Neighbour) /\ Len(t) \in Nat /\ Len(t) < MAX_NEIGHBOURS
  BY DEF NeighbourTable
<1>2. ASSUME NEW i \in 1 .. Len(t)
      PROVE  Aged(t[i], lost) \in Neighbour /\ Aged(t[i], lost).mip_addr = t[i].mip_addr
  <2>1. t[i] \in Neighbour
    BY <1>1
  <2>2. CASE t[i].state = "DISCONNECTED"
    BY <2>1, <2>2 DEF Aged
  <2>3. CASE t[i].state # "DISCONNECTED" /\ t[i].mip_addr \in lost
    BY <2>1, <2>3, TicksInRange, EntryType DEF Aged, Neighbour, NeighbourState
  <2>4. CASE t[i].state # "DISCONNECTED" /\ t[i].mip_addr \notin lost
    <3>1. ~ (t[i].ticks + 1 >= DISCONNECTION_TICKS + 2)
      BY <1>1, <2>4 DEF MustSilent, Silent
    <3>2. t[i].ticks + 1 \in 0 .. MaxTicks
      BY <2>1, <3>1, DisconnectionAssumption DEF Neighbour, MaxTicks
    <3> QED BY <2>1, <2>4, <3>2, EntryType DEF Aged, Neighbour
  <2> QED BY <2>2, <2>3, <2>4
<1>3. u = [i \in 1 .. Len(t) |-> u[i]] /\ \A i \in 1 .. Len(t) : u[i] = Aged(t[i], lost)
  BY <1>1
<1> HIDE DEF u
<1>4. u \in Seq(Neighbour) /\ Len(u) = Len(t)
  BY <1>1, <1>2, <1>3
<1> QED BY <1>1, <1>2, <1>3, <1>4 DEF NeighbourTable, u

-----------------------------------------------------------------------------
(* Types. *)

LEMMA CountedType ==
  ASSUME NEW c \in UpdateCount
  PROVE  Counted(c) \subseteq UpdateCount /\ 0 \in UpdateCount
BY UpdateLimitAssumption DEF Counted, UpdateCount

\* What a tick sends are messages.
LEMMA SentType ==
  ASSUME TypeOK, NEW n \in Node, NEW m \in Node, NEW lost
  PROVE  Sent(n, m, lost) \in Seq(Message)
<1> DEFINE table == SplitHorizon(poison_reverse(r_table[n], lost), m)
<1>1. r_table[n] \in RouteTable
  BY DEF TypeOK, DaemonTypeOK
<1>2. table \in RouteTable
  BY <1>1, PoisonEffect, SplitHorizonEffect
<1>3. Hello \in Message
  BY DEF Message
<1> HIDE DEF table
<1>4. Update(table) \in Message
  BY <1>2 DEF Message, Update
<1>5. \/ Sent(n, m, lost) = <<Hello, Update(table)>>
      \/ Sent(n, m, lost) = <<Hello>>
  BY DEF Sent, table
<1>6. \A x, y \in Message : <<x, y>> \in Seq(Message) /\ <<x>> \in Seq(Message)
  OBVIOUS
<1> QED BY <1>3, <1>4, <1>5, <1>6

\* A daemon that stops leaves the types of its state as they are.
LEMMA StopDaemonType ==
  ASSUME TypeOK, NEW n \in Node, NEW how \in {"off", "exited"},
         StopDaemon(n, how)
  PROVE  DaemonTypeOK'
<1>1. <<>> \in NeighbourTable
  BY MaxNeighboursAssumption DEF NeighbourTable
<1>2. <<>> \in RouteTable
  BY MaxRoutesAssumption DEF RouteTable
<1>3. 0 \in UpdateCount
  BY UpdateLimitAssumption DEF UpdateCount
<1> QED BY <1>1, <1>2, <1>3 DEF TypeOK, DaemonTypeOK, StopDaemon

LEMMA HelloType ==
  ASSUME TypeOK, NEW n \in Node, NEW m \in Node, handle_hello_message(n, m)
  PROVE  DaemonTypeOK'
<1>1. n_table[n] \in NeighbourTable /\ n_table[n] \in Seq(Neighbour)
  BY DEF TypeOK, DaemonTypeOK, NeighbourTable
<1>2. r_table[n] \in RouteTable
  BY DEF TypeOK, DaemonTypeOK
<1>3. CASE HelloFromNew(n, m)
  <2>1. neighbour_table_add_entry(n_table[n], m) \in NeighbourTable
    BY <1>1, AddNeighbourEffect
  <2>2. routing_table_add_entry(r_table[n], m, m, 1) \in RouteTable
    BY <1>2, AddEntryEffect
  <2> QED BY <1>3, <2>1, <2>2 DEF HelloFromNew, TypeOK, DaemonTypeOK
<1>4. ASSUME HasNeighbour(n_table[n], m)
      PROVE  Heard(n_table[n], find_neighbour_by_addr(n_table[n], m)) \in NeighbourTable
  BY <1>1, <1>4, FirstNeighbour, HeardNeighbourEffect
<1>5. CASE HelloFromKnown(n, m)
  BY <1>4, <1>5 DEF HelloFromKnown, TypeOK, DaemonTypeOK
<1>6. CASE HelloFromLost(n, m)
  <2>1. CASE HasRoute(r_table[n], m)
    <3>1. Restored(r_table[n], m) \in RouteTable
      BY <1>2, <2>1, RestoredEffect
    <3> QED BY <1>4, <1>6, <2>1, <3>1 DEF HelloFromLost, TypeOK, DaemonTypeOK
  <2>2. CASE ~ HasRoute(r_table[n], m)
    BY <1>6, <2>2, StopDaemonType DEF HelloFromLost
  <2> QED BY <2>1, <2>2
<1> QED BY <1>3, <1>5, <1>6 DEF handle_hello_message

LEMMA UpdateType ==
  ASSUME TypeOK, NEW n \in Node, NEW m \in Node, NEW table \in RouteTable,
         handle_update_message(n, m, table)
  PROVE  DaemonTypeOK'
<1>1. compare_routing_tables(r_table[n], table, m) \in RouteTable
  BY CompareType DEF TypeOK, DaemonTypeOK, RouteTable
<1> QED BY <1>1 DEF handle_update_message, TypeOK, DaemonTypeOK

LEMMA TickType ==
  ASSUME TypeOK, NEW n \in Node, NEW lost, TickDaemon(n, lost)
  PROVE  DaemonTypeOK'
<1>1. n_table[n] \in NeighbourTable /\ r_table[n] \in RouteTable
  BY DEF TypeOK, DaemonTypeOK
<1>2. [i \in DOMAIN n_table[n] |-> Aged(n_table[n][i], lost)] \in NeighbourTable
  BY <1>1, AgedEffect DEF TickDaemon, check_neighbours
<1>3. poison_reverse(r_table[n], lost) \in RouteTable
  BY <1>1, PoisonEffect
<1>4. no_new_update_count' \in [Node -> UpdateCount]
  BY CountedType DEF TickDaemon, TypeOK, DaemonTypeOK
<1> QED BY <1>2, <1>3, <1>4 DEF TickDaemon, check_neighbours, TypeOK, DaemonTypeOK

\* Taking the first message off a channel, or clearing a host's channels.
LEMMA TakenType ==
  ASSUME TypeOK, NEW c \in Channel, chan[c] # <<>>, Taken(c[1], c[2])
  PROVE  chan' \in [Channel -> Seq(Message)]
<1>1. <<c[1], c[2]>> = c
  BY DEF Channel
<1>2. Tail(chan[c]) \in Seq(Message)
  BY DEF TypeOK
<1>3. <<>> \in Seq(Message)
  OBVIOUS
<1> QED BY <1>1, <1>2, <1>3 DEF Taken, Unread, TypeOK

LEMMA UnreadType ==
  ASSUME TypeOK, NEW n \in Node
  PROVE  Unread(n) \in [Channel -> Seq(Message)]
<1>1. <<>> \in Seq(Message)
  OBVIOUS
<1> QED BY <1>1 DEF Unread, TypeOK

\* The first message of a channel, and the table it carries.
LEMMA HeadType ==
  ASSUME TypeOK, NEW c \in Channel, chan[c] # <<>>
  PROVE  /\ Head(chan[c]) = chan[c][1]
         /\ 1 \in DOMAIN chan[c]
         /\ Head(chan[c]).type = "UPD" => Head(chan[c]).table \in RouteTable
<1>1. chan[c] \in Seq(Message)
  BY DEF TypeOK
<1>2. Head(chan[c]) = chan[c][1] /\ 1 \in DOMAIN chan[c] /\ Head(chan[c]) \in Message
  BY <1>1
<1>3. \A x \in Message : x.type = "UPD" => x.table \in RouteTable
  BY DEF Message, Hello
<1> QED BY <1>2, <1>3

LEMMA ChannelHosts ==
  /\ \A c \in Channel : /\ c[1] \in Node /\ c[2] \in Node
                        /\ c[1] \in Adjacent(c[2]) /\ c[2] \in Adjacent(c[1])
  /\ \A n \in Node : \A m \in Adjacent(n) :
       m \in Node /\ <<m, n>> \in Channel /\ <<n, m>> \in Channel
<1>1. \A m, n \in Node : {m, n} = {n, m}
  OBVIOUS
<1> QED BY <1>1 DEF Channel, Adjacent

LEMMA TypeOKInit == Init => TypeOK
<1> SUFFICES ASSUME Init PROVE TypeOK
  OBVIOUS
<1>1. <<>> \in NeighbourTable
  BY MaxNeighboursAssumption DEF NeighbourTable
<1>2. <<>> \in RouteTable
  BY MaxRoutesAssumption DEF RouteTable
<1>3. 0 \in UpdateCount
  BY UpdateLimitAssumption DEF UpdateCount
<1>4. <<>> \in Seq(Message)
  OBVIOUS
<1> QED BY <1>1, <1>2, <1>3, <1>4 DEF Init, DaemonInit, TypeOK, DaemonTypeOK

\* Every step keeps the types: one case for each action.
LEMMA TypeOKNext == TypeOK /\ [Next]_vars => TypeOK'
<1> SUFFICES ASSUME TypeOK, [Next]_vars PROVE TypeOK'
  OBVIOUS
<1>1. ASSUME NEW n \in Node, Start(n) PROVE TypeOK'
  BY <1>1 DEF Start, StartDaemon, TypeOK, DaemonTypeOK
<1>2. ASSUME NEW n \in Node, Tick(n) PROVE TypeOK'
  <2>1. PICK lost \in SUBSET MaySilent(n_table[n]) :
          /\ TickDaemon(n, lost)
          /\ chan' = [c \in Channel |->
                        IF c[1] = n /\ Reaches(n, c[2])
                        THEN chan[c] \o Sent(n, c[2], lost)
                        ELSE chan[c]]
    BY <1>2 DEF Tick
  <2>2. DaemonTypeOK'
    BY <2>1, TickType
  <2>3. \A c \in Channel : chan[c] \in Seq(Message) /\ c[2] \in Node
    BY ChannelHosts DEF TypeOK
  <2>4. \A c \in Channel : chan[c] \o Sent(n, c[2], lost) \in Seq(Message)
    BY <2>3, SentType
  <2>5. chan' \in [Channel -> Seq(Message)]
    BY <2>1, <2>3, <2>4
  <2> QED BY <1>2, <2>2, <2>5 DEF Tick, TypeOK
<1>3. ASSUME NEW n \in Node, NEW m \in Adjacent(n), ReceiveHello(m, n)
      PROVE  TypeOK'
  <2>1. m \in Node /\ <<m, n>> \in Channel
    BY ChannelHosts
  <2>2. DaemonTypeOK'
    BY <1>3, <2>1, HelloType DEF ReceiveHello
  <2>3. chan' \in [Channel -> Seq(Message)]
    BY <1>3, <2>1, TakenType DEF ReceiveHello
  <2> QED BY <1>3, <2>2, <2>3 DEF ReceiveHello, TypeOK
<1>4. ASSUME NEW n \in Node, NEW m \in Adjacent(n), ReceiveUpdate(m, n)
      PROVE  TypeOK'
  <2>1. m \in Node /\ <<m, n>> \in Channel
    BY ChannelHosts
  <2>2. Head(chan[<<m, n>>]).table \in RouteTable
    BY <1>4, <2>1, HeadType DEF ReceiveUpdate
  <2>3. DaemonTypeOK'
    BY <1>4, <2>1, <2>2, UpdateType DEF ReceiveUpdate
  <2>4. chan' \in [Channel -> Seq(Message)]
    BY <1>4, <2>1, TakenType DEF ReceiveUpdate
  <2> QED BY <1>4, <2>3, <2>4 DEF ReceiveUpdate, TypeOK
<1>5. ASSUME NEW n \in Node, NEW dst \in Lookup, Request(n, dst) PROVE TypeOK'
  <2>1. DaemonTypeOK'
    BY <1>5, StopDaemonType
    DEF Request, handle_forwarding_packet, TypeOK, DaemonTypeOK, daemon_vars
  <2>2. chan' \in [Channel -> Seq(Message)]
    BY <1>5, UnreadType DEF Request, TypeOK
  <2>3. HasRoute(r_table[n], dst) => NextHop(n, dst) \in Node
    <3>1. r_table[n] \in Seq(Route)
      BY DEF TypeOK, DaemonTypeOK, RouteTable
    <3>2. \A i \in 1 .. Len(r_table[n]) : r_table[n][i] \in Route
      BY <3>1
    <3>3. \A r \in Route : r.next_hop \in Node
      BY DEF Route
    <3> QED BY <3>1, <3>2, <3>3, FirstRoute DEF NextHop
  <2>4. response' \in [Node -> Node \cup {NoAddress}]
    BY <1>5, <2>3 DEF Request, TypeOK
  <2> QED BY <1>5, <2>1, <2>2, <2>4 DEF Request, TypeOK
<1>6. ASSUME NEW n \in Node, ReadResponse(n) PROVE TypeOK'
  BY <1>6 DEF ReadResponse, daemon_vars, TypeOK, DaemonTypeOK
<1>7. ASSUME NEW c \in Channel, Lose(c[1], c[2]) PROVE TypeOK'
  <2>1. <<c[1], c[2]>> = c
    BY DEF Channel
  <2>2. chan[c] # <<>> /\ chan' = [chan EXCEPT ![c] = Tail(chan[c])]
    BY <1>7, <2>1 DEF Lose
  <2>3. chan' \in [Channel -> Seq(Message)]
    BY <2>2 DEF TypeOK
  <2> QED BY <1>7, <2>3 DEF Lose, daemon_vars, TypeOK, DaemonTypeOK
<1>8. ASSUME NEW l \in Link, LinkDown(l) PROVE TypeOK'
  <2>1. <<>> \in Seq(Message)
    OBVIOUS
  <2>2. chan' \in [Channel -> Seq(Message)]
    BY <1>8, <2>1 DEF LinkDown, TypeOK
  <2> QED BY <1>8, <2>2 DEF LinkDown, daemon_vars, TypeOK, DaemonTypeOK
<1>9. ASSUME NEW l \in Link, LinkUp(l) PROVE TypeOK'
  BY <1>9 DEF LinkUp, daemon_vars, TypeOK, DaemonTypeOK
<1>10. ASSUME NEW n \in Node, Kill(n) PROVE TypeOK'
  BY <1>10, StopDaemonType, UnreadType DEF Kill, TypeOK
<1>11. CASE UNCHANGED vars
  BY <1>11 DEF vars, daemon_vars, net_vars, TypeOK, DaemonTypeOK
<1> QED
  BY <1>1, <1>2, <1>3, <1>4, <1>5, <1>6, <1>7, <1>8, <1>9, <1>10, <1>11
  DEF Next, Daemon, Environment

\* In every network the daemons' tables never outgrow their arrays and every
\* value keeps its type, whatever is lost, fails or is killed.
THEOREM TypeCorrect == Spec => []TypeOK
BY TypeOKInit, TypeOKNext, PTL DEF Spec

-----------------------------------------------------------------------------
(* Which routes the daemons can come to hold.  The argument is the same for   *)
(* every claim of that kind: a family of sets Legs, for each host the pairs   *)
(* of a destination and a next hop it may hold, that is closed under what     *)
(* HELLO and UPDATE messages do, is never left.                               *)

\* The routes of table t are legs in L.
On(t, L) == \A i \in DOMAIN t : <<t[i].dst, t[i].next_hop>> \in L

\* The destinations an UPDATE from m to n can name, if m's routes are legs:
\* split horizon leaves out the routes to n and those through n.
Carried(Legs, m, n) ==
  {d \in Node : \E h \in Node : <<d, h>> \in Legs[m] /\ d # n /\ h # n}

\* The direct route to a neighbour is a leg, and so is the way through a
\* neighbour to every destination its UPDATEs can name.
ClosedLegs(Legs) ==
  \A n \in Node : \A m \in Adjacent(n) :
    /\ <<m, m>> \in Legs[n]
    /\ \A d \in Carried(Legs, m, n) : <<d, m>> \in Legs[n]

\* Every route held is a leg, and every UPDATE under way names destinations
\* that its sender's legs allow.
RoutesOn(Legs) ==
  /\ \A n \in Node : On(r_table[n], Legs[n])
  /\ \A c \in Channel : \A i \in DOMAIN chan[c] :
       chan[c][i].type = "UPD" =>
         \A k \in DOMAIN chan[c][i].table :
           chan[c][i].table[k].dst \in Carried(Legs, c[1], c[2])

-----------------------------------------------------------------------------
(* The operations on one table. *)

LEMMA PoisonOn ==
  ASSUME NEW t \in RouteTable, NEW L, On(t, L), NEW lost
  PROVE  On(poison_reverse(t, lost), L)
<1>1. t \in Seq(Route) /\ poison_reverse(t, lost) \in Seq(Route)
  BY PoisonEffect DEF RouteTable
<1> QED BY <1>1, PoisonEffect DEF On

LEMMA AddOn ==
  ASSUME NEW t \in RouteTable, NEW L, On(t, L),
         NEW dst \in Node, NEW hop \in Node, NEW c \in Nat, <<dst, hop>> \in L
  PROVE  On(routing_table_add_entry(t, dst, hop, c), L)
<1> DEFINE r == [dst |-> dst, next_hop |-> hop, cost |-> Truncate(c)]
<1>1. t \in Seq(Route) /\ r \in Route
  BY TruncateType DEF RouteTable, Route
<1>2. r.dst = dst /\ r.next_hop = hop
  OBVIOUS
<1>3. \/ routing_table_add_entry(t, dst, hop, c) = t
      \/ routing_table_add_entry(t, dst, hop, c) = Append(t, r)
  BY AddEntryEffect
<1> HIDE DEF r
<1>4. On(Append(t, r), L)
  BY <1>1, <1>2 DEF On
<1> QED BY <1>3, <1>4

LEMMA RestoredOn ==
  ASSUME NEW t \in RouteTable, NEW L, On(t, L), NEW m \in Node,
         HasRoute(t, m), <<m, m>> \in L
  PROVE  On(Restored(t, m), L)
<1> DEFINE u == Restored(t, m)
<1>1. t \in Seq(Route) /\ u \in Seq(Route) /\ Len(u) = Len(t)
  BY RestoredEffect DEF RouteTable
<1>2. \A i \in 1 .. Len(t) : /\ u[i].dst = t[i].dst
                             /\ \/ u[i].next_hop = t[i].next_hop
                                \/ u[i].next_hop = m /\ u[i].dst = m
  BY RestoredEffect
<1> HIDE DEF u
<1>3. On(u, L)
  BY <1>1, <1>2 DEF On
<1> QED BY <1>3 DEF u

LEMMA MergeOn ==
  ASSUME NEW t \in RouteTable, NEW L, On(t, L),
         NEW r \in Route, NEW m \in Node, <<r.dst, m>> \in L
  PROVE  On(MergeRoute(t, r, m), L)
<1> DEFINE u == MergeRoute(t, r, m)
<1>1. t \in Seq(Route) /\ u \in Seq(Route)
  BY MergeRouteEffect DEF RouteTable
<1>2. \A i \in 1 .. Len(t) : /\ u[i].dst = t[i].dst
                             /\ \/ u[i].next_hop = t[i].next_hop
                                \/ u[i].next_hop = m /\ t[i].dst = r.dst
  BY MergeRouteEffect
<1>3. \/ Len(u) = Len(t)
      \/ /\ Len(u) = Len(t) + 1
         /\ u[Len(u)].dst = r.dst
         /\ u[Len(u)].next_hop = m
  BY MergeRouteEffect
<1> HIDE DEF u
<1>4. \A i \in 1 .. Len(t) : <<u[i].dst, u[i].next_hop>> \in L
  BY <1>1, <1>2 DEF On
<1>5. \A i \in 1 .. Len(u) :
        i \in 1 .. Len(t) \/ (i = Len(u) /\ Len(u) = Len(t) + 1)
  BY <1>1, <1>3
<1>6. On(u, L)
  BY <1>1, <1>3, <1>4, <1>5 DEF On
<1> QED BY <1>6 DEF u

LEMMA CompareOn ==
  ASSUME NEW t \in RouteTable, NEW L, On(t, L), NEW new \in RouteTable,
         NEW m \in Node, \A k \in DOMAIN new : <<new[k].dst, m>> \in L
  PROVE  On(compare_routing_tables(t, new, m), L)
<1> DEFINE S == {u \in RouteTable : On(u, L)}
<1>1. new \in Seq(Route)
  BY DEF RouteTable
<1>2. \A k \in 1 .. Len(new) : new[k] \in Route /\ <<new[k].dst, m>> \in L
  BY <1>1
<1>3. \A u \in RouteTable \cap S : \A k \in 1 .. Len(new) : MergeRoute(u, new[k], m) \in S
  BY <1>2, MergeOn, MergeRouteEffect
<1>4. t \in S
  OBVIOUS
<1> HIDE DEF S
<1>5. compare_routing_tables(t, new, m) \in S
  BY <1>1, <1>3, <1>4, MergeInduction
<1> QED BY <1>5 DEF S

\* What n sends to m names destinations that n's legs allow.
LEMMA SentOn ==
  ASSUME NEW Legs, NEW n \in Node, NEW m \in Node,
         NEW t \in RouteTable, On(t, Legs[n])
  PROVE  \A k \in DOMAIN SplitHorizon(t, m) :
           SplitHorizon(t, m)[k].dst \in Carried(Legs, n, m)
<1> DEFINE u == SplitHorizon(t, m)
<1>1. t \in Seq(Route) /\ u \in Seq(Route)
  BY SplitHorizonEffect DEF RouteTable
<1>2. \A k \in 1 .. Len(u) : Advertised(u[k], m) /\ \E j \in 1 .. Len(t) : u[k] = t[j]
  BY SplitHorizonEffect
<1> HIDE DEF u
<1>3. SUFFICES ASSUME NEW k \in 1 .. Len(u) PROVE u[k].dst \in Carried(Legs, n, m)
  BY <1>1 DEF u
<1>4. <<u[k].dst, u[k].next_hop>> \in Legs[n]
  BY <1>1, <1>2 DEF On
<1>5. u[k].dst # m /\ u[k].next_hop # m
  BY <1>2 DEF Advertised
<1>6. u[k].dst \in Node /\ u[k].next_hop \in Node
  <2>1. u[k] \in Route
    BY <1>1
  <2> QED BY <2>1 DEF Route
<1> QED BY <1>4, <1>5, <1>6 DEF Carried

-----------------------------------------------------------------------------
(* The steps of a network. *)

LEMMA HelloOn ==
  ASSUME NEW Legs, ClosedLegs(Legs), TypeOK, RoutesOn(Legs),
         NEW n \in Node, NEW m \in Adjacent(n), handle_hello_message(n, m)
  PROVE  \A x \in Node : On(r_table'[x], Legs[x])
<1>1. m \in Node /\ <<m, m>> \in Legs[n]
  BY ChannelHosts DEF ClosedLegs
<1>2. r_table \in [Node -> RouteTable] /\ On(r_table[n], Legs[n])
  BY DEF TypeOK, DaemonTypeOK, RoutesOn
<1>3. On(<<>>, Legs[n])
  BY DEF On
<1>4. CASE HelloFromNew(n, m)
  <2>1. On(routing_table_add_entry(r_table[n], m, m, 1), Legs[n])
    BY <1>1, <1>2, AddOn
  <2> QED BY <1>2, <1>4, <2>1 DEF HelloFromNew, RoutesOn
<1>5. CASE HelloFromKnown(n, m)
  BY <1>5 DEF HelloFromKnown, RoutesOn
<1>6. CASE HelloFromLost(n, m)
  <2>1. CASE HasRoute(r_table[n], m)
    <3>1. On(Restored(r_table[n], m), Legs[n])
      BY <1>1, <1>2, <2>1, RestoredOn
    <3> QED BY <1>2, <1>6, <2>1, <3>1 DEF HelloFromLost, RoutesOn
  <2>2. CASE ~ HasRoute(r_table[n], m)
    BY <1>2, <1>3, <1>6, <2>2 DEF HelloFromLost, StopDaemon, RoutesOn
  <2> QED BY <2>1, <2>2
<1> QED BY <1>4, <1>5, <1>6 DEF handle_hello_message

\* A daemon that stops holds no routes.
LEMMA StopOn ==
  ASSUME NEW Legs, TypeOK, RoutesOn(Legs), NEW n \in Node, NEW how,
         StopDaemon(n, how)
  PROVE  \A x \in Node : On(r_table'[x], Legs[x])
<1>1. On(<<>>, Legs[n])
  BY DEF On
<1> QED BY <1>1 DEF StopDaemon, RoutesOn, TypeOK, DaemonTypeOK

\* What a channel holds after a message is taken off it was on it before.
LEMMA FewerOn ==
  ASSUME NEW Legs, TypeOK, RoutesOn(Legs),
         chan' \in [Channel -> Seq(Message)],
         \A c \in Channel : \/ chan'[c] = chan[c]
                            \/ chan'[c] = <<>>
                            \/ chan[c] # <<>> /\ chan'[c] = Tail(chan[c])
  PROVE  \A c \in Channel : \A i \in DOMAIN chan'[c] :
           chan'[c][i].type = "UPD" =>
             \A k \in DOMAIN chan'[c][i].table :
               chan'[c][i].table[k].dst \in Carried(Legs, c[1], c[2])
<1> SUFFICES ASSUME NEW c \in Channel, NEW i \in DOMAIN chan'[c],
                    chan'[c][i].type = "UPD"
    PROVE  \A k \in DOMAIN chan'[c][i].table :
             chan'[c][i].table[k].dst \in Carried(Legs, c[1], c[2])
  OBVIOUS
<1>1. chan[c] \in Seq(Message)
  BY DEF TypeOK
<1>2. PICK j \in DOMAIN chan[c] : chan'[c][i] = chan[c][j]
  <2>1. CASE chan'[c] = chan[c]
    BY <2>1
  <2>2. CASE chan'[c] = <<>>
    BY <2>2
  <2>3. CASE chan[c] # <<>> /\ chan'[c] = Tail(chan[c])
    <3>1. i \in 1 .. Len(chan[c]) - 1
      BY <1>1, <2>3
    <3>2. i + 1 \in DOMAIN chan[c] /\ chan'[c][i] = chan[c][i + 1]
      BY <1>1, <2>3, <3>1
    <3> QED BY <3>2
  <2> QED BY <2>1, <2>2, <2>3
<1> QED BY <1>2 DEF RoutesOn

\* Every message a channel gains in a tick carries legs for its receiver.
LEMMA TickOn ==
  ASSUME NEW Legs, ClosedLegs(Legs), TypeOK, RoutesOn(Legs),
         NEW n \in Node, Tick(n)
  PROVE  /\ \A x \in Node : On(r_table'[x], Legs[x])
         /\ \A c \in Channel : \A i \in DOMAIN chan'[c] :
              chan'[c][i].type = "UPD" =>
                \A k \in DOMAIN chan'[c][i].table :
                  chan'[c][i].table[k].dst \in Carried(Legs, c[1], c[2])
<1>1. PICK lost \in SUBSET MaySilent(n_table[n]) :
        /\ TickDaemon(n, lost)
        /\ chan' = [c \in Channel |->
                      IF c[1] = n /\ Reaches(n, c[2])
                      THEN chan[c] \o Sent(n, c[2], lost)
                      ELSE chan[c]]
  BY DEF Tick
<1> DEFINE t == poison_reverse(r_table[n], lost)
<1>2. r_table \in [Node -> RouteTable] /\ On(r_table[n], Legs[n])
  BY DEF TypeOK, DaemonTypeOK, RoutesOn
<1>3. t \in RouteTable /\ On(t, Legs[n])
  BY <1>2, PoisonEffect, PoisonOn
<1>4. \A x \in Node : On(r_table'[x], Legs[x])
  BY <1>1, <1>2, <1>3 DEF TickDaemon, check_neighbours, RoutesOn
<1> HIDE DEF t
<1>5. ASSUME NEW c \in Channel, NEW i \in DOMAIN chan'[c],
             chan'[c][i].type = "UPD"
      PROVE  \A k \in DOMAIN chan'[c][i].table :
               chan'[c][i].table[k].dst \in Carried(Legs, c[1], c[2])
  <2>1. chan[c] \in Seq(Message) /\ c[1] \in Node /\ c[2] \in Node
    BY ChannelHosts DEF TypeOK
  <2>2. CASE i \in DOMAIN chan[c] /\ chan'[c][i] = chan[c][i]
    BY <1>5, <2>2 DEF RoutesOn
  <2>3. CASE c[1] = n /\ chan'[c][i] = Update(SplitHorizon(t, c[2]))
    <3>1. chan'[c][i].table = SplitHorizon(t, c[2]) /\ c[2] \in Adjacent(n)
      BY <2>3 DEF Update, Channel
    <3>2. \A k \in DOMAIN SplitHorizon(t, c[2]) :
            SplitHorizon(t, c[2])[k].dst \in Carried(Legs, n, c[2])
      BY <1>3, <2>1, SentOn
    <3> QED BY <2>3, <3>1, <3>2
  <2>4. CASE chan'[c][i] = Hello
    BY <1>5, <2>4 DEF Hello
  <2>5. CASE c[1] = n /\ Reaches(n, c[2])
    <3> DEFINE sent == Sent(n, c[2], lost)
    <3>1. sent \in Seq(Message) /\ chan'[c] = chan[c] \o sent
      BY <1>1, <2>1, <2>5, SentType
    <3>2. sent = <<Hello, Update(SplitHorizon(t, c[2]))>> \/ sent = <<Hello>>
      BY DEF Sent, t
    <3> HIDE DEF sent
    <3>3. \/ i \in DOMAIN chan[c] /\ chan'[c][i] = chan[c][i]
          \/ \E k \in 1 .. Len(sent) : chan'[c][i] = sent[k]
      <4>1. i \in 1 .. Len(chan[c]) + Len(sent)
        BY <2>1, <3>1
      <4>2. CASE i <= Len(chan[c])
        BY <2>1, <3>1, <4>1, <4>2
      <4>3. CASE i > Len(chan[c])
        <5>1. i - Len(chan[c]) \in 1 .. Len(sent)
          BY <2>1, <3>1, <4>1, <4>3
        <5>2. chan'[c][i] = sent[i - Len(chan[c])]
          BY <2>1, <3>1, <4>1, <4>3
        <5> QED BY <5>1, <5>2
      <4> QED BY <2>1, <4>1, <4>2, <4>3
    <3>4. \A k \in 1 .. Len(sent) :
            sent[k] \in {Hello, Update(SplitHorizon(t, c[2]))}
      <4> HIDE DEF Hello, Update
      <4> QED BY <3>2
    <3> QED BY <2>2, <2>3, <2>4, <2>5, <3>3, <3>4
  <2>6. CASE ~ (c[1] = n /\ Reaches(n, c[2]))
    <3>1. chan'[c] = chan[c]
      BY <1>1, <2>6
    <3> QED BY <2>2, <3>1
  <2> QED BY <2>5, <2>6
<1> QED BY <1>4, <1>5

LEMMA RoutesOnInit ==
  ASSUME NEW Legs, Init
  PROVE  RoutesOn(Legs)
BY DEF Init, DaemonInit, RoutesOn, On

\* Every step keeps the routes among the legs: one case for each action.
LEMMA RoutesOnNext ==
  ASSUME NEW Legs, ClosedLegs(Legs), TypeOK, RoutesOn(Legs), [Next]_vars
  PROVE  RoutesOn(Legs)'
<1> DEFINE Held == \A x \in Node : On(r_table'[x], Legs[x])
           UnderWay ==
             \A c \in Channel : \A i \in DOMAIN chan'[c] :
               chan'[c][i].type = "UPD" =>
                 \A k \in DOMAIN chan'[c][i].table :
                   chan'[c][i].table[k].dst \in Carried(Legs, c[1], c[2])
           Fewer == \A c \in Channel : \/ chan'[c] = chan[c]
                                       \/ chan'[c] = <<>>
                                       \/ chan[c] # <<>> /\ chan'[c] = Tail(chan[c])
<1> SUFFICES Held /\ UnderWay
  BY DEF RoutesOn
<1>1. chan' \in [Channel -> Seq(Message)] /\ chan \in [Channel -> Seq(Message)]
  BY TypeOKNext DEF TypeOK
<1>2. Fewer => UnderWay
  BY <1>1, FewerOn
<1>3. UNCHANGED r_table => Held
  BY DEF RoutesOn
<1>4. UNCHANGED chan => Fewer
  OBVIOUS
<1>5. ASSUME NEW c \in Channel, chan[c] # <<>>, Taken(c[1], c[2]) PROVE Fewer
  <2>1. <<c[1], c[2]>> = c
    BY DEF Channel
  <2> QED BY <1>1, <1>5, <2>1 DEF Taken, Unread
<1>6. ASSUME NEW n \in Node, chan' = Unread(n) PROVE Fewer
  BY <1>6 DEF Unread
<1> HIDE DEF Held, UnderWay, Fewer
<1>7. ASSUME NEW n \in Node, Start(n) PROVE Held /\ UnderWay
  BY <1>2, <1>3, <1>4, <1>7 DEF Start, StartDaemon
<1>8. ASSUME NEW n \in Node, Tick(n) PROVE Held /\ UnderWay
  BY <1>8, TickOn DEF Held, UnderWay
<1>9. ASSUME NEW n \in Node, NEW m \in Adjacent(n), ReceiveHello(m, n)
      PROVE  Held /\ UnderWay
  <2>1. <<m, n>> \in Channel
    BY ChannelHosts
  <2>2. Held
    BY <1>9, HelloOn DEF ReceiveHello, Held
  <2>3. Fewer
    BY <1>5, <1>9, <2>1 DEF ReceiveHello
  <2> QED BY <1>2, <2>2, <2>3
<1>10. ASSUME NEW n \in Node, NEW m \in Adjacent(n), ReceiveUpdate(m, n)
       PROVE  Held /\ UnderWay
  <2>1. <<m, n>> \in Channel /\ m \in Node
    BY ChannelHosts
  <2> DEFINE new == Head(chan[<<m, n>>]).table
  <2>2. /\ new \in RouteTable
        /\ \A k \in DOMAIN new : new[k].dst \in Carried(Legs, m, n)
    BY <1>10, <2>1, HeadType DEF ReceiveUpdate, RoutesOn
  <2>3. r_table \in [Node -> RouteTable] /\ On(r_table[n], Legs[n])
    BY DEF TypeOK, DaemonTypeOK, RoutesOn
  <2>4. r_table' = [r_table EXCEPT ![n] = compare_routing_tables(@, new, m)]
    BY <1>10 DEF ReceiveUpdate, handle_update_message
  <2> HIDE DEF new
  <2>5. On(compare_routing_tables(r_table[n], new, m), Legs[n])
    <3>1. \A k \in DOMAIN new : <<new[k].dst, m>> \in Legs[n]
      BY <2>2 DEF ClosedLegs
    <3> QED BY <2>1, <2>2, <2>3, <3>1, CompareOn
  <2>6. Held
    BY <2>3, <2>4, <2>5 DEF Held, RoutesOn
  <2>7. Fewer
    BY <1>5, <1>10, <2>1 DEF ReceiveUpdate
  <2> QED BY <1>2, <2>6, <2>7
<1>11. ASSUME NEW n \in Node, NEW dst \in Lookup, Request(n, dst)
       PROVE  Held /\ UnderWay
  <2>1. CASE HasRoute(r_table[n], dst)
    BY <1>2, <1>3, <1>4, <1>11, <2>1
    DEF Request, handle_forwarding_packet, daemon_vars
  <2>2. CASE ~ HasRoute(r_table[n], dst)
    <3>1. StopDaemon(n, "exited") /\ chan' = Unread(n)
      BY <1>11, <2>2 DEF Request, handle_forwarding_packet
    <3> QED BY <1>2, <1>6, <3>1, StopOn DEF Held
  <2> QED BY <2>1, <2>2
<1>12. ASSUME NEW n \in Node, ReadResponse(n) PROVE Held /\ UnderWay
  BY <1>2, <1>3, <1>4, <1>12 DEF ReadResponse, daemon_vars
<1>13. ASSUME NEW c \in Channel, Lose(c[1], c[2]) PROVE Held /\ UnderWay
  <2>1. <<c[1], c[2]>> = c
    BY DEF Channel
  <2>2. chan[c] # <<>> /\ chan' = [chan EXCEPT ![c] = Tail(chan[c])]
    BY <1>13, <2>1 DEF Lose
  <2>3. Fewer
    BY <1>1, <2>2 DEF Fewer
  <2> QED BY <1>2, <1>3, <1>13, <2>3 DEF Lose, daemon_vars
<1>14. ASSUME NEW l \in Link, LinkDown(l) PROVE Held /\ UnderWay
  <2>1. Fewer
    BY <1>14 DEF LinkDown, Fewer
  <2> QED BY <1>2, <1>3, <1>14, <2>1 DEF LinkDown, daemon_vars
<1>15. ASSUME NEW l \in Link, LinkUp(l) PROVE Held /\ UnderWay
  BY <1>2, <1>3, <1>4, <1>15 DEF LinkUp, daemon_vars
<1>16. ASSUME NEW n \in Node, Kill(n) PROVE Held /\ UnderWay
  BY <1>2, <1>6, <1>16, StopOn DEF Kill, Held
<1>17. CASE UNCHANGED vars
  BY <1>2, <1>3, <1>4, <1>17 DEF vars, daemon_vars, net_vars
<1> QED
  BY <1>7, <1>8, <1>9, <1>10, <1>11, <1>12, <1>13, <1>14, <1>15, <1>16, <1>17
  DEF Next, Daemon, Environment

-----------------------------------------------------------------------------
(* Routes in any network. *)

\* Any route to another host through a neighbour.
NeighbourLegs ==
  [n \in Node |-> {p \in Node \X Node : p[1] # n /\ p[2] \in Adjacent(n)}]

LEMMA NeighbourLegsClosed == ClosedLegs(NeighbourLegs)
<1> SUFFICES ASSUME NEW n \in Node, NEW m \in Adjacent(n)
    PROVE  /\ <<m, m>> \in NeighbourLegs[n]
           /\ \A d \in Carried(NeighbourLegs, m, n) : <<d, m>> \in NeighbourLegs[n]
  BY DEF ClosedLegs
<1>1. m \in Node /\ m # n
  BY ChannelHosts DEF Adjacent
<1> QED BY <1>1 DEF NeighbourLegs, Carried

\* No daemon ever holds a route to its own host: split horizon keeps a route
\* to the receiver out of every UPDATE, so the merge needs no check of its own.
THEOREM HostsHaveNoRouteToSelf == Spec => []NoRouteToSelf
<1>1. Init => RoutesOn(NeighbourLegs)
  BY RoutesOnInit
<1>2. TypeOK /\ RoutesOn(NeighbourLegs) /\ [Next]_vars => RoutesOn(NeighbourLegs)'
  BY RoutesOnNext, NeighbourLegsClosed
<1>3. RoutesOn(NeighbourLegs) => NoRouteToSelf
  BY DEF RoutesOn, On, NeighbourLegs, NoRouteToSelf
<1> QED BY <1>1, <1>2, <1>3, TypeCorrect, PTL DEF Spec

\* Every next hop a daemon holds or answers with is adjacent to its host.
THEOREM NextHopsAreAdjacent == Spec => []NextHopAdjacent
<1> DEFINE Answers == \A n \in Node : response[n] \in Adjacent(n) \cup {NoAddress}
<1>1. Init => RoutesOn(NeighbourLegs) /\ Answers
  BY RoutesOnInit DEF Init
<1>2. TypeOK /\ RoutesOn(NeighbourLegs) /\ [Next]_vars => RoutesOn(NeighbourLegs)'
  BY RoutesOnNext, NeighbourLegsClosed
<1>3. TypeOK /\ RoutesOn(NeighbourLegs) /\ Answers /\ [Next]_vars => Answers'
  <2> SUFFICES ASSUME TypeOK, RoutesOn(NeighbourLegs), Answers, [Next]_vars
      PROVE  Answers'
    OBVIOUS
  <2>1. response \in [Node -> Node \cup {NoAddress}]
    BY DEF TypeOK
  <2>2. ASSUME NEW n \in Node, NEW dst \in Lookup, Request(n, dst) PROVE Answers'
    <3>1. r_table[n] \in Seq(Route)
      BY DEF TypeOK, DaemonTypeOK, RouteTable
    <3>2. \A i \in DOMAIN r_table[n] : r_table[n][i].next_hop \in Adjacent(n)
      BY DEF RoutesOn, On, NeighbourLegs
    <3>3. HasRoute(r_table[n], dst) => NextHop(n, dst) \in Adjacent(n)
      BY <3>1, <3>2, FirstRoute DEF NextHop
    <3> QED BY <2>1, <2>2, <3>3 DEF Request
  <2>3. ASSUME NEW n \in Node, ReadResponse(n) PROVE Answers'
    BY <2>1, <2>3 DEF ReadResponse
  <2>4. CASE UNCHANGED response
    BY <2>4
  <2> QED
    BY <2>2, <2>3, <2>4
    DEF Next, Daemon, Environment, vars, net_vars, Start, Tick, ReceiveHello,
        ReceiveUpdate, Lose, LinkDown, LinkUp, Kill
<1>4. RoutesOn(NeighbourLegs) /\ Answers => NextHopAdjacent
  BY DEF RoutesOn, On, NeighbourLegs, NextHopAdjacent
<1> QED BY <1>1, <1>2, <1>3, <1>4, TypeCorrect, PTL DEF Spec

=============================================================================
