---------------------------- MODULE RoutingNetwork --------------------------
(***************************************************************************)
(* The routing daemons of a network of hosts, and the messages they         *)
(* exchange.  A HELLO or UPDATE goes from the daemon over a unix socket to  *)
(* its MIP daemon, as one Ethernet frame to the adjacent host's MIP daemon, *)
(* and over a unix socket to the daemon there: in order, at most once, and  *)
(* lost when the frame is lost, the link is down or no daemon is attached.  *)
(*                                                                          *)
(* All timers have the same interval.  In every interval each running       *)
(* daemon ticks once, in any order; a daemon that starts ticks first in the *)
(* interval after.  Deliveries take far less than an interval: when a timer *)
(* expires, what the daemon sent at its last tick has been delivered or     *)
(* lost, and messages are under way on at most MaxBusy other channels.      *)
(***************************************************************************)
EXTENDS RoutingDaemon, FiniteSets

CONSTANTS
  Link,          \* the links between hosts, each a set of two hosts
  Lookup,        \* the destinations the MIP daemons ask for
  MaxBusy,       \* bound: channels with messages under way when a timer expires
  MaxFaults      \* bound: losses, failures of a link and kills of a daemon

ASSUME LinkAssumption ==
  \A l \in Link : \E m, n \in Node : m # n /\ l = {m, n}
ASSUME LookupAssumption == Lookup \subseteq Node

Adjacent(n) == {m \in Node : {m, n} \in Link /\ m # n}

\* A host has fewer neighbours than the neighbour table has usable slots (the
\* exam's topology has at most 3).
ASSUME DegreeAssumption ==
  \A n \in Node : Cardinality(Adjacent(n)) < MAX_NEIGHBOURS

VARIABLES
  chan,       \* messages under way, per ordered pair of adjacent hosts
  up,         \* the links that work
  ticked,     \* the daemons that have ticked in this interval
  response,   \* the next hop answered to each MIP daemon and not yet read
  faults      \* losses, failures and kills so far

net_vars == <<chan, up, ticked, response, faults>>
vars == <<daemon_vars, net_vars>>

NoAddress == "none"

Channel == {c \in Node \X Node : c[2] \in Adjacent(c[1])}

\* A HELLO carries nothing but its sender, an UPDATE also part of its table.
Hello == [type |-> "HEL"]
Update(table) == [type |-> "UPD", table |-> table]
Message == {Hello} \cup [type : {"UPD"}, table : RouteTable]

TypeOK ==
  /\ DaemonTypeOK
  /\ chan \in [Channel -> Seq(Message)]
  /\ up \subseteq Link
  /\ ticked \subseteq Node
  /\ response \in [Node -> Node \cup {NoAddress}]
  /\ faults \in Nat

Init ==
  /\ DaemonInit
  /\ chan = [c \in Channel |-> <<>>]
  /\ up = Link
  /\ ticked = {}
  /\ response = [n \in Node |-> NoAddress]
  /\ faults = 0

-----------------------------------------------------------------------------

\* Where a frame that n sends to m arrives: the link works and a routing
\* daemon is attached to m's MIP daemon.
Reaches(n, m) == {n, m} \in up /\ status[m] = "running"

\* Mutant of Sent: UPDATEs show the table as it was before the tick.
SentUnpoisoned(n, m, lost) ==
  LET table == SplitHorizon(r_table[n], m)
  IN  IF /\ UpdateDue(n, lost)
         /\ HasNeighbour(n_table[n], m)
         /\ table # <<>>
      THEN <<Hello, Update(table)>>
      ELSE <<Hello>>

\* What a tick of n sends to m: a HELLO on every interface, and then an UPDATE
\* if one is due, m is in the neighbour table (in whatever state) and split
\* horizon leaves something to send.
Sent(n, m, lost) ==
  LET table == SplitHorizon(poison_reverse(r_table[n], lost), m)
  IN  IF /\ UpdateDue(n, lost)
         /\ HasNeighbour(n_table[n], m)
         /\ table # <<>>
      THEN <<Hello, Update(table)>>
      ELSE <<Hello>>

\* The daemon started on n, which waits a whole interval for its first tick.
Start(n) ==
  /\ StartDaemon(n)
  /\ ticked' = ticked \cup {n}
  /\ UNCHANGED <<chan, up, response, faults>>

\* The timer of n expires.
Tick(n) ==
  /\ n \in ticked => Running \subseteq ticked
  /\ \A m \in Adjacent(n) : chan[<<n, m>>] = <<>>
  /\ Cardinality({c \in Channel : chan[c] # <<>>}) <= MaxBusy
  /\ \E lost \in SUBSET MaySilent(n_table[n]) :
       /\ TickDaemon(n, lost)
       /\ chan' = [c \in Channel |->
                     IF c[1] = n /\ Reaches(n, c[2])
                     THEN chan[c] \o Sent(n, c[2], lost)
                     ELSE chan[c]]
  /\ ticked' = IF n \in ticked THEN {n} ELSE ticked \cup {n}
  /\ UNCHANGED <<up, response, faults>>

\* What is under way once n's daemon has stopped: it no longer reads its socket.
Unread(n) == [c \in Channel |-> IF c[2] = n THEN <<>> ELSE chan[c]]

\* n's daemon has read the first message from m.
Taken(m, n) ==
  chan' = IF status'[n] = "running"
          THEN [chan EXCEPT ![<<m, n>>] = Tail(@)]
          ELSE Unread(n)

ReceiveHello(m, n) ==
  /\ chan[<<m, n>>] # <<>>
  /\ Head(chan[<<m, n>>]).type = "HEL"
  /\ handle_hello_message(n, m)
  /\ Taken(m, n)
  /\ UNCHANGED <<up, ticked, response, faults>>

ReceiveUpdate(m, n) ==
  /\ chan[<<m, n>>] # <<>>
  /\ Head(chan[<<m, n>>]).type = "UPD"
  /\ handle_update_message(n, m, Head(chan[<<m, n>>]).table)
  /\ Taken(m, n)
  /\ UNCHANGED <<up, ticked, response, faults>>

\* The MIP daemon of n asks for the next hop towards dst (REQ), and the
\* daemon answers (RSP) or exits.
Request(n, dst) ==
  /\ response[n] = NoAddress
  /\ handle_forwarding_packet(n, dst)
  /\ response' = IF HasRoute(r_table[n], dst)
                 THEN [response EXCEPT ![n] = NextHop(n, dst)]
                 ELSE response
  /\ chan' = IF HasRoute(r_table[n], dst) THEN chan ELSE Unread(n)
  /\ UNCHANGED <<up, ticked, faults>>

\* The MIP daemon of n reads the answer.
ReadResponse(n) ==
  /\ response[n] # NoAddress
  /\ response' = [response EXCEPT ![n] = NoAddress]
  /\ UNCHANGED <<daemon_vars, chan, up, ticked, faults>>

-----------------------------------------------------------------------------
(* The environment: links lose frames, fail and are repaired; a daemon is    *)
(* killed, and may be started again.                                         *)

Lose(m, n) ==
  /\ faults < MaxFaults
  /\ chan[<<m, n>>] # <<>>
  /\ chan' = [chan EXCEPT ![<<m, n>>] = Tail(@)]
  /\ faults' = faults + 1
  /\ UNCHANGED <<daemon_vars, up, ticked, response>>

LinkDown(l) ==
  /\ faults < MaxFaults
  /\ l \in up
  /\ up' = up \ {l}
  /\ chan' = [c \in Channel |-> IF {c[1], c[2]} = l THEN <<>> ELSE chan[c]]
  /\ faults' = faults + 1
  /\ UNCHANGED <<daemon_vars, ticked, response>>

LinkUp(l) ==
  /\ l \in Link \ up
  /\ up' = up \cup {l}
  /\ UNCHANGED <<daemon_vars, chan, ticked, response, faults>>

Kill(n) ==
  /\ faults < MaxFaults
  /\ status[n] = "running"
  /\ StopDaemon(n, "off")
  /\ chan' = Unread(n)
  /\ faults' = faults + 1
  /\ UNCHANGED <<up, ticked, response>>

-----------------------------------------------------------------------------

Daemon(n) ==
  \/ Start(n)
  \/ Tick(n)
  \/ \E m \in Adjacent(n) : ReceiveHello(m, n) \/ ReceiveUpdate(m, n)
  \/ \E dst \in Lookup : Request(n, dst)
  \/ ReadResponse(n)

Environment ==
  \/ \E c \in Channel : Lose(c[1], c[2])
  \/ \E l \in Link : LinkDown(l) \/ LinkUp(l)
  \/ \E n \in Node : Kill(n)

Next == (\E n \in Node : Daemon(n)) \/ Environment

Spec == Init /\ [][Next]_vars

\* Every daemon is started, and started again if it was killed; timers keep
\* expiring; a frame that is not lost arrives; a link that failed is repaired.
Fairness ==
  /\ \A n \in Node : WF_vars(Start(n)) /\ WF_vars(Tick(n))
  /\ \A c \in Channel :
       WF_vars(ReceiveHello(c[1], c[2]) \/ ReceiveUpdate(c[1], c[2]))
  /\ \A l \in Link : WF_vars(LinkUp(l))

FairSpec == Spec /\ Fairness

-----------------------------------------------------------------------------
(* Properties, for every network *)

\* No host has a route to itself: an UPDATE leaves out the routes to the host
\* it is sent to (send_update_message), and nothing in compare_routing_tables
\* would reject one.
NoRouteToSelf ==
  \A n \in Node : \A i \in DOMAIN r_table[n] : r_table[n][i].dst # n

\* Every next hop a daemon holds or answers is a host it shares a link with:
\* the receiver of an UPDATE puts the sender in the place of the sender's own
\* next hop (compare_routing_tables, handle_forwarding_packet).
NextHopAdjacent ==
  /\ \A n \in Node : \A i \in DOMAIN r_table[n] :
       r_table[n][i].next_hop \in Adjacent(n)
  /\ \A n \in Node : response[n] \in Adjacent(n) \cup {NoAddress}

\* no_new_update_count is read uninitialised, but it decides nothing until a
\* neighbour is known, and by then the first HELLO has made the daemon reset
\* it or will make its next tick do so (routing_daemon).
UninitialisedCountHarmless ==
  \A n \in Node :
    n_table[n] # <<>> => \/ routing_table_changed[n] = 1
                         \/ no_new_update_count[n] <= NO_UPDATE_COUNT_LIMIT

\* Every UPDATE a tick sends shows the route table as the tick leaves it, the
\* routes through the neighbours it has just disconnected poisoned: the timer
\* branch checks the neighbours before it sends.
UpdateShowsPoison ==
  [][\A c \in Channel :
       LET added == SubSeq(chan'[c], Len(chan[c]) + 1, Len(chan'[c]))
       IN  \A i \in DOMAIN added :
             added[i].type = "UPD"
               => added[i].table = SplitHorizon(r_table'[c[1]], c[2])]_vars

\* A host in the neighbour table has a route, so the HELLO of a disconnected
\* neighbour does not end the daemon (handle_hello_message, case 3).
NeighbourHasRoute ==
  \A n \in Node : \A i \in DOMAIN n_table[n] :
    HasRoute(r_table[n], n_table[n][i].mip_addr)

\* As long as no message is lost, no link fails and no daemon is killed, none
\* takes a running neighbour for disconnected, whatever the order in which
\* timers expire and messages arrive: DISCONNECTION_TIME_LIMIT leaves room for
\* it (check_neighbours).
NoFalseAlarm ==
  faults = 0 => \A n \in Node : \A i \in DOMAIN n_table[n] :
                  n_table[n][i].state = "DISCONNECTED"
                    => status[n_table[n][i].mip_addr] # "running"

\* Within[k]: the pairs of hosts at most k links apart; Hops: how many.
Within[k \in 0 .. Cardinality(Node)] ==
  IF k = 0
  THEN {<<n, n>> : n \in Node}
  ELSE {p \in Node \X Node :
          \E m \in Adjacent(p[1]) \cup {p[1]} : <<m, p[2]>> \in Within[k - 1]}

Hops(m, n) ==
  CHOOSE k \in DOMAIN Within :
    <<m, n>> \in Within[k] /\ \A j \in 0 .. k - 1 : <<m, n>> \notin Within[j]

\* The cost of a route is the number of hops to its destination or more; a
\* wrapped cost is less (routing_table_add_entry stores an int in a uint8_t).
CostAtLeastHops ==
  \A n \in Node : \A i \in DOMAIN r_table[n] :
    r_table[n][i].cost >= Hops(n, r_table[n][i].dst)

\* Every host forwards to every other over a shortest path, at its true cost.
ShortestPaths ==
  \A n \in Node : \A d \in Node \ {n} :
    /\ HasRoute(r_table[n], d)
    /\ Hops(NextHop(n, d), d) + 1 = Hops(n, d)
    /\ r_table[n][routing_table_get_route_by_dst(r_table[n], d)].cost = Hops(n, d)

\* Once losses and failures have stopped and the links are repaired, the
\* tables settle on shortest paths, wherever the faults left them.
Converges == <>[]ShortestPaths

=============================================================================
