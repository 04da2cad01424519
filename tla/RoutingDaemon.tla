---------------------------- MODULE RoutingDaemon ---------------------------
(***************************************************************************)
(* The routing daemon of routing_daemon.c: one instance per host, its       *)
(* neighbour table, its route table and the handlers of its event loop.     *)
(*                                                                          *)
(* The daemon is single threaded: epoll hands it a timer tick or a message  *)
(* on its socket, and it runs the handler to the end.  Each handler is one  *)
(* action.  What it writes to the socket is left to the module that         *)
(* composes the daemons, RoutingNetwork.                                    *)
(*                                                                          *)
(* Time.  last_hello_time is compared with the clock only when the timer    *)
(* ticks, every TIMER_INTERVAL seconds.  The model keeps the number of the  *)
(* daemon's own ticks since the neighbour's last HELLO.  A HELLO comes at   *)
(* any point between two ticks and time() truncates to seconds, so after    *)
(* k ticks the difference is between (k-1) and k intervals: at tick         *)
(* DISCONNECTION_TICKS + 1 the limit may be passed, at the next it must be. *)
(***************************************************************************)
EXTENDS RoutingTable

CONSTANTS
  MAX_NEIGHBOURS,         \* size of the neighbours array (5 in the code)
  NO_UPDATE_COUNT_LIMIT,  \* ticks without an UPDATE before one is sent (2)
  DISCONNECTION_TICKS     \* DISCONNECTION_TIME_LIMIT / TIMER_INTERVAL (3)

ASSUME MaxNeighboursAssumption == MAX_NEIGHBOURS \in Nat \ {0}
ASSUME UpdateLimitAssumption == NO_UPDATE_COUNT_LIMIT \in Nat
ASSUME DisconnectionAssumption == DISCONNECTION_TICKS \in Nat

VARIABLES
  status,                 \* of each host's daemon: "off", "running", "exited"
  n_table,                \* the neighbour table of each daemon
  r_table,                \* the route table of each daemon
  routing_table_changed,  \* the flag that makes the next tick send UPDATEs
  no_new_update_count     \* ticks since the last UPDATEs; not initialised

daemon_vars ==
  <<status, n_table, r_table, routing_table_changed, no_new_update_count>>

NeighbourState == {"INIT", "CONNECTED", "DISCONNECTED"}
MaxTicks == DISCONNECTION_TICKS + 1
Neighbour == [mip_addr : Node, state : NeighbourState, ticks : 0 .. MaxTicks]
Entry(m, state, ticks) == [mip_addr |-> m, state |-> state, ticks |-> ticks]
NeighbourTable == {t \in Seq(Neighbour) : Len(t) < MAX_NEIGHBOURS}

\* The counter is an uninitialised local: its first value is any int.
\* NO_UPDATE_COUNT_LIMIT + 1 stands for every int outside 0 .. the limit; from
\* there the counter may stay outside or come back to 0 (from -1).
UpdateCount == 0 .. NO_UPDATE_COUNT_LIMIT + 1
Counted(c) == IF c > NO_UPDATE_COUNT_LIMIT THEN {c, 0} ELSE {c + 1}

DaemonTypeOK ==
  /\ status \in [Node -> {"off", "running", "exited"}]
  /\ n_table \in [Node -> NeighbourTable]
  /\ r_table \in [Node -> RouteTable]
  /\ routing_table_changed \in [Node -> {0, 1}]
  /\ no_new_update_count \in [Node -> UpdateCount]

DaemonInit ==
  /\ status = [n \in Node |-> "off"]
  /\ n_table = [n \in Node |-> <<>>]
  /\ r_table = [n \in Node |-> <<>>]
  /\ routing_table_changed = [n \in Node |-> 0]
  /\ no_new_update_count = [n \in Node |-> 0]

Running == {n \in Node : status[n] = "running"}

-----------------------------------------------------------------------------
(* The neighbour table *)

\* find_neighbour_by_addr does not return -1.  (It also scans the unused
\* slots, which hold address 0; no host has that address.)
HasNeighbour(n_t, m) == \E i \in DOMAIN n_t : n_t[i].mip_addr = m

find_neighbour_by_addr(n_t, m) ==
  CHOOSE i \in DOMAIN n_t :
    /\ n_t[i].mip_addr = m
    /\ \A j \in 1 .. i - 1 : n_t[j].mip_addr # m

\* Like the route table, it stops one short of the array's size; the caller
\* then writes to neighbours[-1], which RoutingNetwork's DegreeAssumption
\* keeps out of the model.
neighbour_table_add_entry(n_t, m) ==
  IF Len(n_t) = MAX_NEIGHBOURS - 1
  THEN n_t
  ELSE Append(n_t, Entry(m, "INIT", 0))

\* Mutant of Heard: the time of a connected neighbour's HELLO is not kept.
HeardButNotTimed(n_t, i) ==
  [n_t EXCEPT ![i] = Entry(n_t[i].mip_addr, "CONNECTED", n_t[i].ticks)]

\* The table after a HELLO of its i-th neighbour.
Heard(n_t, i) == [n_t EXCEPT ![i] = Entry(n_t[i].mip_addr, "CONNECTED", 0)]

\* A neighbour's record after a tick, `lost` being the neighbours found silent.
Aged(nb, lost) ==
  IF nb.state = "DISCONNECTED" THEN nb
  ELSE IF nb.mip_addr \in lost
       THEN Entry(nb.mip_addr, "DISCONNECTED", 0)
       ELSE Entry(nb.mip_addr, nb.state, nb.ticks + 1)

\* Mutant of Silent: the limit is compared with the interval before.
SilentLate(n_t, ticks) ==
  {n_t[i].mip_addr : i \in {j \in DOMAIN n_t :
     /\ n_t[j].state # "DISCONNECTED"
     /\ n_t[j].ticks >= ticks}}

\* The neighbours that a tick may, and must, find silent for longer than
\* DISCONNECTION_TIME_LIMIT.
Silent(n_t, ticks) ==
  {n_t[i].mip_addr : i \in {j \in DOMAIN n_t :
     /\ n_t[j].state # "DISCONNECTED"
     /\ n_t[j].ticks + 1 >= ticks}}
MaySilent(n_t) == Silent(n_t, DISCONNECTION_TICKS + 1)
MustSilent(n_t) == Silent(n_t, DISCONNECTION_TICKS + 2)

-----------------------------------------------------------------------------
(* The handlers *)

\* main: the tables are zeroed, the timer is armed; the loop's counter is not
\* initialised.
StartDaemon(n) ==
  /\ status[n] = "off"
  /\ status' = [status EXCEPT ![n] = "running"]
  /\ \E count \in UpdateCount :
       no_new_update_count' = [no_new_update_count EXCEPT ![n] = count]
  /\ UNCHANGED <<n_table, r_table, routing_table_changed>>

\* The process ends, by itself or killed, and its memory with it.
StopDaemon(n, how) ==
  /\ status' = [status EXCEPT ![n] = how]
  /\ n_table' = [n_table EXCEPT ![n] = <<>>]
  /\ r_table' = [r_table EXCEPT ![n] = <<>>]
  /\ routing_table_changed' = [routing_table_changed EXCEPT ![n] = 0]
  /\ no_new_update_count' = [no_new_update_count EXCEPT ![n] = 0]

\* check_neighbours: the silent neighbours are disconnected, the routes
\* through them poisoned.
check_neighbours(n, lost) ==
  /\ MustSilent(n_table[n]) \subseteq lost
  /\ lost \subseteq MaySilent(n_table[n])
  /\ n_table' = [n_table EXCEPT ![n] =
                   [i \in DOMAIN @ |-> Aged(@[i], lost)]]
  /\ r_table' = [r_table EXCEPT ![n] = poison_reverse(@, lost)]

\* Whether this tick also sends UPDATEs.
UpdateDue(n, lost) ==
  \/ routing_table_changed[n] # 0
  \/ lost # {}
  \/ no_new_update_count[n] = NO_UPDATE_COUNT_LIMIT

\* The timer branch of the loop, up to what it sends.
TickDaemon(n, lost) ==
  /\ status[n] = "running"
  /\ check_neighbours(n, lost)
  /\ routing_table_changed' = [routing_table_changed EXCEPT ![n] = 0]
  /\ \E c \in IF UpdateDue(n, lost) THEN {0} ELSE Counted(no_new_update_count[n]) :
       no_new_update_count' = [no_new_update_count EXCEPT ![n] = c]
  /\ UNCHANGED status

\* Mutant of HelloFromNew: routing_table_changed is not set.
HelloFromNewUnmarked(n, m) ==
  /\ ~HasNeighbour(n_table[n], m)
  /\ n_table' = [n_table EXCEPT ![n] = neighbour_table_add_entry(@, m)]
  /\ r_table' = [r_table EXCEPT ![n] = routing_table_add_entry(@, m, m, 1)]
  /\ UNCHANGED <<status, routing_table_changed, no_new_update_count>>

\* handle_hello_message, case 1: the sender is not in the table.  A route
\* to it is added even if there is one.
HelloFromNew(n, m) ==
  /\ ~HasNeighbour(n_table[n], m)
  /\ n_table' = [n_table EXCEPT ![n] = neighbour_table_add_entry(@, m)]
  /\ r_table' = [r_table EXCEPT ![n] = routing_table_add_entry(@, m, m, 1)]
  /\ routing_table_changed' = [routing_table_changed EXCEPT ![n] = 1]
  /\ UNCHANGED <<status, no_new_update_count>>

\* Case 2, and the HELLO of a neighbour that is connected already.
HelloFromKnown(n, m) ==
  /\ HasNeighbour(n_table[n], m)
  /\ LET i == find_neighbour_by_addr(n_table[n], m)
     IN  /\ n_table[n][i].state # "DISCONNECTED"
         /\ n_table' = [n_table EXCEPT ![n] = Heard(@, i)]
  /\ UNCHANGED <<status, r_table, routing_table_changed, no_new_update_count>>

\* Case 3: the neighbour was disconnected.  The first route to it is set
\* back; the daemon exits if it has none.
HelloFromLost(n, m) ==
  LET i == find_neighbour_by_addr(n_table[n], m)
  IN  /\ HasNeighbour(n_table[n], m)
      /\ n_table[n][i].state = "DISCONNECTED"
      /\ \/ /\ HasRoute(r_table[n], m)
            /\ n_table' = [n_table EXCEPT ![n] = Heard(@, i)]
            /\ r_table' = [r_table EXCEPT ![n] = Restored(@, m)]
            /\ routing_table_changed' = [routing_table_changed EXCEPT ![n] = 1]
            /\ UNCHANGED <<status, no_new_update_count>>
         \/ /\ ~HasRoute(r_table[n], m)
            /\ StopDaemon(n, "exited")

handle_hello_message(n, m) ==
  /\ status[n] = "running"
  /\ \/ HelloFromNew(n, m)
     \/ HelloFromKnown(n, m)
     \/ HelloFromLost(n, m)

\* handle_update_message: the flag routing_table_changed is not set.
handle_update_message(n, m, table) ==
  /\ status[n] = "running"
  /\ r_table' = [r_table EXCEPT ![n] = compare_routing_tables(@, table, m)]
  /\ UNCHANGED <<status, n_table, routing_table_changed, no_new_update_count>>

\* handle_forwarding_packet, up to what it answers: a destination without a
\* route ends the daemon.
handle_forwarding_packet(n, dst) ==
  /\ status[n] = "running"
  /\ IF HasRoute(r_table[n], dst)
     THEN UNCHANGED daemon_vars
     ELSE StopDaemon(n, "exited")

\* The next hop it answers.  The cost of the route is not looked at.
NextHop(n, dst) ==
  r_table[n][routing_table_get_route_by_dst(r_table[n], dst)].next_hop

=============================================================================
