# A TLA+ model of the MIP network stack

This directory models the programs of `src/home-exam1`: a MIP daemon, a routing
daemon and a ping client and server that together form a small network layer on
raw Ethernet sockets. The subject is what is hard to test in them: distance
vector routing between several daemons whose timers are not synchronised, with
frames that are lost, links that fail and processes that are restarted; and the
bookkeeping of a MIP daemon whose clients come and go. It also models
`src/oblig1`, the earlier stack without routing, from the kernel's epoll list up to
the client's answer.

Line numbers below refer to files under `src/home-exam1`, unless a path begins
with `oblig1`.

## 1. The system

| Part | Keeps | Does |
|---|---|---|
| **Routing daemon** (`routing_daemon.c`, `lib/routing.h`), one per host | neighbour table, route table, `routing_table_changed`, `no_new_update_count` | On each timer tick: disconnects silent neighbours and poisons their routes, sends a HELLO, and UPDATEs when something changed or every `NO_UPDATE_COUNT_LIMIT` ticks. On messages: HELLO, UPDATE, REQUEST. |
| **MIP daemon** (`mip_daemon.c`, `lib/mip.c`), one per host | arp table, forward queue, one message buffer `sdu`, three descriptor variables | Carries messages between its unix sockets and Ethernet frames. Learns hosts from routing frames. Sends a ping to an adjacent host, or queues it and asks the routing daemon. |
| **ARP table** (`lib/arp_table.c`) | addresses in order of arrival | add, look up |
| **Forward queue** (`lib/queue.c`) | a linked list and its length | push and pop at either end |
| **Ping server and client** (`server.c`, `client.c`) | nothing | The server turns PING into PONG. The client sends one PING and ends at the first message or after one second. |
| **Mininet script** (`mininet/he1-mn-script.py`) | the topology A-B, B-C, B-D, C-D, D-E with 1 % loss | starts everything, fails and repairs link B-D |
| **MIP daemon of oblig1** (`oblig1/mip_daemon.c`, `oblig1/lib/*.c`), one per host | arp table, one message buffer `sdu`, `socket_data`, an epoll instance | Reads a message from the connection accepted last and sends it, or sends a MIP ARP request; answers requests; sends what is in `sdu` when the response has come; hands a PING or PONG up. |
| **Ping server and client of oblig1** | nothing | As above, but the server connects again for every ping. |

*How they interact.* The MIP daemon listens on a unix socket
(`SOCK_SEQPACKET`). Routing daemon, server and client connect to it and say what
they are. The routing daemon's HEL and UPD messages become frames to the adjacent
hosts, whose MIP daemons hand them to their routing daemon. A ping for a host that is not
in the arp table makes the MIP daemon send REQ and queue the packet; the answer
RSP pops a packet. Every process is a single thread around `epoll_wait`, so a
handler is never interrupted; the concurrency is between processes and hosts.
In oblig1 there is no routing daemon and no forwarding: a ping reaches adjacent
hosts only.

*What makes them correct.*

- Route table: holds at most what fits, costs stay in range, the merge follows
  the distance vector rule, repeated UPDATEs are harmless.
- Routing daemons together: no host routes to itself or in a circle, next hops
  can be reached, one route per destination, a live neighbour is not taken for
  dead, a reconnecting neighbour has a route, and after any fault the tables
  settle on shortest paths.
- MIP daemon: descriptors are not mixed up although the kernel reuses their
  numbers, the arp table grows by adjacent hosts only and has an entry whenever one
  is used unchecked, an answer finds a packet, and a packet that waits is still the one that was queued.
- Forward queue: a bounded FIFO without leaks or use after free.
- oblig1: the buffer and the socket that all applications share never mix up the
  messages of clients that run one after another; no message is sent twice; the daemon
  neither ends nor blocks on a read; a ping is answered although only the
  first of several events is handled.

The hazards are listed with their lines in `PROJECT.json`.

## 2. The modules

| Module | Models | Extends |
|---|---|---|
| `RoutingTable` | operations on the route table, as operators on the sequence of the array's used records | |
| `RouteMerge` | one route table under any HELLO, timeout and UPDATE | `RoutingTable` |
| `RoutingDaemon` | a routing daemon's variables and handlers | `RoutingTable` |
| `RoutingNetwork` | the daemons of a network, messages under way, faults, fairness, the properties of routing | `RoutingDaemon` |
| `RoutingTree` | what holds in networks without cycles | `RoutingNetwork` |
| `LinkedQueue` | all of `queue.c`, on a heap | instantiates `ForwardQueue` |
| `ForwardQueue` | the abstract specification: a bounded FIFO | |
| `MipDaemon` | one MIP daemon and the processes around it | |
| `Epoll` | the kernel's list of ready descriptors, with EPOLLONESHOT | |
| `Oblig1Daemon` | the MIP daemons of oblig1 on all hosts, and the frames between them | `Epoll` |
| `Oblig1Ping` | the server and the clients over these daemons, fairness, the properties | `Oblig1Daemon` |
| `RoutingTableProof`, `RouteMergeProof` | proofs about the operators on the table, and about the merge | `RoutingTable`, `RouteMerge` |
| `RoutingNetworkProof`, `RoutingTreeProof`, `RoutingTimerProof` | proofs about all networks, about those without cycles, and about the timers | `RoutingNetwork`, `RoutingTree` |
| `LinkedQueueProof`, `MipDaemonProof` | proofs about the queue and the MIP daemon | `LinkedQueue`, `MipDaemon` |
| `Oblig1Proof` | proofs about oblig1 | `Oblig1Ping` |
| `MC...` | instances for TLC | |

Operators that begin with a comment `Mutant of` are variants of the definition
that follows them, each with one plausible bug. `PROJECT.json` says which
property TLC finds violated when the variant takes the definition's place.

### How state and actions correspond to the code

**Tables.** A C array with a count is the sequence of its first `count` records;
order is kept, because every lookup takes the first match. `routing_table_add_entry`
stops when the count is `MAX_ROUTES - 1` (l.114), so the last slot is never used;
the model does the same. Costs are `uint8_t`: `Truncate` is the conversion where
the code has one (`recv_cost + 1` into a parameter or a field).

**Loops.** `compare_routing_tables` and `send_update_message` loop over an
array. `MergeSteps` and `SplitHorizonSteps` are recursive functions that give the
table after each turn, which lets the proofs go by induction on the turn. `KeptSteps` does
the same for the kernel's walk along epoll's list.

**Handlers.** One action per branch of the daemon's event loop, run to its end,
with its exits: `HelloFromNew`, `HelloFromKnown`, `HelloFromLost` for the three
cases of `handle_hello_message` (the last with `exit` at l.330),
`handle_update_message`, `handle_forwarding_packet` (exit at l.477), and
`TickDaemon` for the timer branch. `RoutingNetwork` adds what each writes and reads.

**Time.** The daemon compares `time(NULL)` with `last_hello_time` only in a tick.
The model counts the daemon's own ticks since the last HELLO. A HELLO may arrive at
any point between two ticks and `time` truncates, so at tick
`DISCONNECTION_TICKS + 1` the neighbour *may*, and one later *must*, be found
silent; the tick chooses the set `lost` in between.

**Rounds.** All daemons have the same `TIMER_INTERVAL`. Between two ticks of one
daemon every other running daemon ticks once, give or take the order: time goes in rounds,
in each of which every daemon ticks once, in an order of its own (`ticked`). So another may
tick twice between two ticks of one daemon, or not at all, which is more jitter than
periodic timers have: the model has all orders of the code and some more. A daemon that
starts joins for the next round. A delivery takes milliseconds against an
interval of 10 s, so when a timer expires the messages of that daemon's previous
tick have arrived or are lost; `MaxBusy` bounds how many other channels still
carry messages.

**Faults.** `Lose` (the links have 1 % loss), `LinkDown` and `LinkUp` (the script
does both), `Kill` of a daemon and its restart. `Kill` also stands for the end of
the host's MIP daemon, at which the routing daemon exits (l.563). `MaxFaults`
bounds their number. A daemon that exits by itself is not started again.

**Uninitialised reads.** `no_new_update_count` (l.516) starts at any value:
`NO_UPDATE_COUNT_LIMIT + 1` stands for all values outside the range, from which
counting may stay outside or reach 0. `arp_table_n` (`mip_daemon.c:257`) starts
at the length of `Stray`, any sequence of addresses and of entries that match none; nothing
in the code ensures that it leaves room for the adjacent hosts, and nothing here assumes it. A
negative count, which writes in front of the table, is not modelled.

**MIP daemon.** Each branch of `mipd` is an action; the processes at the other
ends of its sockets are actions too: any number of clients, servers and routing daemons
at once, as far as the descriptors go, and processes that end before they have said what
they are (`NoType`: mipd reads 0 bytes and keeps the connection as `socket_data` only; no
program of the repository sends any other identifier). A connection has the messages written in both
directions and whether its process still lives. `accept` returns the lowest
free descriptor, as the kernel does, and a closed one is reused. Reading 0 bytes is
`AtEnd`. What the kernel does around it is modelled from its documented
behaviour: messages written before a close are still read; but a process that
ends with messages unread makes the peer's next read fail with ECONNRESET, upon which
`recv_unix_connection` exits (`ReadFails`); writing to a closed descriptor or a dead
peer ends the daemon. `socket_data` is whatever connected last and is never reset, so all of
these can happen, and a PING can be written to the routing daemon, which exits on it
(`RouterReads`): a model of what the code does, with no property that says otherwise. The queue holds the same pointer `&sdu` many times; the model
keeps the address that was there when it was pushed, so that `QueuedPacketKept`
can compare. `demand` is a history variable: it says whether more requests were unanswered
at once than the queue has entries, since the routing daemon connected.

**Queue.** `LinkedQueue` keeps `head`, `tail`, `length` and a heap that maps
addresses in use to entries; `calloc` returns any free address, so reuse after
`free` is covered. `Contents` follows the links from the head, and
with `contents <- Contents` each operation is one of `ForwardQueue`'s.
`queue_head_push` does not link the old head and `queue_tail_push` does not set
`prev`, so `queue_head_push` in front of another entry and `queue_tail_pop` from more
than one lose the rest of the list. Nothing in the program calls the two; `SafeCall` takes
them where they leave the list whole.

**oblig1.** `event` is what `mipd` is handling. Each step of a daemon is either
`epoll_wait`, which sets `event` to the first of the reported descriptors, or the
whole branch for that event; between the two, other processes and hosts may
act, and that is where `socket_data` can move on. `ready` is the kernel's list, in the
order in which descriptors became readable, and `armed` the watched ones: a
connection is added with EPOLLONESHOT, so once it has been reported, handled or not,
it is never reported again (`ReadyAfter`, `WatchedAfter`), while the raw and the
listening socket stay in the list as long as there is something to read. A connection's
descriptor is its number in the order of the `connect` calls, since neither the daemon
nor the server closes one; the raw and the listening socket have the numbers -2 and -3, and
`socket_data` is -1 as in the code before the first connection. `handle_unix_connection`
reads from `socket_data`: it waits if nothing is there (the action is not enabled, and the
daemon with it), leaves `sdu` as it is at the end of the messages (`AtEnd`), and exits on
a reset. Frames arrive at once, in order of sending, in the raw socket's queue
of each receiver; `Transmit` may lose one at one receiver. The text of a message is the
client that wrote it and whether it says PING or PONG. `seen` and `used` are history
variables: `seen` collects what the properties name as exceptions.
`arp_table_n` is uninitialised here too; `ArpTableAssumption` says what is assumed.

## 3. What is checked

Passing runs:

| Run | Instance | Shows |
|---|---|---|
| `routing_line` | a - b - c, one fault, requests for c; 1.3 M states | `RoutesFollowTree`: routes only follow the tree, so no loops and no counting to infinity. `OneRoutePerDestination`, `NeighbourHasRoute`: in a tree case 1 never duplicates a route and case 3 never exits. `NextHopAdjacent`. `UpdateShowsPoison`: an UPDATE never shows a table from before the tick's own poisoning. `UninitialisedCountHarmless`: whatever `no_new_update_count` starts at, a daemon that has neighbours counts within the limit or has a change to send. |
| `routing_line_live` | the same, fair, no requests; 0.35 M | `Converges`: whatever the one fault leaves behind, the tables settle on shortest paths. `NoFalseAlarm`: without a fault no neighbour that runs is disconnected. |
| `route_merge` | 3 destinations, 2 neighbours, UPDATEs of up to 2 routes, any cost; 4.7 k | `MergeFollowsRule`: a known destination gets the route of the distance vector rule, an unknown one is learned unless the table is full. It claims nothing of two cases, which `merge_risen` and `routing_wrap` are about. `MergeIsIdempotent`. |
| `queue_fifo` | 3 entries, 4 addresses, 2 values; 0.8 k | `IsFifo` (refinement of `ForwardQueue`), `NoLeak`, with every function of `queue.c`, flush included. |
| `oblig1_ping` | A - B - C, server on B, one client on A and one on any host, each pings any host; one lost frame; fair; 0.22 M | `AnswersAreOwn`, `OneCopy`, `DaemonsSurvive`, `ReadsFromEvent`: all for clients that run one after another on their host and wait for the answer, whatever the other hosts send meanwhile; the first three if no adjacent host without a server is pinged. `Answered`: a client that keeps waiting for an adjacent server gets its answer. |
| `mipd` | 3 descriptors, one adjacent and one distant host, queue of 1, one message per direction; 4.3 M | `SocketsAreTheirs`, `ArpTableGrows` (by one entry for each adjacent host at most), `UpdateHasArpEntry`. `ResponseFindsPacket`: an answer finds a packet, unless more requests were unanswered at once than the queue has entries. |

*The exceptions of oblig1.* `Answered` allows that a ping met another at the server, which
was between two connections ("busy"), that an event was reported behind another
and forgotten ("lost event"), and that a frame was lost; and it is about clients that have
their host to themselves and do not give up. The first three are needed: TLC finds a
counterexample if the busy server or the forgotten event is taken from the list, and nothing
sends a lost frame again. A lost event: a REQUEST and the server's PONG are reported together,
`mipd` handles the REQUEST, the PONG's connection is disarmed and the PONG never read. A busy
server: it has answered, and the next PING comes before its new connection is accepted, is
written to the old one and never read. The list is of all that has happened so far, on any host, so
`Answered` is about pings in an undisturbed system. The safety properties need only
`OneByOne` and `ServersPinged`: they hold through lost frames, lost events and a busy server.
Both conditions are needed. A PING to an adjacent host without a server ends that host's
daemon, whose `socket_data` is -1 (oblig1/lib/mip.c:173-176; oblig1/mip_daemon.c:34 notes the
edge case). The answer to a client that gave up is written to its closed connection, which
ends the daemon too, or is taken by the next client for its own; and what was asked for it
can have the next client's message sent twice. Of clients on one host
at the same time only the last to connect is read at all.

Runs whose property TLC finds violated, each a place where a comment or the test
script says otherwise:

| Run | What happens |
|---|---|
| `routing_wrap` | A destination that is unknown and announced as unreachable is added with cost `255 + 1 = 0` (l.393-398). It comes up when a daemon restarts and hears from a neighbour that has just lost the destination. |
| `triangle_converges` | No fault at all: b's MIP daemon delivers c's UPDATE, which names d, before d's first HELLO. The HELLO appends a second route to d; lookups keep finding the first, over c. Every later UPDATE of c confirms it, so b never uses its link to d. |
| `routing_kite` | The same duplicates fill the table; d keeps e as a neighbour without a route, and e's HELLO after a disconnection makes the daemon exit (l.330). |
| `mipd_alias` | A packet waiting for its route is overwritten by the next packet that passes through `sdu`. |
| `merge_risen` | A cost that has risen by one at the next hop equals the cost held, so it is taken for unchanged (l.408) and the table keeps the old one. |
| `mipd_queue_full` | `mipd` sends the request before it queues the packet and ignores that the queue is full (l.128-130), so there is an answer more to come than packets; it will pop NULL, which l.177 dereferences. |

*Bounds and why they are enough.* `ROUTING_COST_INFINITY` is 4: on three hosts
real costs are at most 2, so 3, 4 and the wrap to 0 can all be told from them.
`NO_UPDATE_COUNT_LIMIT` is 1 and `DISCONNECTION_TICKS` 2 (2 and 3 in the code),
which keeps the order "update period shorter than disconnection limit" and both
the tick that may and the tick that must disconnect. `MAX_ROUTES` is one more
than the routes a host needs on the line, as in the code on five hosts, and two
more on the triangle. One fault includes a loss, a failed link or a killed daemon at
any point. `MaxBusy = 0` leaves all orders of deliveries within a burst, on
different channels. Two clients are enough to have pings from two hosts meet at the
server, a second client run after a first on the same host, and a client share a
host with the server; the client at C also has the server reached from two interfaces. Pings to a
host that is not adjacent (A to C) and to the client's own host are among them; nothing
answers these, and the client can only give up. Three descriptors let an application be replaced while
a routing daemon is connected, two of a kind be connected at once, and a closed number be
reused. A queue of 1 is full after one packet, so that requests with a full queue, answers
that find it empty, and packets left over from a routing daemon that has gone all occur.
Deadlock checking is
off where processes may simply have nothing left to do (all daemons exited, bounds
reached); `queue_fifo` checks it. `mipd` identifies states that differ only
in `sdu` and in which addresses wait in the forward queue (a VIEW): both are written
and never tested, and none of that run's invariants but the type reads them.

*Fairness.* `FairSpec` assumes that every daemon is started (and started
again if killed), that timers keep expiring, that a frame which is not lost is
delivered and handled, and that a failed link is repaired. All are weak fairness
of single steps: `timerfd` is periodic, unix sockets are reliable, the
daemon reads whatever epoll reports, and the script brings the link up again. Loss and
failure are never fair, only bounded. Requests are not fair and are left out of the live runs.
In `Oblig1Ping` the turns of each daemon, the server's, and a connected client's
sending and reading are weakly fair, each process being a loop that
nothing stops. Starting a client and giving up are not fair.

## 4. What is proved

For every set of hosts and links, every table size, cost range, queue size, number of
descriptors and limit that satisfies the assumptions named below, with any bound on
messages, faults and busy channels:

| Theorem | Statement |
|---|---|
| `RoutingNetworkProof!TypeCorrect` | `Spec => []TypeOK`: among others that no table fills its last slot, costs stay in range and no neighbour is silent past the limit without being disconnected |
| `RoutingNetworkProof!HostsHaveNoRouteToSelf` | `Spec => []NoRouteToSelf` |
| `RoutingNetworkProof!NextHopsAreAdjacent` | `Spec => []NextHopAdjacent` |
| `RoutingTreeProof!RoutesNeverLeaveTree` | `Spec => []RoutesFollowTree`, from `TreeAssumption` |
| `RoutingTreeProof!OneRouteEach` | `Spec => []OneRoutePerDestination`, from `TreeAssumption` |
| `RoutingTreeProof!NeighboursHaveRoutes` | `Spec => []NeighbourHasRoute`, from `TreeAssumption` and `RoomAssumption` |
| `RoutingTimerProof!GarbageCountIsHarmless` | `Spec => []UninitialisedCountHarmless` |
| `RoutingTimerProof!UpdatesShowPoison` | `Spec => UpdateShowsPoison` |
| `RoutingTimerProof!NoneFalselyDisconnected` | `LimitAllowsDelay => (Spec => []NoFalseAlarm)` |
| `RouteMergeProof!MergedTablesTyped` | `Spec => []TypeOK` |
| `RouteMergeProof!MergeIsByTheRule` | `Spec => []MergeFollowsRule` |
| `RouteMergeProof!RepeatChangesNothing` | `Spec => []MergeIsIdempotent` |
| `LinkedQueueProof!QueueTypeSafe` | `Spec => []TypeOK` |
| `LinkedQueueProof!NothingLeaks` | `Spec => []NoLeak` |
| `LinkedQueueProof!ListIsFifo` | `Spec => IsFifo`: the list implements `ForwardQueue` |
| `MipDaemonProof!MipTypeSafe` | `Spec => []TypeOK` |
| `MipDaemonProof!SocketsTheirs` | `Spec => []SocketsAreTheirs` |
| `MipDaemonProof!ArpTableGrowsByNeighbours` | `Spec => []ArpTableGrows`, for any `Stray` |
| `MipDaemonProof!UpdatesHaveEntries` | `Spec => []UpdateHasArpEntry` |
| `MipDaemonProof!ResponsesFindPackets` | `Spec => []ResponseFindsPacket`: its condition on `demand` is part of the property |
| `Oblig1Proof!PingTypeSafe` | `Spec => [](TypeOK /\ Promises)` |
| `Oblig1Proof!MipdReadsFromEvent` | `Spec => []ReadsFromEvent`; the property supposes `OneByOne` |
| `Oblig1Proof!NoDaemonEnds` | `Spec => []DaemonsSurvive`, from `ServerAssumption`; the property supposes `OneByOne` and `ServersPinged` |
| `Oblig1Proof!AnswersBelong` | `Spec => []AnswersAreOwn`, from `ServerAssumption`; the property supposes `OneByOne` and `ServersPinged` |
| `Oblig1Proof!MessagesNotDoubled` | `Spec => []OneCopy`, from `ServerAssumption`; the property supposes `OneByOne` and `ServersPinged` |

*Assumptions*, each stated in the module that declares the constants: sizes and limits are
natural numbers (`MaxRoutesAssumption` and its like), infinity is at least 2, links join
two different hosts, and no host has more neighbours than its table has usable slots
(`DegreeAssumption`; otherwise the code writes to `neighbours[-1]`). `TreeAssumption` says
what makes `Toward` the paths of a tree. `RoomAssumption` says that there are at most
`MAX_ROUTES` hosts, as `lib/routing.h:54` does: the usable slots are then one per other
host. Of `MipDaemon` only types are assumed (`SizeAssumption`, `StrayAssumption`,
`FdAssumption`, `NeighbourAssumption`): nothing relates the number of messages to the queue's
size or the uninitialised count to the table's. `ArpTableAssumption` of `Oblig1Daemon` says
that what the uninitialised `arp_table_n` starts at leaves room for the adjacent hosts; no
other entry of the arp table is modelled there. `ServerAssumption` says that no host of oblig1 has two
adjacent servers; its README has one, "on some node". `NoPingAssumption` and
`NoAddrAssumption` keep what stands for no client and for no address apart from those
there are. `LimitAllowsDelay` is a hypothesis of its theorem: the limit is at least 3, as
in the code, or it is at least 2, channels are empty when a timer expires (`MaxBusy = 0`),
and hosts are finitely many.

*The table.* `RoutingTableProof` has the lemmas about the table operators: what
split horizon, poisoning, adding, restoring and merging do to each route,
by induction on the turn of the loop, written as a least counterexample because
the library's induction theorems take an operator as a parameter. `RouteMergeProof`
follows one destination through the loop: turns for other destinations leave its first
route alone (`TurnOther`), and the one turn for it does what the rule says (`TurnKnown`,
`TurnUnknown`). After the turn the destination is
*settled*: its first route is the one the rule makes of the table before the loop, or
there is none because the table is full. It stays settled to the end of the loop, and
for the second pass it is enough that the turn of a settled route changes nothing
(`SettledStays`).

*Paths.* The three path properties are not inductive: they are lost if an UPDATE under way
carries the wrong routes. `RoutingNetworkProof` therefore states one invariant, `RoutesOn`,
for any family `Legs` of pairs of a destination and a next hop that each host may hold:
stored routes are legs, and every route in an UPDATE from m to n names a destination that
split horizon and m's legs allow. It needs two facts of `Legs` only: a neighbour may be
reached directly, and through m whatever m may announce. "An adjacent host, and never for n
itself" and "the neighbour on the tree's path" are two instances, and the three theorems follow.

*One route each.* On a tree the invariant is `TablesAgree`: a host's routes have different
destinations, its neighbour entries different addresses, all of them adjacent, and an
adjacent host has a route exactly if it is a neighbour. The last part is what
`handle_hello_message` relies on without a test, and it is kept because no UPDATE ever names
a host adjacent to its receiver (`CarriedElsewhere`, from the path invariant): that is what
fails on a cycle, in `routing_kite`. That a new neighbour's route finds a slot is a count:
different destinations, none of them the host itself, are fewer than `MAX_ROUTES`.

*Timers.* `UninitialisedCountHarmless` becomes inductive with the fact that a daemon which
does not run has no neighbours, so one that starts with any count has none either (`Host`).
`UpdateShowsPoison` follows from the types: only a tick makes a channel longer, and it
poisons the table before it copies it. `NoFalseAlarm` needs a bound on how long a neighbour
can have gone unheard, `Punctual`: at most one tick if that neighbour has not ticked in this
interval yet, one more if the host itself has, and one more while a HELLO is under way.
That is 3 at most, and it is reached: with a limit of 2 and channels that are still busy when
a timer expires TLC finds a running neighbour disconnected.

*Queue.* The invariant of `LinkedQueueProof` is that there is a sequence of different
addresses, as long as `length`, which the heap holds and no others, in which `next` leads
from each to the following one (`List`). Each operation gives the sequence of the next
state; `Contents` reads the values along it, which is the refinement mapping.

*MIP daemon.* The properties are not inductive one by one. `IInv` adds that no
descriptor is open once the daemon has ended (`AllClosed`), that what waits in a connection's buffers is what its
process may write (`ConnInv`; for a routing daemon, UPDATEs only to hosts in the arp table),
and that the arp table has grown by hosts it did not hold (`ArpInv`).
`ResponseFindsPacket` is a count of the answers still to come from the one routing daemon that
`socket_routing` stands for: it starts at 0 when a routing daemon connects, each request adds
one to it and, as long as there is room, a packet to the queue, and each answer takes one from
both. A request with a full queue breaks that only if as many answers are outstanding as there
are entries, which is what `demand` records.

*oblig1.* Its `TypeOK` says that `socket_data` is the connection accepted last, that
epoll's list holds watched descriptors only, and watches those of accepted connections.
It needs `Promises`: a connection that is about to be accepted has been made, a frame that is about to
be read has come, and a process that is connected has its connection. The lemmas on `Kept`
say that `epoll_wait` reports readable descriptors of the list, the first of them first.
`ReadsFromEvent` is about a race: an event for one connection is handled with the
descriptor of another if a new one was accepted in between. The invariant is
`OneByOne => Alone`. It says of each host whose connections they are and in which state
(`Apps`); that all but the one accepted last are disarmed (`Turns`), so that no event for
an older one can be under way; that what is watched and readable is in epoll's list
(`Watches`), since a message that was overlooked would leave a connection armed when the next
is accepted; and of the server, which may connect again before its answer has been read, that
the answer is read first (`ServerTurns`). `Started` and `Quiet` hold the clients back
until the servers are connected.

The other three of oblig1 follow from one more invariant,
`OneByOne /\ ServersPinged => Passage`. It says
where a message can be and what it says there. `Texts`: a frame comes from an adjacent
host, requests come from hosts without a server only, and responses go to such hosts only;
a PING or PONG lies between the client's host and the server it pinged, with that client's
name on it. `Buffered`: what is left in `sdu` is of a client of this host and addressed to
the host it pings. `Arpd`: a server's daemon has entered each host that has entered the
server's, so that a PONG is sent at once and never waits in `sdu`. `Once`: the message of
a client that waits is in one queue, at one place, and that of any other in none. And
`Pending`, which is what keeps a RESPONSE from sending `sdu` again: as long as a request
to a server or its response is under way, it is the only one between the two hosts, and
`sdu` still holds the PING it was sent for. That needs `ServerAssumption`, because a
request goes to all neighbours and each of them answers, whichever address it asks for.
With servers on both sides of a host, the request for the first server can still lie at
the second when the first has answered; the next client's request for the second follows
it, two responses come back, and the PING is sent twice. TLC finds `OneCopy` and
`DaemonsSurvive` violated there. All queues are seen as one function from places to the
names in them (`Text`, `Asking`), and a handler as taking the head of one and putting a
value to the ends of others (`Taken`, `Put`), so that the lemmas on `Single` and `Absent`
are about that one step.

*Only model-checked*: the liveness properties `Converges` and `Answered` (out of the
prover's reach), and the six properties that are violated. Every safety property of a
passing run is proved. `HostsHaveNoRouteToSelf` has no run of its own: on the line
`RoutesFollowTree` implies it, and it is of interest on cycles, where TLC found it to hold on
`MCRoutingTriangle`'s three hosts.

## 5. What is not modelled

- Frame formats, raw sockets, argument handling, interface lookup, debug output: layout
  and I/O, with no state the properties could tell apart.
- MIP ARP of home-exam1: no code of home-exam1 sends a request, so no response can come.
- Addresses of 128 and more (compared with a signed char, l.469).
- In home-exam1, which of several ready descriptors epoll reports first, and so the
  starvation of others by an application that was replaced. `Epoll` is the model for it.
- In oblig1: the exit when `sendmsg` of a request fails (oblig1/lib/mip.c:287-290), and that
  `epoll_wait` reports at most 10 events (oblig1/mip_daemon.c:32, 48): the model reports, and
  disarms, all that are ready, which needs eleven messages at once to make a difference.
- In oblig1: the zero that `handle_unix_connection` writes past the end of its unused
  `buffer`, the end of a server that is stopped, and pings beyond what descriptors there are.
- The way of a PING over several hosts. home-exam1 has no such way: for a RSP `mipd` pops
  a packet and sends nothing (l.171-177), so only adjacent hosts answer. For the same
  reason routing daemons and MIP daemons are modelled apart: between hosts they share
  the routing frames only, which are `RoutingNetwork`'s channels, and on one host the
  sockets, which are `MipDaemon`'s.

## 6. Plan

Done, in this order: route table and routing daemon, their network, type, path and timer
proofs, the merge against its rule, the queue and its refinement, the MIP daemon, oblig1
from epoll to the client; then the proofs of the invariants on trees, of the disconnection
limit, of the merge, of the queue's refinement, of the MIP daemon, and of oblig1's types,
turns and messages.

Extending the model: `MipDaemon` over `Epoll`, for the liveness of applications that
replace each other; and, once `mipd` sends the packets it pops, the way of a PING over
several hosts.
