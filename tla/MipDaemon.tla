------------------------------ MODULE MipDaemon -----------------------------
(***************************************************************************)
(* The MIP daemon of one host (mip_daemon.c, lib/mip.c, lib/arp_table.c),   *)
(* with the processes that connect to its unix socket: routing daemons, ping *)
(* servers and ping clients, several of a kind at once, each started again  *)
(* any number of times.                                                     *)
(*                                                                          *)
(* mipd is a loop over epoll: one descriptor is ready, its branch runs to   *)
(* the end.  Each branch is one action.  Which of several ready descriptors *)
(* comes first in epoll's list is left open.                                *)
(*                                                                          *)
(* A unix socket keeps its messages in order, also those written before the *)
(* other end was closed.  But if that end was closed with messages unread,  *)
(* the next read fails (ECONNRESET), and the daemon exits.  It also ends    *)
(* when it writes to a descriptor that is not open, or whose other end is   *)
(* closed (EBADF and exit, or SIGPIPE).                                     *)
(***************************************************************************)
EXTENDS Integers, Sequences, FiniteSets, SequencesExt

CONSTANTS
  Neighbour,        \* the MIP addresses of the adjacent hosts
  Remote,           \* the addresses of other hosts
  Fd,               \* bound: the descriptors accept can return, 1 .. n
  Stray,            \* the entries that the uninitialised arp table seems to have
  MAX_QUEUE_SIZE,   \* entries the forward queue holds at most (16)
  MaxMessages       \* bound: messages under way on one connection, per direction

ASSUME FdAssumption == Fd \subseteq Nat \ {0} /\ IsFiniteSet(Fd)

ASSUME NeighbourAssumption == IsFiniteSet(Neighbour) /\ Neighbour \cap Remote = {}
ASSUME SizeAssumption == MaxMessages \in Nat \ {0} /\ MAX_QUEUE_SIZE \in Nat

Addr == Neighbour \cup Remote
NoAddr == "none"      \* of the zeroed sdu, and of no host

\* The arp table is not initialised: the array and arp_table_n are what the
\* stack holds, any number of entries with any addresses.
ASSUME StrayAssumption == Stray \in Seq(Addr \cup {NoAddr})

VARIABLES
  status,               \* of the daemon: "running" or "ended"
  conn,                 \* per descriptor the connection on it, or Closed
  socket_data,          \* the descriptor accepted last, never reset
  socket_application,   \* the descriptor of the application accepted last
  socket_routing,       \* of the routing daemon, as ifs_data.rusock; -1: none
  sdu,                  \* the address in the one message buffer of mipd
  arp_t,                \* the addresses in the arp table, in order
  forward_queue,        \* see queue_tail_push below
  demand                \* auxiliary: "exceeded" once the routing daemon attached
                        \* owed more answers than the forward queue has entries

vars == <<status, conn, socket_data, socket_application, socket_routing, sdu,
          arp_t, forward_queue, demand>>

SOCKET_TYPE == {"CLIENT", "SERVER", "ROUTER"}

\* Of a process that has ended before it wrote its type.
NoType == "UNKNOWN"

\* HEL, UPD, REQ and RSP are exchanged with the routing daemon, a PING with an
\* application.  addr is the address that mipd reads from the message or puts
\* in it.
Message == [type : {"HEL", "UPD", "REQ", "RSP", "PING"}, addr : Addr \cup {NoAddr}]
Msg(type, addr) == [type |-> type, addr |-> addr]

\* A connection: what the process is, whether it still has its end open, the
\* messages written to (in) and by (out) mipd and not yet read, and, of a
\* routing daemon, the neighbours it has heard from.
Connection ==
  [kind : SOCKET_TYPE \cup {NoType, "NONE"}, open : BOOLEAN, in : Seq(Message), out : Seq(Message),
   heard : SUBSET Addr]
Opened(kind, in) ==
  [kind |-> kind, open |-> TRUE, in |-> in, out |-> <<>>, heard |-> {}]
\* Its process has ended.
Left(c) == [c EXCEPT !.open = FALSE, !.heard = {}]
Closed == [Opened("NONE", <<>>) EXCEPT !.open = FALSE]

TypeOK ==
  /\ status \in {"running", "ended"}
  /\ conn \in [Fd -> Connection]
  /\ socket_data \in Fd \cup {-1}
  /\ socket_application \in Fd \cup {-1}
  /\ socket_routing \in Fd \cup {-1}
  /\ sdu \in Addr \cup {NoAddr}
  /\ arp_t \in Seq(Addr \cup {NoAddr})
  /\ forward_queue \in Seq(Addr) /\ Len(forward_queue) <= MAX_QUEUE_SIZE
  /\ demand \in {"met", "exceeded"}

Init ==
  /\ status = "running"
  /\ conn = [f \in Fd |-> Closed]
  /\ socket_data = -1
  /\ socket_application = -1
  /\ socket_routing = -1
  /\ sdu = NoAddr
  /\ arp_t = Stray
  /\ forward_queue = <<>>
  /\ demand = "met"

-----------------------------------------------------------------------------

IsOpen(f) == f # -1 /\ conn[f].kind # "NONE"

\* A read() from f fails, returns 0 at the end of the messages, or returns the
\* first of them.
Reset(f) == IsOpen(f) /\ ~conn[f].open /\ conn[f].out # <<>>
AtEnd(f) == IsOpen(f) /\ ~conn[f].open /\ conn[f].out = <<>> /\ conn[f].in = <<>>
Readable(f) == IsOpen(f) /\ ~Reset(f) /\ conn[f].in # <<>>
FirstFrom(f) == Head(conn[f].in)
Read(f) == [conn EXCEPT ![f].in = Tail(@)]

\* The processes of a kind that have their end of a connection open.
Alive(kind) == {f \in Fd : IsOpen(f) /\ conn[f].kind = kind /\ conn[f].open}

\* The daemon goes on with the connections c, or ends, and they with it.
GoesOn(c) == conn' = c /\ status' = "running"
Ends == conn' = [f \in Fd |-> Closed] /\ status' = "ended"

\* write(f, m): it fails unless f is open and the process at its other end is
\* still there.
Write(c, f, m) ==
  IF IsOpen(f) /\ conn[f].open
  THEN GoesOn([c EXCEPT ![f].out = Append(@, m)])
  ELSE Ends

\* Bound: there is room for a message to f.
HasRoom(f) == IsOpen(f) => Len(conn[f].out) < MaxMessages

\* The requests not answered, and the answers not read.
HowMany(s, type) == Cardinality({i \in DOMAIN s : s[i].type = type})
Unanswered(f) == HowMany(conn[f].out, "REQ") + HowMany(conn[f].in, "RSP")

-----------------------------------------------------------------------------
(* The arp table and the forward queue *)

\* arp_t_get_index_from_mip_addr does not return -1.
InArpTable(addr) == addr \in ToSet(arp_t)

\* There is no check for a free slot, see ArpTableGrows.
arp_t_add_entry(addr) == arp_t' = Append(arp_t, addr)

\* Mutants of queue_tail_push: full one entry early; full not tested for.
QueueTailPushStopsEarly(addr) ==
  forward_queue' = IF Len(forward_queue) = MAX_QUEUE_SIZE - 1
                   THEN forward_queue
                   ELSE Append(forward_queue, addr)
QueueTailPushUnchecked(addr) == forward_queue' = Append(forward_queue, addr)

\* Every entry of the queue holds the same pointer, &sdu.  In its place the
\* model keeps the address sdu held when the entry was pushed.
queue_tail_push(addr) ==
  forward_queue' = IF Len(forward_queue) = MAX_QUEUE_SIZE
                   THEN forward_queue
                   ELSE Append(forward_queue, addr)

-----------------------------------------------------------------------------
(* The branches of mipd *)

\* The listening socket: a process of this kind has connected, also when there
\* is one already.  accept returns the lowest free descriptor.  A client has
\* sent its PING by then.  The type of a process that has ended since is read as
\* 0 bytes: only socket_data is set, and epoll watches the descriptor for good.
NewConnection(kind, dst) ==
  LET free == {f \in Fd : ~IsOpen(f)}
      f == CHOOSE g \in free : \A h \in free : g <= h
      c == Opened(kind, IF kind = "CLIENT" THEN <<Msg("PING", dst)>> ELSE <<>>)
  IN  /\ status = "running"
      /\ free # {}
      /\ conn' = [conn EXCEPT ![f] = IF kind = NoType THEN Left(c) ELSE c]
      /\ socket_data' = f
      /\ socket_application' = IF kind \in {"CLIENT", "SERVER"} THEN f ELSE socket_application
      /\ socket_routing' = IF kind = "ROUTER" THEN f ELSE socket_routing
      /\ demand' = IF kind = "ROUTER" THEN "met" ELSE demand
      /\ UNCHANGED <<status, sdu, arp_t, forward_queue>>

\* The application has closed its end; socket_data is left as it is.
ApplicationClosed ==
  LET f == socket_application
  IN  /\ status = "running"
      /\ AtEnd(f)
      /\ conn' = [conn EXCEPT ![f] = Closed]
      /\ socket_application' = -1
      /\ UNCHANGED <<status, socket_data, socket_routing, sdu, arp_t, forward_queue, demand>>

\* A descriptor in use, of an application or of the routing daemon, was closed
\* with messages unread: recv_unix_connection exits.
ReadFails ==
  /\ status = "running"
  /\ Reset(socket_application) \/ Reset(socket_routing)
  /\ Ends
  /\ UNCHANGED <<socket_data, socket_application, socket_routing, sdu, arp_t, forward_queue, demand>>

\* As many requests to f are unanswered as the queue has entries.
Full(f) == IsOpen(f) /\ Unanswered(f) >= MAX_QUEUE_SIZE

\* A PING or PONG from the application: sent to an adjacent host, or kept
\* while the routing daemon is asked for the next hop.  The REQUEST is written
\* before the packet is queued, and also when the queue is full.
ApplicationEvent ==
  LET f == socket_application
      dst == FirstFrom(f).addr
  IN  /\ status = "running"
      /\ Readable(f)
      /\ sdu' = dst
      /\ \/ /\ InArpTable(dst)
            /\ GoesOn(Read(f))
            /\ UNCHANGED <<forward_queue, demand>>
         \/ /\ ~InArpTable(dst)
            /\ HasRoom(socket_routing)
            /\ Write(Read(f), socket_routing, Msg("REQ", dst))
            /\ queue_tail_push(dst)
            /\ demand' = IF Full(socket_routing) THEN "exceeded" ELSE demand
      /\ UNCHANGED <<socket_data, socket_application, socket_routing, arp_t>>

\* Mutant of RouterClosed: the descriptor is not forgotten.
RouterClosedRemembered ==
  /\ status = "running"
  /\ AtEnd(socket_routing)
  /\ conn' = [conn EXCEPT ![socket_routing] = Closed]
  /\ UNCHANGED <<status, socket_data, socket_application, socket_routing, sdu,
                 arp_t, forward_queue, demand>>

\* The routing daemon has ended.
RouterClosed ==
  LET f == socket_routing
  IN  /\ status = "running"
      /\ AtEnd(f)
      /\ conn' = [conn EXCEPT ![f] = Closed]
      /\ socket_routing' = -1
      /\ UNCHANGED <<status, socket_data, socket_application, sdu, arp_t, forward_queue, demand>>

\* HEL and UPD are sent on as frames.  For RSP the oldest entry of the queue is
\* popped and the packet looked at, whatever destination the answer is for; it
\* is not sent.  Popping from the empty queue gives NULL, which is dereferenced.
RouterEvent ==
  LET f == socket_routing
  IN  /\ status = "running"
      /\ Readable(f)
      /\ \/ /\ FirstFrom(f).type \in {"HEL", "UPD"}
            /\ GoesOn(Read(f))
            /\ UNCHANGED forward_queue
         \/ /\ FirstFrom(f).type = "RSP"
            /\ forward_queue # <<>>
            /\ GoesOn(Read(f))
            /\ forward_queue' = Tail(forward_queue)
         \/ /\ FirstFrom(f).type = "RSP"
            /\ forward_queue = <<>>
            /\ Ends
            /\ UNCHANGED forward_queue
      /\ UNCHANGED <<socket_data, socket_application, socket_routing, sdu, arp_t, demand>>

\* Mutants of handle_mip_route_packet: the sender is added without looking for
\* it; it is learned from UPDATEs only.
RoutePacketAlwaysAdds(type, m) ==
  /\ status = "running"
  /\ socket_routing # -1
  /\ HasRoom(socket_routing)
  /\ arp_t_add_entry(m)
  /\ Write(conn, socket_routing, Msg(type, m))
  /\ UNCHANGED <<socket_data, socket_application, socket_routing, sdu, forward_queue, demand>>
RoutePacketLearnsLate(type, m) ==
  /\ status = "running"
  /\ socket_routing # -1
  /\ HasRoom(socket_routing)
  /\ IF InArpTable(m) \/ type = "HEL" THEN UNCHANGED arp_t ELSE arp_t_add_entry(m)
  /\ Write(conn, socket_routing, Msg(type, m))
  /\ UNCHANGED <<socket_data, socket_application, socket_routing, sdu, forward_queue, demand>>

\* The raw socket: a HELLO or UPDATE from the adjacent host m.  It is dropped
\* when no routing daemon is attached.
handle_mip_route_packet(type, m) ==
  /\ status = "running"
  /\ socket_routing # -1
  /\ HasRoom(socket_routing)
  /\ IF InArpTable(m) THEN UNCHANGED arp_t ELSE arp_t_add_entry(m)
  /\ Write(conn, socket_routing, Msg(type, m))
  /\ UNCHANGED <<socket_data, socket_application, socket_routing, sdu, forward_queue, demand>>

\* The raw socket: a PING or PONG from m for this host.  (Every frame with a
\* PING is sent to an adjacent host, so none comes for another one.)
handle_mip_ping_packet(m) ==
  /\ status = "running"
  /\ sdu' = m
  /\ IF socket_data = -1
     THEN UNCHANGED <<status, conn>>
     ELSE /\ HasRoom(socket_data)
          /\ Write(conn, socket_data, Msg("PING", m))
  /\ UNCHANGED <<socket_data, socket_application, socket_routing, arp_t, forward_queue, demand>>

\* A frame from the adjacent host m.  (No host sends a MIP ARP message.)
handle_mip_packet(m) ==
  \/ \E type \in {"HEL", "UPD"} : handle_mip_route_packet(type, m)
  \/ handle_mip_ping_packet(m)

-----------------------------------------------------------------------------
(* The processes at the other ends *)

\* The process at f has ended, whatever it has not read: a client that has
\* waited for a second, a server or routing daemon that was stopped.
ProcessEnds(f) ==
  /\ IsOpen(f) /\ conn[f].open
  /\ conn' = [conn EXCEPT ![f] = Left(@)]
  /\ UNCHANGED <<status, socket_data, socket_application, socket_routing, sdu,
                 arp_t, forward_queue, demand>>

\* The routing daemon's timer: HELLO, and UPDATEs to its neighbours.
RouterSends(f) ==
  /\ f \in Alive("ROUTER")
  /\ Len(conn[f].in) < MaxMessages
  /\ \E m \in {Msg("HEL", NoAddr)} \cup {Msg("UPD", n) : n \in conn[f].heard} :
       conn' = [conn EXCEPT ![f].in = Append(@, m)]
  /\ UNCHANGED <<status, socket_data, socket_application, socket_routing, sdu,
                 arp_t, forward_queue, demand>>

\* The routing daemon reads a message: a HELLO makes the sender a neighbour, a
\* REQUEST is answered or, without a route, ends it; anything but a routing
\* message ends it too.
RouterReads(f) ==
  /\ f \in Alive("ROUTER")
  /\ conn[f].out # <<>>
  /\ LET m == Head(conn[f].out)
         c == [conn[f] EXCEPT !.out = Tail(@)]
     IN  \/ /\ m.type = "HEL"
            /\ conn' = [conn EXCEPT ![f] = [c EXCEPT !.heard = @ \cup {m.addr}]]
         \/ /\ m.type = "UPD"
            /\ conn' = [conn EXCEPT ![f] = c]
         \/ /\ m.type = "REQ"
            /\ Len(c.in) < MaxMessages
            /\ conn' = [conn EXCEPT ![f] =
                          [c EXCEPT !.in = Append(@, Msg("RSP", NoAddr))]]
         \/ /\ m.type \in {"REQ", "PING"}
            /\ conn' = [conn EXCEPT ![f] = Left(c)]
  /\ UNCHANGED <<status, socket_data, socket_application, socket_routing, sdu,
                 arp_t, forward_queue, demand>>

\* The server answers a PING with a PONG to where it came from.
ServerReads(f) ==
  /\ f \in Alive("SERVER")
  /\ conn[f].out # <<>>
  /\ Len(conn[f].in) < MaxMessages
  /\ conn' = [conn EXCEPT ![f].out = Tail(@),
                          ![f].in = Append(@, Head(conn[f].out))]
  /\ UNCHANGED <<status, socket_data, socket_application, socket_routing, sdu,
                 arp_t, forward_queue, demand>>

\* The client ends after the first message, which it takes for its PONG.
ClientReads(f) ==
  /\ f \in Alive("CLIENT")
  /\ conn[f].out # <<>>
  /\ conn' = [conn EXCEPT ![f] = Left([conn[f] EXCEPT !.out = Tail(@)])]
  /\ UNCHANGED <<status, socket_data, socket_application, socket_routing, sdu,
                 arp_t, forward_queue, demand>>

-----------------------------------------------------------------------------

Next ==
  \/ \E kind \in SOCKET_TYPE \cup {NoType}, dst \in Addr : NewConnection(kind, dst)
  \/ ApplicationClosed
  \/ ApplicationEvent
  \/ ReadFails
  \/ RouterClosed
  \/ RouterEvent
  \/ \E m \in Neighbour : handle_mip_packet(m)
  \/ \E f \in Fd : ProcessEnds(f) \/ RouterSends(f) \/ RouterReads(f)
  \/ \E f \in Fd : ServerReads(f) \/ ClientReads(f)

Spec == Init /\ [][Next]_vars

-----------------------------------------------------------------------------
(* Properties *)

\* The descriptor mipd takes for the routing daemon's is its connection, and
\* the one it takes for the application's an application's, although the
\* kernel gives the numbers of closed descriptors out again.
SocketsAreTheirs ==
  status = "running" =>
    /\ socket_routing # -1 => conn[socket_routing].kind = "ROUTER"
    /\ socket_application # -1 =>
         conn[socket_application].kind \in {"CLIENT", "SERVER"}

\* mipd adds a host to the arp table once (handle_mip_route_packet looks for the
\* sender before it adds it), so the table, which arp_t_add_entry writes without
\* a test for room, grows by the adjacent hosts at most.
ArpTableGrows == Len(arp_t) <= Len(Stray) + Cardinality(Neighbour)

\* Every UPDATE the routing daemon sends is to a host in the arp table, so
\* send_mip_route_update, which does not test the index, never uses index -1:
\* the MIP daemon learns a host before the routing daemon hears its HELLO, and
\* keeps it when the routing daemon is started again.
UpdateHasArpEntry ==
  \A f \in Fd : IsOpen(f) =>
    \A i \in DOMAIN conn[f].in :
      conn[f].in[i].type = "UPD" => InArpTable(conn[f].in[i].addr)

\* A packet waits in the forward queue for every request the routing daemon
\* has not answered and every answer not yet read, so the packet popped for an
\* answer is never NULL (mipd), unless more requests were unanswered at once than
\* the queue has entries.  So no restart of a routing daemon with requests
\* unanswered, second routing daemon, or queue full of packets whose answers
\* never come leads to it.
ResponseFindsPacket ==
  demand = "met" /\ socket_routing # -1 =>
    Unanswered(socket_routing) <= Len(forward_queue)

\* The same without the exception (mipd: "we have an sdu for %d waiting").
EveryResponseFindsPacket ==
  socket_routing # -1 => Unanswered(socket_routing) <= Len(forward_queue)

\* A packet waiting in the forward queue is still the one that was queued
\* (mipd: "search queue for a packet that is to be sent to the dst mip addr in
\* the request").
QueuedPacketKept ==
  \A i \in DOMAIN forward_queue : sdu = forward_queue[i]

=============================================================================
