---------------------------- MODULE Oblig1Daemon ----------------------------
(***************************************************************************)
(* The MIP daemons of oblig1, one on every host (mip_daemon.c, lib/mip.c,   *)
(* lib/sockets.c, lib/arp_table.c).                                         *)
(*                                                                          *)
(* mipd waits on epoll for its raw socket, for connections to its unix      *)
(* socket and for messages on those connections.  It handles the first      *)
(* event that epoll_wait returns and forgets the others.  A message is read *)
(* from socket_data, the connection accepted last, whichever connection the *)
(* event was for.  There is no forwarding: what is not for an adjacent host *)
(* is asked for with a MIP ARP request, and never sent.                     *)
(*                                                                          *)
(* The daemons run before anything else is started (README.md), and none of *)
(* them is started again.                                                   *)
(***************************************************************************)
EXTENDS Integers, Sequences, FiniteSets, SequencesExt, Epoll

CONSTANTS
  Node,             \* the hosts, each with its MIP address
  Link,             \* pairs of adjacent hosts, as sets of two
  Ping,             \* the pings, one for every run of the client
  MAX_ARP_ENTRIES   \* room in the arp table (3 in the code)

ASSUME LinkAssumption == \A l \in Link : l \subseteq Node /\ Cardinality(l) = 2

Neighbours(n) == {m \in Node \ {n} : {n, m} \in Link}

\* arp_table_n is not initialised: taken to be zero, or to count entries of no
\* host's address that leave room for the adjacent hosts.
ASSUME ArpTableAssumption ==
  \A n \in Node : Cardinality(Neighbours(n)) <= MAX_ARP_ENTRIES

VARIABLES
  status,        \* of the daemon: "running" or "ended"
  sdu,           \* the one message buffer of mipd
  socket_data,   \* the connection accepted last, or -1
  arp_t,         \* the addresses in the arp table
  conn,          \* the connections, in the order in which they were made
  accepted,      \* how many of them have been accepted
  event,         \* the descriptor mipd is handling, or NoEvent
  ready,         \* of epoll: the list of ready descriptors
  armed,         \* of epoll: the watched descriptors
  raw,           \* the frames that have come and not been read
  seen           \* history: how the applications have been used, see Oblig1Ping

daemonVars == <<status, sdu, socket_data, arp_t, conn, accepted, event, ready, armed, raw>>

\* Descriptors.  A connection has its number in conn: the daemon closes none,
\* so accept never hands out a number again.
socket_raw == -2
socket_unix == -3
NoEvent == -1
Connections(n) == 1 .. accepted[n]

NoAddr == "0"      \* the address in the zeroed sdu
NoPing == "none"

\* A struct unix_sock_sdu: an address, and "PING" or "PONG" with the text of a
\* client, which stands for the client.
Sdu == [mip_addr : Node \cup {NoAddr}, payload : {"", "PING", "PONG"}, of : Ping \cup {NoPing}]
Message(mip_addr, payload, of) == [mip_addr |-> mip_addr, payload |-> payload, of |-> of]
ZeroSdu == Message(NoAddr, "", NoPing)

\* The sdu of a frame is a PING's; of a MIP ARP message it is not read.
Frame == [type : {"REQUEST", "RESPONSE", "PING"}, src : Node, sdu : Sdu]
Arp(type, src) == [type |-> type, src |-> src, sdu |-> ZeroSdu]
PingFrame(src, s) == [type |-> "PING", src |-> src, sdu |-> s]

\* A connection: whose it is, whether that process has its end open, what was
\* written to (in) and by (out) mipd and not yet read.  used (history): mipd
\* has written to it.
Connection == [app : Ping \cup {"server"}, open : BOOLEAN, used : BOOLEAN,
               in : Seq(Sdu), out : Seq(Sdu)]
Opened(app) ==
  [app |-> app, open |-> TRUE, used |-> FALSE, in |-> <<>>, out |-> <<>>]

DaemonInit ==
  /\ status = [n \in Node |-> "running"]
  /\ sdu = [n \in Node |-> ZeroSdu]
  /\ socket_data = [n \in Node |-> -1]
  /\ arp_t = [n \in Node |-> {}]
  /\ conn = [n \in Node |-> <<>>]
  /\ accepted = [n \in Node |-> 0]
  /\ event = [n \in Node |-> NoEvent]
  /\ ready = [n \in Node |-> <<>>]
  /\ armed = [n \in Node |-> {socket_raw, socket_unix}]
  /\ raw = [n \in Node |-> <<>>]

-----------------------------------------------------------------------------
(* Sockets *)

\* read() from connection c fails: its other end was closed with messages
\* unread.  It returns 0 if it was closed and there are no more messages.
Reset(c) == ~c.open /\ c.out # <<>>
AtEnd(c) == ~c.open /\ c.out = <<>> /\ c.in = <<>>
HasMessage(c) == ~Reset(c) /\ c.in # <<>>

\* epoll takes c for readable.
HasInput(c) == c.in # <<>> \/ ~c.open

Readable(n) ==
  {f \in Connections(n) : HasInput(conn[n][f])}
    \cup {f \in {socket_raw} : raw[n] # <<>>}
    \cup {f \in {socket_unix} : accepted[n] < Len(conn[n])}

Woken(n, fd) == [ready EXCEPT ![n] = Wake(@, armed[n], fd)]

\* Host n has taken `rest` from its raw socket, and the frame is sent to the
\* hosts `to`.  Bound: one frame is lost.
Transmit(n, rest, to, frame) ==
  LET hears(m, got) == m \in got /\ status[m] = "running"
      left(m) == IF m = n THEN rest ELSE raw[m]
      losses == IF "lost frame" \in seen THEN {} ELSE {to \ {m} : m \in to}
  IN  \E got \in {to} \cup losses :
        /\ raw' = [m \in Node |-> IF hears(m, got) THEN Append(left(m), frame) ELSE left(m)]
        /\ ready' = [m \in Node |->
             IF hears(m, got) THEN Wake(ready[m], armed[m], socket_raw) ELSE ready[m]]
        /\ seen' = IF got = to THEN seen ELSE seen \cup {"lost frame"}

-----------------------------------------------------------------------------
(* The arp table *)

Known(n, addr) == addr \in arp_t[n]
Learned(n, addr) == arp_t' = [arp_t EXCEPT ![n] = @ \cup {addr}]

\* The hosts a REQUEST for the address goes to: on all interfaces, but none for
\* the own address.
Asked(n, addr) == IF addr = n THEN {} ELSE Neighbours(n)

-----------------------------------------------------------------------------
(* The loop of mipd *)

\* Mutant of epoll_wait: the last event is handled instead of the first.
EpollWaitTakesLast(n) ==
  LET reported == Reported(ready[n], Readable(n))
  IN  /\ status[n] = "running"
      /\ event[n] = NoEvent
      /\ ready[n] # <<>>
      /\ event' = [event EXCEPT ![n] = IF reported = <<>> THEN NoEvent ELSE Last(reported)]
      /\ ready' = [ready EXCEPT ![n] = ReadyAfter(reported, Connections(n))]
      /\ armed' = [armed EXCEPT ![n] = WatchedAfter(@, reported, Connections(n))]
      /\ seen' = IF \E i \in 2 .. Len(reported) : reported[i] \in Connections(n)
                 THEN seen \cup {"lost event"} ELSE seen
      /\ UNCHANGED <<status, sdu, socket_data, arp_t, conn, accepted, raw>>

\* The events reported after the first are not handled, and of those the
\* connections are disarmed.
epoll_wait(n) ==
  LET reported == Reported(ready[n], Readable(n))
  IN  /\ status[n] = "running"
      /\ event[n] = NoEvent
      /\ ready[n] # <<>>
      /\ event' = [event EXCEPT ![n] = IF reported = <<>> THEN NoEvent ELSE Head(reported)]
      /\ ready' = [ready EXCEPT ![n] = ReadyAfter(reported, Connections(n))]
      /\ armed' = [armed EXCEPT ![n] = WatchedAfter(@, reported, Connections(n))]
      /\ seen' = IF \E i \in 2 .. Len(reported) : reported[i] \in Connections(n)
                 THEN seen \cup {"lost event"} ELSE seen
      /\ UNCHANGED <<status, sdu, socket_data, arp_t, conn, accepted, raw>>

\* mipd is in the branch for fd, and goes back to epoll_wait at its end.
Handling(n, fd) ==
  /\ status[n] = "running"
  /\ event[n] = fd
  /\ event' = [event EXCEPT ![n] = NoEvent]

\* Mutant of handle_mip_arp: the sender of a RESPONSE is not looked at.
ArpAlwaysSends(n) ==
  LET frame == Head(raw[n])
      answer == IF frame.type = "REQUEST" THEN Arp("RESPONSE", n) ELSE PingFrame(n, sdu[n])
  IN  /\ Handling(n, socket_raw)
      /\ frame.type # "PING"
      /\ Learned(n, frame.src)
      /\ Transmit(n, Tail(raw[n]), {frame.src}, answer)
      /\ UNCHANGED <<status, sdu, socket_data, conn, accepted, armed>>

\* A MIP ARP message: its sender is learned.  A REQUEST is answered whichever
\* address it asks for.  A RESPONSE from the host that the message in sdu is
\* for has it sent there, and left in sdu.
handle_mip_arp(n) ==
  LET frame == Head(raw[n])
      wanted == frame.type = "RESPONSE" /\ frame.src = sdu[n].mip_addr
      answer == IF frame.type = "REQUEST" THEN Arp("RESPONSE", n) ELSE PingFrame(n, sdu[n])
  IN  /\ Handling(n, socket_raw)
      /\ frame.type # "PING"
      /\ Learned(n, frame.src)
      /\ Transmit(n, Tail(raw[n]),
                  IF frame.type = "REQUEST" \/ wanted THEN {frame.src} ELSE {}, answer)
      /\ UNCHANGED <<status, sdu, socket_data, conn, accepted, armed>>

\* A PING or PONG is written to socket_data, with the address of its sender.
\* Without a connection write fails; without a process at its other end the
\* daemon is killed by SIGPIPE.
handle_mip_ping(n) ==
  LET frame == Head(raw[n])
      f == socket_data[n]
      message == [frame.sdu EXCEPT !.mip_addr = frame.src]
  IN  /\ Handling(n, socket_raw)
      /\ frame.type = "PING"
      /\ sdu' = [sdu EXCEPT ![n] = message]
      /\ raw' = [raw EXCEPT ![n] = Tail(@)]
      /\ \/ /\ f # -1 /\ conn[n][f].open
            /\ conn' = [conn EXCEPT ![n][f].out = Append(@, message), ![n][f].used = TRUE]
            /\ seen' = IF conn[n][f].used THEN seen \cup {"busy"} ELSE seen
            /\ UNCHANGED status
         \/ /\ f # -1 => ~conn[n][f].open
            /\ status' = [status EXCEPT ![n] = "ended"]
            /\ UNCHANGED <<conn, seen>>
      /\ UNCHANGED <<socket_data, arp_t, accepted, ready, armed>>

\* Mutant of new_unix_connection: socket_data is set once only.
NewConnectionKeepsOld(n) ==
  LET f == accepted[n] + 1
  IN  /\ Handling(n, socket_unix)
      /\ socket_data' = [socket_data EXCEPT ![n] = IF @ = -1 THEN f ELSE @]
      /\ accepted' = [accepted EXCEPT ![n] = f]
      /\ armed' = [armed EXCEPT ![n] = @ \cup {f}]
      /\ ready' = [ready EXCEPT ![n] = Added(@, f, HasInput(conn[n][f]))]
      /\ UNCHANGED <<status, sdu, arp_t, conn, raw, seen>>

\* The oldest connection not yet accepted takes the place of socket_data.  It
\* is watched from now on, and ready at once if something is there to be read.
new_unix_connection(n) ==
  LET f == accepted[n] + 1
  IN  /\ Handling(n, socket_unix)
      /\ socket_data' = [socket_data EXCEPT ![n] = f]
      /\ accepted' = [accepted EXCEPT ![n] = f]
      /\ armed' = [armed EXCEPT ![n] = @ \cup {f}]
      /\ ready' = [ready EXCEPT ![n] = Added(@, f, HasInput(conn[n][f]))]
      /\ UNCHANGED <<status, sdu, arp_t, conn, raw, seen>>

\* The message in s is for an adjacent host that is known, or it is asked for.
SendSdu(n, s) ==
  LET dst == s.mip_addr
  IN  IF Known(n, dst)
      THEN Transmit(n, raw[n], {dst}, PingFrame(n, s))
      ELSE Transmit(n, raw[n], Asked(n, dst), Arp("REQUEST", n))

\* A message is read from socket_data; the step waits until there is one.  At
\* the end of the messages sdu is left as it is, and sent once more.
handle_unix_connection(n) ==
  LET f == socket_data[n]
      c == conn[n][f]
  IN  /\ event[n] \in Connections(n)
      /\ Handling(n, event[n])
      /\ \/ /\ HasMessage(c)
            /\ sdu' = [sdu EXCEPT ![n] = Head(c.in)]
            /\ conn' = [conn EXCEPT ![n][f].in = Tail(@)]
            /\ SendSdu(n, Head(c.in))
            /\ UNCHANGED status
         \/ /\ AtEnd(c)
            /\ SendSdu(n, sdu[n])
            /\ UNCHANGED <<status, sdu, conn>>
         \/ /\ Reset(c)
            /\ status' = [status EXCEPT ![n] = "ended"]
            /\ UNCHANGED <<sdu, conn, raw, ready, seen>>
      /\ UNCHANGED <<socket_data, arp_t, accepted, armed>>

=============================================================================
