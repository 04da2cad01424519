----------------------------- MODULE Oblig1Ping -----------------------------
(***************************************************************************)
(* Pings over the daemons of oblig1: a server (server.c) on some hosts, and *)
(* clients (client.c) started after it, each sending one PING and waiting   *)
(* for a second for its PONG.  The hosts are chosen when they are started.  *)
(*                                                                          *)
(* The server makes a new connection for every ping, because mipd would     *)
(* never read a second message from the old one ("ugly fix").  It closes    *)
(* none.  A frame may be lost, once; nothing is sent again for it.  The     *)
(* wait of a client may end before its answer has come.  An application     *)
(* whose daemon has ended has nothing to wait for, and takes no further     *)
(* step.                                                                    *)
(***************************************************************************)
EXTENDS Oblig1Daemon

CONSTANTS
  ClientHosts,   \* per client the hosts it can be started on
  ServerHosts    \* the hosts with a server

ASSUME PingAssumption ==
  /\ ClientHosts \in [Ping -> SUBSET Node]
  /\ ServerHosts \subseteq Node

\* The server runs on "some node" (README.md): no host has two adjacent servers.
ASSUME ServerAssumption ==
  \A n \in Node : \A s, t \in ServerHosts \cap Neighbours(n) : s = t

\* What stands for no client and for no address is none.
ASSUME NoPingAssumption == NoPing \notin Ping
ASSUME NoAddrAssumption == NoAddr \notin Node

VARIABLES
  host,      \* the host each client is started on,
  dst,       \* and the one it pings
  server,    \* per server "off", "listening" or, before it connects again, "answered"
  client,    \* per client "idle", "connected", "waiting", "answered" or "gave up"
  answer     \* the message each client has taken for its answer

vars == <<daemonVars, seen, host, dst, server, client, answer>>

\* What the loss or mix-up of an answer needs: a client started on a host where
\* another application is connected; a client that gave up; a message for a
\* connection that has had one; an event reported behind another; a lost frame.
Use == {"same host", "gave up", "busy", "lost event", "lost frame"}

TypeOK ==
  /\ status \in [Node -> {"running", "ended"}]
  /\ sdu \in [Node -> Sdu]
  /\ conn \in [Node -> Seq(Connection)]
  /\ accepted \in [Node -> Nat] /\ socket_data \in [Node -> Int]
  /\ event \in [Node -> Int] /\ armed \in [Node -> SUBSET Int]
  /\ ready \in [Node -> Seq(Int)]
  /\ \A n \in Node :
       /\ accepted[n] \in 0 .. Len(conn[n])
       /\ socket_data[n] = IF accepted[n] = 0 THEN -1 ELSE accepted[n]
       /\ event[n] \in Connections(n) \cup {NoEvent, socket_raw, socket_unix}
       /\ armed[n] \subseteq Connections(n) \cup {socket_raw, socket_unix}
       /\ ready[n] \in Seq(armed[n])
  /\ arp_t \in [Node -> SUBSET Node]
  /\ raw \in [Node -> Seq(Frame)]
  /\ host \in [Ping -> Node] /\ dst \in [Ping -> Node]
  /\ server \in [ServerHosts -> {"off", "listening", "answered"}]
  /\ client \in [Ping -> {"idle", "connected", "waiting", "answered", "gave up"}]
  /\ answer \in [Ping -> Sdu]
  /\ seen \subseteq Use

\* A client can be given any address.
Init ==
  /\ DaemonInit
  /\ host \in [Ping -> Node]
  /\ dst \in [Ping -> Node]
  /\ \A k \in Ping : host[k] \in ClientHosts[k]
  /\ server = [s \in ServerHosts |-> "off"]
  /\ client = [k \in Ping |-> "idle"]
  /\ answer = [k \in Ping |-> ZeroSdu]
  /\ seen = {}

-----------------------------------------------------------------------------

\* A process connects at host n.
Connect(n, app) ==
  /\ status[n] = "running"
  /\ conn' = [conn EXCEPT ![n] = Append(@, Opened(app))]
  /\ ready' = Woken(n, socket_unix)
  /\ UNCHANGED <<status, sdu, socket_data, arp_t, accepted, event, armed, raw, host, dst>>

\* The process at the other end of connection f of host n has left it as c.
Uses(n, f, c) ==
  /\ conn' = [conn EXCEPT ![n][f] = c]
  /\ ready' = IF c.open /\ c.in = conn[n][f].in THEN ready ELSE Woken(n, f)
  /\ UNCHANGED <<status, sdu, socket_data, arp_t, accepted, event, armed, raw, host, dst>>

\* The connection a process has made last.
LastOf(n, app) ==
  CHOOSE f \in DOMAIN conn[n] :
    /\ conn[n][f].app = app
    /\ \A g \in DOMAIN conn[n] : conn[n][g].app = app => g <= f

(* The server *)

\* Mutant of ServerConnects: the old connection is closed before.
ServerClosesOld(s) ==
  /\ server[s] \in {"off", "answered"}
  /\ status[s] = "running"
  /\ conn' = [conn EXCEPT ![s] =
       Append([f \in DOMAIN @ |->
                 IF @[f].app = "server" THEN [@[f] EXCEPT !.open = FALSE] ELSE @[f]],
              Opened("server"))]
  /\ ready' = Woken(s, socket_unix)
  /\ server' = [server EXCEPT ![s] = "listening"]
  /\ UNCHANGED <<status, sdu, socket_data, arp_t, accepted, event, armed, raw,
                 host, dst, client, answer, seen>>

ServerConnects(s) ==
  /\ server[s] \in {"off", "answered"}
  /\ Connect(s, "server")
  /\ server' = [server EXCEPT ![s] = "listening"]
  /\ UNCHANGED <<client, answer, seen>>

\* Nothing but "PING" is changed in the message.
ServerAnswers(s) ==
  LET f == LastOf(s, "server")
      c == conn[s][f]
  IN  /\ status[s] = "running"
      /\ server[s] = "listening"
      /\ c.out # <<>>
      /\ Uses(s, f, [c EXCEPT !.out = Tail(@),
                              !.in = Append(@, [Head(c.out) EXCEPT !.payload = "PONG"])])
      /\ server' = [server EXCEPT ![s] = "answered"]
      /\ UNCHANGED <<client, answer, seen>>

(* The clients *)

OthersAt(k) ==
  {j \in Ping \ {k} : host[j] = host[k] /\ client[j] \in {"connected", "waiting"}}

ClientConnects(k) ==
  /\ client[k] = "idle"
  /\ \A s \in ServerHosts : server[s] # "off"
  /\ Connect(host[k], k)
  /\ client' = [client EXCEPT ![k] = "connected"]
  /\ seen' = IF OthersAt(k) # {} \/ host[k] \in ServerHosts
             THEN seen \cup {"same host"} ELSE seen
  /\ UNCHANGED <<server, answer>>

\* The connection of a client, while its daemon runs.
Mine(k) == LastOf(host[k], k)

ClientSends(k) ==
  /\ status[host[k]] = "running"
  /\ client[k] = "connected"
  /\ LET c == conn[host[k]][Mine(k)]
     IN  Uses(host[k], Mine(k), [c EXCEPT !.in = Append(@, Message(dst[k], "PING", k))])
  /\ client' = [client EXCEPT ![k] = "waiting"]
  /\ UNCHANGED <<server, answer, seen>>

\* The first message is taken for the answer, and the connection closed.
ClientReads(k) ==
  /\ status[host[k]] = "running"
  /\ client[k] = "waiting"
  /\ LET c == conn[host[k]][Mine(k)]
     IN  /\ c.out # <<>>
         /\ answer' = [answer EXCEPT ![k] = Head(c.out)]
         /\ Uses(host[k], Mine(k), [c EXCEPT !.out = Tail(@), !.open = FALSE])
  /\ client' = [client EXCEPT ![k] = "answered"]
  /\ UNCHANGED <<server, seen>>

\* After a second without a message.
ClientGivesUp(k) ==
  /\ status[host[k]] = "running"
  /\ client[k] = "waiting"
  /\ LET c == conn[host[k]][Mine(k)]
     IN  Uses(host[k], Mine(k), [c EXCEPT !.open = FALSE])
  /\ client' = [client EXCEPT ![k] = "gave up"]
  /\ seen' = seen \cup {"gave up"}
  /\ UNCHANGED <<server, answer>>

-----------------------------------------------------------------------------

\* One turn of the loop of a daemon.
Mipd(n) ==
  \/ epoll_wait(n)
  \/ handle_mip_arp(n)
  \/ handle_mip_ping(n)
  \/ new_unix_connection(n)
  \/ handle_unix_connection(n)

Next ==
  \/ \E n \in Node : Mipd(n) /\ UNCHANGED <<host, dst, server, client, answer>>
  \/ \E s \in ServerHosts : ServerConnects(s) \/ ServerAnswers(s)
  \/ \E k \in Ping : ClientConnects(k) \/ ClientSends(k) \/ ClientReads(k) \/ ClientGivesUp(k)

Spec == Init /\ [][Next]_vars

\* The daemons and the server are not stopped, and a client goes on once it has
\* connected.
Fairness ==
  /\ \A n \in Node : WF_vars(Mipd(n) /\ UNCHANGED <<host, dst, server, client, answer>>)
  /\ \A s \in ServerHosts : WF_vars(ServerConnects(s) \/ ServerAnswers(s))
  /\ \A k \in Ping : WF_vars(ClientSends(k) \/ ClientReads(k))

FairSpec == Spec /\ Fairness

-----------------------------------------------------------------------------
(* Properties *)

\* Clients ran one after another on their host, and each waited for its answer.
OneByOne == seen \cap {"same host", "gave up"} = {}

\* "then the server on some node, then you can run the client on a node"
\* (README.md): an adjacent host that is pinged has a server.  A PING to one
\* without ends the daemon there (write to socket_data, which is -1).
ServersPinged ==
  \A k \in Ping : dst[k] \in Neighbours(host[k]) => dst[k] \in ServerHosts

\* A client that waits, and has its host to itself, takes for its answer the
\* PONG of its own PING, from the host it has pinged (handle_mip_packet,
\* client.c), although sdu, socket_data and the arp table are shared by all.
AnswersAreOwn ==
  OneByOne /\ ServersPinged => \A k \in Ping :
    client[k] = "answered" => answer[k] = Message(dst[k], "PONG", k)

\* The message of a client is in one place: sdu, which is never cleared, is not
\* sent a second time by a RESPONSE that comes late.
Indices(s, k) == {i \in DOMAIN s : s[i].of = k}
CopiesAt(n, k) ==
  {<<n, socket_raw, "in", i>> : i \in {j \in DOMAIN raw[n] : raw[n][j].sdu.of = k}}
    \cup UNION {{<<n, f, "in", i>> : i \in Indices(conn[n][f].in, k)}
                 \cup {<<n, f, "out", i>> : i \in Indices(conn[n][f].out, k)} :
                 f \in DOMAIN conn[n]}
Copies(k) ==
  (UNION {CopiesAt(n, k) : n \in Node})
    \cup {<<host[p], Mine(p), "read", 1>> : p \in {q \in {k} : client[q] = "answered"}}
OneCopy ==
  OneByOne /\ ServersPinged => \A k \in Ping : Cardinality(Copies(k)) <= 1

\* No daemon ends (write to socket_unix in handle_mip_packet, read in
\* handle_unix_connection), also when pings overlap: the server leaves its old
\* connections open, and a PING that comes before it has connected again is
\* written to one of them.
DaemonsSurvive ==
  OneByOne /\ ServersPinged => \A n \in Node : status[n] = "running"

\* The connection mipd reads from is the one the event was for, so that the
\* read does not block (handle_unix_connection(socket_data, &sdu)).
ReadsFromEvent ==
  OneByOne => \A n \in Node : event[n] \in Connections(n) => event[n] = socket_data[n]

\* A client that keeps waiting for an adjacent host with a server is answered, as
\* long as all clients have their hosts to themselves and none gives up.  Two
\* exceptions lie in the code: pings met (a PING came to a server busy with one,
\* or the event of a PING or PONG was reported behind an earlier one, and
\* forgotten by mipd), or a frame was lost, which nothing in mipd sends again.
Answered ==
  \A k \in Ping :
    client[k] = "waiting" /\ dst[k] \in Neighbours(host[k]) \cap ServerHosts
      ~> client[k] = "answered" \/ seen # {}

=============================================================================
