-------------------------- MODULE RoutingTimerProof -------------------------
(***************************************************************************)
(* Theorems about the timer branch of routing_daemon: the counter it does   *)
(* not initialise, and the UPDATEs it sends.                                *)
(***************************************************************************)
EXTENDS RoutingNetworkProof, FiniteSetTheorems

-----------------------------------------------------------------------------
(* The counter. *)

\* The inductive invariant of one host: a daemon that does not run has no
\* neighbours, so one that starts has none either, whatever its counter holds.
HostInv(running, table, changed, count) ==
  /\ ~running => table = <<>>
  /\ table # <<>> => changed = 1 \/ count <= NO_UPDATE_COUNT_LIMIT
Host(n) ==
  HostInv(status[n] = "running", n_table[n], routing_table_changed[n],
          no_new_update_count[n])

CountInv == \A n \in Node : Host(n)

\* A host that stops is as one that was never started.
LEMMA StopKeeps ==
  ASSUME TypeOK, NEW n \in Node, NEW how \in {"off", "exited"},
         StopDaemon(n, how), \A k \in Node : Host(k)
  PROVE  \A k \in Node : Host(k)'
BY DEF TypeOK, DaemonTypeOK, StopDaemon, Host, HostInv

LEMMA StartKeeps ==
  ASSUME TypeOK, NEW n \in Node, StartDaemon(n), \A k \in Node : Host(k)
  PROVE  \A k \in Node : Host(k)'
BY DEF TypeOK, DaemonTypeOK, StartDaemon, Host, HostInv

\* A tick counts up to the limit at most, from a value that is not above it.
LEMMA TickKeeps ==
  ASSUME TypeOK, NEW n \in Node, NEW lost, TickDaemon(n, lost),
         \A k \in Node : Host(k)
  PROVE  \A k \in Node : Host(k)'
<1>1. ASSUME NEW k \in Node, k # n PROVE Host(k)'
  BY <1>1 DEF TypeOK, DaemonTypeOK, TickDaemon, check_neighbours, Host
<1>2. Host(n)'
  <2>1. SUFFICES ASSUME n_table'[n] # <<>>
        PROVE  no_new_update_count'[n] <= NO_UPDATE_COUNT_LIMIT
    BY DEF TickDaemon, Host, HostInv
  <2>2. n_table[n] # <<>>
    BY <2>1 DEF TypeOK, DaemonTypeOK, TickDaemon, check_neighbours
  <2>3. routing_table_changed[n] = 1 \/ no_new_update_count[n] <= NO_UPDATE_COUNT_LIMIT
    BY <2>2 DEF Host, HostInv
  <2>4. CASE UpdateDue(n, lost)
    BY <2>4, UpdateLimitAssumption DEF TypeOK, DaemonTypeOK, TickDaemon
  <2>5. CASE ~UpdateDue(n, lost)
    <3>1. no_new_update_count[n] < NO_UPDATE_COUNT_LIMIT
      BY <2>3, <2>5, UpdateLimitAssumption
      DEF UpdateDue, TypeOK, DaemonTypeOK, UpdateCount
    <3> QED BY <2>5, <3>1, UpdateLimitAssumption
            DEF TickDaemon, Counted, TypeOK, DaemonTypeOK, UpdateCount
  <2> QED BY <2>4, <2>5
<1> QED BY <1>1, <1>2

\* The first HELLO of a neighbour sets the flag; the others come from one that
\* is in the table.
LEMMA HelloKeeps ==
  ASSUME TypeOK, NEW n \in Node, NEW m \in Node, handle_hello_message(n, m),
         \A k \in Node : Host(k)
  PROVE  \A k \in Node : Host(k)'
<1>1. status[n] = "running"
  BY DEF handle_hello_message
<1>2. HasNeighbour(n_table[n], m) => n_table[n] # <<>>
  BY DEF HasNeighbour
<1>3. CASE HelloFromNew(n, m)
  BY <1>1, <1>3 DEF HelloFromNew, TypeOK, DaemonTypeOK, Host, HostInv
<1>4. CASE HelloFromKnown(n, m)
  BY <1>1, <1>2, <1>4 DEF HelloFromKnown, TypeOK, DaemonTypeOK, Host, HostInv
<1>5. CASE HelloFromLost(n, m)
  <2>1. CASE HasRoute(r_table[n], m)
    BY <1>1, <1>5, <2>1 DEF HelloFromLost, TypeOK, DaemonTypeOK, Host, HostInv
  <2>2. CASE ~HasRoute(r_table[n], m)
    BY <1>5, <2>2, StopKeeps DEF HelloFromLost
  <2> QED BY <2>1, <2>2
<1> QED BY <1>3, <1>4, <1>5 DEF handle_hello_message

LEMMA CountInvNext == TypeOK /\ CountInv /\ [Next]_vars => CountInv'
<1> SUFFICES ASSUME TypeOK, \A k \in Node : Host(k), [Next]_vars
    PROVE  \A k \in Node : Host(k)'
  BY DEF CountInv
<1>1. ASSUME UNCHANGED <<status, n_table, routing_table_changed, no_new_update_count>>
      PROVE  \A k \in Node : Host(k)'
  BY <1>1 DEF Host
<1>2. ASSUME NEW n \in Node, Start(n) PROVE \A k \in Node : Host(k)'
  BY <1>2, StartKeeps DEF Start
<1>3. ASSUME NEW n \in Node, Tick(n) PROVE \A k \in Node : Host(k)'
  BY <1>3, TickKeeps DEF Tick
<1>4. ASSUME NEW n \in Node, NEW m \in Adjacent(n), ReceiveHello(m, n)
      PROVE  \A k \in Node : Host(k)'
  BY <1>4, HelloKeeps, ChannelHosts DEF ReceiveHello
<1>5. ASSUME NEW n \in Node, NEW dst \in Lookup, Request(n, dst)
      PROVE  \A k \in Node : Host(k)'
  BY <1>1, <1>5, StopKeeps DEF Request, handle_forwarding_packet, daemon_vars
<1>6. ASSUME NEW n \in Node, Kill(n) PROVE \A k \in Node : Host(k)'
  BY <1>6, StopKeeps DEF Kill
<1>7. ASSUME \/ \E n \in Node : \/ \E m \in Adjacent(n) : ReceiveUpdate(m, n)
                                \/ ReadResponse(n)
             \/ \E c \in Channel : Lose(c[1], c[2])
             \/ \E l \in Link : LinkDown(l) \/ LinkUp(l)
             \/ UNCHANGED vars
      PROVE  \A k \in Node : Host(k)'
  BY <1>1, <1>7
  DEF ReceiveUpdate, handle_update_message, ReadResponse, Lose, LinkDown, LinkUp,
      daemon_vars, vars
<1> QED
  BY <1>2, <1>3, <1>4, <1>5, <1>6, <1>7 DEF Next, Daemon, Environment

\* Whatever the counter holds when a daemon starts, it never decides when the
\* daemon sends UPDATEs to a neighbour: in every network, for every limit and
\* every first value.
THEOREM GarbageCountIsHarmless == Spec => []UninitialisedCountHarmless
<1>1. Init => CountInv
  BY DEF Init, DaemonInit, CountInv, Host, HostInv
<1>2. CountInv => UninitialisedCountHarmless
  BY DEF CountInv, Host, HostInv, UninitialisedCountHarmless
<1> QED BY <1>1, <1>2, CountInvNext, TypeCorrect, PTL DEF Spec

-----------------------------------------------------------------------------
(* The UPDATEs. *)

\* What a step puts on a channel: nothing if the channel does not grow, and
\* what was appended if it does.
Added(s, t) == SubSeq(t, Len(s) + 1, Len(t))

LEMMA AddedNone ==
  ASSUME NEW s \in Seq(Message), NEW t \in Seq(Message), Len(t) <= Len(s)
  PROVE  DOMAIN Added(s, t) = {}
BY DEF Added

LEMMA AddedAppended ==
  ASSUME NEW s \in Seq(Message), NEW e \in Seq(Message)
  PROVE  Added(s, s \o e) = e
<1> DEFINE t == s \o e
<1>1. t \in Seq(Message) /\ Len(t) = Len(s) + Len(e) /\ Len(s) \in Nat /\ Len(e) \in Nat
  OBVIOUS
<1>2. \A i \in 1 .. Len(e) : t[Len(s) + i] = e[i]
  OBVIOUS
<1> HIDE DEF t
<1>3. Added(s, t) \in Seq(Message) /\ Len(Added(s, t)) = Len(e)
  BY <1>1 DEF Added
<1>4. \A i \in 1 .. Len(e) : Added(s, t)[i] = t[Len(s) + i]
  BY <1>1 DEF Added
<1> QED BY <1>2, <1>3, <1>4 DEF t

\* The UPDATEs just put on c show the sender's table as it is now.
Shows(c) ==
  \A i \in DOMAIN Added(chan[c], chan'[c]) :
    Added(chan[c], chan'[c])[i].type = "UPD" =>
      Added(chan[c], chan'[c])[i].table = SplitHorizon(r_table'[c[1]], c[2])

LEMMA TickShows ==
  ASSUME TypeOK, NEW n \in Node, Tick(n), NEW c \in Channel
  PROVE  Shows(c)
<1>1. PICK lost \in SUBSET MaySilent(n_table[n]) :
        /\ TickDaemon(n, lost)
        /\ chan' = [k \in Channel |->
                      IF k[1] = n /\ Reaches(n, k[2])
                      THEN chan[k] \o Sent(n, k[2], lost)
                      ELSE chan[k]]
  BY DEF Tick
<1>2. chan[c] \in Seq(Message) /\ c[2] \in Node
  BY ChannelHosts DEF TypeOK
<1>3. CASE chan'[c] = chan[c]
  BY <1>2, <1>3, AddedNone DEF Shows
<1>4. CASE c[1] = n /\ chan'[c] = chan[c] \o Sent(n, c[2], lost)
  <2> DEFINE table == SplitHorizon(poison_reverse(r_table[n], lost), c[2])
  <2>1. Added(chan[c], chan'[c]) = Sent(n, c[2], lost)
    BY <1>2, <1>4, SentType, AddedAppended
  <2>2. Sent(n, c[2], lost) = <<Hello, Update(table)>> \/ Sent(n, c[2], lost) = <<Hello>>
    BY DEF Sent
  <2>3. r_table'[c[1]] = poison_reverse(r_table[n], lost)
    BY <1>1, <1>4 DEF TickDaemon, check_neighbours, TypeOK, DaemonTypeOK
  <2>4. Hello.type # "UPD" /\ Update(table).table = table
    BY DEF Hello, Update
  <2> HIDE DEF table
  <2>5. \A i \in DOMAIN Sent(n, c[2], lost) :
          Sent(n, c[2], lost)[i].type = "UPD" => Sent(n, c[2], lost)[i].table = table
    BY <2>2, <2>4
  <2> QED BY <2>1, <2>3, <2>5 DEF Shows, table
<1> QED BY <1>1, <1>3, <1>4

\* No other step makes a channel longer.
LEMMA OthersShow ==
  ASSUME TypeOK, NEW c \in Channel,
         chan'[c] = chan[c] \/ chan'[c] = <<>>
           \/ (chan[c] # <<>> /\ chan'[c] = Tail(chan[c]))
  PROVE  Shows(c)
<1>1. chan[c] \in Seq(Message)
  BY DEF TypeOK
<1>2. \A s \in Seq(Message) :
        s # <<>> => Tail(s) \in Seq(Message) /\ Len(Tail(s)) <= Len(s)
  OBVIOUS
<1>3. <<>> \in Seq(Message) /\ Len(<<>>) = 0 /\ Len(chan[c]) \in Nat
  BY <1>1
<1>4. chan'[c] \in Seq(Message) /\ Len(chan'[c]) <= Len(chan[c])
  <2>1. CASE chan'[c] = chan[c]
    BY <1>1, <1>3, <2>1
  <2>2. CASE chan'[c] = <<>>
    BY <1>3, <2>2
  <2>3. CASE chan[c] # <<>> /\ chan'[c] = Tail(chan[c])
    BY <1>1, <1>2, <2>3
  <2> QED BY <2>1, <2>2, <2>3
<1> QED BY <1>1, <1>4, AddedNone DEF Shows

LEMMA NextShows == TypeOK /\ [Next]_vars => \A c \in Channel : Shows(c)
<1> SUFFICES ASSUME TypeOK, [Next]_vars, NEW c \in Channel PROVE Shows(c)
  OBVIOUS
<1>1. ASSUME NEW n \in Node, Tick(n) PROVE Shows(c)
  BY <1>1, TickShows
<1>2. ASSUME UNCHANGED chan PROVE Shows(c)
  BY <1>2, OthersShow
<1>3. ASSUME NEW n \in Node, chan' = Unread(n) PROVE Shows(c)
  BY <1>3, OthersShow DEF Unread
<1>4. ASSUME NEW k \in Channel, chan[k] # <<>>, chan' = [chan EXCEPT ![k] = Tail(@)]
      PROVE  Shows(c)
  BY <1>4, OthersShow DEF TypeOK
<1>5. ASSUME NEW n \in Node, NEW m \in Adjacent(n),
             ReceiveHello(m, n) \/ ReceiveUpdate(m, n)
      PROVE  Shows(c)
  <2>1. <<m, n>> \in Channel
    BY ChannelHosts
  <2> QED BY <1>3, <1>4, <1>5, <2>1 DEF ReceiveHello, ReceiveUpdate, Taken
<1>6. ASSUME NEW n \in Node, NEW dst \in Lookup, Request(n, dst) PROVE Shows(c)
  BY <1>2, <1>3, <1>6 DEF Request
<1>7. ASSUME NEW k \in Channel, Lose(k[1], k[2]) PROVE Shows(c)
  <2>1. <<k[1], k[2]>> = k
    BY DEF Channel
  <2> QED BY <1>4, <1>7, <2>1 DEF Lose
<1>8. ASSUME NEW l \in Link, LinkDown(l) PROVE Shows(c)
  BY <1>8, OthersShow DEF LinkDown
<1>9. ASSUME NEW n \in Node, Kill(n) PROVE Shows(c)
  BY <1>3, <1>9 DEF Kill
<1>10. ASSUME \/ \E n \in Node : Start(n) \/ ReadResponse(n)
              \/ \E l \in Link : LinkUp(l)
              \/ UNCHANGED vars
       PROVE  Shows(c)
  BY <1>2, <1>10 DEF Start, ReadResponse, LinkUp, vars, net_vars
<1> QED
  BY <1>1, <1>5, <1>6, <1>7, <1>8, <1>9, <1>10 DEF Next, Daemon, Environment

\* In every network, whatever neighbours a tick finds silent, no UPDATE it
\* sends still offers a route that the tick has poisoned.
THEOREM UpdatesShowPoison == Spec => UpdateShowsPoison
<1>1. TypeOK /\ [Next]_vars =>
        [\A c \in Channel :
           LET added == SubSeq(chan'[c], Len(chan[c]) + 1, Len(chan'[c]))
           IN  \A i \in DOMAIN added :
                 added[i].type = "UPD"
                   => added[i].table = SplitHorizon(r_table'[c[1]], c[2])]_vars
  BY NextShows DEF Shows, Added
<1> QED BY <1>1, TypeCorrect, PTL DEF Spec, UpdateShowsPoison

-----------------------------------------------------------------------------
(* The HELLOs. *)

HelloIn(s) == \E k \in DOMAIN s : s[k].type = "HEL"

\* The number of ticks of n since it last heard its neighbour m is at most one
\* for each of: m has not ticked in this interval, n has, and a HELLO of m is
\* under way.  ti and ch are the values of ticked and chan.
MostTicks(m, n, ti, ch) ==
  (IF m \in ti THEN 0 ELSE 1) + (IF n \in ti THEN 1 ELSE 0)
    + (IF HelloIn(ch[<<m, n>>]) THEN 1 ELSE 0)

\* A neighbour of n has been started, and one that has not ended has been heard
\* in time.  st is the value of status.
InTime(n, nb, st, ti, ch) ==
  LET m == nb.mip_addr
  IN  /\ m \in Adjacent(n)
      /\ st[n] = "running" /\ st[m] # "off"
      /\ st[m] = "running" => /\ nb.state # "DISCONNECTED"
                              /\ nb.ticks <= MostTicks(m, n, ti, ch)

AllInTime ==
  \A n \in Node : \A i \in DOMAIN n_table[n] :
    InTime(n, n_table[n][i], status, ticked, chan)

OneEntryEach(t) == \A i, j \in DOMAIN t : t[i].mip_addr = t[j].mip_addr => i = j

\* The inductive invariant, as long as nothing has failed.
Punctual ==
  /\ up = Link
  /\ \A n \in Node : OneEntryEach(n_table[n])
  /\ \A c \in Channel : chan[c] # <<>> => status[c[1]] # "off"
  /\ AllInTime

\* How long the time limit must be: the three intervals of the code, or two if
\* every message arrives before the next timer expires.
LimitAllowsDelay ==
  \/ DISCONNECTION_TICKS >= 3
  \/ (DISCONNECTION_TICKS >= 2 /\ MaxBusy = 0 /\ IsFiniteSet(Node))

LEMMA MostTicksType ==
  ASSUME NEW m, NEW n, NEW ti, NEW ch
  PROVE  MostTicks(m, n, ti, ch) \in 0 .. 3
BY DEF MostTicks

\* A neighbour that was heard in time has been so after a step that moves
\* nothing but the bound, and that not down.
LEMMA StaysInTime ==
  ASSUME NEW n, NEW nb, NEW st, NEW ti, NEW ch, InTime(n, nb, st, ti, ch),
         nb \in Neighbour, NEW st2, NEW ti2, NEW ch2,
         st2[n] = "running", st2[nb.mip_addr] # "off",
         st2[nb.mip_addr] = "running" =>
           /\ st[nb.mip_addr] = "running"
           /\ MostTicks(nb.mip_addr, n, ti, ch) <= MostTicks(nb.mip_addr, n, ti2, ch2)
  PROVE  InTime(n, nb, st2, ti2, ch2)
<1> DEFINE b == MostTicks(nb.mip_addr, n, ti, ch)
           b2 == MostTicks(nb.mip_addr, n, ti2, ch2)
<1>1. b \in 0 .. 3 /\ b2 \in 0 .. 3
  BY MostTicksType
<1>2. nb.ticks \in Nat
  BY DisconnectionAssumption DEF Neighbour, MaxTicks
<1> HIDE DEF b, b2
<1>3. nb.ticks <= b /\ b <= b2 => nb.ticks <= b2
  BY <1>1, <1>2
<1> QED BY <1>3 DEF InTime, b, b2

LEMMA NeighbourIn ==
  ASSUME TypeOK, NEW n \in Node, NEW i \in DOMAIN n_table[n]
  PROVE  /\ n_table[n] \in Seq(Neighbour)
         /\ n_table[n][i] \in Neighbour
         /\ n_table[n][i].mip_addr \in Node
<1>1. n_table[n] \in Seq(Neighbour)
  BY DEF TypeOK, DaemonTypeOK, NeighbourTable
<1>2. n_table[n][i] \in Neighbour
  BY <1>1
<1> QED BY <1>1, <1>2 DEF Neighbour

\* A daemon that ends holds no neighbours, and is not started again.
LEMMA StopPunctual ==
  ASSUME TypeOK, Punctual, NEW n \in Node, StopDaemon(n, "exited"),
         chan' = Unread(n), UNCHANGED <<up, ticked>>
  PROVE  Punctual'
<1>1. /\ \A k \in Node : status'[k] = IF k = n THEN "exited" ELSE status[k]
      /\ \A k \in Node : n_table'[k] = IF k = n THEN <<>> ELSE n_table[k]
  BY DEF StopDaemon, TypeOK, DaemonTypeOK
<1>2. \A c \in Channel : chan'[c] = IF c[2] = n THEN <<>> ELSE chan[c]
  BY DEF Unread
<1>3. \A c \in Channel : chan'[c] # <<>> => status'[c[1]] # "off"
  BY <1>1, <1>2, ChannelHosts DEF Punctual
<1>4. ASSUME NEW k \in Node, NEW i \in DOMAIN n_table'[k]
      PROVE  InTime(k, n_table'[k][i], status', ticked', chan')
  <2>1. k # n /\ i \in DOMAIN n_table[k] /\ n_table'[k][i] = n_table[k][i]
    BY <1>1, <1>4
  <2> DEFINE nb == n_table[k][i]
             m == nb.mip_addr
  <2>2. InTime(k, nb, status, ticked, chan) /\ nb \in Neighbour /\ m \in Node
    BY <2>1, NeighbourIn DEF Punctual, AllInTime
  <2>3. <<m, k>> \in Channel
    BY <2>2, ChannelHosts DEF InTime
  <2>4. chan'[<<m, k>>] = chan[<<m, k>>]
    BY <1>2, <2>1, <2>3
  <2>5. MostTicks(m, k, ticked, chan) = MostTicks(m, k, ticked', chan')
    BY <2>4 DEF MostTicks
  <2>6. MostTicks(m, k, ticked, chan) \in 0 .. 3
    BY MostTicksType
  <2>7. /\ status'[k] = "running" /\ status'[m] # "off"
        /\ status'[m] = "running" => status[m] = "running"
    BY <1>1, <2>1, <2>2 DEF InTime
  <2> HIDE DEF nb
  <2>8. InTime(k, nb, status', ticked', chan')
    BY <2>2, <2>5, <2>6, <2>7, StaysInTime
  <2> QED BY <2>1, <2>8 DEF nb
<1>5. \A k \in Node : OneEntryEach(n_table'[k])
  BY <1>1 DEF Punctual, OneEntryEach
<1> QED BY <1>3, <1>4, <1>5 DEF Punctual, AllInTime, OneEntryEach

LEMMA StartPunctual ==
  ASSUME TypeOK, Punctual, NEW n \in Node, Start(n)
  PROVE  Punctual'
<1>1. /\ status[n] = "off" /\ status' = [status EXCEPT ![n] = "running"]
      /\ ticked' = ticked \cup {n} /\ UNCHANGED <<n_table, chan, up>>
  BY DEF Start, StartDaemon
<1>2. \A k \in Node : status'[k] = IF k = n THEN "running" ELSE status[k]
  BY <1>1 DEF TypeOK, DaemonTypeOK
<1>3. \A c \in Channel : chan'[c] # <<>> => status'[c[1]] # "off"
  BY <1>1, <1>2, ChannelHosts DEF Punctual
<1>4. ASSUME NEW k \in Node, NEW i \in DOMAIN n_table[k]
      PROVE  InTime(k, n_table[k][i], status', ticked', chan')
  <2> DEFINE nb == n_table[k][i]
             m == nb.mip_addr
  <2>1. InTime(k, nb, status, ticked, chan) /\ nb \in Neighbour /\ m \in Node
    BY NeighbourIn DEF Punctual, AllInTime
  <2>2. k # n /\ m # n
    BY <1>1, <2>1 DEF InTime
  <2>3. MostTicks(m, k, ticked, chan) = MostTicks(m, k, ticked', chan')
    BY <1>1, <2>2 DEF MostTicks
  <2>4. MostTicks(m, k, ticked, chan) \in 0 .. 3
    BY MostTicksType
  <2>5. status'[k] = "running" /\ status'[m] # "off" /\ status'[m] = status[m]
    BY <1>2, <2>1, <2>2 DEF InTime
  <2> HIDE DEF nb
  <2>6. InTime(k, nb, status', ticked', chan')
    BY <2>1, <2>3, <2>4, <2>5, StaysInTime
  <2> QED BY <2>6 DEF nb
<1> QED BY <1>1, <1>3, <1>4 DEF Punctual, AllInTime, OneEntryEach

\* A HELLO among what is put on a channel is on it, with what was there.
LEMMA HelloAppended ==
  ASSUME NEW s \in Seq(Message), NEW e \in Seq(Message)
  PROVE  /\ HelloIn(s) => HelloIn(s \o e)
         /\ e # <<>> /\ e[1].type = "HEL" => HelloIn(s \o e)
<1>1. /\ s \o e \in Seq(Message) /\ Len(s \o e) = Len(s) + Len(e)
      /\ Len(s) \in Nat /\ Len(e) \in Nat
  OBVIOUS
<1>2. \A k \in 1 .. Len(s) : k \in DOMAIN (s \o e) /\ (s \o e)[k] = s[k]
  BY <1>1
<1>3. e # <<>> => Len(s) + 1 \in DOMAIN (s \o e) /\ (s \o e)[Len(s) + 1] = e[1]
  OBVIOUS
<1> QED BY <1>2, <1>3 DEF HelloIn

\* When the timer of n expires, it has heard of every neighbour that runs too
\* recently to find it silent.
LEMMA NoneSilent ==
  ASSUME TypeOK, Punctual, LimitAllowsDelay, NEW n \in Node, Tick(n),
         NEW m \in MaySilent(n_table[n])
  PROVE  status[m] # "running"
<1>1. PICK i \in DOMAIN n_table[n] :
        /\ n_table[n][i].mip_addr = m
        /\ n_table[n][i].ticks + 1 >= DISCONNECTION_TICKS + 1
  BY DEF MaySilent, Silent
<1> DEFINE b == MostTicks(m, n, ticked, chan)
           t == n_table[n][i].ticks
<1>2. InTime(n, n_table[n][i], status, ticked, chan) /\ m \in Node /\ t \in Nat
  <2>1. n_table[n][i] \in Neighbour
    BY NeighbourIn
  <2>2. t \in Nat
    BY <2>1, DisconnectionAssumption DEF Neighbour, MaxTicks
  <2> QED BY <1>1, <2>2, NeighbourIn DEF Punctual, AllInTime
<1>3. SUFFICES ASSUME status[m] = "running" PROVE FALSE
  OBVIOUS
<1>4. t <= b
  BY <1>1, <1>2, <1>3 DEF InTime
<1>5. n \in ticked => m \in ticked
  BY <1>2, <1>3 DEF Tick, Running
<1>6. b <= IF HelloIn(chan[<<m, n>>]) THEN 2 ELSE 1
  BY <1>5 DEF MostTicks
<1>7. b \in 0 .. 3
  BY MostTicksType
<1>8. CASE DISCONNECTION_TICKS >= 3
  <2> HIDE DEF b, t
  <2>1. b <= 2
    BY <1>6, <1>7
  <2>2. t + 1 >= DISCONNECTION_TICKS + 1
    BY <1>1 DEF t
  <2> QED BY <1>2, <1>4, <1>7, <1>8, <2>1, <2>2, DisconnectionAssumption
<1>9. CASE DISCONNECTION_TICKS >= 2 /\ MaxBusy = 0 /\ IsFiniteSet(Node)
  <2> DEFINE Busy == {c \in Channel : chan[c] # <<>>}
  <2>1. IsFiniteSet(Busy)
    <3>1. IsFiniteSet(Node \X Node)
      BY <1>9, FS_Product
    <3>2. Busy \in SUBSET (Node \X Node)
      BY DEF Channel
    <3> QED BY <3>1, <3>2, FS_Subset
  <2>2. Cardinality(Busy) <= 0
    BY <1>9 DEF Tick
  <2>3. Busy = {}
    <3> HIDE DEF Busy
    <3>1. Cardinality(Busy) \in Nat
      BY <2>1, FS_CardinalityType
    <3> QED BY <2>1, <2>2, <3>1, FS_EmptySet
  <2>4. <<m, n>> \in Channel
    BY <1>1, <1>2, ChannelHosts DEF InTime
  <2>5. ~ HelloIn(chan[<<m, n>>])
    BY <2>3, <2>4 DEF HelloIn
  <2> HIDE DEF b, t, Busy
  <2>6. b <= 1
    BY <1>6, <1>7, <2>5
  <2>7. t + 1 >= DISCONNECTION_TICKS + 1
    BY <1>1 DEF t
  <2> QED BY <1>2, <1>4, <1>7, <1>9, <2>6, <2>7, DisconnectionAssumption
<1> QED BY <1>8, <1>9 DEF LimitAllowsDelay

LEMMA TickPunctual ==
  ASSUME TypeOK, Punctual, LimitAllowsDelay, NEW n \in Node, Tick(n)
  PROVE  Punctual'
<1>1. PICK lost \in SUBSET MaySilent(n_table[n]) :
        /\ TickDaemon(n, lost)
        /\ chan' = [c \in Channel |->
                      IF c[1] = n /\ Reaches(n, c[2])
                      THEN chan[c] \o Sent(n, c[2], lost)
                      ELSE chan[c]]
  BY DEF Tick
<1>2. /\ status[n] = "running" /\ UNCHANGED <<status, up>>
      /\ n \in ticked => Running \subseteq ticked
      /\ \A m \in Adjacent(n) : chan[<<n, m>>] = <<>>
      /\ ticked' = IF n \in ticked THEN {n} ELSE ticked \cup {n}
  BY <1>1 DEF Tick, TickDaemon
<1>3. \A c \in Channel : chan'[c] # <<>> => status'[c[1]] # "off"
  BY <1>1, <1>2 DEF Punctual
<1>4. ASSUME NEW k \in Node, NEW i \in DOMAIN n_table[k],
             status[n_table[k][i].mip_addr] = "running"
      PROVE  MostTicks(n_table[k][i].mip_addr, k, ticked, chan)
               + (IF k = n THEN 1 ELSE 0)
               <= MostTicks(n_table[k][i].mip_addr, k, ticked', chan')
  <2> DEFINE m == n_table[k][i].mip_addr
  <2>1. InTime(k, n_table[k][i], status, ticked, chan) /\ m \in Node
    BY NeighbourIn DEF Punctual, AllInTime
  <2>2. m \in Adjacent(k) /\ m # k /\ status[k] = "running" /\ <<m, k>> \in Channel
    BY <2>1, ChannelHosts DEF InTime, Adjacent
  <2>3. m # n => chan'[<<m, k>>] = chan[<<m, k>>]
    BY <1>1, <2>2
  <2>4. m = n => ~ HelloIn(chan[<<m, k>>]) /\ HelloIn(chan'[<<m, k>>])
    <3> SUFFICES ASSUME m = n
        PROVE  ~ HelloIn(chan[<<n, k>>]) /\ HelloIn(chan'[<<n, k>>])
      OBVIOUS
    <3>1. <<n, k>> \in Channel /\ k \in Adjacent(n) /\ {n, k} \in Link
      BY <2>2, ChannelHosts DEF Adjacent
    <3>2. chan[<<n, k>>] = <<>> /\ chan[<<n, k>>] \in Seq(Message)
      BY <1>2, <3>1 DEF TypeOK
    <3>3. chan'[<<n, k>>] = chan[<<n, k>>] \o Sent(n, k, lost)
      BY <1>1, <2>2, <3>1 DEF Reaches, Punctual
    <3>4. Sent(n, k, lost) # <<>> /\ Sent(n, k, lost)[1] = Hello
      BY DEF Sent
    <3>5. HelloIn(chan'[<<n, k>>])
      <4>1. Sent(n, k, lost) \in Seq(Message) /\ Sent(n, k, lost)[1].type = "HEL"
        BY <3>4, SentType DEF Hello
      <4> QED BY <3>2, <3>3, <3>4, <4>1, HelloAppended
    <3>6. ~ HelloIn(chan[<<n, k>>])
      BY <3>2 DEF HelloIn
    <3> QED BY <3>5, <3>6
  <2>5. n \in ticked => m \in ticked /\ k \in ticked
    BY <1>2, <1>4, <2>1, <2>2 DEF Running
  <2>6. \A x \in Node : x \in ticked' <=> x = n \/ (n \notin ticked /\ x \in ticked)
    BY <1>2
  <2> DEFINE P == HelloIn(chan[<<m, k>>])
             Q == HelloIn(chan'[<<m, k>>])
             a == m \in ticked
             b == k \in ticked
             c == m \in ticked'
             d == k \in ticked'
             Bound(x, y, z) == (IF x THEN 0 ELSE 1) + (IF y THEN 1 ELSE 0)
                                 + (IF z THEN 1 ELSE 0)
  <2>7. /\ MostTicks(m, k, ticked, chan) = Bound(a, b, P)
        /\ MostTicks(m, k, ticked', chan') = Bound(c, d, Q)
    BY DEF MostTicks
  <2>8. CASE n \in ticked
    <3>1. a /\ b /\ (c <=> m = n) /\ (d <=> k = n)
      BY <2>1, <2>5, <2>6, <2>8
    <3>2. (m # n => (P <=> Q)) /\ (m = n => ~P /\ Q)
      BY <2>3, <2>4
    <3> HIDE DEF m, P, Q, a, b, c, d
    <3> QED BY <2>2, <2>7, <3>1, <3>2 DEF m
  <2>9. CASE n \notin ticked
    <3>1. (m # n => (a <=> c)) /\ (k # n => (b <=> d))
          /\ (m = n => ~a /\ c) /\ (k = n => ~b /\ d)
      BY <2>1, <2>6, <2>9
    <3>2. (m # n => (P <=> Q)) /\ (m = n => ~P /\ Q)
      BY <2>3, <2>4
    <3> HIDE DEF m, P, Q, a, b, c, d
    <3> QED BY <2>2, <2>7, <3>1, <3>2 DEF m
  <2> QED BY <2>8, <2>9
<1>5. ASSUME NEW k \in Node, NEW i \in DOMAIN n_table'[k]
      PROVE  InTime(k, n_table'[k][i], status', ticked', chan')
  <2>1. n_table \in [Node -> NeighbourTable]
    BY DEF TypeOK, DaemonTypeOK
  <2>2. i \in DOMAIN n_table[k]
    BY <1>1, <1>5, <2>1 DEF TickDaemon, check_neighbours
  <2> DEFINE nb == n_table[k][i]
             m == nb.mip_addr
             old == MostTicks(m, k, ticked, chan)
             new == MostTicks(m, k, ticked', chan')
  <2>3. InTime(k, nb, status, ticked, chan) /\ nb \in Neighbour /\ m \in Node
    BY <2>2, NeighbourIn DEF Punctual, AllInTime
  <2>4. old \in 0 .. 3 /\ new \in 0 .. 3
    BY MostTicksType
  <2>5. status[m] = "running" => old + (IF k = n THEN 1 ELSE 0) <= new
    BY <1>4, <2>2
  <2>6. CASE k # n
    <3>1. n_table'[k][i] = nb
      BY <1>1, <2>1, <2>6 DEF TickDaemon, check_neighbours
    <3>2. status'[k] = "running" /\ status'[m] # "off" /\ status' = status
      BY <1>2, <2>3 DEF InTime
    <3>3. status'[m] = "running" => old <= new
      BY <1>2, <2>4, <2>5, <2>6
    <3> HIDE DEF nb
    <3>4. InTime(k, nb, status', ticked', chan')
      BY <2>3, <3>2, <3>3, StaysInTime
    <3> QED BY <3>1, <3>4
  <2>7. CASE k = n
    <3>1. n_table'[k][i] = Aged(nb, lost)
      BY <1>1, <2>1, <2>2, <2>7 DEF TickDaemon, check_neighbours
    <3>2. Aged(nb, lost).mip_addr = m
      BY <2>3 DEF Aged, Entry, Neighbour
    <3>3. status[m] = "running" => m \notin lost
      BY NoneSilent
    <3>4. ASSUME status[m] = "running"
          PROVE  /\ Aged(nb, lost).state # "DISCONNECTED"
                 /\ Aged(nb, lost).ticks <= new
      <4>1. nb.state # "DISCONNECTED" /\ nb.ticks <= old
        BY <2>3, <3>4 DEF InTime
      <4>2. /\ Aged(nb, lost).state = nb.state
            /\ Aged(nb, lost).ticks = nb.ticks + 1
        BY <3>3, <3>4, <4>1 DEF Aged, Entry
      <4>3. nb.ticks \in Nat
        BY <2>3, DisconnectionAssumption DEF Neighbour, MaxTicks
      <4>4. old + 1 <= new
        BY <2>5, <2>7, <3>4
      <4> HIDE DEF old, new, nb
      <4>5. nb.ticks + 1 <= new
        BY <2>4, <4>1, <4>3, <4>4
      <4> QED BY <4>1, <4>2, <4>5
    <3> QED BY <1>2, <2>3, <3>1, <3>2, <3>4 DEF InTime
  <2> QED BY <2>6, <2>7
<1>6. ASSUME NEW k \in Node PROVE OneEntryEach(n_table'[k])
  <2>1. n_table \in [Node -> NeighbourTable] /\ OneEntryEach(n_table[k])
    BY DEF TypeOK, DaemonTypeOK, Punctual
  <2>2. CASE k # n
    BY <1>1, <2>1, <2>2 DEF TickDaemon, check_neighbours
  <2>3. CASE k = n
    <3>1. n_table'[n] = [i \in DOMAIN n_table[n] |-> Aged(n_table[n][i], lost)]
      BY <1>1, <2>1 DEF TickDaemon, check_neighbours
    <3>2. \A nb : Aged(nb, lost).mip_addr = nb.mip_addr
      BY DEF Aged, Entry
    <3> QED BY <2>1, <2>3, <3>1, <3>2 DEF OneEntryEach
  <2> QED BY <2>2, <2>3
<1> QED BY <1>2, <1>3, <1>5, <1>6 DEF Punctual, AllInTime, OneEntryEach

\* A daemon that reads a message of m and goes on: its entry for m is new or
\* counts from here, the others are as they were, and so is the entry for m if
\* it has not read a HELLO.
LEMMA TakenPunctual ==
  ASSUME TypeOK, Punctual, NEW n \in Node, NEW m \in Adjacent(n),
         status[n] = "running", chan[<<m, n>>] # <<>>,
         chan' = [chan EXCEPT ![<<m, n>>] = Tail(@)],
         UNCHANGED <<status, up, ticked>>,
         \A k \in Node : k # n => n_table'[k] = n_table[k],
         OneEntryEach(n_table'[n]),
         \A i \in DOMAIN n_table'[n] :
           \/ /\ i \in DOMAIN n_table[n]
              /\ n_table'[n][i] = n_table[n][i]
              /\ n_table[n][i].mip_addr = m => Head(chan[<<m, n>>]).type # "HEL"
           \/ /\ n_table'[n][i].mip_addr = m
              /\ n_table'[n][i].state # "DISCONNECTED"
              /\ n_table'[n][i].ticks = 0
  PROVE  Punctual'
<1> DEFINE h == <<m, n>>
<1>1. h \in Channel /\ m \in Node /\ chan[h] \in Seq(Message)
  BY ChannelHosts DEF TypeOK
<1>2. \A c \in Channel : chan'[c] = IF c = h THEN Tail(chan[h]) ELSE chan[c]
  BY <1>1 DEF TypeOK
<1>3. status[m] # "off"
  <2>1. h[1] = m
    OBVIOUS
  <2> QED BY <1>1, <2>1 DEF Punctual
<1>4. \A c \in Channel : chan'[c] # <<>> => status'[c[1]] # "off"
  BY <1>1, <1>2, <1>3 DEF Punctual
<1>5. HelloIn(chan[h]) /\ Head(chan[h]).type # "HEL" => HelloIn(chan'[h])
  <2> SUFFICES ASSUME HelloIn(chan[h]), Head(chan[h]).type # "HEL"
      PROVE  HelloIn(Tail(chan[h]))
    BY <1>1, <1>2
  <2>1. PICK i \in DOMAIN chan[h] : chan[h][i].type = "HEL"
    BY DEF HelloIn
  <2>2. i # 1 /\ i \in 1 .. Len(chan[h]) /\ Len(chan[h]) \in Nat
    BY <1>1, <2>1
  <2>3. i - 1 \in DOMAIN Tail(chan[h]) /\ Tail(chan[h])[i - 1] = chan[h][i]
    BY <1>1, <2>2
  <2> QED BY <2>1, <2>3 DEF HelloIn
<1>6. ASSUME NEW k \in Node, NEW i \in DOMAIN n_table[k],
             k = n /\ n_table[k][i].mip_addr = m => Head(chan[h]).type # "HEL"
      PROVE  InTime(k, n_table[k][i], status', ticked', chan')
  <2> DEFINE nb == n_table[k][i]
             x == nb.mip_addr
  <2>1. InTime(k, nb, status, ticked, chan) /\ nb \in Neighbour /\ x \in Node
    BY NeighbourIn DEF Punctual, AllInTime
  <2>2. <<x, k>> \in Channel
    BY <2>1, ChannelHosts DEF InTime
  <2>3. HelloIn(chan[<<x, k>>]) => HelloIn(chan'[<<x, k>>])
    <3>1. CASE <<x, k>> = h
      BY <1>5, <1>6, <3>1
    <3>2. CASE <<x, k>> # h
      BY <1>2, <2>2, <3>2
    <3> QED BY <3>1, <3>2
  <2>4. MostTicks(x, k, ticked, chan) <= MostTicks(x, k, ticked', chan')
    BY <2>3 DEF MostTicks
  <2>5. status'[k] = "running" /\ status'[x] # "off" /\ status' = status
    BY <2>1 DEF InTime
  <2> HIDE DEF nb
  <2>6. InTime(k, nb, status', ticked', chan')
    BY <2>1, <2>4, <2>5, StaysInTime
  <2> QED BY <2>6 DEF nb
<1>7. ASSUME NEW i \in DOMAIN n_table'[n], n_table'[n][i].mip_addr = m,
             n_table'[n][i].state # "DISCONNECTED", n_table'[n][i].ticks = 0
      PROVE  InTime(n, n_table'[n][i], status', ticked', chan')
  <2>1. MostTicks(m, n, ticked', chan') \in 0 .. 3
    BY MostTicksType
  <2> QED BY <1>3, <1>7, <2>1 DEF InTime
<1>8. \A k \in Node : \A i \in DOMAIN n_table'[k] :
        InTime(k, n_table'[k][i], status', ticked', chan')
  BY <1>6, <1>7
<1>9. \A k \in Node : OneEntryEach(n_table'[k])
  BY DEF Punctual
<1> QED BY <1>4, <1>8, <1>9 DEF Punctual, AllInTime, OneEntryEach

LEMMA HelloPunctual ==
  ASSUME TypeOK, Punctual, NEW n \in Node, NEW m \in Adjacent(n), ReceiveHello(m, n)
  PROVE  Punctual'
<1> DEFINE t == n_table[n]
<1>1. /\ status[n] = "running" /\ chan[<<m, n>>] # <<>>
      /\ UNCHANGED <<up, ticked>> /\ Taken(m, n)
      /\ m \in Node
  BY ChannelHosts DEF ReceiveHello, handle_hello_message
<1>2. /\ n_table \in [Node -> NeighbourTable] /\ t \in NeighbourTable
      /\ t \in Seq(Neighbour) /\ OneEntryEach(t)
  BY DEF TypeOK, DaemonTypeOK, NeighbourTable, Punctual
<1>3. CASE HelloFromNew(n, m)
  <2> DEFINE u == neighbour_table_add_entry(t, m)
             nb == Entry(m, "INIT", 0)
  <2>1. n_table' = [n_table EXCEPT ![n] = u] /\ UNCHANGED status
        /\ ~ HasNeighbour(t, m)
    BY <1>3 DEF HelloFromNew
  <2>2. u = t \/ u = Append(t, nb)
    BY <1>1, <1>2, AddNeighbourEffect
  <2>3. nb \in Neighbour /\ nb.mip_addr = m /\ nb.state = "INIT" /\ nb.ticks = 0
    BY <1>1, TicksInRange, EntryType DEF NeighbourState, Entry
  <2> HIDE DEF u, nb
  <2>4. \A i \in DOMAIN u : \/ i \in DOMAIN t /\ u[i] = t[i]
                            \/ i = Len(t) + 1 /\ u[i] = nb
    BY <1>2, <2>2, <2>3
  <2>5. \A i \in DOMAIN t : t[i].mip_addr # m
    BY <2>1 DEF HasNeighbour
  <2>6. OneEntryEach(u)
    BY <1>2, <2>3, <2>4, <2>5 DEF OneEntryEach
  <2>7. chan' = [chan EXCEPT ![<<m, n>>] = Tail(@)]
    BY <1>1, <2>1 DEF Taken
  <2>8. n_table'[n] = u /\ \A k \in Node : k # n => n_table'[k] = n_table[k]
    BY <1>2, <2>1
  <2>9. \A i \in DOMAIN n_table'[n] :
          \/ /\ i \in DOMAIN n_table[n]
             /\ n_table'[n][i] = n_table[n][i]
             /\ n_table[n][i].mip_addr = m => Head(chan[<<m, n>>]).type # "HEL"
          \/ /\ n_table'[n][i].mip_addr = m
             /\ n_table'[n][i].state # "DISCONNECTED"
             /\ n_table'[n][i].ticks = 0
    BY <2>3, <2>4, <2>5, <2>8
  <2>10. OneEntryEach(n_table'[n])
    BY <2>6, <2>8
  <2> HIDE DEF t
  <2> QED BY <1>1, <2>1, <2>7, <2>8, <2>9, <2>10, TakenPunctual
<1>4. ASSUME HasNeighbour(t, m), UNCHANGED status,
             n_table' = [n_table EXCEPT ![n] = Heard(t, find_neighbour_by_addr(t, m))]
      PROVE  Punctual'
  <2> DEFINE j == find_neighbour_by_addr(t, m)
             nb == Entry(t[j].mip_addr, "CONNECTED", 0)
             u == Heard(t, j)
  <2>1. j \in DOMAIN t /\ t[j].mip_addr = m
    BY <1>2, <1>4, FirstNeighbour
  <2>2. nb.mip_addr = m /\ nb.state = "CONNECTED" /\ nb.ticks = 0
    BY <2>1 DEF Entry
  <2>3. u = [t EXCEPT ![j] = nb]
    BY DEF Heard
  <2> HIDE DEF j, nb, u
  <2>4. DOMAIN u = DOMAIN t /\ \A i \in DOMAIN t : u[i] = IF i = j THEN nb ELSE t[i]
    BY <1>2, <2>1, <2>3
  <2>5. \A i \in DOMAIN t : i # j => t[i].mip_addr # m
    BY <1>2, <2>1 DEF OneEntryEach
  <2>6. OneEntryEach(u)
    BY <1>2, <2>1, <2>2, <2>4 DEF OneEntryEach
  <2>7. chan' = [chan EXCEPT ![<<m, n>>] = Tail(@)]
    BY <1>1, <1>4 DEF Taken
  <2>8. n_table'[n] = u /\ \A k \in Node : k # n => n_table'[k] = n_table[k]
    BY <1>2, <1>4 DEF u, j
  <2>9. \A i \in DOMAIN n_table'[n] :
          \/ /\ i \in DOMAIN n_table[n]
             /\ n_table'[n][i] = n_table[n][i]
             /\ n_table[n][i].mip_addr = m => Head(chan[<<m, n>>]).type # "HEL"
          \/ /\ n_table'[n][i].mip_addr = m
             /\ n_table'[n][i].state # "DISCONNECTED"
             /\ n_table'[n][i].ticks = 0
    BY <2>2, <2>4, <2>5, <2>8
  <2>10. OneEntryEach(n_table'[n])
    BY <2>6, <2>8
  <2> HIDE DEF t
  <2> QED BY <1>1, <1>4, <2>7, <2>8, <2>9, <2>10, TakenPunctual
<1>5. ASSUME StopDaemon(n, "exited") PROVE Punctual'
  <2>1. status'[n] # "running"
    BY <1>5 DEF StopDaemon, TypeOK, DaemonTypeOK
  <2>2. chan' = Unread(n)
    BY <1>1, <2>1 DEF Taken
  <2> QED BY <1>1, <1>5, <2>2, StopPunctual
<1> QED
  BY <1>3, <1>4, <1>5
  DEF ReceiveHello, handle_hello_message, HelloFromKnown, HelloFromLost

LEMMA UpdatePunctual ==
  ASSUME TypeOK, Punctual, NEW n \in Node, NEW m \in Adjacent(n), ReceiveUpdate(m, n)
  PROVE  Punctual'
<1>1. /\ status[n] = "running" /\ chan[<<m, n>>] # <<>>
      /\ UNCHANGED <<status, n_table, up, ticked>>
      /\ Head(chan[<<m, n>>]).type # "HEL"
      /\ chan' = [chan EXCEPT ![<<m, n>>] = Tail(@)]
  BY DEF ReceiveUpdate, handle_update_message, Taken
<1>2. OneEntryEach(n_table'[n])
  BY <1>1 DEF Punctual
<1> QED BY <1>1, <1>2, TakenPunctual

\* Every step that does not fail something leaves the daemons in time: one case
\* for each action.
LEMMA PunctualNext ==
  ASSUME TypeOK, LimitAllowsDelay, faults = 0 => Punctual, [Next]_vars, faults' = 0
  PROVE  Punctual'
<1>1. faults = 0 \/ (faults' = faults + 1 /\ faults \in Nat)
  BY DEF TypeOK, Next, Daemon, Environment, Start, Tick, ReceiveHello,
         ReceiveUpdate, Request, ReadResponse, Lose, LinkDown, LinkUp, Kill, vars,
         net_vars
<1>2. faults = 0 /\ Punctual
  BY <1>1
<1>3. ASSUME NEW n \in Node, Start(n) PROVE Punctual'
  BY <1>2, <1>3, StartPunctual
<1>4. ASSUME NEW n \in Node, Tick(n) PROVE Punctual'
  BY <1>2, <1>4, TickPunctual
<1>5. ASSUME NEW n \in Node, NEW m \in Adjacent(n),
             ReceiveHello(m, n) \/ ReceiveUpdate(m, n)
      PROVE  Punctual'
  BY <1>2, <1>5, HelloPunctual, UpdatePunctual
<1>6. CASE UNCHANGED <<status, n_table, chan, up, ticked>>
  BY <1>2, <1>6 DEF Punctual, AllInTime
<1>7. ASSUME NEW n \in Node, NEW dst \in Lookup, Request(n, dst) PROVE Punctual'
  BY <1>2, <1>6, <1>7, StopPunctual
  DEF Request, handle_forwarding_packet, daemon_vars
<1>8. ASSUME NEW l \in Link, LinkUp(l) PROVE Punctual'
  BY <1>2, <1>8 DEF LinkUp, Punctual
<1>9. ~ (\E c \in Channel : Lose(c[1], c[2])) /\ ~ (\E l \in Link : LinkDown(l))
      /\ ~ (\E n \in Node : Kill(n))
  BY <1>2 DEF Lose, LinkDown, Kill
<1>10. ASSUME \/ \E n \in Node : ReadResponse(n)
              \/ UNCHANGED vars
       PROVE  Punctual'
  BY <1>6, <1>10 DEF ReadResponse, vars, daemon_vars, net_vars
<1> QED
  BY <1>3, <1>4, <1>5, <1>7, <1>8, <1>9, <1>10 DEF Next, Daemon, Environment

\* In every network, and whatever the order of ticks and deliveries, no daemon
\* takes a neighbour that still runs for disconnected as long as nothing fails:
\* the three intervals that the code waits for a HELLO are enough, and two are
\* if every message arrives before the next timer expires (MaxBusy = 0).
THEOREM NoneFalselyDisconnected == LimitAllowsDelay => (Spec => []NoFalseAlarm)
<1> SUFFICES ASSUME LimitAllowsDelay PROVE Spec => []NoFalseAlarm
  OBVIOUS
<1> DEFINE Inv == faults = 0 => Punctual
<1>1. Init => Inv
  BY DEF Init, DaemonInit, Punctual, AllInTime, OneEntryEach
<1>2. TypeOK /\ Inv /\ [Next]_vars => Inv'
  BY PunctualNext
<1>3. Inv => NoFalseAlarm
  BY DEF Punctual, AllInTime, InTime, NoFalseAlarm
<1> HIDE DEF Inv
<1> QED BY <1>1, <1>2, <1>3, TypeCorrect, PTL DEF Spec

=============================================================================
