--------------------------- MODULE MipDaemonProof ---------------------------
(***************************************************************************)
(* Theorems about the MIP daemon of one host, for any number of hosts,      *)
(* descriptors, messages under way and entries of its tables, proved by     *)
(* TLAPS.                                                                   *)
(***************************************************************************)
EXTENDS MipDaemon, FiniteSetTheorems, SequenceTheorems, WellFoundedInduction, TLAPS

-----------------------------------------------------------------------------
(* The inductive invariant. *)

\* What mipd writes to a process names a host, and a HELLO or UPDATE one that
\* mipd has learned.  What it reads from an application names a host; an UPDATE
\* names one that it has learned.
ToProcess(learned) ==
  {m \in Message : m.addr \in Addr /\ (m.type \in {"HEL", "UPD"} => m.addr \in learned)}
FromProcess(kind, learned) ==
  {m \in Message : /\ kind # "ROUTER" => m.addr \in Addr
                   /\ m.type = "UPD" => m.addr \in learned}

\* One connection: its messages are such messages, no more than there is room
\* for, and its routing daemon has heard of learned hosts only.
ConnectionOf(learned) ==
  {c \in Connection :
     /\ c.out \in Seq(ToProcess(learned)) /\ Len(c.out) <= MaxMessages
     /\ c.in \in Seq(FromProcess(c.kind, learned)) /\ Len(c.in) <= MaxMessages
     /\ c.heard \subseteq learned}
ConnInv == conn \in [Fd -> ConnectionOf(ToSet(arp_t))]

\* A host is added to the arp table once.
ArpInv == Len(arp_t) <= Len(Stray) + Cardinality(ToSet(arp_t) \cap Neighbour)

\* With the daemon all connections end.
AllClosed == status = "ended" => \A f \in Fd : ~IsOpen(f)

IInv ==
  /\ TypeOK
  /\ AllClosed
  /\ ConnInv
  /\ ArpInv
  /\ SocketsAreTheirs
  /\ ResponseFindsPacket

-----------------------------------------------------------------------------
(* What the operators on messages do. *)

\* A set of naturals that is not empty has a least element, so there is a lowest
\* free descriptor.
LEMMA LowestFd ==
  ASSUME NEW T, T \subseteq Fd, T # {}
  PROVE  (CHOOSE m \in T : \A k \in T : m <= k) \in T
<1>1. T \subseteq Nat
  BY FdAssumption
<1>2. PICK m \in T : \A k \in T : ~ (<<k, m>> \in OpToRel(<, Nat))
  BY <1>1, NatLessThanWellFounded, WFMin
<1>3. ASSUME NEW k \in T PROVE m <= k
  <2>1. m \in Nat /\ k \in Nat
    BY <1>1
  <2>2. ~ (k < m)
    BY <1>2, <2>1 DEF OpToRel
  <2> QED BY <2>1, <2>2
<1> QED BY <1>3

\* There are no more messages of a type than messages.
LEMMA HowManyBound ==
  ASSUME NEW S, NEW s \in Seq(S), NEW type
  PROVE  /\ IsFiniteSet({i \in DOMAIN s : s[i].type = type})
         /\ HowMany(s, type) \in Nat
         /\ HowMany(s, type) <= Len(s)
<1>1. /\ Len(s) \in Nat
      /\ DOMAIN s = 1 .. Len(s)
  OBVIOUS
<1>2. /\ IsFiniteSet(DOMAIN s)
      /\ Cardinality(DOMAIN s) = Len(s)
  BY <1>1, FS_Interval
<1>3. {i \in DOMAIN s : s[i].type = type} \in SUBSET (DOMAIN s)
  OBVIOUS
<1> QED BY <1>2, <1>3, FS_Subset, FS_CardinalityType DEF HowMany

LEMMA HowManyEmpty ==
  ASSUME NEW type
  PROVE  HowMany(<<>>, type) = 0
<1>1. {i \in DOMAIN <<>> : <<>>[i].type = type} = {}
  OBVIOUS
<1> QED BY <1>1, FS_EmptySet DEF HowMany

\* A message put at the end counts if it is of the type.
LEMMA HowManyAppend ==
  ASSUME NEW S, NEW s \in Seq(S), NEW m \in S, NEW type
  PROVE  HowMany(Append(s, m), type) =
           IF m.type = type THEN HowMany(s, type) + 1 ELSE HowMany(s, type)
<1> DEFINE T == {i \in DOMAIN s : s[i].type = type}
           U == {i \in DOMAIN Append(s, m) : Append(s, m)[i].type = type}
<1>1. /\ Append(s, m) \in Seq(S)
      /\ Len(Append(s, m)) = Len(s) + 1
      /\ \A i \in 1 .. Len(s) : Append(s, m)[i] = s[i]
      /\ Append(s, m)[Len(s) + 1] = m
  BY AppendProperties
<1>2. /\ Len(s) \in Nat
      /\ DOMAIN s = 1 .. Len(s)
      /\ DOMAIN Append(s, m) = 1 .. Len(s) + 1
  BY <1>1
<1>3. /\ IsFiniteSet(T)
      /\ HowMany(s, type) \in Nat
      /\ HowMany(s, type) = Cardinality(T)
      /\ HowMany(Append(s, m), type) = Cardinality(U)
  BY HowManyBound DEF HowMany
<1> HIDE DEF T, U
<1>4. CASE m.type = type
  <2>1. U = T \cup {Len(s) + 1} /\ Len(s) + 1 \notin T
    BY <1>1, <1>2, <1>4 DEF T, U
  <2>2. Cardinality(T \cup {Len(s) + 1}) = Cardinality(T) + 1
    BY <1>3, <2>1, FS_AddElement
  <2>3. HowMany(Append(s, m), type) = HowMany(s, type) + 1
    BY <1>3, <2>1, <2>2
  <2> QED BY <1>4, <2>3
<1>5. CASE m.type # type
  <2>1. U = T
    BY <1>1, <1>2, <1>5 DEF T, U
  <2> QED BY <1>5, <2>1, <1>3
<1> QED BY <1>4, <1>5

\* The first message counted if it is of the type.
LEMMA HowManyTail ==
  ASSUME NEW S, NEW s \in Seq(S), s # <<>>, NEW type
  PROVE  HowMany(Tail(s), type) =
           IF Head(s).type = type THEN HowMany(s, type) - 1 ELSE HowMany(s, type)
<1> DEFINE T == {i \in DOMAIN Tail(s) : Tail(s)[i].type = type}
           U == {i \in DOMAIN s : s[i].type = type}
           next == [i \in T |-> i + 1]
<1>1. /\ Tail(s) \in Seq(S)
      /\ Len(Tail(s)) = Len(s) - 1
      /\ \A i \in 1 .. Len(Tail(s)) : Tail(s)[i] = s[i + 1]
      /\ Len(s) \in Nat \ {0}
  BY HeadTailProperties
<1>2. /\ DOMAIN s = 1 .. Len(s)
      /\ DOMAIN Tail(s) = 1 .. Len(s) - 1
      /\ Head(s) = s[1]
  BY <1>1
<1>3. \A i \in U \ {1} : i - 1 \in T /\ next[i - 1] = i
  BY <1>1, <1>2
<1>4. \A i \in T : next[i] \in U \ {1}
  BY <1>1, <1>2
<1>5. next \in Bijection(T, U \ {1})
  <2>1. next \in [T -> U \ {1}]
    BY <1>4
  <2>2. \A i, j \in T : next[i] = next[j] => i = j
    BY <1>2
  <2> QED BY <2>1, <2>2, <1>3 DEF Bijection, Injection, Surjection, IsInjective
<1>6. /\ IsFiniteSet(T) /\ HowMany(Tail(s), type) = Cardinality(T)
      /\ IsFiniteSet(U) /\ HowMany(s, type) = Cardinality(U)
      /\ Cardinality(U) \in Nat
  BY <1>1, HowManyBound DEF HowMany
<1>7. Cardinality(U \ {1}) = Cardinality(T)
  BY <1>5, <1>6, FS_Bijection DEF ExistsBijection
<1>8. 1 \in U <=> Head(s).type = type
  BY <1>1, <1>2
<1> HIDE DEF T, U
<1>9. Cardinality(U \ {1}) = IF 1 \in U THEN Cardinality(U) - 1 ELSE Cardinality(U)
  BY <1>6, FS_RemoveElement
<1> QED BY <1>6, <1>7, <1>8, <1>9

-----------------------------------------------------------------------------
(* Steps of the processes at the other ends. *)

\* What a process has learned stays learned.
LEMMA LearnedGrows ==
  ASSUME NEW learned, NEW more, learned \subseteq more
  PROVE  ConnectionOf(learned) \subseteq ConnectionOf(more)
<1>1. ToProcess(learned) \subseteq ToProcess(more)
  BY DEF ToProcess
<1>2. \A kind : FromProcess(kind, learned) \subseteq FromProcess(kind, more)
  BY DEF FromProcess
<1>3. ASSUME NEW c \in ConnectionOf(learned) PROVE c \in ConnectionOf(more)
  <2>1. c.out \in Seq(ToProcess(more))
    BY <1>1, <1>3, SeqMonotonic DEF ConnectionOf
  <2>2. c.in \in Seq(FromProcess(c.kind, more))
    BY <1>2, <1>3, SeqMonotonic DEF ConnectionOf
  <2> QED BY <1>3, <2>1, <2>2 DEF ConnectionOf
<1> QED BY <1>3

LEMMA Messages ==
  ASSUME NEW learned, NEW kind
  PROVE  /\ ToProcess(learned) \subseteq Message
         /\ FromProcess(kind, learned) \subseteq Message
BY DEF ToProcess, FromProcess

LEMMA ClosedTyped ==
  ASSUME NEW learned
  PROVE  /\ Closed \in ConnectionOf(learned)
         /\ Closed.kind = "NONE"
         /\ ~Closed.open
<1>1. /\ Closed.kind = "NONE" /\ Closed.open = FALSE
      /\ Closed.in = <<>> /\ Closed.out = <<>> /\ Closed.heard = {}
  BY DEF Closed, Opened
<1>2. \A S : <<>> \in Seq(S) /\ Len(<<>>) = 0
  BY EmptySeq
<1>3. Closed \in Connection
  BY <1>1, <1>2 DEF Connection, Closed, Opened
<1>4. /\ Closed.out \in Seq(ToProcess(learned)) /\ Len(Closed.out) <= MaxMessages
      /\ Closed.in \in Seq(FromProcess(Closed.kind, learned))
      /\ Len(Closed.in) <= MaxMessages
      /\ Closed.heard \subseteq learned
  BY <1>1, <1>2, SizeAssumption
<1> QED BY <1>1, <1>3, <1>4 DEF ConnectionOf

LEMMA CountTyped ==
  ASSUME NEW learned, NEW c \in ConnectionOf(learned), NEW type
  PROVE  /\ HowMany(c.out, type) \in Nat /\ HowMany(c.out, type) <= MaxMessages
         /\ HowMany(c.in, type) \in Nat /\ HowMany(c.in, type) <= MaxMessages
<1>1. /\ c.out \in Seq(ToProcess(learned)) /\ Len(c.out) <= MaxMessages
      /\ c.in \in Seq(FromProcess(c.kind, learned)) /\ Len(c.in) <= MaxMessages
      /\ Len(c.out) \in Nat /\ Len(c.in) \in Nat
  BY DEF ConnectionOf
<1>2. /\ HowMany(c.out, type) \in Nat /\ HowMany(c.out, type) <= Len(c.out)
      /\ HowMany(c.in, type) \in Nat /\ HowMany(c.in, type) <= Len(c.in)
  BY <1>1, HowManyBound
<1> QED BY <1>1, <1>2, SizeAssumption

\* The step of the process at f leaves c of its connection: a routing daemon does
\* not owe and has not sent more answers than before.
ProcessStep(f, c) ==
  /\ IsOpen(f)
  /\ c \in ConnectionOf(ToSet(arp_t))
  /\ c.kind = conn[f].kind
  /\ c.kind = "ROUTER" =>
       HowMany(c.out, "REQ") + HowMany(c.in, "RSP") <= Unanswered(f)
  /\ conn' = [conn EXCEPT ![f] = c]
  /\ UNCHANGED <<status, socket_data, socket_application, socket_routing, sdu,
                 arp_t, forward_queue, demand>>

LEMMA ProcessStepKeeps ==
  ASSUME IInv, NEW f \in Fd, NEW c, ProcessStep(f, c)
  PROVE  IInv'
<1>1. /\ conn \in [Fd -> ConnectionOf(ToSet(arp_t))]
      /\ f # -1
      /\ status = "running"
  BY FdAssumption DEF IInv, ConnInv, ProcessStep, AllClosed, TypeOK
<1>2. ConnInv'
  BY <1>1 DEF ProcessStep, ConnInv
<1>3. TypeOK'
  BY <1>2 DEF IInv, TypeOK, ProcessStep, ConnInv, ConnectionOf
<1>4. AllClosed'
  BY <1>1 DEF AllClosed, ProcessStep
<1>5. ArpInv'
  BY DEF IInv, ArpInv, ProcessStep
<1>6. SocketsAreTheirs'
  BY <1>1 DEF IInv, SocketsAreTheirs, ProcessStep, TypeOK
<1>7. ResponseFindsPacket'
  <2>1. SUFFICES ASSUME demand = "met", socket_routing # -1
        PROVE  Unanswered(socket_routing)' <= Len(forward_queue)
    BY DEF ResponseFindsPacket, ProcessStep
  <2>2. CASE f = socket_routing
    <3>1. /\ Unanswered(f)' = HowMany(c.out, "REQ") + HowMany(c.in, "RSP")
          /\ c.kind = "ROUTER"
      BY <1>1, <2>1, <2>2 DEF IInv, SocketsAreTheirs, ProcessStep, Unanswered
    <3>2. Unanswered(f)' <= Unanswered(f)
      BY <3>1 DEF ProcessStep
    <3>3. Unanswered(f) \in Nat /\ Unanswered(f)' \in Nat
      BY <1>1, <3>1, CountTyped DEF ProcessStep, Unanswered
    <3>4. Unanswered(f) <= Len(forward_queue) /\ Len(forward_queue) \in Nat
      BY <2>1, <2>2 DEF IInv, TypeOK, ResponseFindsPacket
    <3> QED BY <2>2, <3>2, <3>3, <3>4 DEF ProcessStep
  <2>3. CASE f # socket_routing
    BY <2>1, <2>3 DEF IInv, TypeOK, ResponseFindsPacket, ProcessStep, Unanswered
  <2> QED BY <2>2, <2>3
<1> QED BY <1>2, <1>3, <1>4, <1>5, <1>6, <1>7 DEF IInv

LEMMA LeftTyped ==
  ASSUME NEW learned, NEW c \in ConnectionOf(learned)
  PROVE  /\ Left(c) \in ConnectionOf(learned)
         /\ Left(c).kind = c.kind /\ ~Left(c).open
         /\ Left(c).in = c.in /\ Left(c).out = c.out
BY DEF Left, ConnectionOf, Connection

\* The first message to the process is read.
LEMMA OutRead ==
  ASSUME NEW learned, NEW c \in ConnectionOf(learned), c.out # <<>>
  PROVE  /\ Head(c.out) \in ToProcess(learned)
         /\ [c EXCEPT !.out = Tail(@)] \in ConnectionOf(learned)
         /\ HowMany(Tail(c.out), "REQ") =
              IF Head(c.out).type = "REQ" THEN HowMany(c.out, "REQ") - 1
              ELSE HowMany(c.out, "REQ")
<1>1. /\ c \in Connection
      /\ c.out \in Seq(ToProcess(learned)) /\ Len(c.out) <= MaxMessages
      /\ c.in \in Seq(FromProcess(c.kind, learned)) /\ Len(c.in) <= MaxMessages
      /\ c.heard \subseteq learned
  BY DEF ConnectionOf
<1>2. /\ Head(c.out) \in ToProcess(learned)
      /\ Tail(c.out) \in Seq(ToProcess(learned))
      /\ Len(Tail(c.out)) = Len(c.out) - 1
      /\ Len(c.out) \in Nat
  BY <1>1, HeadTailProperties
<1>3. Tail(c.out) \in Seq(Message) /\ Len(Tail(c.out)) <= MaxMessages
  BY <1>1, <1>2, Messages, SeqMonotonic, SizeAssumption
<1>4. [c EXCEPT !.out = Tail(@)] \in Connection
  BY <1>1, <1>3 DEF Connection
<1>5. [c EXCEPT !.out = Tail(@)] \in ConnectionOf(learned)
  BY <1>1, <1>2, <1>3, <1>4 DEF ConnectionOf, Connection
<1>6. HowMany(Tail(c.out), "REQ") =
        IF Head(c.out).type = "REQ" THEN HowMany(c.out, "REQ") - 1
        ELSE HowMany(c.out, "REQ")
  BY <1>1, HowManyTail
<1> QED BY <1>2, <1>5, <1>6

\* A message to mipd is written.
LEMMA InWritten ==
  ASSUME NEW learned, NEW c \in ConnectionOf(learned), Len(c.in) < MaxMessages,
         NEW m \in FromProcess(c.kind, learned)
  PROVE  /\ [c EXCEPT !.in = Append(@, m)] \in ConnectionOf(learned)
         /\ HowMany(Append(c.in, m), "RSP") =
              IF m.type = "RSP" THEN HowMany(c.in, "RSP") + 1
              ELSE HowMany(c.in, "RSP")
<1>1. /\ c \in Connection
      /\ c.out \in Seq(ToProcess(learned)) /\ Len(c.out) <= MaxMessages
      /\ c.in \in Seq(FromProcess(c.kind, learned)) /\ Len(c.in) <= MaxMessages
      /\ c.heard \subseteq learned
  BY DEF ConnectionOf
<1>2. /\ Append(c.in, m) \in Seq(FromProcess(c.kind, learned))
      /\ Len(Append(c.in, m)) = Len(c.in) + 1
      /\ Len(c.in) \in Nat
  BY <1>1, AppendProperties
<1>3. Append(c.in, m) \in Seq(Message) /\ Len(Append(c.in, m)) <= MaxMessages
  BY <1>1, <1>2, Messages, SeqMonotonic, SizeAssumption
<1>4. [c EXCEPT !.in = Append(@, m)] \in Connection
  BY <1>1, <1>3 DEF Connection
<1>5. [c EXCEPT !.in = Append(@, m)] \in ConnectionOf(learned)
  BY <1>1, <1>2, <1>3, <1>4 DEF ConnectionOf, Connection
<1>6. HowMany(Append(c.in, m), "RSP") =
        IF m.type = "RSP" THEN HowMany(c.in, "RSP") + 1
        ELSE HowMany(c.in, "RSP")
  BY <1>1, HowManyAppend
<1> QED BY <1>5, <1>6

LEMMA ProcessEndsKeeps ==
  ASSUME IInv, NEW f \in Fd, ProcessEnds(f)
  PROVE  IInv'
<1>1. conn \in [Fd -> ConnectionOf(ToSet(arp_t))]
  BY DEF IInv, ConnInv
<1>2. conn[f] \in ConnectionOf(ToSet(arp_t))
  BY <1>1
<1>3. HowMany(conn[f].out, "REQ") + HowMany(conn[f].in, "RSP") <= Unanswered(f)
  <2>1. HowMany(conn[f].out, "REQ") \in Nat /\ HowMany(conn[f].in, "RSP") \in Nat
    BY <1>2, CountTyped
  <2> QED BY <2>1 DEF Unanswered
<1>4. ProcessStep(f, Left(conn[f]))
  BY <1>1, <1>2, <1>3, LeftTyped DEF ProcessEnds, ProcessStep
<1> QED BY <1>4, ProcessStepKeeps

LEMMA RouterSendsKeeps ==
  ASSUME IInv, NEW f \in Fd, RouterSends(f)
  PROVE  IInv'
<1>1. PICK m \in {Msg("HEL", NoAddr)} \cup {Msg("UPD", n) : n \in conn[f].heard} :
        conn' = [conn EXCEPT ![f].in = Append(@, m)]
  BY DEF RouterSends
<1>2. /\ conn \in [Fd -> ConnectionOf(ToSet(arp_t))]
      /\ conn[f] \in ConnectionOf(ToSet(arp_t))
      /\ IsOpen(f) /\ conn[f].kind = "ROUTER" /\ conn[f].open
      /\ Len(conn[f].in) < MaxMessages
  BY DEF IInv, ConnInv, RouterSends, Alive
<1> DEFINE c == [conn[f] EXCEPT !.in = Append(@, m)]
<1>3. conn' = [conn EXCEPT ![f] = c]
  BY <1>1
<1>4. m \in FromProcess(conn[f].kind, ToSet(arp_t)) /\ m.type # "RSP"
  BY <1>2 DEF ConnectionOf, Connection, FromProcess, Message, Msg
<1>5. c \in ConnectionOf(ToSet(arp_t))
  BY <1>2, <1>4, InWritten
<1>6. /\ c.kind = conn[f].kind /\ c.open = conn[f].open
      /\ c.out = conn[f].out /\ c.in = Append(conn[f].in, m)
  BY <1>2 DEF ConnectionOf, Connection
<1> HIDE DEF c
<1>7. HowMany(c.out, "REQ") + HowMany(c.in, "RSP") <= Unanswered(f)
  <2>1. HowMany(c.in, "RSP") = HowMany(conn[f].in, "RSP")
    BY <1>2, <1>4, <1>6, InWritten
  <2>2. HowMany(conn[f].out, "REQ") \in Nat /\ HowMany(conn[f].in, "RSP") \in Nat
    BY <1>2, CountTyped
  <2> QED BY <1>6, <2>1, <2>2 DEF Unanswered
<1>8. ProcessStep(f, c)
  BY <1>2, <1>3, <1>5, <1>6, <1>7 DEF RouterSends, ProcessStep
<1> QED BY <1>8, ProcessStepKeeps

\* A request that is answered is one answer more; a routing daemon that does not
\* answer ends.
LEMMA RouterReadsKeeps ==
  ASSUME IInv, NEW f \in Fd, RouterReads(f)
  PROVE  IInv'
<1> DEFINE m == Head(conn[f].out)
           c == [conn[f] EXCEPT !.out = Tail(@)]
           learned == ToSet(arp_t)
<1>1. /\ conn \in [Fd -> ConnectionOf(learned)]
      /\ conn[f] \in ConnectionOf(learned)
      /\ IsOpen(f) /\ conn[f].kind = "ROUTER" /\ conn[f].open
      /\ conn[f].out # <<>>
  BY DEF IInv, ConnInv, RouterReads, Alive
<1>2. /\ UNCHANGED <<status, socket_data, socket_application, socket_routing, sdu,
                     arp_t, forward_queue, demand>>
      /\ \/ /\ m.type = "HEL"
            /\ conn' = [conn EXCEPT ![f] = [c EXCEPT !.heard = @ \cup {m.addr}]]
         \/ /\ m.type = "UPD"
            /\ conn' = [conn EXCEPT ![f] = c]
         \/ /\ m.type = "REQ"
            /\ Len(c.in) < MaxMessages
            /\ conn' = [conn EXCEPT ![f] =
                          [c EXCEPT !.in = Append(@, Msg("RSP", NoAddr))]]
         \/ /\ m.type \in {"REQ", "PING"}
            /\ conn' = [conn EXCEPT ![f] = Left(c)]
  BY DEF RouterReads
<1>3. /\ c \in ConnectionOf(learned)
      /\ m \in ToProcess(learned)
      /\ HowMany(Tail(conn[f].out), "REQ") = IF m.type = "REQ"
                                             THEN HowMany(conn[f].out, "REQ") - 1
                                             ELSE HowMany(conn[f].out, "REQ")
  BY <1>1, OutRead
<1>4. /\ c.kind = "ROUTER" /\ c.open /\ c.in = conn[f].in /\ c.out = Tail(conn[f].out)
  BY <1>1 DEF ConnectionOf, Connection
<1> HIDE DEF c, m, learned
<1>5. /\ HowMany(conn[f].out, "REQ") \in Nat
      /\ HowMany(conn[f].in, "RSP") \in Nat
      /\ Unanswered(f) = HowMany(conn[f].out, "REQ") + HowMany(conn[f].in, "RSP")
  BY <1>1, CountTyped DEF Unanswered
<1>6. /\ HowMany(c.out, "REQ") \in Nat
      /\ HowMany(c.out, "REQ") + HowMany(c.in, "RSP") <= Unanswered(f)
      /\ m.type = "REQ" =>
           HowMany(c.out, "REQ") + (HowMany(c.in, "RSP") + 1) <= Unanswered(f)
  <2>1. HowMany(c.out, "REQ") \in Nat
    BY <1>3, CountTyped
  <2> QED BY <1>3, <1>4, <1>5, <2>1
<1>7. ASSUME NEW d \in ConnectionOf(learned), d.kind = "ROUTER",
             HowMany(d.out, "REQ") + HowMany(d.in, "RSP") <= Unanswered(f),
             conn' = [conn EXCEPT ![f] = d]
      PROVE  IInv'
  <2>1. ProcessStep(f, d)
    BY <1>1, <1>2, <1>7 DEF ProcessStep, learned
  <2> QED BY <2>1, ProcessStepKeeps
<1>8. CASE /\ m.type = "HEL"
           /\ conn' = [conn EXCEPT ![f] = [c EXCEPT !.heard = @ \cup {m.addr}]]
  <2> DEFINE d == [c EXCEPT !.heard = @ \cup {m.addr}]
  <2>1. m.addr \in learned /\ m.addr \in Addr
    BY <1>3, <1>8 DEF ToProcess
  <2>2. /\ d \in ConnectionOf(learned)
        /\ d.kind = "ROUTER" /\ d.in = c.in /\ d.out = c.out
    BY <1>3, <1>4, <2>1 DEF ConnectionOf, Connection
  <2> HIDE DEF d
  <2>3. conn' = [conn EXCEPT ![f] = d]
    BY <1>8 DEF d
  <2> QED BY <1>6, <1>7, <2>2, <2>3
<1>9. CASE m.type = "UPD" /\ conn' = [conn EXCEPT ![f] = c]
  BY <1>3, <1>4, <1>6, <1>7, <1>9
<1>10. CASE /\ m.type = "REQ"
            /\ Len(c.in) < MaxMessages
            /\ conn' = [conn EXCEPT ![f] = [c EXCEPT !.in = Append(@, Msg("RSP", NoAddr))]]
  <2> DEFINE d == [c EXCEPT !.in = Append(@, Msg("RSP", NoAddr))]
  <2>1. /\ Msg("RSP", NoAddr) \in FromProcess(c.kind, learned)
        /\ Msg("RSP", NoAddr).type = "RSP"
    BY <1>4 DEF FromProcess, Message, Msg
  <2>2. d \in ConnectionOf(learned)
    BY <1>3, <1>10, <2>1, InWritten
  <2>3. d.kind = "ROUTER" /\ d.in = Append(c.in, Msg("RSP", NoAddr)) /\ d.out = c.out
    BY <1>3, <1>4 DEF ConnectionOf, Connection
  <2> HIDE DEF d
  <2>4. HowMany(d.in, "RSP") = HowMany(c.in, "RSP") + 1
    BY <1>3, <1>10, <2>1, <2>3, InWritten
  <2>5. conn' = [conn EXCEPT ![f] = d]
    BY <1>10 DEF d
  <2> QED BY <1>6, <1>7, <1>10, <2>2, <2>3, <2>4, <2>5
<1>11. CASE m.type \in {"REQ", "PING"} /\ conn' = [conn EXCEPT ![f] = Left(c)]
  <2>1. /\ Left(c) \in ConnectionOf(learned)
        /\ Left(c).kind = "ROUTER" /\ Left(c).in = c.in /\ Left(c).out = c.out
    BY <1>3, <1>4, LeftTyped
  <2> QED BY <1>6, <1>7, <1>11, <2>1
<1> QED BY <1>2, <1>8, <1>9, <1>10, <1>11 DEF c, m

LEMMA ServerReadsKeeps ==
  ASSUME IInv, NEW f \in Fd, ServerReads(f)
  PROVE  IInv'
<1> DEFINE m == Head(conn[f].out)
           b == [conn[f] EXCEPT !.out = Tail(@)]
           c == [b EXCEPT !.in = Append(@, m)]
           learned == ToSet(arp_t)
<1>1. /\ conn \in [Fd -> ConnectionOf(learned)]
      /\ conn[f] \in ConnectionOf(learned)
      /\ IsOpen(f) /\ conn[f].kind = "SERVER" /\ conn[f].open
      /\ conn[f].out # <<>>
      /\ Len(conn[f].in) < MaxMessages
  BY DEF IInv, ConnInv, ServerReads, Alive
<1>2. b \in ConnectionOf(learned) /\ m \in ToProcess(learned)
  BY <1>1, OutRead
<1>3. /\ b.kind = "SERVER" /\ b.open = conn[f].open
      /\ b.in = conn[f].in /\ b.out = Tail(conn[f].out)
  BY <1>1 DEF ConnectionOf, Connection
<1>4. m \in FromProcess("SERVER", learned)
  BY <1>2 DEF ToProcess, FromProcess
<1>5. conn' = [conn EXCEPT ![f] = c]
  BY <1>1 DEF ServerReads, ConnectionOf, Connection
<1> HIDE DEF m, b, learned
<1>6. c \in ConnectionOf(learned)
  BY <1>1, <1>2, <1>3, <1>4, InWritten
<1>7. c.kind = "SERVER" /\ c.open = conn[f].open
  BY <1>2, <1>3 DEF ConnectionOf, Connection
<1> HIDE DEF c
<1>8. ProcessStep(f, c)
  BY <1>1, <1>5, <1>6, <1>7 DEF ProcessStep, ServerReads, learned
<1> QED BY <1>8, ProcessStepKeeps

LEMMA ClientReadsKeeps ==
  ASSUME IInv, NEW f \in Fd, ClientReads(f)
  PROVE  IInv'
<1> DEFINE b == [conn[f] EXCEPT !.out = Tail(@)]
           learned == ToSet(arp_t)
<1>1. /\ conn \in [Fd -> ConnectionOf(learned)]
      /\ conn[f] \in ConnectionOf(learned)
      /\ IsOpen(f) /\ conn[f].kind = "CLIENT" /\ conn[f].open
      /\ conn[f].out # <<>>
  BY DEF IInv, ConnInv, ClientReads, Alive
<1>2. b \in ConnectionOf(learned) /\ b.kind = "CLIENT"
  BY <1>1, OutRead DEF ConnectionOf, Connection
<1>3. conn' = [conn EXCEPT ![f] = Left(b)]
  BY DEF ClientReads
<1> HIDE DEF b, learned
<1>4. Left(b) \in ConnectionOf(learned) /\ Left(b).kind = "CLIENT" /\ ~Left(b).open
  BY <1>2, LeftTyped
<1>5. ProcessStep(f, Left(b))
  BY <1>1, <1>3, <1>4 DEF ProcessStep, ClientReads, learned
<1> QED BY <1>5, ProcessStepKeeps

-----------------------------------------------------------------------------
(* Steps of mipd. *)

\* The first message from the process is read.
LEMMA InRead ==
  ASSUME NEW learned, NEW c \in ConnectionOf(learned), c.in # <<>>
  PROVE  /\ Head(c.in) \in FromProcess(c.kind, learned)
         /\ [c EXCEPT !.in = Tail(@)] \in ConnectionOf(learned)
         /\ HowMany(Tail(c.in), "RSP") =
              IF Head(c.in).type = "RSP" THEN HowMany(c.in, "RSP") - 1
              ELSE HowMany(c.in, "RSP")
<1>1. /\ c \in Connection
      /\ c.out \in Seq(ToProcess(learned)) /\ Len(c.out) <= MaxMessages
      /\ c.in \in Seq(FromProcess(c.kind, learned)) /\ Len(c.in) <= MaxMessages
      /\ c.heard \subseteq learned
  BY DEF ConnectionOf
<1>2. /\ Head(c.in) \in FromProcess(c.kind, learned)
      /\ Tail(c.in) \in Seq(FromProcess(c.kind, learned))
      /\ Len(Tail(c.in)) = Len(c.in) - 1
      /\ Len(c.in) \in Nat
  <2> DEFINE F == FromProcess(c.kind, learned)
  <2>1. c.in \in Seq(F) /\ c.in # <<>>
    BY <1>1
  <2> HIDE DEF F
  <2>2. /\ Head(c.in) \in F
        /\ Tail(c.in) \in Seq(F)
        /\ Len(Tail(c.in)) = Len(c.in) - 1
    BY <2>1, HeadTailProperties
  <2> QED BY <2>1, <2>2 DEF F
<1>3. Tail(c.in) \in Seq(Message) /\ Len(Tail(c.in)) <= MaxMessages
  BY <1>1, <1>2, Messages, SeqMonotonic, SizeAssumption
<1>4. [c EXCEPT !.in = Tail(@)] \in Connection
  BY <1>1, <1>3 DEF Connection
<1>5. [c EXCEPT !.in = Tail(@)] \in ConnectionOf(learned)
  BY <1>1, <1>2, <1>3, <1>4 DEF ConnectionOf, Connection
<1>6. HowMany(Tail(c.in), "RSP") =
        IF Head(c.in).type = "RSP" THEN HowMany(c.in, "RSP") - 1
        ELSE HowMany(c.in, "RSP")
  BY <1>1, HowManyTail
<1> QED BY <1>2, <1>5, <1>6

\* A message to the process is written.
LEMMA OutWritten ==
  ASSUME NEW learned, NEW c \in ConnectionOf(learned), Len(c.out) < MaxMessages,
         NEW m \in ToProcess(learned)
  PROVE  /\ [c EXCEPT !.out = Append(@, m)] \in ConnectionOf(learned)
         /\ HowMany(Append(c.out, m), "REQ") =
              IF m.type = "REQ" THEN HowMany(c.out, "REQ") + 1
              ELSE HowMany(c.out, "REQ")
<1>1. /\ c \in Connection
      /\ c.out \in Seq(ToProcess(learned)) /\ Len(c.out) <= MaxMessages
      /\ c.in \in Seq(FromProcess(c.kind, learned)) /\ Len(c.in) <= MaxMessages
      /\ c.heard \subseteq learned
  BY DEF ConnectionOf
<1>2. /\ Append(c.out, m) \in Seq(ToProcess(learned))
      /\ Len(Append(c.out, m)) = Len(c.out) + 1
      /\ Len(c.out) \in Nat
  BY <1>1, AppendProperties
<1>3. Append(c.out, m) \in Seq(Message) /\ Len(Append(c.out, m)) <= MaxMessages
  BY <1>1, <1>2, Messages, SeqMonotonic, SizeAssumption
<1>4. [c EXCEPT !.out = Append(@, m)] \in Connection
  BY <1>1, <1>3 DEF Connection
<1>5. [c EXCEPT !.out = Append(@, m)] \in ConnectionOf(learned)
  BY <1>1, <1>2, <1>3, <1>4 DEF ConnectionOf, Connection
<1>6. HowMany(Append(c.out, m), "REQ") =
        IF m.type = "REQ" THEN HowMany(c.out, "REQ") + 1
        ELSE HowMany(c.out, "REQ")
  BY <1>1, HowManyAppend
<1> QED BY <1>5, <1>6

\* What the tables are after a step.
TablesFit ==
  /\ sdu \in Addr \cup {NoAddr}
  /\ arp_t \in Seq(Addr \cup {NoAddr})
  /\ ArpInv
  /\ forward_queue \in Seq(Addr) /\ Len(forward_queue) <= MAX_QUEUE_SIZE
  /\ demand \in {"met", "exceeded"}

\* mipd goes on, with the same processes at the same descriptors.
LEMMA GoesOnKeeps ==
  ASSUME IInv, status = "running", status' = "running",
         ConnInv', TablesFit', ResponseFindsPacket',
         \A g \in Fd : conn'[g].kind = conn[g].kind /\ conn'[g].open = conn[g].open,
         UNCHANGED <<socket_data, socket_application, socket_routing>>
  PROVE  IInv'
<1>1. TypeOK'
  BY DEF IInv, TypeOK, TablesFit, ConnInv, ConnectionOf
<1>2. AllClosed'
  BY DEF AllClosed
<1>3. SocketsAreTheirs'
  BY DEF IInv, SocketsAreTheirs, TypeOK
<1> QED BY <1>1, <1>2, <1>3 DEF IInv, TablesFit

\* mipd ends, and every connection with it.
LEMMA EndsKeeps ==
  ASSUME IInv, Ends, TablesFit',
         UNCHANGED <<socket_data, socket_application, socket_routing>>
  PROVE  IInv'
<1>1. \A f \in Fd : conn'[f] = Closed
  BY DEF Ends
<1>2. ConnInv'
  BY ClosedTyped DEF Ends, ConnInv
<1>3. TypeOK'
  BY <1>2 DEF IInv, TypeOK, TablesFit, ConnInv, ConnectionOf, Ends
<1>4. AllClosed' /\ SocketsAreTheirs'
  BY <1>1, ClosedTyped DEF AllClosed, SocketsAreTheirs, IsOpen, Ends
<1>5. ResponseFindsPacket'
  <2>1. SUFFICES ASSUME socket_routing' # -1
        PROVE  Unanswered(socket_routing)' <= Len(forward_queue')
    BY DEF ResponseFindsPacket
  <2>2. socket_routing' \in Fd
    BY <2>1, <1>3 DEF TypeOK
  <2>3. conn'[socket_routing'].out = <<>> /\ conn'[socket_routing'].in = <<>>
    BY <1>1, <2>2 DEF Closed, Opened
  <2>4. Unanswered(socket_routing)' = 0 + 0
    BY <2>3, HowManyEmpty DEF Unanswered
  <2>5. Len(forward_queue') \in Nat
    BY <1>3 DEF TypeOK
  <2> QED BY <2>4, <2>5
<1> QED BY <1>2, <1>3, <1>4, <1>5 DEF IInv, TablesFit

\* The sender of a HELLO or UPDATE is in the arp table afterwards, once.
LEMMA ArpLearns ==
  ASSUME IInv, NEW m \in Neighbour,
         IF InArpTable(m) THEN UNCHANGED arp_t ELSE arp_t_add_entry(m)
  PROVE  /\ arp_t' \in Seq(Addr \cup {NoAddr})
         /\ ArpInv'
         /\ ToSet(arp_t) \subseteq ToSet(arp_t)'
         /\ m \in ToSet(arp_t)'
<1>1. /\ arp_t \in Seq(Addr \cup {NoAddr})
      /\ m \in Addr
  BY DEF IInv, TypeOK, Addr
<1>2. CASE InArpTable(m)
  BY <1>1, <1>2 DEF IInv, ArpInv, InArpTable
<1>3. CASE ~InArpTable(m)
  <2>1. arp_t' = Append(arp_t, m)
    BY <1>3 DEF arp_t_add_entry
  <2>2. /\ arp_t' \in Seq(Addr \cup {NoAddr})
        /\ Len(arp_t') = Len(arp_t) + 1
        /\ \A i \in 1 .. Len(arp_t) : arp_t'[i] = arp_t[i]
        /\ arp_t'[Len(arp_t) + 1] = m
        /\ DOMAIN arp_t = 1 .. Len(arp_t)
        /\ Len(arp_t) \in Nat
    BY <1>1, <2>1, AppendProperties
  <2>3. DOMAIN arp_t' = 1 .. Len(arp_t) + 1
    BY <2>2
  <2>4. ToSet(arp_t)' = ToSet(arp_t) \cup {m}
    BY <2>2, <2>3 DEF ToSet
  <2>5. m \notin ToSet(arp_t) \cap Neighbour
    BY <1>3 DEF InArpTable
  <2>6. IsFiniteSet(ToSet(arp_t) \cap Neighbour)
    BY NeighbourAssumption, FS_Intersection
  <2>7. Cardinality((ToSet(arp_t) \cap Neighbour) \cup {m})
          = Cardinality(ToSet(arp_t) \cap Neighbour) + 1
    BY <2>5, <2>6, FS_AddElement
  <2>8. ToSet(arp_t)' \cap Neighbour = (ToSet(arp_t) \cap Neighbour) \cup {m}
    BY <2>4
  <2> DEFINE known == Cardinality(ToSet(arp_t) \cap Neighbour)
             known1 == Cardinality(ToSet(arp_t)' \cap Neighbour)
  <2>9. known \in Nat /\ known1 = known + 1
    BY <2>6, <2>7, <2>8, FS_CardinalityType
  <2>10. Len(arp_t) <= Len(Stray) + known /\ Len(Stray) \in Nat
    BY StrayAssumption DEF IInv, ArpInv
  <2> HIDE DEF known, known1
  <2>11. Len(arp_t') <= Len(Stray) + known1
    BY <2>2, <2>9, <2>10
  <2>12. ArpInv'
    BY <2>11 DEF ArpInv, known1
  <2> QED BY <2>2, <2>4, <2>12
<1> QED BY <1>2, <1>3

LEMMA TablesUnchanged ==
  ASSUME IInv, UNCHANGED <<sdu, arp_t, forward_queue, demand>>
  PROVE  TablesFit'
BY DEF IInv, TypeOK, ArpInv, TablesFit

\* The descriptors that mipd remembers are open, with a connection of their kind.
LEMMA InUse ==
  ASSUME IInv, status = "running"
  PROVE  /\ socket_routing # -1 =>
              /\ socket_routing \in Fd /\ IsOpen(socket_routing)
              /\ conn[socket_routing].kind = "ROUTER"
              /\ conn[socket_routing] \in ConnectionOf(ToSet(arp_t))
         /\ socket_application # -1 =>
              /\ socket_application \in Fd /\ IsOpen(socket_application)
              /\ conn[socket_application].kind \in {"CLIENT", "SERVER"}
              /\ conn[socket_application] \in ConnectionOf(ToSet(arp_t))
BY DEF IInv, TypeOK, SocketsAreTheirs, IsOpen, ConnInv

\* A connection that mipd closes is forgotten, and with the routing daemon's its
\* descriptor.
LEMMA CloseKeeps ==
  ASSUME IInv, NEW f \in Fd, status = "running", AtEnd(f),
         conn' = [conn EXCEPT ![f] = Closed],
         UNCHANGED <<status, socket_data, sdu, arp_t, forward_queue, demand>>,
         socket_application' = IF socket_application = f THEN -1 ELSE socket_application,
         socket_routing' = IF socket_routing = f THEN -1 ELSE socket_routing
  PROVE  IInv'
<1>1. /\ conn \in [Fd -> ConnectionOf(ToSet(arp_t))]
      /\ conn' \in [Fd -> ConnectionOf(ToSet(arp_t))]
      /\ conn'[f] = Closed
  BY ClosedTyped DEF IInv, ConnInv
<1>2. ConnInv'
  BY <1>1 DEF ConnInv
<1>3. TablesFit'
  BY TablesUnchanged
<1>4. TypeOK'
  BY <1>2, <1>3 DEF IInv, TypeOK, TablesFit, ConnInv, ConnectionOf
<1>5. AllClosed' /\ SocketsAreTheirs'
  BY <1>1 DEF IInv, TypeOK, AllClosed, SocketsAreTheirs
<1>6. ResponseFindsPacket'
  <2>1. SUFFICES ASSUME demand = "met", socket_routing' # -1
        PROVE  Unanswered(socket_routing)' <= Len(forward_queue')
    BY DEF ResponseFindsPacket
  <2>2. socket_routing' = socket_routing /\ socket_routing # f
    BY <2>1
  <2>3. Unanswered(socket_routing)' = Unanswered(socket_routing)
    BY <2>1, <2>2 DEF IInv, TypeOK, Unanswered
  <2> QED BY <2>1, <2>2, <2>3 DEF IInv, ResponseFindsPacket
<1> QED BY <1>2, <1>3, <1>4, <1>5, <1>6 DEF IInv, TablesFit

LEMMA ApplicationClosedKeeps ==
  ASSUME IInv, ApplicationClosed
  PROVE  IInv'
<1>1. /\ socket_application \in Fd /\ socket_application # socket_routing
      /\ status = "running"
  BY InUse DEF ApplicationClosed, AtEnd, IsOpen
<1> QED BY <1>1, CloseKeeps DEF ApplicationClosed

LEMMA RouterClosedKeeps ==
  ASSUME IInv, RouterClosed
  PROVE  IInv'
<1>1. /\ socket_routing \in Fd /\ socket_application # socket_routing
      /\ status = "running"
  BY InUse DEF RouterClosed, AtEnd, IsOpen
<1> QED BY <1>1, CloseKeeps DEF RouterClosed

LEMMA ReadFailsKeeps ==
  ASSUME IInv, ReadFails
  PROVE  IInv'
BY TablesUnchanged, EndsKeeps DEF ReadFails

\* A new connection takes a descriptor that is in use for nothing else.
LEMMA NewConnectionKeeps ==
  ASSUME IInv, NEW kind \in SOCKET_TYPE \cup {NoType}, NEW dst \in Addr,
         NewConnection(kind, dst)
  PROVE  IInv'
<1> DEFINE free == {f \in Fd : ~IsOpen(f)}
           lowest == CHOOSE g \in free : \A h \in free : g <= h
           in == IF kind = "CLIENT" THEN <<Msg("PING", dst)>> ELSE <<>>
           b == Opened(kind, in)
           c == IF kind = NoType THEN Left(b) ELSE b
           learned == ToSet(arp_t)
<1>1. PICK f \in free : f = lowest
  <2>1. free # {} /\ free \subseteq Fd
    BY DEF NewConnection
  <2> QED BY <2>1, LowestFd
<1>2. /\ status = "running" /\ status' = "running"
      /\ conn' = [conn EXCEPT ![f] = c]
      /\ socket_data' = f
      /\ socket_application' = IF kind \in {"CLIENT", "SERVER"} THEN f ELSE socket_application
      /\ socket_routing' = IF kind = "ROUTER" THEN f ELSE socket_routing
      /\ demand' = IF kind = "ROUTER" THEN "met" ELSE demand
      /\ UNCHANGED <<sdu, arp_t, forward_queue>>
  BY <1>1 DEF NewConnection
<1>3. f \in Fd /\ ~IsOpen(f) /\ f # -1
  <2>1. f \in Fd /\ ~IsOpen(f)
    OBVIOUS
  <2> HIDE DEF free
  <2> QED BY <2>1, FdAssumption
<1>4. /\ in \in Seq(FromProcess(kind, learned)) /\ Len(in) <= MaxMessages
      /\ in \in Seq(Message)
      /\ kind = "ROUTER" => in = <<>>
  <2>1. CASE kind = "CLIENT"
    <3>1. Msg("PING", dst) \in FromProcess(kind, learned)
      BY DEF Msg, Message, FromProcess
    <3>2. Msg("PING", dst) \in Message
      BY <3>1, Messages
    <3> QED BY <2>1, <3>1, <3>2, SizeAssumption
  <2>2. CASE kind # "CLIENT"
    BY <2>2, EmptySeq, SizeAssumption
  <2> QED BY <2>1, <2>2
<1> HIDE DEF in
<1>5. /\ c \in ConnectionOf(learned)
      /\ c.kind = kind /\ c.in = in /\ c.out = <<>>
  <2>1. /\ <<>> \in Seq(ToProcess(learned)) /\ Len(<<>>) <= MaxMessages
        /\ <<>> \in Seq(Message)
    BY EmptySeq, SizeAssumption
  <2>2. b \in Connection
    BY <1>4, <2>1 DEF Opened, Connection
  <2>3. /\ b \in ConnectionOf(learned)
        /\ b.kind = kind /\ b.in = in /\ b.out = <<>>
    BY <1>4, <2>1, <2>2 DEF Opened, ConnectionOf
  <2> HIDE DEF b
  <2> QED BY <2>3, LeftTyped
<1> HIDE DEF b, c, learned
<1>6. ConnInv'
  BY <1>2, <1>3, <1>5 DEF IInv, ConnInv, learned
<1>7. TablesFit'
  BY <1>2 DEF IInv, TypeOK, ArpInv, TablesFit
<1>8. TypeOK'
  BY <1>2, <1>3, <1>6, <1>7 DEF IInv, TypeOK, TablesFit, ConnInv, ConnectionOf
<1>9. AllClosed'
  BY <1>2 DEF AllClosed
<1>10. conn'[f] = c /\ \A g \in Fd : g # f => conn'[g] = conn[g]
  BY <1>2, <1>3 DEF IInv, TypeOK
<1>11. f # socket_routing /\ f # socket_application
  BY <1>2, <1>3, InUse
<1>12. SocketsAreTheirs'
  BY <1>2, <1>3, <1>5, <1>10, <1>11 DEF IInv, TypeOK, SocketsAreTheirs, SOCKET_TYPE
<1>13. ResponseFindsPacket'
  <2>1. CASE kind = "ROUTER"
    <3>1. Unanswered(f)' = 0 + 0
      BY <1>4, <1>5, <1>10, <2>1, HowManyEmpty DEF Unanswered
    <3>2. Len(forward_queue') \in Nat
      BY <1>8 DEF TypeOK
    <3>3. Unanswered(socket_routing)' = Unanswered(f)'
      BY <1>2, <2>1 DEF Unanswered
    <3> QED BY <3>1, <3>2, <3>3 DEF ResponseFindsPacket
  <2>2. CASE kind # "ROUTER"
    <3>1. socket_routing # -1 => Unanswered(socket_routing)' = Unanswered(socket_routing)
      BY <1>2, <1>10, <1>11, <2>2 DEF IInv, TypeOK, Unanswered
    <3> QED BY <1>2, <2>2, <3>1 DEF IInv, ResponseFindsPacket
  <2> QED BY <2>1, <2>2
<1> QED BY <1>6, <1>7, <1>8, <1>9, <1>12, <1>13 DEF IInv, TablesFit

LEMMA ReadOf ==
  ASSUME NEW c \in Connection
  PROVE  LET d == [c EXCEPT !.in = Tail(@)]
         IN  d.kind = c.kind /\ d.open = c.open /\ d.in = Tail(c.in) /\ d.out = c.out
BY DEF Connection

LEMMA WriteOf ==
  ASSUME NEW c \in Connection, NEW m
  PROVE  LET d == [c EXCEPT !.out = Append(@, m)]
         IN  d.kind = c.kind /\ d.open = c.open /\ d.in = c.in /\ d.out = Append(c.out, m)
BY DEF Connection

\* mipd reads a message and goes on.
LEMMA ReadKeeps ==
  ASSUME IInv, NEW f \in Fd, status = "running", Readable(f), GoesOn(Read(f)),
         TablesFit', UNCHANGED arp_t
  PROVE  /\ ConnInv'
         /\ status' = "running"
         /\ \A g \in Fd : conn'[g].kind = conn[g].kind /\ conn'[g].open = conn[g].open
         /\ \A g \in Fd : g # f => conn'[g] = conn[g]
         /\ conn'[f].in = Tail(conn[f].in) /\ conn'[f].out = conn[f].out
<1> DEFINE learned == ToSet(arp_t)
           d == [conn[f] EXCEPT !.in = Tail(@)]
<1>1. /\ conn \in [Fd -> ConnectionOf(learned)]
      /\ conn[f] \in ConnectionOf(learned) /\ conn[f].in # <<>>
      /\ conn[f] \in Connection
  BY DEF IInv, ConnInv, Readable, ConnectionOf
<1>2. conn' = [conn EXCEPT ![f] = d] /\ status' = "running"
  BY DEF GoesOn, Read
<1>3. d \in ConnectionOf(learned)
  BY <1>1, InRead
<1>4. /\ d.kind = conn[f].kind /\ d.open = conn[f].open
      /\ d.in = Tail(conn[f].in) /\ d.out = conn[f].out
  BY <1>1, ReadOf
<1> HIDE DEF d
<1>5. ConnInv'
  BY <1>1, <1>2, <1>3 DEF ConnInv
<1>6. conn'[f] = d /\ \A g \in Fd : g # f => conn'[g] = conn[g]
  BY <1>1, <1>2
<1> QED BY <1>2, <1>4, <1>5, <1>6

\* An answer read is one less, and a packet less in the queue.
LEMMA RouterEventKeeps ==
  ASSUME IInv, RouterEvent
  PROVE  IInv'
<1> DEFINE f == socket_routing
<1>1. /\ status = "running" /\ f # -1 /\ f \in Fd /\ Readable(f)
      /\ conn[f] \in ConnectionOf(ToSet(arp_t))
      /\ conn[f].in # <<>>
      /\ UNCHANGED <<socket_data, socket_application, socket_routing, sdu, arp_t, demand>>
  BY InUse DEF RouterEvent, Readable, IsOpen
<1>2. /\ HowMany(conn[f].out, "REQ") \in Nat
      /\ HowMany(conn[f].in, "RSP") \in Nat
      /\ Unanswered(f) = HowMany(conn[f].out, "REQ") + HowMany(conn[f].in, "RSP")
      /\ demand = "met" => Unanswered(f) <= Len(forward_queue)
  BY <1>1, CountTyped DEF Unanswered, IInv, ResponseFindsPacket
<1>3. /\ HowMany(Tail(conn[f].in), "RSP") = IF FirstFrom(f).type = "RSP"
                                           THEN HowMany(conn[f].in, "RSP") - 1
                                           ELSE HowMany(conn[f].in, "RSP")
      /\ HowMany(Tail(conn[f].in), "RSP") \in Nat
  <2>1. HowMany(Tail(conn[f].in), "RSP") = IF FirstFrom(f).type = "RSP"
                                           THEN HowMany(conn[f].in, "RSP") - 1
                                           ELSE HowMany(conn[f].in, "RSP")
    BY <1>1, InRead DEF FirstFrom
  <2>2. conn[f].in \in Seq(FromProcess(conn[f].kind, ToSet(arp_t)))
    BY <1>1 DEF ConnectionOf
  <2>3. Tail(conn[f].in) \in Seq(FromProcess(conn[f].kind, ToSet(arp_t)))
    BY <1>1, <2>2, HeadTailProperties
  <2> QED BY <2>1, <2>3, HowManyBound
<1>4. forward_queue \in Seq(Addr) /\ Len(forward_queue) <= MAX_QUEUE_SIZE
      /\ Len(forward_queue) \in Nat
  BY DEF IInv, TypeOK
<1>5. CASE Ends /\ UNCHANGED forward_queue
  <2>1. TablesFit'
    BY <1>1, <1>5, TablesUnchanged
  <2> QED BY <1>1, <1>5, <2>1, EndsKeeps
<1>6. CASE /\ FirstFrom(f).type = "RSP"
           /\ forward_queue # <<>>
           /\ GoesOn(Read(f))
           /\ forward_queue' = Tail(forward_queue)
  <2>1. /\ forward_queue' \in Seq(Addr)
        /\ Len(forward_queue') = Len(forward_queue) - 1
    BY <1>4, <1>6, HeadTailProperties
  <2>2. TablesFit'
    BY <1>1, <1>4, <2>1, SizeAssumption DEF IInv, TypeOK, ArpInv, TablesFit
  <2>3. /\ ConnInv' /\ status' = "running"
        /\ \A g \in Fd : conn'[g].kind = conn[g].kind /\ conn'[g].open = conn[g].open
        /\ conn'[f].in = Tail(conn[f].in) /\ conn'[f].out = conn[f].out
    BY <1>1, <1>6, <2>2, ReadKeeps
  <2>4. Unanswered(socket_routing)' =
          HowMany(conn[f].out, "REQ") + HowMany(Tail(conn[f].in), "RSP")
    BY <1>1, <2>3 DEF Unanswered
  <2>5. ResponseFindsPacket'
    BY <1>1, <1>2, <1>3, <1>4, <1>6, <2>1, <2>4 DEF ResponseFindsPacket
  <2> QED BY <1>1, <2>2, <2>3, <2>5, GoesOnKeeps
<1>7. CASE /\ FirstFrom(f).type \in {"HEL", "UPD"}
           /\ GoesOn(Read(f))
           /\ UNCHANGED forward_queue
  <2>1. TablesFit'
    BY <1>1, <1>7, TablesUnchanged
  <2>2. /\ ConnInv' /\ status' = "running"
        /\ \A g \in Fd : conn'[g].kind = conn[g].kind /\ conn'[g].open = conn[g].open
        /\ conn'[f].in = Tail(conn[f].in) /\ conn'[f].out = conn[f].out
    BY <1>1, <1>7, <2>1, ReadKeeps
  <2>3. Unanswered(socket_routing)' =
          HowMany(conn[f].out, "REQ") + HowMany(Tail(conn[f].in), "RSP")
    BY <1>1, <2>2 DEF Unanswered
  <2>4. ResponseFindsPacket'
    BY <1>1, <1>2, <1>3, <1>7, <2>3 DEF ResponseFindsPacket
  <2> QED BY <1>1, <2>1, <2>2, <2>4, GoesOnKeeps
<1> QED BY <1>5, <1>6, <1>7 DEF RouterEvent

Written(base, f, m) == [base EXCEPT ![f].out = Append(@, m)]

\* A message m written to f, where mipd has read the message of another
\* connection in the same step or none (base is conn, or conn without that
\* message).
LEMMA WriteKeeps ==
  ASSUME IInv, status = "running", NEW f \in Fd, IsOpen(f),
         NEW base \in [Fd -> ConnectionOf(ToSet(arp_t)')],
         NEW m \in ToProcess(ToSet(arp_t)'),
         Len(base[f].out) < MaxMessages,
         conn' = Written(base, f, m),
         \A g \in Fd : base[g].kind = conn[g].kind /\ base[g].open = conn[g].open
  PROVE  /\ ConnInv'
         /\ \A g \in Fd : conn'[g].kind = conn[g].kind /\ conn'[g].open = conn[g].open
         /\ \A g \in Fd : conn'[g].in = base[g].in
         /\ \A g \in Fd : g # f => conn'[g].out = base[g].out
         /\ HowMany(conn'[f].out, "REQ") = IF m.type = "REQ"
                                           THEN HowMany(base[f].out, "REQ") + 1
                                           ELSE HowMany(base[f].out, "REQ")
<1> DEFINE learned == ToSet(arp_t)'
           d == [base[f] EXCEPT !.out = Append(@, m)]
<1>1. base[f] \in ConnectionOf(learned) /\ base[f] \in Connection
  BY DEF ConnectionOf
<1>2. conn' = [base EXCEPT ![f] = d]
  BY DEF Written
<1>3. /\ d \in ConnectionOf(learned)
      /\ HowMany(Append(base[f].out, m), "REQ") = IF m.type = "REQ"
                                                  THEN HowMany(base[f].out, "REQ") + 1
                                                  ELSE HowMany(base[f].out, "REQ")
  BY <1>1, OutWritten
<1>4. /\ d.kind = base[f].kind /\ d.open = base[f].open
      /\ d.in = base[f].in /\ d.out = Append(base[f].out, m)
  BY <1>1, WriteOf
<1> HIDE DEF d
<1>5. conn'[f] = d /\ \A g \in Fd : g # f => conn'[g] = base[g]
  BY <1>2
<1>6. ConnInv'
  BY <1>2, <1>3 DEF ConnInv
<1> QED BY <1>3, <1>4, <1>5, <1>6

\* The number of unanswered requests is within the messages under way.
LEMMA UnansweredTyped ==
  ASSUME NEW learned, NEW f \in Fd, conn[f] \in ConnectionOf(learned)
  PROVE  /\ HowMany(conn[f].out, "REQ") \in Nat
         /\ HowMany(conn[f].in, "RSP") \in Nat
         /\ Unanswered(f) = HowMany(conn[f].out, "REQ") + HowMany(conn[f].in, "RSP")
         /\ Unanswered(f) \in Nat
BY CountTyped DEF Unanswered

\* A request written is a packet more in the queue, or the queue is full: then it
\* holds a packet for each request, or there are more requests than entries.
LEMMA ApplicationEventKeeps ==
  ASSUME IInv, ApplicationEvent
  PROVE  IInv'
<1> DEFINE f == socket_application
           r == socket_routing
           dst == FirstFrom(f).addr
           req == Msg("REQ", dst)
           learned == ToSet(arp_t)
<1>1. /\ status = "running" /\ f # -1 /\ f \in Fd /\ IsOpen(f) /\ Readable(f)
      /\ conn[f].kind \in {"CLIENT", "SERVER"}
      /\ conn[f] \in ConnectionOf(learned)
      /\ conn[f].in # <<>>
      /\ sdu' = dst
      /\ UNCHANGED <<socket_data, socket_application, socket_routing, arp_t>>
  BY InUse DEF ApplicationEvent, Readable, IsOpen
<1>2. dst \in Addr
  <2>1. Head(conn[f].in) \in FromProcess(conn[f].kind, learned)
    BY <1>1, InRead
  <2> QED BY <1>1, <2>1 DEF FirstFrom, FromProcess
<1>3. /\ forward_queue \in Seq(Addr) /\ Len(forward_queue) <= MAX_QUEUE_SIZE
      /\ Len(forward_queue) \in Nat
  BY DEF IInv, TypeOK
<1>4. r # -1 => /\ r \in Fd /\ r # f /\ conn[r] \in ConnectionOf(learned)
                /\ demand = "met" => Unanswered(r) <= Len(forward_queue)
  BY <1>1, InUse DEF IInv, ResponseFindsPacket
<1> HIDE DEF f, r, dst, req, learned
<1>5. CASE GoesOn(Read(f)) /\ UNCHANGED <<forward_queue, demand>>
  <2>1. TablesFit'
    BY <1>1, <1>2, <1>5 DEF IInv, TypeOK, ArpInv, TablesFit
  <2>2. /\ ConnInv' /\ status' = "running"
        /\ \A g \in Fd : conn'[g].kind = conn[g].kind /\ conn'[g].open = conn[g].open
        /\ \A g \in Fd : g # f => conn'[g] = conn[g]
    BY <1>1, <1>5, <2>1, ReadKeeps
  <2>3. r # -1 => Unanswered(r)' = Unanswered(r)
    BY <1>1, <1>4, <2>2 DEF Unanswered, r
  <2>4. ResponseFindsPacket'
    BY <1>1, <1>4, <1>5, <2>3 DEF ResponseFindsPacket, Unanswered, r
  <2> QED BY <1>1, <2>1, <2>2, <2>4, GoesOnKeeps
<1>6. CASE /\ HasRoom(r)
           /\ Write(Read(f), r, req)
           /\ queue_tail_push(dst)
           /\ demand' = IF Full(r) THEN "exceeded" ELSE demand
  <2>1. /\ forward_queue' \in Seq(Addr)
        /\ Len(forward_queue') <= MAX_QUEUE_SIZE
        /\ Len(forward_queue') = IF Len(forward_queue) = MAX_QUEUE_SIZE
                                 THEN MAX_QUEUE_SIZE ELSE Len(forward_queue) + 1
    BY <1>2, <1>3, <1>6, AppendProperties, SizeAssumption DEF queue_tail_push
  <2>2. TablesFit'
    <3>1. demand' \in {"met", "exceeded"}
      BY <1>6 DEF IInv, TypeOK
    <3> QED BY <1>1, <1>2, <2>1, <3>1 DEF IInv, TypeOK, ArpInv, TablesFit
  <2>3. CASE ~(IsOpen(r) /\ conn[r].open)
    BY <1>1, <1>6, <2>2, <2>3, EndsKeeps DEF Write
  <2>4. CASE IsOpen(r) /\ conn[r].open
    <3> DEFINE base == Read(f)
    <3>1. r # -1 /\ r \in Fd /\ r # f /\ Len(conn[r].out) < MaxMessages
      BY <1>4, <1>6, <2>4 DEF IsOpen, HasRoom
    <3>2. /\ conn' = Written(base, r, req)
          /\ status' = "running"
      BY <1>6, <2>4 DEF Write, GoesOn, Written
    <3>3. conn \in [Fd -> ConnectionOf(learned)] /\ conn[f] \in Connection
      BY <1>1 DEF IInv, ConnInv, ConnectionOf, learned
    <3>4. [conn[f] EXCEPT !.in = Tail(@)] \in ConnectionOf(learned)
      BY <1>1, InRead
    <3>5. base = [conn EXCEPT ![f] = [conn[f] EXCEPT !.in = Tail(@)]]
      BY DEF Read
    <3> HIDE DEF base
    <3>6. /\ base \in [Fd -> ConnectionOf(learned)]
          /\ base[r] = conn[r]
          /\ \A g \in Fd : base[g].kind = conn[g].kind /\ base[g].open = conn[g].open
      BY <1>1, <3>1, <3>3, <3>4, <3>5, ReadOf
    <3>7. req \in ToProcess(learned) /\ req.type = "REQ"
      BY <1>2 DEF req, Msg, Message, ToProcess
    <3>8. learned = ToSet(arp_t)'
      BY <1>1 DEF learned
    <3>9. /\ ConnInv'
          /\ \A g \in Fd : conn'[g].kind = conn[g].kind /\ conn'[g].open = conn[g].open
          /\ conn'[r].in = conn[r].in
          /\ HowMany(conn'[r].out, "REQ") = HowMany(conn[r].out, "REQ") + 1
      BY <1>1, <2>4, <3>1, <3>2, <3>6, <3>7, <3>8, WriteKeeps
    <3>10. r' = r /\ conn'[r] \in ConnectionOf(learned)
      BY <1>1, <3>1, <3>8, <3>9 DEF r, ConnInv
    <3>11. Unanswered(r)' = Unanswered(r) + 1 /\ Unanswered(r) \in Nat
      <4>1. Unanswered(r)' = HowMany(conn'[r].out, "REQ") + HowMany(conn'[r].in, "RSP")
        BY <3>10 DEF Unanswered
      <4>2. /\ HowMany(conn[r].out, "REQ") \in Nat
            /\ HowMany(conn[r].in, "RSP") \in Nat
            /\ Unanswered(r) = HowMany(conn[r].out, "REQ") + HowMany(conn[r].in, "RSP")
            /\ Unanswered(r) \in Nat
        BY <1>4, <3>1, UnansweredTyped
      <4> QED BY <3>9, <4>1, <4>2
    <3>12. demand' = "met" => Unanswered(r)' <= Len(forward_queue')
      <4>1. SUFFICES ASSUME demand' = "met"
            PROVE  Unanswered(r)' <= Len(forward_queue')
        OBVIOUS
      <4>2. demand = "met" /\ ~(Unanswered(r) >= MAX_QUEUE_SIZE)
        BY <1>6, <2>4, <4>1 DEF Full
      <4>3. Unanswered(r) <= Len(forward_queue)
        BY <1>4, <3>1, <4>2
      <4> QED BY <1>3, <2>1, <3>11, <4>2, <4>3, SizeAssumption
    <3>13. ResponseFindsPacket'
      BY <1>1, <3>12 DEF ResponseFindsPacket, r
    <3> QED BY <1>1, <2>2, <3>2, <3>9, <3>13, GoesOnKeeps
  <2> QED BY <2>3, <2>4
<1> QED BY <1>5, <1>6 DEF ApplicationEvent, f, r, dst, req

\* The host is in the arp table before the routing daemon is told of it.
LEMMA RoutePacketKeeps ==
  ASSUME IInv, NEW type \in {"HEL", "UPD"}, NEW m \in Neighbour,
         handle_mip_route_packet(type, m)
  PROVE  IInv'
<1> DEFINE r == socket_routing
           msg == Msg(type, m)
<1>1. /\ status = "running" /\ r # -1 /\ r \in Fd /\ IsOpen(r)
      /\ Len(conn[r].out) < MaxMessages
      /\ conn[r] \in ConnectionOf(ToSet(arp_t))
      /\ Write(conn, r, msg)
      /\ UNCHANGED <<socket_data, socket_application, socket_routing, sdu, forward_queue, demand>>
  BY InUse DEF handle_mip_route_packet, HasRoom
<1>2. /\ arp_t' \in Seq(Addr \cup {NoAddr})
      /\ ArpInv'
      /\ ToSet(arp_t) \subseteq ToSet(arp_t)'
      /\ m \in ToSet(arp_t)'
  BY ArpLearns DEF handle_mip_route_packet
<1>3. TablesFit'
  BY <1>1, <1>2 DEF IInv, TypeOK, TablesFit
<1>4. CASE ~conn[r].open
  BY <1>1, <1>3, <1>4, EndsKeeps DEF Write
<1>5. CASE conn[r].open
  <2>1. conn' = Written(conn, r, msg) /\ status' = "running"
    BY <1>1, <1>5 DEF Write, GoesOn, Written
  <2>2. conn \in [Fd -> ConnectionOf(ToSet(arp_t)')]
    BY <1>2, LearnedGrows DEF IInv, ConnInv
  <2>3. msg \in ToProcess(ToSet(arp_t)') /\ msg.type # "REQ"
    BY <1>2 DEF Msg, Message, ToProcess, Addr
  <2> HIDE DEF msg
  <2>4. /\ ConnInv'
        /\ \A g \in Fd : conn'[g].kind = conn[g].kind /\ conn'[g].open = conn[g].open
        /\ conn'[r].in = conn[r].in
        /\ HowMany(conn'[r].out, "REQ") = HowMany(conn[r].out, "REQ")
    BY <1>1, <2>1, <2>2, <2>3, WriteKeeps
  <2>5. Unanswered(socket_routing)' = Unanswered(socket_routing)
    BY <1>1, <2>4 DEF Unanswered
  <2>6. ResponseFindsPacket'
    BY <1>1, <2>5 DEF IInv, ResponseFindsPacket
  <2> QED BY <1>1, <1>3, <2>1, <2>4, <2>6, GoesOnKeeps
<1> QED BY <1>4, <1>5

LEMMA PingPacketKeeps ==
  ASSUME IInv, NEW m \in Neighbour, handle_mip_ping_packet(m)
  PROVE  IInv'
<1> DEFINE s == socket_data
           msg == Msg("PING", m)
<1>1. TablesFit'
  BY DEF handle_mip_ping_packet, IInv, TypeOK, ArpInv, TablesFit, Addr
<1>2. /\ status = "running"
      /\ UNCHANGED <<socket_data, socket_application, socket_routing, arp_t, forward_queue, demand>>
  BY DEF handle_mip_ping_packet
<1>3. CASE s = -1
  <2>1. UNCHANGED <<status, conn>>
    BY <1>3 DEF handle_mip_ping_packet
  <2>2. ConnInv' /\ ResponseFindsPacket'
    BY <1>2, <2>1 DEF IInv, ConnInv, ResponseFindsPacket, Unanswered
  <2> QED BY <1>1, <1>2, <2>1, <2>2, GoesOnKeeps
<1>4. CASE s # -1 /\ ~(IsOpen(s) /\ conn[s].open)
  BY <1>1, <1>2, <1>4, EndsKeeps DEF handle_mip_ping_packet, Write
<1>5. CASE s # -1 /\ IsOpen(s) /\ conn[s].open
  <2>1. /\ conn' = Written(conn, s, msg) /\ status' = "running"
        /\ Len(conn[s].out) < MaxMessages
        /\ s \in Fd
    BY <1>5 DEF handle_mip_ping_packet, Write, GoesOn, Written, HasRoom, IInv, TypeOK
  <2>2. conn \in [Fd -> ConnectionOf(ToSet(arp_t)')]
    BY <1>2 DEF IInv, ConnInv
  <2>3. msg \in ToProcess(ToSet(arp_t)') /\ msg.type # "REQ"
    BY DEF Msg, Message, ToProcess, Addr
  <2> HIDE DEF msg
  <2>4. /\ ConnInv'
        /\ \A g \in Fd : conn'[g].kind = conn[g].kind /\ conn'[g].open = conn[g].open
        /\ \A g \in Fd : conn'[g].in = conn[g].in
        /\ \A g \in Fd : HowMany(conn'[g].out, "REQ") = HowMany(conn[g].out, "REQ")
    BY <1>2, <1>5, <2>1, <2>2, <2>3, WriteKeeps
  <2>5. socket_routing # -1 => Unanswered(socket_routing)' = Unanswered(socket_routing)
    BY <1>2, <2>4 DEF Unanswered, IInv, TypeOK
  <2>6. ResponseFindsPacket'
    BY <1>2, <2>5 DEF IInv, ResponseFindsPacket
  <2> QED BY <1>1, <1>2, <2>1, <2>4, <2>6, GoesOnKeeps
<1> QED BY <1>3, <1>4, <1>5

-----------------------------------------------------------------------------
(* The theorems. *)

LEMMA InitEstablishes ==
  ASSUME Init
  PROVE  IInv
<1>2. ConnInv
  BY ClosedTyped DEF Init, ConnInv
<1>3. arp_t = Stray /\ arp_t \in Seq(Addr \cup {NoAddr}) /\ Len(Stray) \in Nat
  BY StrayAssumption DEF Init
<1>4. Cardinality(ToSet(arp_t) \cap Neighbour) \in Nat
  BY NeighbourAssumption, FS_Intersection, FS_CardinalityType
<1>5. ArpInv
  BY <1>3, <1>4 DEF ArpInv
<1>6. TypeOK
  BY <1>2, <1>3, EmptySeq, SizeAssumption DEF Init, TypeOK, ConnInv, ConnectionOf
<1>7. AllClosed /\ SocketsAreTheirs /\ ResponseFindsPacket
  BY DEF Init, AllClosed, SocketsAreTheirs, ResponseFindsPacket
<1> QED BY <1>2, <1>5, <1>6, <1>7 DEF IInv

LEMMA StutterKeeps ==
  ASSUME IInv, UNCHANGED vars
  PROVE  IInv'
BY DEF IInv, TypeOK, AllClosed, ConnInv, ArpInv, SocketsAreTheirs,
       IsOpen, ResponseFindsPacket, Unanswered, vars

LEMMA NextKeeps ==
  ASSUME IInv, Next
  PROVE  IInv'
<1>1. ASSUME NEW kind \in SOCKET_TYPE \cup {NoType}, NEW dst \in Addr, NewConnection(kind, dst)
      PROVE  IInv'
  BY <1>1, NewConnectionKeeps
<1>2. CASE ApplicationClosed
  BY <1>2, ApplicationClosedKeeps
<1>3. CASE ApplicationEvent
  BY <1>3, ApplicationEventKeeps
<1>4. CASE ReadFails
  BY <1>4, ReadFailsKeeps
<1>5. CASE RouterClosed
  BY <1>5, RouterClosedKeeps
<1>6. CASE RouterEvent
  BY <1>6, RouterEventKeeps
<1>7. ASSUME NEW m \in Neighbour, NEW type \in {"HEL", "UPD"},
             handle_mip_route_packet(type, m)
      PROVE  IInv'
  BY <1>7, RoutePacketKeeps
<1>8. ASSUME NEW m \in Neighbour, handle_mip_ping_packet(m)
      PROVE  IInv'
  BY <1>8, PingPacketKeeps
<1>9. ASSUME NEW f \in Fd, ProcessEnds(f) PROVE IInv'
  BY <1>9, ProcessEndsKeeps
<1>10. ASSUME NEW f \in Fd, RouterSends(f) PROVE IInv'
  BY <1>10, RouterSendsKeeps
<1>11. ASSUME NEW f \in Fd, RouterReads(f) PROVE IInv'
  BY <1>11, RouterReadsKeeps
<1>12. ASSUME NEW f \in Fd, ServerReads(f) PROVE IInv'
  BY <1>12, ServerReadsKeeps
<1>13. ASSUME NEW f \in Fd, ClientReads(f) PROVE IInv'
  BY <1>13, ClientReadsKeeps
<1> QED BY <1>1, <1>2, <1>3, <1>4, <1>5, <1>6, <1>7, <1>8, <1>9, <1>10, <1>11, <1>12,
           <1>13 DEF Next, handle_mip_packet

\* The inductive invariant holds in every state.
LEMMA Invariance == Spec => []IInv
<1>1. Init => IInv
  BY InitEstablishes
<1>2. IInv /\ [Next]_vars => IInv'
  BY NextKeeps, StutterKeeps
<1> QED BY <1>1, <1>2, PTL DEF Spec

\* Every state of the MIP daemon is of its type: the descriptors it remembers
\* are of its connections, every address it uses is a host's, and the forward
\* queue is not longer than its array (queue_tail_push).
THEOREM MipTypeSafe == Spec => []TypeOK
BY Invariance, PTL DEF IInv

\* The descriptors that mipd remembers are those of the routing daemon and of an
\* application, for any number of descriptors and in whatever order processes
\* come, go and are replaced.
THEOREM SocketsTheirs == Spec => []SocketsAreTheirs
BY Invariance, PTL DEF IInv

\* mipd adds each adjacent host to the arp table once at most, whatever the
\* uninitialised table holds to begin with and however routing daemons are started
\* again.
THEOREM ArpTableGrowsByNeighbours == Spec => []ArpTableGrows
<1>1. IInv => ArpTableGrows
  <2>1. SUFFICES ASSUME IInv PROVE ArpTableGrows
    OBVIOUS
  <2> DEFINE known == Cardinality(ToSet(arp_t) \cap Neighbour)
             all == Cardinality(Neighbour)
  <2>2. known <= all /\ known \in Nat /\ all \in Nat
    BY NeighbourAssumption, FS_Intersection, FS_CardinalityType
  <2>3. /\ Len(arp_t) <= Len(Stray) + known
        /\ Len(arp_t) \in Nat /\ Len(Stray) \in Nat
    BY <2>1, StrayAssumption DEF IInv, TypeOK, ArpInv
  <2> HIDE DEF known, all
  <2>4. Len(arp_t) <= Len(Stray) + all
    BY <2>2, <2>3
  <2> QED BY <2>4 DEF ArpTableGrows, all
<1> QED BY <1>1, Invariance, PTL

\* No UPDATE is to a host that is not in the arp table, so index -1 is never used
\* in send_mip_route_update.
THEOREM UpdatesHaveEntries == Spec => []UpdateHasArpEntry
<1>1. IInv => UpdateHasArpEntry
  <2>1. SUFFICES ASSUME IInv, NEW f \in Fd, NEW i \in DOMAIN conn[f].in,
                        conn[f].in[i].type = "UPD"
        PROVE  conn[f].in[i].addr \in ToSet(arp_t)
    BY DEF UpdateHasArpEntry, InArpTable
  <2>2. conn[f].in \in Seq(FromProcess(conn[f].kind, ToSet(arp_t)))
    BY <2>1 DEF IInv, ConnInv, ConnectionOf
  <2>3. conn[f].in[i] \in FromProcess(conn[f].kind, ToSet(arp_t))
    BY <2>1, <2>2
  <2> QED BY <2>1, <2>3 DEF FromProcess
<1> QED BY <1>1, Invariance, PTL

\* A packet is in the forward queue for every answer of the routing daemon, unless
\* it owed more answers at once than the queue has entries.
THEOREM ResponsesFindPackets == Spec => []ResponseFindsPacket
BY Invariance, PTL DEF IInv

=============================================================================
