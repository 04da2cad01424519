----------------------------- MODULE Oblig1Proof ----------------------------
(***************************************************************************)
(* Theorems about oblig1: any hosts, links and clients, and any host with   *)
(* the server.                                                              *)
(***************************************************************************)
EXTENDS Oblig1Ping, FiniteSetTheorems, SequenceTheorems, WellFoundedInduction, TLAPS

-----------------------------------------------------------------------------
(* Lists and sequences. *)

\* A set of naturals that is not empty has a least element.
LEMMA LeastMember ==
  ASSUME NEW T, T \subseteq Nat, T # {}
  PROVE  \E m \in T : \A k \in T : m <= k
<1>1. PICK m \in T : \A k \in T : ~ (<<k, m>> \in OpToRel(<, Nat))
  BY NatLessThanWellFounded, WFMin
<1>2. ASSUME NEW k \in T PROVE m <= k
  <2>1. m \in Nat /\ k \in Nat
    OBVIOUS
  <2>2. ~ (k < m)
    BY <1>1, <2>1 DEF OpToRel
  <2> QED BY <2>1, <2>2
<1> QED BY <1>2

\* A set of members of 1 .. n that is not empty has a greatest one.
LEMMA GreatestMember ==
  ASSUME NEW n \in Nat, NEW T, T \subseteq 1 .. n, T # {}
  PROVE  \E m \in T : \A k \in T : k <= m
<1> DEFINE U == {n - k : k \in T}
<1>1. U \subseteq Nat /\ U # {}
  <2>1. \A k \in T : n - k \in Nat
    OBVIOUS
  <2>2. PICK k \in T : TRUE
    OBVIOUS
  <2>3. n - k \in U
    OBVIOUS
  <2> QED BY <2>1, <2>3
<1> HIDE DEF U
<1>2. PICK u \in U : \A k \in U : u <= k
  BY <1>1, LeastMember
<1>3. PICK m \in T : u = n - m
  BY DEF U
<1>4. ASSUME NEW k \in T PROVE k <= m
  <2>1. n - k \in U
    BY DEF U
  <2>2. u <= n - k
    BY <1>2, <2>1
  <2> QED BY <1>3, <2>2
<1> QED BY <1>4

\* Induction on the first i members of a list, with the set P in the place of a
\* predicate.
LEMMA ListInduction ==
  ASSUME NEW n \in Nat, NEW P, 0 \in P, \A i \in 1 .. n : i - 1 \in P => i \in P
  PROVE  \A i \in 0 .. n : i \in P
<1> SUFFICES ASSUME NEW j \in 0 .. n, j \notin P PROVE FALSE
  OBVIOUS
<1> DEFINE T == {i \in 0 .. n : i \notin P}
<1>1. T \subseteq Nat /\ T # {}
  OBVIOUS
<1> HIDE DEF T
<1>2. PICK m \in T : \A k \in T : m <= k
  BY <1>1, LeastMember
<1>3. m \in 1 .. n /\ m \notin P
  BY <1>2 DEF T
<1>4. m - 1 \in P
  <2>1. m - 1 \in 0 .. n
    BY <1>3
  <2>2. m - 1 \notin T
    BY <1>1, <1>2, <1>3, <2>1
  <2> QED BY <2>1, <2>2 DEF T
<1> QED BY <1>3, <1>4

\* What is kept of the first i members.
KeptUpTo(f, s, S, n) ==
  /\ DOMAIN f = 0 .. n
  /\ f[0] = <<>>
  /\ \A i \in 1 .. n : f[i] = IF s[i] \in S THEN Append(f[i - 1], s[i]) ELSE f[i - 1]

LEMMA KeptStepsExist ==
  ASSUME NEW s, NEW S, NEW n \in Nat
  PROVE  \E f : KeptUpTo(f, s, S, n)
<1> DEFINE P == {k \in 0 .. n : \E f : KeptUpTo(f, s, S, k)}
<1>1. 0 \in P
  <2>1. KeptUpTo([i \in 0 .. 0 |-> <<>>], s, S, 0)
    BY DEF KeptUpTo
  <2>2. \E f : KeptUpTo(f, s, S, 0)
    BY <2>1
  <2> QED BY <2>2
<1>2. ASSUME NEW i \in 1 .. n, i - 1 \in P PROVE i \in P
  <2>1. PICK f : KeptUpTo(f, s, S, i - 1)
    BY <1>2
  <2> DEFINE last == IF s[i] \in S THEN Append(f[i - 1], s[i]) ELSE f[i - 1]
             g == [k \in 0 .. i |-> IF k = i THEN last ELSE f[k]]
  <2>2. DOMAIN g = 0 .. i /\ g[0] = <<>>
    BY <2>1 DEF KeptUpTo
  <2>3. ASSUME NEW k \in 1 .. i
        PROVE  g[k] = IF s[k] \in S THEN Append(g[k - 1], s[k]) ELSE g[k - 1]
    <3>1. CASE k = i
      <4>1. i - 1 \in 0 .. i /\ i \in 0 .. i /\ i - 1 # i
        OBVIOUS
      <4>2. g[i] = last /\ g[i - 1] = f[i - 1]
        BY <4>1
      <4> QED BY <3>1, <4>2
    <3>2. CASE k # i
      <4>1. k \in 1 .. i - 1 /\ k \in 0 .. i /\ k - 1 \in 0 .. i /\ k - 1 # i
        BY <3>2
      <4>2. g[k] = f[k] /\ g[k - 1] = f[k - 1]
        BY <3>2, <4>1
      <4> HIDE DEF g
      <4> QED BY <2>1, <4>1, <4>2 DEF KeptUpTo
    <3> QED BY <3>1, <3>2
  <2> HIDE DEF g
  <2>4. KeptUpTo(g, s, S, i)
    BY <2>2, <2>3 DEF KeptUpTo
  <2> QED BY <2>4
<1> HIDE DEF P
<1>3. n \in P
  BY <1>1, <1>2, ListInduction
<1> QED BY <1>3 DEF P

\* The kept lists satisfy the equations that define them.
LEMMA KeptStepsDef ==
  ASSUME NEW W, NEW s \in Seq(W), NEW S
  PROVE  KeptUpTo(KeptSteps(s, S), s, S, Len(s))
<1> DEFINE n == Len(s)
           Steps(f) ==
             f = [i \in 0 .. n |-> IF i = 0 THEN <<>>
                                   ELSE IF s[i] \in S THEN Append(f[i - 1], s[i])
                                   ELSE f[i - 1]]
<1>1. n \in Nat
  OBVIOUS
<1> HIDE DEF n
<1>2. PICK g : KeptUpTo(g, s, S, n)
  BY <1>1, KeptStepsExist
<1> DEFINE h == [i \in 0 .. n |-> g[i]]
<1>3. Steps(h)
  <2>1. \A i \in 0 .. n :
          h[i] = IF i = 0 THEN <<>>
                 ELSE IF s[i] \in S THEN Append(h[i - 1], s[i]) ELSE h[i - 1]
    <3> SUFFICES ASSUME NEW i \in 0 .. n
        PROVE h[i] = IF i = 0 THEN <<>>
                     ELSE IF s[i] \in S THEN Append(h[i - 1], s[i]) ELSE h[i - 1]
      OBVIOUS
    <3>1. CASE i = 0
      BY <1>2, <3>1 DEF KeptUpTo
    <3>2. CASE i # 0
      <4>1. i \in 1 .. n /\ i - 1 \in 0 .. n
        BY <1>1, <3>2
      <4>2. h[i] = g[i] /\ h[i - 1] = g[i - 1]
        BY <4>1
      <4> HIDE DEF h
      <4> QED BY <1>2, <3>2, <4>1, <4>2 DEF KeptUpTo
    <3> QED BY <3>1, <3>2
  <2>2. h = [i \in 0 .. n |-> h[i]]
    OBVIOUS
  <2> HIDE DEF h
  <2> QED BY <2>1, <2>2
<1>4. KeptSteps(s, S) = CHOOSE f : Steps(f)
  BY DEF KeptSteps, n
<1> HIDE DEF Steps, h
<1>5. Steps(KeptSteps(s, S))
  BY <1>3, <1>4
<1> DEFINE f == KeptSteps(s, S)
<1> HIDE DEF f
<1>6. f = [i \in 0 .. n |-> IF i = 0 THEN <<>>
                             ELSE IF s[i] \in S THEN Append(f[i - 1], s[i])
                             ELSE f[i - 1]]
  BY <1>5 DEF Steps, f
<1>7. KeptUpTo(f, s, S, n)
  <2>1. DOMAIN f = 0 .. n
    BY <1>6
  <2>2. \A i \in 0 .. n : f[i] = IF i = 0 THEN <<>>
                                 ELSE IF s[i] \in S THEN Append(f[i - 1], s[i])
                                 ELSE f[i - 1]
    BY <1>6
  <2>3. 0 \in 0 .. n /\ \A i \in 1 .. n : i \in 0 .. n /\ i # 0
    BY <1>1
  <2> QED BY <2>1, <2>2, <2>3 DEF KeptUpTo
<1> QED BY <1>7 DEF f, n

\* What is kept are the members of S, the first of them first.
LEMMA KeptEffect ==
  ASSUME NEW W, NEW s \in Seq(W), NEW S
  PROVE  /\ Kept(s, S) \in Seq(W \cap S)
         /\ \A x \in S : (\E i \in 1 .. Len(s) : s[i] = x)
                           => \E j \in 1 .. Len(Kept(s, S)) : Kept(s, S)[j] = x
         /\ \A j \in 1 .. Len(Kept(s, S)) : \E i \in 1 .. Len(s) : s[i] = Kept(s, S)[j]
         /\ Kept(s, S) # <<>> =>
              \E i \in 1 .. Len(s) : /\ s[i] = Head(Kept(s, S))
                                     /\ \A j \in 1 .. i - 1 : s[j] \notin S
<1> DEFINE f == KeptSteps(s, S)
           n == Len(s)
           Good(k) ==
             /\ f[k] \in Seq(W \cap S)
             /\ \A x \in S : (\E i \in 1 .. k : s[i] = x)
                               => \E j \in 1 .. Len(f[k]) : f[k][j] = x
             /\ \A j \in 1 .. Len(f[k]) : \E i \in 1 .. k : s[i] = f[k][j]
             /\ f[k] = <<>> => \A i \in 1 .. k : s[i] \notin S
             /\ f[k] # <<>> =>
                  \E i \in 1 .. k : /\ s[i] = Head(f[k])
                                    /\ \A j \in 1 .. i - 1 : s[j] \notin S
           P == {k \in 0 .. n : Good(k)}
<1>1. n \in Nat /\ \A i \in 1 .. n : s[i] \in W
  OBVIOUS
<1>2. KeptUpTo(f, s, S, n)
  BY KeptStepsDef
<1> HIDE DEF f, n
<1>3. 0 \in P
  BY <1>1, <1>2 DEF KeptUpTo
<1>4. ASSUME NEW k \in 1 .. n, k - 1 \in P PROVE k \in P
  <2>1. Good(k - 1) /\ k - 1 \in Nat /\ k \in 0 .. n
    BY <1>1, <1>4
  <2>2. CASE s[k] \notin S
    <3>1. f[k] = f[k - 1]
      BY <1>2, <2>2 DEF KeptUpTo
    <3>2. \A i \in 1 .. k : i # k => i \in 1 .. k - 1
      BY <2>1
    <3>3. \A i \in 1 .. k - 1 : i \in 1 .. k
      BY <2>1
    <3>4. \A x \in S : (\E i \in 1 .. k : s[i] = x)
                               => \E j \in 1 .. Len(f[k]) : f[k][j] = x
      BY <2>1, <2>2, <3>1, <3>2
    <3> QED BY <2>1, <2>2, <3>1, <3>2, <3>3, <3>4
  <2>3. CASE s[k] \in S
    <3> DEFINE g == f[k - 1]
    <3>1. f[k] = Append(g, s[k]) /\ s[k] \in W \cap S
      BY <1>1, <1>2, <2>3 DEF KeptUpTo
    <3>2. g \in Seq(W \cap S)
      BY <2>1
    <3>3. /\ f[k] \in Seq(W \cap S) /\ Len(f[k]) = Len(g) + 1 /\ Len(g) \in Nat
          /\ f[k][Len(g) + 1] = s[k]
          /\ \A j \in 1 .. Len(g) : f[k][j] = g[j] /\ j \in 1 .. Len(f[k])
      BY <3>1, <3>2, AppendProperties
    <3>4. Len(g) + 1 \in 1 .. Len(f[k]) /\ k \in 1 .. k
      BY <3>3, <2>1
    <3>5. \A i \in 1 .. k : i # k => i \in 1 .. k - 1
      BY <2>1
    <3>6. \A i \in 1 .. k - 1 : i \in 1 .. k
      BY <2>1
    <3>7. \A x \in S : (\E i \in 1 .. k : s[i] = x)
                               => \E j \in 1 .. Len(f[k]) : f[k][j] = x
      BY <2>1, <3>3, <3>4, <3>5
    <3>8. \A j \in 1 .. Len(f[k]) : \E i \in 1 .. k : s[i] = f[k][j]
      <4> SUFFICES ASSUME NEW j \in 1 .. Len(f[k]) PROVE \E i \in 1 .. k : s[i] = f[k][j]
        OBVIOUS
      <4>1. CASE j = Len(g) + 1
        BY <3>3, <3>4, <4>1
      <4>2. CASE j # Len(g) + 1
        <5>1. j \in 1 .. Len(g)
          BY <3>3, <4>2
        <5> QED BY <2>1, <3>3, <3>6, <5>1
      <4> QED BY <4>1, <4>2
    <3>9. f[k] # <<>>
      BY <3>3
    <3>10. \E i \in 1 .. k : /\ s[i] = Head(f[k])
                             /\ \A j \in 1 .. i - 1 : s[j] \notin S
      <4>1. CASE g = <<>>
        <5>1. Head(f[k]) = s[k]
          BY <3>1, <4>1
        <5> QED BY <2>1, <3>4, <4>1, <5>1
      <4>2. CASE g # <<>>
        <5>1. Head(f[k]) = Head(g)
          BY <3>1, <3>2, <3>3, <4>2, HeadTailAppend
        <5> QED BY <2>1, <3>6, <4>2, <5>1
      <4> QED BY <4>1, <4>2
    <3> QED BY <2>1, <3>3, <3>7, <3>8, <3>9, <3>10
  <2> QED BY <2>2, <2>3
<1> HIDE DEF P
<1>5. \A i \in 0 .. n : i \in P
  BY <1>1, <1>3, <1>4, ListInduction
<1>6. Good(n)
  <2>1. n \in P
    BY <1>1, <1>5
  <2> QED BY <2>1 DEF P
<1>7. Kept(s, S) = f[n]
  BY DEF Kept, f, n
<1> QED BY <1>6, <1>7 DEF n

\* What fd does to the list when it becomes readable.
LEMMA WakeEffect ==
  ASSUME NEW W, NEW s \in Seq(W), NEW fd
  PROVE  /\ Wake(s, W, fd) \in Seq(W)
         /\ \A i \in 1 .. Len(s) : /\ i \in 1 .. Len(Wake(s, W, fd))
                                   /\ Wake(s, W, fd)[i] = s[i]
         /\ \A x : x \in ToSet(Wake(s, W, fd)) =>
                     \/ x \in ToSet(s)
                     \/ x = fd /\ fd \in W
         /\ \A x \in ToSet(s) : x \in ToSet(Wake(s, W, fd))
         /\ fd \in W => fd \in ToSet(Wake(s, W, fd))
<1>1. CASE fd \in W /\ fd \notin ToSet(s)
  <2> DEFINE r == Append(s, fd)
  <2>1. Wake(s, W, fd) = r
    BY <1>1 DEF Wake
  <2>2. /\ r \in Seq(W) /\ Len(r) = Len(s) + 1 /\ Len(s) \in Nat
        /\ r[Len(s) + 1] = fd
        /\ \A i \in 1 .. Len(s) : r[i] = s[i] /\ i \in 1 .. Len(r)
        /\ DOMAIN r = 1 .. Len(r) /\ DOMAIN s = 1 .. Len(s)
    BY <1>1, AppendProperties
  <2> HIDE DEF r
  <2>3. Len(s) + 1 \in DOMAIN r
    BY <2>2
  <2>4. \A i \in DOMAIN r : i \in DOMAIN s \/ i = Len(s) + 1
    BY <2>2
  <2> QED BY <1>1, <2>1, <2>2, <2>3, <2>4 DEF ToSet
<1>2. CASE ~ (fd \in W /\ fd \notin ToSet(s))
  BY <1>2 DEF Wake
<1> QED BY <1>1, <1>2

\* What fd does to the list when it is added.
LEMMA AddedEffect ==
  ASSUME NEW W, NEW s \in Seq(W), NEW fd, NEW readable
  PROVE  /\ \A x \in ToSet(s) : x \in ToSet(Added(s, fd, readable))
         /\ readable => fd \in ToSet(Added(s, fd, readable))
<1>1. CASE readable
  <2> DEFINE r == Append(s, fd)
  <2>1. Added(s, fd, readable) = r
    BY <1>1 DEF Added
  <2>2. s \in Seq(W \cup {fd}) /\ fd \in W \cup {fd}
    BY SeqMonotonic
  <2>3. /\ Len(s) \in Nat /\ r[Len(s) + 1] = fd
        /\ \A i \in 1 .. Len(s) : r[i] = s[i]
        /\ DOMAIN r = 1 .. Len(s) + 1 /\ DOMAIN s = 1 .. Len(s)
    BY <2>2, AppendProperties
  <2> HIDE DEF r
  <2>4. Len(s) + 1 \in DOMAIN r /\ \A i \in DOMAIN s : i \in DOMAIN r
    BY <2>3
  <2> QED BY <2>1, <2>3, <2>4 DEF ToSet
<1>2. CASE ~ readable
  BY <1>2 DEF Added
<1> QED BY <1>1, <1>2

\* Of a sequence that has a head.
LEMMA TailEffect ==
  ASSUME NEW S, NEW s \in Seq(S), s # <<>>
  PROVE  /\ Head(s) \in S /\ Head(s) = s[1] /\ 1 \in DOMAIN s
         /\ Tail(s) \in Seq(S)
         /\ DOMAIN Tail(s) = 1 .. Len(s) - 1
         /\ \A i \in 1 .. Len(s) - 1 : Tail(s)[i] = s[i + 1] /\ i + 1 \in DOMAIN s
OBVIOUS

-----------------------------------------------------------------------------
(* Types. *)

LEMMA HostType ==
  ASSUME TypeOK, NEW n \in Node
  PROVE  /\ conn[n] \in Seq(Connection) /\ Len(conn[n]) \in Nat
         /\ DOMAIN conn[n] = 1 .. Len(conn[n])
         /\ accepted[n] \in Nat /\ accepted[n] <= Len(conn[n])
         /\ raw[n] \in Seq(Frame) /\ sdu[n] \in Sdu /\ arp_t[n] \subseteq Node
         /\ ready[n] \in Seq(armed[n])
         /\ \A f \in Connections(n) : f \in DOMAIN conn[n] /\ f # -1 /\ f > 0
<1>1. /\ conn[n] \in Seq(Connection) /\ raw[n] \in Seq(Frame) /\ sdu[n] \in Sdu
      /\ arp_t[n] \subseteq Node /\ ready[n] \in Seq(armed[n])
      /\ accepted[n] \in 0 .. Len(conn[n])
  BY DEF TypeOK
<1>2. Len(conn[n]) \in Nat /\ DOMAIN conn[n] = 1 .. Len(conn[n])
  BY <1>1
<1>3. accepted[n] \in Nat /\ accepted[n] <= Len(conn[n])
  BY <1>1, <1>2
<1> QED BY <1>1, <1>2, <1>3 DEF Connections

\* One connection is changed.
LEMMA ConnSet ==
  ASSUME TypeOK, NEW n \in Node, NEW f \in DOMAIN conn[n], NEW c \in Connection,
         conn' = [conn EXCEPT ![n][f] = c]
  PROVE  /\ conn' \in [Node -> Seq(Connection)]
         /\ \A m \in Node : DOMAIN conn'[m] = DOMAIN conn[m] /\ Len(conn'[m]) = Len(conn[m])
         /\ conn'[n][f] = c
         /\ \A m \in Node : m # n => conn'[m] = conn[m]
         /\ \A m \in Node : \A g \in DOMAIN conn[m] :
              m # n \/ g # f => conn'[m][g] = conn[m][g]
<1>1. conn \in [Node -> Seq(Connection)]
  BY DEF TypeOK
<1>2. conn' = [conn EXCEPT ![n] = [conn[n] EXCEPT ![f] = c]]
  BY <1>1
<1>3. [conn[n] EXCEPT ![f] = c] \in Seq(Connection)
      /\ Len([conn[n] EXCEPT ![f] = c]) = Len(conn[n])
  BY <1>1, HostType, ExceptSeq
<1> QED BY <1>1, <1>2, <1>3

\* One connection is new.
LEMMA ConnNew ==
  ASSUME TypeOK, NEW n \in Node, NEW app \in Ping \cup {"server"},
         conn' = [conn EXCEPT ![n] = Append(@, Opened(app))]
  PROVE  /\ conn' \in [Node -> Seq(Connection)]
         /\ Len(conn'[n]) = Len(conn[n]) + 1
         /\ conn'[n][Len(conn[n]) + 1] = Opened(app)
         /\ \A m \in Node : m # n => conn'[m] = conn[m]
         /\ \A m \in Node : Len(conn[m]) <= Len(conn'[m])
         /\ \A m \in Node : \A g \in DOMAIN conn[m] :
              conn'[m][g] = conn[m][g] /\ g \in DOMAIN conn'[m]
<1>1. conn \in [Node -> Seq(Connection)]
  BY DEF TypeOK
<1>2. Opened(app) \in Connection
  BY DEF Opened, Connection
<1>3. /\ Append(conn[n], Opened(app)) \in Seq(Connection)
      /\ Len(Append(conn[n], Opened(app))) = Len(conn[n]) + 1
      /\ Append(conn[n], Opened(app))[Len(conn[n]) + 1] = Opened(app)
      /\ \A g \in 1 .. Len(conn[n]) : Append(conn[n], Opened(app))[g] = conn[n][g]
  BY <1>1, <1>2, AppendProperties
<1>4. conn'[n] = Append(conn[n], Opened(app)) /\ \A m \in Node : m # n => conn'[m] = conn[m]
  BY <1>1
<1>5. conn' \in [Node -> Seq(Connection)]
  BY <1>1, <1>3
<1> QED BY <1>1, <1>3, <1>4, <1>5, HostType

\* Host n has taken all but `rest` from its raw socket, and the hosts in B, and no
\* others, have heard the frame.
Heard(n, rest, B, frame) ==
  \A m \in Node :
    /\ raw'[m] = IF m \in B THEN Append(IF m = n THEN rest ELSE raw[m], frame)
                 ELSE IF m = n THEN rest ELSE raw[m]
    /\ ready'[m] = IF m \in B THEN Wake(ready[m], armed[m], socket_raw) ELSE ready[m]

\* Who hears a frame, and what that does to his descriptors.
LEMMA TransmitEffect ==
  ASSUME TypeOK, NEW n \in Node, NEW rest \in Seq(Frame), NEW to, to \subseteq Node,
         NEW frame \in Frame, Transmit(n, rest, to, frame)
  PROVE  /\ raw' \in [Node -> Seq(Frame)]
         /\ ready' \in [Node -> Seq(Int)]
         /\ \A m \in Node : ready'[m] \in Seq(armed[m])
         /\ seen \subseteq seen' /\ seen' \subseteq Use
         /\ \E B \in SUBSET to : Heard(n, rest, B, frame)
<1> DEFINE left(m) == IF m = n THEN rest ELSE raw[m]
<1>1. PICK got \in SUBSET to :
        /\ raw' = [m \in Node |-> IF m \in got /\ status[m] = "running"
                                  THEN Append(left(m), frame) ELSE left(m)]
        /\ ready' = [m \in Node |-> IF m \in got /\ status[m] = "running"
                                    THEN Wake(ready[m], armed[m], socket_raw) ELSE ready[m]]
        /\ seen' = IF got = to THEN seen ELSE seen \cup {"lost frame"}
  BY DEF Transmit
<1> DEFINE B == {m \in got : status[m] = "running"}
<1>2. \A m \in Node : left(m) \in Seq(Frame) /\ ready[m] \in Seq(armed[m])
                      /\ armed[m] \subseteq Int
  BY DEF TypeOK
<1>3. \A m \in Node : Append(left(m), frame) \in Seq(Frame)
  BY <1>2
<1> HIDE DEF left
<1>4. raw' \in [Node -> Seq(Frame)]
  BY <1>1, <1>2, <1>3
<1>5. \A m \in Node : Wake(ready[m], armed[m], socket_raw) \in Seq(armed[m])
  BY <1>2, WakeEffect
<1>6. \A m \in Node : ready'[m] \in Seq(armed[m]) /\ ready'[m] \in Seq(Int)
  BY <1>1, <1>2, <1>5, SeqMonotonic
<1>7. ready' \in [Node -> Seq(Int)]
  BY <1>1, <1>6
<1>8. seen \subseteq seen' /\ seen' \subseteq Use
  BY <1>1 DEF TypeOK, Use
<1>9. B \in SUBSET to /\ \A m \in Node :
        /\ raw'[m] = IF m \in B THEN Append(left(m), frame) ELSE left(m)
        /\ ready'[m] = IF m \in B THEN Wake(ready[m], armed[m], socket_raw) ELSE ready[m]
  BY <1>1
<1>10. Heard(n, rest, B, frame)
  BY <1>9 DEF Heard, left
<1> QED BY <1>4, <1>6, <1>7, <1>8, <1>9, <1>10

\* What a descriptor that mipd handles promises, and that every process that is
\* connected has its connection.
Promises ==
  /\ \A n \in Node : /\ event[n] = socket_unix => accepted[n] < Len(conn[n])
                     /\ event[n] = socket_raw => raw[n] # <<>>
  /\ \A k \in Ping : client[k] # "idle" =>
       \E f \in DOMAIN conn[host[k]] : conn[host[k]][f].app = k
  /\ \A s \in ServerHosts : server[s] # "off" =>
       \E f \in DOMAIN conn[s] : conn[s][f].app = "server"

\* The connection a process has made last is one of its own.
LEMMA LastOfEffect ==
  ASSUME TypeOK, NEW n \in Node, NEW app,
         \E f \in DOMAIN conn[n] : conn[n][f].app = app
  PROVE  /\ LastOf(n, app) \in DOMAIN conn[n]
         /\ conn[n][LastOf(n, app)].app = app
         /\ \A g \in DOMAIN conn[n] : conn[n][g].app = app => g <= LastOf(n, app)
<1> DEFINE T == {f \in DOMAIN conn[n] : conn[n][f].app = app}
<1>1. T \subseteq 1 .. Len(conn[n]) /\ T # {} /\ Len(conn[n]) \in Nat
  BY HostType
<1> HIDE DEF T
<1>2. \E m \in T : \A k \in T : k <= m
  BY <1>1, GreatestMember
<1> QED BY <1>2 DEF T, LastOf

\* The connection of a client and of a server.
LEMMA MineEffect ==
  ASSUME TypeOK, Promises, NEW k \in Ping, client[k] # "idle"
  PROVE  /\ host[k] \in Node /\ Mine(k) \in DOMAIN conn[host[k]]
         /\ conn[host[k]][Mine(k)] \in Connection
         /\ conn[host[k]][Mine(k)].app = k
<1>1. host[k] \in Node
  BY DEF TypeOK
<1> QED BY <1>1, LastOfEffect, HostType DEF Promises, Mine

\* epoll_wait reports what is watched, in the list and readable, in this order.
LEMMA ReportedEffect ==
  ASSUME TypeOK, NEW n \in Node, NEW r, r = Reported(ready[n], Readable(n))
  PROVE  /\ r \in Seq(armed[n]) /\ r \in Seq(armed[n] \cap Readable(n))
         /\ \A x \in Readable(n) : x \in ToSet(ready[n]) => x \in ToSet(r)
         /\ ToSet(r) \subseteq ToSet(ready[n])
         /\ r # <<>> =>
              /\ Head(r) \in armed[n] \cap Readable(n) /\ Head(r) \in ToSet(r)
              /\ \E i \in DOMAIN ready[n] :
                   /\ ready[n][i] = Head(r)
                   /\ \A j \in 1 .. i - 1 : ready[n][j] \notin Readable(n)
<1>1. ready[n] \in Seq(armed[n]) /\ DOMAIN ready[n] = 1 .. Len(ready[n])
  BY HostType
<1>2. r = Kept(ready[n], Readable(n))
  BY DEF Reported
<1>3. /\ r \in Seq(armed[n] \cap Readable(n))
      /\ \A x \in Readable(n) : (\E i \in 1 .. Len(ready[n]) : ready[n][i] = x)
                                  => \E j \in 1 .. Len(r) : r[j] = x
      /\ \A j \in 1 .. Len(r) : \E i \in 1 .. Len(ready[n]) : ready[n][i] = r[j]
      /\ r # <<>> =>
           \E i \in 1 .. Len(ready[n]) : /\ ready[n][i] = Head(r)
                                         /\ \A j \in 1 .. i - 1 : ready[n][j] \notin Readable(n)
  <2> DEFINE W == armed[n]
             l == ready[n]
             S == Readable(n)
  <2>1. l \in Seq(W) /\ r = Kept(l, S)
    BY <1>1, <1>2
  <2> HIDE DEF W, l, S
  <2> DEFINE q == Kept(l, S)
  <2>2. /\ q \in Seq(W \cap S)
        /\ \A x \in S : (\E i \in 1 .. Len(l) : l[i] = x) => \E j \in 1 .. Len(q) : q[j] = x
        /\ \A j \in 1 .. Len(q) : \E i \in 1 .. Len(l) : l[i] = q[j]
        /\ q # <<>> => \E i \in 1 .. Len(l) : /\ l[i] = Head(q)
                                             /\ \A j \in 1 .. i - 1 : l[j] \notin S
    BY <2>1, KeptEffect
  <2>3. r = q
    BY <2>1
  <2> HIDE DEF q
  <2> QED BY <2>2, <2>3 DEF W, l, S
<1>4. r \in Seq(armed[n])
  BY <1>3, SeqMonotonic
<1>5. DOMAIN r = 1 .. Len(r)
  BY <1>3
<1>6. r # <<>> => Head(r) \in armed[n] \cap Readable(n) /\ Head(r) \in ToSet(r)
  BY <1>3, <1>5, TailEffect DEF ToSet
<1>7. \A x \in Readable(n) : x \in ToSet(ready[n]) => x \in ToSet(r)
  BY <1>1, <1>3, <1>5 DEF ToSet
<1>8. ToSet(r) \subseteq ToSet(ready[n])
  <2> SUFFICES ASSUME NEW j \in 1 .. Len(r) PROVE r[j] \in ToSet(ready[n])
    BY <1>5 DEF ToSet
  <2>1. PICK i \in 1 .. Len(ready[n]) : ready[n][i] = r[j]
    BY <1>3
  <2> QED BY <1>1, <2>1 DEF ToSet
<1>9. r # <<>> => \E i \in DOMAIN ready[n] :
                   /\ ready[n][i] = Head(r)
                   /\ \A j \in 1 .. i - 1 : ready[n][j] \notin Readable(n)
  BY <1>1, <1>3
<1> QED BY <1>3, <1>4, <1>6, <1>7, <1>8, <1>9

\* What remains in the list is what was reported and stays watched.
LEMMA ReadyAfterEffect ==
  ASSUME NEW W, NEW r \in Seq(W), NEW oneshot
  PROVE  /\ ReadyAfter(r, oneshot) \in Seq(WatchedAfter(W, r, oneshot))
         /\ \A x \in ToSet(r) : x \notin oneshot => x \in ToSet(ReadyAfter(r, oneshot))
         /\ \A x \in ToSet(ReadyAfter(r, oneshot)) : x \in ToSet(r) /\ x \notin oneshot
<1> DEFINE S == ToSet(r) \ oneshot
           q == ReadyAfter(r, oneshot)
<1>1. q = Kept(r, S)
  BY DEF ReadyAfter
<1>2. /\ q \in Seq(W \cap S)
      /\ \A x \in S : (\E i \in 1 .. Len(r) : r[i] = x)
                        => \E j \in 1 .. Len(q) : q[j] = x
  BY <1>1, KeptEffect
<1> HIDE DEF q
<1>3. W \cap S \subseteq WatchedAfter(W, r, oneshot)
  BY DEF WatchedAfter
<1>4. q \in Seq(WatchedAfter(W, r, oneshot))
  BY <1>2, <1>3, SeqMonotonic
<1>5. DOMAIN r = 1 .. Len(r) /\ DOMAIN q = 1 .. Len(q) /\ \A j \in 1 .. Len(q) : q[j] \in S
  BY <1>2
<1> QED BY <1>2, <1>4, <1>5 DEF ToSet, q

\* The variables of the applications, which a daemon's turn leaves alone.
appVars == <<host, dst, server, client, answer>>

\* A descriptor belongs to a connection, or is one of the two that are not.
HostOK(n) ==
  /\ accepted[n] \in 0 .. Len(conn[n])
  /\ socket_data[n] = IF accepted[n] = 0 THEN -1 ELSE accepted[n]
  /\ event[n] \in Connections(n) \cup {NoEvent, socket_raw, socket_unix}
  /\ armed[n] \subseteq Connections(n) \cup {socket_raw, socket_unix}
  /\ ready[n] \in Seq(armed[n])

LEMMA EpollType ==
  ASSUME TypeOK, Promises, NEW n \in Node, epoll_wait(n), UNCHANGED appVars
  PROVE  TypeOK' /\ Promises'
<1> DEFINE r == Reported(ready[n], Readable(n))
           e == IF r = <<>> THEN NoEvent ELSE Head(r)
           W == WatchedAfter(armed[n], r, Connections(n))
           q == ReadyAfter(r, Connections(n))
<1>1. /\ event' = [event EXCEPT ![n] = e]
      /\ ready' = [ready EXCEPT ![n] = q]
      /\ armed' = [armed EXCEPT ![n] = W]
      /\ seen' = seen \/ seen' = seen \cup {"lost event"}
      /\ UNCHANGED <<status, sdu, socket_data, arp_t, conn, accepted, raw>>
      /\ UNCHANGED <<host, dst, server, client, answer>>
  BY DEF epoll_wait, appVars
<1>2. /\ r \in Seq(armed[n])
      /\ r # <<>> => Head(r) \in armed[n] \cap Readable(n)
  BY ReportedEffect
<1> HIDE DEF r
<1>3. q \in Seq(W) /\ W \subseteq armed[n]
  BY <1>2, ReadyAfterEffect DEF WatchedAfter
<1> HIDE DEF q, W
<1>4. armed[n] \subseteq Connections(n) \cup {socket_raw, socket_unix} /\ armed[n] \subseteq Int
  BY DEF TypeOK
<1>5. e \in Connections(n) \cup {NoEvent, socket_raw, socket_unix} /\ e \in Int
  BY <1>2, <1>4 DEF NoEvent
<1>6. /\ e = socket_unix => accepted[n] < Len(conn[n])
      /\ e = socket_raw => raw[n] # <<>>
  BY <1>2, HostType DEF Readable, NoEvent, socket_raw, socket_unix
<1> HIDE DEF e
<1>7. q \in Seq(Int)
  BY <1>3, <1>4, SeqMonotonic
<1>8. /\ event' \in [Node -> Int] /\ armed' \in [Node -> SUBSET Int]
      /\ ready' \in [Node -> Seq(Int)] /\ seen' \subseteq Use
  BY <1>1, <1>3, <1>4, <1>5, <1>7 DEF TypeOK, Use
<1>9. ASSUME NEW m \in Node PROVE HostOK(m)'
  <2>1. HostOK(m)
    BY DEF TypeOK, HostOK
  <2>2. CASE m = n
    <3>1. event'[n] = e /\ armed'[n] = W /\ ready'[n] = q
      BY <1>1 DEF TypeOK
    <3> QED BY <1>1, <1>3, <1>4, <1>5, <2>1, <2>2, <3>1 DEF HostOK, Connections
  <2>3. CASE m # n
    <3>1. event'[m] = event[m] /\ armed'[m] = armed[m] /\ ready'[m] = ready[m]
      BY <1>1, <2>3 DEF TypeOK
    <3> QED BY <1>1, <2>1, <3>1 DEF HostOK, Connections
  <2> QED BY <2>2, <2>3
<1>10. TypeOK'
  BY <1>1, <1>8, <1>9 DEF TypeOK, HostOK
<1>11. Promises'
  BY <1>1, <1>6 DEF Promises, TypeOK
<1> QED BY <1>10, <1>11

\* A turn that changes what is on the wire, one message buffer, one connection
\* and the end of the event, and nothing else of the descriptors.
LEMMA TurnType ==
  ASSUME TypeOK, Promises, NEW n \in Node, UNCHANGED appVars,
         UNCHANGED <<socket_data, accepted, armed>>,
         event' = [event EXCEPT ![n] = NoEvent],
         status' \in [Node -> {"running", "ended"}],
         sdu' \in [Node -> Sdu], arp_t' \in [Node -> SUBSET Node],
         conn' \in [Node -> Seq(Connection)],
         \A m \in Node : Len(conn'[m]) = Len(conn[m]),
         \A m \in Node : \A f \in DOMAIN conn[m] : conn'[m][f].app = conn[m][f].app,
         raw' \in [Node -> Seq(Frame)], \A m \in Node : m # n /\ raw'[m] = <<>> => raw[m] = <<>>,
         ready' \in [Node -> Seq(Int)], \A m \in Node : ready'[m] \in Seq(armed[m]),
         seen' \subseteq Use
  PROVE  TypeOK' /\ Promises'
<1>1. UNCHANGED <<host, dst, server, client, answer>>
  BY DEF appVars
<1>2. \A m \in Node : event'[m] = IF m = n THEN NoEvent ELSE event[m]
  BY DEF TypeOK
<1>3. event' \in [Node -> Int]
  <2>1. event \in [Node -> Int]
    BY DEF TypeOK
  <2>2. NoEvent \in Int
    BY DEF NoEvent
  <2> QED BY <2>1, <2>2
<1>4. ASSUME NEW m \in Node PROVE HostOK(m)'
  BY <1>2 DEF TypeOK, HostOK, Connections
<1>5. TypeOK'
  <2>1. conn' \in [Node -> Seq(Connection)] /\ raw' \in [Node -> Seq(Frame)]
    OBVIOUS
  <2> QED BY <1>1, <1>3, <1>4, <2>1 DEF TypeOK, HostOK
<1>6. \A m \in Node : DOMAIN conn'[m] = DOMAIN conn[m]
  <2> TAKE m \in Node
  <2>1. conn[m] \in Seq(Connection) /\ conn'[m] \in Seq(Connection)
        /\ Len(conn'[m]) = Len(conn[m])
    BY DEF TypeOK
  <2> QED BY <2>1
<1>7. Promises'
  <2>1. \A m \in Node : /\ event'[m] = socket_unix => accepted'[m] < Len(conn'[m])
                        /\ event'[m] = socket_raw => raw'[m] # <<>>
    <3> TAKE m \in Node
    <3>1. CASE m = n
      BY <1>2, <3>1 DEF NoEvent, socket_unix, socket_raw
    <3>2. CASE m # n
      BY <1>2, <3>2 DEF Promises
    <3> QED BY <3>1, <3>2
  <2>2. \A k \in Ping : host[k] \in Node
    BY DEF TypeOK
  <2>3. \A k \in Ping : client'[k] # "idle" =>
          \E f \in DOMAIN conn'[host'[k]] : conn'[host'[k]][f].app = k
    BY <1>1, <1>6, <2>2 DEF Promises
  <2>4. \A s \in ServerHosts : server'[s] # "off" =>
          \E f \in DOMAIN conn'[s] : conn'[s][f].app = "server"
    <3> SUFFICES ASSUME NEW s \in ServerHosts, server[s] # "off"
        PROVE \E f \in DOMAIN conn'[s] : conn'[s][f].app = "server"
      BY <1>1
    <3>1. s \in Node
      BY PingAssumption
    <3>2. PICK f \in DOMAIN conn[s] : conn[s][f].app = "server"
      BY DEF Promises
    <3> QED BY <1>6, <3>1, <3>2
  <2> QED BY <2>1, <2>3, <2>4 DEF Promises
<1> QED BY <1>5, <1>7

\* Nothing is written to the connections.
LEMMA SameConn ==
  ASSUME TypeOK, conn' = conn
  PROVE  /\ conn' \in [Node -> Seq(Connection)]
         /\ \A m \in Node : Len(conn'[m]) = Len(conn[m])
         /\ \A m \in Node : \A f \in DOMAIN conn[m] : conn'[m][f].app = conn[m][f].app
BY DEF TypeOK

\* The frame that is read.
LEMMA ReadFrame ==
  ASSUME TypeOK, Promises, NEW n \in Node, event[n] = socket_raw
  PROVE  /\ raw[n] # <<>> /\ Head(raw[n]) \in Frame /\ Tail(raw[n]) \in Seq(Frame)
         /\ Head(raw[n]).src \in Node /\ Head(raw[n]).sdu \in Sdu
<1>1. raw[n] # <<>> /\ raw[n] \in Seq(Frame)
  BY DEF Promises, TypeOK
<1>2. Head(raw[n]) \in Frame /\ Tail(raw[n]) \in Seq(Frame)
  BY <1>1
<1> QED BY <1>1, <1>2 DEF Frame

LEMMA FrameTypes ==
  ASSUME NEW m \in Node, NEW s \in Sdu
  PROVE  /\ ZeroSdu \in Sdu
         /\ Arp("REQUEST", m) \in Frame /\ Arp("RESPONSE", m) \in Frame
         /\ PingFrame(m, s) \in Frame
<1>1. ZeroSdu \in Sdu
  BY DEF ZeroSdu, Message, Sdu
<1> QED BY <1>1 DEF Arp, PingFrame, Frame

\* Nothing that has come to another host is lost.
LEMMA HeardMore ==
  ASSUME TypeOK, NEW n \in Node, NEW frame \in Frame, NEW rest, NEW B,
         Heard(n, rest, B, frame)
  PROVE  \A m \in Node : m # n /\ raw'[m] = <<>> => raw[m] = <<>>
<1> SUFFICES ASSUME NEW m \in Node, m # n, raw[m] # <<>> PROVE raw'[m] # <<>>
  OBVIOUS
<1>1. raw[m] \in Seq(Frame)
  BY DEF TypeOK
<1>2. Append(raw[m], frame) # <<>>
  BY <1>1
<1>3. raw'[m] = raw[m] \/ raw'[m] = Append(raw[m], frame)
  BY DEF Heard
<1> QED BY <1>2, <1>3

LEMMA ArpType ==
  ASSUME TypeOK, Promises, NEW n \in Node, handle_mip_arp(n), UNCHANGED appVars
  PROVE  TypeOK' /\ Promises'
<1> DEFINE frame == Head(raw[n])
           wanted == frame.type = "RESPONSE" /\ frame.src = sdu[n].mip_addr
           answer1 == IF frame.type = "REQUEST" THEN Arp("RESPONSE", n) ELSE PingFrame(n, sdu[n])
           to == IF frame.type = "REQUEST" \/ wanted THEN {frame.src} ELSE {}
<1>1. /\ event[n] = socket_raw /\ event' = [event EXCEPT ![n] = NoEvent]
      /\ arp_t' = [arp_t EXCEPT ![n] = @ \cup {frame.src}]
      /\ Transmit(n, Tail(raw[n]), to, answer1)
      /\ UNCHANGED <<status, sdu, socket_data, conn, accepted, armed>>
  BY DEF handle_mip_arp, Handling, Learned
<1>2. frame.src \in Node /\ Tail(raw[n]) \in Seq(Frame)
  BY <1>1, ReadFrame
<1>3. sdu[n] \in Sdu
  BY DEF TypeOK
<1>4. answer1 \in Frame /\ to \subseteq Node
  BY <1>2, <1>3, FrameTypes
<1>5. arp_t' \in [Node -> SUBSET Node]
  BY <1>1, <1>2 DEF TypeOK
<1> HIDE DEF answer1, to
<1> DEFINE rest == Tail(raw[n])
<1>6. /\ raw' \in [Node -> Seq(Frame)] /\ ready' \in [Node -> Seq(Int)]
      /\ \A m \in Node : ready'[m] \in Seq(armed[m])
      /\ seen' \subseteq Use
      /\ \E B \in SUBSET to : Heard(n, rest, B, answer1)
  <2>1. rest \in Seq(Frame) /\ Transmit(n, rest, to, answer1)
    BY <1>1, <1>2
  <2> HIDE DEF rest
  <2> QED BY <1>4, <2>1, TransmitEffect
<1>7. \A m \in Node : m # n /\ raw'[m] = <<>> => raw[m] = <<>>
  BY <1>4, <1>6, HeardMore
<1>8. status' \in [Node -> {"running", "ended"}] /\ sdu' \in [Node -> Sdu]
  BY <1>1 DEF TypeOK
<1>9. UNCHANGED <<socket_data, accepted, armed>> /\ conn' = conn
  BY <1>1
<1> QED BY <1>1, <1>5, <1>6, <1>7, <1>8, <1>9, SameConn, TurnType

LEMMA PingType ==
  ASSUME TypeOK, Promises, NEW n \in Node, handle_mip_ping(n), UNCHANGED appVars
  PROVE  TypeOK' /\ Promises'
<1> DEFINE frame == Head(raw[n])
           f == socket_data[n]
           message == [frame.sdu EXCEPT !.mip_addr = frame.src]
           c == [conn[n][f] EXCEPT !.out = Append(@, message), !.used = TRUE]
<1>1. /\ event[n] = socket_raw /\ event' = [event EXCEPT ![n] = NoEvent]
      /\ sdu' = [sdu EXCEPT ![n] = message]
      /\ raw' = [raw EXCEPT ![n] = Tail(@)]
      /\ \/ /\ f # -1
            /\ conn' = [conn EXCEPT ![n][f].out = Append(@, message), ![n][f].used = TRUE]
            /\ seen' = IF conn[n][f].used THEN seen \cup {"busy"} ELSE seen
            /\ UNCHANGED status
         \/ /\ status' = [status EXCEPT ![n] = "ended"]
            /\ UNCHANGED <<conn, seen>>
      /\ UNCHANGED <<socket_data, arp_t, accepted, ready, armed>>
  BY DEF handle_mip_ping, Handling
<1>2. frame.src \in Node /\ frame.sdu \in Sdu /\ Tail(raw[n]) \in Seq(Frame)
  BY <1>1, ReadFrame
<1>3. message \in Sdu
  BY <1>2 DEF Sdu
<1> HIDE DEF message, frame
<1>4. sdu' \in [Node -> Sdu] /\ raw' \in [Node -> Seq(Frame)]
      /\ \A m \in Node : m # n => raw'[m] = raw[m]
  BY <1>1, <1>2, <1>3 DEF TypeOK
<1>5. ready' \in [Node -> Seq(Int)] /\ \A m \in Node : ready'[m] \in Seq(armed[m])
  BY <1>1 DEF TypeOK
<1>6. arp_t' \in [Node -> SUBSET Node] /\ status' \in [Node -> {"running", "ended"}]
      /\ seen' \subseteq Use
  BY <1>1 DEF TypeOK, Use
<1>7. /\ conn' \in [Node -> Seq(Connection)]
      /\ \A m \in Node : Len(conn'[m]) = Len(conn[m])
      /\ \A m \in Node : \A g \in DOMAIN conn[m] : conn'[m][g].app = conn[m][g].app
  <2>1. CASE conn' = conn
    BY <2>1, SameConn
  <2>2. CASE f # -1 /\ conn' = [conn EXCEPT ![n][f].out = Append(@, message), ![n][f].used = TRUE]
    <3>1. f \in DOMAIN conn[n] /\ conn[n][f] \in Connection
      <4>1. f = IF accepted[n] = 0 THEN -1 ELSE accepted[n]
        BY DEF TypeOK
      <4>2. f = accepted[n] /\ f \in 1 .. Len(conn[n])
        BY <2>2, <4>1, HostType
      <4> QED BY <4>2, HostType
    <3>2. Append(conn[n][f].out, message) \in Seq(Sdu)
      BY <1>3, <3>1 DEF Connection
    <3>3. c \in Connection /\ c.app = conn[n][f].app
      BY <3>1, <3>2 DEF Connection
    <3>4. conn' = [conn EXCEPT ![n][f] = c]
      BY <2>2
    <3> HIDE DEF c, f
    <3> QED BY <3>1, <3>3, <3>4, ConnSet
  <2> QED BY <1>1, <2>1, <2>2
<1>8. UNCHANGED <<socket_data, accepted, armed>>
  BY <1>1
<1> QED BY <1>1, <1>4, <1>5, <1>6, <1>7, <1>8, TurnType

\* The socket that mipd reads from, at an event on a connection.
LEMMA SocketType ==
  ASSUME TypeOK, NEW n \in Node, socket_data[n] # -1 \/ event[n] \in Connections(n)
  PROVE  /\ socket_data[n] = accepted[n] /\ socket_data[n] \in DOMAIN conn[n]
         /\ accepted[n] > 0 /\ conn[n][socket_data[n]] \in Connection
<1>1. socket_data[n] = IF accepted[n] = 0 THEN -1 ELSE accepted[n]
  BY DEF TypeOK
<1>2. accepted[n] # 0
  BY <1>1, HostType DEF Connections
<1>3. accepted[n] \in 1 .. Len(conn[n])
  BY <1>2, HostType
<1> QED BY <1>1, <1>2, <1>3, HostType

\* What mipd sends for a message.
LEMMA SendEffect ==
  ASSUME TypeOK, NEW n \in Node, NEW s \in Sdu, SendSdu(n, s)
  PROVE  /\ raw' \in [Node -> Seq(Frame)] /\ ready' \in [Node -> Seq(Int)]
         /\ \A m \in Node : ready'[m] \in Seq(armed[m])
         /\ seen \subseteq seen' /\ seen' \subseteq Use
         /\ \E frame \in {PingFrame(n, s), Arp("REQUEST", n)} :
              \E B \in SUBSET (IF s.mip_addr \in arp_t[n] THEN {s.mip_addr}
                               ELSE Neighbours(n)) :
                /\ frame = IF s.mip_addr \in arp_t[n] THEN PingFrame(n, s)
                           ELSE Arp("REQUEST", n)
                /\ Heard(n, raw[n], B, frame)
<1>1. PingFrame(n, s) \in Frame /\ Arp("REQUEST", n) \in Frame
  BY FrameTypes
<1>2. raw[n] \in Seq(Frame) /\ arp_t[n] \subseteq Node
  BY HostType
<1> DEFINE frame == IF s.mip_addr \in arp_t[n] THEN PingFrame(n, s) ELSE Arp("REQUEST", n)
           to == IF s.mip_addr \in arp_t[n] THEN {s.mip_addr} ELSE Asked(n, s.mip_addr)
           rest == raw[n]
<1>3. frame \in Frame /\ to \subseteq Node
  BY <1>1, <1>2 DEF Asked, Neighbours
<1>4. Transmit(n, rest, to, frame)
  BY DEF SendSdu, Known
<1>5. frame \in {PingFrame(n, s), Arp("REQUEST", n)}
      /\ to \subseteq (IF s.mip_addr \in arp_t[n] THEN {s.mip_addr} ELSE Neighbours(n))
  BY DEF Asked
<1> HIDE DEF to, rest
<1>6. /\ raw' \in [Node -> Seq(Frame)] /\ ready' \in [Node -> Seq(Int)]
      /\ \A m \in Node : ready'[m] \in Seq(armed[m])
      /\ seen \subseteq seen' /\ seen' \subseteq Use
      /\ \E B \in SUBSET to : Heard(n, rest, B, frame)
  <2>1. rest \in Seq(Frame)
    BY <1>2 DEF rest
  <2> HIDE DEF frame
  <2> QED BY <1>3, <1>4, <2>1, TransmitEffect
<1>7. PICK B \in SUBSET to : Heard(n, raw[n], B, frame)
  BY <1>6 DEF rest
<1>8. \E x \in {PingFrame(n, s), Arp("REQUEST", n)} :
              \E D \in SUBSET (IF s.mip_addr \in arp_t[n] THEN {s.mip_addr}
                               ELSE Neighbours(n)) :
                /\ x = IF s.mip_addr \in arp_t[n] THEN PingFrame(n, s)
                       ELSE Arp("REQUEST", n)
                /\ Heard(n, raw[n], D, x)
  BY <1>5, <1>7
<1> QED BY <1>6, <1>8

LEMMA UnixType ==
  ASSUME TypeOK, Promises, NEW n \in Node, handle_unix_connection(n), UNCHANGED appVars
  PROVE  TypeOK' /\ Promises'
<1> DEFINE f == socket_data[n]
           c == conn[n][f]
<1>1. /\ event[n] \in Connections(n) /\ event' = [event EXCEPT ![n] = NoEvent]
      /\ UNCHANGED <<socket_data, arp_t, accepted, armed>>
  BY DEF handle_unix_connection, Handling
<1>2. f \in DOMAIN conn[n] /\ c \in Connection
  BY <1>1, SocketType
<1>3. status \in [Node -> {"running", "ended"}] /\ sdu \in [Node -> Sdu]
      /\ arp_t' \in [Node -> SUBSET Node]
  BY <1>1 DEF TypeOK
<1>4. CASE /\ HasMessage(c)
           /\ sdu' = [sdu EXCEPT ![n] = Head(c.in)]
           /\ conn' = [conn EXCEPT ![n][f].in = Tail(@)]
           /\ SendSdu(n, Head(c.in))
           /\ UNCHANGED status
  <2> DEFINE s == Head(c.in)
             d == [c EXCEPT !.in = Tail(@)]
  <2>1. s \in Sdu /\ Tail(c.in) \in Seq(Sdu)
    <3>1. c.in \in Seq(Sdu) /\ c.in # <<>>
      BY <1>2, <1>4 DEF Connection, HasMessage
    <3> HIDE DEF c
    <3> QED BY <3>1
  <2>2. d \in Connection /\ d.app = c.app
    BY <1>2, <2>1 DEF Connection
  <2>3. conn' = [conn EXCEPT ![n][f] = d]
    BY <1>4
  <2>4. sdu' \in [Node -> Sdu] /\ status' \in [Node -> {"running", "ended"}]
    BY <1>3, <1>4, <2>1
  <2>5. SendSdu(n, s)
    BY <1>4
  <2> HIDE DEF s, d
  <2>6. /\ raw' \in [Node -> Seq(Frame)] /\ ready' \in [Node -> Seq(Int)]
        /\ \A m \in Node : ready'[m] \in Seq(armed[m])
        /\ seen' \subseteq Use
        /\ \E frame \in {PingFrame(n, s), Arp("REQUEST", n)} : \E B : Heard(n, raw[n], B, frame)
    BY <2>1, <2>5, SendEffect
  <2>7. \A m \in Node : m # n /\ raw'[m] = <<>> => raw[m] = <<>>
    BY <2>1, <2>6, HeardMore, FrameTypes
  <2>8. /\ conn' \in [Node -> Seq(Connection)]
        /\ \A m \in Node : Len(conn'[m]) = Len(conn[m])
        /\ \A m \in Node : \A g \in DOMAIN conn[m] : conn'[m][g].app = conn[m][g].app
    <3> HIDE DEF f
    <3> QED BY <1>2, <2>2, <2>3, ConnSet
  <2> QED BY <1>1, <1>3, <2>4, <2>6, <2>7, <2>8, TurnType
<1>5. CASE /\ SendSdu(n, sdu[n])
           /\ UNCHANGED <<status, sdu, conn>>
  <2> DEFINE s == sdu[n]
  <2>1. s \in Sdu /\ SendSdu(n, s)
    BY <1>3, <1>5
  <2> HIDE DEF s
  <2>2. /\ raw' \in [Node -> Seq(Frame)] /\ ready' \in [Node -> Seq(Int)]
        /\ \A m \in Node : ready'[m] \in Seq(armed[m])
        /\ seen' \subseteq Use
        /\ \E frame \in {PingFrame(n, s), Arp("REQUEST", n)} : \E B : Heard(n, raw[n], B, frame)
    BY <2>1, SendEffect
  <2>3. \A m \in Node : m # n /\ raw'[m] = <<>> => raw[m] = <<>>
    BY <2>1, <2>2, HeardMore, FrameTypes
  <2>4. sdu' \in [Node -> Sdu] /\ status' \in [Node -> {"running", "ended"}] /\ conn' = conn
    BY <1>3, <1>5
  <2> QED BY <1>1, <1>3, <2>2, <2>3, <2>4, SameConn, TurnType
<1>6. CASE /\ status' = [status EXCEPT ![n] = "ended"]
           /\ UNCHANGED <<sdu, conn, raw, ready, seen>>
  <2>1. status' \in [Node -> {"running", "ended"}] /\ sdu' \in [Node -> Sdu] /\ conn' = conn
    BY <1>3, <1>6
  <2>2. /\ raw' \in [Node -> Seq(Frame)] /\ ready' \in [Node -> Seq(Int)]
        /\ \A m \in Node : ready'[m] \in Seq(armed[m])
        /\ seen' \subseteq Use
    BY <1>6 DEF TypeOK
  <2>3. raw' = raw
    BY <1>6
  <2> QED BY <1>1, <1>3, <2>1, <2>2, <2>3, SameConn, TurnType
<1> QED BY <1>4, <1>5, <1>6 DEF handle_unix_connection

LEMMA NewUnixType ==
  ASSUME TypeOK, Promises, NEW n \in Node, new_unix_connection(n), UNCHANGED appVars
  PROVE  TypeOK' /\ Promises'
<1> DEFINE f == accepted[n] + 1
           q == Added(ready[n], f, HasInput(conn[n][f]))
           W == armed[n] \cup {f}
<1>1. /\ event[n] = socket_unix /\ event' = [event EXCEPT ![n] = NoEvent]
      /\ socket_data' = [socket_data EXCEPT ![n] = f]
      /\ accepted' = [accepted EXCEPT ![n] = f]
      /\ armed' = [armed EXCEPT ![n] = W]
      /\ ready' = [ready EXCEPT ![n] = q]
      /\ UNCHANGED <<status, sdu, arp_t, conn, raw, seen>>
      /\ UNCHANGED <<host, dst, server, client, answer>>
  BY DEF new_unix_connection, Handling, appVars
<1>2. accepted[n] < Len(conn[n])
  BY <1>1 DEF Promises
<1>3. f \in 1 .. Len(conn[n]) /\ f \in Nat /\ Len(conn[n]) \in Nat /\ accepted[n] \in Nat
  BY <1>2, HostType
<1>4. q \in Seq(W) /\ W \subseteq Int
  <2>1. ready[n] \in Seq(armed[n]) /\ armed[n] \subseteq Int
    BY DEF TypeOK
  <2>2. ready[n] \in Seq(W)
    BY <2>1, SeqMonotonic
  <2>3. Append(ready[n], f) \in Seq(W)
    BY <2>2
  <2> QED BY <1>3, <2>1, <2>2, <2>3 DEF Added
<1>5. q \in Seq(Int)
  BY <1>4, SeqMonotonic
<1>6. W \subseteq 1 .. f \cup {socket_raw, socket_unix}
  <2>1. armed[n] \subseteq 1 .. accepted[n] \cup {socket_raw, socket_unix}
    BY DEF TypeOK, Connections
  <2>2. 1 .. accepted[n] \subseteq 1 .. f /\ f \in 1 .. f
    BY <1>3
  <2> HIDE DEF f
  <2> QED BY <2>1, <2>2
<1> HIDE DEF q, W
<1>7. NoEvent \in Int
  BY DEF NoEvent
<1>8. /\ event' \in [Node -> Int] /\ armed' \in [Node -> SUBSET Int]
      /\ ready' \in [Node -> Seq(Int)]
      /\ accepted' \in [Node -> Nat] /\ socket_data' \in [Node -> Int]
  <2>1. /\ event \in [Node -> Int] /\ armed \in [Node -> SUBSET Int]
        /\ ready \in [Node -> Seq(Int)]
        /\ accepted \in [Node -> Nat] /\ socket_data \in [Node -> Int]
    BY DEF TypeOK
  <2>2. f \in Int /\ f \in Nat
    BY <1>3
  <2> HIDE DEF f
  <2> QED BY <1>1, <1>4, <1>5, <1>7, <2>1, <2>2
<1>9. ASSUME NEW m \in Node PROVE HostOK(m)'
  <2>1. CASE m = n
    <3>1. /\ event'[n] = NoEvent /\ armed'[n] = W /\ ready'[n] = q
          /\ accepted'[n] = f /\ socket_data'[n] = f /\ conn'[n] = conn[n]
      BY <1>1 DEF TypeOK
    <3> HIDE DEF f
    <3>2. f # 0
      BY <1>3 DEF f
    <3> QED BY <1>3, <1>4, <1>6, <2>1, <3>1, <3>2 DEF HostOK, Connections
  <2>2. CASE m # n
    <3>1. /\ event'[m] = event[m] /\ armed'[m] = armed[m] /\ ready'[m] = ready[m]
          /\ accepted'[m] = accepted[m] /\ socket_data'[m] = socket_data[m]
          /\ conn'[m] = conn[m]
      BY <1>1, <2>2 DEF TypeOK
    <3> QED BY <3>1 DEF HostOK, Connections, TypeOK
  <2> QED BY <2>1, <2>2
<1>10. TypeOK'
  BY <1>1, <1>8, <1>9 DEF TypeOK, HostOK
<1>11. Promises'
  <2>1. \A m \in Node : /\ event'[m] = socket_unix => accepted'[m] < Len(conn'[m])
                        /\ event'[m] = socket_raw => raw'[m] # <<>>
    <3> TAKE m \in Node
    <3>1. CASE m = n
      <4>1. event'[m] = NoEvent
        BY <1>1, <3>1 DEF TypeOK
      <4> QED BY <4>1 DEF NoEvent, socket_unix, socket_raw
    <3>2. CASE m # n
      <4>1. event'[m] = event[m] /\ accepted'[m] = accepted[m]
        BY <1>1, <3>2 DEF TypeOK
      <4> QED BY <1>1, <4>1 DEF Promises
    <3> QED BY <3>1, <3>2
  <2> QED BY <1>1, <2>1 DEF Promises
<1> QED BY <1>10, <1>11

\* Of host n, descriptor fd has become readable.
LEMMA WokenEffect ==
  ASSUME TypeOK, NEW n \in Node, NEW fd, ready' = Woken(n, fd)
  PROVE  /\ ready' \in [Node -> Seq(Int)] /\ \A m \in Node : ready'[m] \in Seq(armed[m])
         /\ ready'[n] = Wake(ready[n], armed[n], fd)
         /\ \A m \in Node : m # n => ready'[m] = ready[m]
<1>1. ready \in [Node -> Seq(Int)] /\ \A m \in Node : ready[m] \in Seq(armed[m])
      /\ armed[m] \subseteq Int
  BY DEF TypeOK
<1>2. Wake(ready[n], armed[n], fd) \in Seq(armed[n])
  BY <1>1, WakeEffect
<1>3. Wake(ready[n], armed[n], fd) \in Seq(Int)
  BY <1>1, <1>2, SeqMonotonic
<1>4. ready' = [ready EXCEPT ![n] = Wake(ready[n], armed[n], fd)]
  BY DEF Woken
<1> QED BY <1>1, <1>2, <1>3, <1>4

\* What a step of an application may do to the variables of the applications.
AppsType ==
  /\ server' \in [ServerHosts -> {"off", "listening", "answered"}]
  /\ client' \in [Ping -> {"idle", "connected", "waiting", "answered", "gave up"}]
  /\ answer' \in [Ping -> Sdu]
  /\ seen' \subseteq Use
  /\ host' = host /\ dst' = dst

LEMMA UsesType ==
  ASSUME TypeOK, Promises, AppsType, NEW n \in Node, NEW f \in DOMAIN conn[n],
         NEW c \in Connection, c.app = conn[n][f].app, Uses(n, f, c),
         \A k \in Ping : client'[k] # "idle" => client[k] # "idle",
         \A s \in ServerHosts : server'[s] # "off" => server[s] # "off"
  PROVE  TypeOK' /\ Promises'
<1>1. /\ conn' = [conn EXCEPT ![n][f] = c]
      /\ ready' = ready \/ ready' = Woken(n, f)
      /\ UNCHANGED <<status, sdu, socket_data, arp_t, accepted, event, armed, raw>>
      /\ UNCHANGED <<host, dst>>
  BY DEF Uses
<1>2. /\ conn' \in [Node -> Seq(Connection)]
      /\ \A m \in Node : DOMAIN conn'[m] = DOMAIN conn[m] /\ Len(conn'[m]) = Len(conn[m])
      /\ \A m \in Node : \A g \in DOMAIN conn[m] : conn'[m][g].app = conn[m][g].app
  BY <1>1, ConnSet
<1>3. ready' \in [Node -> Seq(Int)] /\ \A m \in Node : ready'[m] \in Seq(armed[m])
  <2>1. CASE ready' = ready
    BY <2>1 DEF TypeOK
  <2>2. CASE ready' = Woken(n, f)
    BY <2>2, WokenEffect
  <2> QED BY <1>1, <2>1, <2>2
<1>4. ASSUME NEW m \in Node PROVE HostOK(m)'
  BY <1>1, <1>2, <1>3 DEF TypeOK, HostOK, Connections
<1>5. TypeOK'
  <2>1. conn' \in [Node -> Seq(Connection)] /\ ready' \in [Node -> Seq(Int)]
    BY <1>2, <1>3
  <2> QED BY <1>1, <1>4, <2>1 DEF TypeOK, HostOK, AppsType
<1>6. Promises'
  <2>1. \A k \in Ping : host[k] \in Node
    BY DEF TypeOK
  <2>2. \A s \in ServerHosts : s \in Node
    BY PingAssumption
  <2>3. \A m \in Node : /\ event'[m] = socket_unix => accepted'[m] < Len(conn'[m])
                        /\ event'[m] = socket_raw => raw'[m] # <<>>
    BY <1>1, <1>2 DEF Promises
  <2>4. \A k \in Ping : client'[k] # "idle" =>
          \E g \in DOMAIN conn'[host'[k]] : conn'[host'[k]][g].app = k
    BY <1>1, <1>2, <2>1 DEF Promises
  <2>5. \A s \in ServerHosts : server'[s] # "off" =>
          \E g \in DOMAIN conn'[s] : conn'[s][g].app = "server"
    BY <1>1, <1>2, <2>2 DEF Promises
  <2> QED BY <2>3, <2>4, <2>5 DEF Promises
<1> QED BY <1>5, <1>6

LEMMA ConnectType ==
  ASSUME TypeOK, Promises, AppsType, NEW n \in Node, NEW app \in Ping \cup {"server"},
         Connect(n, app),
         \A k \in Ping : client'[k] # "idle" => client[k] # "idle" \/ (host[k] = n /\ k = app),
         \A s \in ServerHosts : server'[s] # "off" => server[s] # "off" \/ (s = n /\ app = "server")
  PROVE  TypeOK' /\ Promises'
<1>1. /\ conn' = [conn EXCEPT ![n] = Append(@, Opened(app))]
      /\ ready' = Woken(n, socket_unix)
      /\ UNCHANGED <<status, sdu, socket_data, arp_t, accepted, event, armed, raw>>
      /\ UNCHANGED <<host, dst>>
  BY DEF Connect
<1>2. /\ conn' \in [Node -> Seq(Connection)]
      /\ conn'[n][Len(conn[n]) + 1] = Opened(app)
      /\ Len(conn'[n]) = Len(conn[n]) + 1
      /\ \A m \in Node : Len(conn[m]) <= Len(conn'[m])
      /\ \A m \in Node : \A g \in DOMAIN conn[m] :
              conn'[m][g] = conn[m][g] /\ g \in DOMAIN conn'[m]
  BY <1>1, ConnNew
<1>3. ready' \in [Node -> Seq(Int)] /\ \A m \in Node : ready'[m] \in Seq(armed[m])
  BY <1>1, WokenEffect
<1>4. \A m \in Node : Len(conn[m]) \in Nat /\ Len(conn'[m]) \in Nat /\ accepted[m] \in Nat
                      /\ accepted[m] <= Len(conn[m])
  BY <1>2, HostType
<1>5. ASSUME NEW m \in Node PROVE HostOK(m)'
  <2>1. accepted'[m] \in 0 .. Len(conn'[m])
    BY <1>1, <1>2, <1>4
  <2> QED BY <1>1, <1>3, <2>1 DEF TypeOK, HostOK, Connections
<1>6. TypeOK'
  <2>1. conn' \in [Node -> Seq(Connection)] /\ ready' \in [Node -> Seq(Int)]
    BY <1>2, <1>3
  <2> QED BY <1>1, <1>5, <2>1 DEF TypeOK, HostOK, AppsType
<1>7. Promises'
  <2>1. \A k \in Ping : host[k] \in Node
    BY DEF TypeOK
  <2>2. \A s \in ServerHosts : s \in Node
    BY PingAssumption
  <2>3. \A m \in Node : /\ event'[m] = socket_unix => accepted'[m] < Len(conn'[m])
                        /\ event'[m] = socket_raw => raw'[m] # <<>>
    BY <1>1, <1>2, <1>4 DEF Promises
  <2>4. \E g \in DOMAIN conn'[n] : conn'[n][g].app = app
    <3>1. Len(conn[n]) + 1 \in DOMAIN conn'[n]
      BY <1>2, <1>4
    <3>2. conn'[n][Len(conn[n]) + 1].app = app
      BY <1>2 DEF Opened
    <3> QED BY <3>1, <3>2
  <2>5. \A k \in Ping : client'[k] # "idle" =>
          \E g \in DOMAIN conn'[host'[k]] : conn'[host'[k]][g].app = k
    BY <1>1, <1>2, <2>1, <2>4 DEF Promises
  <2>6. \A s \in ServerHosts : server'[s] # "off" =>
          \E g \in DOMAIN conn'[s] : conn'[s][g].app = "server"
    BY <1>1, <1>2, <2>2, <2>4 DEF Promises
  <2> QED BY <2>3, <2>5, <2>6 DEF Promises
<1> QED BY <1>6, <1>7

\* A message is written to mipd.
LEMMA GiveType ==
  ASSUME NEW c \in Connection, NEW s \in Sdu
  PROVE  /\ [c EXCEPT !.in = Append(@, s)] \in Connection
         /\ [c EXCEPT !.in = Append(@, s)].app = c.app
<1>1. Append(c.in, s) \in Seq(Sdu)
  BY DEF Connection
<1> QED BY <1>1 DEF Connection

\* A connection is closed, with or without a message read before.
LEMMA CloseType ==
  ASSUME NEW c \in Connection
  PROVE  /\ [c EXCEPT !.open = FALSE] \in Connection
         /\ [c EXCEPT !.open = FALSE].app = c.app
         /\ c.out # <<>> => /\ [c EXCEPT !.out = Tail(@), !.open = FALSE] \in Connection
                            /\ [c EXCEPT !.out = Tail(@), !.open = FALSE].app = c.app
<1>1. c.out # <<>> => Tail(c.out) \in Seq(Sdu)
  BY DEF Connection
<1> QED BY <1>1 DEF Connection

LEMMA ReadType ==
  ASSUME NEW c \in Connection, c.out # <<>>
  PROVE  Head(c.out) \in Sdu /\ Tail(c.out) \in Seq(Sdu)
<1>1. c.out \in Seq(Sdu)
  BY DEF Connection
<1> QED BY <1>1

LEMMA ServerType ==
  ASSUME TypeOK, Promises, NEW s \in ServerHosts, ServerConnects(s) \/ ServerAnswers(s)
  PROVE  TypeOK' /\ Promises'
<1>1. s \in Node
  BY PingAssumption
<1>2. CASE ServerConnects(s)
  <2>1. /\ Connect(s, "server")
        /\ server' = [server EXCEPT ![s] = "listening"]
        /\ UNCHANGED <<client, answer, seen, host, dst>>
    BY <1>2 DEF ServerConnects, Connect
  <2>2. AppsType
    BY <2>1 DEF AppsType, TypeOK
  <2>3. \A t \in ServerHosts : server'[t] # "off" => server[t] # "off" \/ (t = s /\ "server" = "server")
    BY <2>1 DEF TypeOK
  <2>4. \A k \in Ping : client'[k] # "idle" => client[k] # "idle" \/ (host[k] = s /\ k = "server")
    BY <2>1
  <2> QED BY <1>1, <2>1, <2>2, <2>3, <2>4, ConnectType
<1>3. CASE ServerAnswers(s)
  <2> DEFINE f == LastOf(s, "server")
             c == conn[s][f]
             d == [c EXCEPT !.out = Tail(@),
                            !.in = Append(@, [Head(c.out) EXCEPT !.payload = "PONG"])]
  <2>1. /\ server[s] = "listening" /\ c.out # <<>>
        /\ Uses(s, f, d)
        /\ server' = [server EXCEPT ![s] = "answered"]
        /\ UNCHANGED <<client, answer, seen, host, dst>>
    BY <1>3 DEF ServerAnswers, Uses
  <2>2. \E g \in DOMAIN conn[s] : conn[s][g].app = "server"
    BY <2>1 DEF Promises
  <2>3. f \in DOMAIN conn[s] /\ c \in Connection
    BY <1>1, <2>2, LastOfEffect, HostType
  <2>4. d \in Connection /\ d.app = c.app
    <3>1. [Head(c.out) EXCEPT !.payload = "PONG"] \in Sdu
      <4> HIDE DEF c
      <4>1. Head(c.out) \in Sdu
        BY <2>1, <2>3, ReadType
      <4> QED BY <4>1 DEF Sdu
    <3> DEFINE pong == [Head(c.out) EXCEPT !.payload = "PONG"]
    <3>2. pong \in Sdu /\ d = [c EXCEPT !.out = Tail(@), !.in = Append(@, pong)]
      BY <3>1
    <3> HIDE DEF c, pong, d
    <3>3. Tail(c.out) \in Seq(Sdu) /\ Append(c.in, pong) \in Seq(Sdu)
      BY <2>1, <2>3, <3>2, ReadType DEF Connection
    <3> QED BY <2>3, <3>2, <3>3 DEF Connection
  <2> HIDE DEF d, f
  <2>5. AppsType
    BY <2>1 DEF AppsType, TypeOK
  <2>6. \A t \in ServerHosts : server'[t] # "off" => server[t] # "off"
    BY <2>1 DEF TypeOK
  <2> QED BY <1>1, <2>1, <2>3, <2>4, <2>5, <2>6, UsesType
<1> QED BY <1>2, <1>3

LEMMA ClientConnectsType ==
  ASSUME TypeOK, Promises, NEW k \in Ping, ClientConnects(k)
  PROVE  TypeOK' /\ Promises'
<1>1. /\ Connect(host[k], k)
      /\ client' = [client EXCEPT ![k] = "connected"]
      /\ seen' = seen \/ seen' = seen \cup {"same host"}
      /\ UNCHANGED <<server, answer, host, dst>>
  BY DEF ClientConnects, Connect
<1>2. AppsType
  BY <1>1 DEF AppsType, TypeOK, Use
<1> DEFINE n == host[k]
<1>3. \A j \in Ping : client'[j] # "idle" => client[j] # "idle" \/ (host[j] = n /\ j = k)
  BY <1>1 DEF TypeOK
<1>4. n \in Node /\ k \in Ping \cup {"server"} /\ Connect(n, k)
  BY <1>1 DEF TypeOK
<1>5. \A s \in ServerHosts : server'[s] # "off" => server[s] # "off" \/ (s = n /\ k = "server")
  BY <1>1
<1> HIDE DEF n
<1> QED BY <1>2, <1>3, <1>4, <1>5, ConnectType

LEMMA ClientType ==
  ASSUME TypeOK, Promises, NEW k \in Ping, ClientSends(k) \/ ClientReads(k) \/ ClientGivesUp(k)
  PROVE  TypeOK' /\ Promises'
<1> DEFINE n == host[k]
           f == Mine(k)
           c == conn[n][f]
<1>1. client[k] # "idle"
  BY DEF ClientSends, ClientReads, ClientGivesUp
<1>2. n \in Node /\ f \in DOMAIN conn[n] /\ c \in Connection
  BY <1>1, MineEffect
<1>3. ASSUME NEW d \in Connection, d.app = c.app, Uses(n, f, d),
             client' \in [Ping -> {"idle", "connected", "waiting", "answered", "gave up"}],
             answer' \in [Ping -> Sdu], seen' \subseteq Use, server' = server,
             \A j \in Ping : client'[j] # "idle" => client[j] # "idle"
      PROVE  TypeOK' /\ Promises'
  <2>1. AppsType
    BY <1>3 DEF AppsType, TypeOK, Uses
  <2> HIDE DEF n, f
  <2> QED BY <1>2, <1>3, <2>1, UsesType
<1>4. CASE ClientSends(k)
  <2> DEFINE d == [c EXCEPT !.in = Append(@, Message(dst[k], "PING", k))]
  <2>1. /\ Uses(n, f, d) /\ client[k] = "connected"
        /\ client' = [client EXCEPT ![k] = "waiting"]
        /\ UNCHANGED <<server, answer, seen>>
    BY <1>4 DEF ClientSends
  <2>2. Message(dst[k], "PING", k) \in Sdu
    BY DEF Message, Sdu, TypeOK
  <2>3. d \in Connection /\ d.app = c.app
    <3> HIDE DEF c
    <3> QED BY <1>2, <2>2, GiveType
  <2>4. client' \in [Ping -> {"idle", "connected", "waiting", "answered", "gave up"}]
        /\ \A j \in Ping : client'[j] # "idle" => client[j] # "idle"
    BY <2>1 DEF TypeOK
  <2>5. answer' \in [Ping -> Sdu] /\ seen' \subseteq Use
    BY <2>1 DEF TypeOK
  <2> HIDE DEF d, n, f
  <2> QED BY <1>3, <2>1, <2>3, <2>4, <2>5
<1>5. CASE ClientReads(k)
  <2> DEFINE d == [c EXCEPT !.out = Tail(@), !.open = FALSE]
  <2>1. /\ Uses(n, f, d) /\ client[k] = "waiting" /\ c.out # <<>>
        /\ client' = [client EXCEPT ![k] = "answered"]
        /\ answer' = [answer EXCEPT ![k] = Head(c.out)]
        /\ UNCHANGED <<server, seen>>
    BY <1>5 DEF ClientReads
  <2>2. d \in Connection /\ d.app = c.app /\ Head(c.out) \in Sdu
    <3> HIDE DEF c
    <3> QED BY <1>2, <2>1, CloseType, ReadType
  <2>3. client' \in [Ping -> {"idle", "connected", "waiting", "answered", "gave up"}]
        /\ \A j \in Ping : client'[j] # "idle" => client[j] # "idle"
    BY <2>1 DEF TypeOK
  <2>4. answer' \in [Ping -> Sdu] /\ seen' \subseteq Use
    <3> HIDE DEF c
    <3> QED BY <2>1, <2>2 DEF TypeOK
  <2> HIDE DEF d, n, f
  <2> QED BY <1>3, <2>1, <2>2, <2>3, <2>4
<1>6. CASE ClientGivesUp(k)
  <2> DEFINE d == [c EXCEPT !.open = FALSE]
  <2>1. /\ Uses(n, f, d) /\ client[k] = "waiting"
        /\ client' = [client EXCEPT ![k] = "gave up"]
        /\ seen' = seen \cup {"gave up"}
        /\ UNCHANGED <<server, answer>>
    BY <1>6 DEF ClientGivesUp
  <2>2. d \in Connection /\ d.app = c.app
    <3> HIDE DEF c
    <3> QED BY <1>2, CloseType
  <2>3. client' \in [Ping -> {"idle", "connected", "waiting", "answered", "gave up"}]
        /\ \A j \in Ping : client'[j] # "idle" => client[j] # "idle"
    BY <2>1 DEF TypeOK
  <2>4. answer' \in [Ping -> Sdu] /\ seen' \subseteq Use
    BY <2>1 DEF TypeOK, Use
  <2> HIDE DEF d, n, f
  <2> QED BY <1>3, <2>1, <2>2, <2>3, <2>4
<1> QED BY <1>4, <1>5, <1>6

LEMMA InitType ==
  ASSUME Init
  PROVE  TypeOK /\ Promises
<1>1. ZeroSdu \in Sdu
  BY DEF ZeroSdu, Message, Sdu
<1>2. \A n \in Node : conn[n] = <<>> /\ ready[n] = <<>> /\ raw[n] = <<>> /\ accepted[n] = 0
  BY DEF Init, DaemonInit
<1>3. \A S : <<>> \in Seq(S) /\ Len(<<>>) = 0
  OBVIOUS
<1>4. ASSUME NEW n \in Node PROVE HostOK(n)
  BY <1>2, <1>3 DEF Init, DaemonInit, HostOK, Connections, NoEvent, socket_raw, socket_unix
<1>5. /\ event \in [Node -> Int] /\ armed \in [Node -> SUBSET Int]
      /\ accepted \in [Node -> Nat] /\ socket_data \in [Node -> Int]
  BY DEF Init, DaemonInit, NoEvent, socket_raw, socket_unix
<1>6. /\ ready \in [Node -> Seq(Int)] /\ raw \in [Node -> Seq(Frame)]
      /\ conn \in [Node -> Seq(Connection)]
  BY <1>3 DEF Init, DaemonInit
<1>7. TypeOK
  BY <1>1, <1>4, <1>5, <1>6 DEF Init, DaemonInit, TypeOK, HostOK
<1>8. Promises
  BY DEF Init, DaemonInit, Promises, NoEvent, socket_raw, socket_unix
<1> QED BY <1>7, <1>8

LEMMA StutterType ==
  ASSUME TypeOK, Promises, UNCHANGED vars
  PROVE  TypeOK' /\ Promises'
<1>1. UNCHANGED <<status, sdu, socket_data, arp_t, conn, accepted, event, ready, armed, raw>>
      /\ UNCHANGED <<seen, host, dst, server, client, answer>>
  BY DEF vars, daemonVars
<1>2. \A n \in Node : HostOK(n)'
  BY <1>1 DEF TypeOK, HostOK, Connections
<1> QED BY <1>1, <1>2 DEF TypeOK, Promises, HostOK

LEMMA StepType ==
  ASSUME TypeOK, Promises, [Next]_vars
  PROVE  TypeOK' /\ Promises'
<1>1. ASSUME NEW n \in Node, Mipd(n), UNCHANGED <<host, dst, server, client, answer>>
      PROVE  TypeOK' /\ Promises'
  BY <1>1, EpollType, ArpType, PingType, NewUnixType, UnixType DEF Mipd, appVars
<1>2. ASSUME NEW s \in ServerHosts, ServerConnects(s) \/ ServerAnswers(s)
      PROVE  TypeOK' /\ Promises'
  BY <1>2, ServerType
<1>3. ASSUME NEW k \in Ping,
             ClientConnects(k) \/ ClientSends(k) \/ ClientReads(k) \/ ClientGivesUp(k)
      PROVE  TypeOK' /\ Promises'
  BY <1>3, ClientConnectsType, ClientType
<1> QED BY <1>1, <1>2, <1>3, StutterType DEF Next

\* The types of oblig1's daemons and applications, and what they rely on: a
\* connection that mipd accepts has been made, a frame that it reads has come,
\* and it reads and writes no descriptor but that of a connection.
THEOREM PingTypeSafe == Spec => [](TypeOK /\ Promises)
<1>1. Init => TypeOK /\ Promises
  BY InitType
<1>2. TypeOK /\ Promises /\ [Next]_vars => TypeOK' /\ Promises'
  BY StepType
<1> QED BY <1>1, <1>2, PTL DEF Spec

-----------------------------------------------------------------------------
(* Who is connected, and what mipd does in turn. *)

\* A connection of a client, on a host where it was alone: the connections made
\* before it belong to clients that have been answered, and an event on it comes
\* once, for the PING.
ClientConn(n, f) ==
  LET c == conn[n][f]
      k == c.app
  IN  /\ k \in Ping /\ host[k] = n /\ client[k] # "idle"
      /\ c.open <=> client[k] # "answered"
      /\ f < Len(conn[n]) => client[k] = "answered"
      /\ \A g \in DOMAIN conn[n] : conn[n][g].app = k => g = f
      /\ client[k] = "connected" => c.in = <<>>
      /\ f \in armed[n] => client[k] = "connected" \/ c.in # <<>>
      /\ client[k] # "connected" /\ c.in = <<>> => f <= accepted[n]
      /\ client[k] = "answered" => f <= accepted[n]

\* The server never closes one.
ServerConn(n, f) == conn[n][f].app = "server" /\ conn[n][f].open

Apps(n) ==
  \A f \in DOMAIN conn[n] : IF n \in ServerHosts THEN ServerConn(n, f) ELSE ClientConn(n, f)

\* At most one connection has not been accepted, only the one accepted last is
\* watched, and not any more while the next one is being accepted.  The event on a
\* connection is for the one accepted last, and there is a message.
Turns(n) ==
  /\ Len(conn[n]) <= accepted[n] + 1
  /\ \A f \in armed[n] \cap Connections(n) : f = accepted[n] /\ event[n] # socket_unix
  /\ event[n] \in Connections(n) =>
       /\ event[n] = accepted[n] /\ event[n] \notin armed[n]
       /\ conn[n][event[n]].in # <<>>
  /\ \A f \in DOMAIN conn[n] :
       /\ f > accepted[n] => conn[n][f].out = <<>> /\ ~ conn[n][f].used
       /\ conn[n][f].out # <<>> => conn[n][f].used

\* What is watched and readable is in epoll's list, which watches the raw and the
\* listening socket for ever.
Watches(n) ==
  /\ socket_raw \in armed[n] /\ socket_unix \in armed[n]
  /\ \A f \in armed[n] : f \in Readable(n) => f \in ToSet(ready[n])

\* A server that has answered, and one that has connected again before its answer
\* is read, has that answer in its connection; and mipd accepts its connection before
\* it reads a frame.
ServerTurns(s) ==
  LET g == accepted[s]
  IN  /\ g > 0 /\ g \in armed[s] /\ g < Len(conn[s]) => conn[s][g].in # <<>>
      /\ server[s] = "answered" =>
           /\ g = Len(conn[s]) /\ g > 0 /\ conn[s][g].used
           /\ g \in armed[s] => conn[s][g].in # <<>>
      /\ g = Len(conn[s]) /\ (event[s] = socket_raw \/ (g > 0 /\ conn[s][g].used)) =>
           socket_unix \notin ToSet(ready[s])
      /\ g = 0 /\ conn[s] # <<>> =>
           \/ event[s] = socket_unix
           \/ event[s] = NoEvent /\ ready[s] # <<>> /\ ready[s][1] = socket_unix
      /\ server[s] = "off" <=> conn[s] = <<>>
      /\ server[s] = "off" => ready[s] = <<>> /\ event[s] = NoEvent

Local(n) == Apps(n) /\ Turns(n) /\ Watches(n) /\ (n \in ServerHosts => ServerTurns(n))

\* Clients start after the servers, on other hosts, and none has given up.
Started ==
  \A k \in Ping :
    /\ client[k] # "gave up"
    /\ client[k] # "idle" => /\ host[k] \notin ServerHosts
                             /\ \A s \in ServerHosts : server[s] # "off"

\* Nothing is sent before all servers have started.
Quiet ==
  (\E s \in ServerHosts : server[s] = "off") =>
    \A n \in Node : /\ raw[n] = <<>>
                    /\ \A f \in DOMAIN conn[n] : conn[n][f].in = <<>> /\ conn[n][f].out = <<>>

Alone == Started /\ Quiet /\ \A n \in Node : Local(n)

TurnInv == TypeOK /\ Promises /\ (OneByOne => Alone)

\* Epoll's list of host m has not lost anything, nor got a new head, nor got anything
\* new but the raw socket.
OnlyRawNew(m) ==
  /\ \A x \in ToSet(ready[m]) : x \in ToSet(ready'[m])
  /\ \A x : x \in ToSet(ready'[m]) => x \in ToSet(ready[m]) \/ x = socket_raw
  /\ ready[m] # <<>> => ready'[m] # <<>> /\ ready'[m][1] = ready[m][1]

LEMMA WakeRaw ==
  ASSUME TypeOK, NEW m \in Node,
         ready'[m] = ready[m] \/ ready'[m] = Wake(ready[m], armed[m], socket_raw)
  PROVE  OnlyRawNew(m)
<1>1. CASE ready'[m] = ready[m]
  BY <1>1 DEF OnlyRawNew
<1>2. CASE ready'[m] = Wake(ready[m], armed[m], socket_raw)
  <2> DEFINE s == ready[m]
             W == armed[m]
             t == Wake(s, W, socket_raw)
  <2>1. s \in Seq(W)
    BY HostType
  <2>2. /\ t \in Seq(W)
        /\ \A i \in 1 .. Len(s) : i \in 1 .. Len(t) /\ t[i] = s[i]
        /\ \A x : x \in ToSet(t) => x \in ToSet(s) \/ x = socket_raw
        /\ \A x \in ToSet(s) : x \in ToSet(t)
    <3> DEFINE fd == socket_raw
    <3> HIDE DEF s, W, fd
    <3>1. /\ Wake(s, W, fd) \in Seq(W)
          /\ \A i \in 1 .. Len(s) : /\ i \in 1 .. Len(Wake(s, W, fd))
                                    /\ Wake(s, W, fd)[i] = s[i]
          /\ \A x : x \in ToSet(Wake(s, W, fd)) =>
                      \/ x \in ToSet(s)
                      \/ x = fd /\ fd \in W
          /\ \A x \in ToSet(s) : x \in ToSet(Wake(s, W, fd))
      BY <2>1, WakeEffect
    <3> QED BY <3>1 DEF fd
  <2> HIDE DEF s, t
  <2>3. s # <<>> => t # <<>> /\ t[1] = s[1]
    <3>1. s # <<>> => 1 \in 1 .. Len(s)
      BY <2>1
    <3>2. 1 \in 1 .. Len(t) => t # <<>>
      OBVIOUS
    <3> QED BY <2>2, <3>1, <3>2
  <2>4. ready'[m] = t /\ ready[m] = s
    BY <1>2 DEF s, t
  <2> QED BY <2>2, <2>3, <2>4 DEF OnlyRawNew
<1> QED BY <1>1, <1>2

\* Nothing has become readable but the raw socket, which was woken.
LEMMA WatchesKept ==
  ASSUME TypeOK, NEW m \in Node, Watches(m), armed'[m] = armed[m],
         accepted'[m] = accepted[m], Len(conn'[m]) = Len(conn[m]),
         \A f \in Connections(m) : HasInput(conn'[m][f]) => HasInput(conn[m][f]),
         \/ ready'[m] = ready[m] /\ (raw'[m] # <<>> => raw[m] # <<>>)
         \/ ready'[m] = Wake(ready[m], armed[m], socket_raw)
  PROVE  Watches(m)'
<1>1. OnlyRawNew(m)
  BY WakeRaw
<1>2. \A f : f \in Readable(m)' => f \in Readable(m) \/ f = socket_raw
  BY DEF Readable, Connections, HasInput
<1>3. socket_raw \in Readable(m)' => socket_raw \in ToSet(ready'[m])
  <2>1. CASE ready'[m] = ready[m] /\ (raw'[m] # <<>> => raw[m] # <<>>)
    <3>1. socket_raw \in Readable(m)' => socket_raw \in Readable(m)
      BY <2>1 DEF Readable, Connections, HasInput, socket_raw, socket_unix
    <3> QED BY <2>1, <3>1 DEF Watches
  <2>2. CASE ready'[m] = Wake(ready[m], armed[m], socket_raw)
    <3>1. ready[m] \in Seq(armed[m]) /\ socket_raw \in armed[m]
      BY HostType DEF Watches
    <3> QED BY <2>2, <3>1, WakeEffect
  <2> QED BY <2>1, <2>2
<1> QED BY <1>1, <1>2, <1>3 DEF Watches, OnlyRawNew

\* What is at a host stays as it is when others act, who may send it a frame.
LEMMA KeptLocal ==
  ASSUME TypeOK, NEW m \in Node, Local(m),
         conn'[m] = conn[m], accepted'[m] = accepted[m], armed'[m] = armed[m],
         event'[m] = event[m], host' = host,
         \A k \in Ping : host[k] = m => client'[k] = client[k],
         m \in ServerHosts => server'[m] = server[m],
         \/ ready'[m] = ready[m] /\ raw'[m] = raw[m]
         \/ /\ ready'[m] = Wake(ready[m], armed[m], socket_raw)
            /\ m \in ServerHosts => server[m] # "off"
  PROVE  Local(m)'
<1>1. Apps(m)'
  BY DEF Local, Apps, ClientConn, ServerConn
<1>2. Turns(m)'
  BY DEF Local, Turns, Connections
<1>3. OnlyRawNew(m)
  BY WakeRaw
<1>4. Watches(m)'
  <2>1. /\ Watches(m) /\ Len(conn'[m]) = Len(conn[m])
        /\ \A f \in Connections(m) : HasInput(conn'[m][f]) => HasInput(conn[m][f])
    BY DEF Local
  <2> QED BY <2>1, WatchesKept
<1>5. m \in ServerHosts => ServerTurns(m)'
  <2> SUFFICES ASSUME m \in ServerHosts PROVE ServerTurns(m)'
    OBVIOUS
  <2>1. ServerTurns(m)
    BY DEF Local
  <2>2. socket_unix \in ToSet(ready'[m]) => socket_unix \in ToSet(ready[m])
    BY <1>3 DEF socket_raw, socket_unix, OnlyRawNew
  <2> QED BY <1>3, <2>1, <2>2 DEF ServerTurns, OnlyRawNew
<1> QED BY <1>1, <1>2, <1>4, <1>5 DEF Local

\* As KeptLocal, of the hosts that may have heard a frame.
LEMMA HeardLocal ==
  ASSUME TypeOK, Alone, NEW n \in Node, NEW rest, NEW B, NEW frame, Heard(n, rest, B, frame),
         NEW m \in Node, m # n,
         conn'[m] = conn[m], accepted'[m] = accepted[m], armed'[m] = armed[m],
         event'[m] = event[m], host' = host, client' = client, server' = server,
         \A s \in ServerHosts : server[s] # "off"
  PROVE  Local(m)'
<1>1. Local(m)
  BY DEF Alone
<1>2. \/ ready'[m] = ready[m] /\ raw'[m] = raw[m]
      \/ ready'[m] = Wake(ready[m], armed[m], socket_raw)
  BY DEF Heard
<1>3. \A k \in Ping : host[k] = m => client'[k] = client[k]
  OBVIOUS
<1>4. m \in ServerHosts => server'[m] = server[m] /\ server[m] # "off"
  OBVIOUS
<1> QED BY <1>1, <1>2, <1>3, <1>4, KeptLocal

\* All servers have started once there is a message.
LEMMA AllStarted ==
  ASSUME TypeOK, Promises, Alone, NEW n \in Node,
         \/ raw[n] # <<>>
         \/ event[n] = socket_raw
         \/ event[n] \in Connections(n)
         \/ \E f \in DOMAIN conn[n] : conn[n][f].in # <<>> \/ conn[n][f].out # <<>>
  PROVE  \A s \in ServerHosts : server[s] # "off"
<1>1. event[n] = socket_raw => raw[n] # <<>>
  BY DEF Promises
<1>2. event[n] \in Connections(n) => conn[n][event[n]].in # <<>> /\ event[n] \in DOMAIN conn[n]
  BY HostType DEF Alone, Local, Turns
<1> QED BY <1>1, <1>2 DEF Alone, Quiet

\* A descriptor of a connection is none of the others.
LEMMA Descriptors ==
  ASSUME TypeOK, NEW n \in Node
  PROVE  /\ socket_raw \notin Connections(n) /\ socket_unix \notin Connections(n)
         /\ NoEvent \notin Connections(n)
         /\ socket_raw # socket_unix /\ NoEvent # socket_raw /\ NoEvent # socket_unix
BY DEF Connections, socket_raw, socket_unix, NoEvent

LEMMA EpollAlone ==
  ASSUME TypeOK, Promises, Alone, NEW n \in Node, epoll_wait(n), UNCHANGED appVars
  PROVE  Alone'
<1> DEFINE r == Reported(ready[n], Readable(n))
           e == IF r = <<>> THEN NoEvent ELSE Head(r)
           W == WatchedAfter(armed[n], r, Connections(n))
           q == ReadyAfter(r, Connections(n))
           g == accepted[n]
<1>1. /\ event[n] = NoEvent /\ ready[n] # <<>>
      /\ event' = [event EXCEPT ![n] = e]
      /\ ready' = [ready EXCEPT ![n] = q]
      /\ armed' = [armed EXCEPT ![n] = W]
      /\ UNCHANGED <<conn, accepted, raw, host, client, server>>
  BY DEF epoll_wait, appVars
<1>2. /\ r \in Seq(armed[n])
      /\ \A x \in Readable(n) : x \in ToSet(ready[n]) => x \in ToSet(r)
      /\ ToSet(r) \subseteq Readable(n)
      /\ r # <<>> => /\ Head(r) \in armed[n] \cap Readable(n) /\ Head(r) \in ToSet(r)
                     /\ \E i \in DOMAIN ready[n] :
                          /\ ready[n][i] = Head(r)
                          /\ \A j \in 1 .. i - 1 : ready[n][j] \notin Readable(n)
  <2>1. r \in Seq(armed[n] \cap Readable(n))
    BY ReportedEffect
  <2>2. ToSet(r) \subseteq Readable(n)
    <3> HIDE DEF r
    <3> QED BY <2>1 DEF ToSet
  <2> QED BY <2>2, ReportedEffect
<1> HIDE DEF r
<1>3. /\ W = armed[n] \ (ToSet(r) \cap Connections(n))
      /\ \A x \in ToSet(r) : x \notin Connections(n) => x \in ToSet(q)
      /\ \A x \in ToSet(q) : x \in ToSet(r)
  BY <1>2, ReadyAfterEffect DEF WatchedAfter
<1> HIDE DEF q, W
<1>4. event'[n] = e /\ ready'[n] = q /\ armed'[n] = W
  BY <1>1 DEF TypeOK
<1>5. Apps(n) /\ Turns(n) /\ Watches(n) /\ (n \in ServerHosts => ServerTurns(n))
  BY DEF Alone, Local
<1>6. Readable(n)' = Readable(n)
  BY <1>1 DEF Readable, Connections
<1>7. Watches(n)'
  <2>1. \A f \in W : f \in Readable(n) => f \in ToSet(q)
    BY <1>2, <1>3, <1>5 DEF Watches
  <2>2. socket_raw \in W /\ socket_unix \in W
    BY <1>3, <1>5, Descriptors DEF Watches
  <2> QED BY <1>4, <1>6, <2>1, <2>2 DEF Watches
<1>8. Apps(n)'
  BY <1>1, <1>3, <1>4, <1>5 DEF Apps, ClientConn, ServerConn
<1>9. \A f \in armed[n] \cap Connections(n) :
         f = g /\ (g < Len(conn[n]) => conn[n][g].in # <<>>)
  <2> SUFFICES ASSUME NEW f \in armed[n] \cap Connections(n)
      PROVE f = g /\ (g < Len(conn[n]) => conn[n][g].in # <<>>)
    OBVIOUS
  <2>1. f = g /\ f \in DOMAIN conn[n] /\ f > 0
    BY <1>5, HostType DEF Turns
  <2>2. CASE n \in ServerHosts
    BY <1>5, <2>1, <2>2 DEF ServerTurns
  <2>3. CASE n \notin ServerHosts
    BY <1>5, <2>1, <2>3 DEF Apps, ClientConn
  <2> QED BY <2>1, <2>2, <2>3
<1>10. \A f \in Connections(n) : conn[n][f].in # <<>> => f \in Readable(n)
  BY DEF Readable, HasInput
<1>11. e = socket_unix => g < Len(conn[n])
  BY <1>2, Descriptors DEF Readable, socket_raw, socket_unix, NoEvent
<1>12. \A f \in W \cap Connections(n) : f = g /\ e # socket_unix
  BY <1>2, <1>3, <1>5, <1>9, <1>10, <1>11 DEF Watches
<1>13. e \in Connections(n) => e = g /\ e \notin W /\ conn[n][e].in # <<>>
  <2> SUFFICES ASSUME e \in Connections(n) PROVE e = g /\ e \notin W /\ conn[n][e].in # <<>>
    OBVIOUS
  <2>1. e \in armed[n] /\ e \in Readable(n) /\ e \in ToSet(r)
    BY <1>2, Descriptors
  <2>2. e = g /\ e \notin W
    BY <1>3, <1>9, <2>1
  <2>3. e \in DOMAIN conn[n]
    BY HostType
  <2>4. HasInput(conn[n][e])
    BY <2>1, Descriptors DEF Readable
  <2>5. conn[n][e].in # <<>> \/ ~ conn[n][e].open
    BY <2>4 DEF HasInput
  <2> HIDE DEF e
  <2>6. CASE n \in ServerHosts
    <3>1. ServerConn(n, e)
      BY <1>5, <2>3, <2>6 DEF Apps
    <3> QED BY <2>2, <2>5, <3>1 DEF ServerConn
  <2>7. CASE n \notin ServerHosts
    <3>1. ClientConn(n, e)
      BY <1>5, <2>3, <2>7 DEF Apps
    <3>2. conn[n][e].in # <<>>
      BY <2>1, <2>5, <3>1 DEF ClientConn
    <3> QED BY <2>2, <3>2
  <2> QED BY <2>6, <2>7
<1>14. Turns(n)'
  BY <1>1, <1>4, <1>5, <1>12, <1>13 DEF Turns, Connections
<1>15. n \in ServerHosts => ServerTurns(n)'
  <2> SUFFICES ASSUME n \in ServerHosts PROVE ServerTurns(n)'
    OBVIOUS
  <2>1. ServerTurns(n)
    BY <1>5
  <2>2. g = Len(conn[n]) => socket_unix \notin ToSet(q)
    BY <1>2, <1>3, HostType, Descriptors DEF Readable
  <2>3. g = 0 /\ conn[n] # <<>> => e = socket_unix
    <3> SUFFICES ASSUME g = 0, conn[n] # <<>> PROVE e = socket_unix
      OBVIOUS
    <3>1. ready[n][1] = socket_unix
      BY <1>1, <2>1, Descriptors DEF ServerTurns
    <3>2. socket_unix \in Readable(n)
      <4>1. 0 < Len(conn[n])
        BY HostType
      <4> QED BY <4>1 DEF Readable
    <3>3. DOMAIN ready[n] = 1 .. Len(ready[n]) /\ Len(ready[n]) \in Nat /\ 1 \in DOMAIN ready[n]
      BY <1>1, HostType
    <3>4. socket_unix \in ToSet(r)
      BY <1>2, <3>1, <3>2, <3>3 DEF ToSet
    <3>5. r # <<>>
      BY <3>4 DEF ToSet
    <3>6. PICK i \in DOMAIN ready[n] : /\ ready[n][i] = Head(r)
                                       /\ \A j \in 1 .. i - 1 : ready[n][j] \notin Readable(n)
      BY <1>2, <3>5
    <3>7. i = 1
      <4>1. i \in Nat /\ i >= 1
        BY <3>3
      <4>2. 1 \notin 1 .. i - 1
        BY <3>1, <3>2, <3>6
      <4> QED BY <4>1, <4>2
    <3> QED BY <3>1, <3>5, <3>6, <3>7
  <2>4. server[n] # "off"
    BY <1>1, <2>1 DEF ServerTurns
  <2> QED BY <1>1, <1>3, <1>4, <2>1, <2>2, <2>3, <2>4 DEF ServerTurns
<1>16. ASSUME NEW m \in Node PROVE Local(m)'
  <2>1. CASE m = n
    BY <1>7, <1>8, <1>14, <1>15, <2>1 DEF Local
  <2>2. CASE m # n
    <3>1. event'[m] = event[m] /\ ready'[m] = ready[m] /\ armed'[m] = armed[m]
      BY <1>1, <2>2 DEF TypeOK
    <3> QED BY <1>1, <3>1, KeptLocal DEF Alone
  <2> QED BY <2>1, <2>2
<1>17. Started' /\ Quiet'
  BY <1>1 DEF Alone, Started, Quiet
<1> QED BY <1>16, <1>17 DEF Alone

LEMMA ArpAlone ==
  ASSUME TypeOK, Promises, Alone, NEW n \in Node, handle_mip_arp(n), UNCHANGED appVars
  PROVE  Alone'
<1> DEFINE frame == Head(raw[n])
           rest == Tail(raw[n])
           wanted == frame.type = "RESPONSE" /\ frame.src = sdu[n].mip_addr
           reply == IF frame.type = "REQUEST" THEN Arp("RESPONSE", n) ELSE PingFrame(n, sdu[n])
           to == IF frame.type = "REQUEST" \/ wanted THEN {frame.src} ELSE {}
<1>1. /\ event[n] = socket_raw /\ event' = [event EXCEPT ![n] = NoEvent]
      /\ Transmit(n, rest, to, reply)
      /\ UNCHANGED <<conn, accepted, armed, host, client, server>>
  BY DEF handle_mip_arp, Handling, appVars
<1>2. /\ raw[n] # <<>> /\ frame \in Frame /\ rest \in Seq(Frame) /\ frame.src \in Node
  BY <1>1, ReadFrame
<1>3. reply \in Frame /\ to \subseteq Node
  BY <1>2, FrameTypes DEF TypeOK
<1> HIDE DEF frame, rest, reply, to
<1>4. PICK B \in SUBSET to : Heard(n, rest, B, reply)
  BY <1>1, <1>2, <1>3, TransmitEffect
<1>5. \A s \in ServerHosts : server[s] # "off"
  BY <1>1, AllStarted
<1>6. Apps(n) /\ Turns(n) /\ Watches(n) /\ (n \in ServerHosts => ServerTurns(n))
  BY DEF Alone, Local
<1>7. event'[n] = NoEvent /\ \A m \in Node : m # n => event'[m] = event[m]
  BY <1>1 DEF TypeOK
<1>8. Local(n)'
  <2>1. Apps(n)'
    BY <1>1, <1>6 DEF Apps, ClientConn, ServerConn
  <2>2. Turns(n)'
    BY <1>1, <1>6, <1>7, Descriptors DEF Turns, Connections
  <2>3. ready'[n] = ready[n] \/ ready'[n] = Wake(ready[n], armed[n], socket_raw)
    BY <1>4 DEF Heard
  <2>4. Watches(n)'
    BY <1>1, <1>2, <1>6, <2>3, WatchesKept
  <2>5. n \in ServerHosts => ServerTurns(n)'
    <3> SUFFICES ASSUME n \in ServerHosts PROVE ServerTurns(n)'
      OBVIOUS
    <3>1. OnlyRawNew(n)
      BY <2>3, WakeRaw
    <3>2. socket_unix \in ToSet(ready'[n]) => socket_unix \in ToSet(ready[n])
      BY <3>1 DEF socket_raw, socket_unix, OnlyRawNew
    <3> QED BY <1>1, <1>5, <1>6, <1>7, <3>2, Descriptors DEF ServerTurns
  <2> QED BY <2>1, <2>2, <2>4, <2>5 DEF Local
<1>9. \A m \in Node : m # n => Local(m)'
  BY <1>1, <1>4, <1>5, <1>7, HeardLocal
<1>10. Started' /\ Quiet'
  BY <1>1, <1>5 DEF Alone, Started, Quiet
<1> QED BY <1>8, <1>9, <1>10 DEF Alone

LEMMA PingAlone ==
  ASSUME TypeOK, Promises, Alone, NEW n \in Node, handle_mip_ping(n), UNCHANGED appVars
  PROVE  Alone'
<1> DEFINE message == [Head(raw[n]).sdu EXCEPT !.mip_addr = Head(raw[n]).src]
           f == socket_data[n]
           c == [conn[n][f] EXCEPT !.out = Append(@, message), !.used = TRUE]
<1>1. /\ event[n] = socket_raw /\ event' = [event EXCEPT ![n] = NoEvent]
      /\ raw' = [raw EXCEPT ![n] = Tail(@)]
      /\ \/ /\ f # -1
            /\ conn' = [conn EXCEPT ![n][f].out = Append(@, message), ![n][f].used = TRUE]
         \/ UNCHANGED conn
      /\ UNCHANGED <<accepted, armed, ready, host, client, server>>
  BY DEF handle_mip_ping, Handling, appVars
<1>2. /\ raw[n] # <<>> /\ raw'[n] = Tail(raw[n]) /\ event'[n] = NoEvent
      /\ \A m \in Node : m # n => event'[m] = event[m] /\ raw'[m] = raw[m]
  BY <1>1, ReadFrame DEF TypeOK
<1>3. \A s \in ServerHosts : server[s] # "off"
  BY <1>1, AllStarted
<1>4. Apps(n) /\ Turns(n) /\ Watches(n) /\ (n \in ServerHosts => ServerTurns(n))
  BY DEF Alone, Local
<1>5. /\ Len(conn'[n]) = Len(conn[n]) /\ DOMAIN conn'[n] = DOMAIN conn[n]
      /\ \A m \in Node : m # n => conn'[m] = conn[m]
      /\ \A g \in DOMAIN conn[n] :
           /\ conn'[n][g].app = conn[n][g].app /\ conn'[n][g].open = conn[n][g].open
           /\ conn'[n][g].in = conn[n][g].in
           /\ \/ conn'[n][g].out = conn[n][g].out /\ conn'[n][g].used = conn[n][g].used
              \/ g = accepted[n] /\ conn'[n][g].used
  <2>1. CASE conn' = conn
    BY <2>1
  <2>2. CASE /\ f # -1
             /\ conn' = [conn EXCEPT ![n][f].out = Append(@, message), ![n][f].used = TRUE]
    <3>5. conn' = [conn EXCEPT ![n][f] = c]
      BY <2>2
    <3>1. f = accepted[n] /\ f \in DOMAIN conn[n] /\ conn[n][f] \in Connection
      BY <2>2, SocketType
    <3>2. message \in Sdu
      <4>1. Head(raw[n]).src \in Node /\ Head(raw[n]).sdu \in Sdu
        BY <1>1, ReadFrame
      <4> QED BY <4>1 DEF Sdu
    <3> HIDE DEF message, f
    <3>3. Append(conn[n][f].out, message) \in Seq(Sdu)
      BY <3>1, <3>2 DEF Connection
    <3>4. /\ c \in Connection /\ c.app = conn[n][f].app /\ c.open = conn[n][f].open
          /\ c.in = conn[n][f].in /\ c.used
      BY <3>1, <3>3 DEF Connection
    <3> HIDE DEF c
    <3> QED BY <3>1, <3>4, <3>5, ConnSet
  <2> QED BY <1>1, <2>1, <2>2
<1>6. Local(n)'
  <2>1. Apps(n)'
    BY <1>1, <1>4, <1>5 DEF Apps, ClientConn, ServerConn
  <2>2. Turns(n)'
    <3>1. event'[n] \notin Connections(n)' /\ event'[n] # socket_unix
      BY <1>1, <1>2, Descriptors DEF Connections
    <3>2. ASSUME NEW g \in DOMAIN conn[n]
          PROVE  /\ g > accepted[n] => conn'[n][g].out = <<>> /\ ~ conn'[n][g].used
                 /\ conn'[n][g].out # <<>> => conn'[n][g].used
      <4>1. /\ g > accepted[n] => g # accepted[n] /\ conn[n][g].out = <<>> /\ ~ conn[n][g].used
            /\ conn[n][g].out # <<>> => conn[n][g].used
        BY <1>4, HostType DEF Turns
      <4> QED BY <1>5, <4>1
    <3> QED BY <1>1, <1>4, <1>5, <3>1, <3>2 DEF Turns, Connections
  <2>3. Watches(n)'
    <3>1. \A g \in Connections(n) : HasInput(conn'[n][g]) => HasInput(conn[n][g])
      BY <1>5, HostType DEF HasInput
    <3> QED BY <1>1, <1>2, <1>4, <1>5, <3>1, WatchesKept
  <2>4. n \in ServerHosts => ServerTurns(n)'
    <3> SUFFICES ASSUME n \in ServerHosts PROVE ServerTurns(n)'
      OBVIOUS
    <3>1. accepted[n] > 0 => accepted[n] \in DOMAIN conn[n]
      BY HostType
    <3>2. conn'[n] # <<>>
      <4>1. conn[n] # <<>>
        BY <1>3, <1>4 DEF ServerTurns
      <4> QED BY <1>5, <4>1, HostType
    <3> QED BY <1>1, <1>2, <1>3, <1>4, <1>5, <3>1, <3>2, Descriptors DEF ServerTurns
  <2> QED BY <2>1, <2>2, <2>3, <2>4 DEF Local
<1>7. ASSUME NEW m \in Node, m # n PROVE Local(m)'
  BY <1>1, <1>2, <1>5, <1>7, KeptLocal DEF Alone
<1>8. Started' /\ Quiet'
  BY <1>1, <1>3 DEF Alone, Started, Quiet
<1> QED BY <1>6, <1>7, <1>8 DEF Alone

LEMMA NewUnixAlone ==
  ASSUME TypeOK, Promises, Alone, NEW n \in Node, new_unix_connection(n), UNCHANGED appVars
  PROVE  Alone'
<1> DEFINE f == accepted[n] + 1
           W == armed[n] \cup {f}
           q == Added(ready[n], f, HasInput(conn[n][f]))
<1>1. /\ event[n] = socket_unix /\ event' = [event EXCEPT ![n] = NoEvent]
      /\ accepted' = [accepted EXCEPT ![n] = f]
      /\ armed' = [armed EXCEPT ![n] = W]
      /\ ready' = [ready EXCEPT ![n] = q]
      /\ UNCHANGED <<conn, raw, host, client, server>>
  BY DEF new_unix_connection, Handling, appVars
<1>2. event'[n] = NoEvent /\ accepted'[n] = f /\ armed'[n] = W /\ ready'[n] = q
  BY <1>1 DEF TypeOK
<1>3. Apps(n) /\ Turns(n) /\ Watches(n) /\ (n \in ServerHosts => ServerTurns(n))
  BY DEF Alone, Local
<1>4. accepted[n] \in Nat /\ f \in Nat /\ f > accepted[n] /\ f > 0 /\ accepted[n] < Len(conn[n])
      /\ f \in DOMAIN conn[n] /\ f <= Len(conn[n]) /\ Len(conn[n]) \in Nat
  BY <1>1, HostType DEF Promises
<1>5. Connections(n)' = Connections(n) \cup {f} /\ Connections(n) = 1 .. accepted[n]
  BY <1>2, <1>4 DEF Connections
<1>6. /\ \A x \in ToSet(ready[n]) : x \in ToSet(q)
      /\ HasInput(conn[n][f]) => f \in ToSet(q)
  <2>1. ready[n] \in Seq(armed[n])
    BY HostType
  <2> DEFINE s == ready[n]
             V == armed[n]
             b == HasInput(conn[n][f])
  <2>2. s \in Seq(V) /\ q = Added(s, f, b)
    BY <2>1
  <2> HIDE DEF s, V, b, f, q
  <2>3. \A x \in ToSet(s) : x \in ToSet(Added(s, f, b))
    BY <2>2, AddedEffect
  <2>4. b => f \in ToSet(Added(s, f, b))
    BY <2>2, AddedEffect
  <2> QED BY <2>2, <2>3, <2>4 DEF s, b
<1> HIDE DEF q, f
<1>8. Apps(n)'
  <2>1. CASE n \in ServerHosts
    BY <1>1, <1>3, <2>1 DEF Apps, ServerConn
  <2>2. CASE n \notin ServerHosts
    <3> SUFFICES ASSUME NEW g \in DOMAIN conn[n] PROVE ClientConn(n, g)'
      BY <1>1, <2>2 DEF Apps
    <3>1. ClientConn(n, g) /\ g \in Nat
      BY <1>3, <2>2, HostType DEF Apps
    <3>2. g <= accepted[n] => g <= f
      BY <1>4, <3>1
    <3>3. g = f => client[conn[n][g].app] = "connected" \/ conn[n][g].in # <<>>
      BY <1>4, <3>1 DEF ClientConn
    <3>4. g \in W => g \in armed[n] \/ g = f
      OBVIOUS
    <3> HIDE DEF W
    <3> QED BY <1>1, <1>2, <3>1, <3>2, <3>3, <3>4 DEF ClientConn
  <2> QED BY <2>1, <2>2
<1>9. Turns(n)'
  <2>1. \A g \in W \cap Connections(n)' : g = f
    BY <1>1, <1>3, <1>5 DEF Turns
  <2>2. Len(conn[n]) <= f + 1
    BY <1>3, <1>4 DEF Turns, f
  <2>3. \A g \in DOMAIN conn[n] : g > f => g > accepted[n]
    BY <1>4, HostType
  <2>4. NoEvent \notin Connections(n)' /\ NoEvent # socket_unix
    BY <1>4, <1>5, Descriptors DEF NoEvent
  <2> QED BY <1>1, <1>2, <1>3, <2>1, <2>2, <2>3, <2>4 DEF Turns
<1>10. Watches(n)'
  <2>1. ASSUME NEW x \in W, x \in Readable(n)' PROVE x \in ToSet(q)
    <3>1. CASE x = f
      <4>1. HasInput(conn[n][f])
        <5>1. f \notin {socket_raw, socket_unix}
          BY <1>4 DEF socket_raw, socket_unix
        <5> QED BY <1>1, <2>1, <3>1, <5>1 DEF Readable
      <4> QED BY <1>6, <3>1, <4>1
    <3>2. CASE x # f
      <4>1. x \in Readable(n)
        BY <1>1, <1>2, <1>4, <1>5, <2>1, <3>2 DEF Readable
      <4> QED BY <1>3, <1>6, <2>1, <3>2, <4>1 DEF Watches
    <3> QED BY <3>1, <3>2
  <2> QED BY <1>2, <1>3, <2>1 DEF Watches
<1>11. n \in ServerHosts => ServerTurns(n)'
  <2> SUFFICES ASSUME n \in ServerHosts PROVE ServerTurns(n)'
    OBVIOUS
  <2>1. f = Len(conn[n]) /\ ~ conn[n][f].used
    <3>1. Len(conn[n]) <= f
      BY <1>3, <1>4 DEF Turns, f
    <3> QED BY <1>3, <1>4, <3>1 DEF Turns
  <2>2. server[n] # "answered" /\ server[n] # "off" /\ conn[n] # <<>>
    <3>1. conn[n] # <<>>
      BY <1>4
    <3> QED BY <1>3, <1>4, <3>1 DEF ServerTurns
  <2>3. event'[n] # socket_raw /\ ~ (f < Len(conn[n])) /\ f # 0
    BY <1>2, <1>4, <2>1, Descriptors
  <2> QED BY <1>1, <1>2, <1>3, <2>1, <2>2, <2>3 DEF ServerTurns
<1>12. ASSUME NEW m \in Node, m # n PROVE Local(m)'
  <2>1. event'[m] = event[m] /\ ready'[m] = ready[m] /\ armed'[m] = armed[m]
        /\ accepted'[m] = accepted[m]
    BY <1>1, <1>12 DEF TypeOK
  <2> QED BY <1>1, <2>1, KeptLocal DEF Alone
<1>13. Started' /\ Quiet'
  BY <1>1 DEF Alone, Started, Quiet
<1> QED BY <1>8, <1>9, <1>10, <1>11, <1>12, <1>13 DEF Alone, Local

LEMMA UnixAlone ==
  ASSUME TypeOK, Promises, Alone, NEW n \in Node, handle_unix_connection(n), UNCHANGED appVars
  PROVE  Alone'
<1> DEFINE f == socket_data[n]
           c == conn[n][f]
           d == [c EXCEPT !.in = Tail(@)]
           s == Head(c.in)
<1>1. /\ event[n] \in Connections(n) /\ event' = [event EXCEPT ![n] = NoEvent]
      /\ UNCHANGED <<accepted, armed, host, client, server>>
  BY DEF handle_unix_connection, Handling, appVars
<1>2. f = accepted[n] /\ f \in DOMAIN conn[n] /\ c \in Connection /\ f > 0
  BY <1>1, SocketType
<1>3. Apps(n) /\ Turns(n) /\ Watches(n) /\ (n \in ServerHosts => ServerTurns(n))
  BY DEF Alone, Local
<1>4. event[n] = f /\ f \notin armed[n] /\ c.in # <<>>
  BY <1>1, <1>2, <1>3 DEF Turns
<1>5. \A t \in ServerHosts : server[t] # "off"
  BY <1>1, AllStarted
<1>6. event'[n] = NoEvent /\ \A m \in Node : m # n => event'[m] = event[m]
  BY <1>1 DEF TypeOK
<1>7. /\ Len(conn'[n]) = Len(conn[n]) /\ DOMAIN conn'[n] = DOMAIN conn[n]
      /\ \A m \in Node : m # n => conn'[m] = conn[m]
      /\ \A g \in DOMAIN conn[n] :
           /\ conn'[n][g].app = conn[n][g].app /\ conn'[n][g].open = conn[n][g].open
           /\ conn'[n][g].out = conn[n][g].out /\ conn'[n][g].used = conn[n][g].used
           /\ conn'[n][g].in = conn[n][g].in \/ g = f
  <2>1. CASE conn' = conn
    BY <2>1
  <2>2. CASE conn' = [conn EXCEPT ![n][f].in = Tail(@)]
    <3>1. conn' = [conn EXCEPT ![n][f] = d]
      BY <2>2
    <3>2. Tail(c.in) \in Seq(Sdu)
      BY <1>2, <1>4 DEF Connection
    <3> HIDE DEF f, c
    <3>3. /\ d \in Connection /\ d.app = c.app /\ d.open = c.open
          /\ d.out = c.out /\ d.used = c.used
      BY <1>2, <3>2 DEF Connection
    <3> HIDE DEF d
    <3> QED BY <1>2, <3>1, <3>3, ConnSet DEF c
  <2> QED BY <2>1, <2>2 DEF handle_unix_connection
<1>8. \/ raw' = raw /\ ready' = ready
      \/ \E B : \E frame : Heard(n, raw[n], B, frame)
  <2>1. ~ AtEnd(c)
    BY <1>4 DEF AtEnd
  <2>2. s \in Sdu
    BY <1>2, <1>4 DEF Connection
  <2>3. CASE SendSdu(n, s)
    <3> HIDE DEF s
    <3> QED BY <2>2, <2>3, SendEffect
  <2> QED BY <2>1, <2>3 DEF handle_unix_connection
<1> HIDE DEF f, c, s
<1>9. \/ ready'[n] = ready[n] /\ raw'[n] = raw[n]
      \/ ready'[n] = Wake(ready[n], armed[n], socket_raw)
  BY <1>8 DEF Heard
<1>10. Apps(n)'
  <2>1. CASE n \in ServerHosts
    BY <1>3, <1>7, <2>1 DEF Apps, ServerConn
  <2>2. CASE n \notin ServerHosts
    <3> SUFFICES ASSUME NEW g \in DOMAIN conn[n] PROVE ClientConn(n, g)'
      BY <1>7, <2>2 DEF Apps
    <3>1. ClientConn(n, g)
      BY <1>3, <2>2 DEF Apps
    <3>2. CASE g # f
      BY <1>1, <1>7, <3>1, <3>2 DEF ClientConn
    <3>3. CASE g = f
      <4>1. client[conn[n][g].app] # "connected" /\ f <= accepted[n]
        BY <1>2, <1>4, <3>1, <3>3, HostType DEF ClientConn, c
      <4> QED BY <1>1, <1>4, <1>7, <3>1, <3>3, <4>1 DEF ClientConn
    <3> QED BY <3>2, <3>3
  <2> QED BY <2>1, <2>2
<1>11. Turns(n)'
  <2>1. event'[n] \notin Connections(n)' /\ event'[n] # socket_unix
    BY <1>1, <1>6, Descriptors DEF Connections
  <2> QED BY <1>1, <1>3, <1>7, <2>1 DEF Turns, Connections
<1>12. Watches(n)'
  <2>1. \A g \in Connections(n) : HasInput(conn'[n][g]) => HasInput(conn[n][g])
    BY <1>4, <1>7, HostType DEF HasInput, c
  <2> QED BY <1>1, <1>3, <1>7, <1>9, <2>1, WatchesKept
<1>13. n \in ServerHosts => ServerTurns(n)'
  <2> SUFFICES ASSUME n \in ServerHosts PROVE ServerTurns(n)'
    OBVIOUS
  <2>1. OnlyRawNew(n)
    BY <1>9, WakeRaw
  <2>2. socket_unix \in ToSet(ready'[n]) => socket_unix \in ToSet(ready[n])
    BY <2>1 DEF socket_raw, socket_unix, OnlyRawNew
  <2>3. conn[n] # <<>> /\ conn'[n] # <<>>
    <3>1. conn[n] # <<>>
      BY <1>3, <1>5 DEF ServerTurns
    <3> QED BY <1>7, <3>1, HostType
  <2>4. accepted'[n] = f /\ f \notin armed'[n] /\ f # 0
    BY <1>1, <1>2, <1>4
  <2> QED BY <1>1, <1>2, <1>3, <1>5, <1>6, <1>7, <2>2, <2>3, <2>4, Descriptors DEF ServerTurns
<1>14. ASSUME NEW m \in Node, m # n PROVE Local(m)'
  <2>1. CASE raw' = raw /\ ready' = ready
    BY <1>1, <1>6, <1>7, <1>14, <2>1, KeptLocal DEF Alone
  <2>2. CASE \E B : \E frame : Heard(n, raw[n], B, frame)
    BY <1>1, <1>5, <1>6, <1>7, <1>14, <2>2, HeardLocal
  <2> QED BY <1>8, <2>1, <2>2
<1>15. Started' /\ Quiet'
  BY <1>1, <1>5 DEF Alone, Started, Quiet
<1> QED BY <1>10, <1>11, <1>12, <1>13, <1>14, <1>15 DEF Alone, Local

\* A process connects at a host where all connections have been accepted.
LEMMA ConnectLocal ==
  ASSUME TypeOK, Alone, NEW n \in Node, NEW app \in Ping \cup {"server"}, Connect(n, app),
         Len(conn[n]) = accepted[n]
  PROVE  /\ Turns(n)' /\ Watches(n)'
         /\ accepted'[n] = accepted[n] /\ armed'[n] = armed[n] /\ event'[n] = event[n]
         /\ accepted[n] \in Nat /\ \A f \in armed[n] : f <= accepted[n]
         /\ DOMAIN conn'[n] = DOMAIN conn[n] \cup {accepted[n] + 1}
         /\ Len(conn'[n]) = accepted[n] + 1 /\ DOMAIN conn[n] = 1 .. accepted[n]
         /\ conn'[n][accepted[n] + 1] = Opened(app)
         /\ \A g \in DOMAIN conn[n] : conn'[n][g] = conn[n][g]
         /\ ready'[n] = Wake(ready[n], armed[n], socket_unix)
         /\ \A m \in Node : m # n => conn'[m] = conn[m] /\ ready'[m] = ready[m]
         /\ UNCHANGED <<accepted, armed, event, raw, host>>
<1> DEFINE g == accepted[n]
<1>1. /\ conn' = [conn EXCEPT ![n] = Append(@, Opened(app))]
      /\ ready' = Woken(n, socket_unix)
      /\ UNCHANGED <<accepted, armed, event, raw, host>>
  BY DEF Connect
<1>2. /\ conn'[n] \in Seq(Connection)
      /\ Len(conn'[n]) = g + 1
      /\ conn'[n][g + 1] = Opened(app)
      /\ \A m \in Node : m # n => conn'[m] = conn[m]
      /\ \A f \in DOMAIN conn[n] : conn'[n][f] = conn[n][f]
  BY <1>1, ConnNew
<1>3. g \in Nat /\ DOMAIN conn[n] = 1 .. g /\ DOMAIN conn'[n] = 1 .. g + 1
  BY <1>2, HostType
<1>4. DOMAIN conn'[n] = DOMAIN conn[n] \cup {g + 1}
  BY <1>3
<1>5. ready'[n] = Wake(ready[n], armed[n], socket_unix)
      /\ \A m \in Node : m # n => ready'[m] = ready[m]
  BY <1>1, WokenEffect
<1>6. \A f \in armed[n] : f <= g
  <2>1. armed[n] \subseteq 1 .. g \cup {socket_raw, socket_unix}
    BY DEF TypeOK, Connections
  <2> QED BY <1>3, <2>1 DEF socket_raw, socket_unix
<1>7. Turns(n) /\ Watches(n)
  BY DEF Alone, Local
<1>8. Turns(n)'
  <2>1. event[n] \in Connections(n) => event[n] \in DOMAIN conn[n]
    BY HostType
  <2>2. \A f \in DOMAIN conn'[n] :
           /\ f > g => conn'[n][f].out = <<>> /\ ~ conn'[n][f].used
           /\ conn'[n][f].out # <<>> => conn'[n][f].used
    BY <1>2, <1>3, <1>4, <1>7 DEF Turns, Opened
  <2>3. Len(conn'[n]) <= accepted'[n] + 1
    BY <1>1, <1>2, <1>3
  <2> QED BY <1>1, <1>2, <1>7, <2>1, <2>2, <2>3 DEF Turns, Connections
<1>9. Watches(n)'
  <2>1. ready[n] \in Seq(armed[n])
    BY HostType
  <2> DEFINE s == ready[n]
             V == armed[n]
             fd == socket_unix
             t == Wake(s, V, fd)
  <2>2. \A x \in ToSet(s) : x \in ToSet(t)
    <3> HIDE DEF s, V, fd
    <3> QED BY <2>1, WakeEffect DEF s, V
  <2>3. fd \in ToSet(t)
    <3>1. fd \in V
      BY <1>7 DEF Watches
    <3> HIDE DEF s, V, fd
    <3> QED BY <2>1, <3>1, WakeEffect DEF s, V
  <2>4. \A f : f \in Readable(n)' => f \in Readable(n) \/ f = socket_unix
    <3>1. \A f \in Connections(n) : conn'[n][f] = conn[n][f]
      BY <1>2, HostType
    <3> QED BY <1>1, <3>1 DEF Readable, Connections
  <2>5. ready'[n] = t
    BY <1>5
  <2> HIDE DEF t
  <2> QED BY <1>1, <1>7, <2>2, <2>3, <2>4, <2>5 DEF Watches
<1> QED BY <1>1, <1>2, <1>3, <1>4, <1>5, <1>6, <1>8, <1>9

\* The process at the other end of connection f has read or written or closed it.
LEMMA UsesLocal ==
  ASSUME TypeOK, Alone, NEW n \in Node, NEW f \in DOMAIN conn[n], NEW d \in Connection,
         Uses(n, f, d), d.app = conn[n][f].app, d.used = conn[n][f].used,
         d.out # <<>> => conn[n][f].out # <<>>,
         event[n] = f => d.in # <<>>
  PROVE  /\ Turns(n)' /\ Watches(n)'
         /\ DOMAIN conn'[n] = DOMAIN conn[n] /\ Len(conn'[n]) = Len(conn[n])
         /\ conn'[n][f] = d
         /\ \A g \in DOMAIN conn[n] : g # f => conn'[n][g] = conn[n][g]
         /\ \A x : x \in ToSet(ready'[n]) => x \in ToSet(ready[n]) \/ x = f
         /\ \A m \in Node : m # n => conn'[m] = conn[m] /\ ready'[m] = ready[m]
         /\ UNCHANGED <<accepted, armed, event, raw, host>>
<1> DEFINE c == conn[n][f]
<1>1. /\ conn' = [conn EXCEPT ![n][f] = d]
      /\ ready' = IF d.open /\ d.in = c.in THEN ready ELSE Woken(n, f)
      /\ UNCHANGED <<accepted, armed, event, raw, host>>
  BY DEF Uses
<1>2. /\ DOMAIN conn'[n] = DOMAIN conn[n] /\ Len(conn'[n]) = Len(conn[n])
      /\ conn'[n][f] = d
      /\ \A m \in Node : m # n => conn'[m] = conn[m]
      /\ \A g \in DOMAIN conn[n] : g # f => conn'[n][g] = conn[n][g]
  BY <1>1, ConnSet
<1>3. Turns(n) /\ Watches(n)
  BY DEF Alone, Local
<1>4. Turns(n)'
  <2>1. event[n] \in Connections(n) => event[n] \in DOMAIN conn[n]
    BY HostType
  <2>2. \A g \in DOMAIN conn[n] :
           /\ g > accepted[n] => conn'[n][g].out = <<>> /\ ~ conn'[n][g].used
           /\ conn'[n][g].out # <<>> => conn'[n][g].used
    BY <1>2, <1>3 DEF Turns
  <2>3. event[n] \in Connections(n) => conn'[n][event[n]].in # <<>>
    BY <1>2, <1>3, <2>1 DEF Turns
  <2> QED BY <1>1, <1>2, <1>3, <2>2, <2>3 DEF Turns, Connections
<1>5. /\ \A x \in ToSet(ready[n]) : x \in ToSet(ready'[n])
      /\ \A x : x \in ToSet(ready'[n]) => x \in ToSet(ready[n]) \/ x = f
      /\ \A m \in Node : m # n => ready'[m] = ready[m]
      /\ f \in armed[n] /\ HasInput(d) => HasInput(c) \/ f \in ToSet(ready'[n])
  <2>1. CASE ready' = ready /\ d.open /\ d.in = c.in
    BY <2>1 DEF HasInput
  <2>2. CASE ready' = Woken(n, f)
    <3>1. /\ ready'[n] = Wake(ready[n], armed[n], f)
          /\ \A m \in Node : m # n => ready'[m] = ready[m]
      BY <2>2, WokenEffect
    <3>2. ready[n] \in Seq(armed[n])
      BY HostType
    <3> DEFINE s == ready[n]
               V == armed[n]
               t == Wake(s, V, f)
    <3>3. /\ \A x : x \in ToSet(t) => x \in ToSet(s) \/ x = f
          /\ \A x \in ToSet(s) : x \in ToSet(t)
          /\ f \in V => f \in ToSet(t)
      <4> HIDE DEF s, V
      <4>1. /\ \A x : x \in ToSet(Wake(s, V, f)) => \/ x \in ToSet(s)
                                                    \/ x = f /\ f \in V
            /\ \A x \in ToSet(s) : x \in ToSet(Wake(s, V, f))
            /\ f \in V => f \in ToSet(Wake(s, V, f))
        BY <3>2, WakeEffect DEF s, V
      <4> QED BY <4>1
    <3>4. ready'[n] = t
      BY <3>1
    <3> HIDE DEF t
    <3> QED BY <3>1, <3>3, <3>4
  <2> QED BY <1>1, <2>1, <2>2
<1>6. Watches(n)'
  <2>1. \A g : g \in Readable(n)' => g \in Readable(n) \/ (g = f /\ HasInput(d) /\ ~ HasInput(c))
    <3>1. \A g \in Connections(n) : HasInput(conn'[n][g]) =>
             HasInput(conn[n][g]) \/ (g = f /\ HasInput(d) /\ ~ HasInput(c))
      BY <1>2, HostType
    <3> HIDE DEF c
    <3> QED BY <1>1, <1>2, <3>1 DEF Readable, Connections
  <2> HIDE DEF c
  <2> QED BY <1>1, <1>3, <1>5, <2>1 DEF Watches
<1> QED BY <1>1, <1>2, <1>4, <1>5, <1>6

LEMMA ServerConnectsAlone ==
  ASSUME TypeOK, Promises, Alone, NEW s \in ServerHosts, ServerConnects(s)
  PROVE  Alone'
<1> DEFINE g == accepted[s]
<1>1. /\ server[s] \in {"off", "answered"} /\ Connect(s, "server")
      /\ server' = [server EXCEPT ![s] = "listening"]
      /\ UNCHANGED client
  BY DEF ServerConnects
<1>2. s \in Node /\ server'[s] = "listening"
      /\ \A t \in ServerHosts : t # s => server'[t] = server[t]
  BY <1>1, PingAssumption DEF TypeOK
<1>3. Apps(s) /\ ServerTurns(s)
  BY <1>2 DEF Alone, Local
<1>4. Len(conn[s]) = g
  <2>1. CASE server[s] = "off"
    <3>1. conn[s] = <<>> /\ Len(conn[s]) = 0
      BY <1>3, <2>1 DEF ServerTurns
    <3> QED BY <1>2, <3>1, HostType
  <2>2. CASE server[s] = "answered"
    BY <1>3, <2>2 DEF ServerTurns
  <2> QED BY <1>1, <2>1, <2>2
<1>5. /\ Turns(s)' /\ Watches(s)'
      /\ g \in Nat
      /\ DOMAIN conn'[s] = DOMAIN conn[s] \cup {g + 1} /\ DOMAIN conn[s] = 1 .. g
      /\ Len(conn'[s]) = g + 1
      /\ conn'[s][g + 1] = Opened("server")
      /\ \A f \in DOMAIN conn[s] : conn'[s][f] = conn[s][f]
      /\ ready'[s] = Wake(ready[s], armed[s], socket_unix)
      /\ \A m \in Node : m # s => conn'[m] = conn[m] /\ ready'[m] = ready[m]
      /\ UNCHANGED <<accepted, armed, event, raw, host>>
  BY <1>1, <1>2, <1>4, ConnectLocal
<1>6. Apps(s)'
  BY <1>3, <1>5 DEF Apps, ServerConn, Opened
<1>7. ServerTurns(s)'
  <2>1. g > 0 /\ g \in armed[s] => conn'[s][g].in # <<>>
    <3> SUFFICES ASSUME g > 0, g \in armed[s] PROVE conn'[s][g].in # <<>>
      OBVIOUS
    <3>1. conn[s] # <<>> /\ g \in DOMAIN conn[s]
      BY <1>5
    <3>2. server[s] = "answered"
      BY <1>1, <1>3, <3>1 DEF ServerTurns
    <3> QED BY <1>3, <1>5, <3>1, <3>2 DEF ServerTurns
  <2>2. g = 0 => /\ event[s] = NoEvent
                 /\ ready'[s] # <<>> /\ ready'[s][1] = socket_unix
    <3> SUFFICES ASSUME g = 0 PROVE event[s] = NoEvent /\ ready'[s] # <<>> /\ ready'[s][1] = socket_unix
      OBVIOUS
    <3>1. server[s] = "off"
      BY <1>1, <1>3 DEF ServerTurns
    <3>2. ready[s] = <<>> /\ event[s] = NoEvent
      BY <1>3, <3>1 DEF ServerTurns
    <3>3. socket_unix \in armed[s]
      BY <1>2 DEF Alone, Local, Watches
    <3>4. ready'[s] = <<socket_unix>>
      BY <1>5, <3>2, <3>3 DEF Wake, ToSet
    <3> QED BY <3>2, <3>4
  <2>3. conn'[s] # <<>> /\ g # Len(conn'[s])
    BY <1>5
  <2> QED BY <1>2, <1>5, <2>1, <2>2, <2>3 DEF ServerTurns
<1>8. ASSUME NEW m \in Node, m # s PROVE Local(m)'
  <2>1. m \in ServerHosts => server'[m] = server[m]
    BY <1>2, <1>8
  <2> QED BY <1>1, <1>5, <1>8, <2>1, KeptLocal DEF Alone
<1>9. Started'
  BY <1>1, <1>2, <1>5 DEF Alone, Started
<1>10. Quiet'
  <2> SUFFICES ASSUME \E t \in ServerHosts : server'[t] = "off"
               PROVE  \A n \in Node :
                         /\ raw'[n] = <<>>
                         /\ \A f \in DOMAIN conn'[n] : conn'[n][f].in = <<>> /\ conn'[n][f].out = <<>>
    BY DEF Quiet
  <2>1. \E t \in ServerHosts : server[t] = "off"
    BY <1>2
  <2>2. \A n \in Node : /\ raw[n] = <<>>
                        /\ \A f \in DOMAIN conn[n] : conn[n][f].in = <<>> /\ conn[n][f].out = <<>>
    BY <2>1 DEF Alone, Quiet
  <2> QED BY <1>5, <2>2 DEF Opened
<1> QED BY <1>2, <1>5, <1>6, <1>7, <1>8, <1>9, <1>10 DEF Alone, Local

\* A server answers on the connection mipd reads from.
LEMMA ServerReads ==
  ASSUME TypeOK, Promises, Alone, NEW s \in ServerHosts, server[s] = "listening",
         conn[s][LastOf(s, "server")].out # <<>>
  PROVE  /\ LastOf(s, "server") = accepted[s] /\ accepted[s] = Len(conn[s])
         /\ accepted[s] \in DOMAIN conn[s] /\ accepted[s] > 0
         /\ conn[s][accepted[s]] \in Connection /\ conn[s][accepted[s]].used
<1> DEFINE f == LastOf(s, "server")
<1>1. s \in Node
  BY PingAssumption
<1>2. \E h \in DOMAIN conn[s] : conn[s][h].app = "server"
  BY DEF Promises
<1>3. f \in DOMAIN conn[s] /\ \A h \in DOMAIN conn[s] : conn[s][h].app = "server" => h <= f
  BY <1>1, <1>2, LastOfEffect
<1> HIDE DEF f
<1>4. DOMAIN conn[s] = 1 .. Len(conn[s]) /\ Len(conn[s]) \in Nat /\ conn[s] \in Seq(Connection)
      /\ accepted[s] \in Nat /\ accepted[s] <= Len(conn[s])
  BY <1>1, HostType
<1>5. Len(conn[s]) \in DOMAIN conn[s]
  BY <1>3, <1>4
<1>6. conn[s][Len(conn[s])].app = "server"
  BY <1>1, <1>5 DEF Alone, Local, Apps, ServerConn
<1>7. f = Len(conn[s])
  BY <1>3, <1>4, <1>5, <1>6
<1>8. ~ (f > accepted[s]) /\ conn[s][f].used
  BY <1>1, <1>3 DEF Alone, Local, Turns, f
<1> QED BY <1>3, <1>4, <1>7, <1>8 DEF f

LEMMA ServerAnswersAlone ==
  ASSUME TypeOK, Promises, Alone, NEW s \in ServerHosts, ServerAnswers(s)
  PROVE  Alone'
<1> DEFINE f == accepted[s]
           c == conn[s][f]
           pong == [Head(c.out) EXCEPT !.payload = "PONG"]
           d == [c EXCEPT !.out = Tail(@), !.in = Append(@, pong)]
<1>1. /\ server[s] = "listening" /\ c.out # <<>> /\ f = LastOf(s, "server")
      /\ Uses(s, f, d)
      /\ server' = [server EXCEPT ![s] = "answered"]
      /\ UNCHANGED client
  BY ServerReads DEF ServerAnswers
<1>2. f = Len(conn[s]) /\ f \in DOMAIN conn[s] /\ f > 0 /\ c \in Connection /\ c.used
  BY <1>1, ServerReads
<1>3. s \in Node /\ server'[s] = "answered"
      /\ \A t \in ServerHosts : t # s => server'[t] = server[t]
  BY <1>1, PingAssumption DEF TypeOK
<1>4. Apps(s) /\ ServerTurns(s)
  BY <1>3 DEF Alone, Local
<1> HIDE DEF f, c
<1>5. Head(c.out) \in Sdu /\ Tail(c.out) \in Seq(Sdu)
  BY <1>1, <1>2, ReadType
<1>6. pong \in Sdu
  BY <1>5 DEF Sdu
<1> HIDE DEF pong
<1>7. Append(c.in, pong) \in Seq(Sdu) /\ Append(c.in, pong) # <<>>
  BY <1>2, <1>6 DEF Connection
<1>8. /\ d \in Connection /\ d.app = c.app /\ d.used = c.used /\ d.open = c.open
      /\ d.out = Tail(c.out) /\ d.in = Append(c.in, pong)
  BY <1>2, <1>5, <1>7 DEF Connection
<1>9. d.in # <<>>
  BY <1>7, <1>8
<1> HIDE DEF d
<1>10. /\ Turns(s)' /\ Watches(s)'
       /\ DOMAIN conn'[s] = DOMAIN conn[s] /\ Len(conn'[s]) = Len(conn[s])
       /\ conn'[s][f] = d
       /\ \A g \in DOMAIN conn[s] : g # f => conn'[s][g] = conn[s][g]
       /\ \A x : x \in ToSet(ready'[s]) => x \in ToSet(ready[s]) \/ x = f
       /\ \A m \in Node : m # s => conn'[m] = conn[m] /\ ready'[m] = ready[m]
       /\ UNCHANGED <<accepted, armed, event, raw, host>>
  BY <1>1, <1>2, <1>3, <1>8, <1>9, UsesLocal DEF c
<1>11. Apps(s)'
  BY <1>4, <1>8, <1>10 DEF Apps, ServerConn, c
<1>12. ServerTurns(s)'
  <2>1. socket_unix \notin ToSet(ready'[s])
    <3>1. socket_unix \notin ToSet(ready[s])
      BY <1>2, <1>4 DEF ServerTurns, f, c
    <3>2. f # socket_unix
      BY <1>2 DEF socket_unix
    <3> QED BY <1>10, <3>1, <3>2
  <2>2. conn'[s] # <<>> /\ accepted'[s] = f /\ Len(conn'[s]) = f /\ f # 0 /\ ~ (f < f)
    BY <1>2, <1>10 DEF f
  <2> QED BY <1>2, <1>3, <1>8, <1>9, <1>10, <2>1, <2>2 DEF ServerTurns
<1>13. ASSUME NEW m \in Node, m # s PROVE Local(m)'
  <2>1. m \in ServerHosts => server'[m] = server[m]
    BY <1>3, <1>13
  <2> QED BY <1>1, <1>10, <1>13, <2>1, KeptLocal DEF Alone
<1>14. \A t \in ServerHosts : server[t] # "off"
  BY <1>1, <1>2, <1>3, AllStarted DEF c
<1>15. Started' /\ Quiet'
  BY <1>1, <1>3, <1>10, <1>14 DEF Alone, Started, Quiet
<1> QED BY <1>3, <1>10, <1>11, <1>12, <1>13, <1>15 DEF Alone, Local

\* A client that connects has the host to itself, all earlier clients there
\* have been answered, and so their connections accepted.
LEMMA ClientConnectsAlone ==
  ASSUME TypeOK, Promises, Alone, OneByOne', NEW k \in Ping, ClientConnects(k)
  PROVE  Alone'
<1>0. PICK n \in Node : host[k] = n
  BY DEF TypeOK
<1> DEFINE g == accepted[n]
<1>1. /\ client[k] = "idle" /\ Connect(n, k)
      /\ \A s \in ServerHosts : server[s] # "off"
      /\ client' = [client EXCEPT ![k] = "connected"]
      /\ UNCHANGED server
      /\ OthersAt(k) = {} /\ n \notin ServerHosts
  BY <1>0 DEF ClientConnects, OneByOne
<1>2. client'[k] = "connected" /\ \A j \in Ping : j # k => client'[j] = client[j]
  BY <1>1 DEF TypeOK
<1>3. \A j \in Ping \ {k} : host[j] = n => client[j] \notin {"connected", "waiting"}
  BY <1>0, <1>1 DEF OthersAt
<1>4. \A j \in Ping : client[j] \in {"idle", "connected", "waiting", "answered"}
  BY DEF TypeOK, Alone, Started
<1>5. ASSUME NEW f \in DOMAIN conn[n]
      PROVE  /\ ClientConn(n, f) /\ conn[n][f].app # k
             /\ client[conn[n][f].app] = "answered" /\ f <= g
  <2>1. ClientConn(n, f)
    BY <1>1, <1>2 DEF Alone, Local, Apps
  <2>2. conn[n][f].app # k /\ client[conn[n][f].app] = "answered"
    BY <1>1, <1>3, <1>4, <2>1 DEF ClientConn
  <2> QED BY <2>1, <2>2 DEF ClientConn
<1>6. Len(conn[n]) = g
  <2>1. DOMAIN conn[n] = 1 .. Len(conn[n]) /\ Len(conn[n]) \in Nat /\ g \in Nat /\ g <= Len(conn[n])
    BY <1>2, HostType
  <2>2. Len(conn[n]) > 0 => Len(conn[n]) \in DOMAIN conn[n]
    BY <2>1
  <2> QED BY <1>5, <2>1, <2>2
<1>7. /\ Turns(n)' /\ Watches(n)'
      /\ accepted'[n] = g /\ armed'[n] = armed[n]
      /\ g \in Nat /\ \A f \in armed[n] : f <= g
      /\ DOMAIN conn'[n] = DOMAIN conn[n] \cup {g + 1} /\ DOMAIN conn[n] = 1 .. g
      /\ Len(conn'[n]) = g + 1
      /\ conn'[n][g + 1] = Opened(k)
      /\ \A f \in DOMAIN conn[n] : conn'[n][f] = conn[n][f]
      /\ \A m \in Node : m # n => conn'[m] = conn[m] /\ ready'[m] = ready[m]
      /\ UNCHANGED <<accepted, armed, event, raw, host>>
  BY <1>1, <1>2, <1>6, ConnectLocal
<1> HIDE DEF g
<1>8. Apps(n)'
  <2> SUFFICES ASSUME NEW f \in DOMAIN conn'[n] PROVE ClientConn(n, f)'
    BY <1>1 DEF Apps
  <2>1. CASE f \in DOMAIN conn[n]
    <3>1. ClientConn(n, f) /\ conn[n][f].app # k /\ client[conn[n][f].app] = "answered" /\ f <= g
      BY <1>5, <2>1
    <3>2. conn'[n][f] = conn[n][f] /\ client'[conn[n][f].app] = "answered"
      BY <1>2, <1>7, <2>1, <3>1 DEF ClientConn
    <3>3. \A h \in DOMAIN conn'[n] : conn'[n][h].app = conn[n][f].app => h = f
      BY <1>7, <3>1 DEF ClientConn, Opened
    <3> QED BY <1>7, <3>1, <3>2, <3>3 DEF ClientConn
  <2>2. CASE f = g + 1
    <3>1. conn'[n][f] = Opened(k) /\ f \notin armed'[n]
      BY <1>7, <2>2
    <3>2. \A h \in DOMAIN conn'[n] : conn'[n][h].app = k => h = f
      BY <1>5, <1>7, <2>2
    <3>3. host'[k] = n
      BY <1>0, <1>7
    <3>4. ~ (f < Len(conn'[n]))
      BY <1>7, <2>2
    <3> QED BY <1>2, <3>1, <3>2, <3>3, <3>4 DEF ClientConn, Opened
  <2> QED BY <1>7, <2>1, <2>2
<1>9. ASSUME NEW m \in Node, m # n PROVE Local(m)'
  <2>1. \A j \in Ping : host[j] = m => client'[j] = client[j]
    BY <1>0, <1>2, <1>9
  <2> QED BY <1>1, <1>7, <1>9, <2>1, KeptLocal DEF Alone
<1>10. Started' /\ Quiet'
  BY <1>0, <1>1, <1>2, <1>7 DEF Alone, Started, Quiet
<1> QED BY <1>1, <1>2, <1>7, <1>8, <1>9, <1>10 DEF Alone, Local

\* The connection of a client that is served now is the last one of its host.
LEMMA ClientUses ==
  ASSUME TypeOK, Promises, Alone, NEW k \in Ping, client[k] \in {"connected", "waiting"}
  PROVE  /\ host[k] \in Node /\ host[k] \notin ServerHosts
         /\ Mine(k) \in DOMAIN conn[host[k]] /\ Mine(k) = Len(conn[host[k]])
         /\ conn[host[k]][Mine(k)] \in Connection /\ conn[host[k]][Mine(k)].app = k
         /\ ClientConn(host[k], Mine(k))
         /\ \A s \in ServerHosts : server[s] # "off"
<1>1. /\ host[k] \in Node /\ Mine(k) \in DOMAIN conn[host[k]]
      /\ conn[host[k]][Mine(k)] \in Connection /\ conn[host[k]][Mine(k)].app = k
  BY MineEffect
<1>2. host[k] \notin ServerHosts /\ \A s \in ServerHosts : server[s] # "off"
  BY DEF Alone, Started
<1>3. ClientConn(host[k], Mine(k))
  BY <1>1, <1>2 DEF Alone, Local, Apps
<1>4. ~ (Mine(k) < Len(conn[host[k]]))
  BY <1>1, <1>3 DEF ClientConn
<1>5. Mine(k) = Len(conn[host[k]])
  BY <1>1, <1>4, HostType
<1> QED BY <1>1, <1>2, <1>3, <1>5

LEMMA ClientUsesLocal ==
  ASSUME TypeOK, Promises, Alone, NEW k \in Ping, client[k] \in {"connected", "waiting"},
         NEW n \in Node, host[k] = n, NEW f \in DOMAIN conn[n], Mine(k) = f,
         NEW d \in Connection, Uses(n, f, d),
         d.app = conn[n][f].app, d.used = conn[n][f].used,
         d.out # <<>> => conn[n][f].out # <<>>, event[n] = f => d.in # <<>>,
         client' \in [Ping -> {"idle", "connected", "waiting", "answered"}],
         client'[k] \in {"waiting", "answered"},
         \A j \in Ping : j # k => client'[j] = client[j],
         d.open <=> client'[k] # "answered",
         d.in # <<>> \/ (d.in = conn[n][f].in /\ client[k] = "waiting"),
         client'[k] = "answered" => f <= accepted[n],
         server' = server
  PROVE  Alone'
<1>1. /\ n \notin ServerHosts /\ f = Len(conn[n]) /\ conn[n][f].app = k /\ ClientConn(n, f)
      /\ \A s \in ServerHosts : server[s] # "off"
  BY ClientUses
<1>2. Apps(n) /\ Turns(n)
  BY DEF Alone, Local
<1>3. /\ Turns(n)' /\ Watches(n)'
      /\ DOMAIN conn'[n] = DOMAIN conn[n] /\ Len(conn'[n]) = Len(conn[n])
      /\ conn'[n][f] = d
      /\ \A g \in DOMAIN conn[n] : g # f => conn'[n][g] = conn[n][g]
      /\ \A m \in Node : m # n => conn'[m] = conn[m] /\ ready'[m] = ready[m]
      /\ UNCHANGED <<accepted, armed, event, raw, host>>
  BY UsesLocal
<1>4. \A h \in DOMAIN conn[n] : conn'[n][h].app = conn[n][h].app
  BY <1>3
<1>5. ASSUME NEW g \in DOMAIN conn[n], g # f PROVE ClientConn(n, g)'
  <2>1. ClientConn(n, g) /\ conn'[n][g] = conn[n][g]
    BY <1>1, <1>2, <1>3, <1>5 DEF Apps
  <2>2. conn[n][g].app # k
    BY <1>1, <1>5 DEF ClientConn
  <2>3. client'[conn[n][g].app] = client[conn[n][g].app]
    BY <2>1, <2>2 DEF ClientConn
  <2>4. \A h \in DOMAIN conn'[n] : conn'[n][h].app = conn[n][g].app => h = g
    BY <1>3, <1>4, <2>1 DEF ClientConn
  <2> QED BY <1>3, <2>1, <2>3, <2>4 DEF ClientConn
<1>6. ClientConn(n, f)'
  <2>1. \A h \in DOMAIN conn'[n] : conn'[n][h].app = k => h = f
    BY <1>1, <1>3, <1>4 DEF ClientConn
  <2>2. ~ (f < Len(conn'[n]))
    BY <1>1, <1>3
  <2>3. f \in armed'[n] => client'[k] = "connected" \/ d.in # <<>>
    BY <1>1, <1>3 DEF ClientConn
  <2>4. client'[k] # "connected" /\ d.in = <<>> => f <= accepted'[n]
    BY <1>1, <1>3 DEF ClientConn
  <2>5. client'[k] = "connected" => d.in = <<>>
    OBVIOUS
  <2>6. d.app = k
    BY <1>1
  <2> QED BY <1>3, <2>1, <2>2, <2>3, <2>4, <2>5, <2>6 DEF ClientConn
<1>7. Apps(n)'
  BY <1>1, <1>3, <1>5, <1>6 DEF Apps
<1>8. ASSUME NEW m \in Node, m # n PROVE Local(m)'
  <2>1. \A j \in Ping : host[j] = m => client'[j] = client[j]
    BY <1>8
  <2> QED BY <1>3, <1>8, <2>1, KeptLocal DEF Alone
<1>9. Started' /\ Quiet'
  BY <1>1, <1>3 DEF Alone, Started, Quiet
<1> QED BY <1>1, <1>3, <1>7, <1>8, <1>9 DEF Alone, Local

LEMMA ClientUsesAlone ==
  ASSUME TypeOK, Promises, Alone, OneByOne', NEW k \in Ping,
         ClientSends(k) \/ ClientReads(k) \/ ClientGivesUp(k)
  PROVE  Alone'
<1>1. client[k] \in {"connected", "waiting"} /\ server' = server
  BY DEF ClientSends, ClientReads, ClientGivesUp
<1>0. PICK n \in Node : host[k] = n
  BY DEF TypeOK
<1>2. PICK f \in DOMAIN conn[n] : Mine(k) = f
  BY <1>0, <1>1, ClientUses
<1> DEFINE c == conn[n][f]
<1>3. c \in Connection /\ ClientConn(n, f) /\ c.app = k
  BY <1>0, <1>1, <1>2, ClientUses
<1>4. Turns(n)
  BY DEF Alone, Local
<1>5. client \in [Ping -> {"idle", "connected", "waiting", "answered"}]
  BY DEF TypeOK, Alone, Started
<1>6. CASE ClientSends(k)
  <2>1. PICK s \in Sdu : s = Message(dst[k], "PING", k)
    BY DEF Message, Sdu, TypeOK
  <2> DEFINE d == [c EXCEPT !.in = Append(@, s)]
  <2>2. /\ Uses(n, f, d) /\ client' = [client EXCEPT ![k] = "waiting"]
        /\ client[k] = "connected"
    BY <1>0, <1>2, <1>6, <2>1 DEF ClientSends
  <2>3. c.open
    BY <1>3, <2>2 DEF ClientConn
  <2>4. Append(c.in, s) \in Seq(Sdu) /\ Append(c.in, s) # <<>>
    BY <1>3 DEF Connection
  <2>5. /\ d \in Connection /\ d.app = c.app /\ d.used = c.used /\ d.out = c.out
        /\ d.in # <<>> /\ d.open = c.open
    BY <1>3, <2>4 DEF Connection
  <2>6. client' \in [Ping -> {"idle", "connected", "waiting", "answered"}]
        /\ client'[k] = "waiting" /\ \A j \in Ping : j # k => client'[j] = client[j]
    BY <1>5, <2>2
  <2> HIDE DEF d
  <2> QED BY <1>0, <1>1, <1>2, <2>2, <2>3, <2>5, <2>6, ClientUsesLocal
<1>7. CASE ClientReads(k)
  <2> DEFINE d == [c EXCEPT !.out = Tail(@), !.open = FALSE]
  <2>1. /\ Uses(n, f, d) /\ client' = [client EXCEPT ![k] = "answered"]
        /\ client[k] = "waiting" /\ c.out # <<>>
    BY <1>0, <1>2, <1>7 DEF ClientReads
  <2>2. f <= accepted[n]
    <3>1. ~ (f > accepted[n])
      BY <1>4, <2>1 DEF Turns
    <3> QED BY <3>1, HostType
  <2>3. event[n] = f => c.in # <<>>
    <3>1. f \in Connections(n)
      BY <2>2, HostType DEF Connections
    <3> QED BY <1>4, <3>1 DEF Turns
  <2>4. Tail(c.out) \in Seq(Sdu)
    BY <1>3, <2>1, ReadType
  <2>5. /\ d \in Connection /\ d.app = c.app /\ d.used = c.used
        /\ d.in = c.in /\ ~ d.open
    BY <1>3, <2>4 DEF Connection
  <2>6. client' \in [Ping -> {"idle", "connected", "waiting", "answered"}]
        /\ client'[k] = "answered" /\ \A j \in Ping : j # k => client'[j] = client[j]
    BY <1>5, <2>1
  <2>7. d.out # <<>> => c.out # <<>>
    BY <2>1
  <2>8. d.in # <<>> \/ (d.in = c.in /\ client[k] = "waiting")
    BY <2>1, <2>5
  <2> HIDE DEF d
  <2> QED BY <1>0, <1>1, <1>2, <2>1, <2>2, <2>3, <2>5, <2>6, <2>7, <2>8, ClientUsesLocal
<1>8. ~ ClientGivesUp(k)
  BY DEF ClientGivesUp, OneByOne
<1> QED BY <1>6, <1>7, <1>8

\* How the applications have been used is not forgotten.
LEMMA SeenGrows ==
  ASSUME [Next]_vars
  PROVE  seen \subseteq seen'
<1>1. ASSUME NEW n, NEW rest, NEW to, NEW frame, Transmit(n, rest, to, frame)
      PROVE  seen \subseteq seen'
  BY <1>1 DEF Transmit
<1>2. ASSUME NEW n, NEW s, SendSdu(n, s) PROVE seen \subseteq seen'
  BY <1>1, <1>2 DEF SendSdu
<1>3. ASSUME NEW n \in Node, Mipd(n) PROVE seen \subseteq seen'
  <2>1. CASE epoll_wait(n)
    BY <2>1 DEF epoll_wait
  <2>2. CASE handle_mip_arp(n)
    BY <1>1, <2>2 DEF handle_mip_arp
  <2>3. CASE handle_mip_ping(n)
    BY <2>3 DEF handle_mip_ping
  <2>4. CASE new_unix_connection(n)
    BY <2>4 DEF new_unix_connection
  <2>5. CASE handle_unix_connection(n)
    BY <1>2, <2>5 DEF handle_unix_connection
  <2> QED BY <1>3, <2>1, <2>2, <2>3, <2>4, <2>5 DEF Mipd
<1>4. ASSUME NEW s \in ServerHosts, ServerConnects(s) \/ ServerAnswers(s)
      PROVE  seen \subseteq seen'
  BY <1>4 DEF ServerConnects, ServerAnswers
<1>5. ASSUME NEW k \in Ping,
             ClientConnects(k) \/ ClientSends(k) \/ ClientReads(k) \/ ClientGivesUp(k)
      PROVE  seen \subseteq seen'
  BY <1>5 DEF ClientConnects, ClientSends, ClientReads, ClientGivesUp
<1>6. ASSUME UNCHANGED vars PROVE seen \subseteq seen'
  BY <1>6 DEF vars
<1> QED BY <1>3, <1>4, <1>5, <1>6 DEF Next

\* At the start nobody is connected.
LEMMA InitAlone ==
  ASSUME Init
  PROVE  Alone
<1>1. ASSUME NEW n \in Node
      PROVE  /\ conn[n] = <<>> /\ accepted[n] = 0 /\ event[n] = NoEvent
             /\ ready[n] = <<>> /\ armed[n] = {socket_raw, socket_unix} /\ raw[n] = <<>>
             /\ DOMAIN conn[n] = {} /\ Len(conn[n]) = 0 /\ Connections(n) = {}
  BY DEF Init, DaemonInit, Connections
<1>2. \A s \in ServerHosts : server[s] = "off" /\ s \in Node
  BY PingAssumption DEF Init
<1>3. ASSUME NEW n \in Node PROVE Local(n)
  <2>1. Apps(n)
    BY <1>1 DEF Apps
  <2>2. Turns(n)
    BY <1>1 DEF Turns, NoEvent
  <2>3. Watches(n)
    BY <1>1 DEF Watches, Readable
  <2>4. n \in ServerHosts => ServerTurns(n)
    BY <1>1, <1>2 DEF ServerTurns, NoEvent, socket_raw, socket_unix, ToSet
  <2> QED BY <2>1, <2>2, <2>3, <2>4 DEF Local
<1>4. Started
  BY DEF Init, Started
<1>5. Quiet
  BY <1>1 DEF Quiet
<1> QED BY <1>3, <1>4, <1>5 DEF Alone

LEMMA StutterAlone ==
  ASSUME Alone, UNCHANGED vars
  PROVE  Alone'
<1>1. UNCHANGED <<conn, accepted, event, ready, armed, raw, host, server, client>>
  BY DEF vars, daemonVars
<1>2. ASSUME NEW n \in Node PROVE Local(n)'
  <2>1. Local(n) /\ Connections(n)' = Connections(n) /\ Readable(n)' = Readable(n)
    BY <1>1 DEF Alone, Connections, Readable
  <2>2. Apps(n)'
    BY <1>1, <2>1 DEF Local, Apps, ClientConn, ServerConn
  <2>3. Turns(n)' /\ Watches(n)' /\ (n \in ServerHosts => ServerTurns(n)')
    BY <1>1, <2>1 DEF Local, Turns, Watches, ServerTurns
  <2> QED BY <2>2, <2>3 DEF Local
<1> QED BY <1>1, <1>2 DEF Alone, Started, Quiet

LEMMA StepTurns ==
  ASSUME TurnInv, [Next]_vars
  PROVE  TurnInv'
<1>1. TypeOK /\ Promises /\ TypeOK' /\ Promises'
  BY StepType DEF TurnInv
<1> SUFFICES ASSUME OneByOne' PROVE Alone'
  BY <1>1 DEF TurnInv
<1>2. Alone
  BY SeenGrows DEF TurnInv, OneByOne
<1>3. ASSUME NEW n \in Node, Mipd(n), UNCHANGED <<host, dst, server, client, answer>>
      PROVE  Alone'
  BY <1>1, <1>2, <1>3, EpollAlone, ArpAlone, PingAlone, NewUnixAlone, UnixAlone
     DEF Mipd, appVars
<1>4. ASSUME NEW s \in ServerHosts, ServerConnects(s) \/ ServerAnswers(s)
      PROVE  Alone'
  BY <1>1, <1>2, <1>4, ServerConnectsAlone, ServerAnswersAlone
<1>5. ASSUME NEW k \in Ping,
             ClientConnects(k) \/ ClientSends(k) \/ ClientReads(k) \/ ClientGivesUp(k)
      PROVE  Alone'
  BY <1>1, <1>2, <1>5, ClientConnectsAlone, ClientUsesAlone
<1> QED BY <1>2, <1>3, <1>4, <1>5, StutterAlone DEF Next

\* What mipd does in turn (Turns) holds however many clients and servers there are.
LEMMA TurnsHold == Spec => []TurnInv
<1>1. Init => TurnInv
  BY InitType, InitAlone DEF TurnInv
<1>2. TurnInv /\ [Next]_vars => TurnInv'
  BY StepTurns
<1> QED BY <1>1, <1>2, PTL DEF Spec

\* Where clients come one after another, the connection mipd reads from is the one
\* that the event was for, and not a newer one that has nothing to be read.
THEOREM MipdReadsFromEvent == Spec => []ReadsFromEvent
<1>1. TurnInv => ReadsFromEvent
  <2> SUFFICES ASSUME TypeOK, Alone, NEW n \in Node, event[n] \in Connections(n)
               PROVE  event[n] = socket_data[n]
    BY DEF TurnInv, ReadsFromEvent
  <2>1. event[n] = accepted[n]
    BY DEF Alone, Local, Turns
  <2> QED BY <2>1, SocketType
<1> QED BY <1>1, TurnsHold, PTL

-----------------------------------------------------------------------------
(* Where the messages are. *)

\* k is nowhere in the queues Q, or in one place only.
Absent(Q, k) == \A p \in DOMAIN Q : \A i \in DOMAIN Q[p] : Q[p][i] # k
Single(Q, k) ==
  \A p, q \in DOMAIN Q : \A i \in DOMAIN Q[p], j \in DOMAIN Q[q] :
    Q[p][i] = k /\ Q[q][j] = k => p = q /\ i = j

\* The head of one queue has been taken, and v has come to the queues in P: to
\* queue p v[p].
Taken(Q, from) == [p \in DOMAIN Q |-> IF p = from THEN Tail(Q[p]) ELSE Q[p]]
Put(Q, P, v) == [p \in DOMAIN Q |-> IF p \in P THEN Append(Q[p], v[p]) ELSE Q[p]]

LEMMA TakenKeeps ==
  ASSUME NEW D, NEW V, NEW Q \in [D -> Seq(V)], NEW from, from \in D => Q[from] # <<>>, NEW k
  PROVE  /\ Taken(Q, from) \in [D -> Seq(V)]
         /\ Absent(Q, k) => Absent(Taken(Q, from), k)
         /\ Single(Q, k) => Single(Taken(Q, from), k)
         /\ Single(Q, k) /\ from \in D /\ Head(Q[from]) = k => Absent(Taken(Q, from), k)
<1> DEFINE R == Taken(Q, from)
           up(p, i) == IF p = from THEN i + 1 ELSE i
<1>1. ASSUME NEW p \in D
      PROVE  /\ R[p] \in Seq(V)
             /\ \A i \in DOMAIN R[p] : /\ i \in Nat /\ up(p, i) \in DOMAIN Q[p]
                                       /\ R[p][i] = Q[p][up(p, i)]
                                       /\ p = from => up(p, i) # 1
  <2>1. CASE p = from
    <3> DEFINE s == Q[p]
    <3>1. s \in Seq(V) /\ s # <<>> /\ R[p] = Tail(s)
      BY <2>1 DEF Taken
    <3> HIDE DEF s, R
    <3>2. /\ Tail(s) \in Seq(V) /\ DOMAIN Tail(s) = 1 .. Len(s) - 1
          /\ \A i \in 1 .. Len(s) - 1 : Tail(s)[i] = s[i + 1] /\ i + 1 \in DOMAIN s
      BY <3>1, TailEffect
    <3> QED BY <2>1, <3>1, <3>2 DEF s
  <2>2. CASE p # from
    <3>1. R[p] = Q[p] /\ Q[p] \in Seq(V)
      BY <2>2 DEF Taken
    <3> HIDE DEF R
    <3> QED BY <2>2, <3>1
  <2> QED BY <2>1, <2>2
<1>2. DOMAIN R = D /\ DOMAIN Q = D
  BY DEF Taken
<1>3. R \in [D -> Seq(V)]
  BY <1>1, <1>2 DEF Taken
<1>4. from \in D => 1 \in DOMAIN Q[from] /\ Head(Q[from]) = Q[from][1]
  OBVIOUS
<1> HIDE DEF R
<1>5. Absent(Q, k) => Absent(R, k)
  BY <1>1, <1>2 DEF Absent
<1>6. Single(Q, k) => Single(R, k)
  <2> SUFFICES ASSUME Single(Q, k), NEW p \in D, NEW q \in D,
                      NEW i \in DOMAIN R[p], NEW j \in DOMAIN R[q], R[p][i] = k, R[q][j] = k
               PROVE  p = q /\ i = j
    BY <1>2 DEF Single
  <2>1. p = q /\ up(p, i) = up(q, j)
    <3> HIDE DEF up
    <3> QED BY <1>1, <1>2 DEF Single
  <2>2. i \in Nat /\ j \in Nat
    BY <1>1
  <2> QED BY <2>1, <2>2
<1>7. Single(Q, k) /\ from \in D /\ Head(Q[from]) = k => Absent(R, k)
  <2> SUFFICES ASSUME Single(Q, k), from \in D, Head(Q[from]) = k,
                      NEW p \in D, NEW i \in DOMAIN R[p], R[p][i] = k
               PROVE  FALSE
    BY <1>2 DEF Absent
  <2> HIDE DEF up
  <2>1. p = from /\ up(p, i) = 1
    BY <1>1, <1>2, <1>4 DEF Single
  <2> QED BY <1>1, <2>1
<1> QED BY <1>3, <1>5, <1>6, <1>7 DEF R

LEMMA PutKeeps ==
  ASSUME NEW D, NEW V, NEW Q \in [D -> Seq(V)], NEW P, NEW v \in [D -> V], NEW k
  PROVE  /\ Put(Q, P, v) \in [D -> Seq(V)]
         /\ (\A p \in D \cap P : v[p] # k) =>
              /\ Absent(Q, k) => Absent(Put(Q, P, v), k)
              /\ Single(Q, k) => Single(Put(Q, P, v), k)
         /\ Absent(Q, k) /\ (\A p, q \in D \cap P : v[p] = k /\ v[q] = k => p = q) =>
              Single(Put(Q, P, v), k)
<1> DEFINE R == Put(Q, P, v)
<1>1. ASSUME NEW p \in D
      PROVE  /\ R[p] \in Seq(V)
             /\ \A i \in DOMAIN R[p] :
                  \/ i \in DOMAIN Q[p] /\ R[p][i] = Q[p][i]
                  \/ p \in P /\ i = Len(Q[p]) + 1 /\ R[p][i] = v[p]
  <2> DEFINE s == Q[p]
  <2>1. s \in Seq(V) /\ v[p] \in V
    OBVIOUS
  <2>2. CASE p \in P
    <3>1. R[p] = Append(s, v[p])
      BY <2>2 DEF Put
    <3> HIDE DEF s, R
    <3>2. /\ Append(s, v[p]) \in Seq(V) /\ Len(Append(s, v[p])) = Len(s) + 1
          /\ \A i \in 1 .. Len(s) : Append(s, v[p])[i] = s[i]
          /\ Append(s, v[p])[Len(s) + 1] = v[p]
      BY <2>1, AppendProperties
    <3>3. DOMAIN R[p] = 1 .. Len(s) + 1 /\ DOMAIN s = 1 .. Len(s) /\ Len(s) \in Nat
      BY <2>1, <3>1, <3>2
    <3>4. \A i \in 1 .. Len(s) + 1 : i \in 1 .. Len(s) \/ i = Len(s) + 1
      BY <3>3
    <3> QED BY <2>2, <3>1, <3>2, <3>3, <3>4 DEF s
  <2>3. CASE p \notin P
    BY <2>1, <2>3 DEF Put
  <2> QED BY <2>2, <2>3
<1>2. DOMAIN R = D /\ DOMAIN Q = D
  BY DEF Put
<1>3. R \in [D -> Seq(V)]
  BY <1>1, <1>2 DEF Put
<1> HIDE DEF R
<1>4. ASSUME \A p \in D \cap P : v[p] # k, Absent(Q, k) PROVE Absent(R, k)
  BY <1>1, <1>2, <1>4 DEF Absent
<1>5. ASSUME \A p \in D \cap P : v[p] # k, Single(Q, k) PROVE Single(R, k)
  <2>1. \A p \in D : \A i \in DOMAIN R[p] :
           R[p][i] = k => i \in DOMAIN Q[p] /\ Q[p][i] = k
    BY <1>1, <1>5
  <2> QED BY <1>2, <1>5, <2>1 DEF Single
<1>6. ASSUME Absent(Q, k), \A p, q \in D \cap P : v[p] = k /\ v[q] = k => p = q
      PROVE  Single(R, k)
  <2>1. \A p \in D : \A i \in DOMAIN R[p] :
           R[p][i] = k => p \in P /\ i = Len(Q[p]) + 1 /\ v[p] = k
    BY <1>1, <1>2, <1>6 DEF Absent
  <2> QED BY <1>2, <1>6, <2>1 DEF Single
<1> QED BY <1>3, <1>4, <1>5, <1>6 DEF R

\* Of every member of s its value under g.
Image(s, g) == [i \in DOMAIN s |-> g[s[i]]]
Maps(S, V) == [S -> V]

LEMMA ImageType ==
  ASSUME NEW S, NEW V, NEW g \in Maps(S, V), NEW s \in Seq(S)
  PROVE  /\ \A x \in S : g[x] \in V
         /\ Image(s, g) \in Seq(V) /\ DOMAIN Image(s, g) = 1 .. Len(s)
         /\ Len(Image(s, g)) = Len(s) /\ Len(s) \in Nat /\ DOMAIN s = 1 .. Len(s)
         /\ \A i \in 1 .. Len(s) : Image(s, g)[i] = g[s[i]]
<1>0. \A x \in S : g[x] \in V
  BY DEF Maps
<1>1. Len(s) \in Nat /\ DOMAIN s = 1 .. Len(s) /\ \A i \in 1 .. Len(s) : s[i] \in S
  OBVIOUS
<1>2. Image(s, g) \in [1 .. Len(s) -> V]
  BY <1>0, <1>1 DEF Image
<1>3. Image(s, g) \in Seq(V)
  BY <1>1, <1>2, SeqDef
<1> QED BY <1>0, <1>1, <1>2, <1>3 DEF Image

LEMMA ImageTail ==
  ASSUME NEW S, NEW V, NEW g \in Maps(S, V), NEW s \in Seq(S), s # <<>>
  PROVE  /\ Image(s, g) # <<>> /\ Head(Image(s, g)) = g[Head(s)]
         /\ Image(Tail(s), g) = Tail(Image(s, g))
<1> DEFINE u == Image(s, g)
<1>0. /\ u \in Seq(V) /\ DOMAIN u = 1 .. Len(s) /\ Len(u) = Len(s) /\ Len(s) \in Nat
      /\ DOMAIN s = 1 .. Len(s) /\ \A i \in 1 .. Len(s) : u[i] = g[s[i]]
      /\ \A y \in S : g[y] \in V
  BY ImageType
<1> HIDE DEF u
<1> DEFINE t == Tail(s)
           w == Image(t, g)
           v == Tail(u)
<1>1. /\ t \in Seq(S) /\ Len(t) = Len(s) - 1 /\ Len(s) > 0 /\ Head(s) = s[1]
      /\ \A i \in 1 .. Len(s) - 1 : t[i] = s[i + 1] /\ i + 1 \in 1 .. Len(s)
  BY <1>0, TailEffect
<1> HIDE DEF t
<1>2. w \in Seq(V) /\ Len(w) = Len(s) - 1 /\ \A i \in 1 .. Len(s) - 1 : w[i] = g[t[i]]
  BY ImageType, <1>1
<1>3. u # <<>> /\ 1 \in 1 .. Len(s)
  BY <1>0, <1>1
<1>4. /\ v \in Seq(V) /\ Len(v) = Len(s) - 1 /\ Head(u) = u[1]
      /\ \A i \in 1 .. Len(s) - 1 : v[i] = u[i + 1]
  BY <1>0, <1>1, <1>3, TailEffect
<1> HIDE DEF w, v
<1>5. \A i \in 1 .. Len(s) - 1 : w[i] = v[i]
  BY <1>0, <1>1, <1>2, <1>4
<1>6. w = v
  BY <1>2, <1>4, <1>5, SeqEqual
<1> QED BY <1>0, <1>1, <1>3, <1>4, <1>6 DEF t, w, v, u

LEMMA ImageAppend ==
  ASSUME NEW S, NEW V, NEW g \in Maps(S, V), NEW s \in Seq(S), NEW x \in S
  PROVE  Image(Append(s, x), g) = Append(Image(s, g), g[x])
<1> DEFINE u == Image(s, g)
<1>0. /\ u \in Seq(V) /\ DOMAIN u = 1 .. Len(s) /\ Len(u) = Len(s) /\ Len(s) \in Nat
      /\ DOMAIN s = 1 .. Len(s) /\ \A i \in 1 .. Len(s) : u[i] = g[s[i]]
      /\ \A y \in S : g[y] \in V
  BY ImageType
<1> HIDE DEF u
<1> DEFINE t == Append(s, x)
           w == Image(t, g)
           v == Append(u, g[x])
<1>1. /\ t \in Seq(S) /\ Len(t) = Len(s) + 1 /\ t[Len(s) + 1] = x
      /\ \A i \in 1 .. Len(s) : t[i] = s[i]
  BY <1>0, AppendProperties
<1> HIDE DEF t
<1>2. w \in Seq(V) /\ Len(w) = Len(s) + 1 /\ \A i \in 1 .. Len(s) + 1 : w[i] = g[t[i]]
  BY ImageType, <1>1
<1>3. /\ v \in Seq(V) /\ Len(v) = Len(s) + 1 /\ v[Len(s) + 1] = g[x]
      /\ \A i \in 1 .. Len(s) : v[i] = u[i]
  BY <1>0, AppendProperties
<1> HIDE DEF w, v
<1>4. \A i \in 1 .. Len(s) + 1 : i \in 1 .. Len(s) \/ i = Len(s) + 1
  BY <1>0
<1>5. \A i \in 1 .. Len(s) + 1 : w[i] = v[i]
  BY <1>0, <1>1, <1>2, <1>3, <1>4
<1>6. w = v
  BY <1>2, <1>3, <1>5, SeqEqual
<1> QED BY <1>6 DEF t, w, v, u

\* What the queue s at p becomes when the head of the queue at `from` is taken, and x
\* is put in those at `to`.
Moved(s, p, from, to, x) ==
  LET t == IF p = from THEN Tail(s) ELSE s IN IF p \in to THEN Append(t, x) ELSE t

LEMMA MovedEffect ==
  ASSUME NEW S, NEW s \in Seq(S), NEW x \in S, NEW p, NEW from, NEW to, p = from => s # <<>>
  PROVE  /\ Moved(s, p, from, to, x) \in Seq(S)
         /\ \A y \in ToSet(Moved(s, p, from, to, x)) : y \in ToSet(s) \/ (p \in to /\ y = x)
<1> DEFINE t == IF p = from THEN Tail(s) ELSE s
<1>1. t \in Seq(S) /\ \A y \in ToSet(t) : y \in ToSet(s)
  <2>1. CASE p = from
    <3>1. /\ Tail(s) \in Seq(S) /\ DOMAIN Tail(s) = 1 .. Len(s) - 1
          /\ \A i \in 1 .. Len(s) - 1 : Tail(s)[i] = s[i + 1] /\ i + 1 \in DOMAIN s
      BY <2>1, TailEffect
    <3> QED BY <2>1, <3>1 DEF ToSet
  <2> QED BY <2>1
<1>3. Moved(s, p, from, to, x) = IF p \in to THEN Append(t, x) ELSE t
  BY DEF Moved
<1> HIDE DEF t
<1>4. /\ Append(t, x) \in Seq(S)
      /\ \A y \in ToSet(Append(t, x)) : y \in ToSet(t) \/ y = x
  <2>1. /\ Append(t, x) \in Seq(S) /\ Len(Append(t, x)) = Len(t) + 1
        /\ \A i \in 1 .. Len(t) : Append(t, x)[i] = t[i]
        /\ Append(t, x)[Len(t) + 1] = x
    BY <1>1, AppendProperties
  <2>2. DOMAIN Append(t, x) = 1 .. Len(t) + 1 /\ DOMAIN t = 1 .. Len(t) /\ Len(t) \in Nat
    BY <1>1, <2>1
  <2>3. \A i \in 1 .. Len(t) + 1 : i \in 1 .. Len(t) \/ i = Len(t) + 1
    BY <2>2
  <2> QED BY <2>1, <2>2, <2>3 DEF ToSet
<1> QED BY <1>1, <1>3, <1>4

LEMMA MovedImage ==
  ASSUME NEW S, NEW V, NEW g \in Maps(S, V), NEW s \in Seq(S), NEW x \in S,
         NEW p, NEW from, NEW to, p = from => s # <<>>
  PROVE  Image(Moved(s, p, from, to, x), g) = Moved(Image(s, g), p, from, to, g[x])
<1> DEFINE t == IF p = from THEN Tail(s) ELSE s
<1>1. t \in Seq(S)
  BY TailEffect
<1>2. Image(t, g) = IF p = from THEN Tail(Image(s, g)) ELSE Image(s, g)
  BY ImageTail
<1>3. Moved(s, p, from, to, x) = IF p \in to THEN Append(t, x) ELSE t
  BY DEF Moved
<1> HIDE DEF t
<1>4. Image(Append(t, x), g) = Append(Image(t, g), g[x])
  BY <1>1, ImageAppend
<1> QED BY <1>2, <1>3, <1>4 DEF Moved

\* All queues are changed so, queue p by v[p].
MoveAll(Q, from, to, v) == [p \in DOMAIN Q |-> Moved(Q[p], p, from, to, v[p])]

MoveKept(D, Q, R, from, to, v, k) ==
  /\ (\A p \in D \cap to : v[p] # k) =>
       /\ Absent(Q, k) => Absent(R, k)
       /\ Single(Q, k) => Single(R, k)
       /\ Single(Q, k) /\ from \in D /\ Head(Q[from]) = k => Absent(R, k)
  /\ /\ \A p, q \in D \cap to : v[p] = k /\ v[q] = k => p = q
     /\ Absent(Q, k) \/ (Single(Q, k) /\ from \in D /\ Head(Q[from]) = k)
     => Single(R, k)

LEMMA MoveKeeps ==
  ASSUME NEW D, NEW V, NEW Q \in Maps(D, Seq(V)), NEW v \in Maps(D, V), NEW from, NEW to, NEW k,
         from \in D => Q[from] # <<>>
  PROVE  MoveKept(D, Q, MoveAll(Q, from, to, v), from, to, v, k)
<1> DEFINE R == MoveAll(Q, from, to, v)
           T == Taken(Q, from)
<1>1. /\ T \in [D -> Seq(V)]
      /\ Absent(Q, k) => Absent(T, k)
      /\ Single(Q, k) => Single(T, k)
      /\ Single(Q, k) /\ from \in D /\ Head(Q[from]) = k => Absent(T, k)
  BY TakenKeeps DEF Maps
<1>2. R = Put(T, to, v)
  BY DEF MoveAll, Moved, Taken, Put
<1> HIDE DEF T, R
<1>3. /\ Put(T, to, v) \in [D -> Seq(V)]
      /\ (\A p \in D \cap to : v[p] # k) =>
           /\ Absent(T, k) => Absent(Put(T, to, v), k)
           /\ Single(T, k) => Single(Put(T, to, v), k)
      /\ Absent(T, k) /\ (\A p, q \in D \cap to : v[p] = k /\ v[q] = k => p = q) =>
           Single(Put(T, to, v), k)
  BY <1>1, PutKeeps DEF Maps
<1> QED BY <1>1, <1>2, <1>3 DEF MoveKept, R

\* A place where a message can be: socket_raw of a host, and both directions of a
\* connection.  Of the messages there, whose they are.
Place == Node \X Int \X {"in", "out"}
Frames(n) == <<n, socket_raw, "in">>
OfFrame == [x \in Frame |-> x.sdu.of]
OfMessage == [y \in Sdu |-> y.of]
MessagesAt(r, c, p) ==
  IF p[2] = socket_raw THEN IF p[3] = "in" THEN Image(r[p[1]], OfFrame) ELSE <<>>
  ELSE IF p[2] \notin DOMAIN c[p[1]] THEN <<>>
  ELSE IF p[3] = "in" THEN Image(c[p[1]][p[2]].in, OfMessage)
  ELSE Image(c[p[1]][p[2]].out, OfMessage)
Text == [p \in Place |-> MessagesAt(raw, conn, p)]

Clients == Ping \cup {NoPing}

\* All places are of these kinds.
LEMMA PlaceKinds ==
  /\ \A n \in Node : Frames(n) \in Place
  /\ \A n \in Node : \A f \in Int : <<n, f, "in">> \in Place /\ <<n, f, "out">> \in Place
  /\ \A p \in Place : p[1] \in Node /\ p[2] \in Int /\ (p[3] = "in" \/ p[3] = "out")
                      /\ p = <<p[1], p[2], p[3]>>
BY DEF Place, Frames, socket_raw

LEMMA OfType ==
  OfFrame \in Maps(Frame, Clients) /\ OfMessage \in Maps(Sdu, Clients)
<1>1. \A x \in Frame : x.sdu \in Sdu
  BY DEF Frame
<1>2. \A y \in Sdu : y.of \in Clients
  BY DEF Sdu, Clients
<1> QED BY <1>1, <1>2 DEF OfFrame, OfMessage, Maps

LEMMA TextAt ==
  ASSUME TypeOK, NEW n \in Node
  PROVE  /\ Text[Frames(n)] = Image(raw[n], OfFrame)
         /\ \A f \in DOMAIN conn[n] :
              /\ f \in Int /\ f # socket_raw
              /\ conn[n][f].in \in Seq(Sdu) /\ conn[n][f].out \in Seq(Sdu)
              /\ Text[<<n, f, "in">>] = Image(conn[n][f].in, OfMessage)
              /\ Text[<<n, f, "out">>] = Image(conn[n][f].out, OfMessage)
<1>1. Text[Frames(n)] = Image(raw[n], OfFrame)
  <2>1. MessagesAt(raw, conn, Frames(n)) = Image(raw[n], OfFrame)
    BY DEF MessagesAt, Frames
  <2> QED BY <2>1, PlaceKinds DEF Text
<1>2. ASSUME NEW f \in DOMAIN conn[n]
      PROVE  /\ f \in Int /\ f # socket_raw
             /\ conn[n][f].in \in Seq(Sdu) /\ conn[n][f].out \in Seq(Sdu)
             /\ Text[<<n, f, "in">>] = Image(conn[n][f].in, OfMessage)
             /\ Text[<<n, f, "out">>] = Image(conn[n][f].out, OfMessage)
  <2>1. f \in Int /\ f # socket_raw /\ conn[n][f] \in Connection
    BY HostType DEF socket_raw
  <2>2. conn[n][f].in \in Seq(Sdu) /\ conn[n][f].out \in Seq(Sdu)
    BY <2>1 DEF Connection
  <2>3. /\ MessagesAt(raw, conn, <<n, f, "in">>) = Image(conn[n][f].in, OfMessage)
        /\ MessagesAt(raw, conn, <<n, f, "out">>) = Image(conn[n][f].out, OfMessage)
    BY <2>1 DEF MessagesAt
  <2>4. <<n, f, "in">> \in Place /\ <<n, f, "out">> \in Place
    BY <2>1, PlaceKinds
  <2> QED BY <2>1, <2>2, <2>3, <2>4 DEF Text
<1> QED BY <1>1, <1>2

LEMMA TextType ==
  ASSUME TypeOK
  PROVE  Text \in Maps(Place, Seq(Clients))
<1>1. ASSUME NEW p \in Place PROVE MessagesAt(raw, conn, p) \in Seq(Clients)
  <2>1. p[1] \in Node
    BY PlaceKinds
  <2>2. Image(raw[p[1]], OfFrame) \in Seq(Clients)
    BY <2>1, HostType, OfType, ImageType
  <2>3. ASSUME p[2] \in DOMAIN conn[p[1]]
        PROVE  /\ Image(conn[p[1]][p[2]].in, OfMessage) \in Seq(Clients)
               /\ Image(conn[p[1]][p[2]].out, OfMessage) \in Seq(Clients)
    <3>1. conn[p[1]][p[2]].in \in Seq(Sdu) /\ conn[p[1]][p[2]].out \in Seq(Sdu)
      BY <2>1, <2>3, TextAt
    <3> QED BY <3>1, OfType, ImageType
  <2>4. <<>> \in Seq(Clients)
    OBVIOUS
  <2> QED BY <2>2, <2>3, <2>4 DEF MessagesAt
<1> QED BY <1>1 DEF Text, Maps


\* In a step the head of the queue at `from` is taken, and a message is put at all places
\* of `to`: as `frame` where frames are, as y elsewhere.
FramesMoved(from, to, frame) ==
  \A n \in Node : raw'[n] = Moved(raw[n], Frames(n), from, to, frame)
MessagesMoved(from, to, y) ==
  \A n \in Node :
    /\ DOMAIN conn'[n] = DOMAIN conn[n]
    /\ \A f \in DOMAIN conn[n] :
         /\ conn'[n][f].app = conn[n][f].app
         /\ conn'[n][f].in = Moved(conn[n][f].in, <<n, f, "in">>, from, to, y)
         /\ conn'[n][f].out = Moved(conn[n][f].out, <<n, f, "out">>, from, to, y)
Spots ==
  {p \in Place : IF p[2] = socket_raw THEN p[3] = "in" ELSE p[2] \in DOMAIN conn[p[1]]}
Move(from, to, frame, y) ==
  /\ FramesMoved(from, to, frame) /\ MessagesMoved(from, to, y)
  /\ frame \in Frame /\ y \in Sdu /\ y.of = frame.sdu.of
  /\ from \in Place => Text[from] # <<>>
  /\ to \subseteq Spots

\* What comes to a place is what has been put there.
LEMMA FramesMove ==
  ASSUME TypeOK, NEW from, NEW to, NEW frame, NEW y, Move(from, to, frame, y), NEW n \in Node
  PROVE  /\ \A x \in ToSet(raw'[n]) : x \in ToSet(raw[n]) \/ (Frames(n) \in to /\ x = frame)
         /\ Image(raw'[n], OfFrame) = Moved(Text[Frames(n)], Frames(n), from, to, y.of)
<1>1. /\ raw[n] \in Seq(Frame) /\ raw'[n] = Moved(raw[n], Frames(n), from, to, frame)
      /\ Frames(n) = from => Text[Frames(n)] # <<>>
      /\ frame \in Frame /\ OfFrame[frame] = y.of
  BY HostType, PlaceKinds DEF Move, FramesMoved, OfFrame
<1>2. Text[Frames(n)] = Image(raw[n], OfFrame)
  BY TextAt
<1>3. Image(<<>>, OfFrame) = <<>>
  BY DEF Image
<1>4. Frames(n) = from => raw[n] # <<>>
  BY <1>1, <1>2, <1>3
<1>5. \A x \in ToSet(raw'[n]) : x \in ToSet(raw[n]) \/ (Frames(n) \in to /\ x = frame)
  BY <1>1, <1>4, MovedEffect
<1>6. Image(raw'[n], OfFrame) = Moved(Image(raw[n], OfFrame), Frames(n), from, to, OfFrame[frame])
  BY <1>1, <1>4, OfType, MovedImage
<1> QED BY <1>1, <1>2, <1>5, <1>6

Carried(from, to, y) ==
  \A n \in Node : \A f \in DOMAIN conn[n] :
    /\ \A x \in ToSet(conn'[n][f].in) :
         x \in ToSet(conn[n][f].in) \/ (<<n, f, "in">> \in to /\ x = y)
    /\ \A x \in ToSet(conn'[n][f].out) :
         x \in ToSet(conn[n][f].out) \/ (<<n, f, "out">> \in to /\ x = y)
    /\ Image(conn'[n][f].in, OfMessage) =
         Moved(Text[<<n, f, "in">>], <<n, f, "in">>, from, to, y.of)
    /\ Image(conn'[n][f].out, OfMessage) =
         Moved(Text[<<n, f, "out">>], <<n, f, "out">>, from, to, y.of)

LEMMA MessagesMove ==
  ASSUME TypeOK, NEW from, NEW to, NEW frame, NEW y, Move(from, to, frame, y)
  PROVE  Carried(from, to, y)
<1> SUFFICES ASSUME NEW n \in Node, NEW f \in DOMAIN conn[n]
    PROVE  /\ \A x \in ToSet(conn'[n][f].in) :
                x \in ToSet(conn[n][f].in) \/ (<<n, f, "in">> \in to /\ x = y)
           /\ \A x \in ToSet(conn'[n][f].out) :
                x \in ToSet(conn[n][f].out) \/ (<<n, f, "out">> \in to /\ x = y)
           /\ Image(conn'[n][f].in, OfMessage) =
                Moved(Text[<<n, f, "in">>], <<n, f, "in">>, from, to, y.of)
           /\ Image(conn'[n][f].out, OfMessage) =
                Moved(Text[<<n, f, "out">>], <<n, f, "out">>, from, to, y.of)
  BY DEF Carried
<1>1. /\ conn[n][f].in \in Seq(Sdu) /\ conn[n][f].out \in Seq(Sdu)
      /\ Text[<<n, f, "in">>] = Image(conn[n][f].in, OfMessage)
      /\ Text[<<n, f, "out">>] = Image(conn[n][f].out, OfMessage)
      /\ <<n, f, "in">> \in Place /\ <<n, f, "out">> \in Place
  BY TextAt, PlaceKinds
<1>2. /\ conn'[n][f].in = Moved(conn[n][f].in, <<n, f, "in">>, from, to, y)
      /\ conn'[n][f].out = Moved(conn[n][f].out, <<n, f, "out">>, from, to, y)
      /\ y \in Sdu /\ OfMessage[y] = y.of
      /\ from \in Place => Text[from] # <<>>
  BY DEF Move, MessagesMoved, OfMessage
<1>3. Image(<<>>, OfMessage) = <<>>
  BY DEF Image
<1>4. /\ <<n, f, "in">> = from => conn[n][f].in # <<>>
      /\ <<n, f, "out">> = from => conn[n][f].out # <<>>
  BY <1>1, <1>2, <1>3
<1>5. /\ \A x \in ToSet(conn'[n][f].in) :
              x \in ToSet(conn[n][f].in) \/ (<<n, f, "in">> \in to /\ x = y)
      /\ Image(conn'[n][f].in, OfMessage) =
           Moved(Image(conn[n][f].in, OfMessage), <<n, f, "in">>, from, to, OfMessage[y])
  <2> DEFINE s == conn[n][f].in
             p == <<n, f, "in">>
  <2>1. s \in Seq(Sdu) /\ (p = from => s # <<>>) /\ y \in Sdu
    BY <1>1, <1>2, <1>4
  <2> HIDE DEF s, p
  <2>2. \A x \in ToSet(Moved(s, p, from, to, y)) : x \in ToSet(s) \/ (p \in to /\ x = y)
    BY <2>1, MovedEffect
  <2>3. Image(Moved(s, p, from, to, y), OfMessage) =
          Moved(Image(s, OfMessage), p, from, to, OfMessage[y])
    BY <2>1, OfType, MovedImage
  <2> QED BY <1>2, <2>2, <2>3 DEF s, p
<1>6. /\ \A x \in ToSet(conn'[n][f].out) :
              x \in ToSet(conn[n][f].out) \/ (<<n, f, "out">> \in to /\ x = y)
      /\ Image(conn'[n][f].out, OfMessage) =
           Moved(Image(conn[n][f].out, OfMessage), <<n, f, "out">>, from, to, OfMessage[y])
  <2> DEFINE s == conn[n][f].out
             p == <<n, f, "out">>
  <2>1. s \in Seq(Sdu) /\ (p = from => s # <<>>) /\ y \in Sdu
    BY <1>1, <1>2, <1>4
  <2> HIDE DEF s, p
  <2>2. \A x \in ToSet(Moved(s, p, from, to, y)) : x \in ToSet(s) \/ (p \in to /\ x = y)
    BY <2>1, MovedEffect
  <2>3. Image(Moved(s, p, from, to, y), OfMessage) =
          Moved(Image(s, OfMessage), p, from, to, OfMessage[y])
    BY <2>1, OfType, MovedImage
  <2> QED BY <1>2, <2>2, <2>3 DEF s, p
<1> QED BY <1>1, <1>2, <1>5, <1>6

LEMMA TextMoves ==
  ASSUME TypeOK, NEW from, NEW to, NEW frame, NEW y, Move(from, to, frame, y)
  PROVE  Text' = MoveAll(Text, from, to, [p \in Place |-> y.of])
<1>0. Carried(from, to, y)
  BY MessagesMove
<1>1. ASSUME NEW p \in Place
      PROVE  MessagesAt(raw', conn', p) = Moved(Text[p], p, from, to, y.of)
  <2> DEFINE n == p[1]
             f == p[2]
  <2>1. n \in Node /\ f \in Int /\ (p[3] = "in" \/ p[3] = "out") /\ p = <<n, f, p[3]>>
    BY PlaceKinds
  <2>2. Text[p] = MessagesAt(raw, conn, p)
    BY DEF Text
  <2>3. to \subseteq Spots /\ (p = from => Text[p] # <<>>) /\ DOMAIN conn'[n] = DOMAIN conn[n]
    BY <2>1 DEF Move, MessagesMoved
  <2> HIDE DEF n, f
  <2>4. CASE p \notin Spots
    <3>1. Text[p] = <<>> /\ MessagesAt(raw', conn', p) = <<>>
      BY <2>1, <2>2, <2>3, <2>4 DEF Spots, MessagesAt, n, f
    <3> QED BY <2>3, <2>4, <3>1 DEF Moved
  <2>5. CASE p \in Spots /\ f = socket_raw
    <3>1. p = Frames(n)
      BY <2>1, <2>5 DEF Spots, Frames, f
    <3>2. MessagesAt(raw', conn', p) = Image(raw'[n], OfFrame)
      BY <2>1, <2>5 DEF MessagesAt, Spots, n, f
    <3> QED BY <2>1, <3>1, <3>2, FramesMove
  <2>6. CASE p \in Spots /\ f # socket_raw
    <3>1. f \in DOMAIN conn[n]
      BY <2>6 DEF Spots, n, f
    <3>2. p[3] = "in" => MessagesAt(raw', conn', p) = Image(conn'[n][f].in, OfMessage)
      BY <2>3, <2>6, <3>1 DEF MessagesAt, n, f
    <3>3. p[3] = "out" => MessagesAt(raw', conn', p) = Image(conn'[n][f].out, OfMessage)
      BY <2>3, <2>6, <3>1 DEF MessagesAt, n, f
    <3>4. CASE p[3] = "in"
      <4>1. p = <<n, f, "in">>
        BY <2>1, <3>4
      <4>2. Image(conn'[n][f].in, OfMessage) =
              Moved(Text[<<n, f, "in">>], <<n, f, "in">>, from, to, y.of)
        BY <1>0, <2>1, <3>1 DEF Carried
      <4> QED BY <3>2, <3>4, <4>1, <4>2
    <3>5. CASE p[3] = "out"
      <4>1. p = <<n, f, "out">>
        BY <2>1, <3>5
      <4>2. Image(conn'[n][f].out, OfMessage) =
              Moved(Text[<<n, f, "out">>], <<n, f, "out">>, from, to, y.of)
        BY <1>0, <2>1, <3>1 DEF Carried
      <4> QED BY <3>3, <3>5, <4>1, <4>2
    <3> QED BY <2>1, <3>4, <3>5
  <2> QED BY <2>4, <2>5, <2>6
<1>2. Text' = [p \in Place |-> MessagesAt(raw', conn', p)]
  BY DEF Text
<1> DEFINE v == [p \in Place |-> y.of]
<1>3. MoveAll(Text, from, to, v) = [p \in Place |-> Moved(Text[p], p, from, to, y.of)]
  <2>1. DOMAIN Text = Place
    BY DEF Text
  <2> QED BY <2>1 DEF MoveAll
<1> QED BY <1>1, <1>2, <1>3

\* Whose messages are where, after a step: the one that has been put somewhere, and what
\* was there before.
TextFollows(from, to, y, k) ==
  /\ k # y.of \/ to = {} =>
       /\ Absent(Text, k) => Absent(Text', k)
       /\ Single(Text, k) => Single(Text', k)
       /\ Single(Text, k) /\ from \in Place /\ Head(Text[from]) = k => Absent(Text', k)
  /\ /\ \A p, q \in to : p = q
     /\ Absent(Text, k) \/ (Single(Text, k) /\ from \in Place /\ Head(Text[from]) = k)
     => Single(Text', k)

LEMMA OnceMoves ==
  ASSUME TypeOK, NEW from, NEW to, NEW frame, NEW y, Move(from, to, frame, y), NEW k
  PROVE  TextFollows(from, to, y, k)
<1> DEFINE D == Place
           V == Clients
           Q == Text
           R == Text'
           v == [p \in Place |-> y.of]
<1>1. /\ Q \in Maps(D, Seq(V)) /\ (from \in D => Q[from] # <<>>) /\ v \in Maps(D, V)
      /\ \A p \in D : v[p] = y.of
  BY TextType, OfType DEF Move, OfMessage, Maps, Sdu, Clients
<1>2. R = MoveAll(Q, from, to, v)
  BY TextMoves
<1> HIDE DEF D, V, Q, R, v
<1>3. MoveKept(D, Q, R, from, to, v, k)
  BY <1>1, <1>2, MoveKeeps
<1>4. k # y.of \/ to = {} => \A p \in D \cap to : v[p] # k
  BY <1>1
<1>5. (\A p, q \in to : p = q) => \A p, q \in D \cap to : v[p] = k /\ v[q] = k => p = q
  OBVIOUS
<1> QED BY <1>3, <1>4, <1>5 DEF MoveKept, TextFollows, D, Q, R

\* A new connection has no messages.
LEMMA NewText ==
  ASSUME TypeOK, NEW n \in Node, NEW app \in Ping \cup {"server"}, raw' = raw,
         conn' = [conn EXCEPT ![n] = Append(@, Opened(app))]
  PROVE  Text' = Text
<1>1. /\ conn'[n][Len(conn[n]) + 1] = Opened(app) /\ Len(conn'[n]) = Len(conn[n]) + 1
      /\ conn' \in [Node -> Seq(Connection)]
      /\ \A m \in Node : m # n => conn'[m] = conn[m]
      /\ \A m \in Node : \A g \in DOMAIN conn[m] :
              conn'[m][g] = conn[m][g] /\ g \in DOMAIN conn'[m]
  BY ConnNew
<1>2. DOMAIN conn'[n] = 1 .. Len(conn[n]) + 1 /\ DOMAIN conn[n] = 1 .. Len(conn[n])
      /\ Len(conn[n]) \in Nat
  BY <1>1, HostType
<1>3. Image(Opened(app).in, OfMessage) = <<>> /\ Image(Opened(app).out, OfMessage) = <<>>
  BY DEF Opened, Image
<1>4. ASSUME NEW p \in Place PROVE MessagesAt(raw', conn', p) = MessagesAt(raw, conn, p)
  <2> DEFINE m == p[1]
             f == p[2]
  <2>1. m \in Node
    BY PlaceKinds
  <2>2. CASE m # n
    BY <1>1, <2>1, <2>2 DEF MessagesAt
  <2>3. CASE m = n /\ f \in DOMAIN conn[n]
    BY <1>1, <2>1, <2>3 DEF MessagesAt
  <2>4. CASE m = n /\ f \notin DOMAIN conn[n] /\ f \notin DOMAIN conn'[n]
    BY <2>4 DEF MessagesAt
  <2>5. CASE m = n /\ f = Len(conn[n]) + 1
    <3>1. f \notin DOMAIN conn[n] /\ f \in DOMAIN conn'[n] /\ conn'[n][f] = Opened(app)
      BY <1>1, <1>2, <2>5
    <3> QED BY <1>3, <2>5, <3>1 DEF MessagesAt
  <2>6. f \in DOMAIN conn'[n] => f \in DOMAIN conn[n] \/ f = Len(conn[n]) + 1
    BY <1>2
  <2> QED BY <2>2, <2>3, <2>4, <2>5, <2>6
<1> QED BY <1>4 DEF Text

\* The ARP exchanges that are going on, by who asks and who is asked.
Ends(n, x) == IF x.type = "REQUEST" THEN <<x.src, n>>
              ELSE IF x.type = "RESPONSE" THEN <<n, x.src>> ELSE <<>>
EndsAt(n) == [x \in Frame |-> Ends(n, x)]
Asking == [p \in {Frames(n) : n \in Node} |-> Image(raw[p[1]], EndsAt(p[1]))]

LEMMA EndsType ==
  ASSUME NEW n \in Node
  PROVE  EndsAt(n) \in Maps(Frame, (Node \X Node) \cup {<<>>})
<1>1. \A x \in Frame : Ends(n, x) \in (Node \X Node) \cup {<<>>}
  BY DEF Ends, Frame
<1> QED BY <1>1 DEF EndsAt, Maps

LEMMA AskingType ==
  ASSUME TypeOK
  PROVE  Asking \in Maps({Frames(n) : n \in Node}, Seq((Node \X Node) \cup {<<>>}))
<1>1. ASSUME NEW n \in Node
      PROVE  Image(raw[n], EndsAt(n)) \in Seq((Node \X Node) \cup {<<>>})
  BY HostType, EndsType, ImageType
<1>2. \A n \in Node : Frames(n)[1] = n
  BY DEF Frames
<1> QED BY <1>1, <1>2 DEF Asking, Maps

AskingFollows(from, to, frame, e) ==
  /\ (\A n \in Node : Frames(n) \in to => Ends(n, frame) # e) =>
       /\ Absent(Asking, e) => Absent(Asking', e)
       /\ Single(Asking, e) => Single(Asking', e)
       /\ \A n \in Node : Single(Asking, e) /\ from = Frames(n) /\ Ends(n, Head(raw[n])) = e
                            => Absent(Asking', e)
  /\ /\ \A n, m \in Node : Frames(n) \in to /\ Frames(m) \in to
                           /\ Ends(n, frame) = e /\ Ends(m, frame) = e => n = m
     /\ \/ Absent(Asking, e)
        \/ \E n \in Node : Single(Asking, e) /\ from = Frames(n) /\ Ends(n, Head(raw[n])) = e
     => Single(Asking', e)

LEMMA AskingMoves ==
  ASSUME TypeOK, NEW from, NEW to, NEW frame, NEW y, Move(from, to, frame, y), NEW e
  PROVE  AskingFollows(from, to, frame, e)
<1> DEFINE D == {Frames(n) : n \in Node}
           V == (Node \X Node) \cup {<<>>}
           Q == Asking
           R == Asking'
           v == [p \in D |-> Ends(p[1], frame)]
<1>1. ASSUME NEW n \in Node
      PROVE  /\ Frames(n)[1] = n /\ Frames(n) \in D
             /\ raw[n] \in Seq(Frame) /\ raw'[n] = Moved(raw[n], Frames(n), from, to, frame)
             /\ Frames(n) = from => raw[n] # <<>>
             /\ frame \in Frame /\ EndsAt(n)[frame] = Ends(n, frame)
  <2>1. Text[Frames(n)] = Image(raw[n], OfFrame) /\ Image(<<>>, OfFrame) = <<>>
    BY TextAt DEF Image
  <2>2. raw[n] \in Seq(Frame) /\ Frames(n)[1] = n /\ Frames(n) \in Place
    BY HostType, PlaceKinds DEF Frames
  <2> QED BY <2>1, <2>2 DEF Move, FramesMoved, EndsAt
<1>2. ASSUME NEW n \in Node
      PROVE  Image(raw'[n], EndsAt(n)) = Moved(Image(raw[n], EndsAt(n)), Frames(n), from, to, Ends(n, frame))
  BY <1>1, EndsType, MovedImage
<1>3. /\ Q \in Maps(D, Seq(V)) /\ v \in Maps(D, V)
      /\ \A n \in Node : v[Frames(n)] = Ends(n, frame) /\ Q[Frames(n)] = Image(raw[n], EndsAt(n))
  <2>1. \A n \in Node : Ends(n, frame) \in V
    BY <1>1, EndsType DEF Maps
  <2> QED BY <1>1, <2>1, AskingType DEF Asking, Maps
<1>4. R = MoveAll(Q, from, to, v)
  <2>1. R = [p \in D |-> Image(raw'[p[1]], EndsAt(p[1]))]
    BY DEF Asking, EndsAt, Ends
  <2>2. \A n \in Node : Image(raw'[n], EndsAt(n)) = Moved(Q[Frames(n)], Frames(n), from, to, v[Frames(n)])
    BY <1>2, <1>3
  <2>3. DOMAIN Q = D
    BY DEF Asking
  <2> HIDE DEF R, Q, v
  <2> QED BY <1>1, <2>1, <2>2, <2>3 DEF MoveAll
<1>5. \A n \in Node : from = Frames(n) =>
        from \in D /\ Q[from] # <<>> /\ Head(Q[from]) = Ends(n, Head(raw[n]))
  <2> SUFFICES ASSUME NEW n \in Node, from = Frames(n)
               PROVE  from \in D /\ Q[from] # <<>> /\ Head(Q[from]) = Ends(n, Head(raw[n]))
    OBVIOUS
  <2>1. raw[n] \in Seq(Frame) /\ raw[n] # <<>> /\ EndsAt(n) \in Maps(Frame, V)
    BY <1>1, EndsType
  <2>2. Image(raw[n], EndsAt(n)) # <<>> /\ Head(Image(raw[n], EndsAt(n))) = EndsAt(n)[Head(raw[n])]
    BY <2>1, ImageTail
  <2>3. EndsAt(n)[Head(raw[n])] = Ends(n, Head(raw[n]))
    BY <2>1 DEF EndsAt
  <2> QED BY <1>1, <1>3, <2>2, <2>3
<1> HIDE DEF D, V, Q, R, v
<1>6. from \in D => Q[from] # <<>>
  BY <1>5 DEF D
<1>7. MoveKept(D, Q, R, from, to, v, e)
  BY <1>3, <1>4, <1>6, MoveKeeps
<1>8. (\A n \in Node : Frames(n) \in to => Ends(n, frame) # e) => \A p \in D \cap to : v[p] # e
  BY <1>3 DEF D
<1>9. (\A n, m \in Node : Frames(n) \in to /\ Frames(m) \in to
                            /\ Ends(n, frame) = e /\ Ends(m, frame) = e => n = m)
      => \A p, q \in D \cap to : v[p] = e /\ v[q] = e => p = q
  BY <1>3 DEF D
<1> QED BY <1>5, <1>7, <1>8, <1>9 DEF MoveKept, AskingFollows, Q, R


\* Nothing of k is anywhere.
LEMMA NowhereElse ==
  ASSUME TypeOK, NEW k, Absent(Text, k), NEW n \in Node
  PROVE  /\ \A x \in ToSet(raw[n]) : x.sdu.of # k
         /\ \A f \in DOMAIN conn[n] : /\ \A y \in ToSet(conn[n][f].in) : y.of # k
                                      /\ \A y \in ToSet(conn[n][f].out) : y.of # k
<1>1. \A p \in Place : \A i \in DOMAIN Text[p] : Text[p][i] # k
  BY DEF Absent, Text
<1>2. ASSUME NEW x \in ToSet(raw[n]) PROVE x.sdu.of # k
  <2>1. PICK i \in DOMAIN raw[n] : raw[n][i] = x
    BY DEF ToSet
  <2>2. raw[n] \in Seq(Frame) /\ Text[Frames(n)] = Image(raw[n], OfFrame) /\ Frames(n) \in Place
    BY HostType, TextAt, PlaceKinds
  <2>3. x \in Frame /\ i \in DOMAIN Text[Frames(n)] /\ Text[Frames(n)][i] = OfFrame[x]
    BY <2>1, <2>2 DEF Image
  <2> QED BY <1>1, <2>2, <2>3 DEF OfFrame
<1>3. ASSUME NEW f \in DOMAIN conn[n], NEW y \in ToSet(conn[n][f].in) PROVE y.of # k
  <2>1. PICK i \in DOMAIN conn[n][f].in : conn[n][f].in[i] = y
    BY DEF ToSet
  <2>2. /\ conn[n][f].in \in Seq(Sdu) /\ Text[<<n, f, "in">>] = Image(conn[n][f].in, OfMessage)
        /\ <<n, f, "in">> \in Place
    BY TextAt, PlaceKinds
  <2>3. y \in Sdu /\ i \in DOMAIN Text[<<n, f, "in">>] /\ Text[<<n, f, "in">>][i] = OfMessage[y]
    BY <2>1, <2>2 DEF Image
  <2> QED BY <1>1, <2>2, <2>3 DEF OfMessage
<1>4. ASSUME NEW f \in DOMAIN conn[n], NEW y \in ToSet(conn[n][f].out) PROVE y.of # k
  <2>1. PICK i \in DOMAIN conn[n][f].out : conn[n][f].out[i] = y
    BY DEF ToSet
  <2>2. /\ conn[n][f].out \in Seq(Sdu) /\ Text[<<n, f, "out">>] = Image(conn[n][f].out, OfMessage)
        /\ <<n, f, "out">> \in Place
    BY TextAt, PlaceKinds
  <2>3. y \in Sdu /\ i \in DOMAIN Text[<<n, f, "out">>] /\ Text[<<n, f, "out">>][i] = OfMessage[y]
    BY <2>1, <2>2 DEF Image
  <2> QED BY <1>1, <2>2, <2>3 DEF OfMessage
<1> QED BY <1>2, <1>3, <1>4

\* The heads of the queues.
LEMMA TextHeads ==
  ASSUME TypeOK, NEW n \in Node
  PROVE  /\ raw[n] # <<>> => /\ Frames(n) \in Place /\ Text[Frames(n)] # <<>>
                             /\ Head(Text[Frames(n)]) = Head(raw[n]).sdu.of
                             /\ Head(raw[n]) \in Frame /\ Head(raw[n]) \in ToSet(raw[n])
         /\ \A f \in DOMAIN conn[n] :
              /\ conn[n][f].in # <<>> =>
                   /\ <<n, f, "in">> \in Place /\ Text[<<n, f, "in">>] # <<>>
                   /\ Head(Text[<<n, f, "in">>]) = Head(conn[n][f].in).of
                   /\ Head(conn[n][f].in) \in Sdu
                   /\ Head(conn[n][f].in) \in ToSet(conn[n][f].in)
              /\ conn[n][f].out # <<>> =>
                   /\ <<n, f, "out">> \in Place /\ Text[<<n, f, "out">>] # <<>>
                   /\ Head(Text[<<n, f, "out">>]) = Head(conn[n][f].out).of
                   /\ Head(conn[n][f].out) \in Sdu
                   /\ Head(conn[n][f].out) \in ToSet(conn[n][f].out)
<1>1. ASSUME raw[n] # <<>>
      PROVE  /\ Frames(n) \in Place /\ Text[Frames(n)] # <<>>
             /\ Head(Text[Frames(n)]) = Head(raw[n]).sdu.of
             /\ Head(raw[n]) \in Frame /\ Head(raw[n]) \in ToSet(raw[n])
  <2>1. raw[n] \in Seq(Frame) /\ Text[Frames(n)] = Image(raw[n], OfFrame) /\ Frames(n) \in Place
    BY HostType, TextAt, PlaceKinds
  <2>2. Head(raw[n]) \in Frame /\ Head(raw[n]) = raw[n][1] /\ 1 \in DOMAIN raw[n]
    BY <1>1, <2>1, TailEffect
  <2>3. Image(raw[n], OfFrame) # <<>> /\ Head(Image(raw[n], OfFrame)) = OfFrame[Head(raw[n])]
    BY <1>1, <2>1, OfType, ImageTail
  <2> QED BY <2>1, <2>2, <2>3 DEF OfFrame, ToSet
<1>2. ASSUME NEW s \in Seq(Sdu), s # <<>>
      PROVE  /\ Image(s, OfMessage) # <<>> /\ Head(Image(s, OfMessage)) = Head(s).of
             /\ Head(s) \in Sdu /\ Head(s) \in ToSet(s)
  <2>1. Head(s) \in Sdu /\ Head(s) = s[1] /\ 1 \in DOMAIN s
    BY <1>2, TailEffect
  <2>2. Image(s, OfMessage) # <<>> /\ Head(Image(s, OfMessage)) = OfMessage[Head(s)]
    BY <1>2, OfType, ImageTail
  <2> QED BY <2>1, <2>2 DEF OfMessage, ToSet
<1>3. \A f \in DOMAIN conn[n] :
        /\ conn[n][f].in \in Seq(Sdu) /\ conn[n][f].out \in Seq(Sdu)
        /\ Text[<<n, f, "in">>] = Image(conn[n][f].in, OfMessage)
        /\ Text[<<n, f, "out">>] = Image(conn[n][f].out, OfMessage)
        /\ <<n, f, "in">> \in Place /\ <<n, f, "out">> \in Place
  BY TextAt, PlaceKinds
<1> QED BY <1>1, <1>2, <1>3


-----------------------------------------------------------------------------
(* What the messages say. *)

\* The PING of k, to a server next to it, has been sent.
Served(k) ==
  /\ k \in Ping /\ dst[k] \in ServerHosts /\ dst[k] \in Neighbours(host[k])
  /\ dst[k] \in arp_t[host[k]]
ServedAt(n, k) == Served(k) /\ dst[k] = n

\* A frame comes from an adjacent host.  Servers are asked, and not asking; and a PING or
\* PONG is on its way between the host of its client and the server.
FrameOK(n, x) ==
  LET k == x.sdu.of
  IN  /\ x.src \in Neighbours(n)
      /\ x.type = "REQUEST" => x.sdu = ZeroSdu /\ x.src \notin ServerHosts
      /\ x.type = "RESPONSE" => x.sdu = ZeroSdu /\ n \notin ServerHosts
      /\ x.type = "PING" =>
           /\ Served(k)
           /\ \/ n = dst[k] /\ x.src = host[k] /\ x.sdu = Message(dst[k], "PING", k)
              \/ n = host[k] /\ x.src = dst[k] /\ x.sdu = Message(host[k], "PONG", k)

\* A message on the connection of app, to (in) and from (out) mipd.
InOK(n, app, y) ==
  IF n \in ServerHosts THEN ServedAt(n, y.of) /\ y = Message(host[y.of], "PONG", y.of)
  ELSE y = Message(dst[app], "PING", app)
OutOK(n, app, y) ==
  IF n \in ServerHosts THEN ServedAt(n, y.of) /\ y = Message(host[y.of], "PING", y.of)
  ELSE y = Message(dst[app], "PONG", app) /\ Served(app)

Texts(n) ==
  /\ \A x \in ToSet(raw[n]) : FrameOK(n, x)
  /\ \A f \in DOMAIN conn[n] :
       /\ \A y \in ToSet(conn[n][f].in) : InOK(n, conn[n][f].app, y)
       /\ \A y \in ToSet(conn[n][f].out) : OutOK(n, conn[n][f].app, y)

\* The buffer of a daemon, where no server is: the message of a client, or what was left
\* of it when the answer came.
Buffered(n) ==
  \/ n \in ServerHosts
  \/ sdu[n] = ZeroSdu
  \/ sdu[n].of \in Ping /\ host[sdu[n].of] = n /\ sdu[n].mip_addr = dst[sdu[n].of]

\* A server's daemon knows who knows its host.
Arpd(n) ==
  /\ arp_t[n] \subseteq Neighbours(n)
  /\ \A s \in ServerHosts : s \in arp_t[n] => n \in arp_t[s]
  /\ \A x \in ToSet(raw[n]) :
       x.type = "RESPONSE" /\ x.src \in ServerHosts => n \in arp_t[x.src]

\* Only the message of a client that waits is anywhere, and that in one place.
Once == \A k \in Ping : Single(Text, k) /\ (client[k] # "waiting" => Absent(Text, k))

\* Server s is asked by n for one client at most, whose message is in the buffer of n
\* until the answer has come.
Asks(n, s, k) ==
  /\ host[k] = n /\ client[k] = "waiting"
  /\ conn[n][Len(conn[n])].in = <<>>
  /\ sdu[n] = Message(dst[k], "PING", k)
  /\ dst[k] \notin arp_t[n]
  /\ dst[k] = s => Single(Asking, <<n, s>>)
Pending(n, s) == Absent(Asking, <<n, s>>) \/ \E k \in Ping : Asks(n, s, k)

Answers == \A k \in Ping : client[k] = "answered" => answer[k] = Message(dst[k], "PONG", k)
AllRun == \A n \in Node : status[n] = "running"

At(n) == Texts(n) /\ Buffered(n) /\ Arpd(n) /\ \A s \in ServerHosts : Pending(n, s)
Passage == AllRun /\ ServersPinged /\ Answers /\ Once /\ \A n \in Node : At(n)

LEMMA NeighbourSym ==
  ASSUME NEW n \in Node, NEW m \in Neighbours(n)
  PROVE  m \in Node /\ m # n /\ n \in Neighbours(m)
<1>1. {n, m} = {m, n}
  OBVIOUS
<1> QED BY <1>1 DEF Neighbours

\* A message that is right stays so: hosts are learned, and none is forgotten.
LearnedMore ==
  /\ host' = host /\ dst' = dst
  /\ \A n \in Node : arp_t[n] \subseteq arp_t'[n]

LEMMA ServedStays ==
  ASSUME TypeOK, LearnedMore, NEW k, Served(k)
  PROVE  Served(k)'
<1>1. host[k] \in Node
  BY DEF Served, TypeOK
<1> QED BY <1>1 DEF Served, LearnedMore

LEMMA TextsMove ==
  ASSUME TypeOK, LearnedMore, NEW from, NEW to, NEW frame, NEW y, Move(from, to, frame, y),
         NEW n \in Node, Texts(n),
         Frames(n) \in to => FrameOK(n, frame)',
         \A f \in DOMAIN conn[n] : <<n, f, "in">> \in to => InOK(n, conn[n][f].app, y)',
         \A f \in DOMAIN conn[n] : <<n, f, "out">> \in to => OutOK(n, conn[n][f].app, y)'
  PROVE  Texts(n)'
<1>1. ASSUME NEW x \in ToSet(raw'[n]) PROVE FrameOK(n, x)'
  <2>1. x \in ToSet(raw[n]) \/ (Frames(n) \in to /\ x = frame)
    BY FramesMove
  <2>2. ASSUME FrameOK(n, x) PROVE FrameOK(n, x)'
    BY <2>2, ServedStays DEF FrameOK, LearnedMore
  <2> QED BY <2>1, <2>2 DEF Texts
<1>2. DOMAIN conn'[n] = DOMAIN conn[n] /\ \A f \in DOMAIN conn[n] : conn'[n][f].app = conn[n][f].app
  BY DEF Move, MessagesMoved
<1>3. Carried(from, to, y)
  BY MessagesMove
<1>4. ASSUME NEW f \in DOMAIN conn[n], NEW x \in ToSet(conn'[n][f].in)
      PROVE  InOK(n, conn[n][f].app, x)'
  <2>1. x \in ToSet(conn[n][f].in) \/ (<<n, f, "in">> \in to /\ x = y)
    BY <1>3 DEF Carried
  <2>2. ASSUME InOK(n, conn[n][f].app, x) PROVE InOK(n, conn[n][f].app, x)'
    <3> DEFINE app == conn[n][f].app
    <3>1. app = conn'[n][f].app
      BY <1>2
    <3> QED BY <2>2, <3>1, ServedStays DEF InOK, ServedAt, LearnedMore
  <2> QED BY <2>1, <2>2 DEF Texts
<1>5. ASSUME NEW f \in DOMAIN conn[n], NEW x \in ToSet(conn'[n][f].out)
      PROVE  OutOK(n, conn[n][f].app, x)'
  <2>1. x \in ToSet(conn[n][f].out) \/ (<<n, f, "out">> \in to /\ x = y)
    BY <1>3 DEF Carried
  <2>2. ASSUME OutOK(n, conn[n][f].app, x) PROVE OutOK(n, conn[n][f].app, x)'
    <3>1. conn[n][f].app = conn'[n][f].app
      BY <1>2
    <3> QED BY <2>2, <3>1, ServedStays DEF OutOK, ServedAt, LearnedMore
  <2> QED BY <2>1, <2>2 DEF Texts
<1> QED BY <1>1, <1>2, <1>4, <1>5 DEF Texts

\* Nobody has two clients that wait.
LEMMA OneWaiting ==
  ASSUME TypeOK, Promises, Alone, NEW j \in Ping, NEW k \in Ping, host[j] = host[k],
         client[j] \in {"connected", "waiting"}, client[k] \in {"connected", "waiting"}
  PROVE  j = k
<1> DEFINE n == host[k]
<1>1. n \in Node /\ n \notin ServerHosts
  BY DEF TypeOK, Alone, Started
<1>2. ASSUME NEW i \in Ping, host[i] = n, client[i] \in {"connected", "waiting"}
      PROVE  conn[n][Len(conn[n])].app = i
  <2>1. PICK f \in DOMAIN conn[n] : conn[n][f].app = i
    BY <1>2 DEF Promises
  <2>2. ClientConn(n, f)
    BY <1>1, <2>1 DEF Alone, Local, Apps
  <2>3. ~ (f < Len(conn[n]))
    BY <1>2, <2>1, <2>2 DEF ClientConn
  <2>4. f = Len(conn[n])
    BY <1>1, <2>3, HostType
  <2> QED BY <2>1, <2>4
<1> QED BY <1>2

\* The connection of a client that is connected or waits is the last one of its host.
LEMMA LastConn ==
  ASSUME TypeOK, Promises, Alone, NEW k \in Ping, client[k] \in {"connected", "waiting"},
         NEW n, n = host[k]
  PROVE  /\ n \in Node /\ n \notin ServerHosts /\ Len(conn[n]) \in DOMAIN conn[n]
         /\ conn[n][Len(conn[n])].app = k /\ Mine(k) = Len(conn[n])
         /\ conn[n][Len(conn[n])].open
         /\ \A f \in DOMAIN conn[n] : conn[n][f].app = k => f = Len(conn[n])
         /\ client[k] = "waiting" /\ conn[n][Len(conn[n])].in = <<>> => accepted[n] = Len(conn[n])
<1>1. n \in Node /\ n \notin ServerHosts
  BY DEF TypeOK, Alone, Started
<1>2. ASSUME NEW f \in DOMAIN conn[n], conn[n][f].app = k
      PROVE  /\ f = Len(conn[n]) /\ conn[n][f].open
             /\ client[k] = "waiting" /\ conn[n][f].in = <<>> => accepted[n] = f
  <2>1. ClientConn(n, f)
    BY <1>1 DEF Alone, Local, Apps
  <2>2. ~ (f < Len(conn[n])) /\ conn[n][f].open
        /\ (client[k] = "waiting" /\ conn[n][f].in = <<>> => f <= accepted[n])
    BY <1>2, <2>1 DEF ClientConn
  <2> QED BY <1>1, <2>2, HostType
<1>3. Mine(k) \in DOMAIN conn[n] /\ conn[n][Mine(k)].app = k
  BY MineEffect
<1> QED BY <1>1, <1>2, <1>3

\* A message that is anywhere is that of a client that waits.
LEMMA WhoseWaits ==
  ASSUME TypeOK, Once, NEW k \in Ping, NEW n \in Node,
         \/ \E x \in ToSet(raw[n]) : x.sdu.of = k
         \/ \E f \in DOMAIN conn[n] : \/ \E y \in ToSet(conn[n][f].in) : y.of = k
                                      \/ \E y \in ToSet(conn[n][f].out) : y.of = k
  PROVE  client[k] = "waiting"
<1>1. ~ Absent(Text, k)
  BY NowhereElse
<1> QED BY <1>1 DEF Once

LEMMA OnceStep ==
  ASSUME TypeOK, Once, NEW from, NEW to, NEW frame, NEW y, Move(from, to, frame, y),
         \A j \in Ping : client[j] = "waiting" /\ client'[j] # "waiting" =>
                           from \in Place /\ Head(Text[from]) = j /\ to = {},
         y.of \in Ping /\ to # {} =>
           /\ \A p, q \in to : p = q
           /\ client'[y.of] = "waiting"
           /\ Absent(Text, y.of) \/ (from \in Place /\ Head(Text[from]) = y.of)
  PROVE  Once'
<1> SUFFICES ASSUME NEW k \in Ping
             PROVE  Single(Text', k) /\ (client'[k] # "waiting" => Absent(Text', k))
  BY DEF Once
<1>1. TextFollows(from, to, y, k)
  BY OnceMoves
<1>2. Single(Text, k) /\ (client[k] # "waiting" => Absent(Text, k))
  BY DEF Once
<1>3. CASE k = y.of /\ to # {}
  BY <1>1, <1>2, <1>3 DEF TextFollows
<1>4. CASE k # y.of \/ to = {}
  BY <1>1, <1>2, <1>4 DEF TextFollows
<1> QED BY <1>3, <1>4



-----------------------------------------------------------------------------
(* What every step does to them. *)

\* Steps without a message.
LEMMA SamePassage ==
  ASSUME Passage, UNCHANGED <<raw, conn, sdu, arp_t, status, host, dst, client, answer>>
  PROVE  Passage'
<1>1. Text' = Text /\ Asking' = Asking
  BY DEF Text, MessagesAt, Asking, EndsAt, Ends
<1>2. AllRun' /\ ServersPinged' /\ Answers' /\ Once'
  BY <1>1 DEF Passage, AllRun, ServersPinged, Answers, Once
<1>3. \A k : Served(k)' <=> Served(k)
  BY DEF Served
<1>4. ASSUME NEW n \in Node PROVE At(n)'
  <2>1. Texts(n) /\ Buffered(n) /\ Arpd(n)
    BY DEF Passage, At
  <2>2. Texts(n)'
    BY <1>3, <2>1 DEF Texts, FrameOK, InOK, OutOK, ServedAt
  <2>3. Buffered(n)' /\ Arpd(n)'
    BY <2>1 DEF Buffered, Arpd
  <2>4. ASSUME NEW s \in ServerHosts PROVE Pending(n, s)'
    BY <1>1 DEF Passage, At, Pending, Asks
  <2> QED BY <2>2, <2>3, <2>4 DEF At
<1> QED BY <1>2, <1>4 DEF Passage

\* A process connects, on a host where no client waits.
LEMMA ConnectPassage ==
  ASSUME TypeOK, Passage, NEW n \in Node, NEW app \in Ping \cup {"server"}, Connect(n, app),
         answer' = answer,
         \A j \in Ping : client'[j] = client[j] \/ (client[j] = "idle" /\ client'[j] = "connected"),
         \A j \in Ping : host[j] = n => client[j] # "waiting"
  PROVE  Passage'
<1>1. /\ UNCHANGED <<status, sdu, arp_t, raw, host, dst>>
      /\ conn' = [conn EXCEPT ![n] = Append(@, Opened(app))]
  BY DEF Connect
<1>2. Text' = Text /\ Asking' = Asking
  BY <1>1, NewText DEF Asking, EndsAt, Ends
<1>3. AllRun' /\ ServersPinged' /\ Answers' /\ Once'
  BY <1>1, <1>2 DEF Passage, AllRun, ServersPinged, Answers, Once
<1>4. \A k : Served(k)' <=> Served(k)
  BY <1>1 DEF Served
<1>5. /\ conn'[n][Len(conn[n]) + 1] = Opened(app) /\ Len(conn'[n]) = Len(conn[n]) + 1
      /\ conn' \in [Node -> Seq(Connection)]
      /\ \A m \in Node : m # n => conn'[m] = conn[m]
      /\ \A m \in Node : \A g \in DOMAIN conn[m] :
              conn'[m][g] = conn[m][g] /\ g \in DOMAIN conn'[m]
  BY <1>1, ConnNew
<1>6. DOMAIN conn'[n] = 1 .. Len(conn[n]) + 1 /\ DOMAIN conn[n] = 1 .. Len(conn[n])
      /\ Len(conn[n]) \in Nat
  BY <1>5, HostType
<1>7. ToSet(<<>>) = {} /\ Opened(app).in = <<>> /\ Opened(app).out = <<>>
  BY DEF ToSet, Opened
<1>8. ASSUME NEW m \in Node PROVE At(m)'
  <2>1. Texts(m) /\ Buffered(m) /\ Arpd(m)
    BY DEF Passage, At
  <2>2. \A x \in ToSet(raw[m]) : FrameOK(m, x)'
    BY <1>1, <1>4, <2>1 DEF Texts, FrameOK
  <2>3. ASSUME NEW f \in DOMAIN conn'[m]
        PROVE  /\ \A y \in ToSet(conn'[m][f].in) : InOK(m, conn[m][f].app, y)'
               /\ \A y \in ToSet(conn'[m][f].out) : OutOK(m, conn[m][f].app, y)'
    <3>1. CASE f \in DOMAIN conn[m]
      <4>1. \A a, y : /\ InOK(m, a, y)' <=> InOK(m, a, y)
                      /\ OutOK(m, a, y)' <=> OutOK(m, a, y)
        BY <1>1, <1>4 DEF InOK, OutOK, ServedAt
      <4>2. conn'[m][f] = conn[m][f]
        BY <1>5, <3>1
      <4>3. PICK a : a = conn[m][f].app
        OBVIOUS
      <4>4. /\ \A y \in ToSet(conn'[m][f].in) : InOK(m, a, y)
            /\ \A y \in ToSet(conn'[m][f].out) : OutOK(m, a, y)
        BY <2>1, <3>1, <4>2, <4>3 DEF Texts
      <4> QED BY <4>1, <4>2, <4>3, <4>4
    <3>2. CASE f \notin DOMAIN conn[m]
      <4>1. m = n /\ f = Len(conn[n]) + 1
        BY <1>5, <1>6, <2>3, <3>2
      <4> QED BY <1>5, <1>7, <4>1
    <3> QED BY <3>1, <3>2
  <2>4. Texts(m)'
    BY <1>1, <2>2, <2>3 DEF Texts
  <2>5. Buffered(m)' /\ Arpd(m)'
    BY <1>1, <2>1 DEF Buffered, Arpd
  <2>6. ASSUME NEW s \in ServerHosts PROVE Pending(m, s)'
    <3>1. CASE Absent(Asking, <<m, s>>)
      BY <1>2, <3>1 DEF Pending
    <3>2. CASE ~ Absent(Asking, <<m, s>>)
      <4>1. PICK k \in Ping : Asks(m, s, k)
        BY <3>2 DEF Passage, At, Pending
      <4>2. m # n
        BY <4>1 DEF Asks
      <4>3. Asks(m, s, k)'
        BY <1>1, <1>2, <1>5, <4>1, <4>2 DEF Asks
      <4> QED BY <4>3 DEF Pending
    <3> QED BY <3>1, <3>2
  <2> QED BY <2>4, <2>5, <2>6 DEF At
<1> QED BY <1>3, <1>8 DEF Passage

LEMMA ServerConnectsPassage ==
  ASSUME TypeOK, Alone, Passage, NEW s \in ServerHosts, ServerConnects(s)
  PROVE  Passage'
<1>1. s \in Node /\ Connect(s, "server") /\ answer' = answer /\ client' = client
  BY PingAssumption DEF ServerConnects
<1>2. \A j \in Ping : host[j] = s => client[j] # "waiting"
  BY DEF Alone, Started
<1> QED BY <1>1, <1>2, ConnectPassage

LEMMA ClientConnectsPassage ==
  ASSUME TypeOK, OneByOne', Passage, NEW k \in Ping, ClientConnects(k)
  PROVE  Passage'
<1>1. /\ host[k] \in Node /\ Connect(host[k], k) /\ answer' = answer
      /\ client[k] = "idle" /\ client' = [client EXCEPT ![k] = "connected"]
  BY DEF ClientConnects, TypeOK
<1>2. OthersAt(k) = {}
  BY DEF ClientConnects, OneByOne
<1>3. \A j \in Ping : host[j] = host[k] => client[j] # "waiting"
  BY <1>1, <1>2 DEF OthersAt
<1>4. \A j \in Ping : client'[j] = client[j] \/ (client[j] = "idle" /\ client'[j] = "connected")
  BY <1>1 DEF TypeOK
<1> QED BY <1>1, <1>3, <1>4, ConnectPassage


\* One connection is read or written.
LEMMA ConnMoves ==
  ASSUME TypeOK, NEW n \in Node, NEW f \in DOMAIN conn[n], NEW c \in Connection,
         conn' = [conn EXCEPT ![n][f] = c], c.app = conn[n][f].app,
         NEW from, NEW to, NEW y,
         c.in = Moved(conn[n][f].in, <<n, f, "in">>, from, to, y),
         c.out = Moved(conn[n][f].out, <<n, f, "out">>, from, to, y),
         from \in {<<n, f, "in">>, <<n, f, "out">>, <<>>} \cup {Frames(m) : m \in Node},
         to \subseteq {<<n, f, "in">>, <<n, f, "out">>} \cup {Frames(m) : m \in Node}
  PROVE  MessagesMoved(from, to, y)
<1>1. /\ \A m \in Node : DOMAIN conn'[m] = DOMAIN conn[m] /\ Len(conn'[m]) = Len(conn[m])
      /\ conn'[n][f] = c
      /\ \A m \in Node : m # n => conn'[m] = conn[m]
      /\ \A m \in Node : \A g \in DOMAIN conn[m] :
              m # n \/ g # f => conn'[m][g] = conn[m][g]
  BY ConnSet
<1>2. ASSUME NEW m \in Node, NEW g \in DOMAIN conn[m]
      PROVE  /\ conn'[m][g].app = conn[m][g].app
             /\ conn'[m][g].in = Moved(conn[m][g].in, <<m, g, "in">>, from, to, y)
             /\ conn'[m][g].out = Moved(conn[m][g].out, <<m, g, "out">>, from, to, y)
  <2>1. CASE m = n /\ g = f
    BY <1>1, <2>1
  <2>2. CASE ~ (m = n /\ g = f)
    <3>1. conn'[m][g] = conn[m][g]
      BY <1>1, <2>2
    <3>2. g # socket_raw
      BY TextAt
    <3>3. /\ <<m, g, "in">> # from /\ <<m, g, "out">> # from
          /\ <<m, g, "in">> \notin to /\ <<m, g, "out">> \notin to
      BY <2>2, <3>2 DEF Frames
    <3> QED BY <3>1, <3>3 DEF Moved
  <2> QED BY <2>1, <2>2
<1> QED BY <1>1, <1>2 DEF MessagesMoved

\* The process at the other end of connection f of n reads a message or writes y, or does
\* both, and has nothing else anywhere; n asks for nothing.
Exchange(n, f, c, from, to, y) ==
  /\ Uses(n, f, c) /\ c.app = conn[n][f].app
  /\ c.in = Moved(conn[n][f].in, <<n, f, "in">>, from, to, y)
  /\ c.out = Moved(conn[n][f].out, <<n, f, "out">>, from, to, y)
  /\ from \in {<<n, f, "out">>, <<>>} /\ to \subseteq {<<n, f, "in">>}
  /\ from = <<n, f, "out">> => conn[n][f].out # <<>>
  /\ to # {} => InOK(n, conn[n][f].app, y)
  /\ \A j \in Ping : client[j] = "waiting" /\ client'[j] # "waiting" =>
                       from \in Place /\ Head(Text[from]) = j /\ to = {}
  /\ y.of \in Ping /\ to # {} =>
       /\ client'[y.of] = "waiting"
       /\ Absent(Text, y.of) \/ (from \in Place /\ Head(Text[from]) = y.of)
  /\ \A s \in ServerHosts : \A j \in Ping : ~ Asks(n, s, j)
  /\ \A j \in Ping : client'[j] = client[j] \/ host[j] = n

LEMMA UsesPassage ==
  ASSUME TypeOK, Passage, Answers', NEW n \in Node, NEW f \in DOMAIN conn[n], NEW c \in Connection,
         NEW from, NEW to, NEW y \in Sdu, Exchange(n, f, c, from, to, y)
  PROVE  Passage'
<1> USE DEF Exchange
<1>1. /\ UNCHANGED <<status, sdu, arp_t, raw, host, dst>>
      /\ conn' = [conn EXCEPT ![n][f] = c]
  BY DEF Uses
<1> DEFINE frame == PingFrame(n, y)
<1>2. frame \in Frame /\ frame.sdu = y
  BY DEF PingFrame, Frame
<1>3. MessagesMoved(from, to, y)
  BY <1>1, ConnMoves
<1>4. f \in Int /\ f # socket_raw /\ <<n, f, "in">> \in Place /\ <<n, f, "out">> \in Place
  BY TextAt, PlaceKinds
<1>5. \A m \in Node : Frames(m) # from /\ Frames(m) \notin to
  BY <1>4 DEF Frames
<1>6. FramesMoved(from, to, frame)
  BY <1>1, <1>5 DEF FramesMoved, Moved
<1>7. from \in Place => Text[from] # <<>>
  <2>1. /\ conn[n][f].in # <<>> => Text[<<n, f, "in">>] # <<>>
        /\ conn[n][f].out # <<>> => Text[<<n, f, "out">>] # <<>>
    BY TextHeads
  <2>2. <<>> \notin Place
    BY DEF Place
  <2> QED BY <2>1, <2>2
<1>8. <<n, f, "in">> \in Spots /\ <<n, f, "out">> \in Spots
  BY <1>4 DEF Spots
<1> HIDE DEF frame
<1>9. Move(from, to, frame, y)
  BY <1>2, <1>3, <1>6, <1>7, <1>8 DEF Move
<1>10. Once'
  BY <1>9, OnceStep DEF Passage
<1>11. LearnedMore
  BY <1>1 DEF LearnedMore
<1>12. Asking' = Asking
  BY <1>1 DEF Asking, EndsAt, Ends
<1>13. ASSUME NEW m \in Node PROVE At(m)'
  <2>1. Texts(m) /\ Buffered(m) /\ Arpd(m)
    BY DEF Passage, At
  <2>2. Texts(m)'
    <3>1. ASSUME NEW g \in DOMAIN conn[m], <<m, g, "in">> \in to
          PROVE  InOK(m, conn[m][g].app, y)'
      <4>1. m = n /\ g = f
        BY <3>1
      <4>2. conn'[m][g].app = conn[m][g].app /\ InOK(m, conn[m][g].app, y)
        BY <1>3, <3>1, <4>1 DEF MessagesMoved
      <4> QED BY <1>1, <4>2, ServedStays, <1>11 DEF InOK, ServedAt
    <3>2. \A g : <<m, g, "out">> \notin to
      OBVIOUS
    <3>3. Frames(m) \notin to
      BY <1>5
    <3> QED BY <1>9, <1>11, <2>1, <3>1, <3>2, <3>3, TextsMove
  <2>3. Buffered(m)' /\ Arpd(m)'
    BY <1>1, <2>1 DEF Buffered, Arpd
  <2>4. ASSUME NEW s \in ServerHosts PROVE Pending(m, s)'
    <3>1. CASE Absent(Asking, <<m, s>>)
      BY <1>12, <3>1 DEF Pending
    <3>2. CASE ~ Absent(Asking, <<m, s>>)
      <4>1. PICK k \in Ping : Asks(m, s, k)
        BY <3>2 DEF Passage, At, Pending
      <4>2. m # n /\ host[k] = m
        BY <4>1 DEF Asks
      <4>3. conn'[m] = conn[m]
        BY <1>1, <4>2, ConnSet
      <4>4. Asks(m, s, k)'
        BY <1>1, <1>12, <4>1, <4>2, <4>3 DEF Asks
      <4> QED BY <4>4 DEF Pending
    <3> QED BY <3>1, <3>2
  <2> QED BY <2>2, <2>3, <2>4 DEF At
<1>14. AllRun' /\ ServersPinged'
  BY <1>1 DEF Passage, AllRun, ServersPinged
<1> QED BY <1>10, <1>13, <1>14 DEF Passage


\* The server answers the PING with its PONG.
LEMMA ServerAnswersPassage ==
  ASSUME TypeOK, Promises, Alone, Passage, NEW s \in ServerHosts, ServerAnswers(s)
  PROVE  Passage'
<1>1. PICK f : f = accepted[s]
  OBVIOUS
<1> DEFINE c == conn[s][f]
           y == [Head(c.out) EXCEPT !.payload = "PONG"]
           d == [c EXCEPT !.out = Tail(@), !.in = Append(@, y)]
           from == <<s, f, "out">>
           to == {<<s, f, "in">>}
<1>2. c.out # <<>> /\ f = LastOf(s, "server") /\ Uses(s, f, d) /\ UNCHANGED <<client, answer>>
  BY <1>1, ServerReads DEF ServerAnswers
<1>3. f \in DOMAIN conn[s] /\ c \in Connection /\ s \in Node
  BY <1>1, <1>2, ServerReads, PingAssumption DEF ServerAnswers
<1> HIDE DEF c
<1>4. /\ Head(c.out) \in Sdu /\ Tail(c.out) \in Seq(Sdu) /\ Head(c.out) \in ToSet(c.out)
      /\ from \in Place /\ Head(Text[from]) = Head(c.out).of
  BY <1>2, <1>3, ReadType, TextHeads DEF c
<1>5. OutOK(s, c.app, Head(c.out))
  BY <1>3, <1>4 DEF Passage, At, Texts, c
<1> DEFINE k == Head(c.out).of
<1>6. /\ ServedAt(s, k) /\ Head(c.out) = Message(host[k], "PING", k) /\ k \in Ping
  BY <1>5 DEF OutOK, ServedAt, Served
<1>7. y = Message(host[k], "PONG", k)
  BY <1>6 DEF Message
<1>8. y \in Sdu /\ y.of = k /\ y = Message(host[y.of], "PONG", y.of)
  BY <1>4, <1>6, <1>7 DEF Sdu, Message
<1> HIDE DEF y
<1>9. InOK(s, c.app, y)
  BY <1>6, <1>8 DEF InOK
<1>10. client[k] = "waiting"
  <2>1. \E x \in ToSet(conn[s][f].out) : x.of = k
    BY <1>4 DEF c
  <2> HIDE DEF k
  <2> QED BY <1>3, <1>6, <2>1, WhoseWaits DEF Passage
<1>11. Append(c.in, y) \in Seq(Sdu)
  BY <1>3, <1>8 DEF Connection
<1>12. /\ d \in Connection /\ d.app = c.app
       /\ d.in = Append(c.in, y) /\ d.out = Tail(c.out)
  BY <1>3, <1>4, <1>11 DEF Connection
<1> HIDE DEF d
<1>13. /\ d.in = Moved(c.in, <<s, f, "in">>, from, to, y)
       /\ d.out = Moved(c.out, <<s, f, "out">>, from, to, y)
  BY <1>12 DEF Moved
<1>14. \A j \in Ping : \A t \in ServerHosts : ~ Asks(s, t, j)
  BY DEF Asks, Alone, Started
<1>15. Answers'
  BY <1>2 DEF Passage, Answers, Uses
<1>16. from \in {<<s, f, "out">>, <<>>} /\ to \subseteq {<<s, f, "in">>}
  OBVIOUS
<1>17. Head(Text[from]) = y.of /\ client'[y.of] = "waiting"
  BY <1>2, <1>4, <1>8, <1>10
<1> HIDE DEF k, from, to
<1>18. Exchange(s, f, d, from, to, y)
  BY <1>2, <1>3, <1>4, <1>8, <1>9, <1>12, <1>13, <1>14, <1>16, <1>17 DEF Exchange, c
<1> QED BY <1>3, <1>8, <1>12, <1>15, <1>18, UsesPassage

\* A client sends its message.
LEMMA ClientSendsPassage ==
  ASSUME TypeOK, Promises, Alone, Passage, NEW k \in Ping, ClientSends(k)
  PROVE  Passage'
<1>1. PICK n \in Node : host[k] = n
  BY DEF TypeOK
<1>2. PICK f : f = Mine(k)
  OBVIOUS
<1>3. PICK y \in Sdu : y = Message(dst[k], "PING", k)
  BY DEF Message, Sdu, TypeOK
<1> DEFINE c == conn[n][f]
           d == [c EXCEPT !.in = Append(@, y)]
           from == <<>>
           to == {<<n, f, "in">>}
<1>4. /\ Uses(n, f, d) /\ client[k] = "connected" /\ client' = [client EXCEPT ![k] = "waiting"]
      /\ answer' = answer
  BY <1>1, <1>2, <1>3 DEF ClientSends
<1>5. n \notin ServerHosts /\ f = Len(conn[n]) /\ f \in DOMAIN conn[n] /\ c.app = k
  BY <1>1, <1>2, <1>4, LastConn
<1>6. c \in Connection
  BY <1>5, HostType
<1> HIDE DEF c
<1>7. d \in Connection /\ d.app = c.app /\ d.in = Append(c.in, y) /\ d.out = c.out
  <2>1. Append(c.in, y) \in Seq(Sdu)
    BY <1>6 DEF Connection
  <2> QED BY <1>6, <2>1 DEF Connection
<1> HIDE DEF d
<1>8. InOK(n, c.app, y) /\ y.of = k
  BY <1>3, <1>5 DEF InOK, Message, c
<1>9. Absent(Text, k)
  BY <1>4 DEF Passage, Once
<1>10. client'[k] = "waiting" /\ \A j \in Ping : j # k => client'[j] = client[j]
  BY <1>4 DEF TypeOK
<1>11. \A j \in Ping : \A s \in ServerHosts : ~ Asks(n, s, j)
  <2> SUFFICES ASSUME NEW j \in Ping, host[j] = n, client[j] = "waiting" PROVE FALSE
    BY DEF Asks
  <2> QED BY <1>1, <1>4, OneWaiting
<1>12. /\ d.in = Moved(c.in, <<n, f, "in">>, from, to, y)
       /\ d.out = Moved(c.out, <<n, f, "out">>, from, to, y)
  BY <1>7 DEF Moved
<1>13. Answers'
  BY <1>4, <1>10 DEF Passage, Answers, Uses
<1>14. from \in {<<n, f, "out">>, <<>>} /\ to \subseteq {<<n, f, "in">>} /\ from # <<n, f, "out">>
  OBVIOUS
<1>15. \A j \in Ping : client'[j] = client[j] \/ host[j] = n
  BY <1>1, <1>10
<1>16. \A j \in Ping : ~ (client[j] = "waiting" /\ client'[j] # "waiting")
  BY <1>10
<1> HIDE DEF from, to
<1>17. Exchange(n, f, d, from, to, y)
  BY <1>4, <1>5, <1>7, <1>8, <1>9, <1>10, <1>11, <1>12, <1>14, <1>15, <1>16 DEF Exchange, c
<1> QED BY <1>5, <1>7, <1>13, <1>17, UsesPassage

\* A client reads its answer, and no other message.
LEMMA ClientReadsPassage ==
  ASSUME TypeOK, Promises, Alone, Passage, NEW k \in Ping, ClientReads(k)
  PROVE  Passage'
<1>1. PICK n \in Node : host[k] = n
  BY DEF TypeOK
<1>2. PICK f : f = Mine(k)
  OBVIOUS
<1> DEFINE c == conn[n][f]
           d == [c EXCEPT !.out = Tail(@), !.open = FALSE]
           from == <<n, f, "out">>
           to == {}
           y == Head(c.out)
<1>3. /\ Uses(n, f, d) /\ client[k] = "waiting" /\ client' = [client EXCEPT ![k] = "answered"]
      /\ c.out # <<>> /\ answer' = [answer EXCEPT ![k] = y]
  BY <1>1, <1>2 DEF ClientReads
<1>4. n \notin ServerHosts /\ f = Len(conn[n]) /\ f \in DOMAIN conn[n] /\ c.app = k
  BY <1>1, <1>2, <1>3, LastConn
<1>5. c \in Connection
  BY <1>4, HostType
<1> HIDE DEF c
<1>6. /\ y \in Sdu /\ Tail(c.out) \in Seq(Sdu) /\ y \in ToSet(c.out)
      /\ from \in Place /\ Head(Text[from]) = y.of
  BY <1>3, <1>4, <1>5, ReadType, TextHeads DEF c
<1>7. d \in Connection /\ d.app = c.app /\ d.in = c.in /\ d.out = Tail(c.out)
  BY <1>5, <1>6 DEF Connection
<1> HIDE DEF d
<1>8. OutOK(n, k, y)
  BY <1>4, <1>6 DEF Passage, At, Texts, c
<1>9. y = Message(dst[k], "PONG", k) /\ Served(k)
  BY <1>4, <1>8 DEF OutOK
<1>10. y.of = k
  BY <1>9 DEF Message
<1>11. client'[k] = "answered" /\ \A j \in Ping : j # k => client'[j] = client[j]
  BY <1>3 DEF TypeOK
<1>12. \A j \in Ping : \A s \in ServerHosts : ~ Asks(n, s, j)
  <2> SUFFICES ASSUME NEW j \in Ping, host[j] = n, client[j] = "waiting", dst[j] \notin arp_t[n]
               PROVE  FALSE
    BY DEF Asks
  <2>1. j = k
    BY <1>1, <1>3, OneWaiting
  <2> QED BY <1>1, <1>9, <2>1 DEF Served
<1> HIDE DEF y
<1>13. /\ d.in = Moved(c.in, <<n, f, "in">>, from, to, y)
       /\ d.out = Moved(c.out, <<n, f, "out">>, from, to, y)
  BY <1>7 DEF Moved
<1>14. Answers'
  <2>1. answer'[k] = y /\ \A j \in Ping : j # k => answer'[j] = answer[j]
    BY <1>3 DEF TypeOK
  <2> QED BY <1>3, <1>9, <1>11, <2>1 DEF Passage, Answers, Uses
<1>15. from \in {<<n, f, "out">>, <<>>} /\ to = {}
  OBVIOUS
<1>16. \A j \in Ping : client'[j] = client[j] \/ host[j] = n
  BY <1>1, <1>11
<1>17. \A j \in Ping : client[j] = "waiting" /\ client'[j] # "waiting" => j = y.of
  BY <1>10, <1>11
<1> HIDE DEF from, to
<1>18. Exchange(n, f, d, from, to, y)
  BY <1>3, <1>4, <1>6, <1>7, <1>12, <1>13, <1>15, <1>16, <1>17 DEF Exchange, c
<1> QED BY <1>4, <1>6, <1>7, <1>14, <1>18, UsesPassage

\* The places where the hosts in B hear frames.
Hearing(B) == {Frames(m) : m \in B}

LEMMA HearingPlaces ==
  ASSUME TypeOK, NEW B, B \subseteq Node
  PROVE  /\ \A m \in Node : Frames(m) \in Hearing(B) <=> m \in B
         /\ \A m \in Node : \A f \in DOMAIN conn[m] :
              /\ <<m, f, "in">> \notin Hearing(B) /\ <<m, f, "out">> \notin Hearing(B)
              /\ \A q \in Node : <<m, f, "in">> # Frames(q) /\ <<m, f, "out">> # Frames(q)
         /\ Hearing(B) \subseteq Spots
<1>1. \A m, q : Frames(m) = Frames(q) => m = q
  BY DEF Frames
<1>2. \A m \in Node : \A f \in DOMAIN conn[m] : f # socket_raw
  BY TextAt
<1>3. ASSUME NEW m \in B PROVE Frames(m) \in Spots
  <2>1. Frames(m) \in Place
    BY PlaceKinds
  <2> QED BY <2>1 DEF Spots, Frames
<1> QED BY <1>1, <1>2, <1>3 DEF Hearing, Frames

LEMMA HeardMoves ==
  ASSUME TypeOK, NEW n \in Node, NEW B, B \subseteq Node, NEW frame, NEW rest,
         Heard(n, rest, B, frame), NEW from,
         rest = IF from = Frames(n) THEN Tail(raw[n]) ELSE raw[n],
         \A m \in Node : m # n => from # Frames(m)
  PROVE  FramesMoved(from, Hearing(B), frame)
<1> SUFFICES ASSUME NEW m \in Node
             PROVE  raw'[m] = Moved(raw[m], Frames(m), from, Hearing(B), frame)
  BY DEF FramesMoved
<1>1. Frames(m) \in Hearing(B) <=> m \in B
  BY HearingPlaces
<1>2. raw'[m] = IF m \in B THEN Append(IF m = n THEN rest ELSE raw[m], frame)
                ELSE IF m = n THEN rest ELSE raw[m]
  BY DEF Heard
<1> QED BY <1>1, <1>2 DEF Moved

\* A frame is read, and an answer sent.
LEMMA ReplyMoves ==
  ASSUME TypeOK, NEW n \in Node, raw[n] # <<>>, NEW B, B \subseteq Node, NEW frame \in Frame,
         Heard(n, Tail(raw[n]), B, frame), conn' = conn
  PROVE  Move(Frames(n), Hearing(B), frame, frame.sdu)
<1>1. FramesMoved(Frames(n), Hearing(B), frame)
  <2>1. \A m \in Node : m # n => Frames(n) # Frames(m)
    BY DEF Frames
  <2>2. PICK rest : rest = Tail(raw[n])
    OBVIOUS
  <2> QED BY <2>1, <2>2, HeardMoves
<1>2. MessagesMoved(Frames(n), Hearing(B), frame.sdu)
  BY HearingPlaces DEF MessagesMoved, Moved
<1>3. frame.sdu \in Sdu
  BY DEF Frame
<1>4. Text[Frames(n)] # <<>> /\ Hearing(B) \subseteq Spots
  BY TextHeads, HearingPlaces
<1> QED BY <1>1, <1>2, <1>3, <1>4 DEF Move

\* Hosts have learned more, and a message or frame has moved; what it says is right.
Moves(from, to, frame, y) ==
  /\ Move(from, to, frame, y) /\ LearnedMore
  /\ UNCHANGED <<status, client, answer>>
  /\ y.of \in Ping /\ to # {} =>
       /\ \A p, q \in to : p = q
       /\ client[y.of] = "waiting"
       /\ Absent(Text, y.of) \/ (from \in Place /\ Head(Text[from]) = y.of)
Says(n, to, frame, y) ==
  /\ Frames(n) \in to => FrameOK(n, frame)'
  /\ \A f \in DOMAIN conn[n] :
       <<n, f, "in">> \notin to /\ (<<n, f, "out">> \in to => OutOK(n, conn[n][f].app, y)')
Knows(n, to, frame) ==
  /\ arp_t'[n] \subseteq Neighbours(n)
  /\ \A s \in ServerHosts : s \in arp_t'[n] => n \in arp_t'[s]
  /\ Frames(n) \in to /\ frame.type = "RESPONSE" /\ frame.src \in ServerHosts =>
       n \in arp_t'[frame.src]

LEMMA MovesPassage ==
  ASSUME TypeOK, Passage, NEW from, NEW to, NEW frame, NEW y, Moves(from, to, frame, y),
         \A n \in Node : Says(n, to, frame, y) /\ Knows(n, to, frame) /\ Buffered(n)',
         \A n \in Node : \A s \in ServerHosts : Pending(n, s)'
  PROVE  Passage'
<1>1. Move(from, to, frame, y) /\ LearnedMore /\ UNCHANGED <<status, client, answer>>
  BY DEF Moves
<1>2. Once'
  BY <1>1, OnceStep DEF Moves, Passage
<1>3. AllRun' /\ ServersPinged' /\ Answers'
  BY <1>1 DEF Passage, AllRun, ServersPinged, Answers, LearnedMore
<1>4. ASSUME NEW n \in Node PROVE At(n)'
  <2>1. Texts(n) /\ Arpd(n)
    BY DEF Passage, At
  <2>2. Says(n, to, frame, y) /\ Knows(n, to, frame) /\ Buffered(n)'
        /\ \A s \in ServerHosts : Pending(n, s)'
    OBVIOUS
  <2>3. Texts(n)'
    BY <1>1, <2>1, <2>2, TextsMove DEF Says
  <2>4. Arpd(n)'
    <3>1. \A x \in ToSet(raw'[n]) : x \in ToSet(raw[n]) \/ (Frames(n) \in to /\ x = frame)
      BY <1>1, FramesMove
    <3>2. \A s \in ServerHosts : arp_t[s] \subseteq arp_t'[s]
      BY <1>1, PingAssumption DEF LearnedMore
    <3> QED BY <2>1, <2>2, <3>1, <3>2 DEF Arpd, Knows
  <2> QED BY <2>2, <2>3, <2>4 DEF At
<1> QED BY <1>2, <1>3, <1>4 DEF Passage

\* Who is asked is adjacent.
LEMMA AskedNeighbour ==
  ASSUME TypeOK, Passage, NEW n \in Node, NEW s, ~ Absent(Asking, <<n, s>>)
  PROVE  s \in Neighbours(n)
<1>1. PICK m \in Node : \E i \in DOMAIN Asking[Frames(m)] : Asking[Frames(m)][i] = <<n, s>>
  BY DEF Absent, Asking
<1>2. PICK i \in DOMAIN Asking[Frames(m)] : Asking[Frames(m)][i] = <<n, s>>
  BY <1>1
<1>3. Asking[Frames(m)] = Image(raw[m], EndsAt(m))
  BY DEF Asking, Frames
<1>4. PICK x \in ToSet(raw[m]) : Ends(m, x) = <<n, s>>
  <2>1. i \in DOMAIN raw[m] /\ EndsAt(m)[raw[m][i]] = <<n, s>>
    BY <1>2, <1>3 DEF Image
  <2>2. raw[m][i] \in Frame /\ raw[m][i] \in ToSet(raw[m])
    BY <2>1, HostType DEF ToSet
  <2>3. Ends(m, raw[m][i]) = <<n, s>>
    BY <2>1, <2>2 DEF EndsAt
  <2> QED BY <2>2, <2>3
<1>5. x.src \in Neighbours(m)
  BY DEF Passage, At, Texts, FrameOK
<1>6. CASE n = x.src /\ s = m
  BY <1>5, <1>6, NeighbourSym
<1>7. CASE n = m /\ s = x.src
  BY <1>5, <1>7
<1> QED BY <1>4, <1>6, <1>7 DEF Ends

\* The frame that is read is one of them.
LEMMA AskingHead ==
  ASSUME TypeOK, NEW n \in Node, raw[n] # <<>>
  PROVE  ~ Absent(Asking, Ends(n, Head(raw[n])))
<1>1. raw[n] \in Seq(Frame) /\ EndsAt(n) \in Maps(Frame, (Node \X Node) \cup {<<>>})
  BY HostType, EndsType
<1>2. Asking[Frames(n)] = Image(raw[n], EndsAt(n)) /\ Frames(n) \in DOMAIN Asking
  BY DEF Asking, Frames
<1>3. /\ DOMAIN Image(raw[n], EndsAt(n)) = 1 .. Len(raw[n])
      /\ \A i \in 1 .. Len(raw[n]) : Image(raw[n], EndsAt(n))[i] = EndsAt(n)[raw[n][i]]
  BY <1>1, ImageType
<1>4. /\ 1 \in 1 .. Len(raw[n]) /\ Head(raw[n]) = raw[n][1] /\ Head(raw[n]) \in Frame
  BY <1>1, TailEffect
<1>5. Asking[Frames(n)][1] = Ends(n, Head(raw[n])) /\ 1 \in DOMAIN Asking[Frames(n)]
  BY <1>2, <1>3, <1>4 DEF EndsAt
<1> QED BY <1>2, <1>5 DEF Absent

\* Of who is asked nothing changes at another host, and of what is asked for there.
LEMMA AsksElsewhere ==
  ASSUME TypeOK, NEW m \in Node, NEW s \in ServerHosts, Pending(m, s),
         host' = host, dst' = dst, client' = client,
         conn'[m] = conn[m], sdu'[m] = sdu[m],
         \A j \in Ping : Asks(m, s, j) => dst[j] \notin arp_t'[m],
         /\ Absent(Asking, <<m, s>>) => Absent(Asking', <<m, s>>)
         /\ Single(Asking, <<m, s>>) => Single(Asking', <<m, s>>)
  PROVE  Pending(m, s)'
<1>1. CASE Absent(Asking, <<m, s>>)
  BY <1>1 DEF Pending
<1>2. CASE ~ Absent(Asking, <<m, s>>)
  <2>1. PICK j \in Ping : Asks(m, s, j)
    BY <1>2 DEF Pending
  <2>2. Asks(m, s, j)'
    BY <2>1 DEF Asks
  <2> QED BY <2>2 DEF Pending
<1> QED BY <1>1, <1>2

\* A REQUEST is answered, whoever it asks for.
LEMMA RequestPassage ==
  ASSUME TypeOK, Passage, NEW n \in Node, raw[n] # <<>>, NEW x, x = Head(raw[n]),
         x.type = "REQUEST", NEW B \in SUBSET {x.src},
         Heard(n, Tail(raw[n]), B, Arp("RESPONSE", n)),
         arp_t' = [arp_t EXCEPT ![n] = @ \cup {x.src}],
         UNCHANGED <<status, sdu, conn, host, dst, client, answer>>
  PROVE  Passage'
<1> DEFINE from == Frames(n)
           to == Hearing(B)
<1>1. PICK frame : frame = Arp("RESPONSE", n)
  OBVIOUS
<1>2. /\ frame \in Frame /\ frame.type = "RESPONSE" /\ frame.src = n
      /\ frame.sdu = ZeroSdu /\ ZeroSdu.of = NoPing
  BY <1>1, HostType, FrameTypes DEF Arp, ZeroSdu, Message
<1>3. x \in ToSet(raw[n]) /\ FrameOK(n, x)
  BY TextHeads DEF Passage, At, Texts
<1>4. PICK src : src = x.src
  OBVIOUS
<1>5. /\ src \in Neighbours(n) /\ src \notin ServerHosts /\ src \in Node
      /\ n \in Neighbours(src) /\ B \subseteq {src} /\ src # n
  BY <1>3, <1>4, NeighbourSym DEF FrameOK
<1>6. /\ arp_t'[n] = arp_t[n] \cup {src}
      /\ \A m \in Node : m # n => arp_t'[m] = arp_t[m]
  BY <1>4 DEF TypeOK
<1>7. Move(from, to, frame, ZeroSdu)
  BY <1>1, <1>2, <1>5, ReplyMoves
<1>8. LearnedMore
  BY <1>6 DEF LearnedMore
<1>9. \A m \in Node : Frames(m) \in to => m = src
  BY <1>5, HearingPlaces
<1>10. Moves(from, to, frame, ZeroSdu)
  BY <1>2, <1>7, <1>8, NoPingAssumption DEF Moves
<1>11. ASSUME NEW m \in Node PROVE Says(m, to, frame, ZeroSdu)
  <2>1. Frames(m) \in to => FrameOK(m, frame)'
    BY <1>2, <1>5, <1>9 DEF FrameOK
  <2>2. \A f \in DOMAIN conn[m] : <<m, f, "in">> \notin to /\ <<m, f, "out">> \notin to
    BY <1>5, HearingPlaces
  <2> QED BY <2>1, <2>2 DEF Says
<1>12. ASSUME NEW m \in Node PROVE Knows(m, to, frame)
  <2>1. Arpd(m)
    BY DEF Passage, At
  <2>2. arp_t'[m] \subseteq Neighbours(m)
    BY <1>5, <1>6, <2>1 DEF Arpd
  <2>3. \A s \in ServerHosts : s \in Node /\ (s \in arp_t'[m] => m \in arp_t'[s])
    BY <1>5, <1>6, <2>1, PingAssumption DEF Arpd
  <2>4. Frames(m) \in to => m \in arp_t'[frame.src]
    BY <1>2, <1>6, <1>9
  <2> QED BY <2>2, <2>3, <2>4 DEF Knows
<1>13. ASSUME NEW m \in Node PROVE Buffered(m)'
  BY DEF Passage, At, Buffered
<1>14. Ends(n, x) = <<src, n>> /\ \A m \in Node : Frames(m) \in to => Ends(m, frame) = <<src, n>>
  BY <1>2, <1>4, <1>9 DEF Ends
<1>15. ASSUME NEW m \in Node, NEW s \in ServerHosts PROVE Pending(m, s)'
  <2>1. AskingFollows(from, to, frame, <<m, s>>)
    BY <1>7, AskingMoves
  <2>2. \A j \in Ping : Asks(m, s, j) => dst[j] \notin arp_t'[m]
    <3> SUFFICES ASSUME NEW j \in Ping, Asks(m, s, j) PROVE dst[j] \notin arp_t'[m]
      OBVIOUS
    <3>1. host[j] = m /\ dst[j] \notin arp_t[m]
      BY DEF Asks
    <3>2. m = n => dst[j] # src
      BY <1>5, <3>1 DEF Passage, ServersPinged
    <3> QED BY <1>6, <3>1, <3>2
  <2>3. Pending(m, s)
    BY DEF Passage, At
  <2>4. CASE <<m, s>> # <<src, n>>
    <3>1. /\ Absent(Asking, <<m, s>>) => Absent(Asking', <<m, s>>)
          /\ Single(Asking, <<m, s>>) => Single(Asking', <<m, s>>)
      BY <1>14, <2>1, <2>4 DEF AskingFollows
    <3> QED BY <2>2, <2>3, <3>1, AsksElsewhere
  <2>5. CASE m = src /\ s = n
    <3>1. ~ Absent(Asking, <<m, s>>)
      BY <1>14, <2>5, AskingHead
    <3>2. Single(Asking, <<m, s>>) => Single(Asking', <<m, s>>)
      <4>1. \A p, q \in Node : Frames(p) \in to /\ Frames(q) \in to => p = q
        BY <1>9
      <4> QED BY <1>14, <2>1, <2>5, <4>1 DEF AskingFollows
    <3> QED BY <2>2, <2>3, <3>1, <3>2, AsksElsewhere
  <2> QED BY <2>4, <2>5
<1> HIDE DEF to, from
<1> QED BY <1>10, <1>11, <1>12, <1>13, <1>15, MovesPassage

\* What a learned sender of a RESPONSE changes for the daemons' knowledge.
LEMMA ResponseKnown ==
  ASSUME TypeOK, Passage, NEW n \in Node, NEW x \in ToSet(raw[n]), x.type = "RESPONSE",
         arp_t' = [arp_t EXCEPT ![n] = @ \cup {x.src}], host' = host, dst' = dst
  PROVE  /\ LearnedMore /\ x.src \in Neighbours(n) /\ n \notin ServerHosts
         /\ arp_t'[n] = arp_t[n] \cup {x.src}
         /\ \A m \in Node : m # n => arp_t'[m] = arp_t[m]
         /\ \A m \in Node : /\ arp_t'[m] \subseteq Neighbours(m)
                             /\ \A s \in ServerHosts : s \in arp_t'[m] => m \in arp_t'[s]
<1>1. PICK src : src = x.src
  OBVIOUS
<1>2. src \in Neighbours(n) /\ src \in Node /\ n \notin ServerHosts
      /\ (src \in ServerHosts => n \in arp_t[src])
  BY <1>1, NeighbourSym DEF Passage, At, Texts, FrameOK, Arpd
<1>3. /\ arp_t'[n] = arp_t[n] \cup {src}
      /\ \A m \in Node : m # n => arp_t'[m] = arp_t[m]
  BY <1>1, <1>2 DEF TypeOK
<1>4. LearnedMore
  BY <1>3 DEF LearnedMore
<1>5. ASSUME NEW m \in Node
      PROVE  /\ arp_t'[m] \subseteq Neighbours(m)
             /\ \A s \in ServerHosts : s \in arp_t'[m] => m \in arp_t'[s]
  <2>1. arp_t[m] \subseteq Neighbours(m) /\ \A s \in ServerHosts : s \in arp_t[m] => m \in arp_t[s]
    BY DEF Passage, At, Arpd
  <2>2. \A s \in ServerHosts : s \in Node /\ arp_t[s] \subseteq arp_t'[s]
    BY <1>3, PingAssumption
  <2> QED BY <1>2, <1>3, <2>1, <2>2
<1> QED BY <1>1, <1>2, <1>3, <1>4, <1>5

\* A RESPONSE is read that the message in the buffer does not wait for.
LEMMA UnwantedPassage ==
  ASSUME TypeOK, Passage, NEW n \in Node, raw[n] # <<>>, NEW x, x = Head(raw[n]),
         x.type = "RESPONSE", x.src # sdu[n].mip_addr,
         NEW B, B = {}, NEW frame \in Frame, Heard(n, Tail(raw[n]), B, frame),
         arp_t' = [arp_t EXCEPT ![n] = @ \cup {x.src}],
         UNCHANGED <<status, sdu, conn, host, dst, client, answer>>
  PROVE  Passage'
<1> DEFINE from == Frames(n)
           to == Hearing(B)
<1>1. x \in ToSet(raw[n])
  BY TextHeads
<1>2. /\ LearnedMore /\ arp_t'[n] = arp_t[n] \cup {x.src}
      /\ \A m \in Node : m # n => arp_t'[m] = arp_t[m]
      /\ \A m \in Node : /\ arp_t'[m] \subseteq Neighbours(m)
                          /\ \A s \in ServerHosts : s \in arp_t'[m] => m \in arp_t'[s]
  BY <1>1, ResponseKnown
<1>3. Move(from, to, frame, frame.sdu)
  BY ReplyMoves
<1>4. to = {}
  BY DEF Hearing
<1>5. Moves(from, to, frame, frame.sdu)
  BY <1>2, <1>3, <1>4 DEF Moves
<1> HIDE DEF from, to
<1>6. ASSUME NEW m \in Node
      PROVE  Says(m, to, frame, frame.sdu) /\ Knows(m, to, frame) /\ Buffered(m)'
  <2>1. Buffered(m)'
    BY DEF Passage, At, Buffered
  <2> QED BY <1>2, <1>4, <2>1 DEF Says, Knows
<1>7. ASSUME NEW m \in Node, NEW s \in ServerHosts PROVE Pending(m, s)'
  <2>1. AskingFollows(from, to, frame, <<m, s>>)
    BY <1>3, AskingMoves
  <2>2. \A j \in Ping : Asks(m, s, j) => dst[j] \notin arp_t'[m]
    <3> SUFFICES ASSUME NEW j \in Ping, Asks(m, s, j) PROVE dst[j] \notin arp_t'[m]
      OBVIOUS
    <3>1. dst[j] \notin arp_t[m] /\ sdu[m].mip_addr = dst[j]
      BY DEF Asks, Message
    <3> QED BY <1>2, <3>1
  <2>3. Pending(m, s)
    BY DEF Passage, At
  <2>4. /\ Absent(Asking, <<m, s>>) => Absent(Asking', <<m, s>>)
        /\ Single(Asking, <<m, s>>) => Single(Asking', <<m, s>>)
    BY <1>4, <2>1 DEF AskingFollows
  <2> QED BY <2>2, <2>3, <2>4, AsksElsewhere
<1> QED BY <1>5, <1>6, <1>7, MovesPassage

\* A client's message that has not been sent, and is not in its connection any more, is
\* nowhere but in the buffer.
LEMMA UnsentAbsent ==
  ASSUME TypeOK, Promises, Alone, Passage, NEW k \in Ping, NEW n, n = host[k],
         client[k] = "waiting", ~ Served(k), conn[n][Len(conn[n])].in = <<>>
  PROVE  Absent(Text, k)
<1>1. ASSUME NEW p \in Place, NEW i \in DOMAIN Text[p], Text[p][i] = k PROVE FALSE
  <2> DEFINE m == p[1]
             f == p[2]
  <2>1. m \in Node /\ (p[3] = "in" \/ p[3] = "out") /\ p = <<m, f, p[3]>>
    BY PlaceKinds
  <2>2. Texts(m)
    BY <2>1 DEF Passage, At
  <2>3. Text[p] = MessagesAt(raw, conn, p)
    BY DEF Text
  <2> HIDE DEF m, f
  <2>4. p[1] = m /\ p[2] = f
    BY DEF m, f
  <2>5. CASE f = socket_raw
    <3>1. Text[p] = Image(raw[m], OfFrame)
      BY <1>1, <2>3, <2>4, <2>5 DEF MessagesAt
    <3>2. i \in DOMAIN raw[m] /\ OfFrame[raw[m][i]] = k
      BY <1>1, <3>1 DEF Image
    <3>3. raw[m][i] \in Frame /\ raw[m][i] \in ToSet(raw[m])
      BY <2>1, <3>2, HostType DEF ToSet
    <3>4. raw[m][i].sdu.of = k /\ FrameOK(m, raw[m][i])
      BY <2>2, <3>2, <3>3 DEF OfFrame, Texts
    <3>5. ZeroSdu.of # k
      BY NoPingAssumption DEF ZeroSdu, Message
    <3>6. raw[m][i].type \in {"REQUEST", "RESPONSE", "PING"}
      BY <3>3 DEF Frame
    <3> QED BY <3>4, <3>5, <3>6 DEF FrameOK
  <2>6. CASE f # socket_raw
    <3>1. f \in DOMAIN conn[m]
      BY <1>1, <2>3, <2>4, <2>6 DEF MessagesAt
    <3>2. conn[m][f].in \in Seq(Sdu) /\ conn[m][f].out \in Seq(Sdu)
      BY <2>1, <3>1, TextAt
    <3>4. CASE p[3] = "in"
      <4>1. Text[p] = Image(conn[m][f].in, OfMessage)
        BY <2>3, <2>4, <2>6, <3>1, <3>4 DEF MessagesAt
      <4>2. i \in DOMAIN conn[m][f].in /\ OfMessage[conn[m][f].in[i]] = k
        BY <1>1, <4>1 DEF Image
      <4>3. conn[m][f].in[i] \in Sdu /\ conn[m][f].in[i] \in ToSet(conn[m][f].in)
        BY <3>2, <4>2 DEF ToSet
      <4>4. conn[m][f].in[i].of = k /\ InOK(m, conn[m][f].app, conn[m][f].in[i])
        BY <2>2, <3>1, <4>2, <4>3 DEF OfMessage, Texts
      <4>5. m \notin ServerHosts /\ conn[m][f].app = k
        BY <4>4 DEF InOK, ServedAt, Message
      <4>6. ClientConn(m, f)
        BY <2>1, <3>1, <4>5 DEF Alone, Local, Apps
      <4>7. m = n
        BY <4>5, <4>6 DEF ClientConn
      <4>8. f = Len(conn[n])
        BY <3>1, <4>5, <4>7, LastConn
      <4> QED BY <4>2, <4>7, <4>8
    <3>5. CASE p[3] = "out"
      <4>1. Text[p] = Image(conn[m][f].out, OfMessage)
        BY <2>3, <2>4, <2>6, <3>1, <3>5 DEF MessagesAt
      <4>2. i \in DOMAIN conn[m][f].out /\ OfMessage[conn[m][f].out[i]] = k
        BY <1>1, <4>1 DEF Image
      <4>3. conn[m][f].out[i] \in Sdu /\ conn[m][f].out[i] \in ToSet(conn[m][f].out)
        BY <3>2, <4>2 DEF ToSet
      <4>4. conn[m][f].out[i].of = k /\ OutOK(m, conn[m][f].app, conn[m][f].out[i])
        BY <2>2, <3>1, <4>2, <4>3 DEF OfMessage, Texts
      <4> QED BY <4>4 DEF OutOK, ServedAt, Message
    <3> QED BY <2>1, <3>4, <3>5
  <2> QED BY <2>5, <2>6
<1>2. DOMAIN Text = Place
  BY DEF Text
<1> QED BY <1>1, <1>2 DEF Absent

\* A RESPONSE is read that the message in the buffer waits for: it is sent.
LEMMA WantedPassage ==
  ASSUME TypeOK, Promises, Alone, Passage, NEW n \in Node, raw[n] # <<>>, NEW x, x = Head(raw[n]),
         x.type = "RESPONSE", x.src = sdu[n].mip_addr,
         NEW B \in SUBSET {x.src}, Heard(n, Tail(raw[n]), B, PingFrame(n, sdu[n])),
         arp_t' = [arp_t EXCEPT ![n] = @ \cup {x.src}],
         UNCHANGED <<status, sdu, conn, host, dst, client, answer>>
  PROVE  Passage'
<1> DEFINE from == Frames(n)
           to == Hearing(B)
<1>1. x \in ToSet(raw[n])
  BY TextHeads
<1>2. /\ LearnedMore /\ arp_t'[n] = arp_t[n] \cup {x.src} /\ x.src \in Neighbours(n)
      /\ n \notin ServerHosts
      /\ \A m \in Node : m # n => arp_t'[m] = arp_t[m]
      /\ \A m \in Node : /\ arp_t'[m] \subseteq Neighbours(m)
                          /\ \A s \in ServerHosts : s \in arp_t'[m] => m \in arp_t'[s]
  BY <1>1, ResponseKnown
<1>3. PICK src \in Neighbours(n) : x.src = src
  BY <1>2
<1>4. src \in Node /\ n \in Neighbours(src) /\ src # n
  BY NeighbourSym
<1>5. src \in ServerHosts
  <2>0. ZeroSdu.mip_addr = NoAddr
    BY DEF ZeroSdu, Message
  <2>1. sdu[n] # ZeroSdu
    BY <1>3, <1>4, <2>0, NoAddrAssumption
  <2>2. /\ sdu[n].of \in Ping /\ host[sdu[n].of] = n /\ sdu[n].mip_addr = dst[sdu[n].of]
    BY <1>2, <2>1 DEF Passage, At, Buffered
  <2> QED BY <1>3, <2>2 DEF Passage, ServersPinged
<1>6. Ends(n, x) = <<n, src>> /\ ~ Absent(Asking, <<n, src>>)
  <2>1. Ends(n, x) = <<n, src>>
    BY <1>3 DEF Ends
  <2> QED BY <2>1, AskingHead
<1>7. PICK k \in Ping : Asks(n, src, k)
  BY <1>5, <1>6 DEF Passage, At, Pending
<1>8. /\ host[k] = n /\ client[k] = "waiting" /\ conn[n][Len(conn[n])].in = <<>>
      /\ sdu[n] = Message(src, "PING", k) /\ dst[k] = src /\ dst[k] \notin arp_t[n]
      /\ Single(Asking, <<n, src>>)
  <2>1. Message(dst[k], "PING", k).mip_addr = dst[k]
    BY DEF Message
  <2> QED BY <1>3, <1>7, <2>1 DEF Asks
<1>9. PICK y \in Sdu : y = sdu[n]
  BY HostType
<1>10. PICK frame \in Frame : frame = PingFrame(n, y)
  BY FrameTypes
<1>11. frame.type = "PING" /\ frame.src = n /\ frame.sdu = y /\ y.of = k
       /\ y = Message(src, "PING", k)
  BY <1>8, <1>9, <1>10 DEF PingFrame, Message
<1>12. Move(from, to, frame, y)
  <2>1. B \subseteq Node /\ Heard(n, Tail(raw[n]), B, frame)
    BY <1>3, <1>4, <1>9, <1>10
  <2> QED BY <1>11, <2>1, ReplyMoves
<1>13. \A m \in Node : Frames(m) \in to => m = src
  BY <1>3, <1>4, HearingPlaces
<1>14. Absent(Text, k)
  <2>1. ~ Served(k)
    BY <1>8 DEF Served
  <2> QED BY <1>8, <2>1, UnsentAbsent
<1>15. \A p, q \in to : p = q
  BY DEF Hearing
<1> HIDE DEF from, to
<1>16. Moves(from, to, frame, y)
  BY <1>2, <1>8, <1>11, <1>12, <1>14, <1>15 DEF Moves
<1>17. ASSUME NEW m \in Node
       PROVE  Says(m, to, frame, y) /\ Knows(m, to, frame) /\ Buffered(m)'
  <2>1. Buffered(m)'
    BY DEF Passage, At, Buffered
  <2>2. Served(k)'
    BY <1>2, <1>3, <1>5, <1>8 DEF Served
  <2>3. m = src => FrameOK(m, frame)'
    BY <1>4, <1>8, <1>11, <2>2 DEF FrameOK
  <2>4. \A f \in DOMAIN conn[m] : <<m, f, "in">> \notin to /\ <<m, f, "out">> \notin to
    BY <1>3, <1>4, HearingPlaces DEF to
  <2> QED BY <1>2, <1>11, <1>13, <2>1, <2>3, <2>4 DEF Says, Knows
<1>18. ASSUME NEW m \in Node, NEW s \in ServerHosts PROVE Pending(m, s)'
  <2>1. AskingFollows(from, to, frame, <<m, s>>)
    BY <1>12, AskingMoves
  <2>2. \A p \in Node : Ends(p, frame) = <<>> /\ <<>> # <<m, s>>
    BY <1>11 DEF Ends
  <2>3. Pending(m, s)
    BY DEF Passage, At
  <2>4. /\ Absent(Asking, <<m, s>>) => Absent(Asking', <<m, s>>)
        /\ Single(Asking, <<m, s>>) => Single(Asking', <<m, s>>)
        /\ m = n /\ s = src => Absent(Asking', <<m, s>>)
    BY <1>6, <1>8, <2>1, <2>2 DEF AskingFollows, from
  <2>5. CASE m # n
    <3>1. \A j \in Ping : Asks(m, s, j) => dst[j] \notin arp_t'[m]
      BY <1>2, <2>5 DEF Asks
    <3> QED BY <2>3, <2>4, <3>1, AsksElsewhere
  <2>6. CASE m = n
    <3>1. CASE s = src
      BY <2>4, <2>6, <3>1 DEF Pending
    <3>2. CASE s # src
      <4>1. s \notin Neighbours(n)
        BY <1>3, <1>5, <3>2, ServerAssumption
      <4>2. Absent(Asking, <<m, s>>)
        BY <2>6, <4>1, AskedNeighbour
      <4> QED BY <2>4, <4>2 DEF Pending
    <3> QED BY <3>1, <3>2
  <2> QED BY <2>5, <2>6
<1> QED BY <1>16, <1>17, <1>18, MovesPassage

LEMMA ArpPassage ==
  ASSUME TypeOK, Promises, Alone, Passage, NEW n \in Node, handle_mip_arp(n), UNCHANGED appVars
  PROVE  Passage'
<1> DEFINE frame == Head(raw[n])
           rest == Tail(raw[n])
           wanted == frame.type = "RESPONSE" /\ frame.src = sdu[n].mip_addr
           reply == IF frame.type = "REQUEST" THEN Arp("RESPONSE", n) ELSE PingFrame(n, sdu[n])
           to == IF frame.type = "REQUEST" \/ wanted THEN {frame.src} ELSE {}
<1>1. /\ event[n] = socket_raw /\ frame.type # "PING"
      /\ arp_t' = [arp_t EXCEPT ![n] = @ \cup {frame.src}]
      /\ Transmit(n, rest, to, reply)
      /\ UNCHANGED <<status, sdu, conn, host, dst, client, answer>>
  BY DEF handle_mip_arp, Handling, Learned, appVars
<1>2. /\ raw[n] # <<>> /\ frame \in Frame /\ rest \in Seq(Frame) /\ frame.src \in Node
  BY <1>1, ReadFrame
<1>3. reply \in Frame /\ to \subseteq Node
  BY <1>2, FrameTypes DEF TypeOK
<1> HIDE DEF frame, rest, reply, to
<1>4. PICK B \in SUBSET to : Heard(n, rest, B, reply)
  BY <1>1, <1>2, <1>3, TransmitEffect
<1>5. PICK x \in Frame : x = frame
  BY <1>2
<1>6. CASE x.type = "REQUEST"
  <2>1. to = {x.src} /\ reply = Arp("RESPONSE", n)
    BY <1>5, <1>6 DEF to, reply
  <2>2. B \in SUBSET {x.src} /\ Heard(n, Tail(raw[n]), B, Arp("RESPONSE", n))
    BY <1>4, <2>1 DEF rest
  <2> QED BY <1>1, <1>2, <1>5, <1>6, <2>2, RequestPassage DEF frame
<1>7. CASE x.type = "RESPONSE" /\ x.src = sdu[n].mip_addr
  <2>1. to = {x.src} /\ reply = PingFrame(n, sdu[n])
    BY <1>5, <1>7 DEF to, reply, wanted
  <2>2. B \in SUBSET {x.src} /\ Heard(n, Tail(raw[n]), B, PingFrame(n, sdu[n]))
    BY <1>4, <2>1 DEF rest
  <2> QED BY <1>1, <1>2, <1>5, <1>7, <2>2, WantedPassage DEF frame
<1>8. CASE x.type = "RESPONSE" /\ x.src # sdu[n].mip_addr
  <2>1. to = {}
    BY <1>5, <1>8 DEF to, wanted
  <2>2. PICK z \in Frame : z = reply
    BY <1>3
  <2>3. B = {} /\ Heard(n, Tail(raw[n]), B, z)
    BY <1>4, <2>1, <2>2 DEF rest
  <2> QED BY <1>1, <1>2, <1>5, <1>8, <2>3, UnwantedPassage DEF frame
<1>9. x.type \in {"REQUEST", "RESPONSE"}
  BY <1>1, <1>5 DEF Frame
<1> QED BY <1>6, <1>7, <1>8, <1>9

\* Nobody's message is at the head of two queues.
LEMMA TwoPlaces ==
  ASSUME TypeOK, NEW k, Single(Text, k), NEW p \in Place, NEW q \in Place,
         Text[p] # <<>>, Text[q] # <<>>, Head(Text[p]) = k, Head(Text[q]) = k
  PROVE  p = q
<1>1. Text[p] \in Seq(Clients) /\ Text[q] \in Seq(Clients) /\ DOMAIN Text = Place
  BY TextType DEF Maps, Text
<1>2. /\ Head(Text[p]) = Text[p][1] /\ 1 \in DOMAIN Text[p]
      /\ Head(Text[q]) = Text[q][1] /\ 1 \in DOMAIN Text[q]
  BY <1>1, TailEffect
<1> QED BY <1>1, <1>2 DEF Single

\* A PING or PONG that has come to its host finds the connection it is for: that of the
\* server, or of the client that waits for it.
PingFinds(n, x, f) ==
  LET k == x.sdu.of
  IN  /\ f \in DOMAIN conn[n] /\ conn[n][f] \in Connection /\ conn[n][f].open
      /\ Served(k) /\ client[k] = "waiting"
      /\ OutOK(n, conn[n][f].app, [x.sdu EXCEPT !.mip_addr = x.src])
      /\ n \in ServerHosts \/ (host[k] = n /\ x.src = dst[k])

LEMMA PingArrives ==
  ASSUME TypeOK, Promises, Alone, Passage, NEW n \in Node, event[n] = socket_raw,
         NEW x, x = Head(raw[n]), x.type = "PING"
  PROVE  PingFinds(n, x, socket_data[n]) /\ socket_data[n] # -1
<1>1. raw[n] # <<>> /\ x \in Frame /\ x.sdu \in Sdu
  BY ReadFrame
<1>2. x \in ToSet(raw[n]) /\ FrameOK(n, x) /\ Head(Text[Frames(n)]) = x.sdu.of
      /\ Text[Frames(n)] # <<>> /\ Frames(n) \in Place
  BY <1>1, TextHeads DEF Passage, At, Texts
<1>3. PICK k : k = x.sdu.of
  OBVIOUS
<1>4. k \in Ping /\ Served(k)
      /\ \/ n = dst[k] /\ x.src = host[k] /\ x.sdu = Message(dst[k], "PING", k)
         \/ n = host[k] /\ x.src = dst[k] /\ x.sdu = Message(host[k], "PONG", k)
  BY <1>2, <1>3 DEF FrameOK, Served
<1>5. client[k] = "waiting"
  BY <1>2, <1>3, <1>4, WhoseWaits DEF Passage
<1>6. PICK y : y = [x.sdu EXCEPT !.mip_addr = x.src]
  OBVIOUS
<1>7. CASE n = dst[k] /\ x.src = host[k] /\ x.sdu = Message(dst[k], "PING", k)
  <2>1. n \in ServerHosts /\ y = Message(host[k], "PING", k)
    BY <1>4, <1>6, <1>7 DEF Served, Message
  <2>2. y.of = k
    BY <2>1 DEF Message
  <2>3. server[n] # "off"
    BY <1>1, <2>1, AllStarted
  <2>4. Local(n) /\ ServerTurns(n)
    BY <2>1 DEF Alone, Local
  <2>5. accepted[n] # 0
    BY <2>3, <2>4, Descriptors DEF ServerTurns
  <2>6. socket_data[n] # -1
    <3>1. socket_data[n] = accepted[n] /\ accepted[n] \in Nat
      BY <2>5, HostType DEF TypeOK
    <3> QED BY <3>1
  <2>7. socket_data[n] \in DOMAIN conn[n] /\ conn[n][socket_data[n]] \in Connection
    BY <2>6, SocketType
  <2>8. conn[n][socket_data[n]].open
    BY <2>1, <2>4, <2>7 DEF Local, Apps, ServerConn
  <2>9. \A a : OutOK(n, a, y)
    BY <1>4, <1>7, <2>1, <2>2 DEF OutOK, ServedAt
  <2> QED BY <1>3, <1>4, <1>5, <1>6, <2>1, <2>6, <2>7, <2>8, <2>9 DEF PingFinds
<1>8. CASE n = host[k] /\ x.src = dst[k] /\ x.sdu = Message(host[k], "PONG", k)
  <2>1. y = Message(dst[k], "PONG", k)
    BY <1>6, <1>8 DEF Message
  <2>2. PICK f : f = Len(conn[n])
    OBVIOUS
  <2>3. /\ n \notin ServerHosts /\ f \in DOMAIN conn[n] /\ conn[n][f].app = k /\ conn[n][f].open
        /\ conn[n][f].in = <<>> => accepted[n] = f
    BY <1>4, <1>5, <1>8, <2>2, LastConn
  <2>4. conn[n][f].in = <<>>
    <3> SUFFICES ASSUME conn[n][f].in # <<>> PROVE FALSE
      OBVIOUS
    <3>1. /\ <<n, f, "in">> \in Place /\ Text[<<n, f, "in">>] # <<>>
          /\ Head(Text[<<n, f, "in">>]) = Head(conn[n][f].in).of
          /\ Head(conn[n][f].in) \in ToSet(conn[n][f].in)
      BY <2>3, TextHeads
    <3>2. InOK(n, k, Head(conn[n][f].in))
      BY <2>3, <3>1 DEF Passage, At, Texts
    <3>3. Head(conn[n][f].in).of = k
      BY <2>3, <3>2 DEF InOK, Message
    <3>4. Frames(n) # <<n, f, "in">>
      BY <2>3, TextAt DEF Frames
    <3>5. Single(Text, k)
      BY <1>4 DEF Passage, Once
    <3> QED BY <1>2, <1>3, <3>1, <3>3, <3>4, <3>5, TwoPlaces
  <2>5. accepted[n] = f /\ f \in Nat /\ f > 0
    BY <2>3, <2>4, HostType
  <2>6. socket_data[n] = f /\ socket_data[n] # -1
    <3>1. socket_data[n] = IF accepted[n] = 0 THEN -1 ELSE accepted[n]
      BY DEF TypeOK
    <3> QED BY <2>5, <3>1
  <2>7. OutOK(n, k, y)
    BY <1>4, <2>1, <2>3 DEF OutOK
  <2>8. conn[n][f] \in Connection
    BY <2>3, HostType
  <2> QED BY <1>3, <1>4, <1>5, <1>6, <1>8, <2>3, <2>6, <2>7, <2>8 DEF PingFinds
<1> QED BY <1>4, <1>7, <1>8

LEMMA PingPassage ==
  ASSUME TypeOK, Promises, Alone, Passage, NEW n \in Node, handle_mip_ping(n), UNCHANGED appVars
  PROVE  Passage'
<1>1. event[n] = socket_raw /\ Head(raw[n]).type = "PING" /\ UNCHANGED <<arp_t, host, dst, client, answer>>
  BY DEF handle_mip_ping, Handling, appVars
<1>2. PICK x \in Frame : x = Head(raw[n])
  BY <1>1, ReadFrame
<1>3. PICK f : f = socket_data[n]
  OBVIOUS
<1>4. PingFinds(n, x, f) /\ f # -1
  BY <1>1, <1>2, <1>3, PingArrives
<1>5. PICK k : k = x.sdu.of
  OBVIOUS
<1>6. PICK y : y = [x.sdu EXCEPT !.mip_addr = x.src]
  OBVIOUS
<1>7. /\ y \in Sdu /\ y.of = k /\ y.mip_addr = x.src
  BY <1>2, <1>5, <1>6 DEF Frame, Sdu
<1> DEFINE c == conn[n][f]
           d == [c EXCEPT !.out = Append(@, y), !.used = TRUE]
           from == Frames(n)
           to == {<<n, f, "out">>}
<1>8. /\ f \in DOMAIN conn[n] /\ c \in Connection /\ c.open /\ Served(k)
      /\ client[k] = "waiting" /\ OutOK(n, c.app, y)
      /\ n \in ServerHosts \/ (host[k] = n /\ x.src = dst[k])
  BY <1>4, <1>5, <1>6 DEF PingFinds
<1>9. /\ sdu' = [sdu EXCEPT ![n] = y]
      /\ raw' = [raw EXCEPT ![n] = Tail(@)]
      /\ conn' = [conn EXCEPT ![n][f].out = Append(@, y), ![n][f].used = TRUE]
      /\ status' = status
  BY <1>2, <1>3, <1>4, <1>6, <1>8 DEF handle_mip_ping
<1>10. conn' = [conn EXCEPT ![n][f] = d]
  BY <1>9
<1> HIDE DEF c
<1>11. Append(c.out, y) \in Seq(Sdu)
  BY <1>7, <1>8 DEF Connection
<1>12. d \in Connection /\ d.app = c.app /\ d.in = c.in /\ d.out = Append(c.out, y)
  BY <1>8, <1>11 DEF Connection
<1> HIDE DEF d
<1>13. f \in Int /\ f # socket_raw
       /\ \A q \in Node : <<n, f, "out">> # Frames(q) /\ <<n, f, "in">> # Frames(q)
  BY <1>8, TextAt DEF Frames
<1>14. raw'[n] = Tail(raw[n]) /\ \A m \in Node : m # n => raw'[m] = raw[m]
  BY <1>9 DEF TypeOK
<1>15. FramesMoved(from, to, x)
  <2>1. \A m \in Node : Frames(m) \notin to /\ (Frames(m) = from <=> m = n)
    BY <1>13 DEF Frames
  <2> QED BY <1>14, <2>1 DEF FramesMoved, Moved
<1>16. MessagesMoved(from, to, y)
  <2>1. /\ d.in = Moved(c.in, <<n, f, "in">>, from, to, y)
        /\ d.out = Moved(c.out, <<n, f, "out">>, from, to, y)
    BY <1>12, <1>13 DEF Moved
  <2>2. from \in {Frames(m) : m \in Node} /\ to \subseteq {<<n, f, "in">>, <<n, f, "out">>}
    OBVIOUS
  <2> HIDE DEF from, to
  <2> QED BY <1>8, <1>10, <1>12, <2>1, <2>2, ConnMoves DEF c
<1>17. /\ raw[n] # <<>> /\ Text[from] # <<>> /\ from \in Place /\ Head(Text[from]) = k
  BY <1>1, <1>2, <1>5, ReadFrame, TextHeads
<1>18. to \subseteq Spots
  BY <1>8, <1>13, PlaceKinds DEF Spots
<1>19. \A p, q \in to : p = q
  OBVIOUS
<1>20. \A m \in Node : Frames(m) \notin to
  BY <1>13
<1>21. \A m \in Node : \A g \in DOMAIN conn[m] :
         /\ <<m, g, "in">> \notin to
         /\ <<m, g, "out">> \in to => m = n /\ g = f
  OBVIOUS
<1> HIDE DEF from, to
<1>22. Move(from, to, x, y)
  BY <1>5, <1>7, <1>15, <1>16, <1>17, <1>18 DEF Move
<1>23. LearnedMore
  BY <1>1 DEF LearnedMore
<1>24. Moves(from, to, x, y)
  BY <1>1, <1>7, <1>8, <1>9, <1>17, <1>19, <1>22, <1>23 DEF Moves
<1>25. sdu'[n] = y /\ \A m \in Node : m # n => sdu'[m] = sdu[m] /\ conn'[m] = conn[m]
  BY <1>8, <1>9, <1>10, <1>12, ConnSet DEF TypeOK
<1>26. OutOK(n, conn[n][f].app, y)'
  <2>2. PICK a : a = c.app
    OBVIOUS
  <2>1. conn'[n][f].app = a
    BY <1>8, <1>10, <1>12, <2>2, ConnSet
  <2>3. OutOK(n, a, y)'
    BY <1>1, <1>8, <2>2 DEF OutOK, ServedAt, Served
  <2> QED BY <2>1, <2>3
<1>27. ASSUME NEW m \in Node
       PROVE  Says(m, to, x, y) /\ Knows(m, to, x) /\ Buffered(m)'
  <2>1. Buffered(m) /\ Arpd(m)
    BY DEF Passage, At
  <2>2. Buffered(m)'
    <3>1. CASE m # n
      BY <1>1, <1>25, <2>1, <3>1 DEF Buffered
    <3>2. CASE m = n
      BY <1>1, <1>7, <1>8, <1>25, <3>2 DEF Buffered, Served
    <3> QED BY <3>1, <3>2
  <2>3. Knows(m, to, x)
    BY <1>1, <1>20, <2>1 DEF Knows, Arpd
  <2>4. Says(m, to, x, y)
    BY <1>20, <1>21, <1>26 DEF Says, c
  <2> QED BY <2>2, <2>3, <2>4
<1>28. ASSUME NEW m \in Node, NEW s \in ServerHosts PROVE Pending(m, s)'
  <2>1. AskingFollows(from, to, x, <<m, s>>)
    BY <1>22, AskingMoves
  <2>2. /\ Absent(Asking, <<m, s>>) => Absent(Asking', <<m, s>>)
        /\ Single(Asking, <<m, s>>) => Single(Asking', <<m, s>>)
    BY <1>20, <2>1 DEF AskingFollows
  <2>3. Pending(m, s)
    BY DEF Passage, At
  <2>4. CASE m # n
    <3>1. \A j \in Ping : Asks(m, s, j) => dst[j] \notin arp_t'[m]
      BY <1>1 DEF Asks
    <3> QED BY <1>1, <1>25, <2>2, <2>3, <2>4, <3>1, AsksElsewhere
  <2>5. CASE m = n
    <3>1. ASSUME NEW j \in Ping, Asks(n, s, j) PROVE FALSE
      <4>1. host[j] = n /\ client[j] = "waiting" /\ dst[j] \notin arp_t[n]
        BY <3>1 DEF Asks
      <4>2. n \notin ServerHosts
        BY <4>1, LastConn
      <4>3. j = k
        BY <1>8, <4>1, <4>2, OneWaiting DEF Served
      <4> QED BY <1>8, <4>1, <4>3 DEF Served
    <3> QED BY <2>2, <2>3, <2>5, <3>1 DEF Pending
  <2> QED BY <2>4, <2>5
<1> QED BY <1>24, <1>27, <1>28, MovesPassage

\* mipd reads a message s from connection f, and sends a frame.
Reads(n, f, s, B, frame) ==
  /\ f \in DOMAIN conn[n] /\ conn[n][f].in # <<>> /\ s = Head(conn[n][f].in)
  /\ conn' = [conn EXCEPT ![n][f].in = Tail(@)]
  /\ sdu' = [sdu EXCEPT ![n] = s]
  /\ B \subseteq Node /\ Heard(n, raw[n], B, frame) /\ frame \in Frame
  /\ UNCHANGED <<status, arp_t, host, dst, client, answer>>

LEMMA ReadMoves ==
  ASSUME TypeOK, NEW n \in Node, NEW f, NEW s, NEW B, NEW frame, Reads(n, f, s, B, frame),
         NEW y \in Sdu, y.of = frame.sdu.of
  PROVE  /\ Move(<<n, f, "in">>, Hearing(B), frame, y)
         /\ <<n, f, "in">> \in Place /\ Head(Text[<<n, f, "in">>]) = s.of
         /\ s \in Sdu /\ s \in ToSet(conn[n][f].in) /\ LearnedMore
         /\ conn'[n][f].in = Tail(conn[n][f].in) /\ Len(conn'[n]) = Len(conn[n])
         /\ sdu'[n] = s /\ \A m \in Node : m # n => sdu'[m] = sdu[m] /\ conn'[m] = conn[m]
<1> USE DEF Reads
<1> DEFINE c == conn[n][f]
           d == [c EXCEPT !.in = Tail(@)]
           from == <<n, f, "in">>
           to == Hearing(B)
<1>1. conn' = [conn EXCEPT ![n][f] = d] /\ f \in DOMAIN conn[n]
  OBVIOUS
<1>2. /\ from \in Place /\ Text[from] # <<>> /\ Head(Text[from]) = s.of
      /\ s \in Sdu /\ s \in ToSet(c.in)
  BY TextHeads
<1>3. c \in Connection
  BY HostType
<1>4. Tail(c.in) \in Seq(Sdu)
  BY <1>3 DEF Connection
<1> HIDE DEF c
<1>5. d \in Connection /\ d.app = c.app /\ d.in = Tail(c.in) /\ d.out = c.out
  BY <1>3, <1>4 DEF Connection
<1> HIDE DEF d
<1>6. /\ <<n, f, "in">> \notin to /\ <<n, f, "out">> \notin to
      /\ \A q \in Node : from # Frames(q)
      /\ to \subseteq Spots
  BY <1>1, HearingPlaces
<1>7. FramesMoved(from, to, frame)
  <2>1. PICK rest : rest = raw[n]
    OBVIOUS
  <2>2. \A m \in Node : from # Frames(m)
    BY <1>6
  <2>3. Heard(n, rest, B, frame) /\ B \subseteq Node
    BY <2>1
  <2> HIDE DEF from, Reads
  <2> QED BY <2>1, <2>2, <2>3, HeardMoves
<1>8. MessagesMoved(from, to, y)
  <2>1. /\ d.in = Moved(c.in, <<n, f, "in">>, from, to, y)
        /\ d.out = Moved(c.out, <<n, f, "out">>, from, to, y)
    BY <1>5, <1>6 DEF Moved
  <2>2. from \in {<<n, f, "in">>, <<n, f, "out">>, <<>>} \cup {Frames(m) : m \in Node}
        /\ to \subseteq {<<n, f, "in">>, <<n, f, "out">>} \cup {Frames(m) : m \in Node}
    BY DEF Hearing
  <2> HIDE DEF from, to, Reads
  <2> QED BY <1>1, <1>5, <2>1, <2>2, ConnMoves DEF c
<1>9. Move(from, to, frame, y)
  BY <1>2, <1>6, <1>7, <1>8 DEF Move
<1>10. /\ conn'[n][f] = d /\ Len(conn'[n]) = Len(conn[n])
       /\ \A m \in Node : m # n => conn'[m] = conn[m]
  <2> HIDE DEF Reads
  <2> QED BY <1>1, <1>5, ConnSet
<1>11. sdu'[n] = s /\ \A m \in Node : m # n => sdu'[m] = sdu[m]
  BY DEF TypeOK
<1>12. LearnedMore
  BY DEF LearnedMore
<1> QED BY <1>2, <1>5, <1>9, <1>10, <1>11, <1>12 DEF c

\* A message, of the client k that waits, is sent to its other end.
SentOn(n, f, s, B, frame, k) ==
  /\ Reads(n, f, s, B, frame)
  /\ k \in Ping /\ s.of = k /\ client[k] = "waiting"
  /\ frame = PingFrame(n, s)
  /\ \A m \in Node : m \in B => FrameOK(m, frame)
  /\ \A p, q \in B : p = q
  /\ n \in ServerHosts \/ (host[k] = n /\ s.mip_addr = dst[k] /\ f = Len(conn[n]))

LEMMA SentPassage ==
  ASSUME TypeOK, Promises, Alone, Passage, NEW n \in Node, NEW f, NEW s, NEW B, NEW frame,
         NEW k, SentOn(n, f, s, B, frame, k)
  PROVE  Passage'
<1> DEFINE from == <<n, f, "in">>
           to == Hearing(B)
<1>1. /\ Reads(n, f, s, B, frame) /\ k \in Ping /\ s.of = k /\ client[k] = "waiting"
      /\ frame.type = "PING" /\ frame.sdu = s
      /\ \A m \in Node : m \in B => FrameOK(m, frame)
      /\ \A p, q \in B : p = q
      /\ n \in ServerHosts \/ (host[k] = n /\ s.mip_addr = dst[k] /\ f = Len(conn[n]))
  BY DEF SentOn, PingFrame
<1>2. /\ B \subseteq Node /\ frame \in Frame /\ UNCHANGED <<status, arp_t, host, dst, client, answer>>
      /\ f \in DOMAIN conn[n] /\ conn[n][f].in # <<>>
  BY <1>1 DEF Reads
<1>3. s \in Sdu
  BY <1>1, <1>2 DEF Frame
<1>4. /\ Move(from, to, frame, s)
      /\ from \in Place /\ Head(Text[from]) = k /\ LearnedMore
      /\ sdu'[n] = s /\ \A m \in Node : m # n => sdu'[m] = sdu[m] /\ conn'[m] = conn[m]
  BY <1>1, <1>3, ReadMoves
<1>5. /\ \A m \in Node : Frames(m) \in to => m \in B
      /\ \A m \in Node : \A g \in DOMAIN conn[m] : <<m, g, "in">> \notin to /\ <<m, g, "out">> \notin to
  BY <1>2, HearingPlaces
<1>6. \A p, q \in to : p = q
  BY <1>1 DEF Hearing
<1> HIDE DEF from, to
<1>7. Moves(from, to, frame, s)
  BY <1>1, <1>2, <1>4, <1>6 DEF Moves
<1>8. ASSUME NEW m \in Node
      PROVE  Says(m, to, frame, s) /\ Knows(m, to, frame) /\ Buffered(m)'
  <2>1. Buffered(m) /\ Arpd(m)
    BY DEF Passage, At
  <2>2. Buffered(m)'
    BY <1>1, <1>2, <1>4, <2>1 DEF Buffered
  <2>3. Knows(m, to, frame)
    BY <1>1, <1>2, <2>1 DEF Knows, Arpd
  <2>4. Says(m, to, frame, s)
    BY <1>1, <1>2, <1>5 DEF Says, FrameOK, Served
  <2> QED BY <2>2, <2>3, <2>4
<1>9. ASSUME NEW m \in Node, NEW t \in ServerHosts PROVE Pending(m, t)'
  <2>1. AskingFollows(from, to, frame, <<m, t>>)
    BY <1>4, AskingMoves
  <2>2. \A p \in Node : Ends(p, frame) # <<m, t>>
    BY <1>1 DEF Ends
  <2>3. /\ Absent(Asking, <<m, t>>) => Absent(Asking', <<m, t>>)
        /\ Single(Asking, <<m, t>>) => Single(Asking', <<m, t>>)
    BY <2>1, <2>2 DEF AskingFollows
  <2>4. Pending(m, t)
    BY DEF Passage, At
  <2>5. CASE m # n
    <3>1. \A j \in Ping : Asks(m, t, j) => dst[j] \notin arp_t'[m]
      BY <1>2 DEF Asks
    <3> QED BY <1>2, <1>4, <2>3, <2>4, <2>5, <3>1, AsksElsewhere
  <2>6. CASE m = n
    <3>1. ASSUME NEW j \in Ping, Asks(n, t, j) PROVE FALSE
      <4>1. host[j] = n /\ client[j] = "waiting" /\ conn[n][Len(conn[n])].in = <<>>
        BY <3>1 DEF Asks
      <4>2. n \notin ServerHosts
        BY <4>1, LastConn
      <4> QED BY <1>1, <1>2, <4>1, <4>2
    <3> QED BY <2>3, <2>4, <2>6, <3>1 DEF Pending
  <2> QED BY <2>5, <2>6
<1> QED BY <1>7, <1>8, <1>9, MovesPassage

\* No client has two messages in its connection.
LEMMA OneMessage ==
  ASSUME TypeOK, Passage, NEW n \in Node, n \notin ServerHosts, NEW f \in DOMAIN conn[n],
         NEW k \in Ping, conn[n][f].app = k, conn[n][f].in # <<>>
  PROVE  Tail(conn[n][f].in) = <<>>
<1> DEFINE s == conn[n][f].in
           p == <<n, f, "in">>
<1>1. s \in Seq(Sdu) /\ Text[p] = Image(s, OfMessage) /\ p \in Place /\ s # <<>>
  BY TextAt, PlaceKinds
<1>2. \A y \in ToSet(s) : y.of = k
  BY DEF Passage, At, Texts, InOK, Message
<1>3. Single(Text, k) /\ DOMAIN Text = Place
  BY DEF Passage, Once, Text
<1> HIDE DEF s, p
<1>4. \A i \in DOMAIN s : i \in DOMAIN Text[p] /\ Text[p][i] = k
  <2> SUFFICES ASSUME NEW i \in DOMAIN s PROVE i \in DOMAIN Text[p] /\ Text[p][i] = k
    OBVIOUS
  <2>1. s[i] \in ToSet(s) /\ s[i] \in Sdu
    BY <1>1 DEF ToSet
  <2>2. OfMessage[s[i]] = k
    BY <1>2, <2>1 DEF OfMessage
  <2> QED BY <1>1, <2>2 DEF Image
<1>5. \A i, j \in DOMAIN s : i = j
  BY <1>1, <1>3, <1>4 DEF Single
<1>6. Len(s) = 1
  <2>1. Len(s) \in Nat /\ DOMAIN s = 1 .. Len(s) /\ Len(s) # 0
    BY <1>1
  <2>2. 1 \in DOMAIN s /\ Len(s) \in DOMAIN s
    BY <2>1
  <2> QED BY <1>5, <2>2
<1>7. Tail(s) = <<>>
  <2>0. Tail(s) \in Seq(Sdu) /\ DOMAIN Tail(s) = 1 .. Len(s) - 1
    BY <1>1, TailEffect
  <2>1. Tail(s) \in Seq(Sdu) /\ DOMAIN Tail(s) = 1 .. 0
    BY <1>6, <2>0
  <2> DEFINE t == Tail(s)
  <2>2. t \in Seq(Sdu) /\ DOMAIN t = 1 .. Len(t) /\ DOMAIN t = {}
    BY <2>1
  <2> HIDE DEF t
  <2>3. t = <<>>
    BY <2>2
  <2> QED BY <2>3 DEF t
<1> QED BY <1>7 DEF s

\* A client's message is read, and its host asked for.
LEMMA AskPassage ==
  ASSUME TypeOK, Promises, Alone, Passage, NEW n \in Node, n \notin ServerHosts,
         NEW f, f = Len(conn[n]), NEW k \in Ping, host[k] = n, client[k] = "waiting",
         NEW s, s = Message(dst[k], "PING", k), dst[k] \notin arp_t[n],
         NEW B, B \subseteq Neighbours(n), Reads(n, f, s, B, Arp("REQUEST", n))
  PROVE  Passage'
<1> DEFINE from == <<n, f, "in">>
           to == Hearing(B)
<1>1. PICK frame : frame = Arp("REQUEST", n)
  OBVIOUS
<1>2. /\ frame \in Frame /\ frame.type = "REQUEST" /\ frame.src = n
      /\ frame.sdu = ZeroSdu /\ ZeroSdu.of = NoPing /\ ZeroSdu \in Sdu
  BY <1>1, HostType, FrameTypes DEF Arp, ZeroSdu, Message
<1>3. /\ Reads(n, f, s, B, frame) /\ B \subseteq Node
      /\ UNCHANGED <<status, arp_t, host, dst, client, answer>>
      /\ f \in DOMAIN conn[n] /\ conn[n][f].in # <<>>
  BY <1>1 DEF Reads
<1>4. /\ Move(from, to, frame, ZeroSdu) /\ LearnedMore
      /\ conn'[n][f].in = Tail(conn[n][f].in) /\ Len(conn'[n]) = Len(conn[n])
      /\ sdu'[n] = s /\ \A m \in Node : m # n => sdu'[m] = sdu[m] /\ conn'[m] = conn[m]
  BY <1>2, <1>3, ReadMoves
<1>5. /\ \A m \in Node : Frames(m) \in to => m \in B
      /\ \A m \in Node : \A g \in DOMAIN conn[m] : <<m, g, "in">> \notin to /\ <<m, g, "out">> \notin to
  BY <1>3, HearingPlaces
<1> HIDE DEF from, to
<1>6. Moves(from, to, frame, ZeroSdu)
  BY <1>2, <1>3, <1>4, NoPingAssumption DEF Moves
<1>7. s.of = k /\ s.mip_addr = dst[k]
  BY DEF Message
<1>8. ASSUME NEW m \in Node
      PROVE  Says(m, to, frame, ZeroSdu) /\ Knows(m, to, frame) /\ Buffered(m)'
  <2>1. Buffered(m) /\ Arpd(m)
    BY DEF Passage, At
  <2>2. Buffered(m)'
    BY <1>3, <1>4, <1>7, <2>1 DEF Buffered
  <2>3. Knows(m, to, frame)
    BY <1>2, <1>3, <2>1 DEF Knows, Arpd
  <2>4. m \in B => n \in Neighbours(m)
    BY NeighbourSym
  <2>5. Says(m, to, frame, ZeroSdu)
    BY <1>2, <1>5, <2>4 DEF Says, FrameOK
  <2> QED BY <2>2, <2>3, <2>5
<1>9. \A p \in Node : Ends(p, frame) = <<n, p>>
  BY <1>2 DEF Ends
<1>10. ASSUME NEW m \in Node, NEW t \in ServerHosts PROVE Pending(m, t)'
  <2>1. AskingFollows(from, to, frame, <<m, t>>)
    BY <1>4, AskingMoves
  <2>2. Pending(m, t)
    BY DEF Passage, At
  <2>3. CASE m # n
    <3>1. \A j \in Ping : Asks(m, t, j) => dst[j] \notin arp_t'[m]
      BY <1>3 DEF Asks
    <3>2. /\ Absent(Asking, <<m, t>>) => Absent(Asking', <<m, t>>)
          /\ Single(Asking, <<m, t>>) => Single(Asking', <<m, t>>)
      BY <1>9, <2>1, <2>3 DEF AskingFollows
    <3> QED BY <1>3, <1>4, <2>2, <2>3, <3>1, <3>2, AsksElsewhere
  <2>4. CASE m = n
    <3>1. Absent(Asking, <<n, t>>)
      <4>1. \A j \in Ping : ~ Asks(n, t, j)
        BY <1>3 DEF Asks
      <4> QED BY <2>2, <2>4, <4>1 DEF Pending
    <3>2. Single(Asking', <<n, t>>)
      <4>1. \A p, q \in Node : Ends(p, frame) = <<n, t>> /\ Ends(q, frame) = <<n, t>> => p = q
        BY <1>9
      <4> QED BY <2>1, <2>4, <3>1, <4>1 DEF AskingFollows
    <3>3. Tail(conn[n][f].in) = <<>>
      <4>1. conn[n][f].app = k
        BY <1>3, LastConn
      <4> QED BY <1>3, <4>1, OneMessage
    <3>4. Asks(n, t, k)'
      BY <1>3, <1>4, <3>2, <3>3 DEF Asks
    <3> QED BY <2>4, <3>4 DEF Pending
  <2> QED BY <2>3, <2>4
<1> QED BY <1>6, <1>8, <1>10, MovesPassage

LEMMA UnixPassage ==
  ASSUME TypeOK, Promises, Alone, Passage, NEW n \in Node, handle_unix_connection(n),
         UNCHANGED appVars
  PROVE  Passage'
<1>1. PICK f : f = socket_data[n]
  OBVIOUS
<1> DEFINE c == conn[n][f]
<1>2. /\ event[n] \in Connections(n) /\ UNCHANGED <<arp_t, host, dst, client, answer>>
  BY DEF handle_unix_connection, Handling, appVars
<1>3. f = accepted[n] /\ f \in DOMAIN conn[n] /\ c \in Connection
  BY <1>1, <1>2, SocketType
<1>4. c.in # <<>>
  BY <1>1, <1>2, <1>3 DEF Alone, Local, Turns
<1>5. PICK s \in Sdu : s = Head(c.in)
  BY <1>3, <1>4, TextHeads
<1>6. s \in ToSet(c.in) /\ InOK(n, c.app, s)
  BY <1>3, <1>4, <1>5, TextHeads DEF Passage, At, Texts
<1>7. PICK k : k = s.of
  OBVIOUS
<1>8. k \in Ping /\ client[k] = "waiting"
  <2>1. k \in Ping
    <3>1. CASE n \in ServerHosts
      BY <1>6, <1>7, <3>1 DEF InOK, ServedAt, Served
    <3>2. CASE n \notin ServerHosts
      <4>1. ClientConn(n, f)
        BY <1>3, <3>2 DEF Alone, Local, Apps
      <4> QED BY <1>6, <1>7, <3>2, <4>1 DEF ClientConn, InOK, Message
    <3> QED BY <3>1, <3>2
  <2> QED BY <1>3, <1>6, <1>7, <2>1, WhoseWaits DEF Passage
<1>9. c.open /\ (n \notin ServerHosts => c.app = k /\ host[k] = n /\ f = Len(conn[n])
                                          /\ s = Message(dst[k], "PING", k))
  <2>1. CASE n \in ServerHosts
    BY <1>3, <2>1 DEF Alone, Local, Apps, ServerConn
  <2>2. CASE n \notin ServerHosts
    <3>1. ClientConn(n, f)
      BY <1>3, <2>2 DEF Alone, Local, Apps
    <3>2. c.app = k /\ s = Message(dst[k], "PING", k)
      BY <1>6, <1>7, <2>2 DEF InOK, Message
    <3>3. host[k] = n
      BY <3>1, <3>2 DEF ClientConn
    <3> QED BY <1>3, <1>8, <2>2, <3>2, <3>3, LastConn
  <2> QED BY <2>1, <2>2
<1>10. /\ sdu' = [sdu EXCEPT ![n] = s]
       /\ conn' = [conn EXCEPT ![n][f].in = Tail(@)]
       /\ SendSdu(n, s)
       /\ status' = status
  BY <1>1, <1>4, <1>5, <1>9 DEF handle_unix_connection, HasMessage, AtEnd, Reset
<1> DEFINE to == IF s.mip_addr \in arp_t[n] THEN {s.mip_addr} ELSE Asked(n, s.mip_addr)
<1>11. PICK frame \in Frame : frame = IF s.mip_addr \in arp_t[n] THEN PingFrame(n, s)
                                      ELSE Arp("REQUEST", n)
  BY FrameTypes
<1>12. to \subseteq Node /\ (s.mip_addr \notin arp_t[n] => to \subseteq Neighbours(n))
  BY HostType DEF Asked, Neighbours
<1>13. Transmit(n, raw[n], to, frame) /\ raw[n] \in Seq(Frame)
  BY <1>10, <1>11, HostType DEF SendSdu, Known
<1> HIDE DEF to
<1>14. PICK B \in SUBSET to : Heard(n, raw[n], B, frame)
  <2>1. PICK rest \in Seq(Frame) : rest = raw[n]
    BY <1>13
  <2> QED BY <1>12, <1>13, <2>1, TransmitEffect
<1>15. Reads(n, f, s, B, frame)
  BY <1>2, <1>3, <1>4, <1>5, <1>10, <1>12, <1>14 DEF Reads
<1>16. CASE n \in ServerHosts
  <2>1. ServedAt(n, k) /\ s = Message(host[k], "PONG", k)
    BY <1>6, <1>7, <1>16 DEF InOK
  <2>2. s.mip_addr = host[k] /\ host[k] \in Node
    BY <1>8, <2>1 DEF Message, TypeOK
  <2>3. host[k] \in arp_t[n]
    BY <1>16, <2>1, <2>2 DEF ServedAt, Served, Passage, At, Arpd
  <2>4. frame = PingFrame(n, s) /\ to = {host[k]}
    BY <1>11, <2>2, <2>3 DEF to
  <2>5. FrameOK(host[k], frame)
    BY <1>7, <2>1, <2>4 DEF FrameOK, PingFrame, ServedAt, Served
  <2>6. SentOn(n, f, s, B, frame, k)
    BY <1>7, <1>8, <1>15, <1>16, <2>4, <2>5 DEF SentOn
  <2> QED BY <2>6, SentPassage
<1>17. CASE n \notin ServerHosts /\ dst[k] \in arp_t[n]
  <2>1. /\ host[k] = n /\ f = Len(conn[n]) /\ s = Message(dst[k], "PING", k)
        /\ s.mip_addr = dst[k]
    BY <1>9, <1>17 DEF Message
  <2>2. frame = PingFrame(n, s) /\ to = {dst[k]}
    BY <1>11, <1>17, <2>1 DEF to
  <2>3. dst[k] \in Neighbours(n)
    BY <1>17 DEF Passage, At, Arpd
  <2>4. Served(k) /\ dst[k] \in Node /\ n \in Neighbours(dst[k])
    BY <1>8, <1>17, <2>1, <2>3, NeighbourSym DEF Served, Passage, ServersPinged
  <2>5. FrameOK(dst[k], frame)
    BY <1>7, <2>1, <2>2, <2>4 DEF FrameOK, PingFrame
  <2>6. SentOn(n, f, s, B, frame, k)
    BY <1>7, <1>8, <1>15, <2>1, <2>2, <2>5 DEF SentOn
  <2> QED BY <2>6, SentPassage
<1>18. CASE n \notin ServerHosts /\ dst[k] \notin arp_t[n]
  <2>1. /\ host[k] = n /\ f = Len(conn[n]) /\ s = Message(dst[k], "PING", k)
        /\ s.mip_addr = dst[k]
    BY <1>9, <1>18 DEF Message
  <2>2. frame = Arp("REQUEST", n) /\ B \subseteq Neighbours(n)
    BY <1>11, <1>12, <1>18, <2>1
  <2> QED BY <1>8, <1>15, <1>18, <2>1, <2>2, AskPassage
<1> QED BY <1>16, <1>17, <1>18

\* At the start there is no message.
LEMMA InitPassage ==
  ASSUME Init, ServersPinged
  PROVE  Passage
<1>1. ASSUME NEW n \in Node
      PROVE  /\ conn[n] = <<>> /\ raw[n] = <<>> /\ sdu[n] = ZeroSdu /\ arp_t[n] = {}
             /\ status[n] = "running" /\ DOMAIN conn[n] = {} /\ ToSet(raw[n]) = {}
  BY DEF Init, DaemonInit, ToSet
<1>2. \A k \in Ping : Absent(Text, k)
  <2>1. Image(<<>>, OfFrame) = <<>>
    BY DEF Image
  <2>2. ASSUME NEW p \in Place PROVE Text[p] = <<>>
    <3>1. p[1] \in Node
      BY PlaceKinds
    <3>2. raw[p[1]] = <<>> /\ DOMAIN conn[p[1]] = {}
      BY <1>1, <3>1
    <3>3. MessagesAt(raw, conn, p) = <<>>
      BY <2>1, <3>2 DEF MessagesAt
    <3> QED BY <3>3 DEF Text
  <2>3. DOMAIN Text = Place
    BY DEF Text
  <2> QED BY <2>2, <2>3 DEF Absent
<1>3. \A e : Absent(Asking, e)
  <2>1. ASSUME NEW n \in Node PROVE Asking[Frames(n)] = <<>>
    BY <1>1 DEF Asking, Frames, Image
  <2>2. DOMAIN Asking = {Frames(n) : n \in Node}
    BY DEF Asking
  <2> QED BY <2>1, <2>2 DEF Absent
<1>4. \A k \in Ping : client[k] = "idle"
  BY DEF Init
<1>5. AllRun /\ ServersPinged /\ Answers /\ Once
  <2>1. \A k \in Ping : Single(Text, k)
    BY <1>2 DEF Absent, Single
  <2> QED BY <1>1, <1>2, <1>4, <2>1 DEF AllRun, Answers, Once
<1>6. ASSUME NEW n \in Node PROVE At(n)
  BY <1>1, <1>3 DEF At, Texts, Buffered, Arpd, Pending
<1> QED BY <1>5, <1>6 DEF Passage

LEMMA MipdPassage ==
  ASSUME TypeOK, Promises, Alone, Passage, NEW n \in Node, Mipd(n), UNCHANGED appVars
  PROVE  Passage'
<1>1. CASE epoll_wait(n) \/ new_unix_connection(n)
  <2>1. UNCHANGED <<raw, conn, sdu, arp_t, status, host, dst, client, answer>>
    BY <1>1 DEF epoll_wait, new_unix_connection, appVars
  <2> QED BY <2>1, SamePassage
<1>2. CASE handle_mip_arp(n)
  BY <1>2, ArpPassage
<1>3. CASE handle_mip_ping(n)
  BY <1>3, PingPassage
<1>4. CASE handle_unix_connection(n)
  BY <1>4, UnixPassage
<1> QED BY <1>1, <1>2, <1>3, <1>4 DEF Mipd

PassageInv == TurnInv /\ (OneByOne /\ ServersPinged => Passage)

\* The hosts of the clients, and what they ping, do not change.
LEMMA HostsStay ==
  ASSUME [Next]_vars
  PROVE  host' = host /\ dst' = dst
<1>1. ASSUME NEW n \in Node, Mipd(n), UNCHANGED <<host, dst, server, client, answer>>
      PROVE  host' = host /\ dst' = dst
  BY <1>1
<1>2. ASSUME NEW s \in ServerHosts, ServerConnects(s) \/ ServerAnswers(s)
      PROVE  host' = host /\ dst' = dst
  BY <1>2 DEF ServerConnects, ServerAnswers, Connect, Uses
<1>3. ASSUME NEW k \in Ping,
             ClientConnects(k) \/ ClientSends(k) \/ ClientReads(k) \/ ClientGivesUp(k)
      PROVE  host' = host /\ dst' = dst
  BY <1>3 DEF ClientConnects, ClientSends, ClientReads, ClientGivesUp, Connect, Uses
<1>4. CASE UNCHANGED vars
  BY <1>4 DEF vars
<1> QED BY <1>1, <1>2, <1>3, <1>4 DEF Next

LEMMA StepPassage ==
  ASSUME PassageInv, [Next]_vars
  PROVE  PassageInv'
<1>1. TurnInv /\ TurnInv'
  BY StepTurns DEF PassageInv
<1> SUFFICES ASSUME OneByOne', ServersPinged' PROVE Passage'
  BY <1>1 DEF PassageInv
<1>2. TypeOK /\ Promises /\ Alone /\ Passage
  <2>1. ServersPinged
    BY HostsStay DEF ServersPinged
  <2> QED BY <2>1, SeenGrows DEF PassageInv, TurnInv, OneByOne
<1>3. ASSUME NEW n \in Node, Mipd(n), UNCHANGED <<host, dst, server, client, answer>>
      PROVE  Passage'
  BY <1>2, <1>3, MipdPassage DEF appVars
<1>4. ASSUME NEW s \in ServerHosts, ServerConnects(s) \/ ServerAnswers(s)
      PROVE  Passage'
  BY <1>2, <1>4, ServerConnectsPassage, ServerAnswersPassage
<1>5. ASSUME NEW k \in Ping,
             ClientConnects(k) \/ ClientSends(k) \/ ClientReads(k) \/ ClientGivesUp(k)
      PROVE  Passage'
  <2>1. ~ ClientGivesUp(k)
    BY DEF ClientGivesUp, OneByOne
  <2> QED BY <1>2, <1>5, <2>1, ClientConnectsPassage, ClientSendsPassage, ClientReadsPassage
<1>6. ASSUME UNCHANGED vars PROVE Passage'
  <2>1. UNCHANGED <<raw, conn, sdu, arp_t, status, host, dst, client, answer>>
    BY <1>6 DEF vars, daemonVars
  <2> QED BY <1>2, <2>1, SamePassage
<1> QED BY <1>3, <1>4, <1>5, <1>6 DEF Next

\* What the messages say, and that each is in one place, holds in all states.
LEMMA PassageHolds == Spec => []PassageInv
<1>1. Init => PassageInv
  BY InitType, InitAlone, InitPassage DEF PassageInv, TurnInv
<1>2. PassageInv /\ [Next]_vars => PassageInv'
  BY StepPassage
<1> QED BY <1>1, <1>2, PTL DEF Spec

\* Where clients come one after another and wait, and none pings an adjacent host that
\* has no server, no daemon ends: a PING or PONG that comes finds a connection whose
\* process is there.
THEOREM NoDaemonEnds == Spec => []DaemonsSurvive
<1>1. PassageInv => DaemonsSurvive
  BY DEF PassageInv, Passage, AllRun, DaemonsSurvive
<1> QED BY <1>1, PassageHolds, PTL

\* There every client that is answered has taken the PONG of its own PING, from the
\* host it has pinged.
THEOREM AnswersBelong == Spec => []AnswersAreOwn
<1>1. PassageInv => AnswersAreOwn
  BY DEF PassageInv, Passage, Answers, AnswersAreOwn
<1> QED BY <1>1, PassageHolds, PTL

\* All copies of a message are in queues or, of one that is answered, taken by its client.
LEMMA CopiesMeet ==
  ASSUME TypeOK, Once, NEW k \in Ping
  PROVE  \A a, b \in Copies(k) : a = b
<1> DEFINE Lying == UNION {CopiesAt(n, k) : n \in Node}
           Found(e) == \E p \in Place : \E i \in DOMAIN Text[p] :
                         Text[p][i] = k /\ e = <<p[1], p[2], p[3], i>>
<1>1. ASSUME NEW n \in Node, NEW e \in CopiesAt(n, k) PROVE Found(e)
  <2>1. CASE \E i \in DOMAIN raw[n] : raw[n][i].sdu.of = k /\ e = <<n, socket_raw, "in", i>>
    <3>1. PICK i \in DOMAIN raw[n] : raw[n][i].sdu.of = k /\ e = <<n, socket_raw, "in", i>>
      BY <2>1
    <3>2. /\ raw[n][i] \in Frame /\ Text[Frames(n)] = Image(raw[n], OfFrame)
          /\ Frames(n) \in Place
      BY HostType, TextAt, PlaceKinds
    <3>3. i \in DOMAIN Text[Frames(n)] /\ Text[Frames(n)][i] = k
      BY <3>1, <3>2 DEF Image, OfFrame
    <3>4. e = <<Frames(n)[1], Frames(n)[2], Frames(n)[3], i>>
      BY <3>1 DEF Frames
    <3> QED BY <3>2, <3>3, <3>4
  <2>2. ASSUME NEW f \in DOMAIN conn[n], NEW i \in Indices(conn[n][f].in, k), e = <<n, f, "in", i>>
        PROVE  Found(e)
    <3>1. /\ conn[n][f].in \in Seq(Sdu) /\ <<n, f, "in">> \in Place
          /\ Text[<<n, f, "in">>] = Image(conn[n][f].in, OfMessage)
      BY TextAt, PlaceKinds
    <3>2. i \in DOMAIN conn[n][f].in /\ conn[n][f].in[i].of = k /\ conn[n][f].in[i] \in Sdu
      BY <3>1 DEF Indices
    <3>3. i \in DOMAIN Text[<<n, f, "in">>] /\ Text[<<n, f, "in">>][i] = k
      BY <3>1, <3>2 DEF Image, OfMessage
    <3> QED BY <2>2, <3>1, <3>3
  <2>3. ASSUME NEW f \in DOMAIN conn[n], NEW i \in Indices(conn[n][f].out, k), e = <<n, f, "out", i>>
        PROVE  Found(e)
    <3>1. /\ conn[n][f].out \in Seq(Sdu) /\ <<n, f, "out">> \in Place
          /\ Text[<<n, f, "out">>] = Image(conn[n][f].out, OfMessage)
      BY TextAt, PlaceKinds
    <3>2. i \in DOMAIN conn[n][f].out /\ conn[n][f].out[i].of = k /\ conn[n][f].out[i] \in Sdu
      BY <3>1 DEF Indices
    <3>3. i \in DOMAIN Text[<<n, f, "out">>] /\ Text[<<n, f, "out">>][i] = k
      BY <3>1, <3>2 DEF Image, OfMessage
    <3> QED BY <2>3, <3>1, <3>3
  <2> HIDE DEF Found
  <2> QED BY <1>1, <2>1, <2>2, <2>3 DEF CopiesAt
<1>2. \A e \in Lying : Found(e)
  BY <1>1
<1>3. ASSUME NEW a \in Lying, NEW b \in Lying PROVE a = b
  <2>1. PICK p \in Place : \E i \in DOMAIN Text[p] : Text[p][i] = k /\ a = <<p[1], p[2], p[3], i>>
    BY <1>2, <1>3
  <2>2. PICK i \in DOMAIN Text[p] : Text[p][i] = k /\ a = <<p[1], p[2], p[3], i>>
    BY <2>1
  <2>3. PICK q \in Place : \E j \in DOMAIN Text[q] : Text[q][j] = k /\ b = <<q[1], q[2], q[3], j>>
    BY <1>2, <1>3
  <2>4. PICK j \in DOMAIN Text[q] : Text[q][j] = k /\ b = <<q[1], q[2], q[3], j>>
    BY <2>3
  <2>5. p = q /\ i = j
    <3>1. Single(Text, k) /\ DOMAIN Text = Place
      BY DEF Once, Text
    <3> QED BY <2>2, <2>4, <3>1 DEF Single
  <2> QED BY <2>2, <2>4, <2>5
<1>4. client[k] = "answered" => Lying = {}
  <2> SUFFICES ASSUME client[k] = "answered", NEW e \in Lying PROVE FALSE
    OBVIOUS
  <2>1. Absent(Text, k) /\ DOMAIN Text = Place
    BY DEF Once, Text
  <2> HIDE DEF Lying
  <2> QED BY <1>2, <2>1 DEF Absent
<1>5. Copies(k) = Lying \cup {<<host[p], Mine(p), "read", 1>> : p \in {q \in {k} : client[q] = "answered"}}
  BY DEF Copies
<1> HIDE DEF Lying
<1>6. CASE client[k] = "answered"
  BY <1>4, <1>5, <1>6
<1>7. CASE client[k] # "answered"
  <2>1. Copies(k) = Lying
    BY <1>5, <1>7
  <2> QED BY <1>3, <2>1
<1> QED BY <1>6, <1>7

\* There the message of a client is never in two places, although no daemon clears the
\* buffer that a late RESPONSE could send again.
THEOREM MessagesNotDoubled == Spec => []OneCopy
<1>1. ASSUME NEW S, \A a, b \in S : a = b PROVE Cardinality(S) <= 1
  <2>1. CASE S = {}
    BY <2>1, FS_EmptySet
  <2>2. CASE S # {}
    <3>1. PICK a \in S : TRUE
      BY <2>2
    <3>2. S = {a}
      BY <1>1, <3>1
    <3> QED BY <3>2, FS_Singleton
  <2> QED BY <2>1, <2>2
<1>2. PassageInv => OneCopy
  <2> SUFFICES ASSUME TypeOK, Once, NEW k \in Ping PROVE Cardinality(Copies(k)) <= 1
    BY DEF PassageInv, TurnInv, Passage, OneCopy
  <2> QED BY <1>1, CopiesMeet
<1> QED BY <1>2, PassageHolds, PTL

=============================================================================
