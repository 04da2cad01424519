-------------------------- MODULE LinkedQueueProof --------------------------
(***************************************************************************)
(* Theorems about the linked list of lib/queue.c, for a queue and a heap of *)
(* any size, proved by TLAPS: it is a bounded first-in first-out queue.     *)
(***************************************************************************)
EXTENDS LinkedQueue, FiniteSetTheorems, SequenceTheorems, TLAPS

-----------------------------------------------------------------------------
(* The inductive invariant. *)

\* s is the n entries of the list from `first` to `last`, and h holds nothing
\* else.  No entry is linked back.
List(s, n, first, last, h) ==
  /\ s \in [1 .. n -> Address]
  /\ \A i, j \in 1 .. n : s[i] = s[j] => i = j
  /\ h \in [{s[i] : i \in 1 .. n} -> QueueEntry]
  /\ \A i \in 1 .. n : h[s[i]].prev = Null
  /\ \A i \in 1 .. n : h[s[i]].next = IF i = n THEN Null ELSE s[i + 1]
  /\ first = IF n = 0 THEN Null ELSE s[1]
  /\ last = IF n = 0 THEN Null ELSE s[n]

ListInv == \E s : List(s, length, head, tail, heap)

IInv ==
  /\ q \in {"NULL", "queue"}
  /\ length \in 0 .. MAX_QUEUE_SIZE
  /\ q = "NULL" => length = 0
  /\ returned \in Data \cup {Null, "ok", "error"}
  /\ ListInv

-----------------------------------------------------------------------------
(* What is reached by the next links. *)

\* Two functions over 0 .. n that agree at 0, and at i if they agree before it,
\* are the same.
LEMMA SameSteps ==
  ASSUME NEW n \in Nat, NEW f, NEW g, f[0] = g[0],
         \A i \in 1 .. n : f[i - 1] = g[i - 1] => f[i] = g[i]
  PROVE  \A i \in 0 .. n : f[i] = g[i]
<1> SUFFICES ASSUME NEW j \in 0 .. n, f[j] # g[j] PROVE FALSE
  OBVIOUS
<1> DEFINE T == {i \in 0 .. n : f[i] # g[i]}
<1>1. T \subseteq Nat /\ T # {}
  OBVIOUS
<1> HIDE DEF T
<1>2. PICK m \in T : \A k \in T : ~ (<<k, m>> \in OpToRel(<, Nat))
  BY <1>1, NatLessThanWellFounded, WFMin
<1>3. m \in 1 .. n /\ f[m] # g[m]
  <2>1. m \in 0 .. n /\ f[m] # g[m]
    BY DEF T
  <2>2. m # 0
    BY <2>1
  <2> QED BY <2>1, <2>2
<1>4. f[m - 1] # g[m - 1]
  BY <1>3
<1>5. m - 1 \in T /\ m - 1 \in Nat /\ m \in Nat /\ m - 1 < m
  BY <1>3, <1>4 DEF T
<1> QED BY <1>2, <1>5 DEF OpToRel

\* The next links lead through the list.
LEMMA ReachedIsList ==
  ASSUME NEW n \in Nat, NEW s, NEW first, NEW last, NEW h,
         List(s, n, first, last, h)
  PROVE  /\ ReachedIn(h, first, n)[0] = Null
         /\ \A k \in 1 .. n : ReachedIn(h, first, n)[k] = s[k]
<1> DEFINE Step(g, k) == IF k = 0 THEN Null
                         ELSE IF k = 1 THEN first ELSE h[g[k - 1]].next
           w == [k \in 0 .. n |-> IF k = 0 THEN Null ELSE s[k]]
           nth == CHOOSE g : g = [k \in 0 .. n |-> Step(g, k)]
<1>1. w = [k \in 0 .. n |-> Step(w, k)]
  <2>1. ASSUME NEW k \in 0 .. n PROVE w[k] = Step(w, k)
    <3>1. CASE k = 0
      BY <3>1
    <3>2. CASE k = 1
      BY <3>2 DEF List
    <3>3. CASE k > 1
      <4>1. k - 1 \in 1 .. n /\ k - 1 # n /\ w[k - 1] = s[k - 1] /\ k - 1 + 1 = k
        BY <3>3
      <4>2. h[s[k - 1]].next = s[k]
        BY <4>1 DEF List
      <4> QED BY <3>3, <4>1, <4>2
    <3> QED BY <3>1, <3>2, <3>3
  <2> QED BY <2>1
<1>2. nth = [k \in 0 .. n |-> Step(nth, k)]
  <2> HIDE DEF w
  <2> QED BY <1>1
<1>3. ReachedIn(h, first, n) = nth
  BY DEF ReachedIn
<1> HIDE DEF w, nth
<1>4. \A k \in 0 .. n : nth[k] = w[k]
  <2>1. nth[0] = w[0]
    BY <1>1, <1>2
  <2>2. ASSUME NEW i \in 1 .. n, nth[i - 1] = w[i - 1] PROVE nth[i] = w[i]
    BY <1>1, <1>2, <2>2
  <2> QED BY <2>1, <2>2, SameSteps
<1> QED BY <1>3, <1>4 DEF w

\* The contents of a list are its entries' data.
LEMMA ContentsAre ==
  ASSUME NEW s, length \in Nat, List(s, length, head, tail, heap)
  PROVE  /\ Contents = [k \in 1 .. length |-> heap[s[k]].data]
         /\ Contents \in Seq(Data)
         /\ Len(Contents) = length
         /\ Entries = {s[k] : k \in 1 .. length}
         /\ tail = Reached[length]
<1>1. \A k \in 1 .. length : Reached[k] = s[k]
  BY ReachedIsList DEF Reached
<1>2. Contents = [k \in 1 .. length |-> heap[s[k]].data]
  BY <1>1 DEF Contents
<1>3. \A k \in 1 .. length : heap[s[k]].data \in Data
  BY DEF List, QueueEntry
<1>4. Contents \in Seq(Data) /\ Len(Contents) = length
  BY <1>2, <1>3
<1>5. Entries = {s[k] : k \in 1 .. length}
  BY <1>1 DEF Entries
<1>6. tail = Reached[length]
  <2>1. CASE length = 0
    BY <2>1, ReachedIsList DEF Reached, List
  <2>2. CASE length # 0
    BY <1>1, <2>2 DEF List
  <2> QED BY <2>1, <2>2
<1> QED BY <1>2, <1>4, <1>5, <1>6

\* The same of the next state.
LEMMA ContentsAreNext ==
  ASSUME NEW s, length' \in Nat, List(s, length', head', tail', heap')
  PROVE  /\ Contents' = [k \in 1 .. length' |-> heap'[s[k]].data]
         /\ Contents' \in Seq(Data)
         /\ Len(Contents') = length'
<1>1. \A k \in 1 .. length' : Reached'[k] = s[k]
  BY ReachedIsList DEF Reached
<1>2. Contents' = [k \in 1 .. length' |-> heap'[s[k]].data]
  BY <1>1 DEF Contents
<1>3. \A k \in 1 .. length' : heap'[s[k]].data \in Data
  BY DEF List, QueueEntry
<1> QED BY <1>2, <1>3

-----------------------------------------------------------------------------
(* The operations. *)

\* An entry put behind the last one.
LEMMA PushStep ==
  ASSUME IInv, NEW d \in Data, ~queue_is_full,
         NEW entry \in Address \ DOMAIN heap,
         head' = IF tail = Null THEN entry ELSE head,
         tail' = entry,
         heap' = Allocated(Linked(entry), entry, d),
         length' = length + 1
  PROVE  /\ ListInv'
         /\ length' \in 0 .. MAX_QUEUE_SIZE
         /\ Contents' = Append(Contents, d)
<1>1. PICK s : List(s, length, head, tail, heap)
  BY DEF IInv, ListInv
<1> DEFINE n == length
           t == [k \in 1 .. n + 1 |-> IF k = n + 1 THEN entry ELSE s[k]]
           E == {s[i] : i \in 1 .. n}
<1>2. n \in Nat /\ n # MAX_QUEUE_SIZE /\ n + 1 \in 0 .. MAX_QUEUE_SIZE
  BY QueueSizeAssumption DEF IInv, queue_is_full, queue_length
<1>3. /\ s \in [1 .. n -> Address]
      /\ \A i, j \in 1 .. n : s[i] = s[j] => i = j
      /\ heap \in [E -> QueueEntry] /\ DOMAIN heap = E
      /\ \A i \in 1 .. n : s[i] \in E /\ heap[s[i]].prev = Null
      /\ \A i \in 1 .. n : heap[s[i]].next = IF i = n THEN Null ELSE s[i + 1]
      /\ head = IF n = 0 THEN Null ELSE s[1]
      /\ tail = IF n = 0 THEN Null ELSE s[n]
  BY <1>1 DEF List
<1>4. entry \in Address /\ entry \notin E /\ entry # Null
  BY <1>3, AddressAssumption
<1>5. tail = Null <=> n = 0
  BY <1>2, <1>3, AddressAssumption
<1> DEFINE linked == Linked(entry)
<1>6. /\ linked \in [E -> QueueEntry]
      /\ \A i \in 1 .. n : /\ linked[s[i]].prev = Null
                           /\ linked[s[i]].data = heap[s[i]].data
                           /\ linked[s[i]].next = IF i = n THEN entry ELSE s[i + 1]
  <2>1. CASE n = 0
    BY <1>3, <1>5, <2>1 DEF Linked
  <2>2. CASE n # 0
    <3>1. n \in 1 .. n /\ tail = s[n] /\ tail \in E
      BY <1>2, <1>3, <2>2
    <3>2. linked = [heap EXCEPT ![tail].next = entry]
      BY <1>5, <2>2 DEF Linked
    <3>3. linked \in [E -> QueueEntry]
      <4> DEFINE e == [heap[tail] EXCEPT !.next = entry]
      <4>1. heap \in [E -> QueueEntry] /\ heap[tail] \in QueueEntry
        BY <1>3, <3>1
      <4>2. e \in QueueEntry
        BY <1>4, <4>1 DEF QueueEntry
      <4>3. linked = [heap EXCEPT ![tail] = e]
        BY <3>2
      <4> HIDE DEF E, e
      <4> QED BY <3>1, <4>1, <4>2, <4>3
    <3>4. \A a \in E : /\ linked[a].prev = heap[a].prev
                       /\ linked[a].data = heap[a].data
                       /\ linked[a].next = IF a = tail THEN entry ELSE heap[a].next
      BY <1>3, <3>1, <3>2 DEF QueueEntry
    <3> HIDE DEF linked, E
    <3> QED BY <1>3, <3>1, <3>3, <3>4
  <2> QED BY <2>1, <2>2
<1> HIDE DEF linked
<1> DEFINE new == [next |-> Null, prev |-> Null, data |-> d]
<1>7. heap' = [a \in E \cup {entry} |-> IF a = entry THEN new ELSE linked[a]]
  BY <1>6 DEF Allocated, linked
<1>8. new \in QueueEntry
  BY DEF QueueEntry
<1>9. /\ t \in [1 .. n + 1 -> Address]
      /\ \A i \in 1 .. n : t[i] = s[i]
      /\ t[n + 1] = entry
  BY <1>2, <1>3, <1>4
<1>10. \A i, j \in 1 .. n + 1 : t[i] = t[j] => i = j
  BY <1>2, <1>3, <1>4, <1>9
<1>11. {t[i] : i \in 1 .. n + 1} = E \cup {entry}
  BY <1>2, <1>9
<1> HIDE DEF t, E, new
<1>12. heap' \in [E \cup {entry} -> QueueEntry]
  BY <1>6, <1>7, <1>8
<1>13. /\ \A i \in 1 .. n : heap'[t[i]] = linked[s[i]]
       /\ heap'[t[n + 1]] = new
  BY <1>3, <1>4, <1>7, <1>9
<1>14. \A i \in 1 .. n + 1 : /\ heap'[t[i]].prev = Null
                             /\ heap'[t[i]].next = IF i = n + 1 THEN Null ELSE t[i + 1]
  <2>1. ASSUME NEW i \in 1 .. n
        PROVE  heap'[t[i]].prev = Null /\ heap'[t[i]].next = t[i + 1]
    BY <1>2, <1>6, <1>9, <1>13
  <2>2. heap'[t[n + 1]].prev = Null /\ heap'[t[n + 1]].next = Null
    BY <1>13 DEF new
  <2> QED BY <1>2, <2>1, <2>2
<1>15. head' = t[1] /\ tail' = t[n + 1]
  BY <1>2, <1>3, <1>5, <1>9
<1>16. List(t, n + 1, head', tail', heap')
  BY <1>2, <1>9, <1>10, <1>11, <1>12, <1>14, <1>15 DEF List
<1>17. ListInv'
  BY <1>16 DEF ListInv
<1>18. Contents' = Append(Contents, d)
  <2>1. /\ Contents' = [k \in 1 .. n + 1 |-> heap'[t[k]].data]
        /\ Contents' \in Seq(Data) /\ Len(Contents') = n + 1
    BY <1>2, <1>16, ContentsAreNext
  <2>2. /\ Contents = [k \in 1 .. n |-> heap[s[k]].data]
        /\ Contents \in Seq(Data) /\ Len(Contents) = n
    BY <1>1, <1>2, ContentsAre
  <2>3. \A k \in 1 .. n : Contents'[k] = Contents[k]
    BY <1>2, <1>6, <1>13, <2>1, <2>2
  <2>4. Contents'[n + 1] = d
    BY <1>2, <1>13, <2>1 DEF new
  <2> HIDE DEF n
  <2>5. /\ Append(Contents, d) \in Seq(Data)
        /\ Len(Append(Contents, d)) = n + 1
        /\ \A k \in 1 .. n : Append(Contents, d)[k] = Contents[k]
        /\ Append(Contents, d)[n + 1] = d
    <3>1. /\ Append(Contents, d) \in Seq(Data)
          /\ Len(Append(Contents, d)) = Len(Contents) + 1
          /\ \A k \in 1 .. Len(Contents) : Append(Contents, d)[k] = Contents[k]
          /\ Append(Contents, d)[Len(Contents) + 1] = d
      <4>1. Contents \in Seq(Data)
        BY <2>2
      <4> QED BY <4>1, AppendProperties
    <3> QED BY <2>2, <3>1
  <2>6. \A k \in 1 .. n + 1 : Contents'[k] = Append(Contents, d)[k]
    BY <1>2, <2>3, <2>4, <2>5
  <2> QED BY <2>1, <2>5, <2>6, SeqEqual
<1> QED BY <1>2, <1>17, <1>18

\* The first entry taken off and freed.
LEMMA PopStep ==
  ASSUME IInv, ~queue_is_empty,
         head' = heap[head].next,
         tail' = IF heap[head].next = Null THEN Null ELSE tail,
         heap' = Freed(Unlinked(heap[head].next), head),
         length' = length - 1,
         returned' = heap[head].data
  PROVE  /\ ListInv'
         /\ length' \in 0 .. MAX_QUEUE_SIZE
         /\ Contents # <<>>
         /\ Contents' = Tail(Contents)
         /\ returned' = Head(Contents)
         /\ returned' \in Data
<1>1. PICK s : List(s, length, head, tail, heap)
  BY DEF IInv, ListInv
<1> DEFINE n == length
           t == [k \in 1 .. n - 1 |-> s[k + 1]]
           E == {s[i] : i \in 1 .. n}
           second == heap[head].next
<1>2. n \in Nat /\ n >= 1 /\ n - 1 \in Nat /\ n - 1 \in 0 .. MAX_QUEUE_SIZE /\ 1 \in 1 .. n
  BY QueueSizeAssumption DEF IInv, queue_is_empty
<1>3. /\ s \in [1 .. n -> Address]
      /\ \A i, j \in 1 .. n : s[i] = s[j] => i = j
      /\ heap \in [E -> QueueEntry] /\ DOMAIN heap = E
      /\ \A i \in 1 .. n : s[i] \in E /\ heap[s[i]].prev = Null
      /\ \A i \in 1 .. n : heap[s[i]].next = IF i = n THEN Null ELSE s[i + 1]
      /\ head = s[1]
      /\ tail = s[n]
  BY <1>1, <1>2 DEF List
<1>4. /\ second = IF n = 1 THEN Null ELSE s[2]
      /\ second = Null <=> n = 1
  BY <1>2, <1>3, AddressAssumption
<1> DEFINE rest == Unlinked(second)
<1>5. rest = heap
  <2>1. CASE n = 1
    BY <1>4, <2>1 DEF Unlinked
  <2>2. CASE n # 1
    <3>1. 2 \in 1 .. n /\ second = s[2] /\ second \in E /\ heap[second].prev = Null
      BY <1>2, <1>3, <1>4, <2>2
    <3>2. rest = [heap EXCEPT ![second].prev = Null]
      BY <1>4, <2>2 DEF Unlinked
    <3>3. [heap[second] EXCEPT !.prev = Null] = heap[second]
      BY <1>3, <3>1 DEF QueueEntry
    <3> QED BY <1>3, <3>1, <3>2, <3>3
  <2> QED BY <2>1, <2>2
<1>6. heap' = [a \in E \ {head} |-> heap[a]]
  BY <1>3, <1>5 DEF Freed
<1>7. t \in [1 .. n - 1 -> Address] /\ \A i \in 1 .. n - 1 : t[i] = s[i + 1] /\ i + 1 \in 1 .. n
  BY <1>2, <1>3
<1>8. \A i, j \in 1 .. n - 1 : t[i] = t[j] => i = j
  BY <1>2, <1>3, <1>7
<1>9. {t[i] : i \in 1 .. n - 1} = E \ {head}
  <2>1. ASSUME NEW i \in 1 .. n - 1 PROVE t[i] \in E \ {head}
    BY <1>2, <1>3, <1>7
  <2>2. ASSUME NEW a \in E \ {head} PROVE \E i \in 1 .. n - 1 : t[i] = a
    <3>1. PICK i \in 1 .. n : s[i] = a
      OBVIOUS
    <3>2. i # 1
      BY <1>3, <3>1
    <3>3. i - 1 \in 1 .. n - 1 /\ t[i - 1] = a
      BY <1>2, <1>7, <3>1, <3>2
    <3> QED BY <3>3
  <2> QED BY <2>1, <2>2
<1> HIDE DEF t, E, second, rest
<1>10. heap' \in [E \ {head} -> QueueEntry] /\ \A i \in 1 .. n - 1 : heap'[t[i]] = heap[s[i + 1]]
  BY <1>3, <1>6, <1>7, <1>9
<1>11. \A i \in 1 .. n - 1 : /\ heap'[t[i]].prev = Null
                             /\ heap'[t[i]].next = IF i = n - 1 THEN Null ELSE t[i + 1]
  <2>1. ASSUME NEW i \in 1 .. n - 1
        PROVE  /\ heap'[t[i]].prev = Null
               /\ heap'[t[i]].next = IF i = n - 1 THEN Null ELSE t[i + 1]
    <3>1. /\ heap'[t[i]] = heap[s[i + 1]] /\ i + 1 \in 1 .. n
          /\ heap[s[i + 1]].prev = Null
          /\ heap[s[i + 1]].next = IF i + 1 = n THEN Null ELSE s[i + 2]
      BY <1>2, <1>3, <1>7, <1>10
    <3>2. CASE i = n - 1
      BY <1>2, <3>1, <3>2
    <3>3. CASE i # n - 1
      <4>1. i + 1 \in 1 .. n - 1 /\ t[i + 1] = s[i + 2] /\ i + 1 # n
        BY <1>2, <1>7, <3>3
      <4> QED BY <3>1, <3>3, <4>1
    <3> QED BY <3>2, <3>3
  <2> QED BY <2>1
<1>12. /\ head' = IF n - 1 = 0 THEN Null ELSE t[1]
       /\ tail' = IF n - 1 = 0 THEN Null ELSE t[n - 1]
  BY <1>2, <1>3, <1>4, <1>7 DEF second
<1>13. List(t, n - 1, head', tail', heap')
  BY <1>7, <1>8, <1>9, <1>10, <1>11, <1>12 DEF List
<1>14. ListInv'
  BY <1>13 DEF ListInv
<1>15. /\ Contents' = [k \in 1 .. n - 1 |-> heap'[t[k]].data]
       /\ Contents' \in Seq(Data) /\ Len(Contents') = n - 1
  BY <1>2, <1>13, ContentsAreNext
<1>16. /\ Contents = [k \in 1 .. n |-> heap[s[k]].data]
       /\ Contents \in Seq(Data) /\ Len(Contents) = n
  BY <1>1, <1>2, ContentsAre
<1>17. Contents # <<>> /\ Head(Contents) = Contents[1] /\ Head(Contents) \in Data
  BY <1>2, <1>16
<1>18. /\ Tail(Contents) \in Seq(Data) /\ Len(Tail(Contents)) = n - 1
       /\ \A k \in 1 .. n - 1 : Tail(Contents)[k] = Contents[k + 1]
  <2>1. /\ Tail(Contents) \in Seq(Data)
        /\ Len(Tail(Contents)) = Len(Contents) - 1
        /\ \A k \in 1 .. Len(Tail(Contents)) : Tail(Contents)[k] = Contents[k + 1]
    BY <1>16, <1>17, HeadTailProperties
  <2> QED BY <1>16, <2>1
<1>19. \A k \in 1 .. n - 1 : Contents'[k] = Tail(Contents)[k]
  BY <1>7, <1>10, <1>15, <1>16, <1>18
<1>20. Contents' = Tail(Contents)
  BY <1>15, <1>18, <1>19, SeqEqual
<1>21. returned' = Head(Contents)
  BY <1>2, <1>3, <1>16, <1>17
<1> QED BY <1>2, <1>14, <1>17, <1>20, <1>21

LEMMA FullOrNot ==
  ASSUME IInv, queue_is_full
  PROVE  q = "NULL" \/ length = MAX_QUEUE_SIZE
BY DEF queue_is_full, queue_length

\* A call that leaves the list as it is.
LEMMA SameList ==
  ASSUME IInv, UNCHANGED <<q, head, tail, length, heap>>,
         returned' \in Data \cup {Null, "ok", "error"}
  PROVE  IInv' /\ Contents' = Contents
<1>1. ListInv' = ListInv
  BY DEF ListInv
<1>2. Contents' = Contents
  BY DEF Contents, Reached
<1> QED BY <1>1, <1>2 DEF IInv

\* The list is empty when its contents are.
LEMMA EmptyContents ==
  ASSUME IInv
  PROVE  /\ Contents \in Seq(Data)
         /\ Len(Contents) = length
         /\ length \in Nat
         /\ Contents = <<>> <=> length = 0
         /\ queue_is_empty <=> length = 0
<1>1. PICK s : List(s, length, head, tail, heap)
  BY DEF IInv, ListInv
<1>2. length \in Nat
  BY QueueSizeAssumption DEF IInv
<1>3. Contents \in Seq(Data) /\ Len(Contents) = length
  BY <1>1, <1>2, ContentsAre
<1>4. Contents = <<>> <=> length = 0
  BY <1>3
<1>5. queue_is_empty <=> length = 0
  BY DEF IInv, queue_is_empty
<1> QED BY <1>2, <1>3, <1>4, <1>5

LEMMA TailPush ==
  ASSUME IInv, NEW d \in Data, queue_tail_push(d)
  PROVE  IInv' /\ Fifo!Push(d)
<1>1. CASE queue_is_full
  <2>1. returned' = "error" /\ UNCHANGED <<q, head, tail, length, heap>>
    BY <1>1 DEF queue_tail_push
  <2>2. IInv' /\ Contents' = Contents
    BY <2>1, SameList
  <2>3. Len(Contents) = length
    BY EmptyContents
  <2> QED BY <1>1, <2>1, <2>2, <2>3, FullOrNot DEF Fifo!Push
<1>2. CASE ~queue_is_full
  <2>1. PICK entry \in Address \ DOMAIN heap :
          /\ head' = IF tail = Null THEN entry ELSE head
          /\ tail' = entry
          /\ heap' = Allocated(Linked(entry), entry, d)
    BY <1>2 DEF queue_tail_push
  <2>2. length' = length + 1 /\ returned' = "ok" /\ UNCHANGED q
    BY <1>2 DEF queue_tail_push
  <2>3. /\ ListInv'
        /\ length' \in 0 .. MAX_QUEUE_SIZE
        /\ Contents' = Append(Contents, d)
    BY <1>2, <2>1, <2>2, PushStep
  <2>4. q = "queue" /\ length < MAX_QUEUE_SIZE /\ Len(Contents) = length
    BY <1>2, EmptyContents, QueueSizeAssumption DEF IInv, queue_is_full, queue_length
  <2> QED BY <2>2, <2>3, <2>4 DEF IInv, Fifo!Push
<1> QED BY <1>1, <1>2

LEMMA HeadPop ==
  ASSUME IInv, queue_head_pop
  PROVE  IInv' /\ Fifo!Pop
<1>1. CASE queue_is_empty
  <2>1. returned' = Null /\ UNCHANGED <<q, head, tail, length, heap>>
    BY <1>1 DEF queue_head_pop
  <2>2. IInv' /\ Contents' = Contents
    BY <2>1, SameList
  <2>3. Contents = <<>>
    BY <1>1, EmptyContents
  <2> QED BY <2>1, <2>2, <2>3 DEF Fifo!Pop
<1>2. CASE ~queue_is_empty
  <2>1. /\ head' = heap[head].next
        /\ tail' = IF heap[head].next = Null THEN Null ELSE tail
        /\ heap' = Freed(Unlinked(heap[head].next), head)
        /\ length' = length - 1
        /\ returned' = heap[head].data
        /\ UNCHANGED q
    BY <1>2 DEF queue_head_pop
  <2>2. /\ ListInv'
        /\ length' \in 0 .. MAX_QUEUE_SIZE
        /\ Contents # <<>>
        /\ Contents' = Tail(Contents)
        /\ returned' = Head(Contents)
        /\ returned' \in Data
    BY <1>2, <2>1, PopStep
  <2>3. q # "NULL"
    BY <1>2 DEF queue_is_empty
  <2> QED BY <2>1, <2>2, <2>3 DEF IInv, Fifo!Pop
<1> QED BY <1>1, <1>2

\* With one entry at most, the end that is pushed to or popped from makes no
\* difference.
LEMMA SafeCallIs ==
  ASSUME IInv, SafeCall
  PROVE  (\E d \in Data : queue_tail_push(d)) \/ queue_head_pop
<1>1. PICK s : List(s, length, head, tail, heap)
  BY DEF IInv, ListInv
<1>2. length \in Nat
  BY EmptyContents
<1>3. ASSUME NEW d \in Data, queue_is_empty \/ queue_is_full, queue_head_push(d)
      PROVE  queue_tail_push(d)
  <2>1. CASE queue_is_full
    BY <1>3, <2>1 DEF queue_head_push, queue_tail_push
  <2>2. CASE ~queue_is_full
    <3>1. length = 0
      BY <1>3, <2>2, EmptyContents
    <3>2. head = Null /\ tail = Null
      BY <1>1, <3>1 DEF List
    <3> QED BY <1>3, <2>2, <3>2 DEF queue_head_push, queue_tail_push, Linked
  <2> QED BY <2>1, <2>2
<1>4. CASE length <= 1 /\ queue_tail_pop
  <2>1. CASE queue_is_empty
    BY <1>4, <2>1 DEF queue_tail_pop, queue_head_pop
  <2>2. CASE ~queue_is_empty
    <3>1. length = 1
      BY <1>2, <1>4, <2>2, EmptyContents
    <3>2. /\ head = s[1] /\ tail = s[1]
          /\ heap[s[1]].prev = Null /\ heap[s[1]].next = Null
      BY <1>1, <3>1 DEF List
    <3> QED BY <1>4, <2>2, <3>2 DEF queue_tail_pop, queue_head_pop, Unlinked
  <2> QED BY <2>1, <2>2
<1> QED BY <1>3, <1>4 DEF SafeCall

\* What is at the head is the oldest, what is at the tail the newest.
LEMMA EndsOfList ==
  ASSUME IInv, length # 0
  PROVE  /\ heap[head].data = Contents[1] /\ Contents[1] \in Data
         /\ heap[tail].data = Contents[Len(Contents)]
         /\ Contents[Len(Contents)] \in Data
<1>1. PICK s : List(s, length, head, tail, heap)
  BY DEF IInv, ListInv
<1>2. length \in Nat
  BY EmptyContents
<1>3. 1 \in 1 .. length /\ length \in 1 .. length
  BY <1>2
<1>4. head = s[1] /\ tail = s[length]
  BY <1>1 DEF List
<1>5. /\ Contents = [k \in 1 .. length |-> heap[s[k]].data]
      /\ Contents \in Seq(Data) /\ Len(Contents) = length
  BY <1>1, <1>2, ContentsAre
<1>6. Contents[1] = heap[s[1]].data /\ Contents[length] = heap[s[length]].data
  BY <1>3, <1>5
<1>7. Contents[1] \in Data /\ Contents[length] \in Data
  BY <1>3, <1>5
<1> QED BY <1>4, <1>5, <1>6, <1>7

LEMMA PeekStep ==
  ASSUME IInv, queue_head_peek \/ queue_tail_peek
  PROVE  IInv' /\ (Fifo!Peek(1) \/ Fifo!Peek(Len(Contents)))
<1>1. UNCHANGED <<q, head, tail, length, heap>>
  BY DEF queue_head_peek, queue_tail_peek
<1>2. CASE length = 0
  <2>1. returned' = Null /\ Contents = <<>>
    BY <1>2, EmptyContents DEF queue_head_peek, queue_tail_peek
  <2> QED BY <1>1, <2>1, SameList DEF Fifo!Peek
<1>3. CASE length # 0
  <2>1. Contents # <<>> /\ ~queue_is_empty
    BY <1>3, EmptyContents
  <2>2. /\ queue_head_peek => returned' = Contents[1]
        /\ queue_tail_peek => returned' = Contents[Len(Contents)]
        /\ returned' \in Data
    BY <1>3, <2>1, EndsOfList DEF queue_head_peek, queue_tail_peek
  <2>3. IInv' /\ Contents' = Contents
    BY <1>1, <2>2, SameList
  <2> QED BY <1>1, <2>1, <2>2, <2>3 DEF Fifo!Peek
<1> QED BY <1>2, <1>3

\* A list without entries.
LEMMA NoEntries ==
  ASSUME length' = 0, head' = Null, tail' = Null, heap' \in [{} -> QueueEntry]
  PROVE  ListInv' /\ Contents' = <<>>
<1> DEFINE s == [i \in 1 .. 0 |-> Null]
<1>1. List(s, 0, Null, Null, heap')
  BY DEF List
<1> HIDE DEF s
<1>2. ListInv'
  BY <1>1 DEF ListInv
<1>3. Len(Contents') = 0 /\ Contents' \in Seq(Data)
  BY <1>1, ContentsAreNext
<1> QED BY <1>2, <1>3

LEMMA CreateStep ==
  ASSUME IInv, queue_create
  PROVE  IInv' /\ Fifo!Create
<1>1. PICK s : List(s, length, head, tail, heap)
  BY DEF IInv, ListInv
<1>2. length = 0 /\ Contents = <<>>
  BY EmptyContents DEF IInv, queue_create
<1>3. heap \in [{} -> QueueEntry]
  <2>1. {s[i] : i \in 1 .. 0} = {}
    OBVIOUS
  <2> QED BY <1>1, <1>2, <2>1 DEF List
<1>4. ListInv' /\ Contents' = <<>>
  BY <1>3, NoEntries DEF queue_create
<1>5. 0 \in 0 .. MAX_QUEUE_SIZE
  BY QueueSizeAssumption
<1> QED BY <1>2, <1>4, <1>5 DEF IInv, queue_create, Fifo!Create

LEMMA FlushStep ==
  ASSUME IInv, queue_flush
  PROVE  IInv' /\ Fifo!Flush
<1>1. PICK s : List(s, length, head, tail, heap)
  BY DEF IInv, ListInv
<1>2. Entries = DOMAIN heap
  BY <1>1, EmptyContents, ContentsAre DEF List
<1>3. heap' \in [{} -> QueueEntry]
  BY <1>2 DEF queue_flush
<1>4. ListInv' /\ Contents' = <<>>
  BY <1>3, NoEntries DEF queue_flush
<1>5. 0 \in 0 .. MAX_QUEUE_SIZE
  BY QueueSizeAssumption
<1> QED BY <1>4, <1>5 DEF IInv, queue_flush, Fifo!Flush

-----------------------------------------------------------------------------
(* The theorems. *)

LEMMA InitEstablishes ==
  ASSUME Init
  PROVE  IInv /\ Fifo!Init
<1> DEFINE s == [i \in 1 .. 0 |-> Null]
<1>1. heap \in [{} -> QueueEntry]
  <2>1. <<>> \in [1 .. 0 -> QueueEntry]
    BY EmptySeq, LenProperties
  <2>2. 1 .. 0 = {}
    OBVIOUS
  <2> QED BY <2>1, <2>2 DEF Init
<1>2. List(s, 0, Null, Null, heap)
  BY <1>1 DEF List
<1> HIDE DEF s
<1>3. List(s, length, head, tail, heap)
  BY <1>2 DEF Init
<1>4. ListInv
  BY <1>3 DEF ListInv
<1>5. 0 \in 0 .. MAX_QUEUE_SIZE
  BY QueueSizeAssumption
<1>6. IInv
  BY <1>4, <1>5 DEF Init, IInv
<1>7. Contents = <<>>
  BY <1>6, EmptyContents DEF Init
<1> QED BY <1>6, <1>7 DEF Init, Fifo!Init

\* Every step keeps the invariant and is a step of the queue in ForwardQueue.
LEMMA NextKeeps ==
  ASSUME IInv, Next
  PROVE  IInv' /\ Fifo!Next
<1>1. CASE queue_create
  BY <1>1, CreateStep DEF Fifo!Next
<1>2. ASSUME NEW d \in Data, queue_tail_push(d) PROVE IInv' /\ Fifo!Next
  BY <1>2, TailPush DEF Fifo!Next
<1>3. CASE queue_head_pop
  BY <1>3, HeadPop DEF Fifo!Next
<1>4. CASE queue_head_peek \/ queue_tail_peek
  BY <1>4, PeekStep DEF Fifo!Next
<1>5. CASE SafeCall
  BY <1>2, <1>3, <1>5, SafeCallIs
<1>6. CASE queue_flush
  BY <1>6, FlushStep DEF Fifo!Next
<1> QED BY <1>1, <1>2, <1>3, <1>4, <1>5, <1>6 DEF Next

LEMMA StutterKeeps ==
  ASSUME IInv, UNCHANGED vars
  PROVE  IInv' /\ UNCHANGED <<q = "queue", Contents, returned>>
BY SameList DEF vars, IInv

LEMMA Invariance == Spec => []IInv
<1>1. Init => IInv
  BY InitEstablishes
<1>2. IInv /\ [Next]_vars => IInv'
  BY NextKeeps, StutterKeeps
<1> QED BY <1>1, <1>2, PTL DEF Spec

\* The pointers are NULL or to entries, and the queue is not longer than
\* MAX_QUEUE_SIZE.
THEOREM QueueTypeSafe == Spec => []TypeOK
<1>1. IInv => TypeOK
  <2>1. SUFFICES ASSUME IInv PROVE TypeOK
    OBVIOUS
  <2>2. PICK s : List(s, length, head, tail, heap)
    BY <2>1 DEF IInv, ListInv
  <2>3. length \in Nat
    BY <2>1, EmptyContents
  <2>4. head \in Address \cup {Null} /\ tail \in Address \cup {Null}
    BY <2>2, <2>3 DEF List
  <2>5. {s[i] : i \in 1 .. length} \in SUBSET Address
    BY <2>2 DEF List
  <2>6. heap \in [{s[i] : i \in 1 .. length} -> QueueEntry]
    BY <2>2 DEF List
  <2> QED BY <2>1, <2>4, <2>5, <2>6 DEF IInv, TypeOK
<1> QED BY <1>1, Invariance, PTL

\* The heap holds the entries of the list and nothing else, each once: none is
\* leaked, none is used after it has been freed.
THEOREM NothingLeaks == Spec => []NoLeak
<1>1. IInv => NoLeak
  <2>1. SUFFICES ASSUME IInv PROVE NoLeak
    OBVIOUS
  <2>2. PICK s : List(s, length, head, tail, heap)
    BY <2>1 DEF IInv, ListInv
  <2>3. length \in Nat
    BY <2>1, EmptyContents
  <2> DEFINE E == {s[i] : i \in 1 .. length}
  <2>4. /\ s \in [1 .. length -> Address]
        /\ \A i, j \in 1 .. length : s[i] = s[j] => i = j
        /\ DOMAIN heap = E
    BY <2>2 DEF List
  <2>5. Entries = E /\ tail = Reached[length]
    BY <2>2, <2>3, ContentsAre
  <2>6. s \in Bijection(1 .. length, E)
    BY <2>4 DEF Bijection, Injection, Surjection, IsInjective
  <2>7. IsFiniteSet(1 .. length) /\ Cardinality(1 .. length) = length
    BY <2>3, FS_Interval
  <2>8. Cardinality(E) = length
    BY <2>6, <2>7, FS_Bijection DEF ExistsBijection
  <2> QED BY <2>4, <2>5, <2>8 DEF NoLeak
<1> QED BY <1>1, Invariance, PTL

\* The linked list implements the bounded first-in first-out queue: what is
\* popped is what was pushed, each once and in order.
THEOREM ListIsFifo == Spec => IsFifo
<1>1. Init => Fifo!Init
  BY InitEstablishes
<1>2. IInv /\ [Next]_vars => [Fifo!Next]_<<q = "queue", Contents, returned>>
  BY NextKeeps, StutterKeeps
<1> QED BY <1>1, <1>2, Invariance, PTL DEF Spec, IsFifo, Fifo!Spec

=============================================================================
