----------------------------- MODULE LinkedQueue ----------------------------
(***************************************************************************)
(* lib/queue.c: a queue as a doubly linked list on the heap.  The MIP       *)
(* daemon uses it as its forward queue, zeroed instead of created with      *)
(* queue_create, and calls queue_tail_push and queue_head_pop only.         *)
(*                                                                          *)
(* The heap maps the addresses calloc has handed out and free has not taken *)
(* back to their queue_entry.  The id of an entry is never read, and is     *)
(* left out.                                                                *)
(*                                                                          *)
(* queue_tail_push sets no prev link and queue_head_push no next link, so   *)
(* queue_tail_pop from more than one entry and queue_head_push in front of  *)
(* another entry lose the rest of the list.  Next has them only where they  *)
(* do not, see SafeCall.                                                    *)
(***************************************************************************)
EXTENDS Integers, Sequences, FiniteSets

CONSTANTS
  Address,           \* the addresses calloc can hand out
  Data,              \* the pointers that are queued
  MAX_QUEUE_SIZE,    \* entries the queue holds at most (16 in the code)
  Null               \* NULL

ASSUME QueueSizeAssumption == MAX_QUEUE_SIZE \in Nat \ {0}
ASSUME NullAssumption == Null \notin Data

\* calloc does not fail while the queue has room.
ASSUME AddressAssumption ==
  /\ IsFiniteSet(Address)
  /\ Cardinality(Address) >= MAX_QUEUE_SIZE
  /\ Null \notin Address

VARIABLES
  q,           \* the caller's pointer to the queue: "NULL" or "queue"
  head, tail, length, heap,
  returned     \* by the last call; 0 or a queue as "ok", -1 as "error"

vars == <<q, head, tail, length, heap, returned>>

QueueEntry ==
  [next : Address \cup {Null}, prev : Address \cup {Null}, data : Data]

TypeOK ==
  /\ q \in {"NULL", "queue"}
  /\ head \in Address \cup {Null}
  /\ tail \in Address \cup {Null}
  /\ length \in 0 .. MAX_QUEUE_SIZE
  /\ \E live \in SUBSET Address : heap \in [live -> QueueEntry]
  /\ returned \in Data \cup {Null, "ok", "error"}

Init ==
  /\ q = "NULL"
  /\ head = Null
  /\ tail = Null
  /\ length = 0
  /\ heap = <<>>
  /\ returned = Null

-----------------------------------------------------------------------------

queue_length == IF q = "NULL" THEN -1 ELSE length

\* A NULL queue is both empty and full.
queue_is_empty == q = "NULL" \/ length = 0

\* Mutant of queue_is_full: full is one entry too late.
QueueFullLate == q = "NULL" \/ queue_length = MAX_QUEUE_SIZE + 1

queue_is_full == q = "NULL" \/ queue_length = MAX_QUEUE_SIZE

\* A queue is made when there is none.
queue_create ==
  /\ q = "NULL"
  /\ q' = "queue"
  /\ head' = Null
  /\ tail' = Null
  /\ length' = 0
  /\ returned' = "ok"
  /\ UNCHANGED heap

\* The heap after calloc has handed out `entry`, and after free(entry).
Allocated(h, entry, d) ==
  [a \in DOMAIN h \cup {entry} |->
     IF a = entry THEN [next |-> Null, prev |-> Null, data |-> d] ELSE h[a]]
Freed(h, entry) == [a \in DOMAIN h \ {entry} |-> h[a]]

Linked(entry) ==
  IF tail = Null THEN heap ELSE [heap EXCEPT ![tail].next = entry]

\* Mutant of queue_tail_push: the entry is put in front of the head.
TailPushInFront(d) ==
  /\ ~queue_is_full
  /\ \E entry \in Address \ DOMAIN heap :
       /\ head' = entry
       /\ tail' = IF tail = Null THEN entry ELSE tail
       /\ heap' = [Allocated(heap, entry, d) EXCEPT ![entry].next = head]
  /\ length' = length + 1
  /\ returned' = "ok"
  /\ UNCHANGED q

\* The prev link of the new entry is left NULL.
queue_tail_push(d) ==
  \/ /\ queue_is_full
     /\ returned' = "error"
     /\ UNCHANGED <<q, head, tail, length, heap>>
  \/ /\ ~queue_is_full
     /\ \E entry \in Address \ DOMAIN heap :
          /\ head' = IF tail = Null THEN entry ELSE head
          /\ tail' = entry
          /\ heap' = Allocated(Linked(entry), entry, d)
     /\ length' = length + 1
     /\ returned' = "ok"
     /\ UNCHANGED q

\* A new entry in front is linked back to, but not to what was the head.
queue_head_push(d) ==
  \/ /\ queue_is_full
     /\ returned' = "error"
     /\ UNCHANGED <<q, head, tail, length, heap>>
  \/ /\ ~queue_is_full
     /\ \E entry \in Address \ DOMAIN heap :
          /\ head' = entry
          /\ tail' = IF head = Null THEN entry ELSE tail
          /\ heap' = Allocated(IF head = Null THEN heap ELSE [heap EXCEPT ![head].prev = entry],
                               entry, d)
     /\ length' = length + 1
     /\ returned' = "ok"
     /\ UNCHANGED q

Unlinked(entry) ==
  IF entry = Null THEN heap ELSE [heap EXCEPT ![entry].prev = Null]

\* Mutant of queue_head_pop: tail is left when the last entry is popped.
HeadPopKeepsTail ==
  \/ /\ queue_is_empty
     /\ returned' = Null
     /\ UNCHANGED <<q, head, tail, length, heap>>
  \/ /\ ~queue_is_empty
     /\ head' = heap[head].next
     /\ heap' = Freed(heap, head)
     /\ length' = length - 1
     /\ returned' = heap[head].data
     /\ UNCHANGED <<q, tail>>

queue_head_pop ==
  \/ /\ queue_is_empty
     /\ returned' = Null
     /\ UNCHANGED <<q, head, tail, length, heap>>
  \/ /\ ~queue_is_empty
     /\ LET second == heap[head].next
        IN  /\ head' = second
            /\ tail' = IF second = Null THEN Null ELSE tail
            /\ heap' = Freed(Unlinked(second), head)
     /\ length' = length - 1
     /\ returned' = heap[head].data
     /\ UNCHANGED q

queue_tail_pop ==
  \/ /\ queue_is_empty
     /\ returned' = Null
     /\ UNCHANGED <<q, head, tail, length, heap>>
  \/ /\ ~queue_is_empty
     /\ LET last == heap[tail].prev
        IN  /\ tail' = last
            /\ head' = IF last = Null THEN Null ELSE head
            /\ heap' = Freed(IF last = Null THEN heap ELSE [heap EXCEPT ![last].next = Null],
                             tail)
     /\ length' = length - 1
     /\ returned' = heap[tail].data
     /\ UNCHANGED q

queue_head_peek ==
  /\ returned' = IF queue_is_empty THEN Null ELSE heap[head].data
  /\ UNCHANGED <<q, head, tail, length, heap>>

queue_tail_peek ==
  /\ returned' = IF queue_is_empty THEN Null ELSE heap[tail].data
  /\ UNCHANGED <<q, head, tail, length, heap>>

\* The k-th of n entries that are reached from `first` by the next links of h,
\* and those of the queue.
ReachedIn(h, first, n) ==
  LET nth[k \in 0 .. n] ==
        IF k = 0 THEN Null
        ELSE IF k = 1 THEN first ELSE h[nth[k - 1]].next
  IN  nth
Reached == ReachedIn(heap, head, length)
Entries == {Reached[k] : k \in 1 .. length}

\* Every entry is popped, and the queue freed.  The caller forgets the pointer.
queue_flush ==
  /\ q' = "NULL"
  /\ head' = Null /\ tail' = Null /\ length' = 0
  /\ heap' = [a \in DOMAIN heap \ Entries |-> heap[a]]
  /\ returned' = "ok"

\* The two functions that no caller uses are called only where they leave the
\* list whole.
SafeCall ==
  \/ \E d \in Data : (queue_is_empty \/ queue_is_full) /\ queue_head_push(d)
  \/ length <= 1 /\ queue_tail_pop

Next ==
  \/ queue_create
  \/ \E d \in Data : queue_tail_push(d)
  \/ queue_head_pop
  \/ queue_head_peek
  \/ queue_tail_peek
  \/ SafeCall
  \/ queue_flush

Spec == Init /\ [][Next]_vars

-----------------------------------------------------------------------------

Contents == [k \in 1 .. length |-> heap[Reached[k]].data]

Fifo == INSTANCE ForwardQueue WITH exists <- q = "queue", contents <- Contents

\* The list is a bounded first-in first-out queue: what is popped is what was
\* pushed, each once and in order, however calloc reuses the memory of the
\* entries that queue_entry_destroy has freed, and nothing is left of it when
\* it has been flushed.
IsFifo == Fifo!Spec

\* Every entry on the heap is in the list, and the last one reached is the
\* tail: no entry is leaked, also not by queue_flush, and none is used after it
\* has been freed.
NoLeak ==
  /\ DOMAIN heap = Entries
  /\ Cardinality(DOMAIN heap) = length
  /\ tail = Reached[length]

=============================================================================
