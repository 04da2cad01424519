---------------------------- MODULE ForwardQueue ----------------------------
(***************************************************************************)
(* What the MIP daemon needs of its forward queue: a bounded first-in       *)
(* first-out queue, which can be created and flushed.  LinkedQueue, the     *)
(* model of queue.c, is shown to implement it.                              *)
(***************************************************************************)
EXTENDS Naturals, Sequences

CONSTANTS
  Data,              \* the pointers that are queued
  MAX_QUEUE_SIZE,    \* entries the queue holds at most (16 in the code)
  Null               \* NULL

VARIABLES
  exists,     \* there is a queue
  contents,   \* what has been pushed and not yet popped, oldest first
  returned    \* what the last call returned: Data or Null, or 0 or -1 as
              \* "ok" or "error"

Init == exists = FALSE /\ contents = <<>> /\ returned = Null

Create ==
  /\ ~exists
  /\ exists' = TRUE
  /\ returned' = "ok"
  /\ UNCHANGED contents

Flush ==
  /\ exists' = FALSE
  /\ contents' = <<>>
  /\ returned' = "ok"

Push(d) ==
  /\ \/ /\ exists /\ Len(contents) < MAX_QUEUE_SIZE
        /\ contents' = Append(contents, d)
        /\ returned' = "ok"
     \/ /\ ~exists \/ Len(contents) = MAX_QUEUE_SIZE
        /\ returned' = "error"
        /\ UNCHANGED contents
  /\ UNCHANGED exists

Pop ==
  /\ \/ /\ contents # <<>>
        /\ contents' = Tail(contents)
        /\ returned' = Head(contents)
     \/ /\ contents = <<>>
        /\ returned' = Null
        /\ UNCHANGED contents
  /\ UNCHANGED exists

\* Looking at the oldest and at the newest entry.
Peek(i) ==
  /\ returned' = IF contents = <<>> THEN Null ELSE contents[i]
  /\ UNCHANGED <<exists, contents>>

Next ==
  \/ Create
  \/ Flush
  \/ \E d \in Data : Push(d)
  \/ Pop
  \/ Peek(1)
  \/ Peek(Len(contents))

Spec == Init /\ [][Next]_<<exists, contents, returned>>

=============================================================================
