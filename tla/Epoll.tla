-------------------------------- MODULE Epoll -------------------------------
(***************************************************************************)
(* The kernel's side of an epoll instance, as the daemon of oblig1 uses it  *)
(* (lib/utils.c): the list of descriptors that have become ready, and the   *)
(* set of those that are watched.  A descriptor added with EPOLLONESHOT is  *)
(* no longer watched once epoll_wait has reported it; any other one stays   *)
(* in the list as long as epoll_wait finds it readable.                     *)
(***************************************************************************)
EXTENDS Sequences, SequencesExt

\* fd is added to the instance: it is ready at once if there is something to read.
Added(ready, fd, readable) == IF readable THEN Append(ready, fd) ELSE ready

\* fd has become readable: it is put at the end of the list, once, if it is
\* watched.
Wake(ready, watched, fd) ==
  IF fd \in watched /\ fd \notin ToSet(ready) THEN Append(ready, fd) ELSE ready

\* The members of the list that are in S, in their order: of its first i members
\* for each i, and of all.
KeptSteps(list, S) ==
  LET kept[i \in 0 .. Len(list)] ==
        IF i = 0 THEN <<>>
        ELSE IF list[i] \in S THEN Append(kept[i - 1], list[i]) ELSE kept[i - 1]
  IN  kept
Kept(list, S) == KeptSteps(list, S)[Len(list)]

\* What epoll_wait returns: of the list, those that are readable now.
Reported(ready, readable) == Kept(ready, readable)

\* Mutant of WatchedAfter: nothing is treated as EPOLLONESHOT.
WatchedAfterAll(watched, reported, oneshot) == watched

\* The list and the set after it has returned `reported`.
ReadyAfter(reported, oneshot) == Kept(reported, ToSet(reported) \ oneshot)
WatchedAfter(watched, reported, oneshot) ==
  watched \ (ToSet(reported) \cap oneshot)

=============================================================================
