------------------------------ MODULE QueueSpec ------------------------------
(***************************************************************************)
(* What BoundedQueue promises: a first-in first-out queue of at most Size   *)
(* values.  got[c] is the value of consumer c's last successful Dequeue.    *)
(***************************************************************************)
EXTENDS Naturals, Sequences

CONSTANTS Consumer, Value, NoValue, Size

VARIABLES queue, got

Init == queue = << >> /\ got = [c \in Consumer |-> NoValue]

Enqueue(v) ==
  /\ Len(queue) < Size
  /\ queue' = Append(queue, v)
  /\ UNCHANGED got

Dequeue(c) ==
  /\ queue # << >>
  /\ queue' = Tail(queue)
  /\ got' = [got EXCEPT ![c] = Head(queue)]

Next == (\E v \in Value : Enqueue(v)) \/ (\E c \in Consumer : Dequeue(c))

Spec == Init /\ [][Next]_<<queue, got>>
=============================================================================
