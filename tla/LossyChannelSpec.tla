-------------------------- MODULE LossyChannelSpec --------------------------
(***************************************************************************)
(* What a reader is promised by its channel buffer: messages, numbered in   *)
(* the order they came, are delivered in that order, each at most once;     *)
(* some may be lost.                                                        *)
(***************************************************************************)
EXTENDS Naturals

VARIABLES sent,        \* how many messages have come
          received,    \* the number of the last one delivered, 0 at first
          deliveries   \* how many have been delivered

Init == sent = 0 /\ received = 0 /\ deliveries = 0

Send == sent' = sent + 1 /\ UNCHANGED <<received, deliveries>>

Receive ==
  /\ received' \in (received + 1) .. sent
  /\ deliveries' = deliveries + 1
  /\ UNCHANGED sent

Next == Send \/ Receive

Spec == Init /\ [][Next]_<<sent, received, deliveries>>
=============================================================================
