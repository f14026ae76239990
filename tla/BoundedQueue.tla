---------------------------- MODULE BoundedQueue ----------------------------
(***************************************************************************)
(* The lock-free ring queue of src/cyber/base/bounded_queue.h, with a wait  *)
(* strategy whose EmptyWait returns by itself (sleep, yield, busy spin).    *)
(* Every atomic access is a step; the copy of an element into the ring is   *)
(* two steps, between which the slot holds a Torn value; the copy out of    *)
(* the ring may meet it.  uint64_t counters do not wrap in any feasible run.*)
(***************************************************************************)
EXTENDS Integers, Sequences, TLC, SequenceTheorems, TLAPS

CONSTANTS Producer, Consumer,  \* the threads that enqueue and that dequeue
          Value,               \* the elements
          NoValue, Torn,       \* a default-constructed and a half-copied one
          Size,                \* the argument of Init
          WaitModes,           \* TRUE: the Wait... calls are made, FALSE: the others
          MaxTail              \* bound: no Enqueue starts once tail_ is there

Users == Producer \union Consumer

ASSUME ThreadsDisjoint == Producer \intersect Consumer = {}
ASSUME SpecialValues == NoValue \notin Value /\ Torn \notin Value
ASSUME SizeIsNat == Size \in Nat /\ MaxTail \in Nat
ASSUME ModesAreBoolean == WaitModes \subseteq BOOLEAN

VARIABLES head_, tail_, commit_, pool_, break_all_wait_,
          pc,       \* where each thread is
          waits,    \* TRUE in WaitEnqueue and WaitDequeue
          old,      \* the local old_tail or old_head
          element,  \* the element to copy in, or the one copied out
          got       \* per consumer, the last element a Dequeue returned

shared == <<head_, tail_, commit_, pool_, break_all_wait_>>
vars == <<head_, tail_, commit_, pool_, break_all_wait_,
          pc, waits, old, element, got>>

pool_size_ == Size + 2
GetIndex(num) == num % pool_size_

Init ==
  /\ head_ = 0 /\ tail_ = 1 /\ commit_ = 1
  /\ pool_ = [i \in 0 .. pool_size_ - 1 |-> NoValue]
  /\ break_all_wait_ = FALSE
  /\ pc = [t \in Users |-> "idle"]
  /\ waits = [t \in Users |-> FALSE]
  /\ old = [t \in Users |-> 0]
  /\ element = [t \in Users |-> NoValue]
  /\ got = [c \in Consumer |-> NoValue]

Go(t, from, to) == pc[t] = from /\ pc' = [pc EXCEPT ![t] = to]

\* The call returns and its locals are gone.
Return(t) ==
  /\ pc' = [pc EXCEPT ![t] = "idle"]
  /\ waits' = [waits EXCEPT ![t] = FALSE]
  /\ old' = [old EXCEPT ![t] = 0]
  /\ element' = [element EXCEPT ![t] = NoValue]

\* Enqueue or Dequeue returns false: the Wait... variants call EmptyWait and
\* test break_all_wait_ again.
ReturnFalse(t) ==
  /\ IF waits[t]
       THEN /\ pc' = [pc EXCEPT ![t] = "wait"]
            /\ old' = [old EXCEPT ![t] = 0]
            /\ UNCHANGED <<waits, element>>
       ELSE Return(t)
  /\ UNCHANGED got
-----------------------------------------------------------------------------
\* Enqueue(v), or WaitEnqueue(v) when w is TRUE.
CallEnqueue(p, v, w) ==
  /\ pc[p] = "idle" /\ tail_ < MaxTail
  /\ pc' = [pc EXCEPT ![p] = IF w THEN "wait" ELSE "e_load"]
  /\ waits' = [waits EXCEPT ![p] = w]
  /\ element' = [element EXCEPT ![p] = v]
  /\ UNCHANGED <<shared, old, got>>

CallDequeue(c, w) ==
  /\ pc[c] = "idle"
  /\ pc' = [pc EXCEPT ![c] = IF w THEN "wait" ELSE "d_load"]
  /\ waits' = [waits EXCEPT ![c] = w]
  /\ UNCHANGED <<shared, old, element, got>>

\* The test at the top of the loops of WaitEnqueue and WaitDequeue.
WaitLoop(t) ==
  /\ pc[t] = "wait"
  /\ IF break_all_wait_
       THEN Return(t)
       ELSE /\ pc' = [pc EXCEPT ![t] =
                        IF t \in Producer THEN "e_load" ELSE "d_load"]
            /\ UNCHANGED <<waits, old, element>>
  /\ UNCHANGED <<shared, got>>

LoadTail(p) ==
  /\ Go(p, "e_load", "e_full")
  /\ old' = [old EXCEPT ![p] = tail_]
  /\ UNCHANGED <<shared, waits, element, got>>

IsFull_OneMore(p) == GetIndex(old[p]) = GetIndex(head_)

IsFull_OneLess(p) == GetIndex(old[p] + 2) = GetIndex(head_)

IsFull(p) == GetIndex(old[p] + 1) = GetIndex(head_)

CheckFull(p) ==
  /\ pc[p] = "e_full"
  /\ IF IsFull(p)
       THEN ReturnFalse(p)
       ELSE /\ pc' = [pc EXCEPT ![p] = "e_cas"]
            /\ UNCHANGED <<waits, old, element, got>>
  /\ UNCHANGED shared

ReserveSucceeds(p) ==
  /\ Go(p, "e_cas", "e_write")
  /\ tail_ = old[p]
  /\ tail_' = old[p] + 1
  /\ UNCHANGED <<head_, commit_, pool_, break_all_wait_>>
  /\ UNCHANGED <<waits, old, element, got>>

\* A failed compare-exchange, spurious or not, reloads old_tail.
ReserveFails(p) ==
  /\ Go(p, "e_cas", "e_full")
  /\ old' = [old EXCEPT ![p] = tail_]
  /\ UNCHANGED <<shared, waits, element, got>>

CopyIn(p) ==
  /\ Go(p, "e_write", "e_copied")
  /\ pool_' = [pool_ EXCEPT ![GetIndex(old[p])] = Torn]
  /\ UNCHANGED <<head_, tail_, commit_, break_all_wait_>>
  /\ UNCHANGED <<waits, old, element, got>>

CopyInDone(p) ==
  /\ Go(p, "e_copied", "e_commit")
  /\ pool_' = [pool_ EXCEPT ![GetIndex(old[p])] = element[p]]
  /\ UNCHANGED <<head_, tail_, commit_, break_all_wait_>>
  /\ UNCHANGED <<waits, old, element, got>>

Commit_OutOfOrder(p) ==
  /\ pc[p] = "e_commit"
  /\ commit_' = commit_ + 1
  /\ Return(p)
  /\ UNCHANGED <<head_, tail_, pool_, break_all_wait_, got>>

\* Producers commit in the order of their reservations: the others spin.
Commit(p) ==
  /\ pc[p] = "e_commit"
  /\ commit_ = old[p]
  /\ commit_' = old[p] + 1
  /\ Return(p)
  /\ UNCHANGED <<head_, tail_, pool_, break_all_wait_, got>>
-----------------------------------------------------------------------------
LoadHead(c) ==
  /\ Go(c, "d_load", "d_test")
  /\ old' = [old EXCEPT ![c] = head_]
  /\ UNCHANGED <<shared, waits, element, got>>

CheckEmpty(c) ==
  /\ pc[c] = "d_test"
  /\ IF old[c] + 1 = commit_
       THEN ReturnFalse(c)
       ELSE /\ pc' = [pc EXCEPT ![c] = "d_read"]
            /\ UNCHANGED <<waits, old, element, got>>
  /\ UNCHANGED shared

CopyOut(c) ==
  /\ Go(c, "d_read", "d_cas")
  /\ element' = [element EXCEPT ![c] = pool_[GetIndex(old[c] + 1)]]
  /\ UNCHANGED <<shared, waits, old, got>>

ReleaseSucceeds_Blind(c) ==
  /\ pc[c] = "d_cas"
  /\ head_' = old[c] + 1
  /\ got' = [got EXCEPT ![c] = element[c]]
  /\ Return(c)
  /\ UNCHANGED <<tail_, commit_, pool_, break_all_wait_>>

ReleaseSucceeds(c) ==
  /\ pc[c] = "d_cas"
  /\ head_ = old[c]
  /\ head_' = old[c] + 1
  /\ got' = [got EXCEPT ![c] = element[c]]
  /\ Return(c)
  /\ UNCHANGED <<tail_, commit_, pool_, break_all_wait_>>

ReleaseFails(c) ==
  /\ Go(c, "d_cas", "d_test")
  /\ old' = [old EXCEPT ![c] = head_]
  /\ UNCHANGED <<shared, waits, element, got>>
-----------------------------------------------------------------------------
BreakAllWait ==
  /\ break_all_wait_' = TRUE
  /\ UNCHANGED <<head_, tail_, commit_, pool_, pc, waits, old, element, got>>

ProducerStep(p) ==
  \/ LoadTail(p) \/ CheckFull(p) \/ ReserveSucceeds(p) \/ ReserveFails(p)
  \/ CopyIn(p) \/ CopyInDone(p) \/ Commit(p)

ConsumerStep(c) ==
  \/ LoadHead(c) \/ CheckEmpty(c) \/ CopyOut(c)
  \/ ReleaseSucceeds(c) \/ ReleaseFails(c)

Next ==
  \/ \E p \in Producer, v \in Value, w \in WaitModes : CallEnqueue(p, v, w)
  \/ \E c \in Consumer, w \in WaitModes : CallDequeue(c, w)
  \/ \E t \in Users : WaitLoop(t)
  \/ \E p \in Producer : ProducerStep(p)
  \/ \E c \in Consumer : ConsumerStep(c)
  \/ BreakAllWait

Spec == Init /\ [][Next]_vars

(***************************************************************************)
(* Every thread inside the queue keeps running, and a compare-exchange that *)
(* could succeed again and again does not fail spuriously for ever.  The    *)
(* code does not make anyone call.                                          *)
(***************************************************************************)
FairSpec ==
  /\ Spec
  /\ \A t \in Users : WF_vars(WaitLoop(t))
  /\ \A p \in Producer :
       /\ WF_vars(ProducerStep(p))
       /\ SF_vars(ReserveSucceeds(p))
  /\ \A c \in Consumer :
       /\ WF_vars(ConsumerStep(c))
       /\ SF_vars(ReleaseSucceeds(c))
-----------------------------------------------------------------------------
Locations == {"idle", "wait", "e_load", "e_full", "e_cas", "e_write",
              "e_copied", "e_commit", "d_load", "d_test", "d_read", "d_cas"}

Elements == Value \union {NoValue, Torn}

TypeOK ==
  /\ head_ \in Nat /\ tail_ \in Nat /\ commit_ \in Nat
  /\ pool_ \in [0 .. pool_size_ - 1 -> Elements]
  /\ break_all_wait_ \in BOOLEAN
  /\ pc \in [Users -> Locations]
  /\ waits \in [Users -> BOOLEAN]
  /\ old \in [Users -> Nat]
  /\ element \in [Users -> Elements]
  /\ got \in [Consumer -> Value \union {NoValue}]

(***************************************************************************)
(* The three counters stay in order and the ring never holds more than Size *)
(* reserved slots, so a reservation never reaches a slot that has not been  *)
(* consumed.                                                                *)
(***************************************************************************)
CountersInOrder ==
  /\ head_ < commit_ /\ commit_ <= tail_
  /\ tail_ - head_ - 1 <= Size

\* A producer between its reservation and its commit.
Reserving(p) == pc[p] \in {"e_write", "e_copied", "e_commit"}

ProducerSlots ==
  \A p \in Producer :
    /\ pc[p] # "idle" => element[p] \in Value
    /\ pc[p] \in {"e_full", "e_cas"} => old[p] <= tail_
    /\ pc[p] = "e_cas" /\ old[p] = tail_ => tail_ - head_ <= Size
    /\ Reserving(p) => commit_ <= old[p] /\ old[p] < tail_
    /\ pc[p] = "e_commit" => pool_[GetIndex(old[p])] = element[p]

OneOwner ==
  \A p, q \in Producer :
    p # q /\ Reserving(p) /\ Reserving(q) => old[p] # old[q]

CommittedSlots ==
  \A i \in head_ + 1 .. commit_ - 1 : pool_[GetIndex(i)] \in Value

ConsumerSlots ==
  \A c \in Consumer :
    /\ pc[c] \in {"d_test", "d_read", "d_cas"} => old[c] <= head_
    /\ pc[c] \in {"d_read", "d_cas"} => old[c] + 1 < commit_
    /\ pc[c] = "d_cas" /\ old[c] = head_
         => element[c] = pool_[GetIndex(head_ + 1)]

(***************************************************************************)
(* Who may touch which slot.  A reserved slot belongs to one producer and   *)
(* lies outside the committed elements; a committed slot holds a complete   *)
(* element; a consumer whose compare-exchange would succeed holds a copy of *)
(* the element that is still in the ring, however long ago it copied it.    *)
(***************************************************************************)
SlotsOwned == ProducerSlots /\ OneOwner /\ CommittedSlots /\ ConsumerSlots

(***************************************************************************)
(* The committed and not yet consumed elements, oldest first.               *)
(***************************************************************************)
Contents == [i \in 1 .. commit_ - head_ - 1 |-> pool_[GetIndex(head_ + i)]]

(***************************************************************************)
(* The queue is linearizable to a bounded FIFO queue: the commit is the     *)
(* enqueue, the successful compare-exchange on head_ the dequeue, and what  *)
(* Dequeue returns is the oldest committed element, never a torn one, never *)
(* one that was overwritten between the copy and the compare-exchange.      *)
(***************************************************************************)
Abstract == INSTANCE QueueSpec WITH queue <- Contents
ImplementsQueue == Abstract!Spec

(***************************************************************************)
(* Enqueue reports a full queue only when Size elements are in the ring, or *)
(* when its copy of tail_ is stale (another producer moved tail_ after the  *)
(* load): the comparison of indices then says nothing about the queue.      *)
(***************************************************************************)
RejectedOnlyWhenFullOrStale ==
  [][\A p \in Producer :
       pc[p] = "e_full" /\ pc'[p] \in {"idle", "wait"}
         => tail_ - head_ - 1 = Size \/ old[p] # tail_]_vars

(***************************************************************************)
(* BreakAllWait ends every WaitEnqueue and WaitDequeue: their loops test    *)
(* break_all_wait_ before each new attempt.                                 *)
(***************************************************************************)
BreakEndsWaits ==
  \A t \in Users : (break_all_wait_ /\ waits[t]) ~> ~waits[t]

(* For TLC: threads of a kind and values are interchangeable. *)
Symmetry ==
  Permutations(Producer) \union Permutations(Consumer)
    \union Permutations(Value)

-----------------------------------------------------------------------------
(***************************************************************************)
(* BoundedQueue is a linearizable bounded FIFO queue for any number of      *)
(* producers and consumers, any capacity and any bound MaxTail.             *)
(*                                                                          *)
(* The counters alone are not inductive: that tail_ never laps head_ rests  *)
(* on every producer at the compare-exchange having seen a free slot, and   *)
(* that Dequeue returns the right element rests on nobody writing the slot  *)
(* of a committed element.  SlotsOwned says both.                           *)
(***************************************************************************)

(* Ring positions less than one turn apart use different slots of pool_;    *)
(* positions exactly one turn apart use the same one (GetIndex).            *)
LEMMA DistinctSlots ==
  ASSUME NEW i \in Nat, NEW j \in Nat, i < j, j - i < pool_size_
  PROVE  GetIndex(i) # GetIndex(j)
<1>1. pool_size_ \in Nat /\ pool_size_ > 0 BY SizeIsNat DEF pool_size_
<1> DEFINE turns == (j \div pool_size_) - (i \div pool_size_)
<1>2. /\ i = pool_size_ * (i \div pool_size_) + GetIndex(i)
      /\ j = pool_size_ * (j \div pool_size_) + GetIndex(j)
      /\ i \div pool_size_ \in Int /\ j \div pool_size_ \in Int
      /\ GetIndex(i) \in Nat /\ GetIndex(j) \in Nat
  BY <1>1 DEF GetIndex
<1>3. SUFFICES ASSUME GetIndex(i) = GetIndex(j) PROVE FALSE
  OBVIOUS
<1>4. turns \in Int /\ j - i = pool_size_ * turns BY <1>1, <1>2, <1>3
<1> HIDE DEF turns
<1>5. CASE turns <= 0 BY <1>1, <1>4, <1>5
<1>6. CASE turns >= 1 BY <1>1, <1>4, <1>6
<1> QED BY <1>4, <1>5, <1>6

LEMMA SameSlot ==
  ASSUME NEW i \in Nat
  PROVE  /\ GetIndex(i + pool_size_) = GetIndex(i)
         /\ GetIndex(i) \in 0 .. pool_size_ - 1
<1>1. pool_size_ \in Nat /\ pool_size_ > 0 BY SizeIsNat DEF pool_size_
<1> DEFINE k == i + pool_size_
           more == (k \div pool_size_) - (i \div pool_size_) - 1
<1>2. /\ i = pool_size_ * (i \div pool_size_) + GetIndex(i)
      /\ k = pool_size_ * (k \div pool_size_) + GetIndex(k)
      /\ i \div pool_size_ \in Int /\ k \div pool_size_ \in Int
      /\ GetIndex(i) \in 0 .. pool_size_ - 1 /\ GetIndex(k) \in 0 .. pool_size_ - 1
  BY <1>1 DEF GetIndex
<1>3. more \in Int /\ GetIndex(i) - GetIndex(k) = pool_size_ * more
  BY <1>1, <1>2
<1> HIDE DEF k, more
<1> DEFINE difference == GetIndex(i) - GetIndex(k)
<1>4. difference \in Int /\ -pool_size_ < difference /\ difference < pool_size_
  BY <1>1, <1>2
<1>5. difference = pool_size_ * more BY <1>3
<1> HIDE DEF difference
<1>6. ~(more >= 1) BY <1>1, <1>3, <1>4, <1>5
<1>7. ~(more <= -1) BY <1>1, <1>3, <1>4, <1>5
<1>8. more = 0 BY <1>3, <1>6, <1>7
<1>9. difference = 0 BY <1>1, <1>5, <1>8
<1> QED BY <1>2, <1>9 DEF k, difference

IInv == TypeOK /\ CountersInOrder /\ SlotsOwned

LEMMA InitIInv == Init => IInv
<1> SUFFICES ASSUME Init PROVE IInv OBVIOUS
<1> USE SizeIsNat DEF Init
<1>1. TypeOK BY DEF TypeOK, Elements, Locations, pool_size_
<1>2. CountersInOrder BY DEF CountersInOrder
<1>3. SlotsOwned
  BY DEF SlotsOwned, ProducerSlots, OneOwner, CommittedSlots, ConsumerSlots,
         Reserving, Users
<1> QED BY <1>1, <1>2, <1>3 DEF IInv

(* Steps that change neither the counters nor the ring only have to         *)
(* preserve what is said of the thread that takes them.                     *)
LEMMA LocalIInv ==
  ASSUME IInv, TypeOK', NEW t \in Users,
         UNCHANGED <<head_, tail_, commit_, pool_>>,
         \A u \in Users \ {t} : /\ pc'[u] = pc[u] /\ old'[u] = old[u]
                                 /\ element'[u] = element[u],
         ~Reserving(t)',
         t \in Producer =>
           /\ pc'[t] # "idle" => element'[t] \in Value
           /\ pc'[t] \in {"e_full", "e_cas"} => old'[t] <= tail_
           /\ pc'[t] = "e_cas" /\ old'[t] = tail_ => tail_ - head_ <= Size,
         t \in Consumer =>
           /\ pc'[t] \in {"d_test", "d_read", "d_cas"} => old'[t] <= head_
           /\ pc'[t] \in {"d_read", "d_cas"} => old'[t] + 1 < commit_
           /\ pc'[t] = "d_cas" /\ old'[t] = head_
                => element'[t] = pool_[GetIndex(head_ + 1)]
  PROVE  IInv'
<1>1. CountersInOrder' BY DEF IInv, CountersInOrder
<1>2. ProducerSlots'
  BY DEF IInv, SlotsOwned, ProducerSlots, Reserving, Users, GetIndex,
         pool_size_
<1>3. OneOwner' BY DEF IInv, SlotsOwned, OneOwner, Reserving, Users
<1>4. CommittedSlots'
  BY DEF IInv, SlotsOwned, CommittedSlots, GetIndex, pool_size_
<1>5. ConsumerSlots'
  BY DEF IInv, SlotsOwned, ConsumerSlots, Users, GetIndex, pool_size_
<1> QED BY <1>1, <1>2, <1>3, <1>4, <1>5 DEF IInv, SlotsOwned

LEMMA CallIInv ==
  ASSUME IInv
  PROVE  /\ \A p \in Producer, v \in Value, w \in WaitModes :
              CallEnqueue(p, v, w) => IInv'
         /\ \A c \in Consumer, w \in WaitModes : CallDequeue(c, w) => IInv'
<1> USE ModesAreBoolean DEF Users, Locations, Elements, Reserving
<1>1. ASSUME NEW p \in Producer, NEW v \in Value, NEW w \in WaitModes,
             CallEnqueue(p, v, w)
      PROVE  IInv'
  <2>1. TypeOK' BY <1>1 DEF IInv, TypeOK, CallEnqueue, shared
  <2> QED
    BY <1>1, <2>1, LocalIInv, ThreadsDisjoint DEF IInv, TypeOK, CallEnqueue, shared
<1>2. ASSUME NEW c \in Consumer, NEW w \in WaitModes, CallDequeue(c, w)
      PROVE  IInv'
  <2>1. TypeOK' BY <1>2 DEF IInv, TypeOK, CallDequeue, shared
  <2> QED
    BY <1>2, <2>1, LocalIInv, ThreadsDisjoint DEF IInv, TypeOK, CallDequeue, shared
<1> QED BY <1>1, <1>2

(* Enqueue and Dequeue returning false leave a thread idle or at the        *)
(* waiting loop, with the element it wants to enqueue.                      *)
LEMMA ReturnFalseLocals ==
  ASSUME TypeOK, NEW t \in Users, ReturnFalse(t), UNCHANGED shared
  PROVE  /\ TypeOK'
         /\ pc'[t] \in {"idle", "wait"}
         /\ pc'[t] = "wait" => element'[t] = element[t]
         /\ \A u \in Users \ {t} : /\ pc'[u] = pc[u] /\ old'[u] = old[u]
                                    /\ element'[u] = element[u]
<1> USE DEF TypeOK, shared, Elements, Locations
<1>1. CASE waits[t]
  <2>1. /\ pc' = [pc EXCEPT ![t] = "wait"] /\ old' = [old EXCEPT ![t] = 0]
        /\ UNCHANGED <<waits, element, got>>
    BY <1>1, Zenon DEF ReturnFalse
  <2> QED BY <2>1
<1>2. CASE ~waits[t]
  <2>1. Return(t) /\ UNCHANGED got BY <1>2, Zenon DEF ReturnFalse
  <2> QED BY <2>1 DEF Return
<1> QED BY <1>1, <1>2

LEMMA WaitLoopIInv ==
  ASSUME IInv, NEW t \in Users, WaitLoop(t)
  PROVE  IInv'
<1>1. pc[t] = "wait" /\ UNCHANGED <<shared, got>> BY DEF WaitLoop
<1>2. CASE break_all_wait_
  <2>1. Return(t) BY <1>2, Zenon DEF WaitLoop
  <2>2. TypeOK'
    BY <1>1, <2>1 DEF IInv, TypeOK, Return, shared, Elements, Locations
  <2> QED
    BY <1>1, <2>1, <2>2, LocalIInv
    DEF IInv, TypeOK, Return, shared, Users, Reserving
<1>3. CASE ~break_all_wait_
  <2>1. /\ pc' = [pc EXCEPT ![t] =
                    IF t \in Producer THEN "e_load" ELSE "d_load"]
        /\ UNCHANGED <<waits, old, element>>
    BY <1>3, Zenon DEF WaitLoop
  <2>2. t \in Producer => element[t] \in Value
    BY <1>1 DEF IInv, SlotsOwned, ProducerSlots
  <2>3. TypeOK' BY <1>1, <2>1 DEF IInv, TypeOK, shared, Locations
  <2> QED
    BY <1>1, <2>1, <2>2, <2>3, LocalIInv
    DEF IInv, TypeOK, shared, Users, Reserving
<1> QED BY <1>2, <1>3

(* The loads and tests of Enqueue.  A producer passes the test with a       *)
(* current copy of tail_ only if a slot is free.                            *)
LEMMA ProducerLocalIInv ==
  ASSUME IInv, NEW p \in Producer,
         LoadTail(p) \/ CheckFull(p) \/ ReserveFails(p)
  PROVE  IInv'
<1> USE SizeIsNat, ThreadsDisjoint DEF Users, Locations, Elements, shared, Go
<1>0. p \in Users /\ element[p] \in Value
  BY DEF IInv, SlotsOwned, ProducerSlots, LoadTail, CheckFull, ReserveFails
<1>1. CASE LoadTail(p)
  <2>1. TypeOK' BY <1>1 DEF IInv, TypeOK, LoadTail
  <2> QED
    BY <1>0, <1>1, <2>1, LocalIInv DEF IInv, TypeOK, LoadTail, Reserving
<1>2. CASE ReserveFails(p)
  <2>1. TypeOK' BY <1>2 DEF IInv, TypeOK, ReserveFails
  <2> QED
    BY <1>0, <1>2, <2>1, LocalIInv DEF IInv, TypeOK, ReserveFails, Reserving
<1>3. CASE CheckFull(p) /\ IsFull(p)
  <2>1. ReturnFalse(p) /\ UNCHANGED shared BY <1>3 DEF CheckFull
  <2> QED BY <1>0, <2>1, ReturnFalseLocals, LocalIInv DEF IInv, Reserving
<1>4. CASE CheckFull(p) /\ ~IsFull(p)
  <2>1. TypeOK' BY <1>4 DEF IInv, TypeOK, CheckFull
  <2>2. old[p] <= tail_
    BY <1>4 DEF IInv, SlotsOwned, ProducerSlots, CheckFull
  <2>3. old[p] = tail_ => tail_ - head_ <= Size
    <3>1. SUFFICES ASSUME old[p] = tail_, tail_ - head_ > Size
                   PROVE  IsFull(p)
      BY <1>4 DEF IInv, TypeOK
    <3>2. tail_ + 1 = head_ + pool_size_
      BY <3>1 DEF IInv, TypeOK, CountersInOrder, pool_size_
    <3>3. head_ \in Nat BY DEF IInv, TypeOK
    <3> QED BY <3>1, <3>2, <3>3, SameSlot DEF IsFull
  <2>4. /\ pc'[p] = "e_cas" /\ old' = old /\ element' = element
        /\ \A u \in Users \ {p} : pc'[u] = pc[u]
    BY <1>4 DEF IInv, TypeOK, CheckFull
  <2>5. UNCHANGED <<head_, tail_, commit_, pool_>> BY <1>4 DEF CheckFull
  <2> QED
    BY <1>0, <2>1, <2>2, <2>3, <2>4, <2>5, LocalIInv DEF Reserving
<1> QED BY <1>1, <1>2, <1>3, <1>4

(* The loads, the test and the copy of Dequeue.                             *)
LEMMA ConsumerLocalIInv ==
  ASSUME IInv, NEW c \in Consumer,
         LoadHead(c) \/ CheckEmpty(c) \/ CopyOut(c) \/ ReleaseFails(c)
  PROVE  IInv'
<1> USE SizeIsNat, ThreadsDisjoint DEF Users, Locations, Elements, shared, Go
<1>0. c \in Users /\ c \notin Producer OBVIOUS
<1>1. CASE LoadHead(c)
  <2>1. TypeOK' BY <1>1 DEF IInv, TypeOK, LoadHead
  <2> QED
    BY <1>0, <1>1, <2>1, LocalIInv DEF IInv, TypeOK, LoadHead, Reserving
<1>2. CASE ReleaseFails(c)
  <2>1. TypeOK' BY <1>2 DEF IInv, TypeOK, ReleaseFails
  <2> QED
    BY <1>0, <1>2, <2>1, LocalIInv DEF IInv, TypeOK, ReleaseFails, Reserving
<1>3. CASE CheckEmpty(c) /\ old[c] + 1 = commit_
  <2>1. ReturnFalse(c) /\ UNCHANGED shared BY <1>3 DEF CheckEmpty
  <2> QED BY <1>0, <2>1, ReturnFalseLocals, LocalIInv DEF IInv, Reserving
<1>5. CASE CheckEmpty(c) /\ old[c] + 1 # commit_
  <2>1. TypeOK' BY <1>5 DEF IInv, TypeOK, CheckEmpty
  <2>2. old[c] <= head_ /\ old[c] + 1 < commit_
    BY <1>5 DEF IInv, TypeOK, CountersInOrder, SlotsOwned, ConsumerSlots,
                CheckEmpty
  <2>3. /\ pc'[c] = "d_read" /\ old' = old /\ element' = element
        /\ \A u \in Users \ {c} : pc'[u] = pc[u]
    BY <1>5 DEF IInv, TypeOK, CheckEmpty
  <2>4. UNCHANGED <<head_, tail_, commit_, pool_>> BY <1>5 DEF CheckEmpty
  <2> QED
    BY <1>0, <2>1, <2>2, <2>3, <2>4, LocalIInv DEF Reserving
<1>4. CASE CopyOut(c)
  <2>1. old[c] <= head_ /\ old[c] + 1 < commit_
    BY <1>4 DEF IInv, SlotsOwned, ConsumerSlots, CopyOut
  <2>2. pool_[GetIndex(old[c] + 1)] \in Elements
    <3>1. old[c] + 1 \in Nat BY DEF IInv, TypeOK
    <3> QED BY <3>1, SameSlot DEF IInv, TypeOK
  <2>3. TypeOK' BY <1>4, <2>2 DEF IInv, TypeOK, CopyOut
  <2> QED
    BY <1>0, <1>4, <2>1, <2>3, LocalIInv
    DEF IInv, TypeOK, CopyOut, Reserving
<1> QED BY <1>1, <1>2, <1>3, <1>4, <1>5

(* A successful compare-exchange on tail_ gives the producer a slot nobody  *)
(* else holds.                                                              *)
LEMMA ReserveIInv ==
  ASSUME IInv, NEW p \in Producer, ReserveSucceeds(p)
  PROVE  IInv'
<1> USE SizeIsNat, ThreadsDisjoint DEF Users, ReserveSucceeds, Go
<1>0. /\ tail_ - head_ <= Size /\ tail_ = old[p] /\ element[p] \in Value
      /\ commit_ <= tail_
  BY DEF IInv, SlotsOwned, ProducerSlots, CountersInOrder
<1>1. TypeOK' BY DEF IInv, TypeOK, Locations
<1>2. CountersInOrder' BY <1>0 DEF IInv, TypeOK, CountersInOrder
<1>3. ProducerSlots'
  BY <1>0 DEF IInv, TypeOK, SlotsOwned, ProducerSlots, Reserving, GetIndex,
              pool_size_
<1>4. OneOwner'
  BY <1>0 DEF IInv, TypeOK, SlotsOwned, ProducerSlots, OneOwner, Reserving
<1>5. CommittedSlots'
  BY DEF IInv, SlotsOwned, CommittedSlots, GetIndex, pool_size_
<1>6. ConsumerSlots'
  BY DEF IInv, TypeOK, SlotsOwned, ConsumerSlots, GetIndex, pool_size_
<1> QED BY <1>1, <1>2, <1>3, <1>4, <1>5, <1>6 DEF IInv, SlotsOwned

(* The slot a producer has reserved is none of the other producers' and     *)
(* none of the committed ones.                                              *)
LEMMA ReservedSlotIsApart ==
  ASSUME IInv, NEW p \in Producer, Reserving(p)
  PROVE  /\ GetIndex(old[p]) \in 0 .. pool_size_ - 1
         /\ \A q \in Producer : q # p /\ Reserving(q)
              => GetIndex(old[q]) # GetIndex(old[p])
         /\ \A i \in head_ + 1 .. commit_ - 1 : GetIndex(i) # GetIndex(old[p])
<1> USE SizeIsNat DEF Users
<1>1. /\ head_ \in Nat /\ tail_ \in Nat /\ commit_ \in Nat
      /\ \A q \in Producer : old[q] \in Nat
      /\ head_ < commit_ /\ tail_ - head_ <= Size + 1
      /\ pool_size_ = Size + 2
      /\ \A q \in Producer : Reserving(q) => commit_ <= old[q] /\ old[q] < tail_
      /\ \A q \in Producer : q # p /\ Reserving(q) => old[q] # old[p]
  BY DEF IInv, TypeOK, CountersInOrder, SlotsOwned, ProducerSlots, OneOwner,
         pool_size_
<1>2. ASSUME NEW q \in Producer, q # p, Reserving(q)
      PROVE  GetIndex(old[q]) # GetIndex(old[p])
  <2>1. CASE old[q] < old[p] BY <1>1, <1>2, <2>1, DistinctSlots
  <2>2. CASE old[p] < old[q] BY <1>1, <1>2, <2>2, DistinctSlots
  <2> QED BY <1>1, <1>2, <2>1, <2>2
<1>3. ASSUME NEW i \in head_ + 1 .. commit_ - 1
      PROVE  GetIndex(i) # GetIndex(old[p])
  BY <1>1, <1>3, DistinctSlots
<1>4. GetIndex(old[p]) \in 0 .. pool_size_ - 1 BY <1>1, SameSlot
<1> QED BY <1>2, <1>3, <1>4

(* Copying an element into the ring disturbs nobody else's slot.            *)
LEMMA CopyIInv ==
  ASSUME IInv, NEW p \in Producer, CopyIn(p) \/ CopyInDone(p)
  PROVE  IInv'
<1> USE SizeIsNat, ThreadsDisjoint DEF Users
<1> DEFINE slot == GetIndex(old[p])
<1>0. /\ Reserving(p) /\ element[p] \in Value
      /\ pc' = [pc EXCEPT ![p] = pc'[p]]
      /\ pc'[p] \in {"e_copied", "e_commit"}
      /\ UNCHANGED <<head_, tail_, commit_, break_all_wait_>>
      /\ UNCHANGED <<waits, old, element, got>>
  BY DEF IInv, TypeOK, SlotsOwned, ProducerSlots, CopyIn, CopyInDone, Go,
         Reserving
<1>1. PICK e \in Elements : /\ pool_' = [pool_ EXCEPT ![slot] = e]
                            /\ pc'[p] = "e_commit" => e = element[p]
  <2>1. CASE CopyIn(p)
    <3>1. pool_' = [pool_ EXCEPT ![slot] = Torn] /\ pc'[p] # "e_commit"
      BY <2>1 DEF CopyIn, Go, IInv, TypeOK
    <3> QED BY <3>1 DEF Elements
  <2>2. CASE CopyInDone(p)
    BY <1>0, <2>2 DEF CopyInDone, Elements
  <2> QED BY <2>1, <2>2
<1>2. /\ slot \in 0 .. pool_size_ - 1
      /\ \A q \in Producer : q # p /\ Reserving(q) => GetIndex(old[q]) # slot
      /\ \A i \in head_ + 1 .. commit_ - 1 : GetIndex(i) # slot
  BY <1>0, ReservedSlotIsApart
<1>3. TypeOK' BY <1>0, <1>1, <1>2 DEF IInv, TypeOK, Locations
<1>4. CountersInOrder' BY <1>0 DEF IInv, CountersInOrder
<1>5. ProducerSlots'
  <2> SUFFICES ASSUME NEW q \in Producer
               PROVE  /\ pc'[q] # "idle" => element'[q] \in Value
                      /\ pc'[q] \in {"e_full", "e_cas"} => old'[q] <= tail_'
                      /\ pc'[q] = "e_cas" /\ old'[q] = tail_'
                           => tail_' - head_' <= Size
                      /\ Reserving(q)' => commit_' <= old'[q] /\ old'[q] < tail_'
                      /\ pc'[q] = "e_commit"
                           => pool_'[GetIndex(old'[q])] = element'[q]
    BY DEF ProducerSlots, GetIndex, pool_size_
  <2>1. CASE q = p
    BY <1>0, <1>1, <1>2, <2>1
    DEF IInv, TypeOK, SlotsOwned, ProducerSlots, Reserving
  <2>2. CASE q # p
    <3>1. pc'[q] = pc[q] BY <1>0, <2>2 DEF IInv, TypeOK
    <3>2. pc[q] = "e_commit" => pool_'[GetIndex(old[q])] = pool_[GetIndex(old[q])]
      BY <1>0, <1>1, <1>2, <2>2, SameSlot DEF IInv, TypeOK, Reserving
    <3> QED
      BY <1>0, <3>1, <3>2 DEF IInv, SlotsOwned, ProducerSlots, Reserving
  <2> QED BY <2>1, <2>2
<1>6. OneOwner'
  BY <1>0 DEF IInv, TypeOK, SlotsOwned, OneOwner, Reserving
<1>7. CommittedSlots'
  <2> SUFFICES ASSUME NEW i \in head_ + 1 .. commit_ - 1
               PROVE  pool_'[GetIndex(i)] \in Value
    BY <1>0 DEF CommittedSlots, GetIndex, pool_size_
  <2>1. pool_[GetIndex(i)] \in Value BY DEF IInv, SlotsOwned, CommittedSlots
  <2>2. i \in Nat BY DEF IInv, TypeOK
  <2> QED BY <1>0, <1>1, <1>2, <2>1, <2>2, SameSlot DEF IInv, TypeOK
<1>8. ConsumerSlots'
  <2> SUFFICES ASSUME NEW c \in Consumer
               PROVE  /\ pc[c] \in {"d_test", "d_read", "d_cas"}
                           => old[c] <= head_
                      /\ pc[c] \in {"d_read", "d_cas"} => old[c] + 1 < commit_
                      /\ pc[c] = "d_cas" /\ old[c] = head_
                           => element[c] = pool_'[GetIndex(head_ + 1)]
    BY <1>0 DEF ConsumerSlots, GetIndex, pool_size_, IInv, TypeOK
  <2>1. old[c] = head_ /\ old[c] + 1 < commit_
          => pool_'[GetIndex(head_ + 1)] = pool_[GetIndex(head_ + 1)]
    BY <1>0, <1>1, <1>2, SameSlot DEF IInv, TypeOK
  <2> QED BY <2>1 DEF IInv, SlotsOwned, ConsumerSlots
<1> QED BY <1>3, <1>4, <1>5, <1>6, <1>7, <1>8 DEF IInv, SlotsOwned

(* The commit adds one complete element behind the committed ones.          *)
LEMMA CommitIInv ==
  ASSUME IInv, NEW p \in Producer, Commit(p)
  PROVE  IInv'
<1> USE SizeIsNat, ThreadsDisjoint DEF Users, Commit, Return
<1>0. /\ commit_ = old[p] /\ old[p] < tail_ /\ element[p] \in Value
      /\ pool_[GetIndex(commit_)] = element[p] /\ Reserving(p)
  BY DEF IInv, SlotsOwned, ProducerSlots, Reserving
<1>1. TypeOK' BY DEF IInv, TypeOK, Locations, Elements
<1>2. CountersInOrder' BY <1>0 DEF IInv, TypeOK, CountersInOrder
<1>3. ProducerSlots'
  BY <1>0 DEF IInv, TypeOK, SlotsOwned, ProducerSlots, OneOwner, Reserving,
              GetIndex, pool_size_
<1>4. OneOwner' BY DEF IInv, TypeOK, SlotsOwned, OneOwner, Reserving
<1>5. CommittedSlots'
  <2> SUFFICES ASSUME NEW i \in head_ + 1 .. commit_
               PROVE  pool_[GetIndex(i)] \in Value
    BY <1>0 DEF CommittedSlots, GetIndex, pool_size_, IInv, TypeOK
  <2> QED BY <1>0 DEF IInv, TypeOK, SlotsOwned, CommittedSlots
<1>6. ConsumerSlots'
  BY <1>0 DEF IInv, TypeOK, SlotsOwned, ConsumerSlots, GetIndex, pool_size_
<1> QED BY <1>1, <1>2, <1>3, <1>4, <1>5, <1>6 DEF IInv, SlotsOwned

(* A successful compare-exchange on head_ removes the oldest element and    *)
(* makes every other consumer's copy stale.                                 *)
LEMMA ReleaseIInv ==
  ASSUME IInv, NEW c \in Consumer, ReleaseSucceeds(c)
  PROVE  IInv'
<1> USE SizeIsNat, ThreadsDisjoint DEF Users, ReleaseSucceeds, Return
<1>0. /\ old[c] = head_ /\ head_ + 1 < commit_ /\ head_ \in Nat
      /\ element[c] = pool_[GetIndex(head_ + 1)]
  BY DEF IInv, TypeOK, SlotsOwned, ConsumerSlots
<1>1. element[c] \in Value
  BY <1>0 DEF IInv, TypeOK, SlotsOwned, CommittedSlots
<1>2. TypeOK' BY <1>1 DEF IInv, TypeOK, Locations, Elements
<1>3. CountersInOrder' BY <1>0 DEF IInv, TypeOK, CountersInOrder
<1>4. ProducerSlots'
  BY <1>0 DEF IInv, TypeOK, SlotsOwned, ProducerSlots, Reserving, GetIndex,
              pool_size_
<1>5. OneOwner' BY DEF IInv, TypeOK, SlotsOwned, OneOwner, Reserving
<1>6. CommittedSlots'
  BY <1>0 DEF IInv, TypeOK, SlotsOwned, CommittedSlots, GetIndex, pool_size_
<1>7. ConsumerSlots'
  BY <1>0 DEF IInv, TypeOK, SlotsOwned, ConsumerSlots, GetIndex, pool_size_
<1> QED BY <1>2, <1>3, <1>4, <1>5, <1>6, <1>7 DEF IInv, SlotsOwned

LEMMA NextIInv == IInv /\ [Next]_vars => IInv'
<1> SUFFICES ASSUME IInv, [Next]_vars PROVE IInv' OBVIOUS
<1>1. CASE UNCHANGED vars
  BY <1>1 DEF vars, IInv, TypeOK, CountersInOrder, SlotsOwned, ProducerSlots,
              OneOwner, CommittedSlots, ConsumerSlots, Reserving, GetIndex,
              pool_size_
<1>2. CASE BreakAllWait
  BY <1>2 DEF BreakAllWait, IInv, TypeOK, CountersInOrder, SlotsOwned,
              ProducerSlots, OneOwner, CommittedSlots, ConsumerSlots,
              Reserving, GetIndex, pool_size_
<1>3. ASSUME NEW p \in Producer, ProducerStep(p) PROVE IInv'
  BY <1>3, ProducerLocalIInv, ReserveIInv, CopyIInv, CommitIInv
  DEF ProducerStep
<1>4. ASSUME NEW c \in Consumer, ConsumerStep(c) PROVE IInv'
  BY <1>4, ConsumerLocalIInv, ReleaseIInv DEF ConsumerStep
<1> QED BY <1>1, <1>2, <1>3, <1>4, CallIInv, WaitLoopIInv DEF Next

(* The inductive invariant holds in every reachable state.                  *)
THEOREM IInvHolds == Spec => []IInv
BY InitIInv, NextIInv, PTL DEF Spec

(* Type correctness; in particular no Dequeue ever returned a torn element. *)
THEOREM TypeOKHolds == Spec => []TypeOK
<1>1. IInv => TypeOK BY DEF IInv
<1> QED BY <1>1, IInvHolds, PTL

(* head_ < commit_ <= tail_, and tail_ never laps head_.                    *)
THEOREM CountersInOrderHolds == Spec => []CountersInOrder
<1>1. IInv => CountersInOrder BY DEF IInv
<1> QED BY <1>1, IInvHolds, PTL

(* Reserved, committed and copied slots are never confused.                 *)
THEOREM SlotsOwnedHolds == Spec => []SlotsOwned
<1>1. IInv => SlotsOwned BY DEF IInv
<1> QED BY <1>1, IInvHolds, PTL

(* The abstract queue does not change unless the counters or one of the     *)
(* committed slots do.                                                      *)
LEMMA ContentsUnchanged ==
  ASSUME head_' = head_, commit_' = commit_,
         \A i \in 1 .. commit_ - head_ - 1 :
           pool_'[GetIndex(head_ + i)] = pool_[GetIndex(head_ + i)]
  PROVE  Contents' = Contents
BY DEF Contents, GetIndex, pool_size_

(* A commit appends the producer's element to the abstract queue, which has *)
(* room for it.                                                             *)
LEMMA CommitEnqueues ==
  ASSUME IInv, NEW p \in Producer, Commit(p)
  PROVE  Abstract!Enqueue(element[p])
<1> USE SizeIsNat
<1> DEFINE n == commit_ - head_ - 1
<1>1. /\ commit_ = old[p] /\ old[p] < tail_ /\ element[p] \in Value
      /\ pool_[GetIndex(commit_)] = element[p]
      /\ commit_' = commit_ + 1 /\ UNCHANGED <<head_, pool_, got>>
  BY DEF IInv, SlotsOwned, ProducerSlots, Reserving, Commit
<1>2. n \in Nat /\ n < Size /\ head_ \in Nat /\ commit_ \in Nat
  BY <1>1 DEF IInv, TypeOK, CountersInOrder, Users
<1>3. Contents = [i \in 1 .. n |-> pool_[GetIndex(head_ + i)]]
  BY DEF Contents
<1>4. Len(Contents) = n /\ Contents \in Seq(Elements)
  <2>1. \A i \in 1 .. n : pool_[GetIndex(head_ + i)] \in Elements
    BY <1>2, SameSlot DEF IInv, TypeOK
  <2> QED BY <1>2, <1>3, <2>1
<1>5. Contents' = [i \in 1 .. n + 1 |-> pool_[GetIndex(head_ + i)]]
  <2>1. commit_' - head_' - 1 = n + 1 BY <1>1, <1>2
  <2> QED BY <1>1, <2>1 DEF Contents, GetIndex, pool_size_
<1>6. head_ + (n + 1) = commit_ BY <1>2
<1> HIDE DEF n
<1>7. Append(Contents, element[p])
        = [i \in 1 .. n + 1 |-> IF i = n + 1 THEN element[p] ELSE Contents[i]]
  BY <1>2, <1>4
<1>8. Contents' = Append(Contents, element[p])
  <2>1. ASSUME NEW i \in 1 .. n + 1
        PROVE  pool_[GetIndex(head_ + i)]
                 = IF i = n + 1 THEN element[p] ELSE Contents[i]
    <3>1. CASE i = n + 1 BY <1>1, <1>6, <3>1
    <3>2. CASE i # n + 1
      <4>1. i \in 1 .. n BY <1>2, <3>2
      <4> QED BY <1>3, <3>2, <4>1
    <3> QED BY <3>1, <3>2
  <2> QED BY <1>5, <1>7, <2>1
<1> QED BY <1>1, <1>2, <1>4, <1>8 DEF Abstract!Enqueue

(* A successful compare-exchange on head_ takes the oldest element of the   *)
(* abstract queue and returns it.                                           *)
LEMMA ReleaseDequeues ==
  ASSUME IInv, NEW c \in Consumer, ReleaseSucceeds(c)
  PROVE  Abstract!Dequeue(c)
<1> USE SizeIsNat
<1> DEFINE n == commit_ - head_ - 1
<1>1. /\ head_ = old[c] /\ head_ + 1 < commit_
      /\ element[c] = pool_[GetIndex(head_ + 1)]
      /\ head_' = head_ + 1 /\ UNCHANGED <<commit_, pool_>>
      /\ got' = [got EXCEPT ![c] = element[c]]
  BY DEF IInv, SlotsOwned, ConsumerSlots, ReleaseSucceeds
<1>2. n \in Nat /\ n > 0 /\ head_ \in Nat /\ commit_ \in Nat
  BY <1>1 DEF IInv, TypeOK
<1>3. Contents = [i \in 1 .. n |-> pool_[GetIndex(head_ + i)]]
  BY DEF Contents
<1>4. Len(Contents) = n /\ Contents \in Seq(Elements)
  <2>1. \A i \in 1 .. n : pool_[GetIndex(head_ + i)] \in Elements
    BY <1>2, SameSlot DEF IInv, TypeOK
  <2> QED BY <1>2, <1>3, <2>1
<1>5. Contents' = [i \in 1 .. n - 1 |-> pool_[GetIndex((head_ + 1) + i)]]
  <2>1. commit_' - head_' - 1 = n - 1 BY <1>1, <1>2
  <2> QED BY <1>1, <2>1 DEF Contents, GetIndex, pool_size_
<1> HIDE DEF n
<1>6. Tail(Contents) = [i \in 1 .. n - 1 |-> Contents[i + 1]]
  <2> DEFINE rest == Tail(Contents)
  <2>1. Contents # << >> BY <1>2, <1>4
  <2>2. /\ rest \in Seq(Elements) /\ Len(rest) = n - 1
        /\ \A i \in 1 .. n - 1 : rest[i] = Contents[i + 1]
    BY <1>2, <1>4, <2>1, HeadTailProperties
  <2> HIDE DEF rest
  <2>3. rest = [i \in 1 .. n - 1 |-> rest[i]] BY <1>2, <2>2
  <2> QED BY <2>2, <2>3 DEF rest
<1>7. Contents' = Tail(Contents)
  <2>1. ASSUME NEW i \in 1 .. n - 1
        PROVE  pool_[GetIndex((head_ + 1) + i)] = Contents[i + 1]
    <3>1. i + 1 \in 1 .. n /\ (head_ + 1) + i = head_ + (i + 1) BY <1>2
    <3> QED BY <1>3, <3>1
  <2> QED BY <1>5, <1>6, <2>1
<1>8. Head(Contents) = element[c] /\ Contents # << >>
  <2>1. Contents[1] = element[c] BY <1>1, <1>2, <1>3
  <2> QED BY <1>2, <1>4, <2>1
<1> QED BY <1>1, <1>7, <1>8 DEF Abstract!Dequeue

(* BoundedQueue implements the bounded FIFO queue of QueueSpec: every other *)
(* step leaves the abstract queue as it is.                                 *)
THEOREM QueueImplemented == Spec => ImplementsQueue
<1>1. Init => Abstract!Init
  BY DEF Init, Abstract!Init, Contents
<1>2. IInv /\ [Next]_vars => [Abstract!Next]_<<Contents, got>>
  <2> SUFFICES ASSUME IInv, [Next]_vars
               PROVE  [Abstract!Next]_<<Contents, got>>
    OBVIOUS
  <2>1. ASSUME UNCHANGED <<head_, commit_, pool_, got>>
        PROVE  UNCHANGED <<Contents, got>>
    BY <2>1 DEF Contents, GetIndex, pool_size_
  <2>2. CASE UNCHANGED vars BY <2>1, <2>2 DEF vars
  <2>3. CASE BreakAllWait BY <2>1, <2>3 DEF BreakAllWait
  <2>4. ASSUME NEW t \in Users, WaitLoop(t)
        PROVE  UNCHANGED <<Contents, got>>
    BY <2>1, <2>4 DEF WaitLoop, shared
  <2>5. ASSUME NEW p \in Producer, NEW v \in Value, NEW w \in WaitModes,
               CallEnqueue(p, v, w)
        PROVE  UNCHANGED <<Contents, got>>
    BY <2>1, <2>5 DEF CallEnqueue, shared
  <2>6. ASSUME NEW c \in Consumer, NEW w \in WaitModes, CallDequeue(c, w)
        PROVE  UNCHANGED <<Contents, got>>
    BY <2>1, <2>6 DEF CallDequeue, shared
  <2>7. ASSUME NEW p \in Producer,
               \/ LoadTail(p) \/ CheckFull(p)
               \/ ReserveSucceeds(p) \/ ReserveFails(p)
        PROVE  UNCHANGED <<Contents, got>>
    BY <2>1, <2>7
    DEF LoadTail, CheckFull, ReturnFalse, ReserveSucceeds, ReserveFails, shared
  <2>8. ASSUME NEW p \in Producer, CopyIn(p) \/ CopyInDone(p)
        PROVE  UNCHANGED <<Contents, got>>
    <3> DEFINE slot == GetIndex(old[p])
    <3>1. PICK e : /\ pool_' = [pool_ EXCEPT ![slot] = e]
                   /\ UNCHANGED <<head_, commit_, got>>
      BY <2>8 DEF CopyIn, CopyInDone
    <3>2. Reserving(p) BY <2>8 DEF CopyIn, CopyInDone, Go, Reserving
    <3>3. ASSUME NEW i \in 1 .. commit_ - head_ - 1
          PROVE  pool_'[GetIndex(head_ + i)] = pool_[GetIndex(head_ + i)]
      <4>1. /\ head_ + i \in head_ + 1 .. commit_ - 1
            /\ head_ + i \in Nat
        BY DEF IInv, TypeOK
      <4>2. GetIndex(head_ + i) # slot BY <3>2, <4>1, ReservedSlotIsApart
      <4> QED BY <3>1, <4>1, <4>2, SameSlot DEF IInv, TypeOK
    <3> QED BY <3>1, <3>3, ContentsUnchanged
  <2>9. ASSUME NEW p \in Producer, Commit(p) PROVE Abstract!Next
    <3>1. element[p] \in Value
      BY <2>9 DEF IInv, SlotsOwned, ProducerSlots, Commit
    <3> QED BY <2>9, <3>1, CommitEnqueues DEF Abstract!Next
  <2>10. ASSUME NEW c \in Consumer,
                LoadHead(c) \/ CheckEmpty(c) \/ CopyOut(c) \/ ReleaseFails(c)
         PROVE  UNCHANGED <<Contents, got>>
    BY <2>1, <2>10
    DEF LoadHead, CheckEmpty, ReturnFalse, CopyOut, ReleaseFails, shared
  <2>11. ASSUME NEW c \in Consumer, ReleaseSucceeds(c) PROVE Abstract!Next
    BY <2>11, ReleaseDequeues DEF Abstract!Next
  <2> QED
    BY <2>2, <2>3, <2>4, <2>5, <2>6, <2>7, <2>8, <2>9, <2>10, <2>11
    DEF Next, ProducerStep, ConsumerStep
<1> QED BY <1>1, <1>2, IInvHolds, PTL DEF Spec, ImplementsQueue, Abstract!Spec

(* Only the test for a full ring takes a producer from it back out.         *)
LEMMA OnlyCheckFullRejects ==
  ASSUME TypeOK, [Next]_vars, NEW p \in Producer,
         pc[p] = "e_full", pc'[p] \in {"idle", "wait"}
  PROVE  CheckFull(p)
<1> USE DEF Users, TypeOK
<1>1. ASSUME NEW t \in Users, t # p, NEW l, pc' = [pc EXCEPT ![t] = l]
      PROVE  FALSE
  BY <1>1
<1>2. ~ UNCHANGED vars /\ ~ BreakAllWait BY DEF vars, BreakAllWait
<1>3. ASSUME NEW q \in Producer, NEW v \in Value, NEW w \in WaitModes,
             CallEnqueue(q, v, w)
      PROVE  FALSE
  BY <1>1, <1>3 DEF CallEnqueue
<1>4. ASSUME NEW c \in Consumer, NEW w \in WaitModes, CallDequeue(c, w)
      PROVE  FALSE
  BY <1>1, <1>4 DEF CallDequeue
<1>5. ASSUME NEW t \in Users, WaitLoop(t) PROVE FALSE
  BY <1>1, <1>5, Zenon DEF WaitLoop, Return
<1>6. ASSUME NEW q \in Producer, ProducerStep(q), ~CheckFull(p) PROVE FALSE
  <2>1. q # p
    BY <1>6 DEF ProducerStep, LoadTail, ReserveSucceeds, ReserveFails, CopyIn,
                CopyInDone, Commit, Go
  <2>2. ~CheckFull(q)
    BY <1>1, <2>1, Zenon DEF CheckFull, ReturnFalse, Return
  <2> QED
    BY <1>1, <1>6, <2>1, <2>2
    DEF ProducerStep, LoadTail, ReserveSucceeds, ReserveFails, CopyIn,
        CopyInDone, Commit, Return, Go
<1>7. ASSUME NEW c \in Consumer, ConsumerStep(c) PROVE FALSE
  <2>1. c # p
    BY <1>7 DEF ConsumerStep, LoadHead, CheckEmpty, CopyOut, ReleaseSucceeds,
                ReleaseFails, Go
  <2>2. ~CheckEmpty(c)
    BY <1>1, <2>1, Zenon DEF CheckEmpty, ReturnFalse, Return
  <2> QED
    BY <1>1, <1>7, <2>1, <2>2
    DEF ConsumerStep, LoadHead, CopyOut, ReleaseSucceeds, ReleaseFails,
        Return, Go
<1> QED BY <1>2, <1>3, <1>4, <1>5, <1>6, <1>7 DEF Next

(* An Enqueue whose copy of tail_ is current is only rejected by a queue    *)
(* that holds Size elements: otherwise new_tail and head_ are less than a   *)
(* turn apart and use different slots.                                      *)
THEOREM RejectedOnlyWhenFullOrStaleHolds ==
  Spec => RejectedOnlyWhenFullOrStale
<1>1. ASSUME IInv, [Next]_vars, NEW p \in Producer,
             pc[p] = "e_full", pc'[p] \in {"idle", "wait"}
      PROVE  tail_ - head_ - 1 = Size \/ old[p] # tail_
  <2> USE SizeIsNat DEF Users
  <2>1. CheckFull(p) BY <1>1, OnlyCheckFullRejects DEF IInv
  <2>2. IsFull(p)
    BY <1>1, <2>1 DEF CheckFull, IInv, TypeOK
  <2>3. SUFFICES ASSUME old[p] = tail_ PROVE tail_ - head_ - 1 = Size
    BY <1>1 DEF IInv, TypeOK
  <2>4. /\ head_ \in Nat /\ tail_ \in Nat /\ head_ < tail_ + 1
        /\ (tail_ + 1) - head_ <= pool_size_ /\ pool_size_ = Size + 2
    BY <1>1 DEF IInv, TypeOK, CountersInOrder, pool_size_
  <2>5. ~((tail_ + 1) - head_ < pool_size_)
    BY <2>2, <2>3, <2>4, DistinctSlots DEF IsFull
  <2> QED BY <2>4, <2>5
<1>2. IInv /\ [Next]_vars =>
        [\A p \in Producer :
           pc[p] = "e_full" /\ pc'[p] \in {"idle", "wait"}
             => tail_ - head_ - 1 = Size \/ old[p] # tail_]_vars
  BY <1>1
<1> QED BY <1>2, IInvHolds, PTL DEF Spec, RejectedOnlyWhenFullOrStale
=============================================================================
