---------------------------- MODULE ChannelReader ----------------------------
(***************************************************************************)
(* A reader of one channel: DataDispatcher::Dispatch fills the visitor's    *)
(* CacheBuffer, DataVisitor<M0>::TryFetch fetches from it through a         *)
(* ChannelBuffer.  Both run under the buffer's mutex.  Messages are their   *)
(* numbers, so that a message in the wrong slot shows.                      *)
(***************************************************************************)
EXTENDS CacheBuffer, TLAPS

CONSTANTS QueueSize,     \* pending_queue_size
          MaxFill        \* bound: messages dispatched

ASSUME ChannelReaderConstants ==
  QueueSize \in Nat /\ MaxFill \in Nat /\ NoMessage \notin Nat

VARIABLES buffer,            \* the visitor's CacheBuffer
          next_msg_index_,   \* DataVisitorBase
          msg,               \* what TryFetch last returned, 0 before
          fetches            \* how often TryFetch returned true

vars == <<buffer, next_msg_index_, msg, fetches>>

Init ==
  /\ buffer = CacheBufferInit(QueueSize)
  /\ next_msg_index_ = 0
  /\ msg = 0
  /\ fetches = 0

\* The number of the next message is one more than those filled before.
Dispatch ==
  /\ buffer.tail_ < MaxFill
  /\ buffer' = FillBuffer(buffer, buffer.tail_ + 1)
  /\ UNCHANGED <<next_msg_index_, msg, fetches>>

\* Mutant: an overrun reader goes on from where it was.
TryFetch_Overrun ==
  LET i == IF next_msg_index_ = 0 THEN buffer.tail_ ELSE next_msg_index_ IN
  /\ CanFetch(buffer, next_msg_index_)
  /\ msg' = At(buffer, i)
  /\ next_msg_index_' = i + 1
  /\ fetches' = fetches + 1
  /\ UNCHANGED buffer

TryFetch ==
  LET i == FetchIndex(buffer, next_msg_index_) IN
  /\ CanFetch(buffer, next_msg_index_)
  /\ msg' = At(buffer, i)
  /\ next_msg_index_' = i + 1
  /\ fetches' = fetches + 1
  /\ UNCHANGED buffer

\* TryFetch returns false and changes nothing.
TryFetchFails ==
  /\ ~CanFetch(buffer, next_msg_index_)
  /\ UNCHANGED vars

Next == Dispatch \/ TryFetch \/ TryFetchFails

Spec == Init /\ [][Next]_vars

(* ------------------------------ Properties ------------------------------ *)

\* Every variable holds a value of its type.
TypeOK ==
  /\ buffer \in [head_ : Nat, tail_ : Nat, capacity_ : {QueueSize + 1},
                 buffer_ : [0 .. QueueSize -> Nat \union {NoMessage}]]
  /\ next_msg_index_ \in Nat
  /\ msg \in Nat
  /\ fetches \in Nat

\* CacheBuffer keeps the last QueueSize messages, each at its position, however
\* often Fill has gone round the ring.
WindowHolds ==
  /\ buffer.head_ <= buffer.tail_
  /\ Size(buffer) = IF buffer.tail_ < QueueSize THEN buffer.tail_ ELSE QueueSize
  /\ \A i \in Head_(buffer) .. Tail_(buffer) : At(buffer, i) = i
  /\ ~Empty(buffer) => Latest(buffer) = buffer.tail_

\* next_msg_index_ never runs ahead of the buffer (Fetch would then read a slot
\* of an older message), and is one past the message last returned.
IndexFollows ==
  /\ next_msg_index_ <= buffer.tail_ + 1
  /\ msg = IF next_msg_index_ = 0 THEN 0 ELSE next_msg_index_ - 1

\* TryFetch returns false only to a reader that has had the newest message.
NewestNotLost == ~CanFetch(buffer, next_msg_index_) => msg = buffer.tail_

\* FetchMulti returns the newest messages in the order they came.
MultiIsNewest ==
  \A n \in 0 .. QueueSize + 1 :
    LET s == FetchMulti(buffer, n) IN
    /\ Len(s) = IF Size(buffer) < n THEN Size(buffer) ELSE n
    /\ \A k \in 1 .. Len(s) : s[k] = buffer.tail_ - Len(s) + k

\* The reader sees a channel that may lose messages but neither reorders nor
\* repeats them.
Channel == INSTANCE LossyChannelSpec WITH sent <- buffer.tail_, received <- msg,
                                          deliveries <- fetches
ImplementsLossyChannel == Channel!Spec

-----------------------------------------------------------------------------
(***************************************************************************)
(* A reader's channel buffer implements the lossy channel for every queue   *)
(* size and every number of messages.                                       *)
(*                                                                          *)
(* Inductive are together: the ring holds message i at position i for the   *)
(* last QueueSize positions (WindowHolds), and the reader's index is inside *)
(* or just past them or behind them (IndexFollows).                         *)
(***************************************************************************)

\* Positions less than a ring's length apart lie in different slots.
LEMMA RingDistinct ==
  ASSUME NEW N \in Nat, N > 0, NEW i \in Nat, NEW j \in Nat,
         i < j, j - i < N
  PROVE  i % N # j % N
<1>1. /\ i = N * (i \div N) + (i % N) /\ i \div N \in Int
      /\ j = N * (j \div N) + (j % N) /\ j \div N \in Int
  OBVIOUS
<1>2. SUFFICES ASSUME i % N = j % N PROVE FALSE
  OBVIOUS
<1>3. j - i = N * ((j \div N) - (i \div N))
  BY <1>1, <1>2
<1>4. CASE (j \div N) - (i \div N) <= 0
  BY <1>1, <1>3, <1>4
<1>5. CASE (j \div N) - (i \div N) >= 1
  BY <1>1, <1>3, <1>5
<1> QED BY <1>1, <1>4, <1>5

\* A position and the one a ring's length on share a slot, one of the ring's.
LEMMA RingSame ==
  ASSUME NEW N \in Nat, N > 0, NEW i \in Nat
  PROVE  (i + N) % N = i % N /\ i % N \in 0 .. N - 1
<1>1. i % N \in 0 .. N - 1 OBVIOUS
<1> DEFINE r == (i + N) % N
           d == ((i + N) \div N) - (i \div N) - 1
<1>2. i = N * (i \div N) + (i % N) /\ i \div N \in Int OBVIOUS
<1>3. /\ i + N = N * ((i + N) \div N) + r
      /\ (i + N) \div N \in Int /\ r \in 0 .. N - 1
  OBVIOUS
<1>4. (i % N) - r = N * d /\ d \in Int BY <1>2, <1>3
<1> HIDE DEF r, d
<1>5. CASE d >= 1 BY <1>1, <1>3, <1>4, <1>5
<1>6. CASE d <= -1 BY <1>1, <1>3, <1>4, <1>6
<1>7. CASE d = 0 BY <1>1, <1>3, <1>4, <1>7 DEF r
<1> QED BY <1>1, <1>4, <1>5, <1>6, <1>7 DEF r

IInv == TypeOK /\ WindowHolds /\ IndexFollows

LEMMA InitIInv == Init => IInv
  BY ChannelReaderConstants
  DEF Init, IInv, TypeOK, WindowHolds, IndexFollows, CacheBufferInit, Size,
      Empty, At, Head_, Tail_, Latest, GetIndex

\* Fill puts the new message at the end and leaves the other positions of the
\* window alone, in a full ring as in one that is filling up.
LEMMA FillKeepsWindow ==
  ASSUME IInv, NEW b, b = FillBuffer(buffer, buffer.tail_ + 1)
  PROVE  /\ b \in [head_ : Nat, tail_ : Nat, capacity_ : {QueueSize + 1},
                   buffer_ : [0 .. QueueSize -> Nat \union {NoMessage}]]
         /\ b.tail_ = buffer.tail_ + 1
         /\ b.head_ = IF Full(buffer) THEN buffer.head_ + 1 ELSE buffer.head_
         /\ \A i \in Head_(b) .. Tail_(b) : At(b, i) = i
         /\ At(b, b.tail_) = b.tail_
<1> DEFINE N == QueueSize + 1
           t == buffer.tail_
           h == buffer.head_
<1>1. /\ N \in Nat /\ N > 0 /\ t \in Nat /\ h \in Nat /\ h <= t
      /\ buffer.capacity_ = N /\ 0 .. QueueSize = 0 .. N - 1
      /\ buffer.buffer_ \in [0 .. N - 1 -> Nat \union {NoMessage}]
  BY ChannelReaderConstants DEF IInv, TypeOK, WindowHolds
<1>2. t - h <= QueueSize /\ (Full(buffer) <=> t + 1 = h + N)
  BY <1>1, ChannelReaderConstants DEF IInv, WindowHolds, Full, Size
<1> HIDE DEF N, t, h
<1>3. (t + 1) % N \in 0 .. N - 1
  BY <1>1
<1>4. Full(buffer) => h % N = (t + 1) % N
  <2>1. (h + N) % N = h % N BY <1>1, RingSame, Zenon
  <2> QED BY <1>2, <2>1
<1>5. /\ b.buffer_ = [buffer.buffer_ EXCEPT ![(t + 1) % N] = t + 1]
      /\ b.tail_ = t + 1
      /\ b.head_ = IF Full(buffer) THEN h + 1 ELSE h
      /\ b.capacity_ = N
      /\ b = [head_ |-> b.head_, tail_ |-> b.tail_, capacity_ |-> b.capacity_,
              buffer_ |-> b.buffer_]
  BY <1>1, <1>4 DEF FillBuffer, GetIndex, IInv, TypeOK, t, h
<1>6. b \in [head_ : Nat, tail_ : Nat, capacity_ : {QueueSize + 1},
             buffer_ : [0 .. QueueSize -> Nat \union {NoMessage}]]
  <2>1. b.buffer_ \in [0 .. N - 1 -> Nat \union {NoMessage}]
    BY <1>1, <1>3, <1>5
  <2> QED BY <1>1, <1>5, <2>1, ChannelReaderConstants DEF N
<1>7. ASSUME NEW i \in Head_(b) .. Tail_(b) PROVE At(b, i) = i
  <2>1. i \in Nat /\ h < i /\ i <= t + 1 /\ t + 1 - i < N
    <3>1. i \in (b.head_ + 1) .. (t + 1)
      BY <1>5 DEF Head_, Tail_
    <3>2. CASE Full(buffer)
      <4>1. b.head_ = h + 1 /\ t + 1 = h + N BY <1>2, <1>5, <3>2
      <4> QED BY <1>1, <3>1, <4>1
    <3>3. CASE ~Full(buffer)
      <4>1. b.head_ = h BY <1>5, <3>3
      <4>2. t - h <= N - 1 /\ t + 1 # h + N
        BY <1>2, <3>3, ChannelReaderConstants DEF N
      <4> QED BY <1>1, <3>1, <4>1, <4>2
    <3> QED BY <3>2, <3>3
  <2>2. CASE i = t + 1
    BY <1>1, <1>3, <1>5, <2>2 DEF At, GetIndex
  <2>3. CASE i <= t
    <3>1. i % N # (t + 1) % N /\ i % N \in 0 .. N - 1
      <4> DEFINE j == t + 1
      <4>1. j \in Nat /\ i < j /\ j - i < N BY <1>1, <2>1, <2>3
      <4> HIDE DEF j
      <4>2. i \in Nat /\ N \in Nat /\ N > 0 BY <1>1, <2>1
      <4>3. i % N # j % N BY <4>1, <4>2, RingDistinct, Zenon
      <4> QED BY <1>1, <2>1, <4>3 DEF j
    <3>2. buffer.buffer_[i % N] = i
      BY <1>1, <2>1, <2>3 DEF IInv, WindowHolds, Head_, Tail_, At, GetIndex, t, h
    <3> QED BY <1>1, <1>5, <3>1, <3>2 DEF At, GetIndex
  <2> QED BY <1>1, <2>1, <2>2, <2>3
<1>8. At(b, b.tail_) = b.tail_
  BY <1>1, <1>3, <1>5 DEF At, GetIndex
<1> QED BY <1>5, <1>6, <1>7, <1>8 DEF t, h

LEMMA DispatchStep ==
  ASSUME IInv, Dispatch PROVE IInv'
<1>1. /\ TypeOK' /\ buffer'.tail_ = buffer.tail_ + 1
      /\ buffer'.head_ = IF Full(buffer) THEN buffer.head_ + 1
                                         ELSE buffer.head_
      /\ \A i \in Head_(buffer') .. Tail_(buffer') : At(buffer', i) = i
      /\ At(buffer', buffer'.tail_) = buffer'.tail_
  BY FillKeepsWindow DEF Dispatch, IInv, TypeOK
<1>2. WindowHolds'
  <2>1. /\ buffer.head_ \in Nat /\ buffer.tail_ \in Nat
        /\ buffer.capacity_ = QueueSize + 1 /\ QueueSize \in Nat
    BY ChannelReaderConstants DEF IInv, TypeOK
  <2>2. /\ buffer'.head_ <= buffer'.tail_
        /\ Size(buffer') = IF buffer'.tail_ < QueueSize THEN buffer'.tail_
                                                        ELSE QueueSize
    BY <1>1, <2>1 DEF IInv, WindowHolds, Size, Full
  <2> QED BY <1>1, <2>2 DEF WindowHolds, Latest
<1>3. IndexFollows'
  BY <1>1 DEF IInv, TypeOK, IndexFollows, Dispatch
<1> QED BY <1>1, <1>2, <1>3 DEF IInv

\* What Fetch returns is the message of its index, and newer than the last one.
LEMMA FetchStep ==
  ASSUME IInv, CanFetch(buffer, next_msg_index_)
  PROVE  LET i == FetchIndex(buffer, next_msg_index_) IN
         i \in Nat /\ At(buffer, i) = i /\ msg < i /\ i <= buffer.tail_
<1> DEFINE i == FetchIndex(buffer, next_msg_index_)
<1>1. /\ buffer.head_ \in Nat /\ buffer.tail_ \in Nat /\ buffer.tail_ # 0
      /\ next_msg_index_ \in Nat /\ next_msg_index_ <= buffer.tail_
      /\ msg = IF next_msg_index_ = 0 THEN 0 ELSE next_msg_index_ - 1
  BY DEF IInv, TypeOK, IndexFollows, CanFetch, Empty
<1>2. /\ i = buffer.tail_ \/ i \in Head_(buffer) .. Tail_(buffer)
      /\ i \in Nat /\ msg < i /\ i <= buffer.tail_
  BY <1>1 DEF FetchIndex, Head_, Tail_
<1>3. At(buffer, i) = i
  BY <1>1, <1>2 DEF IInv, WindowHolds, Latest, Empty
<1> QED BY <1>2, <1>3

LEMMA NextIInv == IInv /\ [Next]_vars => IInv'
<1> SUFFICES ASSUME IInv, [Next]_vars PROVE IInv' OBVIOUS
<1>1. CASE Dispatch BY <1>1, DispatchStep
<1>2. CASE TryFetch
  <2>1. LET i == FetchIndex(buffer, next_msg_index_) IN
        /\ i \in Nat /\ At(buffer, i) = i /\ i <= buffer.tail_
        /\ msg' = i /\ next_msg_index_' = i + 1 /\ buffer' = buffer
        /\ fetches' = fetches + 1
    BY <1>2, FetchStep DEF TryFetch
  <2>2. TypeOK' /\ IndexFollows'
    BY <2>1 DEF IInv, TypeOK, IndexFollows
  <2>3. WindowHolds'
    BY <2>1 DEF IInv, WindowHolds
  <2> QED BY <2>2, <2>3 DEF IInv
<1>3. CASE UNCHANGED vars
  BY <1>3 DEF vars, IInv, TypeOK, WindowHolds, IndexFollows
<1> QED BY <1>1, <1>2, <1>3 DEF Next, TryFetchFails

\* The invariant holds for every queue size and every number of messages.
THEOREM IInvHolds == Spec => []IInv
  BY InitIInv, NextIInv, PTL DEF Spec

\* CacheBuffer keeps the last QueueSize messages, each at its position.
THEOREM WindowHoldsAlways == Spec => []WindowHolds
<1>1. IInv => WindowHolds BY DEF IInv
<1> QED BY <1>1, IInvHolds, PTL

\* A reader whose TryFetch returns false has had the newest message.
THEOREM NewestNotLostHolds == Spec => []NewestNotLost
<1>1. IInv => NewestNotLost
  BY DEF IInv, TypeOK, IndexFollows, NewestNotLost, CanFetch, Empty
<1> QED BY <1>1, IInvHolds, PTL

\* Fill and TryFetch implement the channel that loses messages but neither
\* reorders nor repeats them.
THEOREM LossyChannelImplemented == Spec => ImplementsLossyChannel
<1>1. Init => Channel!Init
  BY DEF Init, Channel!Init, CacheBufferInit
<1>2. IInv /\ [Next]_vars => [Channel!Next]_<<buffer.tail_, msg, fetches>>
  <2> SUFFICES ASSUME IInv, [Next]_vars
               PROVE  [Channel!Next]_<<buffer.tail_, msg, fetches>>
    OBVIOUS
  <2>1. CASE Dispatch
    BY <2>1, FillKeepsWindow DEF Dispatch, Channel!Next, Channel!Send
  <2>2. CASE TryFetch
    <3>1. /\ msg' \in (msg + 1) .. buffer.tail_ /\ buffer' = buffer
          /\ fetches' = fetches + 1
      BY <2>2, FetchStep DEF TryFetch, IInv, TypeOK
    <3> QED BY <3>1 DEF Channel!Next, Channel!Receive
  <2>3. CASE UNCHANGED vars
    BY <2>3 DEF vars
  <2> QED BY <2>1, <2>2, <2>3 DEF Next, TryFetchFails
<1> QED BY <1>1, <1>2, IInvHolds, PTL DEF Spec, ImplementsLossyChannel,
                                            Channel!Spec
=============================================================================
