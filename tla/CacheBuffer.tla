----------------------------- MODULE CacheBuffer -----------------------------
(***************************************************************************)
(* data/cache_buffer.h and data/channel_buffer.h: a ring of the last        *)
(* messages of a channel, positions counted from 1, and the operations a    *)
(* ChannelBuffer offers on it under the buffer's mutex.  A buffer is a      *)
(* record; an operation maps a buffer to its result.                        *)
(***************************************************************************)
EXTENDS Integers, Sequences

CONSTANT NoMessage      \* the shared_ptr of a slot never filled

CacheBufferInit(size) ==
  [head_ |-> 0, tail_ |-> 0, capacity_ |-> size + 1,
   buffer_ |-> [i \in 0 .. size |-> NoMessage]]

GetIndex(b, pos) == pos % b.capacity_

At(b, pos) == b.buffer_[GetIndex(b, pos)]
Head_(b) == b.head_ + 1
Tail_(b) == b.tail_
Size(b) == b.tail_ - b.head_
Empty(b) == b.tail_ = 0

Full(b) == b.capacity_ - 1 = b.tail_ - b.head_

\* A full buffer overwrites the free slot behind its oldest message, whose slot
\* becomes the free one.
FillBuffer(b, value) ==
  IF Full(b)
    THEN [b EXCEPT !.buffer_[GetIndex(b, b.head_)] = value,
                   !.head_ = @ + 1, !.tail_ = @ + 1]
    ELSE [b EXCEPT !.buffer_[GetIndex(b, b.tail_ + 1)] = value, !.tail_ = @ + 1]

\* ChannelBuffer::Fetch.  The first fetch and a fetch after an overrun go to the
\* newest message.
FetchIndex(b, index) ==
  IF index = 0 \/ (index # b.tail_ + 1 /\ index < Head_(b)) THEN b.tail_
                                                            ELSE index

\* Mutant: a reader that is one message behind counts as up to date.
CanFetch_Early(b, index) == ~Empty(b) /\ (index = 0 \/ index < b.tail_)

CanFetch(b, index) == ~Empty(b) /\ (index = 0 \/ index # b.tail_ + 1)

\* ChannelBuffer::Latest, on a buffer that is not empty.
Latest(b) == At(b, b.tail_)

\* Mutant: starts one message too early.
FetchMulti_Oldest(b, fetch_size) ==
  LET num == IF Size(b) < fetch_size THEN Size(b) ELSE fetch_size
  IN IF Empty(b) THEN << >>
     ELSE [k \in 1 .. num |-> At(b, b.tail_ - num + k - 1)]

\* ChannelBuffer::FetchMulti: the newest messages, oldest first.
FetchMulti(b, fetch_size) ==
  LET num == IF Size(b) < fetch_size THEN Size(b) ELSE fetch_size
  IN IF Empty(b) THEN << >> ELSE [k \in 1 .. num |-> At(b, b.tail_ - num + k)]
=============================================================================
