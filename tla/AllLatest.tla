------------------------------ MODULE AllLatest ------------------------------
(***************************************************************************)
(* data/fusion/all_latest.h and the DataVisitor of several channels: every  *)
(* message of channel 0 is fused with the latest message of each of the     *)
(* other channels, and the reader fetches the fused tuples.  Channels are   *)
(* dispatched by different threads.  Fill of channel 0 holds that buffer's  *)
(* mutex while its callback reads the other buffers one after another.      *)
(*                                                                          *)
(* A message is its number; a message of channel 0 also carries in "at",    *)
(* for the properties, how many messages of the other channels had been     *)
(* dispatched when its own Dispatch began.                                  *)
(***************************************************************************)
EXTENDS CacheBuffer, FiniteSets

CONSTANTS N,             \* channels besides channel 0: 1 to 3 in the code
          QueueSize,     \* pending_queue_size of every channel
          MaxFill0,      \* bound: messages of channel 0
          MaxFill        \* bound: messages of each other channel

AllLatestConstants ==
  N \in Nat /\ N > 0 /\ QueueSize \in Nat /\ {MaxFill0, MaxFill} \subseteq Nat

Others == 1 .. N

VARIABLES buffer_m,          \* buffer_m1_ .. buffer_m3_
          buffer_m0_,        \* filled only while there is no callback
          buffer_fusion_,
          fusion_callback_,  \* SetFusionCallback has run
          m0,                \* the message in the callback, NoMessage if none
          m,                 \* the callback's m1 .. m3 read so far
          next_msg_index_,
          fetched,           \* the tuple TryFetch last returned
          fetches,           \* how often it returned one
          sent0,             \* messages of channel 0 so far
          owed               \* those dispatched with every channel filled

vars == <<buffer_m, buffer_m0_, buffer_fusion_, fusion_callback_, m0, m,
          next_msg_index_, fetched, fetches, sent0, owed>>

NoTuple == [m0 |-> [n |-> 0, at |-> [c \in Others |-> 0]],
            m |-> [c \in Others |-> 0]]

Init ==
  /\ buffer_m = [c \in Others |-> CacheBufferInit(QueueSize)]
  /\ buffer_m0_ = CacheBufferInit(QueueSize)
  /\ buffer_fusion_ = CacheBufferInit(buffer_m0_.capacity_ - 1)
  /\ fusion_callback_ = FALSE
  /\ m0 = NoMessage /\ m = << >>
  /\ next_msg_index_ = 0 /\ fetched = NoTuple /\ fetches = 0
  /\ sent0 = 0 /\ owed = 0

\* The constructor of DataVisitor registers the buffers first and makes the
\* AllLatest afterwards: messages may come in between.
SetFusionCallback ==
  /\ ~fusion_callback_
  /\ fusion_callback_' = TRUE
  /\ UNCHANGED <<buffer_m, buffer_m0_, buffer_fusion_, m0, m,
                 next_msg_index_, fetched, fetches, sent0, owed>>

\* Dispatch of a message of one of the other channels.
FillOther(c) ==
  /\ buffer_m[c].tail_ < MaxFill
  /\ buffer_m' = [buffer_m EXCEPT ![c] = FillBuffer(@, @.tail_ + 1)]
  /\ UNCHANGED <<buffer_m0_, buffer_fusion_, fusion_callback_, m0, m,
                 next_msg_index_, fetched, fetches, sent0, owed>>

\* Dispatch of a message of channel 0 takes the mutex of buffer_m0_ and, if the
\* callback is there, keeps it for the callback.
Fill0 ==
  LET msg == [n |-> sent0 + 1, at |-> [c \in Others |-> buffer_m[c].tail_]] IN
  /\ m0 = NoMessage /\ sent0 < MaxFill0
  /\ sent0' = sent0 + 1
  /\ IF fusion_callback_
       THEN /\ m0' = msg /\ m' = << >>
            /\ owed' = IF \A c \in Others : ~Empty(buffer_m[c]) THEN owed + 1
                                                                ELSE owed
            /\ UNCHANGED buffer_m0_
       ELSE /\ buffer_m0_' = FillBuffer(buffer_m0_, msg)
            /\ UNCHANGED <<m0, m, owed>>
  /\ UNCHANGED <<buffer_m, buffer_fusion_, fusion_callback_, next_msg_index_,
                 fetched, fetches>>

\* Mutant: the callback reads the oldest message it still has.
LatestOf_Front(c) == At(buffer_m[c], Head_(buffer_m[c]))

LatestOf(c) == Latest(buffer_m[c])

\* buffer_m1_.Latest(m1), then buffer_m2_.Latest(m2), ...
ReadLatest ==
  LET c == Len(m) + 1 IN
  /\ m0 # NoMessage /\ c \in Others
  /\ ~Empty(buffer_m[c])
  /\ m' = Append(m, LatestOf(c))
  /\ UNCHANGED <<buffer_m, buffer_m0_, buffer_fusion_, fusion_callback_, m0,
                 next_msg_index_, fetched, fetches, sent0, owed>>

\* Latest returns false: the callback returns and channel 0's message is gone.
NothingToFuse ==
  LET c == Len(m) + 1 IN
  /\ m0 # NoMessage /\ c \in Others
  /\ Empty(buffer_m[c])
  /\ m0' = NoMessage /\ m' = << >>
  /\ UNCHANGED <<buffer_m, buffer_m0_, buffer_fusion_, fusion_callback_,
                 next_msg_index_, fetched, fetches, sent0, owed>>

FillFusion ==
  /\ m0 # NoMessage /\ Len(m) = N
  /\ buffer_fusion_' = FillBuffer(buffer_fusion_, [m0 |-> m0, m |-> m])
  /\ m0' = NoMessage /\ m' = << >>
  /\ UNCHANGED <<buffer_m, buffer_m0_, fusion_callback_, next_msg_index_,
                 fetched, fetches, sent0, owed>>

\* Mutant: the index is left on the tuple just returned.
TryFetch_Stays ==
  LET i == FetchIndex(buffer_fusion_, next_msg_index_) IN
  /\ fusion_callback_ /\ CanFetch(buffer_fusion_, next_msg_index_)
  /\ fetched' = At(buffer_fusion_, i)
  /\ fetches' = fetches + 1
  /\ next_msg_index_' = i
  /\ UNCHANGED <<buffer_m, buffer_m0_, buffer_fusion_, fusion_callback_, m0, m,
                 sent0, owed>>

\* DataVisitor::TryFetch through AllLatest::Fusion.
TryFetch ==
  LET i == FetchIndex(buffer_fusion_, next_msg_index_) IN
  /\ fusion_callback_ /\ CanFetch(buffer_fusion_, next_msg_index_)
  /\ fetched' = At(buffer_fusion_, i)
  /\ fetches' = fetches + 1
  /\ next_msg_index_' = i + 1
  /\ UNCHANGED <<buffer_m, buffer_m0_, buffer_fusion_, fusion_callback_, m0, m,
                 sent0, owed>>

TryFetchFails ==
  /\ fusion_callback_ /\ ~CanFetch(buffer_fusion_, next_msg_index_)
  /\ UNCHANGED vars

Next ==
  \/ SetFusionCallback
  \/ \E c \in Others : FillOther(c)
  \/ Fill0 \/ ReadLatest \/ NothingToFuse \/ FillFusion
  \/ TryFetch \/ TryFetchFails

Spec == Init /\ [][Next]_vars

(* ------------------------------ Properties ------------------------------ *)

\* Every variable holds a value of its type.
TypeOK ==
  /\ \A c \in Others : buffer_m[c].tail_ \in 0 .. MaxFill
  /\ fusion_callback_ \in BOOLEAN
  /\ m0 = NoMessage \/ m0.n \in 1 .. MaxFill0
  /\ Len(m) <= N /\ \A c \in 1 .. Len(m) : m[c] \in 1 .. MaxFill
  /\ next_msg_index_ \in 0 .. MaxFill0 + 1
  /\ fetched.m0.n \in 0 .. MaxFill0

\* No fused tuple holds a message older than one that was there when channel
\* 0's message came: the reader of a tuple sees everything that happened before.
FusedIsFresh == \A c \in Others : fetched.m[c] >= fetched.m0.at[c]

\* A message of channel 0 that came when every other channel had a message is
\* fused once its callback has returned; none is fused twice.
FusedOnce ==
  /\ m0 = NoMessage => owed <= buffer_fusion_.tail_
  /\ \A i, j \in Head_(buffer_fusion_) .. Tail_(buffer_fusion_) :
       i < j => At(buffer_fusion_, i).m0.n < At(buffer_fusion_, j).m0.n

\* A reader whose TryFetch fails has had the newest tuple.
NewestNotLost ==
  ~CanFetch(buffer_fusion_, next_msg_index_) /\ ~Empty(buffer_fusion_) =>
    fetched = Latest(buffer_fusion_)

\* Each fetch moves forward on channel 0 and never back on the others, though
\* the callback reads them at different times.
FetchForward ==
  fetches' # fetches =>
    /\ fetched'.m0.n > fetched.m0.n
    /\ \A c \in Others : fetched'.m[c] >= fetched.m[c]

FetchedInOrder == [][FetchForward]_vars
=============================================================================
