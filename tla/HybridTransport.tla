--------------------------- MODULE HybridTransport ---------------------------
(***************************************************************************)
(* One HybridTransmitter (transport/transmitter/hybrid_transmitter.h) with *)
(* its History (transport/message/history.h), and the HybridReceivers      *)
(* (transport/receiver/hybrid_receiver.h) of the same channel.  The        *)
(* transmitter has one underlying transmitter for each mode, enabled while *)
(* it knows a receiver of that mode.  The channel is TRANSIENT_LOCAL: a    *)
(* receiver that it comes to know gets the last messages from a thread of  *)
(* its own, over an RTPS channel that only the two use, and the receiver   *)
(* listens to that channel until nothing came for a second.  (On a         *)
(* volatile channel the history stays empty and no thread is started.)     *)
(*                                                                         *)
(* Each call of the transmitter and of a receiver holds its mutex, so each *)
(* is a step.  The two sides learn of each other independently, in any     *)
(* order.  An intra-process message is delivered in the call of Transmit;  *)
(* the other modes are queues from which the middleware (external)         *)
(* delivers; what a ring overwrites is the matter of ShmBlocks and         *)
(* ChannelReader.  Messages are numbered by Transmitter::Transmit.         *)
(***************************************************************************)
EXTENDS Naturals, Sequences, FiniteSets

CONSTANTS
  Readers,         \* the receivers of the channel
  Modes,           \* the transports that the configuration maps relations to
  Depth,           \* depth_ of the transmitter's history
  MaxMsgs,         \* bound: messages transmitted
  MaxEnables       \* bound: calls of the transmitter's Enable

HybridTransportConstants ==
  Depth \in Nat /\ {MaxMsgs, MaxEnables} \subseteq Nat

VARIABLES
  mode,        \* mode[r]: mapping_table_ of the relation with receiver r
  receivers_,  \* of each mode: the receivers the transmitter knows
  enabled_,    \* of each mode: whether its transmitter is enabled
  seq_num_,    \* the number of messages transmitted
  history_,    \* the messages that History keeps
  sending,     \* sending[r]: for each thread that sends r the history, what is left
  known,       \* known[r]: receiver r knows the transmitter
  thread,      \* thread[r]: r's thread that receives the history
  arrived,     \* is_msg_arrived of that thread
  live,        \* live[r]: messages under way to r
  private,     \* private[r]: messages under way on the channel for r's history
  got,         \* got[r][n]: how often r's listener was called with message n
  from,        \* history: the first message owed to r, 0 while there is none
  excused,     \* history: r came too late or left, so nothing is owed to it
  early        \* history: messages transmitted before the transmitter knew r

vars == <<mode, receivers_, enabled_, seq_num_, history_, sending, known, thread,
          arrived, live, private, got, from, excused, early>>

txVars == <<receivers_, enabled_, seq_num_, history_>>
rxVars == <<known, thread, arrived>>
ghosts == <<from, excused, early>>

Msgs == 1 .. MaxMsgs

TypeOK ==
  /\ mode \in [Readers -> Modes]
  /\ receivers_ \in [Modes -> SUBSET Readers] /\ enabled_ \in [Modes -> BOOLEAN]
  /\ seq_num_ \in 0 .. MaxMsgs
  /\ history_ \in Seq(Msgs) /\ Len(history_) <= Depth
  /\ \A r \in Readers : /\ sending[r] \in Seq(Seq(Msgs)) /\ Len(sending[r]) <= MaxEnables
                        /\ live[r] \in Seq(Msgs) /\ private[r] \in Seq(Msgs)
  /\ known \in [Readers -> BOOLEAN] /\ arrived \in [Readers -> BOOLEAN]
  /\ thread \in [Readers -> {"none", "started", "listening", "ended"}]
  /\ got \in [Readers -> [Msgs -> Nat]]
  /\ from \in [Readers -> Nat] /\ excused \in [Readers -> BOOLEAN]
  /\ early \in [Readers -> SUBSET Msgs]

(* GetRelation, of a receiver's place. *)
Places == {"this process", "this host", "elsewhere"}
GetRelation(p) == CASE p = "elsewhere" -> "DIFF_HOST" [] p = "this host" -> "DIFF_PROC" [] OTHER -> "SAME_PROC"

(* InitMode and ObtainConfig: a mode for each relation. *)
MappingTables == [{"SAME_PROC", "DIFF_PROC", "DIFF_HOST"} -> Modes]

(* The receivers start with no transmitter known, and nothing received. *)
ReceiverInit ==
  /\ known = [r \in Readers |-> FALSE]
  /\ thread = [r \in Readers |-> "none"] /\ arrived = [r \in Readers |-> FALSE]
  /\ live = [r \in Readers |-> <<>>] /\ private = [r \in Readers |-> <<>>]
  /\ got = [r \in Readers |-> [n \in Msgs |-> 0]]

Init ==
  /\ mode \in {[r \in Readers |-> table[GetRelation(place[r])]] : table \in MappingTables, place \in [Readers -> Places]}
  /\ receivers_ = [m \in Modes |-> {}] /\ enabled_ = [m \in Modes |-> FALSE]
  /\ seq_num_ = 0 /\ history_ = <<>>
  /\ sending = [r \in Readers |-> <<>>] /\ ReceiverInit
  /\ from = [r \in Readers |-> 0] /\ excused = [r \in Readers |-> FALSE]
  /\ early = [r \in Readers |-> {}]

(* From message n on r is owed every one, unless it was late or has left.  *)
Owe(r, late, n) ==
  /\ excused' = [excused EXCEPT ![r] = @ \/ late]
  /\ from' = [from EXCEPT ![r] = IF excused[r] \/ late THEN 0 ELSE n]

-----------------------------------------------------------------------------
(* The transmitter *)

(* Mutant: one message less is kept. *)
HistoryAdd_Short(h, n) ==
  LET all == Append(h, n)
  IN  IF Len(all) >= Depth THEN Tail(all) ELSE all

(* History::Add: append, and drop the oldest beyond the depth. *)
HistoryAdd(h, n) ==
  LET all == Append(h, n)
  IN  IF Len(all) > Depth THEN Tail(all) ELSE all

(* Those whom a message transmitted now is sent to by the underlying       *)
(* transmitters: every receiver of an enabled mode, known or not.          *)
Addressed == {r \in Readers : enabled_[mode[r]]}

(* IntraTransmitter: the dispatcher calls the listener at once, if there   *)
(* is one.                                                                 *)
TransmitIntra(n) ==
  got' = [r \in Readers |-> IF r \in Addressed /\ mode[r] = "INTRA" /\ known[r]
                            THEN [got[r] EXCEPT ![n] = @ + 1] ELSE got[r]]

(* RtpsTransmitter, and ShmTransmitter: on its way. *)
TransmitOutside(n) ==
  live' = [r \in Readers |-> IF r \in Addressed /\ mode[r] # "INTRA" THEN Append(live[r], n) ELSE live[r]]

(* Transmit: into the history, then to every transmitter. *)
Transmit ==
  /\ seq_num_ < MaxMsgs
  /\ LET n == seq_num_ + 1
     IN  /\ seq_num_' = n
         /\ history_' = HistoryAdd(history_, n)
         /\ TransmitIntra(n) /\ TransmitOutside(n)
         /\ early' = [r \in Readers |-> IF r \in receivers_[mode[r]] THEN early[r]
                                        ELSE early[r] \cup {n}]
  /\ UNCHANGED <<mode, receivers_, enabled_, sending, rxVars, private, from, excused>>

(* TransmitHistoryMsg: a thread is started with a copy of the history. *)
TransmitHistoryMsg(r) == sending' = [sending EXCEPT ![r] = Append(@, history_)]

(* Enable(opposite_attr): the receiver is noted, its mode's transmitter    *)
(* enabled, and the history sent; nothing                                  *)
(* checks whether the receiver was known already.                          *)
Enable(r) ==
  /\ Cardinality(UNION {{q} \X DOMAIN sending[q] : q \in Readers}) < MaxEnables
  /\ receivers_' = [receivers_ EXCEPT ![mode[r]] = @ \cup {r}]
  /\ enabled_' = [enabled_ EXCEPT ![mode[r]] = TRUE]
  /\ TransmitHistoryMsg(r)
  /\ Owe(r, ~known[r] \/ (history_ # <<>> /\ thread[r] # "listening"),
         IF from[r] # 0 THEN from[r]
         ELSE IF history_ = <<>> THEN seq_num_ + 1 ELSE Head(history_))
  /\ UNCHANGED <<mode, seq_num_, history_, rxVars, live, private, got, early>>

(* Mutant: the mode's transmitter goes with any of its receivers. *)
Disable_NotLast(r) ==
  /\ r \in receivers_[mode[r]]
  /\ receivers_' = [receivers_ EXCEPT ![mode[r]] = @ \ {r}]
  /\ enabled_' = [enabled_ EXCEPT ![mode[r]] = FALSE]
  /\ Owe(r, TRUE, 0)
  /\ UNCHANGED <<mode, seq_num_, history_, sending, rxVars, live, private, got, early>>

(* Disable(opposite_attr): with the last receiver of a mode goes its       *)
(* transmitter.                                                            *)
Disable(r) ==
  /\ r \in receivers_[mode[r]]
  /\ receivers_' = [receivers_ EXCEPT ![mode[r]] = @ \ {r}]
  /\ enabled_' = [enabled_ EXCEPT ![mode[r]] = receivers_'[mode[r]] # {}]
  /\ Owe(r, TRUE, 0)
  /\ UNCHANGED <<mode, seq_num_, history_, sending, rxVars, live, private, got, early>>

(* ThreadFunc of the transmitter: one message after the other onto the     *)
(* private channel.  What is written before the receiver subscribes may be *)
(* kept for it or not (external).                                          *)
SendHistory(r) ==
  /\ \E k \in DOMAIN sending[r] :
       /\ sending[r][k] # <<>>
       /\ sending' = [sending EXCEPT ![r][k] = Tail(@)]
       /\ \/ private' = [private EXCEPT ![r] = Append(@, Head(sending[r][k]))]
          \/ thread[r] \in {"none", "started"} /\ UNCHANGED private
  /\ UNCHANGED <<mode, txVars, rxVars, live, got, ghosts>>

-----------------------------------------------------------------------------
(* A receiver *)

(* ReceiveHistoryMsg: a thread of its own. *)
ReceiveHistoryMsg(r) == thread' = [thread EXCEPT ![r] = "started"]

(* Enable(opposite_attr), if the transmitter is not known yet.  A          *)
(* transmitter joins its channel once, so a receiver does this once.       *)
ReceiverEnable(r) ==
  /\ ~known[r] /\ thread[r] = "none"
  /\ known' = [known EXCEPT ![r] = TRUE]
  /\ ReceiveHistoryMsg(r)
  /\ UNCHANGED <<mode, txVars, sending, arrived, live, private, got, ghosts>>

(* Disable(opposite_attr): the transmitter has left. *)
ReceiverDisable(r) ==
  /\ known[r]
  /\ known' = [known EXCEPT ![r] = FALSE]
  /\ Owe(r, TRUE, 0)
  /\ UNCHANGED <<mode, txVars, sending, thread, arrived, live, private, got, early>>

(* ThreadFunc of the receiver: it subscribes to the private channel, ... *)
Subscribe(r) ==
  /\ thread[r] = "started"
  /\ thread' = [thread EXCEPT ![r] = "listening"]
  /\ UNCHANGED <<mode, txVars, sending, known, arrived, live, private, got, ghosts>>

(* ... and wakes up every second, until nothing has arrived since. *)
WakeUp(r) ==
  /\ thread[r] = "listening"
  /\ IF arrived[r]
     THEN arrived' = [arrived EXCEPT ![r] = FALSE] /\ UNCHANGED <<thread, from, excused>>
     ELSE /\ thread' = [thread EXCEPT ![r] = "ended"]
          /\ Owe(r, private[r] # <<>> \/ \E k \in DOMAIN sending[r] : sending[r][k] # <<>>, from[r])
          /\ UNCHANGED arrived
  /\ UNCHANGED <<mode, txVars, sending, known, live, private, got, early>>

Receive(r, n) == got' = [got EXCEPT ![r][n] = @ + 1]

(* The middleware delivers the next message of the history.  Once the      *)
(* thread has ended nobody listens.                                        *)
DeliverHistory(r) ==
  /\ private[r] # <<>> /\ thread[r] \in {"listening", "ended"}
  /\ private' = [private EXCEPT ![r] = Tail(@)]
  /\ IF thread[r] = "listening"
     THEN Receive(r, Head(private[r])) /\ arrived' = [arrived EXCEPT ![r] = TRUE]
     ELSE UNCHANGED <<got, arrived>>
  /\ UNCHANGED <<mode, txVars, sending, known, thread, live, ghosts>>

(* The middleware delivers the next message, to the listener if the        *)
(* receiver has enabled the transmitter.                                   *)
DeliverLive(r) ==
  /\ live[r] # <<>>
  /\ live' = [live EXCEPT ![r] = Tail(@)]
  /\ IF known[r] THEN Receive(r, Head(live[r])) ELSE UNCHANGED got
  /\ UNCHANGED <<mode, txVars, sending, rxVars, private, ghosts>>

-----------------------------------------------------------------------------
Next ==
  \/ Transmit
  \/ \E r \in Readers :
       \/ Enable(r) \/ Disable(r) \/ SendHistory(r)
       \/ ReceiverEnable(r) \/ ReceiverDisable(r) \/ Subscribe(r) \/ WakeUp(r)
       \/ DeliverHistory(r) \/ DeliverLive(r)

Spec == Init /\ [][Next]_vars

-----------------------------------------------------------------------------
(* Properties *)

(* The transmitter of a mode is enabled exactly while a receiver of that   *)
(* mode is known: one that leaves does not cut off the others, and nobody  *)
(* pays for a transport without readers.                                   *)
EnabledWhileNeeded == \A m \in Modes : enabled_[m] <=> receivers_[m] # {}

Quiet(r) == live[r] = <<>> /\ private[r] = <<>> /\ \A k \in DOMAIN sending[r] : sending[r][k] = <<>>

(* History and live messages join without a gap: a receiver that listened  *)
(* when the transmitter came to know it, and until the history was through, *)
(* has every message from the oldest one kept at that moment on.  Enable   *)
(* copies the history and enables the transport under the mutex that       *)
(* Transmit holds.                                                         *)
NoGapAfterHistory ==
  \A r \in Readers : from[r] # 0 /\ ~excused[r] /\ Quiet(r) =>
    \A n \in from[r] .. seq_num_ : got[r][n] > 0

(* A message comes twice only if the transmitter's Enable was called twice *)
(* for the receiver, or if it was transmitted, for the sake of another     *)
(* receiver of the same mode, before the transmitter knew this one.        *)
OnceUnlessRepeated ==
  \A r \in Readers, n \in Msgs :
    got[r][n] > 1 => Len(sending[r]) > 1 \/ n \in early[r]

(* The oldest message kept is no older than Depth messages, and what is    *)
(* kept is consecutive up to the last one transmitted.                     *)
HistoryIsNewest ==
    /\ Len(history_) = IF seq_num_ < Depth THEN seq_num_ ELSE Depth
    /\ \A i \in DOMAIN history_ : history_[i] = seq_num_ - Len(history_) + i
=============================================================================
