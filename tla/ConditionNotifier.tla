-------------------------- MODULE ConditionNotifier --------------------------
(***************************************************************************)
(* transport/shm/condition_notifier.cc: the ring in shared memory in which *)
(* the processes of a host announce the blocks they have written.  Every   *)
(* process has one listener; any thread announces.  Nothing is locked: a   *)
(* number is taken with fetch_add, then the announcement is copied into    *)
(* its slot (two steps: a reader in between gets a torn one), then its     *)
(* number is stored beside it.  The listener loads the number of its slot  *)
(* and copies the announcement afterwards.                                 *)
(*                                                                         *)
(* Or, as notifier_factory.cc is configured, multicast_notifier.cc: every  *)
(* announcement is a datagram to a group that each process has joined; it  *)
(* is lost if the network drops it or the socket's buffer is full.         *)
(*                                                                         *)
(* The announcement with number n is n itself (next_seq only counts the    *)
(* datagrams).  The 64-bit counter does not wrap.                          *)
(***************************************************************************)
EXTENDS Naturals, Sequences

CONSTANTS
  Writers,     \* threads that announce
  Types,       \* the values of notifier_type
  kBufLength,  \* slots of the ring, datagrams the socket holds
  MaxSeq,      \* bound: announcements
  Torn, Blank  \* a half-copied announcement; what a new ring contains

ConditionNotifierConstants == kBufLength \in Nat \ {0} /\ MaxSeq \in Nat

VARIABLES
  type,                   \* of the host's notifiers
  socket,                 \* the datagrams that wait for the listener
  next_seq, infos, seqs,  \* the Indicator in shared memory
  constructed,            \* its creator has run the constructor
  is_shutdown_,           \* of the listener's process
  wpc, wseq,              \* where a writer is, and the number it has
  opened, next_seq_,      \* the listener's process has opened the ring; its next number
  lpc, actual_seq,        \* where the listener is, and the number that it has loaded
  got,                    \* the number and the announcement it returned last
  due,                    \* history: the number of the next announcement, if none is lost
  early,                  \* history: the ring was used before its construction
  overrun,                \* history: the listener was a whole ring behind, or a datagram was lost
  lagged                  \* history: a writer was a whole ring behind, or died

vars == <<type, socket, next_seq, infos, seqs, constructed, is_shutdown_, wpc, wseq, opened,
          next_seq_, lpc, actual_seq, got, due, early, overrun, lagged>>

ring == <<next_seq, infos, seqs>>
multicast == <<type, socket>>
listener == <<opened, next_seq_, lpc, actual_seq, got, due>>

Slots == 0 .. kBufLength - 1
Infos == 0 .. MaxSeq \cup {Torn, Blank}

TypeOK ==
  /\ type \in {"condition", "multicast"} /\ socket \in Seq(0 .. MaxSeq) /\ Len(socket) <= kBufLength
  /\ next_seq \in 0 .. MaxSeq /\ infos \in [Slots -> Infos] /\ seqs \in [Slots -> 0 .. MaxSeq]
  /\ {constructed, is_shutdown_, opened, early, overrun, lagged} \subseteq BOOLEAN
  /\ wpc \in [Writers -> {"idle", "begin", "end", "seq", "dead"}] /\ wseq \in [Writers -> 0 .. MaxSeq]
  /\ next_seq_ \in 0 .. MaxSeq /\ lpc \in {"idle", "seq", "info", "recv"} /\ actual_seq \in 0 .. MaxSeq
  /\ got \in [seq : 0 .. MaxSeq, info : Infos] /\ due \in 0 .. MaxSeq

(* The notifier_type of the configuration decides; an unknown one is ignored. *)
CreateNotifier(notifier_type) ==
  IF notifier_type = "multicast" THEN "multicast" ELSE "condition"

(* shmget has created the memory, which is zero. *)
Init ==
  /\ type \in {CreateNotifier(t) : t \in Types} /\ socket = <<>>
  /\ next_seq = 0 /\ infos = [i \in Slots |-> Blank] /\ seqs = [i \in Slots |-> 0]
  /\ constructed = FALSE /\ is_shutdown_ = FALSE
  /\ wpc = [w \in Writers |-> "idle"] /\ wseq = [w \in Writers |-> 0]
  /\ opened = FALSE /\ next_seq_ = 0 /\ lpc = "idle" /\ actual_seq = 0
  /\ got = [seq |-> 0, info |-> 0] /\ due = 0
  /\ early = FALSE /\ overrun = FALSE /\ lagged = FALSE

(* OpenOrCreate: the creator constructs the Indicator in the memory. *)
Construct ==
  /\ type = "condition" /\ ~constructed /\ constructed' = TRUE
  /\ next_seq' = 0 /\ infos' = [i \in Slots |-> Blank] /\ seqs' = [i \in Slots |-> 0]
  /\ UNCHANGED <<multicast, is_shutdown_, wpc, wseq, listener, early, overrun, lagged>>

(* The constructor of another process: OpenOnly, and its next_seq_. *)
OpenOnly ==
  /\ type = "condition" /\ ~opened /\ opened' = TRUE
  /\ next_seq_' = next_seq /\ due' = next_seq
  /\ early' = (early \/ ~constructed)
  /\ UNCHANGED <<multicast, ring, constructed, is_shutdown_, wpc, wseq, lpc,
                 actual_seq, got, overrun, lagged>>

-----------------------------------------------------------------------------
(* Notify *)

Idx(seq) == seq % kBufLength

FetchAdd(w) ==
  /\ type = "condition" /\ wpc[w] = "idle" /\ next_seq < MaxSeq
  /\ wseq' = [wseq EXCEPT ![w] = next_seq]
  /\ next_seq' = next_seq + 1
  /\ wpc' = [wpc EXCEPT ![w] = "begin"]
  /\ early' = (early \/ ~constructed)
  /\ overrun' = (overrun \/ (opened /\ next_seq >= due + kBufLength))
  /\ lagged' = (lagged \/ \E v \in Writers : wpc[v] # "idle" /\ next_seq >= wseq[v] + kBufLength)
  /\ UNCHANGED <<multicast, infos, seqs, constructed, is_shutdown_, listener>>

(* Mutant: the number before the announcement. *)
BeginCopy_SeqFirst(w) ==
  /\ wpc[w] = "begin" /\ wpc' = [wpc EXCEPT ![w] = "end"]
  /\ infos' = [infos EXCEPT ![Idx(wseq[w])] = Torn]
  /\ seqs' = [seqs EXCEPT ![Idx(wseq[w])] = wseq[w]]
  /\ UNCHANGED <<multicast, next_seq, constructed, is_shutdown_, wseq, listener,
                 early, overrun, lagged>>

BeginCopy(w) ==
  /\ wpc[w] = "begin" /\ wpc' = [wpc EXCEPT ![w] = "end"]
  /\ infos' = [infos EXCEPT ![Idx(wseq[w])] = Torn]
  /\ UNCHANGED <<multicast, next_seq, seqs, constructed, is_shutdown_, wseq,
                 listener, early, overrun, lagged>>

EndCopy(w) ==
  /\ wpc[w] = "end" /\ wpc' = [wpc EXCEPT ![w] = "seq"]
  /\ infos' = [infos EXCEPT ![Idx(wseq[w])] = wseq[w]]
  /\ UNCHANGED <<multicast, next_seq, seqs, constructed, is_shutdown_, wseq,
                 listener, early, overrun, lagged>>

StoreSeq(w) ==
  /\ wpc[w] = "seq" /\ wpc' = [wpc EXCEPT ![w] = "idle"]
  /\ seqs' = [seqs EXCEPT ![Idx(wseq[w])] = wseq[w]]
  /\ UNCHANGED <<multicast, next_seq, infos, constructed, is_shutdown_, wseq,
                 listener, early, overrun, lagged>>

(* The process of a writer dies in the middle. *)
Crash(w) ==
  /\ wpc[w] \in {"begin", "end", "seq"} /\ wpc' = [wpc EXCEPT ![w] = "dead"]
  /\ lagged' = TRUE
  /\ UNCHANGED <<multicast, ring, constructed, is_shutdown_, wseq, listener,
                 early, overrun>>

-----------------------------------------------------------------------------
(* Listen *)

(* A turn of the loop finds something new, ... *)
Look ==
  /\ type = "condition" /\ lpc = "idle" /\ opened /\ ~is_shutdown_ /\ next_seq # next_seq_
  /\ lpc' = "seq"
  /\ UNCHANGED <<multicast, ring, constructed, is_shutdown_, wpc, wseq, opened, next_seq_,
                 actual_seq, got, due, early, overrun, lagged>>

(* ... loads the number of the slot, and waits if it is an old one, ... *)
LoadSeq ==
  /\ lpc = "seq"
  /\ actual_seq' = seqs[Idx(next_seq_)]
  /\ lpc' = IF actual_seq' >= next_seq_ THEN "info" ELSE "idle"
  /\ UNCHANGED <<multicast, ring, constructed, is_shutdown_, wpc, wseq, opened, next_seq_,
                 got, due, early, overrun, lagged>>

(* ... or copies the announcement and goes on behind it. *)
CopyInfo ==
  /\ lpc = "info" /\ lpc' = "idle"
  /\ got' = [seq |-> actual_seq, info |-> infos[Idx(next_seq_)]]
  /\ next_seq_' = actual_seq + 1
  /\ due' = due + 1
  /\ UNCHANGED <<multicast, ring, constructed, is_shutdown_, wpc, wseq, opened, actual_seq,
                 early, overrun, lagged>>

(* Shutdown, which gives Listen 100 ms to return. *)
Shutdown ==
  /\ type = "condition" /\ ~is_shutdown_ /\ is_shutdown_' = TRUE
  /\ UNCHANGED <<multicast, ring, constructed, wpc, wseq, listener, early,
                 overrun, lagged>>

-----------------------------------------------------------------------------
(* MulticastNotifier *)

rest == <<infos, seqs, constructed, wpc, wseq, actual_seq, early, lagged>>

(* Its constructor joins the group, or Init fails and shuts it down. *)
MulticastInit ==
  /\ type = "multicast" /\ ~opened /\ ~is_shutdown_
  /\ \/ opened' = TRUE /\ next_seq_' = next_seq /\ due' = next_seq /\ UNCHANGED is_shutdown_
     \/ is_shutdown_' = TRUE /\ UNCHANGED <<opened, next_seq_, due>>
  /\ UNCHANGED <<multicast, rest, next_seq, lpc, got, overrun>>

(* Another process sends a datagram; a full socket drops it, the network may. *)
MulticastNotify ==
  /\ type = "multicast" /\ next_seq < MaxSeq /\ next_seq' = next_seq + 1
  /\ \/ /\ opened /\ ~is_shutdown_ /\ Len(socket) < kBufLength
        /\ socket' = Append(socket, next_seq) /\ UNCHANGED overrun
     \/ overrun' = (overrun \/ opened) /\ UNCHANGED socket
  /\ UNCHANGED <<rest, type, is_shutdown_, opened, next_seq_, lpc, got, due>>

(* Listen: poll finds a datagram, ... *)
MulticastPoll ==
  /\ type = "multicast" /\ lpc = "idle" /\ opened /\ ~is_shutdown_ /\ socket # <<>>
  /\ lpc' = "recv"
  /\ UNCHANGED <<multicast, rest, next_seq, is_shutdown_, opened, next_seq_,
                 got, due, overrun>>

(* ... recvfrom takes it, or fails if Shutdown has closed the socket. *)
MulticastListen ==
  /\ lpc = "recv" /\ lpc' = "idle"
  /\ IF socket = <<>> THEN UNCHANGED <<socket, got, next_seq_, due>>
     ELSE /\ socket' = Tail(socket) /\ got' = [seq |-> Head(socket), info |-> Head(socket)]
          /\ next_seq_' = Head(socket) + 1 /\ due' = due + 1
  /\ UNCHANGED <<type, rest, next_seq, is_shutdown_, opened, overrun>>

MulticastShutdown ==
  /\ type = "multicast" /\ ~is_shutdown_ /\ is_shutdown_' = TRUE
  /\ socket' = <<>>
  /\ UNCHANGED <<type, rest, next_seq, opened, next_seq_, lpc, got, due, overrun>>

Next ==
  \/ Construct \/ OpenOnly
  \/ \E w \in Writers : FetchAdd(w) \/ BeginCopy(w) \/ EndCopy(w) \/ StoreSeq(w) \/ Crash(w)
  \/ Look \/ LoadSeq \/ CopyInfo \/ Shutdown
  \/ MulticastInit \/ MulticastNotify \/ MulticastPoll \/ MulticastListen \/ MulticastShutdown

Spec == Init /\ [][Next]_vars

-----------------------------------------------------------------------------
(* Properties *)

Regular == ~early /\ ~overrun /\ ~lagged

(* As long as neither the listener nor a writer is a whole ring behind,    *)
(* and no datagram is lost, the listener gets every announcement since it opened the ring, whole    *)
(* and in order.  The exception is announcement 0: the numbers of a new    *)
(* ring are 0 too, so a listener may take slot 0 before it is written.     *)
EveryAnnouncementOnce ==
  /\ Regular => next_seq_ = due /\ (got.seq > 0 => got.info = got.seq)
  /\ \A i \in DOMAIN socket : socket[i] >= next_seq_

(* When no writer is at work and none has died or been a ring behind, the  *)
(* listener has caught up or can go on, however often it was overrun.      *)
NotStuckAtRest ==
  type = "condition" /\ ~early /\ ~lagged /\ opened /\ (\A w \in Writers : wpc[w] = "idle") =>
    next_seq_ = next_seq \/ seqs[Idx(next_seq_)] >= next_seq_
=============================================================================
