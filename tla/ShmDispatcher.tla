---------------------------- MODULE ShmDispatcher ----------------------------
(***************************************************************************)
(* How a message that a process finds in shared memory reaches the         *)
(* receivers of its channel: ShmDispatcher with its base class Dispatcher  *)
(* (transport/dispatcher), the channel's ListenerHandler (transport/       *)
(* message/listener_handler.h) and its Signals (base/signal.h).            *)
(*                                                                         *)
(* One channel.  A receiver listens to everybody (Enable(), "all": the     *)
(* handler's signal_) or to one transmitter (Enable(opposite), "one":      *)
(* signals_[oppo_id]).  Its thread adds and removes its listener while the *)
(* dispatcher's thread calls the listeners with a message.  A slot is a    *)
(* pair of a receiver and the number of its connection.  RtpsDispatcher    *)
(* does the same with a subscriber in the place of the segment.            *)
(***************************************************************************)
EXTENDS Naturals, FiniteSets

CONSTANTS
  Receivers,    \* the receivers of the channel in this process
  MaxConnects,  \* bound: how often a receiver adds its listener
  MaxMsgs       \* bound: messages that the notifier announces

ShmDispatcherConstants == {MaxConnects, MaxMsgs} \subseteq Nat

Forms == {"all", "one"}
Slots == Receivers \X (1 .. MaxConnects)
Handlers == 1 .. Cardinality(Receivers)

VARIABLES
  is_shutdown_,
  msg_listeners_,  \* the channel's handler in AtomicHashMap, 0 if there is none
  made,            \* handlers constructed
  slots_,          \* slots_[h][f]: the slots of signal_, and of signals_[oppo]
  connected_,      \* the slots whose connected_ is true
  conns,           \* conns[h][r]: number of r's connection in handler h, or 0
  segment,         \* segments_ has the channel
  form,            \* form[r]: which of the two Enables receiver r uses
  cpc, chandler,   \* where receiver r's thread is, and its local handler
  connects,        \* connects[r]: connections made so far
  dpc, dhandler,   \* where the dispatcher's thread is, its handler,
  dform, todo,     \* which signal it runs, its local list of slots,
  slot,            \* the slot whose callback is tested or called
  msgs, spc,       \* messages announced; where Shutdown is
  overlapped       \* history: a handler replaced one that was in use

vars == <<is_shutdown_, msg_listeners_, made, slots_, connected_, conns, segment,
          form, cpc, chandler, connects, dpc, dhandler, dform, todo, slot, msgs,
          spc, overlapped>>

handlerVars == <<slots_, connected_, conns>>
clientVars == <<form, cpc, chandler, connects>>
threadVars == <<dpc, dhandler, dform, todo, slot, msgs>>

NoSlot == <<>>

TypeOK ==
  /\ is_shutdown_ \in BOOLEAN /\ segment \in BOOLEAN /\ overlapped \in BOOLEAN
  /\ msg_listeners_ \in Handlers \cup {0} /\ made \in Handlers \cup {0}
  /\ slots_ \in [Handlers -> [Forms -> SUBSET Slots]] /\ connected_ \subseteq Slots
  /\ conns \in [Handlers -> [Receivers -> 0 .. MaxConnects]]
  /\ form \in [Receivers -> Forms] /\ connects \in [Receivers -> 0 .. MaxConnects]
  /\ cpc \in [Receivers -> {"idle", "set", "connect", "store", "segment", "added", "remove"}]
  /\ chandler \in [Receivers -> Handlers \cup {0}]
  /\ dpc \in {"listen", "read", "check", "get", "copy", "each", "call", "clear", "ended"}
  /\ dhandler \in Handlers \cup {0} /\ dform \in Forms
  /\ todo \subseteq Slots /\ slot \in Slots \cup {NoSlot}
  /\ msgs \in 0 .. MaxMsgs /\ spc \in {"no", "join", "clear", "done"}

Init ==
  /\ is_shutdown_ = FALSE /\ msg_listeners_ = 0 /\ made = 0
  /\ slots_ = [h \in Handlers |-> [f \in Forms |-> {}]] /\ connected_ = {}
  /\ conns = [h \in Handlers |-> [r \in Receivers |-> 0]]
  /\ segment = FALSE
  /\ form \in [Receivers -> Forms]
  /\ cpc = [r \in Receivers |-> "idle"] /\ chandler = [r \in Receivers |-> 0]
  /\ connects = [r \in Receivers |-> 0]
  /\ dpc = "listen" /\ dhandler = 0 /\ dform = "all" /\ todo = {} /\ slot = NoSlot
  /\ msgs = 0 /\ spc = "no" /\ overlapped = FALSE

-----------------------------------------------------------------------------
(* The locks *)

(* ListenerHandler::rw_lock_ of h is free for a writer: Run holds it for   *)
(* reading while it runs the signal of the opposite.                       *)
HandlerFree(h) ==
  ~(dhandler = h /\ dform = "one" /\ dpc \in {"each", "call", "clear"})

(* segments_lock_ is free for a writer: ThreadFunc holds it for reading    *)
(* from the look at segments_ until the message is through.                *)
SegmentsFree == dpc \in {"listen", "ended"}

-----------------------------------------------------------------------------
(* A receiver's thread: ShmReceiver's (or RtpsReceiver's) Enable() acts    *)
(* when the receiver is not enabled, its Disable() when it is; and         *)
(* HybridReceiver calls Enable(opposite) only for a peer it does not have, *)
(* Disable(opposite) for one it has.                                       *)
MayEnable(r) == cpc[r] = "idle" /\ connects[r] < MaxConnects
MayDisable(r) == cpc[r] = "added"

(* Mutant: the segment first, then the listener. *)
AddListener_SegmentFirst(r) ==
  /\ MayEnable(r)
  /\ segment' = TRUE
  /\ chandler' = [chandler EXCEPT ![r] = msg_listeners_]
  /\ cpc' = [cpc EXCEPT ![r] = IF is_shutdown_ THEN "segment"
                               ELSE IF msg_listeners_ = 0 THEN "set" ELSE "connect"]
  /\ UNCHANGED <<is_shutdown_, msg_listeners_, made, handlerVars, form,
                 connects, threadVars, spc, overlapped>>

(* Dispatcher::AddListener: the shutdown flag, and Get of the handler.     *)
(* (All receivers of a ShmDispatcher share one handler type.)              *)
AddListener(r) ==
  /\ MayEnable(r)
  /\ chandler' = [chandler EXCEPT ![r] = msg_listeners_]
  /\ cpc' = [cpc EXCEPT ![r] = IF is_shutdown_ THEN "segment"
                               ELSE IF msg_listeners_ = 0 THEN "set" ELSE "connect"]
  /\ UNCHANGED <<is_shutdown_, msg_listeners_, made, handlerVars, segment, form,
                 connects, threadVars, spc, overlapped>>

(* ... a new handler, Set in the table, whatever another thread has set    *)
(* there since.                                                            *)
SetHandler(r) ==
  /\ cpc[r] = "set"
  /\ made' = made + 1 /\ msg_listeners_' = made'
  /\ overlapped' = (overlapped \/ msg_listeners_ # 0)
  /\ chandler' = [chandler EXCEPT ![r] = made']
  /\ cpc' = [cpc EXCEPT ![r] = "connect"]
  /\ UNCHANGED <<is_shutdown_, handlerVars, segment, form, connects, threadVars, spc>>

(* ListenerHandler::Connect(self) connects and then takes the lock to      *)
(* store the connection; Connect(self, oppo) does both under the lock.     *)
Connect(r) ==
  /\ cpc[r] = "connect"
  /\ LET h == chandler[r]
         n == connects[r] + 1
     IN  /\ connects' = [connects EXCEPT ![r] = n]
         /\ slots_' = [slots_ EXCEPT ![h][form[r]] = @ \cup {<<r, n>>}]
         /\ connected_' = connected_ \cup {<<r, n>>}
         /\ \/ /\ form[r] = "all"
               /\ cpc' = [cpc EXCEPT ![r] = "store"] /\ UNCHANGED conns
            \/ /\ form[r] = "one" /\ HandlerFree(h)
               /\ conns' = [conns EXCEPT ![h][r] = n]
               /\ cpc' = [cpc EXCEPT ![r] = "segment"]
  /\ UNCHANGED <<is_shutdown_, msg_listeners_, made, segment, form, chandler,
                 threadVars, spc, overlapped>>

StoreConnection(r) ==
  /\ cpc[r] = "store" /\ HandlerFree(chandler[r])
  /\ conns' = [conns EXCEPT ![chandler[r]][r] = connects[r]]
  /\ cpc' = [cpc EXCEPT ![r] = "segment"]
  /\ UNCHANGED <<is_shutdown_, msg_listeners_, made, slots_, connected_, segment,
                 form, chandler, connects, threadVars, spc, overlapped>>

(* ShmDispatcher::AddSegment, also after Dispatcher::AddListener has       *)
(* refused.                                                                *)
AddSegment(r) ==
  /\ cpc[r] = "segment" /\ SegmentsFree
  /\ segment' = TRUE
  /\ cpc' = [cpc EXCEPT ![r] = "added"]
  /\ UNCHANGED <<is_shutdown_, msg_listeners_, made, handlerVars, form, chandler,
                 connects, threadVars, spc, overlapped>>

(* Dispatcher::RemoveListener: the flag, and Get. *)
RemoveListener(r) ==
  /\ MayDisable(r)
  /\ chandler' = [chandler EXCEPT ![r] = msg_listeners_]
  /\ cpc' = [cpc EXCEPT ![r] = IF is_shutdown_ \/ msg_listeners_ = 0 THEN "idle"
                               ELSE "remove"]
  /\ UNCHANGED <<is_shutdown_, msg_listeners_, made, handlerVars, segment, form,
                 connects, threadVars, spc, overlapped>>

(* Mutant: the lock is not taken. *)
Disconnect_Unlocked(r) ==
  /\ cpc[r] = "remove"
  /\ LET h == chandler[r]
         s == <<r, conns[h][r]>>
     IN  IF conns[h][r] = 0 THEN UNCHANGED handlerVars
         ELSE /\ connected_' = connected_ \ {s}
              /\ slots_' = [slots_ EXCEPT ![h][form[r]] = @ \ {s}]
              /\ conns' = [conns EXCEPT ![h][r] = 0]
  /\ cpc' = [cpc EXCEPT ![r] = "idle"]
  /\ UNCHANGED <<is_shutdown_, msg_listeners_, made, segment, form, chandler,
                 connects, threadVars, spc, overlapped>>

(* ListenerHandler::Disconnect: nothing if the handler has no connection   *)
(* of the receiver, else the slot is disconnected and dropped.             *)
Disconnect(r) ==
  /\ cpc[r] = "remove" /\ HandlerFree(chandler[r])
  /\ LET h == chandler[r]
         s == <<r, conns[h][r]>>
     IN  IF conns[h][r] = 0 THEN UNCHANGED handlerVars
         ELSE /\ connected_' = connected_ \ {s}
              /\ slots_' = [slots_ EXCEPT ![h][form[r]] = @ \ {s}]
              /\ conns' = [conns EXCEPT ![h][r] = 0]
  /\ cpc' = [cpc EXCEPT ![r] = "idle"]
  /\ UNCHANGED <<is_shutdown_, msg_listeners_, made, segment, form, chandler,
                 connects, threadVars, spc, overlapped>>

-----------------------------------------------------------------------------
(* The dispatcher's thread *)

ThreadFrame == UNCHANGED <<is_shutdown_, msg_listeners_, made, conns, connected_,
                           segment, clientVars, spc, overlapped>>

(* ThreadFunc: it ends with the flag; else it listens.  When Listen has    *)
(* nothing, or something of another host or of a channel without segment,  *)
(* it starts again; else it keeps the lock of the segments (what it notes  *)
(* in previous_indexes_ is only logged).                                   *)
ThreadFunc ==
  /\ dpc = "listen"
  /\ \/ is_shutdown_ /\ dpc' = "ended" /\ UNCHANGED msgs
     \/ ~is_shutdown_ /\ segment /\ msgs < MaxMsgs /\ dpc' = "read" /\ msgs' = msgs + 1
  /\ ThreadFrame /\ UNCHANGED <<slots_, dhandler, dform, todo, slot>>

(* ReadMessage: the block cannot be locked for reading, or what follows the *)
(* message is not a MessageInfo, and the message is dropped; else OnMessage *)
(* is called.                                                              *)
ReadMessage ==
  /\ dpc = "read" /\ dpc' \in {"listen", "check"}
  /\ ThreadFrame /\ UNCHANGED <<slots_, dhandler, dform, todo, slot, msgs>>

(* OnMessage: the flag again, *)
OnMessage ==
  /\ dpc = "check" /\ dpc' = IF is_shutdown_ THEN "listen" ELSE "get"
  /\ ThreadFrame /\ UNCHANGED <<slots_, dhandler, dform, todo, slot, msgs>>

(* ... and the handler of the channel. *)
GetHandler ==
  /\ dpc = "get"
  /\ dhandler' = msg_listeners_ /\ dform' = "all"
  /\ dpc' = IF msg_listeners_ = 0 THEN "listen" ELSE "copy"
  /\ ThreadFrame /\ UNCHANGED <<slots_, todo, slot, msgs>>

(* Signal::operator() copies the list of slots; for the second signal Run  *)
(* has taken rw_lock_ for reading.                                         *)
CopySlots ==
  /\ dpc = "copy" /\ todo' = slots_[dhandler][dform] /\ dpc' = "each"
  /\ ThreadFrame /\ UNCHANGED <<slots_, dhandler, dform, slot, msgs>>

(* Slot::operator(): connected_ is tested, and then the callback called. *)
TestSlot ==
  /\ dpc = "each"
  /\ IF todo = {} THEN dpc' = "clear" /\ UNCHANGED <<todo, slot>>
     ELSE \E s \in todo :
            /\ todo' = todo \ {s}
            /\ IF s \in connected_ THEN slot' = s /\ dpc' = "call" ELSE UNCHANGED <<slot, dpc>>
  /\ ThreadFrame /\ UNCHANGED <<slots_, dhandler, dform, msgs>>

(* The listener's adapter parses the message and calls the receiver.       *)
Callback ==
  /\ dpc = "call" /\ slot' = NoSlot /\ dpc' = "each"
  /\ ThreadFrame /\ UNCHANGED <<slots_, dhandler, dform, todo, msgs>>

(* ClearDisconnectedSlots; after signal_ comes the signal of the opposite. *)
ClearSlots ==
  /\ dpc = "clear"
  /\ slots_' = [slots_ EXCEPT ![dhandler][dform] = @ \cap connected_]
  /\ \/ dform = "all" /\ dform' = "one" /\ dpc' = "copy"
     \/ dform = "one" /\ dpc' = "listen" /\ UNCHANGED dform
  /\ ThreadFrame /\ UNCHANGED <<dhandler, todo, slot, msgs>>

-----------------------------------------------------------------------------
(* Shutdown sets the flag, joins the thread and drops the segments. *)
Shutdown ==
  /\ spc = "no" /\ is_shutdown_' = TRUE /\ spc' = "join"
  /\ UNCHANGED <<msg_listeners_, made, handlerVars, segment, clientVars,
                 threadVars, overlapped>>

JoinThread ==
  /\ spc = "join" /\ dpc = "ended" /\ spc' = "clear"
  /\ UNCHANGED <<is_shutdown_, msg_listeners_, made, handlerVars, segment, clientVars,
                 threadVars, overlapped>>

ClearSegments ==
  /\ spc = "clear" /\ segment' = FALSE /\ spc' = "done"
  /\ UNCHANGED <<is_shutdown_, msg_listeners_, made, handlerVars, clientVars,
                 threadVars, overlapped>>

ThreadStep ==
  \/ ThreadFunc \/ ReadMessage \/ OnMessage \/ GetHandler \/ CopySlots \/ TestSlot
  \/ Callback \/ ClearSlots

Next ==
  \/ \E r \in Receivers :
       \/ AddListener(r) \/ SetHandler(r) \/ Connect(r) \/ StoreConnection(r)
       \/ AddSegment(r) \/ RemoveListener(r) \/ Disconnect(r)
  \/ ThreadStep
  \/ Shutdown \/ JoinThread \/ ClearSegments

Spec == Init /\ [][Next]_vars

-----------------------------------------------------------------------------
(* Properties *)

(* Once RemoveListener has returned, a receiver that listens to one        *)
(* transmitter is not called and is in no call: its owner may destroy it.  *)
(* (For a receiver that listens to all there is no such promise: signal_   *)
(* runs without the lock.)  The exception is a handler that was replaced   *)
(* when two receivers were the first of the channel.                       *)
QuietAfterRemove ==
  ~overlapped =>
    \A r \in Receivers :
      cpc[r] = "idle" /\ form[r] = "one" /\ ~is_shutdown_ =>
        ~(dpc = "call" /\ slot[1] = r)

(* A receiver whose AddListener has returned is called with the next       *)
(* message, with the same exception.                                       *)
AddedIsServed ==
  ~overlapped /\ ~is_shutdown_ =>
    \A r \in Receivers : cpc[r] = "added" =>
      /\ msg_listeners_ # 0 /\ segment
      /\ <<r, connects[r]>> \in slots_[msg_listeners_][form[r]] \cap connected_

(* OnMessage finds a handler ("Cannot find ... handler" is never logged):  *)
(* AddListener sets it before it adds the segment.                         *)
HandlerFound == dpc = "get" => msg_listeners_ # 0

(* When Shutdown has returned nobody is called any more. *)
QuietAfterShutdown == spc \in {"clear", "done"} => dpc = "ended"
=============================================================================
