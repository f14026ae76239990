--------------------------- MODULE IntraDispatcher ---------------------------
(***************************************************************************)
(* IntraDispatcher with its ChannelChain (transport/dispatcher/            *)
(* intra_dispatcher.h), for one channel and one transmitter of the same    *)
(* process.  The receivers of a channel may want the message in different  *)
(* types, one receiver for each type (node/reader_base.h shares it).  The  *)
(* chain has a handler for each type.  In front of it msg_listeners_ has   *)
(* one handler, of the type that came first; a wrapper connected to that   *)
(* handler passes the message on to the chain, which calls every handler   *)
(* of it, directly or over a string.  The listeners without an opposite    *)
(* go the same way through a chain of their own.                           *)
(***************************************************************************)
EXTENDS Naturals

CONSTANTS
  Receivers,  \* one for each message type, and the types themselves
  None,
  MaxMsgs,    \* bound: messages transmitted
  MaxAdds     \* bound: how often a receiver adds its listener

IntraDispatcherConstants == None \notin Receivers /\ {MaxMsgs, MaxAdds} \subseteq Nat

VARIABLES
  is_shutdown_,
  chain,        \* oppo_handlers_: the types with a handler, each with its receiver
  outer,        \* msg_listeners_: the type of the channel's handler, or None
  wrapped,      \* the types whose handler of msg_listeners_ has the wrapper
  cpc,          \* where receiver r's thread is
  created,      \* created[r]: local of AddListener, FALSE outside of it
  adds,
  mpc, handler, \* where the transmitting thread is, and the handler it has
  called,       \* the receivers whose listeners it calls
  msgs

vars == <<is_shutdown_, chain, outer, wrapped, cpc, created, adds, mpc, handler,
          called, msgs>>

clientVars == <<cpc, created, adds>>
messageVars == <<mpc, handler, called, msgs>>

TypeOK ==
  /\ is_shutdown_ \in BOOLEAN
  /\ chain \subseteq Receivers /\ outer \in Receivers \cup {None} /\ wrapped \subseteq Receivers
  /\ cpc \in [Receivers -> {"idle", "get", "set", "connect", "added", "remove"}]
  /\ created \in [Receivers -> BOOLEAN] /\ adds \in [Receivers -> 0 .. MaxAdds]
  /\ mpc \in {"idle", "get", "run", "calls"} /\ handler \in Receivers \cup {None}
  /\ called \subseteq Receivers /\ msgs \in 0 .. MaxMsgs

Init ==
  /\ is_shutdown_ = FALSE /\ chain = {} /\ outer = None /\ wrapped = {}
  /\ cpc = [r \in Receivers |-> "idle"] /\ created = [r \in Receivers |-> FALSE]
  /\ adds = [r \in Receivers |-> 0]
  /\ mpc = "idle" /\ handler = None /\ called = {} /\ msgs = 0

Become(r, pc) == cpc' = [cpc EXCEPT ![r] = pc]

(* oppo_rw_lock_ is held for reading while the chain runs, and rw_lock_ of *)
(* handler h while its wrapper does.                                       *)
ChainFree == mpc # "calls"
HandlerFree(h) == ~(mpc = "calls" /\ handler = h)

-----------------------------------------------------------------------------
(* AddListener *)

(* IntraReceiver::Enable and Disable pass an enabled and a disabled        *)
(* receiver by.                                                            *)
MayEnable(r) == cpc[r] = "idle" /\ adds[r] < MaxAdds
MayDisable(r) == cpc[r] = "added"

(* ChannelChain::AddListener: a handler for the type unless there is one,  *)
(* and the receiver connected to it.                                       *)
AddListener(r) ==
  /\ MayEnable(r) /\ ~is_shutdown_ /\ ChainFree
  /\ created' = [created EXCEPT ![r] = r \notin chain]
  /\ chain' = chain \cup {r}
  /\ adds' = [adds EXCEPT ![r] = @ + 1]
  /\ Become(r, "get")
  /\ UNCHANGED <<is_shutdown_, outer, wrapped, messageVars>>

(* GetHandler: the handler of the channel counts if it has the type. *)
GetHandler(r) ==
  /\ cpc[r] = "get"
  /\ Become(r, IF outer = None THEN "set" ELSE IF outer = r THEN "connect" ELSE "added")
  /\ created' = [created EXCEPT ![r] = @ /\ outer \in {None, r}]
  /\ UNCHANGED <<is_shutdown_, chain, outer, wrapped, adds, messageVars>>

SetHandler(r) ==
  /\ cpc[r] = "set"
  /\ outer' = r
  /\ Become(r, "connect")
  /\ UNCHANGED <<is_shutdown_, chain, wrapped, created, adds, messageVars>>

(* The wrapper is connected by the receiver that made the chain's handler. *)
ConnectWrapper(r) ==
  /\ cpc[r] = "connect" /\ HandlerFree(r)
  /\ wrapped' = IF created[r] THEN wrapped \cup {r} ELSE wrapped
  /\ created' = [created EXCEPT ![r] = FALSE]
  /\ Become(r, "added")
  /\ UNCHANGED <<is_shutdown_, chain, outer, adds, messageVars>>

-----------------------------------------------------------------------------
(* RemoveListener *)

(* Dispatcher::RemoveListener disconnects from the handler of the channel, *)
RemoveListener(r) ==
  /\ MayDisable(r)
  /\ IF is_shutdown_ THEN Become(r, "idle") /\ UNCHANGED wrapped
     ELSE /\ outer = r => HandlerFree(r)
          /\ wrapped' = IF outer = r THEN wrapped \ {r} ELSE wrapped
          /\ Become(r, "remove")
  /\ UNCHANGED <<is_shutdown_, chain, outer, created, adds, messageVars>>

(* Mutant: the chain keeps the handler. *)
RemoveFromChain_Kept(r) ==
  /\ cpc[r] = "remove" /\ ChainFree
  /\ UNCHANGED chain
  /\ Become(r, "idle")
  /\ UNCHANGED <<is_shutdown_, outer, wrapped, created, adds, messageVars>>

(* ... and ChannelChain::RemoveListener drops the handler of the type. *)
RemoveFromChain(r) ==
  /\ cpc[r] = "remove" /\ ChainFree
  /\ chain' = chain \ {r}
  /\ Become(r, "idle")
  /\ UNCHANGED <<is_shutdown_, outer, wrapped, created, adds, messageVars>>

-----------------------------------------------------------------------------
(* IntraTransmitter::Transmit calls OnMessage, in the sender's thread. *)
OnMessage ==
  /\ mpc = "idle" /\ msgs < MaxMsgs
  /\ msgs' = msgs + 1 /\ mpc' = IF is_shutdown_ THEN "idle" ELSE "get"
  /\ UNCHANGED <<is_shutdown_, chain, outer, wrapped, clientVars, handler, called>>

FindHandler ==
  /\ mpc = "get" /\ handler' = outer
  /\ mpc' = IF outer = None THEN "idle" ELSE "run"
  /\ UNCHANGED <<is_shutdown_, chain, outer, wrapped, clientVars, called, msgs>>

(* ListenerHandler::Run, the wrapper and ChannelChain::Run: each handler   *)
(* of the chain has its turn, under the locks.                             *)
RunChain ==
  /\ mpc = "run"
  /\ IF handler \in wrapped THEN mpc' = "calls" /\ called' = chain /\ UNCHANGED handler
     ELSE mpc' = "idle" /\ handler' = None /\ UNCHANGED called
  /\ UNCHANGED <<is_shutdown_, chain, outer, wrapped, clientVars, msgs>>

ChainDone ==
  /\ mpc = "calls" /\ mpc' = "idle" /\ called' = {} /\ handler' = None
  /\ UNCHANGED <<is_shutdown_, chain, outer, wrapped, clientVars, msgs>>

(* Dispatcher::Shutdown. *)
Shutdown ==
  /\ is_shutdown_' = TRUE
  /\ UNCHANGED <<chain, outer, wrapped, clientVars, messageVars>>

Next ==
  \/ \E r \in Receivers :
       \/ AddListener(r) \/ GetHandler(r) \/ SetHandler(r) \/ ConnectWrapper(r)
       \/ RemoveListener(r) \/ RemoveFromChain(r)
  \/ OnMessage \/ FindHandler \/ RunChain \/ ChainDone \/ Shutdown

Spec == Init /\ [][Next]_vars

-----------------------------------------------------------------------------
(* Properties *)

(* Every receiver that has added its listener is reached through the       *)
(* channel's handler, as long as the receiver whose type that handler has  *)
(* is there too.  (When it leaves, its wrapper goes with it, and the       *)
(* receivers of other types get nothing until it comes back.)              *)
ReachedWhileFirstStays ==
  \A r \in Receivers :
    cpc[r] = "added" /\ outer # None /\ cpc[outer] = "added" /\ ~is_shutdown_ =>
      r \in chain /\ outer \in wrapped

(* A receiver that has left is not called any more, and nobody is called   *)
(* without having added a listener.                                        *)
QuietAfterRemove ==
  ~is_shutdown_ => \A r \in called : cpc[r] # "idle"
=============================================================================
