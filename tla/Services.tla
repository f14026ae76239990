------------------------------ MODULE Services ------------------------------
(***************************************************************************)
(* service/client.h and service/service.h, with the parameter server and   *)
(* client (parameter/) as the service: each of its services "get", "set"   *)
(* and "list" has a request channel, a queue and a thread of its own, and  *)
(* all share the parameter map.  Requests and responses go over RTPS with  *)
(* QOS_PROFILE_SERVICES_DEFAULT: reliable and in order, the last Depth     *)
(* unsent ones kept, and sent again to a receiver that appears later, as a *)
(* restarted server does.  Responses go to every client of the service.    *)
(*                                                                         *)
(* There is one parameter; its value is the number of Sets carried out.    *)
(* ~ParameterServer destroys the map before the services (the order of the *)
(* members, parameter_server.h:83-89); here the map outlives the threads.  *)
(***************************************************************************)
EXTENDS Naturals, Sequences, FiniteSets

CONSTANTS
  Clients,      \* client processes, each with one thread that makes calls
  Kinds,        \* the services: a subset of {"get", "set", "list"}
  None,
  Depth,        \* depth of QOS_PROFILE_SERVICES_DEFAULT
  MaxCalls,     \* bound: calls
  MaxRestarts   \* bound: restarts of the server

ServicesConstants ==
  Kinds \subseteq {"get", "set", "list"} /\ Depth \in Nat \ {0} /\ MaxCalls \in Nat /\ MaxRestarts \in Nat

VARIABLES
  sequence_number_, pending_requests_,  \* of each client's Client of each service
  call,        \* the call a client's thread waits for, or None
  floor,       \* history: acked when that call was made
  requests,    \* requests on the way, and
  sent,        \*   those its transmitter keeps for late receivers
  responses,   \* responses on the way to each client
  tasks_, inited_, thread, handling,  \* of each Service
  destroying,  \* how far its destroy() has come
  param_map_,  \* the value of the parameter, or None
  is_shutdown, restarts,
  acked        \* history: the newest value acknowledged while the first server runs

vars == <<sequence_number_, pending_requests_, call, floor, requests, sent, responses,
          tasks_, inited_, thread, handling, destroying, param_map_, is_shutdown,
          acked, restarts>>

client == <<sequence_number_, pending_requests_, call, floor, acked>>
net == <<requests, sent, responses>>
service == <<tasks_, inited_, thread, handling, destroying, param_map_,
             is_shutdown, restarts>>

Ends == Clients \X Kinds

Init ==
  /\ sequence_number_ = [e \in Ends |-> 0] /\ pending_requests_ = [e \in Ends |-> {}]
  /\ call = [c \in Clients |-> None] /\ floor = [c \in Clients |-> 0]
  /\ requests = [e \in Ends |-> <<>>] /\ sent = [e \in Ends |-> <<>>]
  /\ responses = [e \in Ends |-> <<>>]
  /\ tasks_ = [k \in Kinds |-> <<>>] /\ inited_ = [k \in Kinds |-> TRUE]
  /\ thread = [k \in Kinds |-> "top"]
  /\ handling = [k \in Kinds |-> None] /\ destroying = [k \in Kinds |-> "no"]
  /\ param_map_ = None /\ is_shutdown = FALSE /\ acked = 0 /\ restarts = 0

-----------------------------------------------------------------------------
(* The client *)

(* What RTPS keeps of s behind m. *)
KeepLast(s, m) == IF Len(s) < Depth THEN Append(s, m) ELSE Append(Tail(s), m)

(* SendRequest up to the wait: AsyncSendRequest transmits the request and  *)
(* enters it, both with pending_requests_mutex_.                           *)
AsyncSendRequest(c, k) ==
  LET e == <<c, k>>
      m == [from |-> c, seq |-> sequence_number_[e] + 1]
  IN /\ call[c] = None
     /\ Cardinality({n \in Ends \X (1 .. MaxCalls) : n[2] <= sequence_number_[n[1]]}) < MaxCalls
     /\ sequence_number_' = [sequence_number_ EXCEPT ![e] = @ + 1]
     /\ requests' = [requests EXCEPT ![e] = KeepLast(@, m)]
     /\ sent' = [sent EXCEPT ![e] = KeepLast(@, m)]
     /\ pending_requests_' = [pending_requests_ EXCEPT ![e] = @ \cup {m.seq}]
     /\ call' = [call EXCEPT ![c] = [kind |-> k, seq |-> m.seq]]
     /\ floor' = [floor EXCEPT ![c] = acked]
     /\ UNCHANGED <<acked, responses, service>>

(* wait_for runs out: the call fails, its entry stays. *)
TimeOut(c) ==
  /\ call[c] # None
  /\ call' = [call EXCEPT ![c] = None] /\ floor' = [floor EXCEPT ![c] = 0]
  /\ UNCHANGED <<sequence_number_, pending_requests_, acked, net, service>>

(* Mutant: spare_id is not compared. *)
Awaited_AnyClient(c, k, r) == r.seq \in pending_requests_[<<c, k>>]

(* The response is one that this client waits for. *)
Awaited(c, k, r) == r.to = c /\ r.seq \in pending_requests_[<<c, k>>]

(* A thread waits for the promise that the response is to set. *)
Wakes(c, k, r) == Awaited(c, k, r) /\ call[c] = [kind |-> k, seq |-> r.seq]

(* HandleResponse sets the promise; a thread that waits for it returns. *)
HandleResponse(c, k) ==
  LET e == <<c, k>>
      r == Head(responses[e])
  IN /\ responses[e] # <<>>
     /\ responses' = [responses EXCEPT ![e] = Tail(@)]
     /\ \/ /\ Awaited(c, k, r)
           /\ pending_requests_' = [pending_requests_ EXCEPT ![e] = @ \ {r.seq}]
           /\ IF Wakes(c, k, r) THEN /\ call' = [call EXCEPT ![c] = None]
                                     /\ floor' = [floor EXCEPT ![c] = 0]
                                     /\ acked' = IF k = "set" /\ restarts = 0 THEN r.value ELSE acked
                                ELSE UNCHANGED <<call, floor, acked>>
        \/ ~Awaited(c, k, r) /\ UNCHANGED <<pending_requests_, call, floor, acked>>
     /\ UNCHANGED <<sequence_number_, requests, sent, service>>

-----------------------------------------------------------------------------
(* The service *)

(* queue_mutex_: the thread has it from the predicate until it sleeps. *)
QueueFree(k) == thread[k] # "sleep"

(* The receiver's callback: Enqueue and notify_one. *)
Enqueue(c, k) ==
  LET e == <<c, k>> IN
  /\ requests[e] # <<>> /\ QueueFree(k) /\ destroying[k] # "gone"
  /\ requests' = [requests EXCEPT ![e] = Tail(@)]
  /\ tasks_' = [tasks_ EXCEPT ![k] = Append(@, Head(requests[e]))]
  /\ thread' = [thread EXCEPT ![k] = IF @ = "asleep" THEN "wait" ELSE @]
  /\ UNCHANGED <<client, sent, responses, inited_, handling, destroying,
                 param_map_, is_shutdown, restarts>>

(* Process: the loop's condition, the lock, and the predicate of the wait. *)
ProcessLoop(k) ==
  /\ thread[k] \in {"top", "wait"}
  /\ IF (thread[k] = "top" /\ is_shutdown) \/ ~inited_[k]
     THEN thread' = [thread EXCEPT ![k] = "done"] /\ UNCHANGED <<tasks_, handling>>
     ELSE IF tasks_[k] = <<>>
     THEN thread' = [thread EXCEPT ![k] = "sleep"] /\ UNCHANGED <<tasks_, handling>>
     ELSE /\ thread' = [thread EXCEPT ![k] = "task"]
          /\ handling' = [handling EXCEPT ![k] = Head(tasks_[k])]
          /\ tasks_' = [tasks_ EXCEPT ![k] = Tail(@)]
  /\ UNCHANGED <<client, net, inited_, destroying, param_map_, is_shutdown, restarts>>

(* The wait gives the lock back. *)
ProcessSleep(k) ==
  /\ thread[k] = "sleep" /\ thread' = [thread EXCEPT ![k] = "asleep"]
  /\ UNCHANGED <<client, net, tasks_, inited_, handling, destroying, param_map_,
                 is_shutdown, restarts>>

(* What the callbacks of the ParameterServer do to the map. *)
GetParameterCallback == param_map_
SetParameterCallback == IF param_map_ = None THEN 1 ELSE param_map_ + 1
ListParametersCallback == param_map_
ServiceCallback(k) ==
  CASE k = "get" -> GetParameterCallback
    [] k = "set" -> SetParameterCallback
    [] k = "list" -> ListParametersCallback

(* HandleRequest: the callback, and the response to all clients. *)
HandleRequest(k) ==
  LET m == handling[k] IN
  /\ thread[k] = "task" /\ thread' = [thread EXCEPT ![k] = "top"]
  /\ param_map_' = ServiceCallback(k)
  /\ responses' = [e \in Ends |-> IF e[2] = k
       THEN KeepLast(responses[e], [to |-> m.from, seq |-> m.seq, value |-> param_map_'])
       ELSE responses[e]]
  /\ handling' = [handling EXCEPT ![k] = None]
  /\ UNCHANGED <<client, requests, sent, tasks_, inited_, destroying,
                 is_shutdown, restarts>>

(* The members of a ParameterServer are destroyed in this order. *)
DestroyedBefore == [get |-> {"set", "list"}, set |-> {"list"}, list |-> {}]

(* destroy: the flag without the lock, the queue with it, then the         *)
(* notification and the join.                                              *)
DestroyFlag(k) ==
  /\ destroying[k] = "no" /\ destroying' = [destroying EXCEPT ![k] = "clear"]
  /\ \A j \in DestroyedBefore[k] \cap Kinds : destroying[j] = "gone"
  /\ inited_' = [inited_ EXCEPT ![k] = FALSE]
  /\ UNCHANGED <<client, net, tasks_, thread, handling, param_map_, is_shutdown,
                 restarts>>

(* Mutant: the queue is cleared without the lock. *)
DestroyClear_Unlocked(k) ==
  /\ destroying[k] = "clear" /\ destroying' = [destroying EXCEPT ![k] = "notify"]
  /\ tasks_' = [tasks_ EXCEPT ![k] = <<>>]
  /\ UNCHANGED <<client, net, inited_, thread, handling, param_map_,
                 is_shutdown, restarts>>

DestroyClear(k) ==
  /\ destroying[k] = "clear" /\ destroying' = [destroying EXCEPT ![k] = "notify"]
  /\ QueueFree(k)
  /\ tasks_' = [tasks_ EXCEPT ![k] = <<>>]
  /\ UNCHANGED <<client, net, inited_, thread, handling, param_map_,
                 is_shutdown, restarts>>

DestroyNotify(k) ==
  /\ destroying[k] = "notify" /\ destroying' = [destroying EXCEPT ![k] = "join"]
  /\ thread' = [thread EXCEPT ![k] = IF @ = "asleep" THEN "wait" ELSE @]
  /\ UNCHANGED <<client, net, tasks_, inited_, handling, param_map_,
                 is_shutdown, restarts>>

DestroyJoin(k) ==
  /\ destroying[k] = "join" /\ thread[k] = "done"
  /\ destroying' = [destroying EXCEPT ![k] = "gone"]
  /\ UNCHANGED <<client, net, tasks_, inited_, thread, handling, param_map_,
                 is_shutdown, restarts>>

(* cyber::IsShutdown() becomes true in the server's process. *)
Shutdown ==
  /\ ~is_shutdown /\ is_shutdown' = TRUE
  /\ UNCHANGED <<client, net, tasks_, inited_, thread, handling, destroying,
                 param_map_, restarts>>

(* The server's process dies and another takes its place: Init of each     *)
(* Service.  The clients' transmitters send it what they still keep.       *)
Restart ==
  /\ restarts < MaxRestarts /\ restarts' = restarts + 1
  /\ requests' = sent
  /\ tasks_' = [k \in Kinds |-> <<>>] /\ inited_' = [k \in Kinds |-> TRUE]
  /\ thread' = [k \in Kinds |-> "top"]
  /\ handling' = [k \in Kinds |-> None] /\ destroying' = [k \in Kinds |-> "no"]
  /\ param_map_' = None /\ is_shutdown' = FALSE
  /\ acked' = 0 /\ floor' = [c \in Clients |-> 0]
  /\ UNCHANGED <<sequence_number_, pending_requests_, call, sent, responses>>

Next ==
  \/ \E c \in Clients, k \in Kinds : AsyncSendRequest(c, k) \/ HandleResponse(c, k) \/ Enqueue(c, k)
  \/ \E c \in Clients : TimeOut(c)
  \/ \E k \in Kinds : \/ ProcessLoop(k) \/ ProcessSleep(k) \/ HandleRequest(k)
                      \/ DestroyFlag(k) \/ DestroyClear(k) \/ DestroyNotify(k) \/ DestroyJoin(k)
  \/ Shutdown \/ Restart

Spec == Init /\ [][Next]_vars

-----------------------------------------------------------------------------
(* Properties *)

(* The response that wakes a thread is the answer to its own request,      *)
(* never a late answer to one that timed out or to another client's; and   *)
(* while the server is not restarted, GetParameter sees every SetParameter *)
(* that returned true before it was called.                                *)
AnswersOwnCall ==
  \A c \in Clients, k \in Kinds : responses[<<c, k>>] # <<>> =>
    LET r == Head(responses[<<c, k>>]) IN
    Wakes(c, k, r) => /\ r.to = c /\ r.seq = sequence_number_[<<c, k>>]
                      /\ floor[c] > 0 => r.value # None /\ r.value >= floor[c]

(* destroy() never joins a thread that nobody will wake. *)
DestroyWakes == \A k \in Kinds : destroying[k] = "join" => thread[k] # "asleep"
=============================================================================
