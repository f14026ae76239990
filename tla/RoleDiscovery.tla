---------------------------- MODULE RoleDiscovery ----------------------------
(***************************************************************************)
(* How the processes of a domain learn of each other's nodes, servers and  *)
(* clients: the base class Manager (service_discovery/specific_manager/    *)
(* manager.cc) with its two table-keeping subclasses NodeManager and       *)
(* ServiceManager, and the part of TopologyManager that reacts to a        *)
(* participant's departure.  One instance models one manager class, that   *)
(* is one topic, in every process; ChannelManager has its own module.      *)
(*                                                                         *)
(* Three threads of a process work on its table: "user" (Join and Leave,   *)
(* from constructors and destructors of nodes, services and clients),      *)
(* "sub" (OnRemoteChange, called by the subscriber's listener, which holds *)
(* a mutex), and "part" (OnTopoModuleLeave, called by the participant's    *)
(* listener).  Nothing else orders them: only single warehouse operations  *)
(* are indivisible.                                                        *)
(*                                                                         *)
(* The middleware (external): topology topics are reliable, keep-all and   *)
(* transient-local, so each process receives each publisher's messages in  *)
(* order and none is lost while the publisher lives; nothing orders the    *)
(* messages of two publishers.  A process that starts late receives the    *)
(* history, like one that is slow.  When a participant goes, its pending   *)
(* samples are discarded and then the participant listeners are called.    *)
(***************************************************************************)
EXTENDS Warehouse, Naturals, Sequences, FiniteSets

CONSTANTS
  Procs,    \* the processes (host name and process id)
  Roles,    \* the roles that may join, each at most once
  Stamps,   \* the timestamps Time::Now() may return; hosts' clocks differ
  MaxDown   \* how many processes may go

RoleDiscoveryConstants ==
  /\ Stamps \subseteq Nat \ {0}
  /\ MaxDown \in Nat
  /\ \A r \in Roles : r.proc \in Procs /\ r.type \in {"node", "server", "client"}

VARIABLES
  status,    \* of each role: "new", "joined" or "left"
  stamp,     \* timestamp of each role's JOIN message, 0 before
  up,        \* the processes that run
  told,      \* the processes that called AsyncShutdown on themselves
  single,    \* each process's nodes_ or servers_
  clients,   \* each process's clients_
  inbox,     \* inbox[p][q]: q's messages that p has not received
  dropped,   \* dropped[p]: the departed processes p has been told of
  thread,    \* each process's threads: what they are doing
  overlapped \* history: overlapped[p], departures handled during a JOIN

vars == <<status, stamp, up, told, single, clients, inbox, dropped, thread,
          overlapped>>

Threads == {"user", "sub", "part"}

KeyOf(r) == IF r.type = "node" THEN r.node ELSE r.name

Keys == {KeyOf(r) : r \in Roles}

Msg == [opt : {"join", "leave"}, role : Roles]

Idle == [pc |-> "idle"]

At(p, t, pc) == p \in up /\ thread[p][t].pc = pc

Become(p, t, new) == thread' = [thread EXCEPT ![p][t] = new]

(* Disposing of a message is over: the user's thread goes on to Publish. *)
Disposed(p, t) ==
  Become(p, t, IF t = "user" THEN [thread[p][t] EXCEPT !.pc = "publish"] ELSE Idle)

TypeOK ==
  /\ status \in [Roles -> {"new", "joined", "left"}]
  /\ stamp \in [Roles -> Stamps \cup {0}]
  /\ up \subseteq Procs /\ told \subseteq Procs
  /\ single \in [Procs -> [Keys -> Roles \cup {NoRole}]]
  /\ clients \in [Procs -> SUBSET (Keys \X Roles)]
  /\ \A p, q \in Procs : \A i \in DOMAIN inbox[p][q] : inbox[p][q][i] \in Msg
  /\ dropped \in [Procs -> SUBSET Procs] /\ overlapped \in [Procs -> SUBSET Procs]
  /\ \A p \in Procs, t \in Threads :
       thread[p][t].pc \in {"idle", "add", "search", "decide", "remove",
                            "publish", "found", "clients"}

Init ==
  /\ status = [r \in Roles |-> "new"]
  /\ stamp = [r \in Roles |-> 0]
  /\ up = Procs /\ told = {}
  /\ single = [p \in Procs |-> SingleEmpty(Keys)]
  /\ clients = [p \in Procs |-> {}]
  /\ inbox = [p \in Procs |-> [q \in Procs |-> <<>>]]
  /\ dropped = [p \in Procs |-> {}]
  /\ thread = [p \in Procs |-> [t \in Threads |-> Idle]]
  /\ overlapped = [p \in Procs |-> {}]

-----------------------------------------------------------------------------
(* Manager: Join, Leave, OnRemoteChange, Publish *)

(* Join: Convert stamps the message, then Dispose. *)
Join(r, s) ==
  /\ status[r] = "new" /\ At(r.proc, "user", "idle")
  /\ status' = [status EXCEPT ![r] = "joined"]
  /\ stamp' = [stamp EXCEPT ![r] = s]
  /\ Become(r.proc, "user", [pc |-> "add", opt |-> "join", role |-> r])
  /\ UNCHANGED <<up, told, single, clients, inbox, dropped, overlapped>>

Leave(r) ==
  /\ status[r] = "joined" /\ At(r.proc, "user", "idle")
  /\ status' = [status EXCEPT ![r] = "left"]
  /\ Become(r.proc, "user", [pc |-> "remove", opt |-> "leave", role |-> r])
  /\ UNCHANGED <<stamp, up, told, single, clients, inbox, dropped, overlapped>>

(* Publish, the last step of Join and of Leave.  (publisher_ is not null   *)
(* while the process runs: only StopDiscovery clears it.)                  *)
Publish(p) ==
  /\ At(p, "user", "publish")
  /\ LET msg == [opt |-> thread[p]["user"].opt, role |-> thread[p]["user"].role]
     IN  inbox' = [q \in Procs |->
           IF q \in up \ {p} THEN [inbox[q] EXCEPT ![p] = Append(@, msg)] ELSE inbox[q]]
  /\ Become(p, "user", Idle)
  /\ UNCHANGED <<status, stamp, up, told, single, clients, dropped, overlapped>>

(* OnRemoteChange.  The messages of the process itself, which it drops,    *)
(* are not put into its inbox.                                             *)
OnRemoteChange(p, q) ==
  /\ At(p, "sub", "idle") /\ inbox[p][q] # <<>>
  /\ LET msg == Head(inbox[p][q])
     IN  Become(p, "sub", [pc |-> IF msg.opt = "join" THEN "add" ELSE "remove",
                           opt |-> msg.opt, role |-> msg.role])
  /\ inbox' = [inbox EXCEPT ![p][q] = Tail(@)]
  /\ UNCHANGED <<status, stamp, up, told, single, clients, dropped, overlapped>>

-----------------------------------------------------------------------------
(* NodeManager and ServiceManager: DisposeJoin, DisposeLeave *)

(* Mutant: the comparison is the wrong way round. *)
IsEarlierThan_Swapped(r, other) == stamp[other] < stamp[r]

IsEarlierThan(r, other) == stamp[r] < stamp[other]

(* The first warehouse call of DisposeJoin: nodes_.Add(key, node, false),  *)
(* servers_.Add (which replaces) or clients_.Add.                          *)
DisposeJoinAdd(p, t) ==
  /\ At(p, t, "add")
  /\ LET r == thread[p][t].role
     IN  \/ /\ r.type = "node" /\ SingleHas(single[p], KeyOf(r))
            /\ Become(p, t, [thread[p][t] EXCEPT !.pc = "search"])
            /\ UNCHANGED <<single, clients>>
         \/ /\ IF r.type = "node" THEN ~SingleHas(single[p], KeyOf(r)) ELSE r.type = "server"
            /\ single' = [single EXCEPT ![p] = SingleAdd(@, KeyOf(r), r)]
            /\ Disposed(p, t)
            /\ UNCHANGED clients
         \/ /\ r.type = "client"
            /\ clients' = [clients EXCEPT ![p] = MultiAdd(@, KeyOf(r), r)]
            /\ Disposed(p, t)
            /\ UNCHANGED single
  /\ UNCHANGED <<status, stamp, up, told, inbox, dropped, overlapped>>

(* The duplicate is looked up again, under a second lock: if it has gone   *)
(* meanwhile the node is added after all.                                  *)
DisposeJoinSearch(p, t) ==
  /\ At(p, t, "search")
  /\ LET r == thread[p][t].role
         existing == single[p][KeyOf(r)]
     IN  IF existing = NoRole
         THEN /\ single' = [single EXCEPT ![p] = SingleAdd(@, KeyOf(r), r)]
              /\ Disposed(p, t)
         ELSE /\ Become(p, t, [pc |-> "decide", opt |-> thread[p][t].opt,
                               role |-> r, existing |-> existing])
              /\ UNCHANGED single
  /\ UNCHANGED <<status, stamp, up, told, clients, inbox, dropped, overlapped>>

(* The earlier of the two stays in the table; if the newer one is of this  *)
(* process, the process shuts itself down.                                 *)
DisposeJoinDecide(p, t) ==
  /\ At(p, t, "decide")
  /\ LET r == thread[p][t].role
         existing == thread[p][t].existing
         newer == IF IsEarlierThan(r, existing) THEN existing ELSE r
     IN  /\ single' = IF newer = r THEN single
                      ELSE [single EXCEPT ![p] = SingleAdd(@, KeyOf(r), r)]
         /\ told' = told \cup ({newer.proc} \cap {p})
  /\ Become(p, t, IF t = "user" THEN [pc |-> "publish", opt |-> thread[p][t].opt,
                                      role |-> thread[p][t].role]
                  ELSE Idle)
  /\ UNCHANGED <<status, stamp, up, clients, inbox, dropped, overlapped>>

(* DisposeLeave: nodes_ and servers_ by key alone, clients_ by match. *)
DisposeLeave(p, t) ==
  /\ At(p, t, "remove")
  /\ LET r == thread[p][t].role
     IN  IF r.type = "client"
         THEN /\ clients' = [clients EXCEPT ![p] = MultiRemove(@, KeyOf(r), r)]
              /\ UNCHANGED single
         ELSE /\ single' = [single EXCEPT ![p] = SingleRemove(@, KeyOf(r))]
              /\ UNCHANGED clients
  /\ Disposed(p, t)
  /\ UNCHANGED <<status, stamp, up, told, inbox, dropped, overlapped>>

-----------------------------------------------------------------------------
(* Departure: TopologyManager::OnParticipantChange, OnTopoModuleLeave *)

(* A process exits or crashes, at whatever it was doing. *)
Down(p) ==
  /\ p \in up /\ Cardinality(Procs \ up) < MaxDown
  /\ up' = up \ {p}
  /\ thread' = [thread EXCEPT ![p] = [t \in Threads |-> Idle]]
  /\ UNCHANGED <<status, stamp, told, single, clients, inbox, dropped, overlapped>>

(* The participant listener of p is called for q: OnTopoModuleLeave        *)
(* searches nodes_ or servers_ for the roles of that process.              *)
OnParticipantLeave(p, q) ==
  /\ At(p, "part", "idle") /\ q \notin up \cup dropped[p]
  /\ inbox' = [inbox EXCEPT ![p][q] = <<>>]
  /\ dropped' = [dropped EXCEPT ![p] = @ \cup {q}]
  /\ overlapped' = [overlapped EXCEPT ![p] =
       IF thread[p]["sub"].pc # "idle" /\ thread[p]["sub"].role.proc = q
       THEN @ \cup {q} ELSE @]
  /\ Become(p, "part", [pc |-> "found", proc |-> q,
                        keys |-> SingleSearch(single[p], [proc |-> q])])
  /\ UNCHANGED <<status, stamp, up, told, single, clients>>

(* Each role found is removed, by its key. *)
RemoveFound(p) ==
  /\ At(p, "part", "found")
  /\ \E k \in thread[p]["part"].keys :
       /\ single' = [single EXCEPT ![p] = SingleRemove(@, k)]
       /\ Become(p, "part", [thread[p]["part"] EXCEPT !.keys = @ \ {k}])
  /\ UNCHANGED <<status, stamp, up, told, clients, inbox, dropped, overlapped>>

(* ServiceManager goes on with the clients of the process. *)
SearchClients(p) ==
  /\ At(p, "part", "found") /\ thread[p]["part"].keys = {}
  /\ Become(p, "part", [pc |-> "clients", proc |-> thread[p]["part"].proc,
       found |-> MultiSearch(clients[p], [proc |-> thread[p]["part"].proc])])
  /\ UNCHANGED <<status, stamp, up, told, single, clients, inbox, dropped, overlapped>>

RemoveClients(p) ==
  /\ At(p, "part", "clients")
  /\ LET found == thread[p]["part"].found
     IN  \/ \E r \in found :
              /\ clients' = [clients EXCEPT ![p] = MultiRemove(@, KeyOf(r), r)]
              /\ Become(p, "part", [thread[p]["part"] EXCEPT !.found = @ \ {r}])
         \/ found = {} /\ Become(p, "part", Idle) /\ UNCHANGED clients
  /\ UNCHANGED <<status, stamp, up, told, single, inbox, dropped, overlapped>>

-----------------------------------------------------------------------------
Next ==
  \/ \E r \in Roles : Leave(r) \/ \E s \in Stamps : Join(r, s)
  \/ \E p \in Procs : Publish(p) \/ Down(p) \/ RemoveFound(p)
                      \/ SearchClients(p) \/ RemoveClients(p)
  \/ \E p, q \in Procs : OnRemoteChange(p, q) \/ OnParticipantLeave(p, q)
  \/ \E p \in Procs, t \in Threads :
       DisposeJoinAdd(p, t) \/ DisposeJoinSearch(p, t)
       \/ DisposeJoinDecide(p, t) \/ DisposeLeave(p, t)

Spec == Init /\ [][Next]_vars

-----------------------------------------------------------------------------
(* Properties *)

(* Every message has been received and disposed of, and every departure    *)
(* handled, at p.                                                          *)
AtRest(p) ==
  /\ p \in up /\ \A t \in Threads : thread[p][t].pc = "idle"
  /\ \A q \in up : inbox[p][q] = <<>> /\ thread[q]["user"].pc = "idle"
  /\ Procs \ up \subseteq dropped[p]

(* Two roles that the tables cannot both hold, or cannot remove one by one: *)
(* nodes or servers of one key, clients that Match does not tell apart.    *)
SameKey(r, s) ==
  /\ r.type = s.type /\ KeyOf(r) = KeyOf(s)
  /\ r.type = "client" => Match(r, s)

Live(r) == status[r] = "joined" /\ r.proc \in up

(* A process shuts itself down because of a duplicated node only when one  *)
(* of its nodes was registered, under the same name, no later somewhere    *)
(* else: the duplicate check of DisposeJoin, run by every process in its   *)
(* own order of messages, never turns on the one that came first.          *)
ElderNeverTold ==
  \A p \in told : \E r, e \in Roles :
    /\ r.proc = p /\ r # e /\ SameKey(r, e) /\ r.type = "node"
    /\ 0 < stamp[e] /\ stamp[e] <= stamp[r]

(* Two nodes of one name, and no other, registered at different times by   *)
(* running processes, do not both go unnoticed: when the messages have     *)
(* been handled, the process of the later one has shut itself down.        *)
DuplicateCaught ==
  \A r, e \in Roles :
    /\ r.type = "node" /\ SameKey(r, e) /\ Live(r) /\ Live(e) /\ stamp[e] < stamp[r]
    /\ \A o \in Roles \ {r, e} : SameKey(o, r) => status[o] = "new"
    /\ AtRest(r.proc)
    => r.proc \in told

(* What the tables hold of a role. *)
Known(p, r) ==
  IF r.type = "client" THEN <<KeyOf(r), r>> \in clients[p] ELSE single[p][KeyOf(r)] = r

(* A role that the tables can tell from every other is, when the messages have been       *)
(* handled, in a process's table exactly while it is joined and its        *)
(* process runs.  The exception the code leaves: a JOIN that was being     *)
(* disposed of while the departure of its sender was handled may stay.     *)
ViewExactAtRest ==
  \A p \in Procs, r \in Roles :
    AtRest(p) /\ (\A o \in Roles \ {r} : ~SameKey(o, r)) =>
      /\ Live(r) => Known(p, r)
      /\ Known(p, r) => Live(r) \/ r.proc \in overlapped[p]

(* service_manager.h: HasService returns "true if service exists".  Stated *)
(* for a process at rest: a service with a running server exists.          *)
HasServiceIfServed ==
  \A p \in Procs, r \in Roles :
    AtRest(p) /\ r.type = "server" /\ Live(r) => SingleHas(single[p], KeyOf(r))
=============================================================================
