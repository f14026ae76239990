--------------------------- MODULE ChannelManager ---------------------------
(***************************************************************************)
(* The table of writers and readers in one process                         *)
(* (service_discovery/specific_manager/channel_manager.cc over manager.cc) *)
(* together with its clients, the Writers and Readers of the process       *)
(* (node/writer.h, node/reader.h), which follow the table through the      *)
(* change signal (base/signal.h) in order to enable and disable their      *)
(* transmitter or receiver towards each peer.                              *)
(*                                                                         *)
(* Threads: one for each local Writer or Reader (the thread that creates   *)
(* and destroys it), sub (OnRemoteChange) and part (OnTopoModuleLeave).    *)
(* Each call of a warehouse, of the graph, of the signal and of Enable or  *)
(* Disable holds that object's lock; nothing is held between two calls.    *)
(* The other processes run the same program; what matters of them is what  *)
(* they publish and that they may go.  The middleware is as in             *)
(* RoleDiscovery.                                                          *)
(***************************************************************************)
EXTENDS Warehouse, Naturals, Sequences, FiniteSets

(***************************************************************************)
(* The graph of nodes that ChannelManager keeps                            *)
(* (service_discovery/container/graph.cc): a vertex for each node name, an *)
(* edge from a writer of a channel to a reader of it.                      *)
(*                                                                         *)
(* A graph is a record: known, srcs and dsts are edges_ (the channels that *)
(* have an entry, and the <<channel, node>> pairs of their src and dst     *)
(* maps); keys and links are list_ (the nodes that have an entry, and the  *)
(* entries' contents, a map from an edge's key to its end).  Insert,       *)
(* Delete and GetDirectionOf hold rw_lock_ from beginning to end.          *)
(***************************************************************************)
CONSTANTS
  Channels,  \* channel names, as sequences of characters
  Nodes      \* node names, likewise, not empty

Dummy == <<>>  \* the name of a Vertice that stands for no node

Edges == [value : Channels, src : Nodes \cup {Dummy}, dst : Nodes \cup {Dummy}]

(* Edge::GetKey *)
EdgeKey(value, dst) == value \o <<"_">> \o dst

(* The keys tell the edges of a node apart.  With names such as "a_b" and  *)
(* "c", "a" and "b_c" they would not: list_ would keep one of the two.     *)
KeysDistinct ==
  \A c1, c2 \in Channels, d1, d2 \in Nodes :
    EdgeKey(c1, d1) = EdgeKey(c2, d2) => c1 = c2 /\ d1 = d2

ASSUME NamesAssumption == Dummy \notin Nodes /\ KeysDistinct

Link(s, c, d) == [src |-> s, key |-> EdgeKey(c, d), dst |-> d]

EmptyGraph == [known |-> {}, srcs |-> {}, dsts |-> {}, keys |-> {}, links |-> {}]

(* Edge::IsValid (a channel's name is never empty) *)
IsValid(e) == ~(e.src = Dummy /\ e.dst = Dummy)

-----------------------------------------------------------------------------
(* Insert *)

(* InsertCompleteEdge for every source in S and end in D: list_ gets an    *)
(* entry for each of them, and the edge replaces one of the same key.      *)
InsertCompleteEdges(g, S, c, D) ==
  [g EXCEPT
     !.keys = IF S = {} \/ D = {} THEN @ ELSE @ \cup S \cup D,
     !.links = {l \in @ : ~(l.src \in S /\ \E d \in D : l.key = EdgeKey(c, d))}
               \cup {Link(s, c, d) : s \in S, d \in D}]

SrcsOf(g, c) == {n \in Nodes : <<c, n>> \in g.srcs}

DstsOf(g, c) == {n \in Nodes : <<c, n>> \in g.dsts}

InsertOutgoingEdge(g, e) ==
  IF e.src = Dummy \/ <<e.value, e.src>> \in g.srcs THEN g
  ELSE InsertCompleteEdges([g EXCEPT !.srcs = @ \cup {<<e.value, e.src>>}],
                           {e.src}, e.value, DstsOf(g, e.value))

InsertIncomingEdge(g, e) ==
  IF e.dst = Dummy \/ <<e.value, e.dst>> \in g.dsts THEN g
  ELSE InsertCompleteEdges([g EXCEPT !.dsts = @ \cup {<<e.value, e.dst>>}],
                           SrcsOf(g, e.value), e.value, {e.dst})

(* Insert: both halves look at what the other has left. *)
Insert(g, e) ==
  IF ~IsValid(e) THEN g
  ELSE InsertIncomingEdge(
         InsertOutgoingEdge([g EXCEPT !.known = @ \cup {e.value}], e), e)

-----------------------------------------------------------------------------
(* Delete *)

(* DeleteCompleteEdge: list_[src] makes an entry if there is none. *)
DeleteCompleteEdges(g, S, c, D) ==
  [g EXCEPT
     !.keys = IF D = {} THEN @ ELSE @ \cup S,
     !.links = {l \in @ : ~(l.src \in S /\ \E d \in D : l.key = EdgeKey(c, d))}]

(* Mutant: the source stays in edges_. *)
DeleteOutgoingEdge_KeepsSrc(g, e) ==
  IF e.src = Dummy \/ <<e.value, e.src>> \notin g.srcs THEN g
  ELSE DeleteCompleteEdges(g, {e.src}, e.value, DstsOf(g, e.value))

DeleteOutgoingEdge(g, e) ==
  IF e.src = Dummy \/ <<e.value, e.src>> \notin g.srcs THEN g
  ELSE DeleteCompleteEdges([g EXCEPT !.srcs = @ \ {<<e.value, e.src>>}],
                           {e.src}, e.value, DstsOf(g, e.value))

DeleteIncomingEdge(g, e) ==
  IF e.dst = Dummy \/ <<e.value, e.dst>> \notin g.dsts THEN g
  ELSE DeleteCompleteEdges([g EXCEPT !.dsts = @ \ {<<e.value, e.dst>>}],
                           SrcsOf(g, e.value), e.value, {e.dst})

Delete(g, e) ==
  IF ~IsValid(e) \/ e.value \notin g.known THEN g
  ELSE DeleteIncomingEdge(DeleteOutgoingEdge(g, e), e)

-----------------------------------------------------------------------------
(* GetDirectionOf *)

(* LevelTraverse: the vertices are visited level by level; the queue holds *)
(* one level and then the next.  There are no more levels than entries.    *)
LevelTraverse(g, start, end) ==
  LET level[k \in Nat] ==
        IF k = 0 THEN [visited |-> {}, unvisited |-> {start}]
        ELSE LET prev == level[k - 1]
                 fresh == prev.unvisited \ prev.visited
             IN  [visited |-> prev.visited \cup fresh,
                  unvisited |-> {l.dst : l \in {x \in g.links : x.src \in fresh}}]
  IN  end \in level[Cardinality(g.keys) + 1].visited

(* Mutant: the two traversals are swapped. *)
GetDirectionOf_Swapped(g, lhs, rhs) ==
  IF lhs = Dummy \/ rhs = Dummy \/ ~({lhs, rhs} \subseteq g.keys) THEN "UNREACHABLE"
  ELSE IF LevelTraverse(g, rhs, lhs) THEN "UPSTREAM"
  ELSE IF LevelTraverse(g, lhs, rhs) THEN "DOWNSTREAM"
  ELSE "UNREACHABLE"

GetDirectionOf(g, lhs, rhs) ==
  IF lhs = Dummy \/ rhs = Dummy \/ ~({lhs, rhs} \subseteq g.keys) THEN "UNREACHABLE"
  ELSE IF LevelTraverse(g, lhs, rhs) THEN "UPSTREAM"
  ELSE IF LevelTraverse(g, rhs, lhs) THEN "DOWNSTREAM"
  ELSE "UNREACHABLE"

-----------------------------------------------------------------------------
(* What a graph promises *)

LinkSet == {Link(s, c, d) : s \in Nodes, c \in Channels, d \in Nodes}

GraphSet ==
  [known : SUBSET Channels, srcs : SUBSET (Channels \X Nodes),
   dsts : SUBSET (Channels \X Nodes), keys : SUBSET Nodes, links : SUBSET LinkSet]

(* The edges of list_ are exactly those that edges_ calls for. *)
LinksExact(g) ==
  g.links = UNION {{Link(s, c, d) : s \in SrcsOf(g, c), d \in DstsOf(g, c)} : c \in Channels}

(* Both ends of every edge have an entry in list_, so that LevelTraverse,  *)
(* which runs under the read lock, never inserts one with its list_[...].  *)
EndsListed(g) == \A l \in g.links : l.src \in g.keys /\ l.dst \in g.keys

-----------------------------------------------------------------------------
(* The table and its clients *)

CONSTANTS
  Me,     \* this process
  sub,    \* the thread of its subscriber's listener
  part,   \* the thread of its participant's listener
  Roles   \* the writers and readers of all processes, each joins once

(* Match tells the roles apart: a node has one reader of a channel, as      *)
(* Node::CreateReader sees to, and each writer has an id of its own.        *)
ASSUME RolesAssumption ==
  /\ \A r \in Roles : /\ r.type \in {"writer", "reader"}
                      /\ r.name \in Channels /\ r.node \in Nodes
  /\ \A r, s \in Roles : Match(r, s) => r = s

(* The threads that call back are none of the users' threads.              *)
ASSUME ThreadsAssumption == sub # part /\ {sub, part} \cap Roles = {}

VARIABLES
  status,     \* of each role: "new", "joined" (published) or "left"
  gone,       \* the other processes that have gone
  dropped,    \* those whose departure has been reported to this process
  inbox,      \* inbox[q]: messages of q this process has not received
  nodeRoles,  \* node_writers_ and node_readers_ (keys are node names)
  chanRoles,  \* channel_writers_ and channel_readers_ (by channel name)
  graph,      \* node_graph_
  slots,      \* signal_: the local endpoints whose listener is connected
  peers,      \* peers[i]: the ids of the roles that endpoint i is enabled for
  thread,     \* what each thread is doing
  overlapped  \* history: roles that left while their joining was under way

vars == <<status, gone, dropped, inbox, nodeRoles, chanRoles, graph, slots,
          peers, thread, overlapped>>

Local == {r \in Roles : r.proc = Me}

Others == {r.proc : r \in Roles} \ {Me}

Threads == Local \cup {sub, part}

(* Transports know each other by id.  A Writer has a transmitter and an id  *)
(* of its own; the Readers of a channel in one process share a receiver    *)
(* (ReceiverManager) and so its id, and are told apart by their nodes.     *)
Ids == {r.id : r \in Roles}

Endpoints == {e.id : e \in Local}

Msg == [opt : {"join", "leave"}, role : Roles]

(* A thread's local variables: the message it disposes of, the roles it    *)
(* has found and not yet dealt with, the slots it has yet to call.         *)
Idle == [pc |-> "idle", opt |-> "none", role |-> NoRole, found |-> {}, slots |-> {}]

Locals ==
  [pc : {"idle", "get", "enable", "each", "node", "channel", "graph", "call"},
   opt : {"none", "join", "leave"}, role : Roles \cup {NoRole},
   found : SUBSET Roles, slots : SUBSET Local]

Dispose(msg, rest) ==
  [pc |-> "node", opt |-> msg.opt, role |-> msg.role, found |-> rest, slots |-> {}]

At(t, pc) == thread[t].pc = pc

Become(t, new) == thread' = [thread EXCEPT ![t] = new]

Goto(t, pc) == Become(t, [thread[t] EXCEPT !.pc = pc])

(* Who a Writer or Reader talks to. *)
Opposite(e, r) == r.name = e.name /\ r.type # e.type

(* Enable(opposite_attr) and Disable(opposite_attr) of the endpoint's      *)
(* HybridTransmitter or HybridReceiver: a set of ids, so that Disable       *)
(* takes the id out however often it was put in.                           *)
EnablePeer(e, r) == [peers EXCEPT ![e.id] = @ \cup {r.id}]

DisablePeer(e, r) == [peers EXCEPT ![e.id] = @ \ {r.id}]

(* The edge of the graph that a role stands for. *)
EdgeOf(r) ==
  [value |-> r.name, src |-> IF r.type = "writer" THEN r.node ELSE Dummy,
   dst |-> IF r.type = "writer" THEN Dummy ELSE r.node]

TypeOK ==
  /\ status \in [Roles -> {"new", "joined", "left"}]
  /\ dropped \subseteq gone /\ gone \subseteq Others
  /\ inbox \in [Others -> Seq(Msg)]
  /\ nodeRoles \subseteq Nodes \X Roles /\ chanRoles \subseteq Channels \X Roles
  /\ graph \in GraphSet
  /\ slots \subseteq Local /\ peers \in [Endpoints -> SUBSET Ids]
  /\ thread \in [Threads -> Locals]
  /\ overlapped \subseteq Roles

Init ==
  /\ status = [r \in Roles |-> "new"]
  /\ gone = {} /\ dropped = {}
  /\ inbox = [q \in Others |-> <<>>]
  /\ nodeRoles = {} /\ chanRoles = {}
  /\ graph = EmptyGraph
  /\ slots = {} /\ peers = [i \in Endpoints |-> {}]
  /\ thread = [t \in Threads |-> Idle]
  /\ overlapped = {}

-----------------------------------------------------------------------------
(* The other processes and the middleware (external) *)

RemoteJoin(r) ==
  /\ r \notin Local /\ r.proc \notin gone /\ status[r] = "new"
  /\ status' = [status EXCEPT ![r] = "joined"]
  /\ inbox' = [inbox EXCEPT ![r.proc] = Append(@, [opt |-> "join", role |-> r])]
  /\ UNCHANGED <<gone, dropped, nodeRoles, chanRoles, graph, slots, peers,
                 thread, overlapped>>

RemoteLeave(r) ==
  /\ r \notin Local /\ r.proc \notin gone /\ status[r] = "joined"
  /\ status' = [status EXCEPT ![r] = "left"]
  /\ inbox' = [inbox EXCEPT ![r.proc] = Append(@, [opt |-> "leave", role |-> r])]
  /\ UNCHANGED <<gone, dropped, nodeRoles, chanRoles, graph, slots, peers,
                 thread, overlapped>>

RemoteDown(q) ==
  /\ q \notin gone
  /\ gone' = gone \cup {q}
  /\ UNCHANGED <<status, dropped, inbox, nodeRoles, chanRoles, graph, slots, peers, thread,
                 overlapped>>

-----------------------------------------------------------------------------
(* Writer and Reader: JoinTheTopology and LeaveTheTopology *)

(* JoinTheTopology begins: the listener is connected, ... *)
JoinTheTopology(e) ==
  /\ status[e] = "new" /\ At(e, "idle")
  /\ slots' = slots \cup {e}
  /\ Become(e, [Idle EXCEPT !.pc = "get"])
  /\ UNCHANGED <<status, gone, dropped, inbox, nodeRoles, chanRoles, graph,
                 peers, overlapped>>

(* Mutant: nobody asks for the peers already known. *)
GetPeersOfChannel_Skips(e) ==
  /\ At(e, "get")
  /\ Become(e, [Idle EXCEPT !.pc = "enable"])
  /\ UNCHANGED <<status, gone, dropped, inbox, nodeRoles, chanRoles, graph, slots, peers,
                 overlapped>>

(* ... then the peers already known are read, ... *)
GetPeersOfChannel(e) ==
  /\ At(e, "get")
  /\ Become(e, [Idle EXCEPT !.pc = "enable",
                  !.found = {r \in MultiUnder(chanRoles, e.name) : Opposite(e, r)}])
  /\ UNCHANGED <<status, gone, dropped, inbox, nodeRoles, chanRoles, graph, slots, peers,
                 overlapped>>

(* ... each is enabled, and Manager::Join disposes of the JOIN. *)
EnableFound(e) ==
  /\ At(e, "enable")
  /\ \/ \E r \in thread[e].found :
          /\ peers' = EnablePeer(e, r)
          /\ Become(e, [thread[e] EXCEPT !.found = @ \ {r}])
          /\ UNCHANGED status
     \/ /\ thread[e].found = {}
        /\ Become(e, Dispose([opt |-> "join", role |-> e], {}))
        /\ status' = [status EXCEPT ![e] = "joined"]
        /\ UNCHANGED peers
  /\ UNCHANGED <<gone, dropped, inbox, nodeRoles, chanRoles, graph, slots, overlapped>>

(* LeaveTheTopology: the listener goes first; then Manager::Leave. *)
LeaveTheTopology(e) ==
  /\ status[e] = "joined" /\ At(e, "idle")
  /\ slots' = slots \ {e}
  /\ status' = [status EXCEPT ![e] = "left"]
  /\ Become(e, Dispose([opt |-> "leave", role |-> e], {}))
  /\ UNCHANGED <<gone, dropped, inbox, nodeRoles, chanRoles, graph, peers, overlapped>>

-----------------------------------------------------------------------------
(* ChannelManager *)

OnRemoteChange(q) ==
  /\ At(sub, "idle") /\ inbox[q] # <<>>
  /\ Become(sub, Dispose(Head(inbox[q]), {}))
  /\ inbox' = [inbox EXCEPT ![q] = Tail(@)]
  /\ UNCHANGED <<status, gone, dropped, nodeRoles, chanRoles, graph, slots,
                 peers, overlapped>>

(* OnTopoModuleLeave: the process's roles are searched; each is then       *)
(* disposed of like a LEAVE.                                               *)
OnTopoModuleLeave(q) ==
  /\ At(part, "idle") /\ q \in gone \ dropped
  /\ dropped' = dropped \cup {q}
  /\ inbox' = [inbox EXCEPT ![q] = <<>>]
  /\ Become(part, [Idle EXCEPT !.pc = "each", !.found = MultiSearch(chanRoles, [proc |-> q])])
  /\ overlapped' = overlapped \cup
       {r \in Roles : r.proc = q /\ thread[sub].role = r}
  /\ UNCHANGED <<status, gone, nodeRoles, chanRoles, graph, slots, peers>>

EachFound ==
  /\ At(part, "each")
  /\ \/ \E r \in thread[part].found :
          Become(part, Dispose([opt |-> "leave", role |-> r], thread[part].found \ {r}))
     \/ thread[part].found = {} /\ Become(part, Idle)
  /\ UNCHANGED <<status, gone, dropped, inbox, nodeRoles, chanRoles, graph, slots, peers,
                 overlapped>>

(* DisposeJoin and DisposeLeave, first call: node_writers_, node_readers_. *)
DisposeNode(t) ==
  /\ At(t, "node")
  /\ LET r == thread[t].role
     IN  nodeRoles' = IF thread[t].opt = "join" THEN MultiAdd(nodeRoles, r.node, r)
                      ELSE MultiRemove(nodeRoles, r.node, r)
  /\ Goto(t, "channel")
  /\ UNCHANGED <<status, gone, dropped, inbox, chanRoles, graph, slots, peers,
                 overlapped>>

(* Second call: channel_writers_, channel_readers_. *)
DisposeChannel(t) ==
  /\ At(t, "channel")
  /\ LET r == thread[t].role
     IN  /\ chanRoles' = IF thread[t].opt = "join" THEN MultiAdd(chanRoles, r.name, r)
                         ELSE MultiRemove(chanRoles, r.name, r)
         /\ overlapped' =
              IF thread[t].opt = "leave" /\ \E u \in Threads \ {t} :
                   \/ thread[u].opt = "join" /\ thread[u].role = r
                   \/ At(u, "enable") /\ r \in thread[u].found
              THEN overlapped \cup {r} ELSE overlapped
  /\ Goto(t, "graph")
  /\ UNCHANGED <<status, gone, dropped, inbox, nodeRoles, graph, slots, peers>>

(* Third call: node_graph_.  Then Notify, whose signal first copies its    *)
(* slots under its mutex (in the same step: no other thread's work depends *)
(* on the graph), ...                                                      *)
DisposeGraph(t) ==
  /\ At(t, "graph")
  /\ graph' = IF thread[t].opt = "join" THEN Insert(graph, EdgeOf(thread[t].role))
              ELSE Delete(graph, EdgeOf(thread[t].role))
  /\ Become(t, [thread[t] EXCEPT !.pc = "call", !.slots = slots])
  /\ UNCHANGED <<status, gone, dropped, inbox, nodeRoles, chanRoles, slots,
                 peers, overlapped>>

(* ... and calls each one that is still connected: OnChannelChange enables *)
(* or disables the peer if the change is about one.  After the last, a     *)
(* local change is published (not seen here), and part takes the next.     *)
OnChannelChange(t) ==
  /\ At(t, "call")
  /\ LET r == thread[t].role
     IN  \/ \E e \in thread[t].slots :
              /\ peers' = IF e \notin slots \/ ~Opposite(e, r) THEN peers
                          ELSE IF thread[t].opt = "join" THEN EnablePeer(e, r)
                          ELSE DisablePeer(e, r)
              /\ Become(t, [thread[t] EXCEPT !.slots = @ \ {e}])
         \/ /\ thread[t].slots = {}
            /\ Become(t, [Idle EXCEPT !.pc = IF t = part THEN "each" ELSE "idle",
                                   !.found = thread[t].found])
            /\ UNCHANGED peers
  /\ UNCHANGED <<status, gone, dropped, inbox, nodeRoles, chanRoles, graph,
                 slots, overlapped>>

-----------------------------------------------------------------------------
Next ==
  \/ \E r \in Roles : RemoteJoin(r) \/ RemoteLeave(r)
  \/ \E q \in Others : RemoteDown(q) \/ OnRemoteChange(q) \/ OnTopoModuleLeave(q)
  \/ \E e \in Local : JoinTheTopology(e) \/ GetPeersOfChannel(e) \/ EnableFound(e)
                      \/ LeaveTheTopology(e)
  \/ \E t \in Threads : DisposeNode(t) \/ DisposeChannel(t) \/ DisposeGraph(t)
                        \/ OnChannelChange(t)
  \/ EachFound

Spec == Init /\ [][Next]_vars

-----------------------------------------------------------------------------
(* Properties *)

AtRest ==
  /\ \A t \in Threads : At(t, "idle")
  /\ \A q \in Others : inbox[q] = <<>>
  /\ gone = dropped

Live(r) == status[r] = "joined" /\ r.proc \notin gone

Known == {e[2] : e \in chanRoles}

(* What the tables answer: GetWritersOfNode and the like. *)
GetWritersOfNode(n) == {r \in MultiUnder(nodeRoles, n) : r.type = "writer"}

GetReadersOfNode(n) == {r \in MultiUnder(nodeRoles, n) : r.type = "reader"}

GetWritersOfChannel(c) == {r \in MultiUnder(chanRoles, c) : r.type = "writer"}

GetReadersOfChannel(c) == {r \in MultiUnder(chanRoles, c) : r.type = "reader"}

HasWriter(c) == GetWritersOfChannel(c) # {}

HasReader(c) == GetReadersOfChannel(c) # {}

GetChannelNames == {r.name : r \in Known}

(* The nodes with a writer of a channel that the node reads, ... *)
GetUpstreamOfNode(n) ==
  {w.node : w \in UNION {GetWritersOfChannel(r.name) : r \in GetReadersOfNode(n)}}

(* ... and those with a reader of a channel that it writes. *)
GetDownstreamOfNode(n) ==
  {r.node : r \in UNION {GetReadersOfChannel(w.name) : w \in GetWritersOfNode(n)}}

(* No process has two Readers of one channel: they would share a receiver, *)
(* and HybridTransmitter::Disable for one that leaves cuts off the other.  *)
NoSharedReceiver == \A r, s \in Roles : r.id = s.id => r = s

(* A Reader or Writer that has joined never misses a peer: each opposite   *)
(* role in the channel table is enabled in its transport, or the thread    *)
(* that put it there has yet to call the listener.  The order in which     *)
(* JoinTheTopology connects, reads and joins is what this rests on.        *)
NoPeerMissed ==
  NoSharedReceiver => \A e \in slots, r \in Known :
    Opposite(e, r) /\ ~At(e, "get") /\ ~At(e, "enable") =>
      \/ r.id \in peers[e.id]
      \/ \E t \in Threads : /\ thread[t].pc \in {"graph", "call"}
                            /\ thread[t].opt = "join" /\ thread[t].role = r

(* Messages of one role can reach the other. *)
Feeds(w, r) == w.type = "writer" /\ r.type = "reader" /\ w.name = r.name

NodeFeeds(R, m, n) == \E w, r \in R : Feeds(w, r) /\ w.node = m /\ r.node = n

(* The queries answer as the roles in R would have them. *)
AnswersFor(R) ==
  /\ GetChannelNames = {r.name : r \in R}
  /\ \A c \in Channels : /\ HasWriter(c) <=> \E r \in R : r.type = "writer" /\ r.name = c
                         /\ HasReader(c) <=> \E r \in R : r.type = "reader" /\ r.name = c
  /\ \A m, n \in Nodes : /\ m \in GetUpstreamOfNode(n) <=> NodeFeeds(R, m, n)
                         /\ n \in GetDownstreamOfNode(m) <=> NodeFeeds(R, m, n)

(* With no change under way, and apart from roles that left while their    *)
(* joining was under way: the table holds the live roles, both indexes of  *)
(* it agree, every endpoint is enabled for exactly its peers, and the      *)
(* queries, which read one index or both, answer for the live roles.       *)
TopologyExactAtRest ==
  AtRest =>
    /\ Known \ overlapped = {r \in Roles : Live(r)} \ overlapped
    /\ {e[2] : e \in nodeRoles} = Known
    /\ NoSharedReceiver => \A e \in slots, r \in Roles \ overlapped :
         r.id \in peers[e.id] <=> r \in Known /\ Opposite(e, r)
    /\ overlapped = {} => AnswersFor({r \in Roles : Live(r)})

(* Two roles with the same edge in the graph. *)
SameEdge(r, s) == EdgeOf(r) = EdgeOf(s)

(* With no change under way, a node is downstream of another exactly when  *)
(* messages can flow to it through the known writers and readers (stated   *)
(* for roles none of which shares its edge with another one or left while  *)
(* it was joining: the graph does not count how often an edge is held).    *)
FlowsTo(a, b) ==
  \E n \in 0..Cardinality(Nodes) : \E path \in [0..n -> Nodes] :
    /\ path[0] = a /\ path[n] = b
    /\ \A i \in 1..n : NodeFeeds(Known, path[i - 1], path[i])

FlowDirectionExact ==
  AtRest /\ overlapped = {} /\ (\A r, s \in Roles : SameEdge(r, s) => r = s) =>
    \A a, b \in Nodes : {a, b} \subseteq graph.keys =>
      GetDirectionOf(graph, a, b) = CASE FlowsTo(a, b) -> "UPSTREAM"
                                      [] ~FlowsTo(a, b) /\ FlowsTo(b, a) -> "DOWNSTREAM"
                                      [] OTHER -> "UNREACHABLE"

(* At every moment, the adjacency list of the node graph is exactly what   *)
(* its writers and readers call for, and the traversal under the read lock *)
(* finds every vertex it comes to in the list.                             *)
GraphExact == LinksExact(graph) /\ EndsListed(graph)
=============================================================================
