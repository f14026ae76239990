----------------------------- MODULE MCDiscovery -----------------------------
(***************************************************************************)
(* Service discovery: ChannelManager with its Writers and Readers, the      *)
(* node managers of two processes and the service managers of two.  They    *)
(* do not interact: the one that "topic" names runs, the others stay as     *)
(* they are.                                                                *)
(***************************************************************************)
EXTENDS ChannelManager

CONSTANTS p1, p2,
          NodeRoles, ServiceRoles  \* the roles of the other two topics

VARIABLES topic,
          rStatus, rStamp, rUp, rTold, rSingle, rClients, rInbox, rDropped,
          rThread, rOverlapped

Role(type, proc, node, name, id) ==
  [type |-> type, proc |-> proc, node |-> node, name |-> name, id |-> id]

a == <<"a">>
b == <<"b">>
c == <<"c">>

channelNames == {c}
nodeNames == {a, b}

\* In process p1 a reader and a writer of channel c, in p2 another writer.
channelRoles ==
  {Role("reader", p1, a, c, 1), Role("writer", p1, a, c, 2), Role("writer", p2, b, c, 3)}

\* Node a twice, in two processes, and node b.
twoNodesA ==
  {Role("node", p1, "a", "", 1), Role("node", p2, "a", "", 2), Role("node", p2, "b", "", 3)}

\* A server and a client in one node, and a client of the same service.
serverAndClients ==
  {Role("server", p1, "a", "s", 1), Role("client", p1, "a", "s", 2),
   Role("client", p2, "b", "s", 3)}

\* Two processes that serve one service, perhaps one after the other.
twoServers == {Role("server", p1, "a", "s", 1), Role("server", p2, "b", "s", 2)}

NodeTopic == INSTANCE RoleDiscovery WITH
  Procs <- {p1, p2}, Roles <- NodeRoles, Stamps <- {1, 2}, MaxDown <- 1,
  status <- rStatus, stamp <- rStamp, up <- rUp, told <- rTold, single <- rSingle,
  clients <- rClients, inbox <- rInbox, dropped <- rDropped, thread <- rThread,
  overlapped <- rOverlapped

ServiceTopic == INSTANCE RoleDiscovery WITH
  Procs <- {p1, p2}, Roles <- ServiceRoles, Stamps <- {1}, MaxDown <- 1,
  status <- rStatus, stamp <- rStamp, up <- rUp, told <- rTold, single <- rSingle,
  clients <- rClients, inbox <- rInbox, dropped <- rDropped, thread <- rThread,
  overlapped <- rOverlapped

ASSUME NodeTopic!RoleDiscoveryConstants /\ ServiceTopic!RoleDiscoveryConstants

rVars == <<rStatus, rStamp, rUp, rTold, rSingle, rClients, rInbox, rDropped,
           rThread, rOverlapped>>

TopicInit ==
  /\ Init
  /\ \/ topic \in {"channel", "node"} /\ NodeTopic!Init
     \/ topic = "service" /\ ServiceTopic!Init

TopicNext ==
  \/ topic = "channel" /\ Next /\ UNCHANGED <<topic, rVars>>
  \/ topic = "node" /\ NodeTopic!Next /\ UNCHANGED <<topic, vars>>
  \/ topic = "service" /\ ServiceTopic!Next /\ UNCHANGED <<topic, vars>>

TopicSpec == TopicInit /\ [][TopicNext]_<<topic, vars, rVars>>

\* node.h:41 asks for names without duplicates: users whose servers of one
\* service follow one another, each joining after the Leave of the one before
\* has returned.
InTurn ==
  LET Active(r) == rStatus[r] = "joined" \/ rThread[r.proc]["user"].pc # "idle"
  IN  \A r, s \in ServiceRoles : Active(r) /\ Active(s) => r = s

InTurnSpec ==
  /\ topic = "service" /\ TopicInit
  /\ [][TopicNext /\ InTurn']_<<topic, vars, rVars>>

\* When the messages have been handled, the tables of NodeManager and
\* ServiceManager hold the nodes, servers and clients that are there, except for
\* what the code leaves when a role goes while its joining is under way; of two
\* processes with a node of the same name the later one shuts itself down, and
\* never the earlier one; and GetFlowDirection's answers follow the edges of
\* ChannelManager's graph.  Every variable holds a value of its type.
TablesExactAtRest ==
  /\ TypeOK /\ FlowDirectionExact
  /\ topic = "node" =>
       /\ NodeTopic!TypeOK /\ NodeTopic!ViewExactAtRest
       /\ NodeTopic!ElderNeverTold /\ NodeTopic!DuplicateCaught
  /\ topic = "service" => ServiceTopic!TypeOK /\ ServiceTopic!ViewExactAtRest

\* service_manager.h:61: HasService returns "true if service exists".
HasServiceIfServed == topic = "service" => ServiceTopic!HasServiceIfServed
=============================================================================
