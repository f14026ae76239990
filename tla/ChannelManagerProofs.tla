------------------------ MODULE ChannelManagerProofs ------------------------
(***************************************************************************)
(* For any processes, roles, channels and nodes whose names keep the keys   *)
(* of edges apart.                                                          *)
(*                                                                          *)
(* First part: TableInv says for each role where its JOIN and its LEAVE are *)
(* (in the inbox, with the thread that disposes of it, in a table) and for  *)
(* each connected endpoint by whom it has heard, or will hear, of each role *)
(* that it talks to.  The remote processes, the receiving threads, the      *)
(* endpoints and the threads that dispose of a change keep it.              *)
(*                                                                          *)
(* Second part: the tables of ChannelManager are well typed, and the        *)
(* adjacency list of its node graph is exactly what its writers and readers *)
(* call for.  The argument follows the code: InsertCompleteEdge and         *)
(* DeleteCompleteEdge change just the links between the given ends, so the  *)
(* outgoing and incoming halves of Insert and Delete keep the two           *)
(* representations of the graph in agreement.                               *)
(*                                                                          *)
(* Third part: no peer is missed, and at rest the tables are exact.         *)
(***************************************************************************)
EXTENDS ChannelManager, TLAPS

(* Thread t disposes of this change and is at one of these places. *)
Does(t, opt, r, pcs) ==
  thread[t].opt = opt /\ thread[t].role = r /\ thread[t].pc \in pcs

(* A message of q that is yet to be received. *)
Sent(q, opt, r) ==
  \E i \in 1..Len(inbox[q]) : inbox[q][i].opt = opt /\ inbox[q][i].role = r

(* A thread is about to put r in the channel table.                        *)
Joining(r) == \E t \in Threads : Does(t, "join", r, {"node", "channel"})

(* The JOIN of r is yet to be received.                                    *)
JoinSent(r) == \E q \in Others : Sent(q, "join", r)

(* The JOIN of r has been through the channel table, for good. *)
Settled(r) == status[r] # "new" /\ ~JoinSent(r) /\ ~Joining(r)

(* The roles in node_writers_ and node_readers_.                           *)
NodeKnown == {p[2] : p \in nodeRoles}

(* Of each thread: it has a change exactly while it disposes of one, and   *)
(* an endpoint that has not joined is connected while it reads its peers.  *)
ThreadFine(t) ==
  /\ thread[t].pc \in {"node", "channel", "graph", "call"} <=> thread[t].opt # "none"
  /\ thread[t].opt = "none" => thread[t].role = NoRole
  /\ thread[t].opt # "none" => thread[t].role \in Roles
  /\ thread[t].pc \in {"get", "enable"} => t \in slots /\ status[t] = "new"
  /\ thread[t].pc = "each" => t = part

(* The thread of an endpoint disposes of its own JOIN or LEAVE.            *)
LocalThread(e) ==
  /\ thread[e].opt # "none" => thread[e].role = e
  /\ thread[e].opt = "join" => status[e] = "joined"
  /\ thread[e].opt = "leave" => status[e] = "left"

(* The subscriber disposes of what other processes have published.         *)
SubThread ==
  /\ thread[sub].opt # "none" => /\ thread[sub].role \notin Local
                                 /\ status[thread[sub].role] # "new"
  /\ thread[sub].opt = "leave" => status[thread[sub].role] = "left"

(* The participant listener disposes of LEAVEs, for processes reported     *)
(* gone.                                                                   *)
PartThread ==
  /\ thread[part].opt # "join"
  /\ thread[part].opt = "leave" => thread[part].role.proc \in dropped
  /\ \A r \in thread[part].found : r.proc \in dropped
  /\ thread[part].pc = "idle" => thread[part].found = {}

(* The threads together.                                                   *)
ThreadsOK ==
  /\ \A t \in Threads : ThreadFine(t)
  /\ \A e \in Local : LocalThread(e)
  /\ SubThread /\ PartThread

(* In order: of a role at most a JOIN and then a LEAVE. *)
InOrder(s) ==
  \A i, j \in 1..Len(s) : i < j /\ s[i].role = s[j].role =>
    s[i].opt = "join" /\ s[j].opt = "leave"

(* What is in the inbox has been published, in order, by a process that    *)
(* has not been reported gone.                                             *)
InboxOK ==
  \A q \in Others :
    /\ \A r \in Roles : Sent(q, "join", r) => r.proc = q /\ status[r] # "new"
    /\ \A r \in Roles : Sent(q, "leave", r) => r.proc = q /\ status[r] = "left"
    /\ InOrder(inbox[q])
    /\ q \in dropped => inbox[q] = <<>>

(* A role's JOIN goes through the tables once, and not after its LEAVE.    *)
SettledOK ==
  /\ \A r \in Known : Settled(r)
  /\ \A t \in Threads, r \in Roles :
       thread[t].opt = "leave" /\ thread[t].role = r => Settled(r)
  /\ \A r \in thread[part].found : Settled(r)
  /\ \A r \in Roles : ~(Joining(r) /\ JoinSent(r))

(* Each table keeps a role under its channel, or its node.                 *)
KeysOK ==
  /\ \A p \in chanRoles : p[1] = p[2].name
  /\ \A p \in nodeRoles : p[1] = p[2].node

(* A role whose LEAVE has been through the channel table is not in it.     *)
LeftOK == \A t \in Threads, r \in Known : ~Does(t, "leave", r, {"graph", "call"})

(* The two indexes differ just by the changes that are between them.       *)
NodesOK ==
  /\ \A r \in NodeKnown \ Known : \E t \in Threads : Does(t, "join", r, {"channel"})
  /\ \A r \in Known \ NodeKnown : \E t \in Threads : Does(t, "leave", r, {"channel"})
  /\ \A t \in Threads, r \in NodeKnown : ~Does(t, "leave", r, {"channel", "graph", "call"})
  /\ \A t \in Threads, r \in Roles : Does(t, "join", r, {"channel"}) => r \in NodeKnown

(* A local role is in the table, or on its way in or out.                  *)
LocalFine(r) ==
  /\ status[r] = "joined" => r \in Known \/ Joining(r)
  /\ status[r] = "left" /\ r \in Known => Does(r, "leave", r, {"node", "channel"})

(* So is the role of another process, which may still be in the inbox.     *)
PresentFine(r) ==
  /\ status[r] = "joined" => r \in Known \/ Sent(r.proc, "join", r) \/ Joining(r)
  /\ status[r] = "left" /\ (r \in Known \/ Sent(r.proc, "join", r) \/ Joining(r)) =>
       Sent(r.proc, "leave", r) \/ Does(sub, "leave", r, {"node", "channel"})

(* The roles of a process reported gone are all to be disposed of.         *)
DroppedFine(r) ==
  /\ thread[sub].role # r
  /\ r \in Known => r \in thread[part].found \/ Does(part, "leave", r, {"node", "channel"})

(* Where each role is, unless it left while its joining was under way.     *)
RolesOK ==
  \A r \in Roles \ overlapped :
    /\ r \in Local => LocalFine(r)
    /\ r \notin Local /\ r.proc \notin dropped => PresentFine(r)
    /\ r \notin Local /\ r.proc \in dropped => DroppedFine(r)

(* Thread t has yet to call endpoint e about r.                            *)
Calls(t, opt, e, r) ==
  Does(t, opt, r, {"graph"}) \/ (Does(t, opt, r, {"call"}) /\ e \in thread[t].slots)

(* Endpoint e is enabled only for peers in the table, or ones whose LEAVE  *)
(* it will be told of; before it connects, for none.                       *)
EnabledFine(e, r) ==
  /\ r.id \in peers[e.id] /\ e \in slots =>
       /\ Opposite(e, r)
       /\ r \in Known \cup overlapped \/ \E t \in Threads : Calls(t, "leave", e, r)
  /\ At(e, "enable") /\ r \in thread[e].found => Opposite(e, r) /\ r \in Known \cup overlapped
  /\ e \notin slots /\ status[e] = "new" => r.id \notin peers[e.id]

(* Endpoint e has heard of r, or is about to.                              *)
Reached(e, r) ==
  \/ r.id \in peers[e.id]
  \/ At(e, "enable") /\ r \in thread[e].found
  \/ \E t \in Threads : Calls(t, "join", e, r)

(* The endpoints and the table.                                            *)
PeersOK ==
  /\ \A e \in Local, r \in Roles : EnabledFine(e, r)
  /\ \A e \in slots, r \in Known : Opposite(e, r) /\ ~At(e, "get") => Reached(e, r)

(* A role that is being announced is in the table, or left meanwhile.      *)
JoinersOK ==
  \A t \in Threads, r \in Roles :
    Does(t, "join", r, {"graph", "call"}) => r \in Known \cup overlapped

(* The inductive invariant.                                                *)
TableInv ==
  /\ ThreadsOK /\ InboxOK /\ SettledOK /\ KeysOK /\ LeftOK /\ NodesOK /\ RolesOK /\ JoinersOK
  /\ NoSharedReceiver => PeersOK

-----------------------------------------------------------------------------
(* Sequences of messages *)

(* What Append does.                                                       *)
LEMMA SeqFacts ==
  ASSUME NEW S, NEW s \in Seq(S), NEW m \in S
  PROVE  /\ Append(s, m) \in Seq(S)
         /\ Len(Append(s, m)) = Len(s) + 1 /\ Len(s) \in Nat
         /\ \A i \in 1..Len(s) : Append(s, m)[i] = s[i] /\ s[i] \in S
         /\ Append(s, m)[Len(s) + 1] = m
  BY SMTT(30)

(* What Tail does.                                                         *)
LEMMA TailFacts ==
  ASSUME NEW S, NEW s \in Seq(S), s # <<>>
  PROVE  /\ Tail(s) \in Seq(S) /\ Head(s) = s[1] /\ Head(s) \in S
         /\ Len(Tail(s)) = Len(s) - 1 /\ Len(s) \in Nat /\ Len(s) > 0
         /\ \A i \in 1..Len(Tail(s)) : Tail(s)[i] = s[i + 1]
  OBVIOUS

(* Publishing adds one message to the inbox of its sender.                 *)
LEMMA SentAppended ==
  ASSUME inbox \in [Others -> Seq(Msg)], NEW q \in Others, NEW m \in Msg,
         inbox'[q] = Append(inbox[q], m), \A p \in Others \ {q} : inbox'[p] = inbox[p]
  PROVE  \A p \in Others : \A opt, r :
           Sent(p, opt, r)' <=> Sent(p, opt, r) \/ (p = q /\ m.opt = opt /\ m.role = r)
<1>1. \A p \in Others \ {q} : inbox'[p] = inbox[p]
  BY Zenon
<1>2. inbox'[q] = Append(inbox[q], m) /\ inbox[q] \in Seq(Msg)
  BY Zenon
<1>3. /\ Len(inbox'[q]) = Len(inbox[q]) + 1 /\ Len(inbox[q]) \in Nat
      /\ \A i \in 1..Len(inbox[q]) : inbox'[q][i] = inbox[q][i]
      /\ inbox'[q][Len(inbox[q]) + 1] = m
  BY <1>2, SeqFacts
<1>4. ASSUME NEW opt, NEW r
      PROVE  Sent(q, opt, r)' <=> Sent(q, opt, r) \/ (m.opt = opt /\ m.role = r)
  <2>1. Sent(q, opt, r)' <=> \E i \in 1..(Len(inbox[q]) + 1) : inbox'[q][i].opt = opt /\ inbox'[q][i].role = r
    BY <1>3, Zenon DEF Sent
  <2>2. \A i \in 1..(Len(inbox[q]) + 1) : i \in 1..Len(inbox[q]) \/ i = Len(inbox[q]) + 1
    BY <1>3
  <2>3. Len(inbox[q]) + 1 \in 1..(Len(inbox[q]) + 1) /\ \A i \in 1..Len(inbox[q]) : i \in 1..(Len(inbox[q]) + 1)
    BY <1>3
  <2> QED
    BY <1>3, <2>1, <2>2, <2>3, Zenon DEF Sent
<1>5. ASSUME NEW p \in Others \ {q}, NEW opt, NEW r
      PROVE  Sent(p, opt, r)' <=> Sent(p, opt, r)
  BY <1>1, Zenon DEF Sent
<1> QED
  BY <1>4, <1>5, ZenonT(40)

(* Receiving takes the first message of an inbox: with the messages of a   *)
(* role in order, its JOIN was not sent a second time.                     *)
LEMMA SentReceived ==
  ASSUME inbox \in [Others -> Seq(Msg)], NEW q \in Others, inbox[q] # <<>>,
         inbox'[q] = Tail(inbox[q]), \A p \in Others \ {q} : inbox'[p] = inbox[p]
  PROVE  /\ \A p \in Others : \A opt, r : Sent(p, opt, r)' => Sent(p, opt, r)
         /\ \A p \in Others : \A opt, r :
              Sent(p, opt, r) => Sent(p, opt, r)' \/ (p = q /\ Head(inbox[q]).opt = opt /\ Head(inbox[q]).role = r)
         /\ Head(inbox[q]) \in Msg
         /\ Sent(q, Head(inbox[q]).opt, Head(inbox[q]).role)
<1>1. \A p \in Others \ {q} : inbox'[p] = inbox[p]
  BY Zenon
<1>2. inbox'[q] = Tail(inbox[q]) /\ inbox[q] \in Seq(Msg)
  BY Zenon
<1>3. /\ Len(inbox'[q]) = Len(inbox[q]) - 1 /\ Len(inbox[q]) \in Nat /\ Len(inbox[q]) > 0
      /\ \A i \in 1..Len(inbox'[q]) : inbox'[q][i] = inbox[q][i + 1]
      /\ Head(inbox[q]) = inbox[q][1] /\ Head(inbox[q]) \in Msg
  BY <1>2, TailFacts
<1>4. ASSUME NEW opt, NEW r, Sent(q, opt, r)' PROVE Sent(q, opt, r)
  <2>1. PICK i \in 1..Len(inbox'[q]) : inbox'[q][i].opt = opt /\ inbox'[q][i].role = r
    BY <1>4, Zenon DEF Sent
  <2>2. i + 1 \in 1..Len(inbox[q]) /\ inbox'[q][i] = inbox[q][i + 1]
    BY <1>3
  <2> QED
    BY <2>1, <2>2, Zenon DEF Sent
<1>5. ASSUME NEW opt, NEW r, Sent(q, opt, r), ~(Head(inbox[q]).opt = opt /\ Head(inbox[q]).role = r)
      PROVE  Sent(q, opt, r)'
  <2>1. PICK i \in 1..Len(inbox[q]) : inbox[q][i].opt = opt /\ inbox[q][i].role = r
    BY <1>5, Zenon DEF Sent
  <2>2. i # 1
    BY <1>3, <1>5, <2>1, Zenon
  <2>3. i - 1 \in 1..Len(inbox'[q]) /\ inbox'[q][i - 1] = inbox[q][i]
    BY <1>3, <2>2
  <2> QED
    BY <2>1, <2>3, Zenon DEF Sent
<1>6. ASSUME NEW p \in Others \ {q}, NEW opt, NEW r
      PROVE  Sent(p, opt, r)' <=> Sent(p, opt, r)
  BY <1>1, Zenon DEF Sent
<1>7. Sent(q, Head(inbox[q]).opt, Head(inbox[q]).role)
  BY <1>3 DEF Sent
<1>8. \A p \in Others : \A opt, r : Sent(p, opt, r)' => Sent(p, opt, r)
  BY <1>4, <1>6, Zenon
<1>9. \A p \in Others : \A opt, r :
        Sent(p, opt, r) => Sent(p, opt, r)' \/ (p = q /\ Head(inbox[q]).opt = opt /\ Head(inbox[q]).role = r)
  BY <1>5, <1>6, Zenon
<1> QED
  BY <1>3, <1>7, <1>8, <1>9, Zenon

(* A message that may follow those of its role leaves the inbox in order.  *)
LEMMA OrderAppended ==
  ASSUME NEW s \in Seq(Msg), NEW m \in Msg, InOrder(s),
         \A i \in 1..Len(s) : s[i].role = m.role => s[i].opt = "join" /\ m.opt = "leave"
  PROVE  InOrder(Append(s, m))
<1> DEFINE u == Append(s, m)
<1>1. /\ Len(u) = Len(s) + 1 /\ Len(s) \in Nat
      /\ \A i \in 1..Len(s) : u[i] = s[i]
      /\ u[Len(s) + 1] = m
  BY SeqFacts
<1> HIDE DEF u
<1> SUFFICES ASSUME NEW i \in 1..Len(u), NEW j \in 1..Len(u), i < j, u[i].role = u[j].role
             PROVE  u[i].opt = "join" /\ u[j].opt = "leave"
  BY Zenon DEF InOrder, u
<1>2. i \in 1..Len(s) /\ (j \in 1..Len(s) \/ j = Len(s) + 1)
  BY <1>1
<1> QED
  BY <1>1, <1>2, ZenonT(40) DEF InOrder

(* Receiving leaves the inbox in order.                                    *)
LEMMA OrderReceived ==
  ASSUME NEW s \in Seq(Msg), s # <<>>, InOrder(s)
  PROVE  /\ InOrder(Tail(s))
         /\ \A i \in 1..Len(Tail(s)) : Tail(s)[i].role = Head(s).role =>
              Head(s).opt = "join" /\ Tail(s)[i].opt = "leave"
<1>1. /\ Tail(s) \in Seq(Msg) /\ Head(s) = s[1]
      /\ Len(Tail(s)) = Len(s) - 1 /\ Len(s) \in Nat /\ Len(s) > 0
      /\ \A i \in 1..Len(Tail(s)) : Tail(s)[i] = s[i + 1]
  BY TailFacts, Zenon
<1>2. \A i \in 1..Len(Tail(s)) : i + 1 \in 1..Len(s)
  BY <1>1
<1>3. InOrder(Tail(s))
  <2> SUFFICES ASSUME NEW i \in 1..Len(Tail(s)), NEW j \in 1..Len(Tail(s)), i < j,
                      Tail(s)[i].role = Tail(s)[j].role
               PROVE  Tail(s)[i].opt = "join" /\ Tail(s)[j].opt = "leave"
    BY Zenon DEF InOrder
  <2>1. i + 1 \in 1..Len(s) /\ j + 1 \in 1..Len(s) /\ i + 1 < j + 1
    BY <1>2
  <2> QED
    BY <1>1, <2>1 DEF InOrder
<1>4. ASSUME NEW i \in 1..Len(Tail(s)), Tail(s)[i].role = Head(s).role
      PROVE  Head(s).opt = "join" /\ Tail(s)[i].opt = "leave"
  <2>1. 1 \in 1..Len(s) /\ i + 1 \in 1..Len(s) /\ 1 < i + 1
    BY <1>1, <1>2
  <2>2. s[1].role = s[i + 1].role
    BY <1>1, <1>4, Zenon
  <2>3. s[1].opt = "join" /\ s[i + 1].opt = "leave"
    BY <2>1, <2>2, Zenon DEF InOrder
  <2> QED
    BY <1>1, <2>3, Zenon
<1> QED
  BY <1>3, <1>4, Zenon

(* The threads are different, and the local roles are those of Me.         *)
LEMMA Distinct ==
  /\ sub \in Threads /\ part \in Threads /\ sub # part
  /\ sub \notin Local /\ part \notin Local /\ sub \notin Roles /\ part \notin Roles
  /\ Local \subseteq Threads /\ Local \subseteq Roles
  /\ NoRole \notin Roles
  /\ \A t \in Threads : t = sub \/ t = part \/ t \in Local
  /\ \A r \in Roles : r \in Local <=> r.proc \notin Others
  BY RolesAssumption, ThreadsAssumption, Zenon DEF Threads, Local, NoRole, Others

(* What the types say of the roles that the invariant speaks of. *)
LEMMA Typed ==
  ASSUME TypeOK
  PROVE  /\ Known \subseteq Roles /\ NodeKnown \subseteq Roles
         /\ slots \subseteq Local /\ overlapped \subseteq Roles
         /\ dropped \subseteq gone /\ gone \subseteq Others
         /\ \A t \in Threads : thread[t].found \subseteq Roles /\ thread[t].slots \subseteq Local
         /\ \A t \in Threads : thread[t].opt \in {"none", "join", "leave"}
         /\ inbox \in [Others -> Seq(Msg)]
         /\ \A q \in Others : inbox[q] \in Seq(Msg)
         /\ \A r \in Roles : status[r] \in {"new", "joined", "left"}
  BY SMTT(30) DEF TypeOK, Known, NodeKnown, Locals

(* A thread moves on; the others stay where they are. *)
LEMMA Became ==
  ASSUME TypeOK, NEW t \in Threads, NEW new, Become(t, new)
  PROVE  /\ thread'[t] = new
         /\ \A u \in Threads \ {t} : thread'[u] = thread[u]
         /\ \A opt, r, pcs : Does(t, opt, r, pcs)' <=> new.opt = opt /\ new.role = r /\ new.pc \in pcs
         /\ \A u \in Threads \ {t} : \A opt, r, pcs : Does(u, opt, r, pcs)' <=> Does(u, opt, r, pcs)
         /\ \A u \in Threads \ {t} : \A opt, e, r : Calls(u, opt, e, r)' <=> Calls(u, opt, e, r)
<1>1. thread'[t] = new /\ \A u \in Threads \ {t} : thread'[u] = thread[u]
  BY Zenon DEF TypeOK, Become
<1>2. \A opt, r, pcs : Does(t, opt, r, pcs)' <=> new.opt = opt /\ new.role = r /\ new.pc \in pcs
  BY <1>1, Zenon DEF Does
<1>3. \A u \in Threads \ {t} : \A opt, r, pcs : Does(u, opt, r, pcs)' <=> Does(u, opt, r, pcs)
  BY <1>1, Zenon DEF Does
<1>4. \A u \in Threads \ {t} : \A opt, e, r : Calls(u, opt, e, r)' <=> Calls(u, opt, e, r)
  BY <1>1, <1>3, Zenon DEF Calls
<1> QED
  BY <1>1, <1>2, <1>3, <1>4, Zenon

(* A step of a thread that has no change to dispose of, before and after. *)
LEMMA Quiet ==
  ASSUME TypeOK, NEW t \in Threads, NEW new, Become(t, new),
         thread[t].opt = "none", new.opt = "none"
  PROVE  /\ \A u \in Threads, opt \in {"join", "leave"} : \A r, pcs :
              Does(u, opt, r, pcs)' <=> Does(u, opt, r, pcs)
         /\ \A u \in Threads, opt \in {"join", "leave"} : \A e, r :
              Calls(u, opt, e, r)' <=> Calls(u, opt, e, r)
         /\ \A r : Joining(r)' <=> Joining(r)
<1>1. \A u \in Threads, opt \in {"join", "leave"} : \A r, pcs :
              Does(u, opt, r, pcs)' <=> Does(u, opt, r, pcs)
  BY Became DEF Does
<1>2. \A u \in Threads, opt \in {"join", "leave"} : \A e, r :
              Calls(u, opt, e, r)' <=> Calls(u, opt, e, r)
  <2> SUFFICES ASSUME NEW u \in Threads, NEW opt \in {"join", "leave"}, NEW e, NEW r
               PROVE  Calls(u, opt, e, r)' <=> Calls(u, opt, e, r)
    BY Zenon
  <2>1. CASE u = t
    <3>1. ~Calls(t, opt, e, r)
      BY Zenon DEF Calls, Does
    <3>2. ~Calls(t, opt, e, r)'
      BY Became, SMTT(30) DEF Calls
    <3> QED
      BY <2>1, <3>1, <3>2, Zenon
  <2>2. CASE u # t
    BY <2>2, Became, Zenon
  <2> QED
    BY <2>1, <2>2, Zenon
<1>3. \A r : Joining(r)' <=> Joining(r)
  BY <1>1, Zenon DEF Joining
<1> QED
  BY <1>1, <1>2, <1>3, SMTT(30)

(* It is enough to look at the thread that moves. *)
LEMMA OneThread ==
  ASSUME TypeOK, ThreadsOK, NEW t \in Threads,
         \A u \in Threads \ {t} : thread'[u] = thread[u],
         \A e \in slots \ {t} : e \in slots',
         \A r \in Roles \ {t} : status'[r] = status[r],
         dropped \subseteq dropped',
         ThreadFine(t)', t \in Local => LocalThread(t)', t = sub => SubThread', t = part => PartThread'
  PROVE  ThreadsOK'
<1>1. ASSUME NEW u \in Threads PROVE ThreadFine(u)'
  BY Distinct, Typed, SMTT(30) DEF ThreadsOK, ThreadFine
<1>2. ASSUME NEW e \in Local PROVE LocalThread(e)'
  BY Distinct, SMTT(30) DEF ThreadsOK, LocalThread
<1>3. SubThread'
  <2>1. CASE t # sub
    <3>1. thread'[sub] = thread[sub]
      BY <2>1, Distinct, SMTT(30)
    <3>2. thread[sub].opt # "none" =>
            thread[sub].role \in Roles /\ thread[sub].role \notin Local /\ thread[sub].role # t
      <4>1. \A r \in Roles : r = t => r \in Local
        BY Distinct, Zenon
      <4> QED
        BY <4>1, Distinct, SMTT(30) DEF ThreadsOK, ThreadFine, SubThread
    <3> QED
      BY <3>1, <3>2, Typed, Distinct, SMTT(30) DEF ThreadsOK, SubThread
  <2> QED
    BY <2>1, SMTT(30)
<1>4. PartThread'
  BY Distinct, Zenon DEF ThreadsOK, PartThread
<1> QED
  BY <1>1, <1>2, <1>3, <1>4, SMTT(30) DEF ThreadsOK

(* The threads and tables alone. *)
LEMMA SameThreads ==
  ASSUME UNCHANGED thread
  PROVE  /\ \A t, opt, r, pcs : Does(t, opt, r, pcs)' <=> Does(t, opt, r, pcs)
         /\ \A t, opt, e, r : Calls(t, opt, e, r)' <=> Calls(t, opt, e, r)
         /\ \A r : Joining(r)' <=> Joining(r)
         /\ \A t, pc : At(t, pc)' <=> At(t, pc)
<1>1. \A t, opt, r, pcs : Does(t, opt, r, pcs)' <=> Does(t, opt, r, pcs)
  BY Zenon DEF Does
<1>2. \A t, opt, e, r : Calls(t, opt, e, r)' <=> Calls(t, opt, e, r)
  BY <1>1, Zenon DEF Calls
<1>3. \A r : Joining(r)' <=> Joining(r)
  BY <1>1, Zenon DEF Joining
<1> QED
  BY <1>1, <1>2, <1>3, Zenon DEF At

(* The inboxes alone.                                                      *)
LEMMA SameInbox ==
  ASSUME UNCHANGED inbox
  PROVE  /\ \A q, opt, r : Sent(q, opt, r)' <=> Sent(q, opt, r)
         /\ \A r : JoinSent(r)' <=> JoinSent(r)
<1>1. \A q, opt, r : Sent(q, opt, r)' <=> Sent(q, opt, r)
  BY Zenon DEF Sent
<1> QED
  BY <1>1, Zenon DEF JoinSent

(* The tables alone.                                                       *)
LEMMA SameTables ==
  ASSUME UNCHANGED <<nodeRoles, chanRoles>>
  PROVE  Known' = Known /\ NodeKnown' = NodeKnown
  BY Zenon DEF Known, NodeKnown

-----------------------------------------------------------------------------
(* The other processes, the middleware and the endpoints *)

(* Another process publishes a JOIN.                                       *)
LEMMA RemoteJoinKeeps ==
  ASSUME TypeOK, TableInv, NEW r \in Roles, RemoteJoin(r)
  PROVE  TableInv'
<1> DEFINE m == [opt |-> "join", role |-> r]
           q == r.proc
<1>0. /\ r \notin Local /\ q \notin gone /\ status[r] = "new" /\ q \in Others /\ m \in Msg
      /\ status' = [status EXCEPT ![r] = "joined"]
      /\ inbox' = [inbox EXCEPT ![q] = Append(@, m)]
      /\ m.opt = "join" /\ m.role = r
  BY Distinct, Zenon DEF RemoteJoin, Msg
<1>1. UNCHANGED <<gone, dropped, nodeRoles, chanRoles, graph, slots, peers, thread, overlapped>>
  BY Zenon DEF RemoteJoin
<1> HIDE DEF m, q
<1>3. /\ \A p \in Others : \A opt, s : Sent(p, opt, s)' <=> Sent(p, opt, s) \/ (p = q /\ opt = "join" /\ s = r)
      /\ \A p \in Others \ {q} : inbox'[p] = inbox[p]
      /\ inbox'[q] = Append(inbox[q], m)
  <2>1. inbox'[q] = Append(inbox[q], m) /\ \A p \in Others \ {q} : inbox'[p] = inbox[p]
    BY <1>0, Typed, SMTT(30)
  <2>2. \A p \in Others : \A opt, s : Sent(p, opt, s)' <=> Sent(p, opt, s) \/ (p = q /\ m.opt = opt /\ m.role = s)
    BY <1>0, <2>1, SentAppended, Typed
  <2> QED
    BY <1>0, <2>1, <2>2, SMTT(30)
<1>4. status'[r] = "joined" /\ \A s \in Roles \ {r} : status'[s] = status[s]
  BY <1>0, Zenon DEF TypeOK
<1>6. \A s : JoinSent(s)' <=> JoinSent(s) \/ s = r
  BY <1>0, <1>3, Zenon DEF JoinSent
<1>7. \A s \in Roles : Settled(s) => Settled(s)'
  BY <1>0, <1>1, <1>4, <1>6, SameThreads, SMTT(30) DEF Settled
<1>8. ThreadsOK'
  BY <1>0, <1>1, <1>4, Distinct, Typed DEF TableInv, ThreadsOK, ThreadFine,
     LocalThread, SubThread, PartThread
<1>9. InboxOK'
  <2>1. \A i \in 1..Len(inbox[q]) : inbox[q][i].role # r
    <3> SUFFICES ASSUME NEW i \in 1..Len(inbox[q]), inbox[q][i].role = r PROVE FALSE
      BY Zenon
    <3>1. inbox[q][i] \in Msg
      BY <1>0, Typed, SeqFacts, ZenonT(40)
    <3>2. Sent(q, inbox[q][i].opt, r) /\ inbox[q][i].opt \in {"join", "leave"}
      BY <3>1, SMTT(30) DEF Sent, Msg
    <3> QED
      BY <1>0, <3>2 DEF TableInv, InboxOK
  <2>2. InOrder(inbox'[q])
    BY <1>0, <1>3, <2>1, OrderAppended, Typed DEF TableInv, InboxOK
  <2>3. q \notin dropped
    BY <1>0, Typed, Zenon
  <2> QED
    BY <1>0, <1>1, <1>4, <1>3, <2>2, <2>3, Distinct DEF TableInv, InboxOK, q
<1>10. SettledOK'
  <2>1. \A s \in Roles : ~(Joining(s)' /\ JoinSent(s)')
    <3>1. ~Joining(r)
      BY <1>0, Distinct, Typed, ZenonT(40) DEF TableInv, ThreadsOK, ThreadFine,
         LocalThread, SubThread, PartThread, Joining, Does
    <3> QED
      BY <3>1, <1>1, <1>6, SameThreads, Zenon DEF TableInv, SettledOK
  <2> QED
    BY <1>0, <1>1, <1>7, <2>1, Distinct, Typed, SameTables, ZenonT(40) DEF TableInv,
       SettledOK, ThreadsOK, ThreadFine, LocalThread, SubThread, PartThread
<1>11. KeysOK' /\ LeftOK' /\ NodesOK' /\ JoinersOK'
  BY <1>1, SameThreads, SameTables, SMTT(30) DEF TableInv, KeysOK, LeftOK,
     NodesOK, JoinersOK
<1>13. RolesOK'
  <2> SUFFICES ASSUME NEW s \in Roles \ overlapped
               PROVE  /\ s \in Local => LocalFine(s)'
                      /\ s \notin Local /\ s.proc \notin dropped => PresentFine(s)'
                      /\ s \notin Local /\ s.proc \in dropped => DroppedFine(s)'
    BY <1>1, Zenon DEF RolesOK
  <2>1. ASSUME s \in Local PROVE LocalFine(s)'
    BY <1>0, <1>1, <1>4, <2>1, SameThreads, SameTables, SMTT(30) DEF TableInv,
       RolesOK, LocalFine
  <2>2. ASSUME s \notin Local, s.proc \notin dropped PROVE PresentFine(s)'
    <3>1. s.proc \in Others
      BY <2>2, Distinct, SMTT(30)
    <3>2. CASE s = r
      BY <1>3, <1>4, <3>1, <3>2, SMTT(30) DEF PresentFine, q
    <3>3. CASE s # r
      <4>1. status'[s] = status[s] /\ \A opt : Sent(s.proc, opt, s)' <=> Sent(s.proc, opt, s)
        BY <1>3, <1>4, <3>1, <3>3
      <4>2. PresentFine(s)
        BY <2>2, SMTT(30) DEF TableInv, RolesOK
      <4> QED
        BY <1>1, <4>1, <4>2, SameThreads, SameTables, SMTT(30) DEF PresentFine
    <3> QED
      BY <3>2, <3>3, Zenon
  <2>3. ASSUME s \notin Local, s.proc \in dropped PROVE DroppedFine(s)'
    BY <1>1, <2>3, SameThreads, SameTables, Zenon DEF TableInv, RolesOK, DroppedFine
  <2> QED
    BY <2>1, <2>2, <2>3, Zenon
<1>15. NoSharedReceiver => PeersOK'
  <2>1. \A e \in Local : status'[e] = status[e]
    BY <1>0, <1>4, Distinct, Zenon
  <2> QED
    BY <1>1, <2>1, SameThreads, SameTables, Zenon DEF TableInv, PeersOK,
       EnabledFine, Reached
<1> QED
  BY <1>8, <1>9, <1>10, <1>11, <1>13, <1>15, Zenon DEF TableInv, NoSharedReceiver

(* Another process publishes a LEAVE.                                      *)
LEMMA RemoteLeaveKeeps ==
  ASSUME TypeOK, TableInv, NEW r \in Roles, RemoteLeave(r)
  PROVE  TableInv'
<1> DEFINE m == [opt |-> "leave", role |-> r]
           q == r.proc
<1>0. /\ r \notin Local /\ q \notin gone /\ status[r] = "joined" /\ q \in Others /\ m \in Msg
      /\ status' = [status EXCEPT ![r] = "left"]
      /\ inbox' = [inbox EXCEPT ![q] = Append(@, m)]
      /\ m.opt = "leave" /\ m.role = r
  BY Distinct, Zenon DEF RemoteLeave, Msg
<1>1. UNCHANGED <<gone, dropped, nodeRoles, chanRoles, graph, slots, peers, thread, overlapped>>
  BY Zenon DEF RemoteLeave
<1> HIDE DEF m, q
<1>3. /\ \A p \in Others : \A opt, s : Sent(p, opt, s)' <=> Sent(p, opt, s) \/ (p = q /\ opt = "leave" /\ s = r)
      /\ \A p \in Others \ {q} : inbox'[p] = inbox[p]
      /\ inbox'[q] = Append(inbox[q], m)
  <2>1. inbox'[q] = Append(inbox[q], m) /\ \A p \in Others \ {q} : inbox'[p] = inbox[p]
    BY <1>0, Typed, SMTT(30)
  <2>2. \A p \in Others : \A opt, s : Sent(p, opt, s)' <=> Sent(p, opt, s) \/ (p = q /\ m.opt = opt /\ m.role = s)
    BY <1>0, <2>1, SentAppended, Typed, SMTT(30)
  <2> QED
    BY <1>0, <2>1, <2>2, ZenonT(40)
<1>4. status'[r] = "left" /\ \A s \in Roles \ {r} : status'[s] = status[s]
  BY <1>0, Zenon DEF TypeOK
<1>6. \A s : JoinSent(s)' <=> JoinSent(s)
  BY <1>0, <1>3 DEF JoinSent
<1>7. \A s \in Roles : Settled(s) => Settled(s)'
  BY <1>0, <1>1, <1>4, <1>6, SameThreads, Zenon DEF Settled
<1>8. ThreadsOK'
  BY <1>0, <1>1, <1>4, Distinct, Typed, SMTT(30) DEF TableInv, ThreadsOK,
     ThreadFine, LocalThread, SubThread, PartThread
<1>9. InboxOK'
  <2>1. \A i \in 1..Len(inbox[q]) : inbox[q][i].role = r => inbox[q][i].opt = "join"
    <3> SUFFICES ASSUME NEW i \in 1..Len(inbox[q]), inbox[q][i].role = r, inbox[q][i].opt # "join"
                 PROVE  FALSE
      BY Zenon
    <3>1. inbox[q][i] \in Msg
      BY <1>0, Typed, SeqFacts, SMTT(30)
    <3>2. Sent(q, "leave", r)
      BY <3>1, Zenon DEF Sent, Msg
    <3> QED
      BY <1>0, <3>2, Zenon DEF TableInv, InboxOK
  <2>2. InOrder(inbox'[q])
    BY <1>0, <1>3, <2>1, OrderAppended, Typed, SMTT(30) DEF TableInv, InboxOK
  <2>3. q \notin dropped
    BY <1>0, Typed, Zenon
  <2> QED
    BY <1>0, <1>1, <1>4, <1>3, <2>2, <2>3, Distinct, SMTT(30) DEF TableInv,
       InboxOK, q
<1>10. SettledOK'
  BY <1>0, <1>1, <1>6, <1>7, Distinct, Typed, SameTables, SameThreads,
     ZenonT(40) DEF TableInv, SettledOK, ThreadsOK, ThreadFine, LocalThread,
     SubThread, PartThread
<1>11. KeysOK' /\ LeftOK' /\ NodesOK' /\ JoinersOK'
  BY <1>1, SameThreads, SameTables, SMTT(30) DEF TableInv, KeysOK, LeftOK,
     NodesOK, JoinersOK
<1>13. RolesOK'
  <2> SUFFICES ASSUME NEW s \in Roles \ overlapped
               PROVE  /\ s \in Local => LocalFine(s)'
                      /\ s \notin Local /\ s.proc \notin dropped => PresentFine(s)'
                      /\ s \notin Local /\ s.proc \in dropped => DroppedFine(s)'
    BY <1>1, Zenon DEF RolesOK
  <2>1. ASSUME s \in Local PROVE LocalFine(s)'
    BY <1>0, <1>1, <1>4, <2>1, SameThreads, SameTables, Zenon DEF TableInv,
       RolesOK, LocalFine
  <2>2. ASSUME s \notin Local, s.proc \notin dropped PROVE PresentFine(s)'
    <3>1. s.proc \in Others
      BY <2>2, Distinct, Zenon
    <3>2. CASE s = r
      BY <1>3, <1>4, <3>1, <3>2, Zenon DEF PresentFine, q
    <3>3. CASE s # r
      <4>1. status'[s] = status[s] /\ \A opt : Sent(s.proc, opt, s)' <=> Sent(s.proc, opt, s)
        BY <1>3, <1>4, <3>1, <3>3
      <4>2. PresentFine(s)
        BY <2>2, Zenon DEF TableInv, RolesOK
      <4> QED
        BY <1>1, <4>1, <4>2, SameThreads, SameTables, Zenon DEF PresentFine
    <3> QED
      BY <3>2, <3>3, Zenon
  <2>3. ASSUME s \notin Local, s.proc \in dropped PROVE DroppedFine(s)'
    BY <1>1, <2>3, SameThreads, SameTables, Zenon DEF TableInv, RolesOK, DroppedFine
  <2> QED
    BY <2>1, <2>2, <2>3, Zenon
<1>15. NoSharedReceiver => PeersOK'
  <2>1. \A e \in Local : status'[e] = status[e]
    BY <1>0, <1>4, Distinct, Zenon
  <2> QED
    BY <1>1, <2>1, SameThreads, SameTables, Zenon DEF TableInv, PeersOK,
       EnabledFine, Reached
<1> QED
  BY <1>8, <1>9, <1>10, <1>11, <1>13, <1>15, Zenon DEF TableInv, NoSharedReceiver

(* A step that changes nothing the invariant speaks of. *)
LEMMA IdleKeeps ==
  ASSUME TableInv, UNCHANGED <<status, dropped, inbox, nodeRoles, chanRoles, slots, peers,
                               thread, overlapped>>
  PROVE  TableInv'
<1>1. \A r : Settled(r)' <=> Settled(r)
  BY SameThreads, SameInbox, SMTT(30) DEF Settled
<1>2. ThreadsOK' /\ InboxOK'
  BY SameInbox DEF TableInv, ThreadsOK, ThreadFine, LocalThread, SubThread,
     PartThread, InboxOK
<1>3. SettledOK' /\ KeysOK' /\ LeftOK' /\ NodesOK' /\ JoinersOK'
  <2>0. Known' = Known /\ NodeKnown' = NodeKnown
    BY SameTables, Zenon
  <2>1. SettledOK'
    BY <1>1, <2>0, SameThreads, SameInbox, Zenon DEF TableInv, SettledOK
  <2>2. KeysOK'
    BY Zenon DEF TableInv, KeysOK
  <2>3. LeftOK' /\ JoinersOK'
    BY <2>0, SameThreads, Zenon DEF TableInv, LeftOK, JoinersOK
  <2>4. NodesOK'
    BY <2>0, SameThreads, Zenon DEF TableInv, NodesOK
  <2> QED
    BY <2>1, <2>2, <2>3, <2>4, Zenon
<1>4. RolesOK'
  BY SameThreads, SameInbox, SameTables, Zenon DEF TableInv, RolesOK, LocalFine,
     PresentFine, DroppedFine
<1>5. NoSharedReceiver => PeersOK'
  BY SameThreads, SameTables, Zenon DEF TableInv, PeersOK, EnabledFine, Reached
<1> QED
  BY <1>2, <1>3, <1>4, <1>5, Zenon DEF TableInv, NoSharedReceiver

(* The subscriber takes up the first message of a process.                 *)
LEMMA OnRemoteChangeKeeps ==
  ASSUME TypeOK, TableInv, NEW q \in Others, OnRemoteChange(q)
  PROVE  TableInv'
<1>m. PICK m : m = Head(inbox[q])
  BY Zenon
<1>n. PICK new : new = Dispose(m, {})
  BY Zenon
<1>0. /\ At(sub, "idle") /\ inbox[q] # <<>> /\ Become(sub, new)
      /\ inbox' = [inbox EXCEPT ![q] = Tail(@)]
      /\ new.pc = "node" /\ new.opt = m.opt /\ new.role = m.role
  BY <1>m, <1>n, Zenon DEF OnRemoteChange, Dispose
<1>1. UNCHANGED <<status, gone, dropped, nodeRoles, chanRoles, graph, slots, peers, overlapped>>
  BY Zenon DEF OnRemoteChange
<1>0b. Known' = Known /\ NodeKnown' = NodeKnown
  BY <1>1, SameTables, Zenon
<1>a. inbox'[q] = Tail(inbox[q]) /\ \A p \in Others \ {q} : inbox'[p] = inbox[p]
  BY <1>0, Zenon DEF TypeOK
<1>2. /\ \A p \in Others : \A opt, s : Sent(p, opt, s)' => Sent(p, opt, s)
      /\ \A p \in Others : \A opt, s :
           Sent(p, opt, s) => Sent(p, opt, s)' \/ (p = q /\ m.opt = opt /\ m.role = s)
      /\ m \in Msg /\ Sent(q, m.opt, m.role)
  BY <1>0, <1>a, <1>m, SentReceived, Typed, SMTT(30)
<1>3. m.opt \in {"join", "leave"} /\ m.role \in Roles
  BY <1>2, Zenon DEF Msg
<1>4. thread[sub].opt = "none" /\ thread[sub].role = NoRole
  BY <1>0, Distinct, Zenon DEF At, TableInv, ThreadsOK, ThreadFine, LocalThread,
     SubThread, PartThread
<1>5. /\ thread'[sub] = new /\ \A u \in Threads \ {sub} : thread'[u] = thread[u]
      /\ \A opt, s, pcs : Does(sub, opt, s, pcs)' <=> m.opt = opt /\ m.role = s /\ "node" \in pcs
      /\ \A u \in Threads \ {sub} : \A opt, s, pcs : Does(u, opt, s, pcs)' <=> Does(u, opt, s, pcs)
      /\ \A u \in Threads \ {sub} : \A opt, e, s : Calls(u, opt, e, s)' <=> Calls(u, opt, e, s)
  <2>1. sub \in Threads
    BY Distinct, Zenon
  <2>2. /\ thread'[sub] = new /\ \A u \in Threads \ {sub} : thread'[u] = thread[u]
        /\ \A opt, s, pcs : Does(sub, opt, s, pcs)' <=> new.opt = opt /\ new.role = s /\ new.pc \in pcs
        /\ \A u \in Threads \ {sub} : \A opt, s, pcs : Does(u, opt, s, pcs)' <=> Does(u, opt, s, pcs)
        /\ \A u \in Threads \ {sub} : \A opt, e, s : Calls(u, opt, e, s)' <=> Calls(u, opt, e, s)
    BY <1>0, <2>1, Became, Zenon
  <2> QED
    BY <1>0, <2>2, Zenon
<1>6. /\ \A opt \in {"join", "leave"} : \A s, pcs : ~Does(sub, opt, s, pcs)
      /\ \A opt \in {"join", "leave"} : \A e, s : ~Calls(sub, opt, e, s) /\ ~Calls(sub, opt, e, s)'
  <2>1. \A opt \in {"join", "leave"} : \A s, pcs : ~Does(sub, opt, s, pcs)
    BY <1>4, Zenon DEF Does
  <2> QED
    BY <1>5, <2>1, ZenonT(40) DEF Calls
(* The message came from its role's process, and no JOIN follows it. *)
<1>7. /\ m.role.proc = q /\ m.role \notin Local /\ status[m.role] # "new" /\ q \notin dropped
      /\ m.opt = "leave" => status[m.role] = "left"
  <2>1. /\ \A r \in Roles : Sent(q, "join", r) => r.proc = q /\ status[r] # "new"
        /\ \A r \in Roles : Sent(q, "leave", r) => r.proc = q /\ status[r] = "left"
        /\ q \in dropped => inbox[q] = <<>>
    BY Zenon DEF TableInv, InboxOK
  <2>2. m.role.proc = q /\ status[m.role] # "new" /\ (m.opt = "leave" => status[m.role] = "left")
    BY <1>2, <1>3, <2>1, Zenon
  <2> QED
    BY <1>0, <1>3, <2>1, <2>2, Distinct, Zenon
<1>8. ~JoinSent(m.role)'
  <2> SUFFICES ASSUME NEW p \in Others, Sent(p, "join", m.role)' PROVE FALSE
    BY Zenon DEF JoinSent
  <2>1. p = q
    BY <1>2, <1>3, <1>7, Zenon DEF TableInv, InboxOK
  <2>2. PICK i \in 1..Len(Tail(inbox[q])) : Tail(inbox[q])[i].opt = "join" /\ Tail(inbox[q])[i].role = m.role
    BY <1>a, <2>1, ZenonT(40) DEF Sent
  <2>3. InOrder(inbox[q]) /\ inbox[q] \in Seq(Msg)
    BY Typed, Zenon DEF TableInv, InboxOK
  <2>4. Tail(inbox[q])[i].opt = "leave"
    BY <1>0, <2>2, <2>3, <1>m, OrderReceived, Zenon
  <2> QED
    BY <2>2, <2>4, Zenon
<1>9. /\ \A s : JoinSent(s)' => JoinSent(s)
      /\ \A s : Joining(s)' <=> Joining(s) \/ (m.opt = "join" /\ s = m.role)
  <2>1. \A s : JoinSent(s)' => JoinSent(s)
    BY <1>2, Zenon DEF JoinSent
  <2> QED
    BY <2>1, <1>5, <1>6, Distinct, SMTT(30) DEF Joining
<1>10. \A s \in Roles : Settled(s) => Settled(s)'
  <2>1. m.opt = "join" => JoinSent(m.role)
    BY <1>2, Zenon DEF JoinSent
  <2> QED
    BY <1>1, <1>9, <2>1 DEF Settled
<1>11. ThreadsOK'
  <2>1. ThreadFine(sub)' /\ SubThread'
    BY <1>0, <1>1, <1>3, <1>5, <1>7, Distinct, ZenonT(40) DEF ThreadFine, SubThread
  <2> QED
    BY <1>1, <1>5, <2>1, Distinct, OneThread, Zenon DEF TableInv
<1>12. InboxOK'
  <2>1. InOrder(inbox'[q])
    BY <1>0, <1>a, OrderReceived, Typed, SMTT(30) DEF TableInv, InboxOK
  <2> QED
    BY <1>1, <1>2, <1>7, <1>a, <2>1, SMTT(30) DEF TableInv, InboxOK
<1>13. SettledOK'
  <2>1. m.opt = "leave" => Settled(m.role)'
    <3>1. ~Joining(m.role)
      BY <1>3, <1>6, <1>7, Distinct, ZenonT(40) DEF TableInv, ThreadsOK, ThreadFine,
         LocalThread, SubThread, PartThread, Joining, Does
    <3> QED
      BY <1>1, <1>7, <1>8, <1>9, <3>1, Zenon DEF Settled
  <2>2. \A t \in Threads, s \in Roles : thread'[t].opt = "leave" /\ thread'[t].role = s => Settled(s)'
    <3> SUFFICES ASSUME NEW t \in Threads, NEW s \in Roles, thread'[t].opt = "leave", thread'[t].role = s
                 PROVE  Settled(s)'
      BY Zenon
    <3>1. CASE t = sub
      BY <1>0, <1>5, <2>1, <3>1, Zenon
    <3>2. CASE t # sub
      BY <1>5, <1>10, <3>2 DEF TableInv, SettledOK
    <3> QED
      BY <3>1, <3>2, Zenon
  <2>3. \A s \in Known : Settled(s)'
    BY <1>10, Typed, Zenon DEF TableInv, SettledOK
  <2>4. \A s \in thread'[part].found : Settled(s)'
    BY <1>5, <1>10, Distinct, Typed, Zenon DEF TableInv, SettledOK
  <2>5. \A s \in Roles : ~(Joining(s)' /\ JoinSent(s)')
    BY <1>8, <1>9, Zenon DEF TableInv, SettledOK
  <2> QED
    BY <1>0b, <2>2, <2>3, <2>4, <2>5, Zenon DEF SettledOK
<1>14. KeysOK' /\ LeftOK' /\ NodesOK' /\ JoinersOK'
  <2>1. \A u \in Threads, opt \in {"join", "leave"} : \A s :
          /\ Does(u, opt, s, {"channel"})' <=> Does(u, opt, s, {"channel"})
          /\ Does(u, opt, s, {"graph", "call"})' <=> Does(u, opt, s, {"graph", "call"})
          /\ Does(u, opt, s, {"channel", "graph", "call"})' <=> Does(u, opt, s, {"channel", "graph", "call"})
    BY <1>5, <1>6
  <2>2. KeysOK'
    BY <1>1, Zenon DEF TableInv, KeysOK
  <2>3. LeftOK' /\ JoinersOK'
    BY <1>1, <1>0b, <2>1, Zenon DEF TableInv, LeftOK, JoinersOK
  <2>4. NodesOK'
    BY <1>0b, <2>1, Zenon DEF TableInv, NodesOK
  <2> QED
    BY <2>2, <2>3, <2>4, Zenon
<1>15. RolesOK'
  <2> SUFFICES ASSUME NEW s \in Roles \ overlapped
               PROVE  /\ s \in Local => LocalFine(s)'
                      /\ s \notin Local /\ s.proc \notin dropped => PresentFine(s)'
                      /\ s \notin Local /\ s.proc \in dropped => DroppedFine(s)'
    BY <1>1, Zenon DEF RolesOK
  <2>1. ASSUME s \in Local PROVE LocalFine(s)'
    BY <1>1, <1>5, <1>7, <1>9, <2>1, Distinct, SameTables, Zenon DEF TableInv,
       RolesOK, LocalFine
  <2>2. ASSUME s \notin Local, s.proc \notin dropped PROVE PresentFine(s)'
    <3>1. s.proc \in Others /\ PresentFine(s)
      BY <2>2, Distinct, Zenon DEF TableInv, RolesOK
    <3>2. CASE s = m.role
      <4>1. CASE m.opt = "join"
        <5>1. Sent(q, "leave", s) => Sent(q, "leave", s)'
          BY <1>2, <4>1, Zenon
        <5>2. status[s] = "left" => Sent(q, "leave", s)
          BY <1>2, <1>6, <1>7, <3>1, <3>2, <4>1, Zenon DEF PresentFine
        <5> QED
          BY <1>1, <1>7, <1>9, <3>2, <4>1, <5>1, <5>2, Zenon DEF PresentFine
      <4>2. CASE m.opt = "leave"
        BY <1>1, <1>5, <1>7, <3>2, <4>2, Zenon DEF PresentFine
      <4> QED
        BY <1>3, <4>1, <4>2, Zenon
    <3>3. CASE s # m.role
      <4>1. \A opt : Sent(s.proc, opt, s)' <=> Sent(s.proc, opt, s)
        BY <1>2, <3>1, <3>3, Zenon
      <4> QED
        BY <1>1, <1>5, <1>6, <1>9, <3>1, <3>3, <4>1, SameTables,
           Zenon DEF PresentFine
    <3> QED
      BY <3>2, <3>3, Zenon
  <2>3. ASSUME s \notin Local, s.proc \in dropped PROVE DroppedFine(s)'
    BY <1>0, <1>1, <1>5, <1>7, <2>3, Distinct, SameTables, Zenon DEF TableInv,
       RolesOK, DroppedFine
  <2> QED
    BY <2>1, <2>2, <2>3, Zenon
<1>16. NoSharedReceiver => PeersOK'
  <2>1. \A e \in Local : \A pc : At(e, pc)' <=> At(e, pc)
    BY <1>5, Distinct, ZenonT(40) DEF At
  <2>2. \A e \in Local : thread'[e] = thread[e]
    BY <1>5, Distinct, SMTT(30)
  <2>3. \A t \in Threads, opt \in {"join", "leave"} : \A e, s : Calls(t, opt, e, s)' <=> Calls(t, opt, e, s)
    BY <1>5, <1>6
  <2>4. ASSUME NoSharedReceiver, NEW e \in Local, NEW s \in Roles PROVE EnabledFine(e, s)'
    BY <1>1, <2>1, <2>2, <2>3, <2>4, SameTables, Zenon DEF TableInv, PeersOK,
       EnabledFine
  <2>5. ASSUME NoSharedReceiver, NEW e \in slots, NEW s \in Known, Opposite(e, s), ~At(e, "get")'
        PROVE  Reached(e, s)'
    BY <1>1, <2>1, <2>2, <2>3, <2>5, SameTables, Typed, Zenon DEF TableInv,
       PeersOK, Reached
  <2> QED
    BY <1>1, <2>4, <2>5, SameTables, Zenon DEF PeersOK
<1> QED
  BY <1>11, <1>12, <1>13, <1>14, <1>15, <1>16, Zenon DEF TableInv, NoSharedReceiver

(* Search by process finds the roles of that process. *)
LEMMA SearchByProcess ==
  ASSUME TypeOK, NEW q
  PROVE  MultiSearch(chanRoles, [proc |-> q]) = {r \in Known : r.proc = q}
<1>1. \A r : Match(r, [proc |-> q]) <=> r.proc = q
  BY DEF Match, MatchedFields
<1> QED
  BY <1>1, Zenon DEF MultiSearch, Known

(* The participant listener collects the roles of a process that is gone.  *)
LEMMA OnTopoModuleLeaveKeeps ==
  ASSUME TypeOK, TableInv, NEW q \in Others, OnTopoModuleLeave(q)
  PROVE  TableInv'
<1>n. PICK new : new = [Idle EXCEPT !.pc = "each", !.found = MultiSearch(chanRoles, [proc |-> q])]
  BY Zenon
<1>0. /\ At(part, "idle") /\ q \in gone \ dropped /\ dropped' = dropped \cup {q}
      /\ inbox' = [inbox EXCEPT ![q] = <<>>] /\ Become(part, new)
      /\ overlapped' = overlapped \cup {r \in Roles : r.proc = q /\ thread[sub].role = r}
      /\ UNCHANGED <<status, gone, nodeRoles, chanRoles, graph, slots, peers>>
  BY <1>n, Zenon DEF OnTopoModuleLeave
<1>1. /\ new.pc = "each" /\ new.opt = "none" /\ new.role = NoRole
      /\ new.found = {r \in Known : r.proc = q}
  BY <1>n, SearchByProcess, Zenon DEF Idle
<1>2. thread[part].opt = "none" /\ thread[part].found = {}
  BY <1>0, Distinct, Zenon DEF At, TableInv, ThreadsOK, ThreadFine, PartThread
<1>3. inbox'[q] = <<>> /\ \A p \in Others \ {q} : inbox'[p] = inbox[p]
  BY <1>0, Typed, Zenon
<1>4. /\ \A p \in Others \ {q} : \A opt, r : Sent(p, opt, r)' <=> Sent(p, opt, r)
      /\ \A opt, r : ~Sent(q, opt, r)'
  BY <1>3 DEF Sent
<1>5. /\ thread'[part] = new /\ \A u \in Threads \ {part} : thread'[u] = thread[u]
      /\ \A t \in Threads, opt \in {"join", "leave"} : \A r, pcs : Does(t, opt, r, pcs)' <=> Does(t, opt, r, pcs)
      /\ \A t \in Threads, opt \in {"join", "leave"} : \A e, r : Calls(t, opt, e, r)' <=> Calls(t, opt, e, r)
      /\ \A r : Joining(r)' <=> Joining(r)
  BY <1>0, <1>1, <1>2, Distinct, Became, Quiet, Zenon
<1>6. \A r : JoinSent(r)' => JoinSent(r)
  BY <1>4, Zenon DEF JoinSent
<1>7. \A r : Settled(r) => Settled(r)'
  BY <1>0, <1>5, <1>6, Zenon DEF Settled
<1>8. ThreadsOK'
  <2>1. ThreadFine(part)' /\ PartThread'
    BY <1>0, <1>1, <1>5, ZenonT(40) DEF ThreadFine, PartThread
  <2> QED
    BY <1>0, <1>5, <2>1, Distinct, OneThread, Zenon DEF TableInv
<1>9. InboxOK'
  <2>1. InOrder(<<>>)
    BY DEF InOrder
  <2> QED
    BY <1>0, <1>3, <1>4, <2>1 DEF TableInv, InboxOK
<1>10. SettledOK'
  <2>1. \A t \in Threads, r \in Roles : thread'[t].opt = "leave" /\ thread'[t].role = r => Settled(r)'
    BY <1>1, <1>5, <1>7, Zenon DEF TableInv, SettledOK
  <2>2. \A r \in thread'[part].found : Settled(r)'
    BY <1>1, <1>5, <1>7, Zenon DEF TableInv, SettledOK
  <2> QED
    BY <1>0, <1>5, <1>6, <1>7, <2>1, <2>2, SameTables, Zenon DEF TableInv, SettledOK
<1>11. KeysOK' /\ LeftOK' /\ NodesOK' /\ JoinersOK'
  BY <1>0, <1>5, SameTables, ZenonT(40) DEF TableInv, KeysOK, LeftOK, NodesOK, JoinersOK
<1>12. RolesOK'
  <2> SUFFICES ASSUME NEW s \in Roles \ overlapped'
               PROVE  /\ s \in Local => LocalFine(s)'
                      /\ s \notin Local /\ s.proc \notin dropped' => PresentFine(s)'
                      /\ s \notin Local /\ s.proc \in dropped' => DroppedFine(s)'
    BY Zenon DEF RolesOK
  <2>0. s \notin overlapped
    BY <1>0, Zenon
  <2>1. ASSUME s \in Local PROVE LocalFine(s)'
    BY <1>0, <1>5, <2>0, <2>1, Distinct, SameTables, Zenon DEF TableInv, RolesOK,
       LocalFine
  <2>2. ASSUME s \notin Local, s.proc \notin dropped' PROVE PresentFine(s)'
    <3>1. s.proc \in Others \ {q} /\ PresentFine(s)
      BY <1>0, <2>0, <2>2, Distinct, Zenon DEF TableInv, RolesOK
    <3> QED
      BY <1>0, <1>4, <1>5, <3>1, Distinct, SameTables, Zenon DEF PresentFine
  <2>3. ASSUME s \notin Local, s.proc \in dropped' PROVE DroppedFine(s)'
    <3>1. CASE s.proc = q
      BY <1>0, <1>1, <1>5, <3>1, Distinct, SameTables, Zenon DEF DroppedFine
    <3>2. CASE s.proc # q
      <4>1. s.proc \in dropped /\ DroppedFine(s)
        BY <1>0, <2>0, <2>3, <3>2, Zenon DEF TableInv, RolesOK
      <4> QED
        BY <1>0, <1>2, <1>5, <4>1, Distinct, SameTables, Zenon DEF DroppedFine, Does
    <3> QED
      BY <3>1, <3>2, Zenon
  <2> QED
    BY <2>1, <2>2, <2>3, Zenon
<1>13. NoSharedReceiver => PeersOK'
  <2>1. \A e \in Local : thread'[e] = thread[e]
    BY <1>5, Distinct, Zenon
  <2>2. \A e \in Local : \A pc : At(e, pc)' <=> At(e, pc)
    BY <2>1, Zenon DEF At
  <2>4. ASSUME NoSharedReceiver, NEW e \in Local, NEW s \in Roles PROVE EnabledFine(e, s)'
    BY <1>0, <1>5, <2>1, <2>2, <2>4, SameTables, Zenon DEF TableInv, PeersOK,
       EnabledFine
  <2>5. ASSUME NoSharedReceiver, NEW e \in slots, NEW s \in Known, Opposite(e, s), ~At(e, "get")'
        PROVE  Reached(e, s)'
    BY <1>0, <1>5, <2>1, <2>2, <2>5, SameTables, Typed, Zenon DEF TableInv,
       PeersOK, Reached
  <2> QED
    BY <1>0, <2>4, <2>5, SameTables, Zenon DEF PeersOK
<1> QED
  BY <1>8, <1>9, <1>10, <1>11, <1>12, <1>13, Zenon DEF TableInv, NoSharedReceiver

(* A quiet step of an endpoint's thread that leaves the tables alone. *)
LEMMA QuietEndpoint ==
  ASSUME TypeOK, TableInv, NEW e \in Local, NEW new, Become(e, new),
         thread[e].opt = "none", new.opt = "none", new.role = NoRole,
         new.pc \in {"get", "enable"}, status[e] = "new", e \in slots',
         \A f \in slots : f \in slots',
         UNCHANGED <<status, gone, dropped, inbox, nodeRoles, chanRoles, overlapped>>,
         NoSharedReceiver => PeersOK'
  PROVE  TableInv'
<1>1. /\ thread'[e] = new /\ \A u \in Threads \ {e} : thread'[u] = thread[u]
      /\ \A t \in Threads, opt \in {"join", "leave"} : \A r, pcs : Does(t, opt, r, pcs)' <=> Does(t, opt, r, pcs)
      /\ \A r : Joining(r)' <=> Joining(r)
  BY Distinct, Became, Quiet, Zenon
<1>2. \A r : Settled(r)' <=> Settled(r)
  BY <1>1, SameInbox, Zenon DEF Settled
<1>3. ThreadsOK'
  <2>1. ThreadFine(e)' /\ LocalThread(e)'
    BY <1>1, Zenon DEF ThreadFine, LocalThread
  <2> QED
    BY <1>1, <2>1, Distinct, OneThread, Zenon DEF TableInv
<1>4. InboxOK'
  BY SameInbox, SMTT(30) DEF TableInv, InboxOK
<1>5. SettledOK'
  <2>1. \A t \in Threads, r \in Roles : thread'[t].opt = "leave" /\ thread'[t].role = r => Settled(r)'
    BY <1>1, <1>2, Zenon DEF TableInv, SettledOK
  <2>2. \A r \in thread'[part].found : Settled(r)'
    BY <1>1, <1>2, Distinct, Zenon DEF TableInv, SettledOK
  <2> QED
    BY <1>1, <1>2, <2>1, <2>2, SameTables, SameInbox, Zenon DEF TableInv, SettledOK
<1>6. KeysOK' /\ LeftOK' /\ NodesOK' /\ JoinersOK'
  BY <1>1, SameTables, SMTT(30) DEF TableInv, KeysOK, LeftOK, NodesOK, JoinersOK
<1>7. RolesOK'
  BY <1>1, Distinct, SameInbox, SameTables, ZenonT(40) DEF TableInv, RolesOK,
     LocalFine, PresentFine, DroppedFine
<1> QED
  BY <1>3, <1>4, <1>5, <1>6, <1>7, Zenon DEF TableInv, NoSharedReceiver

(* An endpoint connects its listener.                                      *)
LEMMA JoinTheTopologyKeeps ==
  ASSUME TypeOK, TableInv, NEW e \in Local, JoinTheTopology(e)
  PROVE  TableInv'
<1>n. PICK new : new = [Idle EXCEPT !.pc = "get"]
  BY Zenon
<1>0. /\ status[e] = "new" /\ At(e, "idle") /\ slots' = slots \cup {e} /\ Become(e, new)
      /\ UNCHANGED <<status, gone, dropped, inbox, nodeRoles, chanRoles, graph, peers, overlapped>>
  BY <1>n, Zenon DEF JoinTheTopology
<1>1. new.pc = "get" /\ new.opt = "none" /\ new.role = NoRole
  BY <1>n, Zenon DEF Idle
<1>2. thread[e].opt = "none"
  BY <1>0, Distinct, Zenon DEF At, TableInv, ThreadsOK, ThreadFine
<1>3. NoSharedReceiver => PeersOK'
  <2> SUFFICES ASSUME NoSharedReceiver PROVE PeersOK'
    BY Zenon
  <2>1. /\ thread'[e] = new /\ \A u \in Threads \ {e} : thread'[u] = thread[u]
        /\ \A t \in Threads, opt \in {"join", "leave"} : \A f, r : Calls(t, opt, f, r)' <=> Calls(t, opt, f, r)
    BY <1>0, <1>1, <1>2, Distinct, Became, Quiet, Zenon
  <2>2. At(e, "get")' /\ \A f \in Local \ {e} : \A pc : At(f, pc)' <=> At(f, pc)
    BY <1>1, <2>1, Distinct, Zenon DEF At
  <2>3. ASSUME NEW f \in Local, NEW s \in Roles PROVE EnabledFine(f, s)'
    <3>1. EnabledFine(f, s)
      BY Zenon DEF TableInv, PeersOK
    <3>2. CASE f = e
      BY <1>0, <1>1, <2>1, <2>2, <3>1, <3>2, SameTables, Zenon DEF EnabledFine, At
    <3>3. CASE f # e
      BY <1>0, <2>1, <2>2, <3>1, <3>3, Distinct, SameTables, Zenon DEF EnabledFine
    <3> QED
      BY <3>2, <3>3, Zenon
  <2>4. ASSUME NEW f \in slots', NEW s \in Known, Opposite(f, s), ~At(f, "get")'
        PROVE  Reached(f, s)'
    <3>1. f \in slots /\ f # e /\ f \in Local
      BY <1>0, <2>2, <2>4, Typed, Zenon
    <3>2. Reached(f, s)
      BY <2>2, <2>4, <3>1, SMTT(30) DEF TableInv, PeersOK
    <3> QED
      BY <1>0, <2>1, <2>2, <3>1, <3>2, Distinct, ZenonT(40) DEF Reached
  <2> QED
    BY <1>0, <2>3, <2>4, SameTables, Zenon DEF PeersOK
<1> QED
  BY <1>0, <1>1, <1>2, <1>3, QuietEndpoint, Zenon

(* An endpoint reads the peers that are known.                             *)
LEMMA GetPeersKeeps ==
  ASSUME TypeOK, TableInv, NEW e \in Local, GetPeersOfChannel(e)
  PROVE  TableInv'
<1>n. PICK new : new = [Idle EXCEPT !.pc = "enable",
                          !.found = {r \in MultiUnder(chanRoles, e.name) : Opposite(e, r)}]
  BY Zenon
<1>0. /\ At(e, "get") /\ Become(e, new)
      /\ UNCHANGED <<status, gone, dropped, inbox, nodeRoles, chanRoles, graph, slots, peers, overlapped>>
  BY <1>n, Zenon DEF GetPeersOfChannel
<1>1. /\ new.pc = "enable" /\ new.opt = "none" /\ new.role = NoRole
      /\ new.found = {r \in MultiUnder(chanRoles, e.name) : Opposite(e, r)}
  BY <1>n, SMTT(30) DEF Idle
<1>2. thread[e].opt = "none" /\ status[e] = "new" /\ e \in slots
  BY <1>0, Distinct, Zenon DEF At, TableInv, ThreadsOK, ThreadFine
<1>3. \A r \in Known : Opposite(e, r) <=> r \in new.found
  <2>1. ASSUME NEW r \in Known, Opposite(e, r) PROVE r \in MultiUnder(chanRoles, e.name)
    <3>1. PICK p \in chanRoles : r = p[2]
      BY Zenon DEF Known
    <3>2. p[1] = e.name
      BY <2>1, <3>1, Zenon DEF TableInv, KeysOK, Opposite
    <3> QED
      BY <3>1, <3>2, Zenon DEF MultiUnder
  <2> QED
    BY <1>1, <2>1, Zenon
<1>4. new.found \subseteq Known /\ \A r \in new.found : Opposite(e, r)
  BY <1>1, Zenon DEF MultiUnder, Known
<1>5. NoSharedReceiver => PeersOK'
  <2> SUFFICES ASSUME NoSharedReceiver PROVE PeersOK'
    BY Zenon
  <2>1. /\ thread'[e] = new /\ \A u \in Threads \ {e} : thread'[u] = thread[u]
        /\ \A t \in Threads, opt \in {"join", "leave"} : \A f, r : Calls(t, opt, f, r)' <=> Calls(t, opt, f, r)
    BY <1>0, <1>1, <1>2, Distinct, Became, Quiet, Zenon
  <2>2. At(e, "enable")' /\ \A f \in Local \ {e} : \A pc : At(f, pc)' <=> At(f, pc)
    BY <1>1, <2>1, Distinct, Zenon DEF At
  <2>3. ASSUME NEW f \in Local, NEW s \in Roles PROVE EnabledFine(f, s)'
    <3>1. EnabledFine(f, s)
      BY Zenon DEF TableInv, PeersOK
    <3>2. CASE f = e
      BY <1>0, <1>2, <1>4, <2>1, <2>2, <3>1, <3>2, SameTables, Zenon DEF EnabledFine
    <3>3. CASE f # e
      BY <1>0, <2>1, <2>2, <3>1, <3>3, Distinct, SameTables, Zenon DEF EnabledFine
    <3> QED
      BY <3>2, <3>3, Zenon
  <2>4. ASSUME NEW f \in slots, NEW s \in Known, Opposite(f, s), ~At(f, "get")'
        PROVE  Reached(f, s)'
    <3>1. CASE f = e
      BY <1>3, <2>1, <2>2, <2>4, <3>1, Zenon DEF Reached
    <3>2. CASE f # e
      <4>1. f \in Local /\ Reached(f, s)
        BY <2>2, <2>4, <3>2, Typed, Zenon DEF TableInv, PeersOK
      <4> QED
        BY <1>0, <2>1, <2>2, <3>2, <4>1, Distinct, ZenonT(40) DEF Reached
    <3> QED
      BY <3>1, <3>2, SMTT(30)
  <2> QED
    BY <1>0, <2>3, <2>4, SameTables, Zenon DEF PeersOK
<1> QED
  BY <1>0, <1>1, <1>2, <1>5, QuietEndpoint, Zenon

(* What Enable and Disable do to the sets of ids. *)
LEMMA PeerFacts ==
  ASSUME TypeOK, NEW e \in Local, NEW r, NEW f \in Local, NEW i
  PROVE  /\ i \in EnablePeer(e, r)[f.id] <=> i \in peers[f.id] \/ (f.id = e.id /\ i = r.id)
         /\ i \in DisablePeer(e, r)[f.id] <=> i \in peers[f.id] /\ ~(f.id = e.id /\ i = r.id)
<1>1. f.id \in Endpoints /\ e.id \in Endpoints
  BY Zenon DEF Endpoints
<1> QED
  BY <1>1, Zenon DEF TypeOK, EnablePeer, DisablePeer

(* An endpoint enables one of the peers it has read.                       *)
LEMMA EnableOneKeeps ==
  ASSUME TypeOK, TableInv, NEW e \in Local, At(e, "enable"), NEW r \in thread[e].found,
         peers' = EnablePeer(e, r),
         Become(e, [thread[e] EXCEPT !.found = @ \ {r}]),
         UNCHANGED <<status, gone, dropped, inbox, nodeRoles, chanRoles, graph, slots, overlapped>>
  PROVE  TableInv'
<1>n. PICK new : new = [thread[e] EXCEPT !.found = @ \ {r}]
  BY Zenon
<1>0. Become(e, new)
  BY <1>n, Zenon
<1>1. thread[e].opt = "none" /\ thread[e].role = NoRole /\ status[e] = "new" /\ e \in slots
  BY Distinct, Zenon DEF At, TableInv, ThreadsOK, ThreadFine
<1>2. /\ new.pc = "enable" /\ new.opt = "none" /\ new.role = NoRole
      /\ new.found = thread[e].found \ {r} /\ r \in Roles
  <2>1. thread[e] \in Locals
    BY Distinct, Zenon DEF TypeOK
  <2> QED
    BY <1>n, <1>1, <2>1, Zenon DEF Locals, At
<1>5. NoSharedReceiver => PeersOK'
  <2> SUFFICES ASSUME NoSharedReceiver PROVE PeersOK'
    BY Zenon
  <2>1. /\ thread'[e] = new /\ \A u \in Threads \ {e} : thread'[u] = thread[u]
        /\ \A t \in Threads, opt \in {"join", "leave"} : \A f, s : Calls(t, opt, f, s)' <=> Calls(t, opt, f, s)
    BY <1>0, <1>1, <1>2, Distinct, Became, Quiet, Zenon
  <2>2. \A f \in Local : \A pc : At(f, pc)' <=> At(f, pc)
    BY <1>2, <2>1, Distinct, Zenon DEF At
  <2>3. \A f \in Local : \A i : i \in peers'[f.id] <=> i \in peers[f.id] \/ (f.id = e.id /\ i = r.id)
    BY PeerFacts
  <2>4. ASSUME NEW f \in Local, NEW s \in Roles PROVE EnabledFine(f, s)'
    <3>1. EnabledFine(f, s) /\ EnabledFine(e, r)
      BY <1>2, Zenon DEF TableInv, PeersOK
    <3>2. f.id = e.id => f = e
      BY Distinct, Zenon DEF NoSharedReceiver
    <3>3. s.id = r.id => s = r
      BY <1>2, Zenon DEF NoSharedReceiver
    <3>4. thread'[f].found \subseteq thread[f].found
      BY <1>2, <2>1, Distinct, Zenon
    <3>5. Opposite(e, r) /\ r \in Known \cup overlapped
      BY <3>1, Zenon DEF EnabledFine
    <3>6. r.id \in peers'[e.id] /\ (s.id \in peers'[f.id] => s.id \in peers[f.id] \/ (f = e /\ s = r))
      BY <2>3, <3>2, <3>3, Zenon
    <3> QED
      BY <1>1, <2>1, <2>2, <3>1, <3>4, <3>5, <3>6, SameTables, Zenon DEF EnabledFine
  <2>5. ASSUME NEW f \in slots, NEW s \in Known, Opposite(f, s), ~At(f, "get")'
        PROVE  Reached(f, s)'
    <3>1. f \in Local /\ Reached(f, s)
      BY <2>2, <2>5, Typed, Zenon DEF TableInv, PeersOK
    <3>2. s \in thread[f].found => s \in thread'[f].found \/ s.id \in peers'[f.id]
      BY <1>2, <2>1, <2>3, <3>1, Distinct, Zenon
    <3>3. s.id \in peers[f.id] => s.id \in peers'[f.id]
      BY <2>3, <3>1, Zenon
    <3> QED
      BY <2>1, <2>2, <3>1, <3>2, <3>3, Zenon DEF Reached
  <2> QED
    BY <2>4, <2>5, SameTables, Zenon DEF PeersOK
<1> QED
  BY <1>0, <1>1, <1>2, <1>5, QuietEndpoint, Zenon

(* A thread without a change takes one up. *)
LEMMA Started ==
  ASSUME TypeOK, NEW t \in Threads, NEW new, Become(t, new), thread[t].opt = "none", new.pc = "node"
  PROVE  /\ thread'[t] = new /\ \A u \in Threads \ {t} : thread'[u] = thread[u]
         /\ \A u \in Threads, opt \in {"join", "leave"} : \A r, pcs :
              Does(u, opt, r, pcs)' <=>
                Does(u, opt, r, pcs) \/ (u = t /\ new.opt = opt /\ new.role = r /\ "node" \in pcs)
         /\ \A u \in Threads, opt \in {"join", "leave"} : \A e, r :
              Calls(u, opt, e, r)' <=> Calls(u, opt, e, r)
         /\ \A r : Joining(r)' <=> Joining(r) \/ (new.opt = "join" /\ new.role = r)
<1>1. thread'[t] = new /\ \A u \in Threads \ {t} : thread'[u] = thread[u]
  BY Became, Zenon
<1>2. \A u \in Threads, opt \in {"join", "leave"} : \A r, pcs :
        Does(u, opt, r, pcs)' <=>
          Does(u, opt, r, pcs) \/ (u = t /\ new.opt = opt /\ new.role = r /\ "node" \in pcs)
  BY <1>1, SMTT(30) DEF Does
<1>3. \A u \in Threads, opt \in {"join", "leave"} : \A e, r : Calls(u, opt, e, r)' <=> Calls(u, opt, e, r)
  <2> SUFFICES ASSUME NEW u \in Threads, NEW opt \in {"join", "leave"}, NEW e, NEW r
               PROVE  Calls(u, opt, e, r)' <=> Calls(u, opt, e, r)
    BY Zenon
  <2>1. CASE u = t
    BY <1>1, <1>2, <2>1, Zenon DEF Calls, Does
  <2>2. CASE u # t
    BY <2>2, Became, ZenonT(40)
  <2> QED
    BY <2>1, <2>2, Zenon
<1>4. \A r : Joining(r)' <=> Joining(r) \/ (new.opt = "join" /\ new.role = r)
  BY <1>2, SMTT(30) DEF Joining
<1> QED
  BY <1>1, <1>2, <1>3, <1>4, Zenon

(* An endpoint has enabled the peers it has read, and joins.               *)
LEMMA EnableDoneKeeps ==
  ASSUME TypeOK, TableInv, NEW e \in Local, At(e, "enable"), thread[e].found = {},
         Become(e, Dispose([opt |-> "join", role |-> e], {})),
         status' = [status EXCEPT ![e] = "joined"],
         UNCHANGED <<gone, dropped, inbox, nodeRoles, chanRoles, graph, slots, peers, overlapped>>
  PROVE  TableInv'
<1>n. PICK new : new = Dispose([opt |-> "join", role |-> e], {})
  BY Zenon
<1>0. Become(e, new) /\ new.pc = "node" /\ new.opt = "join" /\ new.role = e /\ e \in Roles /\ e \in Threads
  BY <1>n, Distinct, Zenon DEF Dispose
<1>1. thread[e].opt = "none" /\ status[e] = "new" /\ e \in slots
  BY Distinct, Zenon DEF At, TableInv, ThreadsOK, ThreadFine
<1>2. /\ thread'[e] = new /\ \A u \in Threads \ {e} : thread'[u] = thread[u]
      /\ \A u \in Threads, opt \in {"join", "leave"} : \A r, pcs :
           Does(u, opt, r, pcs)' <=>
             Does(u, opt, r, pcs) \/ (u = e /\ opt = "join" /\ r = e /\ "node" \in pcs)
      /\ \A u \in Threads, opt \in {"join", "leave"} : \A f, r : Calls(u, opt, f, r)' <=> Calls(u, opt, f, r)
      /\ \A r : Joining(r)' <=> Joining(r) \/ r = e
  <2>1. /\ thread'[e] = new /\ \A u \in Threads \ {e} : thread'[u] = thread[u]
        /\ \A u \in Threads, opt \in {"join", "leave"} : \A r, pcs :
             Does(u, opt, r, pcs)' <=>
               Does(u, opt, r, pcs) \/ (u = e /\ new.opt = opt /\ new.role = r /\ "node" \in pcs)
        /\ \A u \in Threads, opt \in {"join", "leave"} : \A f, r :
             Calls(u, opt, f, r)' <=> Calls(u, opt, f, r)
        /\ \A r : Joining(r)' <=> Joining(r) \/ (new.opt = "join" /\ new.role = r)
    BY <1>0, <1>1, Started, ZenonT(40)
  <2> QED
    BY <1>0, <2>1, ZenonT(40)
<1>3. status'[e] = "joined" /\ \A s \in Roles \ {e} : status'[s] = status[s]
  BY <1>0, Zenon DEF TypeOK
<1>4. \A s \in Roles : Settled(s) => Settled(s)'
  BY <1>1, <1>2, <1>3, SameInbox, Zenon DEF Settled
<1>5. ~JoinSent(e)
  <2>1. e.proc \notin Others
    BY <1>0, Distinct, Zenon
  <2> QED
    BY <1>0, <2>1, ZenonT(40) DEF TableInv, InboxOK, JoinSent
<1>6. ThreadsOK'
  <2>1. ThreadFine(e)' /\ LocalThread(e)'
    BY <1>0, <1>2, <1>3, Zenon DEF ThreadFine, LocalThread
  <2> QED
    BY <1>2, <1>3, <2>1, Distinct, OneThread, Zenon DEF TableInv
<1>7. InboxOK'
  <2> SUFFICES ASSUME NEW q \in Others
               PROVE  /\ \A r \in Roles : Sent(q, "join", r)' => r.proc = q /\ status'[r] # "new"
                      /\ \A r \in Roles : Sent(q, "leave", r)' => r.proc = q /\ status'[r] = "left"
                      /\ InOrder(inbox'[q])
                      /\ q \in dropped' => inbox'[q] = <<>>
    BY Zenon DEF InboxOK, InOrder
  <2>1. e.proc # q
    BY <1>0, Distinct, Zenon
  <2>2. /\ \A r \in Roles : Sent(q, "join", r)' => r.proc = q /\ status[r] # "new"
        /\ \A r \in Roles : Sent(q, "leave", r)' => r.proc = q /\ status[r] = "left"
    BY SameInbox DEF TableInv, InboxOK
  <2>3. InOrder(inbox'[q]) /\ (q \in dropped' => inbox'[q] = <<>>)
    BY Zenon DEF TableInv, InboxOK
  <2> QED
    BY <1>3, <2>1, <2>2, <2>3, Zenon
<1>8. SettledOK'
  <2>1. \A t \in Threads, r \in Roles : thread'[t].opt = "leave" /\ thread'[t].role = r => Settled(r)'
    BY <1>0, <1>2, <1>4, Zenon DEF TableInv, SettledOK
  <2>2. \A r \in thread'[part].found : Settled(r)'
    BY <1>2, <1>4, Distinct, Typed, Zenon DEF TableInv, SettledOK
  <2>3. \A s \in Roles : ~(Joining(s)' /\ JoinSent(s)')
    BY <1>2, <1>5, SameInbox, Zenon DEF TableInv, SettledOK
  <2> QED
    BY <1>4, <2>1, <2>2, <2>3, SameTables, Typed, Zenon DEF TableInv, SettledOK
<1>9. KeysOK' /\ LeftOK' /\ NodesOK' /\ JoinersOK'
  <2>1. \A u \in Threads, opt \in {"join", "leave"} : \A r :
          /\ Does(u, opt, r, {"channel"})' <=> Does(u, opt, r, {"channel"})
          /\ Does(u, opt, r, {"graph", "call"})' <=> Does(u, opt, r, {"graph", "call"})
          /\ Does(u, opt, r, {"channel", "graph", "call"})' <=> Does(u, opt, r, {"channel", "graph", "call"})
    BY <1>2, ZenonT(40)
  <2>2. KeysOK' /\ LeftOK' /\ JoinersOK'
    BY <2>1, SameTables, Zenon DEF TableInv, KeysOK, LeftOK, JoinersOK
  <2>3. NodesOK'
    BY <2>1, SameTables, Zenon DEF TableInv, NodesOK
  <2> QED
    BY <2>2, <2>3, Zenon
<1>10. RolesOK'
  <2> SUFFICES ASSUME NEW s \in Roles \ overlapped
               PROVE  /\ s \in Local => LocalFine(s)'
                      /\ s \notin Local /\ s.proc \notin dropped => PresentFine(s)'
                      /\ s \notin Local /\ s.proc \in dropped => DroppedFine(s)'
    BY Zenon DEF RolesOK
  <2>1. ASSUME s \in Local PROVE LocalFine(s)'
    BY <1>2, <1>3, <2>1, Distinct, SameTables, Zenon DEF TableInv, RolesOK,
       LocalFine
  <2>2. ASSUME s \notin Local, s.proc \notin dropped PROVE PresentFine(s)'
    BY <1>2, <1>3, <2>2, Distinct, SameTables, SameInbox, Zenon DEF TableInv,
       RolesOK, PresentFine
  <2>3. ASSUME s \notin Local, s.proc \in dropped PROVE DroppedFine(s)'
    BY <1>2, <2>3, Distinct, SameTables, ZenonT(40) DEF TableInv, RolesOK,
       DroppedFine
  <2> QED
    BY <2>1, <2>2, <2>3, Zenon
<1>11. NoSharedReceiver => PeersOK'
  <2> SUFFICES ASSUME NoSharedReceiver PROVE PeersOK'
    BY Zenon
  <2>1. /\ \A pc : At(e, pc)' <=> pc = "node"
        /\ \A f \in Local \ {e} : \A pc : At(f, pc)' <=> At(f, pc)
    BY <1>0, <1>2, Distinct, Zenon DEF At
  <2>2. ASSUME NEW f \in Local, NEW s \in Roles PROVE EnabledFine(f, s)'
    <3>1. EnabledFine(f, s)
      BY Zenon DEF TableInv, PeersOK
    <3>2. CASE f = e
      BY <1>1, <1>2, <1>3, <2>1, <3>1, <3>2, SameTables, Zenon DEF EnabledFine
    <3>3. CASE f # e
      BY <1>2, <1>3, <2>1, <3>1, <3>3, Distinct, SameTables,
         ZenonT(40) DEF EnabledFine
    <3> QED
      BY <3>2, <3>3, Zenon
  <2>3. ASSUME NEW f \in slots, NEW s \in Known, Opposite(f, s), ~At(f, "get")'
        PROVE  Reached(f, s)'
    <3>1. f \in Local /\ (f = e => ~At(e, "get"))
      BY Typed, Zenon DEF At
    <3>2. Reached(f, s)
      BY <2>1, <2>3, <3>1, Zenon DEF TableInv, PeersOK
    <3>3. CASE f = e
      BY <1>2, <3>2, <3>3, Zenon DEF Reached
    <3>4. CASE f # e
      BY <1>2, <2>1, <3>1, <3>2, <3>4, Distinct, Zenon DEF Reached
    <3> QED
      BY <3>3, <3>4, Zenon
  <2> QED
    BY <2>2, <2>3, SameTables, Zenon DEF PeersOK
<1> QED
  BY <1>6, <1>7, <1>8, <1>9, <1>10, <1>11, Zenon DEF TableInv, NoSharedReceiver

(* An endpoint disconnects its listener and leaves.                        *)
LEMMA LeaveTheTopologyKeeps ==
  ASSUME TypeOK, TableInv, NEW e \in Local, LeaveTheTopology(e)
  PROVE  TableInv'
<1>n. PICK new : new = Dispose([opt |-> "leave", role |-> e], {})
  BY Zenon
<1>0. /\ status[e] = "joined" /\ At(e, "idle") /\ slots' = slots \ {e}
      /\ status' = [status EXCEPT ![e] = "left"] /\ Become(e, new)
      /\ UNCHANGED <<gone, dropped, inbox, nodeRoles, chanRoles, graph, peers, overlapped>>
  BY <1>n, SMTT(30) DEF LeaveTheTopology
<1>1. new.pc = "node" /\ new.opt = "leave" /\ new.role = e /\ e \in Roles /\ e \in Threads
  BY <1>n, Distinct, Zenon DEF Dispose
<1>2. thread[e].opt = "none"
  BY <1>0, Distinct, Zenon DEF At, TableInv, ThreadsOK, ThreadFine
<1>3. /\ thread'[e] = new /\ \A u \in Threads \ {e} : thread'[u] = thread[u]
      /\ \A u \in Threads, opt \in {"join", "leave"} : \A r, pcs :
           Does(u, opt, r, pcs)' <=>
             Does(u, opt, r, pcs) \/ (u = e /\ opt = "leave" /\ r = e /\ "node" \in pcs)
      /\ \A u \in Threads, opt \in {"join", "leave"} : \A f, r : Calls(u, opt, f, r)' <=> Calls(u, opt, f, r)
      /\ \A r : Joining(r)' <=> Joining(r)
  <2>1. /\ thread'[e] = new /\ \A u \in Threads \ {e} : thread'[u] = thread[u]
        /\ \A u \in Threads, opt \in {"join", "leave"} : \A r, pcs :
             Does(u, opt, r, pcs)' <=>
               Does(u, opt, r, pcs) \/ (u = e /\ new.opt = opt /\ new.role = r /\ "node" \in pcs)
        /\ \A u \in Threads, opt \in {"join", "leave"} : \A f, r :
             Calls(u, opt, f, r)' <=> Calls(u, opt, f, r)
        /\ \A r : Joining(r)' <=> Joining(r) \/ (new.opt = "join" /\ new.role = r)
    BY <1>0, <1>1, <1>2, Started, ZenonT(40)
  <2> QED
    BY <1>1, <2>1, ZenonT(40)
<1>4. status'[e] = "left" /\ \A s \in Roles \ {e} : status'[s] = status[s]
  BY <1>0, <1>1, Zenon DEF TypeOK
<1>5. \A s \in Roles : Settled(s) => Settled(s)'
  BY <1>0, <1>3, <1>4, SameInbox, Zenon DEF Settled
<1>6. Settled(e)'
  <2>1. ~JoinSent(e)
    <3>1. e.proc \notin Others
      BY <1>1, Distinct, Zenon
    <3> QED
      BY <1>1, <3>1 DEF TableInv, InboxOK, JoinSent
  <2>2. ~Joining(e)
    BY <1>1, <1>2, Distinct DEF TableInv, ThreadsOK, ThreadFine, LocalThread,
       SubThread, PartThread, Joining, Does
  <2> QED
    BY <1>0, <1>3, <1>4, <2>1, <2>2, SameInbox, Zenon DEF Settled
<1>7. ThreadsOK'
  <2>1. ThreadFine(e)' /\ LocalThread(e)'
    BY <1>1, <1>3, <1>4, Zenon DEF ThreadFine, LocalThread
  <2> QED
    BY <1>0, <1>1, <1>3, <1>4, <2>1, Distinct, OneThread, Zenon DEF TableInv
<1>8. InboxOK'
  <2> SUFFICES ASSUME NEW q \in Others
               PROVE  /\ \A r \in Roles : Sent(q, "join", r)' => r.proc = q /\ status'[r] # "new"
                      /\ \A r \in Roles : Sent(q, "leave", r)' => r.proc = q /\ status'[r] = "left"
                      /\ InOrder(inbox'[q])
                      /\ q \in dropped' => inbox'[q] = <<>>
    BY Zenon DEF InboxOK, InOrder
  <2>1. e.proc # q
    BY <1>1, Distinct, Zenon
  <2>2. /\ \A r \in Roles : Sent(q, "join", r)' => r.proc = q /\ status[r] # "new"
        /\ \A r \in Roles : Sent(q, "leave", r)' => r.proc = q /\ status[r] = "left"
    BY <1>0, SameInbox, ZenonT(40) DEF TableInv, InboxOK
  <2>3. InOrder(inbox'[q]) /\ (q \in dropped' => inbox'[q] = <<>>)
    BY <1>0, Zenon DEF TableInv, InboxOK
  <2> QED
    BY <1>4, <2>1, <2>2, <2>3, Zenon
<1>9. SettledOK'
  <2>1. \A t \in Threads, r \in Roles : thread'[t].opt = "leave" /\ thread'[t].role = r => Settled(r)'
    BY <1>1, <1>3, <1>5, <1>6, ZenonT(40) DEF TableInv, SettledOK
  <2>2. \A r \in thread'[part].found : Settled(r)'
    BY <1>3, <1>5, Distinct, Typed, Zenon DEF TableInv, SettledOK
  <2> QED
    BY <1>0, <1>3, <1>5, <2>1, <2>2, SameTables, SameInbox, Typed,
       Zenon DEF TableInv, SettledOK
<1>10. KeysOK' /\ LeftOK' /\ NodesOK' /\ JoinersOK'
  <2>1. \A u \in Threads, opt \in {"join", "leave"} : \A r :
          /\ Does(u, opt, r, {"channel"})' <=> Does(u, opt, r, {"channel"})
          /\ Does(u, opt, r, {"graph", "call"})' <=> Does(u, opt, r, {"graph", "call"})
          /\ Does(u, opt, r, {"channel", "graph", "call"})' <=> Does(u, opt, r, {"channel", "graph", "call"})
    BY <1>3, Zenon
  <2>2. KeysOK' /\ LeftOK' /\ JoinersOK'
    BY <1>0, <2>1, SameTables, Zenon DEF TableInv, KeysOK, LeftOK, JoinersOK
  <2>3. NodesOK'
    BY <1>0, <2>1, SameTables, Zenon DEF TableInv, NodesOK
  <2> QED
    BY <2>2, <2>3, Zenon
<1>11. RolesOK'
  <2> SUFFICES ASSUME NEW s \in Roles \ overlapped
               PROVE  /\ s \in Local => LocalFine(s)'
                      /\ s \notin Local /\ s.proc \notin dropped => PresentFine(s)'
                      /\ s \notin Local /\ s.proc \in dropped => DroppedFine(s)'
    BY <1>0, Zenon DEF RolesOK
  <2>1. ASSUME s \in Local PROVE LocalFine(s)'
    BY <1>0, <1>1, <1>3, <1>4, <2>1, Distinct, SameTables, Zenon DEF TableInv,
       RolesOK, LocalFine
  <2>2. ASSUME s \notin Local, s.proc \notin dropped PROVE PresentFine(s)'
    BY <1>0, <1>3, <1>4, <2>2, Distinct, SameTables, SameInbox,
       Zenon DEF TableInv, RolesOK, PresentFine
  <2>3. ASSUME s \notin Local, s.proc \in dropped PROVE DroppedFine(s)'
    BY <1>0, <1>3, <2>3, Distinct, SameTables, Zenon DEF TableInv, RolesOK,
       DroppedFine
  <2> QED
    BY <2>1, <2>2, <2>3, Zenon
<1>12. NoSharedReceiver => PeersOK'
  <2> SUFFICES ASSUME NoSharedReceiver PROVE PeersOK'
    BY Zenon
  <2>1. /\ \A pc : At(e, pc)' <=> pc = "node"
        /\ \A f \in Local \ {e} : \A pc : At(f, pc)' <=> At(f, pc)
    BY <1>1, <1>3, Distinct, Zenon DEF At
  <2>2. ASSUME NEW f \in Local, NEW s \in Roles PROVE EnabledFine(f, s)'
    <3>1. EnabledFine(f, s)
      BY Zenon DEF TableInv, PeersOK
    <3>2. CASE f = e
      BY <1>0, <1>4, <2>1, <3>2, Zenon DEF EnabledFine
    <3>3. CASE f # e
      BY <1>0, <1>3, <1>4, <2>1, <3>1, <3>3, Distinct, SameTables,
         Zenon DEF EnabledFine
    <3> QED
      BY <3>2, <3>3, Zenon
  <2>3. ASSUME NEW f \in slots', NEW s \in Known, Opposite(f, s), ~At(f, "get")'
        PROVE  Reached(f, s)'
    <3>1. f \in Local /\ f # e /\ f \in slots
      BY <1>0, Typed, Zenon
    <3>2. Reached(f, s)
      BY <2>1, <2>3, <3>1, Zenon DEF TableInv, PeersOK
    <3> QED
      BY <1>0, <1>3, <2>1, <3>1, <3>2, Distinct, Zenon DEF Reached
  <2> QED
    BY <1>0, <2>2, <2>3, SameTables, Zenon DEF PeersOK
<1> QED
  BY <1>7, <1>8, <1>9, <1>10, <1>11, <1>12, Zenon DEF TableInv, NoSharedReceiver

(* The participant listener disposes of the next role of the process.      *)
LEMMA EachOneKeeps ==
  ASSUME TypeOK, TableInv, At(part, "each"), NEW r \in thread[part].found,
         Become(part, Dispose([opt |-> "leave", role |-> r], thread[part].found \ {r})),
         UNCHANGED <<status, gone, dropped, inbox, nodeRoles, chanRoles, graph, slots, peers, overlapped>>
  PROVE  TableInv'
<1>n. PICK new : new = Dispose([opt |-> "leave", role |-> r], thread[part].found \ {r})
  BY Zenon
<1>0. /\ Become(part, new) /\ new.pc = "node" /\ new.opt = "leave" /\ new.role = r
      /\ new.found = thread[part].found \ {r} /\ r \in Roles /\ part \in Threads
  BY <1>n, Distinct, Typed, Zenon DEF Dispose
<1>1. thread[part].opt = "none" /\ r.proc \in dropped
  BY <1>0, Distinct, Zenon DEF At, TableInv, ThreadsOK, ThreadFine, PartThread
<1>2. /\ thread'[part] = new /\ \A u \in Threads \ {part} : thread'[u] = thread[u]
      /\ \A u \in Threads, opt \in {"join", "leave"} : \A s, pcs :
           Does(u, opt, s, pcs)' <=>
             Does(u, opt, s, pcs) \/ (u = part /\ opt = "leave" /\ s = r /\ "node" \in pcs)
      /\ \A u \in Threads, opt \in {"join", "leave"} : \A f, s : Calls(u, opt, f, s)' <=> Calls(u, opt, f, s)
      /\ \A s : Joining(s)' <=> Joining(s)
  BY <1>0, <1>1, Started
<1>3. \A s : Settled(s)' <=> Settled(s)
  BY <1>2, SameInbox, Zenon DEF Settled
<1>4. ThreadsOK'
  <2>1. ThreadFine(part)' /\ PartThread'
    BY <1>0, <1>1, <1>2, Zenon DEF ThreadFine, PartThread, TableInv, ThreadsOK
  <2> QED
    BY <1>0, <1>2, <2>1, Distinct, OneThread, Zenon DEF TableInv
<1>5. InboxOK'
  BY SameInbox DEF TableInv, InboxOK
<1>6. SettledOK'
  <2>1. \A t \in Threads, s \in Roles : thread'[t].opt = "leave" /\ thread'[t].role = s => Settled(s)'
    BY <1>0, <1>2, <1>3, ZenonT(40) DEF TableInv, SettledOK
  <2>2. \A s \in thread'[part].found : Settled(s)'
    BY <1>0, <1>2, <1>3, Zenon DEF TableInv, SettledOK
  <2> QED
    BY <1>2, <1>3, <2>1, <2>2, SameTables, SameInbox, Zenon DEF TableInv, SettledOK
<1>7. KeysOK' /\ LeftOK' /\ NodesOK' /\ JoinersOK'
  <2>1. \A u \in Threads, opt \in {"join", "leave"} : \A s :
          /\ Does(u, opt, s, {"channel"})' <=> Does(u, opt, s, {"channel"})
          /\ Does(u, opt, s, {"graph", "call"})' <=> Does(u, opt, s, {"graph", "call"})
          /\ Does(u, opt, s, {"channel", "graph", "call"})' <=> Does(u, opt, s, {"channel", "graph", "call"})
    BY <1>2, Zenon
  <2>2. KeysOK' /\ LeftOK' /\ JoinersOK'
    BY <2>1, SameTables, Zenon DEF TableInv, KeysOK, LeftOK, JoinersOK
  <2>3. NodesOK'
    BY <2>1, SameTables, Zenon DEF TableInv, NodesOK
  <2> QED
    BY <2>2, <2>3, Zenon
<1>8. RolesOK'
  <2> SUFFICES ASSUME NEW s \in Roles \ overlapped
               PROVE  /\ s \in Local => LocalFine(s)'
                      /\ s \notin Local /\ s.proc \notin dropped => PresentFine(s)'
                      /\ s \notin Local /\ s.proc \in dropped => DroppedFine(s)'
    BY Zenon DEF RolesOK
  <2>1. ASSUME s \in Local PROVE LocalFine(s)'
    BY <1>2, <2>1, Distinct, SameTables, Zenon DEF TableInv, RolesOK, LocalFine
  <2>2. ASSUME s \notin Local, s.proc \notin dropped PROVE PresentFine(s)'
    BY <1>2, <2>2, Distinct, SameTables, SameInbox, Zenon DEF TableInv, RolesOK,
       PresentFine
  <2>3. ASSUME s \notin Local, s.proc \in dropped PROVE DroppedFine(s)'
    BY <1>0, <1>2, <2>3, Distinct, SameTables, Zenon DEF TableInv, RolesOK,
       DroppedFine
  <2> QED
    BY <2>1, <2>2, <2>3, Zenon
<1>9. NoSharedReceiver => PeersOK'
  <2> SUFFICES ASSUME NoSharedReceiver PROVE PeersOK'
    BY Zenon
  <2>1. \A e \in Local : thread'[e] = thread[e] /\ \A pc : At(e, pc)' <=> At(e, pc)
    BY <1>2, Distinct, Zenon DEF At
  <2>2. ASSUME NEW e \in Local, NEW s \in Roles PROVE EnabledFine(e, s)'
    BY <1>2, <2>1, SameTables, Zenon DEF TableInv, PeersOK, EnabledFine
  <2>3. ASSUME NEW e \in slots, NEW s \in Known, Opposite(e, s), ~At(e, "get")'
        PROVE  Reached(e, s)'
    BY <1>2, <2>1, <2>3, Typed, Zenon DEF TableInv, PeersOK, Reached
  <2> QED
    BY <2>2, <2>3, SameTables, Zenon DEF PeersOK
<1> QED
  BY <1>4, <1>5, <1>6, <1>7, <1>8, <1>9, Zenon DEF TableInv, NoSharedReceiver

(* The participant listener has disposed of them all.                      *)
LEMMA EachDoneKeeps ==
  ASSUME TypeOK, TableInv, At(part, "each"), thread[part].found = {}, Become(part, Idle),
         UNCHANGED <<status, gone, dropped, inbox, nodeRoles, chanRoles, graph, slots, peers, overlapped>>
  PROVE  TableInv'
<1>0. Idle.pc = "idle" /\ Idle.opt = "none" /\ Idle.role = NoRole /\ Idle.found = {}
  BY Zenon DEF Idle
<1>1. thread[part].opt = "none"
  BY Distinct, Zenon DEF At, TableInv, ThreadsOK, ThreadFine
<1>2. /\ thread'[part] = Idle /\ \A u \in Threads \ {part} : thread'[u] = thread[u]
      /\ \A t \in Threads, opt \in {"join", "leave"} : \A r, pcs : Does(t, opt, r, pcs)' <=> Does(t, opt, r, pcs)
      /\ \A t \in Threads, opt \in {"join", "leave"} : \A e, r : Calls(t, opt, e, r)' <=> Calls(t, opt, e, r)
      /\ \A r : Joining(r)' <=> Joining(r)
  BY <1>0, <1>1, Distinct, Became, Quiet, ZenonT(40)
<1>3. \A s : Settled(s)' <=> Settled(s)
  BY <1>2, SameInbox, Zenon DEF Settled
<1>4. ThreadsOK'
  <2>1. ThreadFine(part)' /\ PartThread'
    BY <1>0, <1>2, Zenon DEF ThreadFine, PartThread
  <2> QED
    BY <1>2, <2>1, Distinct, OneThread, Zenon DEF TableInv
<1>5. InboxOK'
  BY SameInbox, SMTT(30) DEF TableInv, InboxOK
<1>6. SettledOK'
  <2>1. \A t \in Threads, s \in Roles : thread'[t].opt = "leave" /\ thread'[t].role = s => Settled(s)'
    BY <1>0, <1>2, <1>3, Zenon DEF TableInv, SettledOK
  <2> QED
    BY <1>0, <1>2, <1>3, <2>1, SameTables, SameInbox, SMTT(30) DEF TableInv,
       SettledOK
<1>7. KeysOK' /\ LeftOK' /\ NodesOK' /\ JoinersOK'
  BY <1>2, SameTables, SMTT(30) DEF TableInv, KeysOK, LeftOK, NodesOK, JoinersOK
<1>8. RolesOK'
  BY <1>2, Distinct, SameInbox, SameTables, ZenonT(40) DEF TableInv, RolesOK,
     LocalFine, PresentFine, DroppedFine
<1>9. NoSharedReceiver => PeersOK'
  <2> SUFFICES ASSUME NoSharedReceiver PROVE PeersOK'
    BY SMTT(30)
  <2>1. \A e \in Local : thread'[e] = thread[e] /\ \A pc : At(e, pc)' <=> At(e, pc)
    BY <1>2, Distinct, SMTT(30) DEF At
  <2>2. ASSUME NEW e \in Local, NEW s \in Roles PROVE EnabledFine(e, s)'
    BY <1>2, <2>1, SameTables, SMTT(30) DEF TableInv, PeersOK, EnabledFine
  <2>3. ASSUME NEW e \in slots, NEW s \in Known, Opposite(e, s), ~At(e, "get")'
        PROVE  Reached(e, s)'
    BY <1>2, <2>1, <2>3, Typed, Zenon DEF TableInv, PeersOK, Reached
  <2> QED
    BY <2>2, <2>3, SameTables, Zenon DEF PeersOK
<1> QED
  BY <1>4, <1>5, <1>6, <1>7, <1>8, <1>9, Zenon DEF TableInv, NoSharedReceiver

(* What a table holds after Add and Remove. *)
RolesIn(w) == {p[2] : p \in w}

(* What a table holds after Add and Remove.                                *)
LEMMA TableFacts ==
  ASSUME NEW w, NEW k, NEW r \in Roles,
         \A p \in w : p[2] \in Roles /\ (p[2] = r => p[1] = k)
  PROVE  /\ RolesIn(MultiAdd(w, k, r)) = RolesIn(w) \cup {r}
         /\ RolesIn(MultiRemove(w, k, r)) = RolesIn(w) \ {r}
<1>1. RolesIn(MultiAdd(w, k, r)) = RolesIn(w) \cup {r}
  <2>1. <<k, r>>[2] = r
    BY Zenon
  <2>2. {p[2] : p \in w \cup {<<k, r>>}} = {p[2] : p \in w} \cup {<<k, r>>[2]}
    BY Zenon
  <2> QED
    BY <2>1, <2>2, Zenon DEF MultiAdd, RolesIn
<1>2. \A p \in w : p[1] = k /\ Match(p[2], r) <=> p[2] = r
  <2>1. Match(r, r)
    BY Zenon DEF Match
  <2>2. \A p \in w : p[2] \in Roles
    BY Zenon
  <2>3. \A s \in Roles : Match(s, r) <=> s = r
    BY <2>1, RolesAssumption, Zenon
  <2> QED
    BY <2>2, <2>3, Zenon
<1>3. MultiRemove(w, k, r) = {p \in w : p[2] # r}
  BY <1>2, Zenon DEF MultiRemove
<1>4. RolesIn(MultiRemove(w, k, r)) = RolesIn(w) \ {r}
  BY <1>3, Zenon DEF RolesIn
<1> QED
  BY <1>1, <1>4, Zenon

(* A thread goes on with the change it disposes of. *)
LEMMA Moved ==
  ASSUME TypeOK, TableInv, NEW t \in Threads, NEW new, Become(t, new),
         new.opt = thread[t].opt, new.role = thread[t].role,
         new.pc \in {"node", "channel", "graph", "call"}, new.found = thread[t].found,
         \A e \in slots \ {t} : e \in slots', UNCHANGED <<status, dropped>>,
         thread[t].opt # "none"
  PROVE  /\ ThreadsOK'
         /\ \A u \in Threads : /\ thread'[u].opt = thread[u].opt
                               /\ thread'[u].role = thread[u].role
                               /\ thread'[u].found = thread[u].found
<1>1. thread'[t] = new /\ \A u \in Threads \ {t} : thread'[u] = thread[u]
  BY Became, Zenon
<1>2. ThreadFine(t)'
  BY <1>1, Distinct, Zenon DEF TableInv, ThreadsOK, ThreadFine
<1>3. t \in Local => LocalThread(t)'
  BY <1>1, Distinct, Zenon DEF TableInv, ThreadsOK, LocalThread
<1>4. t = sub => SubThread'
  BY <1>1, Distinct, Zenon DEF TableInv, ThreadsOK, SubThread
<1>5. t = part => PartThread'
  BY <1>1, Distinct, Zenon DEF TableInv, ThreadsOK, PartThread
<1>6. ThreadsOK'
  BY <1>1, <1>2, <1>3, <1>4, <1>5, OneThread, Distinct, Zenon DEF TableInv
<1> QED
  BY <1>1, <1>6, Zenon

(* DisposeJoin and DisposeLeave change node_writers_ or node_readers_.     *)
LEMMA DisposeNodeKeeps ==
  ASSUME TypeOK, TableInv, NEW t \in Threads, DisposeNode(t)
  PROVE  TableInv'
<1>r. PICK r : r = thread[t].role
  BY Zenon
<1>o. PICK o : o = thread[t].opt
  BY Zenon
<1>n. PICK new : new = [thread[t] EXCEPT !.pc = "channel"]
  BY Zenon
<1>0. /\ thread[t].pc = "node" /\ Become(t, new)
      /\ nodeRoles' = IF o = "join" THEN MultiAdd(nodeRoles, r.node, r)
                      ELSE MultiRemove(nodeRoles, r.node, r)
      /\ UNCHANGED <<status, gone, dropped, inbox, chanRoles, graph, slots, peers, overlapped>>
  BY <1>r, <1>o, <1>n, Zenon DEF DisposeNode, At, Goto
<1>1. o \in {"join", "leave"} /\ r \in Roles
  BY <1>0, <1>r, <1>o, Typed, Zenon DEF TableInv, ThreadsOK, ThreadFine
<1>2. /\ new.pc = "channel" /\ new.opt = o /\ new.role = r
      /\ new.found = thread[t].found /\ new.slots = thread[t].slots
  <2>1. thread[t] \in Locals
    BY Zenon DEF TypeOK
  <2> QED
    BY <1>n, <1>o, <1>r, <2>1, Zenon DEF Locals
<1>3. /\ ThreadsOK' /\ thread'[t] = new /\ \A u \in Threads \ {t} : thread'[u] = thread[u]
      /\ \A u \in Threads : /\ thread'[u].opt = thread[u].opt /\ thread'[u].role = thread[u].role
                            /\ thread'[u].found = thread[u].found
  BY <1>0, <1>1, <1>2, <1>o, <1>r, Moved, Became, Zenon
<1>4. /\ \A u \in Threads : \A opt, s : Does(u, opt, s, {"node", "channel"})' <=> Does(u, opt, s, {"node", "channel"})
      /\ \A u \in Threads : \A opt, s : Does(u, opt, s, {"graph", "call"})' <=> Does(u, opt, s, {"graph", "call"})
      /\ \A u \in Threads : \A opt, e, s : Calls(u, opt, e, s)' <=> Calls(u, opt, e, s)
      /\ \A s : Joining(s)' <=> Joining(s)
  <2>1. \A u \in Threads : \A opt, s : Does(u, opt, s, {"node", "channel"})' <=> Does(u, opt, s, {"node", "channel"})
    BY <1>0, <1>2, <1>3, Zenon DEF Does
  <2>2. \A u \in Threads : \A opt, s : Does(u, opt, s, {"graph", "call"})' <=> Does(u, opt, s, {"graph", "call"})
    BY <1>0, <1>2, <1>3, Zenon DEF Does
  <2>3. \A u \in Threads : \A opt, e, s : Calls(u, opt, e, s)' <=> Calls(u, opt, e, s)
    BY <1>0, <1>2, <1>3 DEF Calls, Does
  <2>4. \A s : Joining(s)' <=> Joining(s)
    BY <2>1, Zenon DEF Joining
  <2> QED
    BY <2>1, <2>2, <2>3, <2>4, Zenon
<1>5. \A s : Settled(s)' <=> Settled(s)
  BY <1>0, <1>4, SameInbox, Zenon DEF Settled
<1>6. Known' = Known /\ NodeKnown' = IF o = "join" THEN NodeKnown \cup {r} ELSE NodeKnown \ {r}
  <2>1. \A p \in nodeRoles : p[2] \in Roles /\ (p[2] = r => p[1] = r.node)
    BY Zenon DEF TableInv, KeysOK, TypeOK
  <2>3. /\ RolesIn(MultiAdd(nodeRoles, r.node, r)) = RolesIn(nodeRoles) \cup {r}
        /\ RolesIn(MultiRemove(nodeRoles, r.node, r)) = RolesIn(nodeRoles) \ {r}
    BY <1>1, <2>1, TableFacts, Zenon
  <2>4. NodeKnown = RolesIn(nodeRoles) /\ NodeKnown' = RolesIn(nodeRoles') /\ Known' = Known
    BY <1>0, Zenon DEF Known, NodeKnown, RolesIn
  <2> QED
    BY <1>0, <2>3, <2>4, Zenon
<1>7. InboxOK'
  BY <1>0, SameInbox DEF TableInv, InboxOK
<1>8. SettledOK'
  BY <1>3, <1>4, <1>5, <1>6, Distinct, SameInbox, <1>0, ZenonT(40) DEF TableInv,
     SettledOK
<1>9. KeysOK'
  BY <1>0, <1>1, SMTT(30) DEF TableInv, KeysOK, MultiAdd, MultiRemove
<1>10. LeftOK' /\ JoinersOK'
  BY <1>0, <1>4, <1>6, Zenon DEF TableInv, LeftOK, JoinersOK
<1>11. NodesOK'
  <2>1. /\ \A opt, s : Does(t, opt, s, {"channel"})' <=> opt = o /\ s = r
        /\ \A opt, s : ~Does(t, opt, s, {"channel"})
        /\ \A u \in Threads \ {t} : \A opt, s : Does(u, opt, s, {"channel"})' <=> Does(u, opt, s, {"channel"})
        /\ \A u \in Threads \ {t} : \A opt, s : Does(u, opt, s, {"channel", "graph", "call"})' <=> Does(u, opt, s, {"channel", "graph", "call"})
        /\ \A opt, s : Does(t, opt, s, {"channel", "graph", "call"})' <=> opt = o /\ s = r
    BY <1>0, <1>2, <1>3, Zenon DEF Does
  <2>2. o = "join" => \A u \in Threads \ {t} : ~Does(u, "leave", r, {"channel", "graph", "call"})
    <3>1. o = "join" => Joining(r)
      BY <1>0, <1>o, <1>r, Zenon DEF Joining, Does
    <3> QED
      BY <1>1, <3>1, Zenon DEF TableInv, SettledOK, Settled, Does
  <2>3. o = "leave" => \A u \in Threads \ {t} : ~Does(u, "join", r, {"channel"})
    <3>1. o = "leave" => ~Joining(r)
      BY <1>1, <1>o, <1>r, Zenon DEF TableInv, SettledOK, Settled
    <3>2. \A u \in Threads : Does(u, "join", r, {"channel"}) => Joining(r)
      BY Zenon DEF Joining, Does
    <3> QED
      BY <3>1, <3>2, Zenon
  <2>4. ASSUME o = "join" PROVE NodesOK'
    BY <1>6, <2>1, <2>2, <2>4 DEF TableInv, NodesOK
  <2>5. ASSUME o = "leave" PROVE NodesOK'
    BY <1>6, <2>1, <2>3, <2>5 DEF TableInv, NodesOK
  <2> QED
    BY <1>1, <2>4, <2>5, SMTT(30)
<1>12. RolesOK'
  BY <1>0, <1>3, <1>4, <1>6, Distinct, SameInbox, Zenon DEF TableInv, RolesOK,
     LocalFine, PresentFine, DroppedFine
<1>13. NoSharedReceiver => PeersOK'
  <2> SUFFICES ASSUME NoSharedReceiver PROVE PeersOK'
    BY Zenon
  <2>1. \A e \in Local : /\ At(e, "enable")' <=> At(e, "enable")
                         /\ At(e, "get")' <=> At(e, "get")
    BY <1>0, <1>2, <1>3, Distinct, Zenon DEF At
  <2>2. ASSUME NEW e \in Local, NEW s \in Roles PROVE EnabledFine(e, s)'
    BY <1>0, <1>3, <1>4, <1>6, <2>1, Distinct, Zenon DEF TableInv, PeersOK,
       EnabledFine
  <2>3. ASSUME NEW e \in slots, NEW s \in Known, Opposite(e, s), ~At(e, "get")'
        PROVE  Reached(e, s)'
    BY <1>0, <1>3, <1>4, <2>1, <2>3, Typed, Distinct, ZenonT(40) DEF TableInv,
       PeersOK, Reached
  <2> QED
    BY <1>0, <1>6, <2>2, <2>3, Zenon DEF PeersOK
<1> QED
  BY <1>3, <1>7, <1>8, <1>9, <1>10, <1>11, <1>12, <1>13, Zenon DEF TableInv,
     NoSharedReceiver

(* DisposeJoin and DisposeLeave change channel_writers_ or                 *)
(* channel_readers_.                                                       *)
LEMMA DisposeChannelKeeps ==
  ASSUME TypeOK, TableInv, NEW t \in Threads, DisposeChannel(t)
  PROVE  TableInv'
<1>r. PICK r : r = thread[t].role
  BY Zenon
<1>o. PICK o : o = thread[t].opt
  BY Zenon
<1>n. PICK new : new = [thread[t] EXCEPT !.pc = "graph"]
  BY Zenon
<1>0. /\ thread[t].pc = "channel" /\ Become(t, new)
      /\ chanRoles' = IF o = "join" THEN MultiAdd(chanRoles, r.name, r)
                      ELSE MultiRemove(chanRoles, r.name, r)
      /\ overlapped' = IF o = "leave" /\ \E u \in Threads \ {t} :
                            \/ thread[u].opt = "join" /\ thread[u].role = r
                            \/ At(u, "enable") /\ r \in thread[u].found
                       THEN overlapped \cup {r} ELSE overlapped
      /\ UNCHANGED <<status, gone, dropped, inbox, nodeRoles, graph, slots, peers>>
  BY <1>r, <1>o, <1>n, Zenon DEF DisposeChannel, At, Goto
<1>1. o \in {"join", "leave"} /\ r \in Roles
  BY <1>0, <1>r, <1>o, Typed, Zenon DEF TableInv, ThreadsOK, ThreadFine
<1>2. /\ new.pc = "graph" /\ new.opt = o /\ new.role = r
      /\ new.found = thread[t].found /\ new.slots = thread[t].slots
  <2>1. thread[t] \in Locals
    BY Zenon DEF TypeOK
  <2> QED
    BY <1>n, <1>o, <1>r, <2>1, Zenon DEF Locals
<1>3. /\ ThreadsOK' /\ thread'[t] = new /\ \A u \in Threads \ {t} : thread'[u] = thread[u]
      /\ \A u \in Threads : /\ thread'[u].opt = thread[u].opt /\ thread'[u].role = thread[u].role
                            /\ thread'[u].found = thread[u].found
  BY <1>0, <1>1, <1>2, <1>o, <1>r, Moved, Became, Zenon
<1>4. /\ \A u \in Threads \ {t} : \A opt, s, pcs : Does(u, opt, s, pcs)' <=> Does(u, opt, s, pcs)
      /\ \A u \in Threads \ {t} : \A opt, e, s : Calls(u, opt, e, s)' <=> Calls(u, opt, e, s)
      /\ \A opt, s, pcs : Does(t, opt, s, pcs)' <=> opt = o /\ s = r /\ "graph" \in pcs
      /\ \A opt, s, pcs : Does(t, opt, s, pcs) <=> opt = o /\ s = r /\ "channel" \in pcs
      /\ \A opt, e, s : Calls(t, opt, e, s)' <=> opt = o /\ s = r
      /\ \A opt, e, s : ~Calls(t, opt, e, s)
  <2>1. /\ \A opt, s, pcs : Does(t, opt, s, pcs)' <=> opt = o /\ s = r /\ "graph" \in pcs
        /\ \A opt, s, pcs : Does(t, opt, s, pcs) <=> opt = o /\ s = r /\ "channel" \in pcs
    BY <1>0, <1>2, <1>3, <1>o, <1>r, SMTT(30) DEF Does
  <2>2. /\ \A opt, e, s : Calls(t, opt, e, s)' <=> opt = o /\ s = r
        /\ \A opt, e, s : ~Calls(t, opt, e, s)
    BY <2>1, SMTT(30) DEF Calls
  <2> QED
    BY <1>0, <2>1, <2>2, Became, Zenon
<1>5. Known' = (IF o = "join" THEN Known \cup {r} ELSE Known \ {r}) /\ NodeKnown' = NodeKnown
  <2>1. \A p \in chanRoles : p[2] \in Roles /\ (p[2] = r => p[1] = r.name)
    BY Zenon DEF TableInv, KeysOK, TypeOK
  <2>3. /\ RolesIn(MultiAdd(chanRoles, r.name, r)) = RolesIn(chanRoles) \cup {r}
        /\ RolesIn(MultiRemove(chanRoles, r.name, r)) = RolesIn(chanRoles) \ {r}
    BY <1>1, <2>1, TableFacts, Zenon
  <2>4. Known = RolesIn(chanRoles) /\ Known' = RolesIn(chanRoles') /\ NodeKnown' = NodeKnown
    BY <1>0, Zenon DEF Known, NodeKnown, RolesIn
  <2> QED
    BY <1>0, <2>3, <2>4, Zenon
(* Nobody else takes the role in. *)
<1>6. o = "join" => /\ Joining(r) /\ status[r] # "new"
                    /\ \A u \in Threads \ {t} : ~(thread[u].opt = "join" /\ thread[u].role = r)
  <2> SUFFICES ASSUME o = "join"
               PROVE  /\ Joining(r) /\ status[r] # "new"
                      /\ \A u \in Threads \ {t} : ~(thread[u].opt = "join" /\ thread[u].role = r)
    BY Zenon
  <2>1. Joining(r)
    BY <1>4, Zenon DEF Joining
  <2>2. status[r] # "new"
    BY <1>o, <1>r, Distinct, Zenon DEF TableInv, ThreadsOK, LocalThread,
       SubThread, PartThread
  <2>3. \A u \in Threads \ {t} : ~(thread[u].opt = "join" /\ thread[u].role = r)
    BY <1>o, <1>r, Distinct DEF TableInv, ThreadsOK, LocalThread, SubThread,
       PartThread
  <2> QED
    BY <2>1, <2>2, <2>3, Zenon
<1>7. \A s : /\ Joining(s)' => Joining(s)
             /\ s # r => (Joining(s)' <=> Joining(s))
             /\ o = "leave" => (Joining(s)' <=> Joining(s))
             /\ o = "join" => ~Joining(r)'
  <2>1. \A u \in Threads : \A s : Does(u, "join", s, {"node", "channel"})' <=> Does(u, "join", s, {"node", "channel"}) /\ u # t
    BY <1>4
  <2>2. \A s : Does(t, "join", s, {"node", "channel"}) <=> o = "join" /\ s = r
    BY <1>4, Zenon
  <2>3. o = "join" => \A u \in Threads \ {t} : ~Does(u, "join", r, {"node", "channel"})
    BY <1>6, Zenon DEF Does
  <2> QED
    BY <2>1, <2>2, <2>3, SMTT(30) DEF Joining
<1>8. \A s : Settled(s) => Settled(s)'
  BY <1>0, <1>7, SameInbox, SMTT(30) DEF Settled
<1>9. o = "join" => Settled(r)'
  BY <1>0, <1>1, <1>6, <1>7, SameInbox, Zenon DEF Settled, TableInv, SettledOK
<1>10. InboxOK'
  BY <1>0, SameInbox DEF TableInv, InboxOK
<1>11. SettledOK'
  <2>1. \A s \in Known' : Settled(s)'
    BY <1>1, <1>5, <1>8, <1>9, Zenon DEF TableInv, SettledOK
  <2>2. \A u \in Threads, s \in Roles : thread'[u].opt = "leave" /\ thread'[u].role = s => Settled(s)'
    BY <1>3, <1>8, ZenonT(40) DEF TableInv, SettledOK
  <2> QED
    BY <1>0, <1>3, <1>7, <1>8, <2>1, <2>2, Distinct, SameInbox,
       ZenonT(40) DEF TableInv, SettledOK
<1>12. KeysOK'
  BY <1>0, <1>1 DEF TableInv, KeysOK, MultiAdd, MultiRemove
<1>13. o = "join" => \A u \in Threads : \A pcs : ~Does(u, "leave", r, pcs)
  BY <1>1, <1>6, SMTT(30) DEF TableInv, SettledOK, Settled, Does
<1>14. LeftOK'
  BY <1>1, <1>4, <1>5, <1>13 DEF TableInv, LeftOK
<1>15. NodesOK'
  <2>1. o = "join" => r \in NodeKnown
    BY <1>1, <1>4, SMTT(30) DEF TableInv, NodesOK
  <2>2. o = "leave" => r \notin NodeKnown
    BY <1>1, <1>4, SMTT(30) DEF TableInv, NodesOK
  <2>3. \A u \in Threads : \A opt, s : Does(u, opt, s, {"channel"})' <=> Does(u, opt, s, {"channel"}) /\ u # t
    BY <1>4, SMTT(30)
  <2>4. \A u \in Threads : \A opt, s : Does(u, opt, s, {"channel", "graph", "call"})' <=> Does(u, opt, s, {"channel", "graph", "call"})
    BY <1>4, SMTT(30)
  <2>5. \A opt, s : Does(t, opt, s, {"channel"}) => s = r
    BY <1>4
  <2>6. CASE o = "join"
    BY <1>5, <2>1, <2>3, <2>4, <2>5, <2>6 DEF TableInv, NodesOK
  <2>7. CASE o = "leave"
    BY <1>5, <2>2, <2>3, <2>4, <2>5, <2>7 DEF TableInv, NodesOK
  <2> QED
    BY <1>1, <2>6, <2>7, SMTT(30)
<1>16. RolesOK'
  <2> SUFFICES ASSUME NEW s \in Roles \ overlapped'
               PROVE  /\ s \in Local => LocalFine(s)'
                      /\ s \notin Local /\ s.proc \notin dropped => PresentFine(s)'
                      /\ s \notin Local /\ s.proc \in dropped => DroppedFine(s)'
    BY <1>0, Zenon DEF RolesOK
  <2>0. s \notin overlapped
    BY <1>0, SMTT(30)
  <2>1. ASSUME s # r
        PROVE  /\ s \in Known' <=> s \in Known
               /\ Joining(s)' <=> Joining(s)
               /\ \A u \in Threads : \A opt, pcs : Does(u, opt, s, pcs)' <=> Does(u, opt, s, pcs)
    BY <1>4, <1>5, <1>7, <2>1
  <2>2. ASSUME s \in Local PROVE LocalFine(s)'
    <3>1. LocalFine(s)
      BY <2>0, <2>2, Zenon DEF TableInv, RolesOK
    <3>2. CASE s # r
      BY <1>0, <2>1, <2>2, <3>1, <3>2, Distinct, Zenon DEF LocalFine
    <3>3. CASE s = r /\ o = "join"
      <4>1. status[r] = "joined"
        BY <1>o, <1>r, <2>2, <3>3, Distinct, ZenonT(40) DEF TableInv, ThreadsOK,
           LocalThread, SubThread, PartThread
      <4> QED
        BY <1>0, <1>5, <3>3, <4>1, Zenon DEF LocalFine
    <3>4. CASE s = r /\ o = "leave"
      <4>1. status[r] = "left"
        BY <1>o, <1>r, <2>2, <3>4, Distinct, Typed, ZenonT(40) DEF TableInv,
           ThreadsOK, LocalThread, SubThread, PartThread
      <4> QED
        BY <1>0, <1>5, <3>4, <4>1, Zenon DEF LocalFine
    <3> QED
      BY <1>1, <3>2, <3>3, <3>4, Zenon
  <2>3. ASSUME s \notin Local, s.proc \notin dropped PROVE PresentFine(s)'
    <3>1. PresentFine(s)
      BY <2>0, <2>3, Zenon DEF TableInv, RolesOK
    <3>2. CASE s # r
      BY <1>0, <2>1, <3>1, <3>2, Distinct, SameInbox, Zenon DEF PresentFine
    <3>3. CASE s = r /\ o = "join"
      <4>1. status[r] = "left" => Sent(r.proc, "leave", r)
        BY <1>6, <1>13, <3>1, <3>3, Distinct, SMTT(30) DEF PresentFine
      <4> QED
        BY <1>0, <1>5, <3>3, <4>1, SameInbox, ZenonT(40) DEF PresentFine
    <3>4. CASE s = r /\ o = "leave"
      <4>1. status[r] = "left" /\ Settled(r)
        BY <1>1, <1>o, <1>r, <2>3, <3>4, Distinct, Typed, Zenon
           DEF TableInv, ThreadsOK, LocalThread, SubThread, PartThread, SettledOK
      <4>2. ~Sent(r.proc, "join", r) /\ ~Joining(r)
        BY <2>3, <3>4, <4>1, Distinct, Zenon DEF Settled, JoinSent
      <4> QED
        BY <1>0, <1>5, <1>7, <3>4, <4>1, <4>2, SameInbox, Zenon DEF PresentFine
    <3> QED
      BY <1>1, <3>2, <3>3, <3>4, Zenon
  <2>4. ASSUME s \notin Local, s.proc \in dropped PROVE DroppedFine(s)'
    <3>1. DroppedFine(s)
      BY <2>0, <2>4, Zenon DEF TableInv, RolesOK
    <3>2. CASE s # r
      BY <1>0, <1>3, <2>1, <3>1, <3>2, Distinct, ZenonT(40) DEF DroppedFine
    <3>3. CASE s = r /\ o = "join"
      <4>1. t = sub
        BY <1>o, <1>r, <2>4, <3>3, Distinct, Zenon DEF TableInv, ThreadsOK,
           LocalThread, SubThread, PartThread
      <4> QED
        BY <1>r, <3>1, <3>3, <4>1, SMTT(30) DEF DroppedFine
    <3>4. CASE s = r /\ o = "leave"
      BY <1>3, <1>5, <3>1, <3>4, Distinct, Zenon DEF DroppedFine
    <3> QED
      BY <1>1, <3>2, <3>3, <3>4, Zenon
  <2> QED
    BY <2>2, <2>3, <2>4, SMTT(30)
<1>17. \A s : s \in Known \cup overlapped /\ (s = r => s \notin overlapped' /\ o = "join") => s \in Known' \cup overlapped'
  BY <1>0, <1>5, Zenon
<1>18. JoinersOK'
  <2> SUFFICES ASSUME NEW u \in Threads, NEW s \in Roles, Does(u, "join", s, {"graph", "call"})'
               PROVE  s \in Known' \cup overlapped'
    BY Zenon DEF JoinersOK
  <2>1. CASE u = t
    BY <1>4, <1>5, <2>1, SMTT(30)
  <2>2. CASE u # t
    <3>1. Does(u, "join", s, {"graph", "call"}) /\ s \in Known \cup overlapped
      BY <1>4, <2>2, Zenon DEF TableInv, JoinersOK
    <3>2. thread[u].opt = "join" /\ thread[u].role = s
      BY <3>1, SMTT(30) DEF Does
    <3> QED
      BY <1>0, <1>1, <1>5, <2>2, <3>1, <3>2, Zenon
  <2> QED
    BY <2>1, <2>2, Zenon
<1>19. NoSharedReceiver => PeersOK'
  <2> SUFFICES ASSUME NoSharedReceiver PROVE PeersOK'
    BY Zenon
  <2>1. \A e \in Local : /\ At(e, "enable")' <=> At(e, "enable") /\ e # t
                         /\ At(e, "get")' <=> At(e, "get")
                         /\ At(t, "enable") => FALSE
    BY <1>0, <1>2, <1>3, Distinct, Zenon DEF At
  <2>2. ASSUME NEW e \in Local, NEW s \in Roles PROVE EnabledFine(e, s)'
    <3>1. EnabledFine(e, s)
      BY Zenon DEF TableInv, PeersOK
    <3>2. ASSUME s.id \in peers[e.id], e \in slots
          PROVE  Opposite(e, s) /\ (s \in Known' \cup overlapped' \/ \E u \in Threads : Calls(u, "leave", e, s)')
      <4>1. CASE s \in Known \cup overlapped
        BY <1>0, <1>1, <1>4, <1>5, <3>1, <3>2, <4>1, Zenon DEF EnabledFine
      <4>2. CASE \E u \in Threads : Calls(u, "leave", e, s)
        BY <1>4, <3>1, <3>2, <4>2, SMTT(30) DEF EnabledFine
      <4> QED
        BY <3>1, <3>2, <4>1, <4>2, Zenon DEF EnabledFine
    <3>3. ASSUME At(e, "enable"), s \in thread[e].found
          PROVE  Opposite(e, s) /\ s \in Known' \cup overlapped'
      <4>1. e \in Threads \ {t} /\ s \in Known \cup overlapped /\ Opposite(e, s)
        BY <2>1, <3>1, <3>3, Distinct, SMTT(30) DEF EnabledFine
      <4> QED
        BY <1>0, <1>1, <1>5, <3>3, <4>1, Zenon
    <3> QED
      BY <1>0, <1>3, <2>1, <3>1, <3>2, <3>3, Distinct, Zenon DEF EnabledFine
  <2>3. ASSUME NEW e \in slots, NEW s \in Known', Opposite(e, s), ~At(e, "get")'
        PROVE  Reached(e, s)'
    <3>0. e \in Local
      BY Typed, Zenon
    <3>1. CASE s \in Known
      <4>1. Reached(e, s)
        BY <2>1, <2>3, <3>0, <3>1, SMTT(30) DEF TableInv, PeersOK
      <4>2. \A u \in Threads : Calls(u, "join", e, s) => Calls(u, "join", e, s)'
        BY <1>4, SMTT(30)
      <4> QED
        BY <1>0, <1>3, <2>1, <3>0, <4>1, <4>2, Distinct, Zenon DEF Reached
    <3>2. CASE s \notin Known
      BY <1>4, <1>5, <3>2, SMTT(30) DEF Reached
    <3> QED
      BY <3>1, <3>2, Zenon
  <2> QED
    BY <1>0, <2>2, <2>3, SMTT(30) DEF PeersOK
<1> QED
  BY <1>3, <1>10, <1>11, <1>12, <1>14, <1>15, <1>16, <1>18, <1>19,
     Zenon DEF TableInv, NoSharedReceiver

(* A step within the calls of the graph and of the signal changes only     *)
(* which endpoints have been called.                                       *)
LEMMA CallingKeeps ==
  ASSUME TypeOK, TableInv, NEW t \in Threads, NEW new, Become(t, new),
         thread[t].pc \in {"graph", "call"}, new.pc = "call",
         new.opt = thread[t].opt, new.role = thread[t].role, new.found = thread[t].found,
         UNCHANGED <<status, gone, dropped, inbox, nodeRoles, chanRoles, slots, overlapped>>,
         NoSharedReceiver => PeersOK'
  PROVE  TableInv'
<1>1. thread[t].opt # "none"
  BY Zenon DEF TableInv, ThreadsOK, ThreadFine
<1>2. /\ ThreadsOK' /\ thread'[t] = new /\ \A u \in Threads \ {t} : thread'[u] = thread[u]
      /\ \A u \in Threads : /\ thread'[u].opt = thread[u].opt /\ thread'[u].role = thread[u].role
                            /\ thread'[u].found = thread[u].found
  BY <1>1, Moved, Became, ZenonT(40)
<1>3. /\ \A u \in Threads : \A opt, s : Does(u, opt, s, {"node", "channel"})' <=> Does(u, opt, s, {"node", "channel"})
      /\ \A u \in Threads : \A opt, s : Does(u, opt, s, {"graph", "call"})' <=> Does(u, opt, s, {"graph", "call"})
      /\ \A u \in Threads : \A opt, s : Does(u, opt, s, {"channel"})' <=> Does(u, opt, s, {"channel"})
      /\ \A u \in Threads : \A opt, s : Does(u, opt, s, {"channel", "graph", "call"})' <=> Does(u, opt, s, {"channel", "graph", "call"})
  BY <1>2, SMTT(30) DEF Does
<1>4. \A s : Joining(s)' <=> Joining(s)
  BY <1>3, Zenon DEF Joining
<1>5. \A s : Settled(s)' <=> Settled(s)
  BY <1>4, SameInbox, SMTT(30) DEF Settled
<1>6. InboxOK' /\ KeysOK'
  BY SameInbox, ZenonT(40) DEF TableInv, InboxOK, KeysOK
<1>7. SettledOK'
  BY <1>2, <1>4, <1>5, Distinct, SameInbox, SameTables, ZenonT(40) DEF TableInv,
     SettledOK
<1>8. LeftOK' /\ JoinersOK' /\ NodesOK'
  BY <1>3, SameTables, Zenon DEF TableInv, LeftOK, JoinersOK, NodesOK
<1>9. RolesOK'
  BY <1>2, <1>3, <1>4, Distinct, SameInbox, SameTables, ZenonT(40) DEF TableInv,
     RolesOK, LocalFine, PresentFine, DroppedFine
<1> QED
  BY <1>2, <1>6, <1>7, <1>8, <1>9, Zenon DEF TableInv, NoSharedReceiver

(* The graph is changed and the signal copies its slots: every endpoint    *)
(* that is connected is among those to be called.                          *)
LEMMA DisposeGraphKeeps ==
  ASSUME TypeOK, TableInv, NEW t \in Threads, DisposeGraph(t)
  PROVE  TableInv'
<1>n. PICK new : new = [thread[t] EXCEPT !.pc = "call", !.slots = slots]
  BY Zenon
<1>0. /\ thread[t].pc = "graph" /\ Become(t, new)
      /\ UNCHANGED <<status, gone, dropped, inbox, nodeRoles, chanRoles, slots, peers, overlapped>>
  BY <1>n, Zenon DEF DisposeGraph, At
<1>1. /\ new.pc = "call" /\ new.opt = thread[t].opt /\ new.role = thread[t].role
      /\ new.found = thread[t].found /\ new.slots = slots
  <2>1. thread[t] \in Locals
    BY Zenon DEF TypeOK
  <2> QED
    BY <1>n, <2>1, SMTT(30) DEF Locals
<1>2. thread'[t] = new /\ \A u \in Threads \ {t} : thread'[u] = thread[u]
  BY <1>0, Became, Zenon
<1>3. NoSharedReceiver => PeersOK'
  <2> SUFFICES ASSUME NoSharedReceiver PROVE PeersOK'
    BY Zenon
  <2>1. \A u \in Threads, opt \in {"join", "leave"}, e \in slots : \A s :
          Calls(u, opt, e, s) => Calls(u, opt, e, s)'
    BY <1>0, <1>1, <1>2, SMTT(30) DEF Calls, Does
  <2>2. \A e \in Local : /\ At(e, "enable")' <=> At(e, "enable")
                         /\ At(e, "get")' <=> At(e, "get")
                         /\ thread'[e].found = thread[e].found
    BY <1>0, <1>1, <1>2, Distinct, Zenon DEF At
  <2>3. /\ peers' = peers /\ slots' = slots /\ status' = status /\ overlapped' = overlapped
        /\ Known' = Known
    BY <1>0, SameTables, Zenon
  <2>4. ASSUME NEW e \in Local, NEW s \in Roles PROVE EnabledFine(e, s)'
    <3>1. EnabledFine(e, s)
      BY Zenon DEF TableInv, PeersOK
    <3>2. e \in slots => \A u \in Threads : Calls(u, "leave", e, s) => Calls(u, "leave", e, s)'
      BY <2>1, SMTT(30)
    <3> QED
      BY <2>2, <2>3, <3>1, <3>2, Zenon DEF EnabledFine
  <2>5. ASSUME NEW e \in slots, NEW s \in Known, Opposite(e, s), ~At(e, "get")'
        PROVE  Reached(e, s)'
    <3>1. e \in Local /\ Reached(e, s)
      BY <2>2, <2>5, Typed, Zenon DEF TableInv, PeersOK
    <3>2. \A u \in Threads : Calls(u, "join", e, s) => Calls(u, "join", e, s)'
      BY <2>1, Zenon
    <3> QED
      BY <2>2, <2>3, <3>1, <3>2, SMTT(30) DEF Reached
  <2> QED
    BY <2>3, <2>4, <2>5, SMTT(30) DEF PeersOK
<1> QED
  BY <1>0, <1>1, <1>3, CallingKeeps, Zenon

(* The signal calls one endpoint: it enables the role that has joined,     *)
(* which is in the table (or left meanwhile), or disables the one that has *)
(* left, which is not.                                                     *)
LEMMA CallOneKeeps ==
  ASSUME TypeOK, TableInv, NEW t \in Threads, At(t, "call"), NEW r, r = thread[t].role,
         NEW e \in thread[t].slots,
         peers' = IF e \notin slots \/ ~Opposite(e, r) THEN peers
                  ELSE IF thread[t].opt = "join" THEN EnablePeer(e, r)
                  ELSE DisablePeer(e, r),
         Become(t, [thread[t] EXCEPT !.slots = @ \ {e}]),
         UNCHANGED <<status, gone, dropped, inbox, nodeRoles, chanRoles, graph, slots, overlapped>>
  PROVE  TableInv'
<1>n. PICK new : new = [thread[t] EXCEPT !.slots = @ \ {e}]
  BY Zenon
<1>o. PICK o : o = thread[t].opt
  BY Zenon
<1>0. Become(t, new) /\ thread[t].pc = "call" /\ e \in Local
  BY <1>n, Typed, Zenon DEF At
<1>1. /\ new.pc = "call" /\ new.opt = thread[t].opt /\ new.role = thread[t].role
      /\ new.found = thread[t].found /\ new.slots = thread[t].slots \ {e}
  <2>1. thread[t] \in Locals
    BY Zenon DEF TypeOK
  <2> QED
    BY <1>0, <1>n, <2>1, Zenon DEF Locals
<1>2. thread'[t] = new /\ \A u \in Threads \ {t} : thread'[u] = thread[u]
  BY <1>0, Became, Zenon
<1>3. o \in {"join", "leave"} /\ r \in Roles
  BY <1>0, <1>o, Typed, Zenon DEF TableInv, ThreadsOK, ThreadFine
<1>4. /\ \A f \in Local : \A i : i \in peers'[f.id] <=>
           \/ i \in peers[f.id] /\ ~(o = "leave" /\ e \in slots /\ Opposite(e, r) /\ f.id = e.id /\ i = r.id)
           \/ o = "join" /\ e \in slots /\ Opposite(e, r) /\ f.id = e.id /\ i = r.id
  BY <1>0, <1>3, <1>o, PeerFacts
<1>5. NoSharedReceiver => PeersOK'
  <2> SUFFICES ASSUME NoSharedReceiver PROVE PeersOK'
    BY Zenon
  <2>1. /\ \A u \in Threads : \A opt, f, s :
             Calls(u, opt, f, s) => Calls(u, opt, f, s)' \/ (u = t /\ opt = o /\ f = e /\ s = r)
        /\ Does(t, o, r, {"graph", "call"})
    BY <1>0, <1>1, <1>2, <1>o DEF Calls, Does
  <2>2. \A f \in Local : /\ At(f, "enable")' <=> At(f, "enable")
                         /\ At(f, "get")' <=> At(f, "get")
                         /\ thread'[f].found = thread[f].found
    BY <1>0, <1>1, <1>2, Distinct, Zenon DEF At
  <2>3. ASSUME NEW f \in Local, NEW s \in Roles PROVE EnabledFine(f, s)'
    <3>1. EnabledFine(f, s)
      BY Zenon DEF TableInv, PeersOK
    <3>2. (f.id = e.id => f = e) /\ (s.id = r.id => s = r)
      BY <1>0, <1>3, Distinct, Zenon DEF NoSharedReceiver
    <3>3. ASSUME s.id \in peers'[f.id], f \in slots
          PROVE  Opposite(f, s) /\ (s \in Known \cup overlapped \/ \E u \in Threads : Calls(u, "leave", f, s)')
      <4>1. CASE s.id \in peers[f.id]
        <5>1. Opposite(f, s) /\ (s \in Known \cup overlapped \/ \E u \in Threads : Calls(u, "leave", f, s))
          BY <3>1, <3>3, <4>1, Zenon DEF EnabledFine
        <5>2. ASSUME NEW u \in Threads, Calls(u, "leave", f, s), ~Calls(u, "leave", f, s)'
              PROVE  FALSE
          <6>1. u = t /\ o = "leave" /\ f = e /\ s = r
            BY <2>1, <5>2
          <6> QED
            BY <1>4, <3>3, <5>1, <6>1, Zenon
        <5> QED
          BY <5>1, <5>2, Zenon
      <4>2. CASE s.id \notin peers[f.id]
        <5>1. o = "join" /\ f = e /\ s = r /\ Opposite(e, r)
          BY <1>4, <3>2, <3>3, <4>2, Zenon
        <5>2. r \in Known \cup overlapped
          BY <1>3, <2>1, <5>1, Zenon DEF TableInv, JoinersOK
        <5> QED
          BY <5>1, <5>2, Zenon
      <4> QED
        BY <4>1, <4>2, Zenon
    <3>4. f \notin slots => (s.id \in peers'[f.id] <=> s.id \in peers[f.id])
      BY <1>4, <3>2, Zenon
    <3> QED
      BY <2>2, <3>1, <3>3, <3>4, SameTables, Zenon DEF EnabledFine
  <2>4. ASSUME NEW f \in slots, NEW s \in Known, Opposite(f, s), ~At(f, "get")'
        PROVE  Reached(f, s)'
    <3>1. f \in Local /\ Reached(f, s) /\ s \in Roles
      BY <2>2, <2>4, Typed, Zenon DEF TableInv, PeersOK
    <3>2. o = "leave" => s.id # r.id
      BY <1>3, <2>1, <3>1, Zenon DEF TableInv, LeftOK, NoSharedReceiver
    <3>3. s.id \in peers[f.id] => s.id \in peers'[f.id]
      BY <1>4, <3>1, <3>2, Zenon
    <3>4. ASSUME NEW u \in Threads, Calls(u, "join", f, s), ~Calls(u, "join", f, s)'
          PROVE  s.id \in peers'[f.id]
      <4>1. o = "join" /\ f = e /\ s = r
        BY <2>1, <3>4
      <4> QED
        BY <1>4, <2>4, <3>1, <4>1, Zenon
    <3> QED
      BY <2>2, <3>1, <3>3, <3>4, Zenon DEF Reached
  <2> QED
    BY <2>3, <2>4, SameTables, Zenon DEF PeersOK
<1> QED
  BY <1>0, <1>1, <1>5, CallingKeeps, Zenon

(* The signal has called them all.                                         *)
LEMMA CallsDoneKeeps ==
  ASSUME TypeOK, TableInv, NEW t \in Threads, At(t, "call"), thread[t].slots = {},
         Become(t, [Idle EXCEPT !.pc = IF t = part THEN "each" ELSE "idle",
                                !.found = thread[t].found]),
         UNCHANGED <<status, gone, dropped, inbox, nodeRoles, chanRoles, graph, slots, peers, overlapped>>
  PROVE  TableInv'
<1>n. PICK new : new = [Idle EXCEPT !.pc = IF t = part THEN "each" ELSE "idle",
                                    !.found = thread[t].found]
  BY Zenon
<1>0. /\ Become(t, new) /\ new.pc = (IF t = part THEN "each" ELSE "idle") /\ new.opt = "none"
      /\ new.role = NoRole /\ new.found = thread[t].found /\ thread[t].pc = "call"
  BY <1>n, Zenon DEF Idle, At
<1>1. thread'[t] = new /\ \A u \in Threads \ {t} : thread'[u] = thread[u]
  BY <1>0, Became, Zenon
<1>2. ThreadsOK'
  <2>1. ThreadFine(t)'
    BY <1>0, <1>1, Zenon DEF ThreadFine
  <2>2. t \in Local => LocalThread(t)'
    BY <1>0, <1>1, Zenon DEF LocalThread
  <2>3. t = sub => SubThread'
    BY <1>0, <1>1, Zenon DEF SubThread
  <2>4. t = part => PartThread'
    BY <1>0, <1>1, Zenon DEF PartThread, TableInv, ThreadsOK
  <2> QED
    BY <1>1, <2>1, <2>2, <2>3, <2>4, OneThread, Zenon DEF TableInv
<1>3. /\ \A u \in Threads, opt \in {"join", "leave"} : \A s :
           /\ Does(u, opt, s, {"node", "channel"})' <=> Does(u, opt, s, {"node", "channel"})
           /\ Does(u, opt, s, {"channel"})' <=> Does(u, opt, s, {"channel"})
      /\ \A u \in Threads, opt \in {"join", "leave"} : \A s, pcs : Does(u, opt, s, pcs)' => Does(u, opt, s, pcs)
  BY <1>0, <1>1, ZenonT(40) DEF Does
<1>4. \A u \in Threads, opt \in {"join", "leave"} : \A f, s : Calls(u, opt, f, s)' <=> Calls(u, opt, f, s)
  BY <1>0, <1>1 DEF Calls, Does
<1>5. \A s : Joining(s)' <=> Joining(s)
  BY <1>3, Zenon DEF Joining
<1>6. \A s : Settled(s)' <=> Settled(s)
  BY <1>5, SameInbox, Zenon DEF Settled
<1>7. InboxOK' /\ KeysOK'
  BY SameInbox DEF TableInv, InboxOK, KeysOK
<1>8. SettledOK'
  <2>1. \A u \in Threads, s \in Roles : thread'[u].opt = "leave" /\ thread'[u].role = s => Settled(s)'
    BY <1>0, <1>1, <1>6, Zenon DEF TableInv, SettledOK
  <2>2. \A s \in thread'[part].found : Settled(s)'
    BY <1>0, <1>1, <1>6, Distinct, Zenon DEF TableInv, SettledOK
  <2> QED
    BY <1>5, <1>6, <2>1, <2>2, SameInbox, SameTables, Zenon DEF TableInv, SettledOK
<1>9. LeftOK' /\ JoinersOK' /\ NodesOK'
  BY <1>3, SameTables, ZenonT(40) DEF TableInv, LeftOK, JoinersOK, NodesOK
<1>10. RolesOK'
  <2>1. thread'[part].found = thread[part].found /\ (thread'[sub].role = thread[sub].role \/ thread'[sub].role = NoRole)
    BY <1>0, <1>1, Distinct, Zenon
  <2> QED
    BY <1>3, <1>5, <2>1, Distinct, SameInbox, SameTables, Zenon DEF TableInv,
       RolesOK, LocalFine, PresentFine, DroppedFine
<1>11. NoSharedReceiver => PeersOK'
  <2> SUFFICES ASSUME NoSharedReceiver PROVE PeersOK'
    BY Zenon
  <2>1. \A f \in Local : /\ At(f, "enable")' <=> At(f, "enable")
                         /\ At(f, "get")' <=> At(f, "get")
                         /\ thread'[f].found = thread[f].found
    BY <1>0, <1>1, Distinct, Zenon DEF At
  <2>2. ASSUME NEW f \in Local, NEW s \in Roles PROVE EnabledFine(f, s)'
    BY <1>4, <2>1, SameTables, Zenon DEF TableInv, PeersOK, EnabledFine
  <2>3. ASSUME NEW f \in slots, NEW s \in Known, Opposite(f, s), ~At(f, "get")'
        PROVE  Reached(f, s)'
    BY <1>4, <2>1, <2>3, Typed, Zenon DEF TableInv, PeersOK, Reached
  <2> QED
    BY <2>2, <2>3, SameTables, Zenon DEF PeersOK
<1> QED
  BY <1>2, <1>7, <1>8, <1>9, <1>10, <1>11, Zenon DEF TableInv, NoSharedReceiver

(* The two together: OnChannelChange.                                      *)
LEMMA OnChannelChangeKeeps ==
  ASSUME TypeOK, TableInv, NEW t \in Threads, OnChannelChange(t)
  PROVE  TableInv'
<1>r. PICK r : r = thread[t].role
  BY Zenon
<1>1. /\ At(t, "call")
      /\ UNCHANGED <<status, gone, dropped, inbox, nodeRoles, chanRoles, graph, slots, overlapped>>
  BY Zenon DEF OnChannelChange
<1>2. CASE \E e \in thread[t].slots :
              /\ peers' = IF e \notin slots \/ ~Opposite(e, r) THEN peers
                          ELSE IF thread[t].opt = "join" THEN EnablePeer(e, r)
                          ELSE DisablePeer(e, r)
              /\ Become(t, [thread[t] EXCEPT !.slots = @ \ {e}])
  <2>1. PICK e \in thread[t].slots :
              /\ peers' = IF e \notin slots \/ ~Opposite(e, r) THEN peers
                          ELSE IF thread[t].opt = "join" THEN EnablePeer(e, r)
                          ELSE DisablePeer(e, r)
              /\ Become(t, [thread[t] EXCEPT !.slots = @ \ {e}])
    BY <1>2, Zenon
  <2> QED
    BY <1>r, <1>1, <2>1, CallOneKeeps, Zenon
<1>3. CASE /\ thread[t].slots = {}
           /\ Become(t, [Idle EXCEPT !.pc = IF t = part THEN "each" ELSE "idle",
                                     !.found = thread[t].found])
           /\ UNCHANGED peers
  BY <1>1, <1>3, CallsDoneKeeps, Zenon
<1> QED
  BY <1>r, <1>2, <1>3, Zenon DEF OnChannelChange

(* Nobody has joined.                                                      *)
LEMMA InitTableInv == Init => TableInv
<1> SUFFICES ASSUME Init PROVE TableInv
  BY SMTT(30)
<1>1. /\ \A t \in Threads : thread[t].pc = "idle" /\ thread[t].opt = "none" /\ thread[t].role = NoRole
                            /\ thread[t].found = {} /\ thread[t].slots = {}
      /\ \A q \in Others : inbox[q] = <<>> /\ Len(inbox[q]) = 0
      /\ \A r \in Roles : status[r] = "new"
      /\ Known = {} /\ NodeKnown = {} /\ slots = {} /\ dropped = {} /\ overlapped = {}
      /\ chanRoles = {} /\ nodeRoles = {}
      /\ \A e \in Local : peers[e.id] = {}
  BY Zenon DEF Init, Idle, Known, NodeKnown, Endpoints
<1>2. \A t \in Threads : \A r, pcs : ~Does(t, "join", r, pcs) /\ ~Does(t, "leave", r, pcs)
  BY <1>1, Zenon DEF Does
<1>3. \A q \in Others : \A r : ~Sent(q, "join", r) /\ ~Sent(q, "leave", r)
  BY <1>1 DEF Sent
<1>4. \A r : ~Joining(r) /\ ~JoinSent(r)
  BY <1>2, <1>3, SMTT(30) DEF Joining, JoinSent
<1>5. ThreadsOK
  BY <1>1, Distinct, SMTT(30) DEF ThreadsOK, ThreadFine, LocalThread, SubThread,
     PartThread
<1>6. InboxOK
  BY <1>1, <1>3, SMTT(30) DEF InboxOK, InOrder
<1>7. SettledOK
  BY <1>1, <1>4, Distinct, SMTT(30) DEF SettledOK
<1>8. KeysOK /\ LeftOK /\ NodesOK /\ JoinersOK
  BY <1>1, <1>2, SMTT(30) DEF KeysOK, LeftOK, NodesOK, JoinersOK
<1>9. RolesOK
  BY <1>1, Zenon DEF RolesOK, LocalFine, PresentFine
<1>10. PeersOK
  <2>1. \A e \in Local : ~At(e, "enable")
    BY <1>1, Distinct, SMTT(30) DEF At
  <2>2. \A e \in Local, r \in Roles : EnabledFine(e, r)
    BY <1>1, <2>1, Zenon DEF EnabledFine
  <2> QED
    BY <1>1, <2>2, Zenon DEF PeersOK
<1> QED
  BY <1>5, <1>6, <1>7, <1>8, <1>9, <1>10, Zenon DEF TableInv

(* Every step keeps TableInv.                                              *)
LEMMA NextTableInv == TypeOK /\ TableInv /\ [Next]_vars => TableInv'
<1> SUFFICES ASSUME TypeOK, TableInv, [Next]_vars PROVE TableInv'
  BY Zenon
<1>1. CASE \E r \in Roles : RemoteJoin(r) \/ RemoteLeave(r)
  BY <1>1, RemoteJoinKeeps, RemoteLeaveKeeps, Zenon
<1>2. CASE \E q \in Others : RemoteDown(q) \/ OnRemoteChange(q) \/ OnTopoModuleLeave(q)
  <2>1. ASSUME NEW q \in Others, RemoteDown(q) PROVE TableInv'
    BY <2>1, IdleKeeps, Zenon DEF RemoteDown
  <2> QED
    BY <1>2, <2>1, OnRemoteChangeKeeps, OnTopoModuleLeaveKeeps, Zenon
<1>3. CASE \E e \in Local : JoinTheTopology(e) \/ GetPeersOfChannel(e) \/ EnableFound(e)
                            \/ LeaveTheTopology(e)
  <2>1. ASSUME NEW e \in Local, EnableFound(e) PROVE TableInv'
    <3>1. CASE \E r \in thread[e].found :
                 /\ peers' = EnablePeer(e, r)
                 /\ Become(e, [thread[e] EXCEPT !.found = @ \ {r}])
                 /\ UNCHANGED status
      BY <2>1, <3>1, EnableOneKeeps, Zenon DEF EnableFound
    <3>2. CASE /\ thread[e].found = {}
               /\ Become(e, Dispose([opt |-> "join", role |-> e], {}))
               /\ status' = [status EXCEPT ![e] = "joined"]
               /\ UNCHANGED peers
      BY <2>1, <3>2, EnableDoneKeeps, Zenon DEF EnableFound
    <3> QED
      BY <2>1, <3>1, <3>2, Zenon DEF EnableFound
  <2> QED
    BY <1>3, <2>1, JoinTheTopologyKeeps, GetPeersKeeps, LeaveTheTopologyKeeps, Zenon
<1>4. CASE \E t \in Threads : DisposeNode(t) \/ DisposeChannel(t) \/ DisposeGraph(t)
                              \/ OnChannelChange(t)
  BY <1>4, DisposeNodeKeeps, DisposeChannelKeeps, DisposeGraphKeeps,
     OnChannelChangeKeeps, Zenon
<1>5. CASE EachFound
  <2>1. CASE \E r \in thread[part].found :
               Become(part, Dispose([opt |-> "leave", role |-> r], thread[part].found \ {r}))
    BY <1>5, <2>1, EachOneKeeps, Zenon DEF EachFound
  <2>2. CASE thread[part].found = {} /\ Become(part, Idle)
    BY <1>5, <2>2, EachDoneKeeps, Zenon DEF EachFound
  <2> QED
    BY <1>5, <2>1, <2>2, Zenon DEF EachFound
<1>6. CASE UNCHANGED vars
  BY <1>6, IdleKeeps, Zenon DEF vars
<1> QED
  BY <1>1, <1>2, <1>3, <1>4, <1>5, <1>6, Zenon DEF Next

-----------------------------------------------------------------------------
(* The graph. *)

(* A link determines its ends and its channel: GetKey is injective. *)
LEMMA LinkInjective ==
  ASSUME NEW s \in Nodes, NEW c \in Channels, NEW d \in Nodes,
         NEW s2 \in Nodes, NEW c2 \in Channels, NEW d2 \in Nodes,
         Link(s, c, d) = Link(s2, c2, d2)
  PROVE  s = s2 /\ c = c2 /\ d = d2
<1>1. s = s2 /\ EdgeKey(c, d) = EdgeKey(c2, d2)
  BY Zenon DEF Link
<1> QED
  BY <1>1, NamesAssumption DEF KeysDistinct

(* LinksExact, link by link. *)
PointExact(g) ==
  \A s \in Nodes, c \in Channels, d \in Nodes :
    Link(s, c, d) \in g.links <=> <<c, s>> \in g.srcs /\ <<c, d>> \in g.dsts

LEMMA ExactPointwise ==
  ASSUME NEW g \in GraphSet
  PROVE  LinksExact(g) <=> PointExact(g)
<1> DEFINE Called == UNION {{Link(s, c, d) : s \in SrcsOf(g, c), d \in DstsOf(g, c)} : c \in Channels}
<1> HIDE DEF Called
<1>1. \A s \in Nodes, c \in Channels, d \in Nodes :
        Link(s, c, d) \in Called <=> <<c, s>> \in g.srcs /\ <<c, d>> \in g.dsts
  <2> SUFFICES ASSUME NEW s \in Nodes, NEW c \in Channels, NEW d \in Nodes
               PROVE  Link(s, c, d) \in Called <=> <<c, s>> \in g.srcs /\ <<c, d>> \in g.dsts
    BY Zenon
  <2>1. ASSUME Link(s, c, d) \in Called
        PROVE  <<c, s>> \in g.srcs /\ <<c, d>> \in g.dsts
    <3>0. PICK c2 \in Channels :
            Link(s, c, d) \in {Link(x, c2, y) : x \in SrcsOf(g, c2), y \in DstsOf(g, c2)}
      BY <2>1 DEF Called
    <3>1. PICK s2 \in SrcsOf(g, c2), d2 \in DstsOf(g, c2) : Link(s, c, d) = Link(s2, c2, d2)
      BY <3>0, SMTT(30)
    <3>2. s = s2 /\ c = c2 /\ d = d2
      BY <3>1, LinkInjective DEF SrcsOf, DstsOf
    <3> QED
      BY <3>2, Zenon DEF SrcsOf, DstsOf
  <2>2. ASSUME <<c, s>> \in g.srcs, <<c, d>> \in g.dsts
        PROVE  Link(s, c, d) \in Called
    BY <2>2 DEF SrcsOf, DstsOf, Called
  <2> QED
    BY <2>1, <2>2, Zenon
<1>2. Called \subseteq LinkSet
  <2>1. \A c \in Channels : \A s \in SrcsOf(g, c), d \in DstsOf(g, c) : Link(s, c, d) \in LinkSet
    BY DEF LinkSet, SrcsOf, DstsOf
  <2> QED
    BY <2>1 DEF Called
<1>3. g.links \subseteq LinkSet
  BY Zenon DEF GraphSet
<1>4. g.links = Called <=> \A l \in LinkSet : l \in g.links <=> l \in Called
  BY <1>2, <1>3, Zenon
<1>5. (\A l \in LinkSet : l \in g.links <=> l \in Called) <=> PointExact(g)
  <2>1. (\A l \in LinkSet : l \in g.links <=> l \in Called) <=>
          \A s \in Nodes, c \in Channels, d \in Nodes :
            Link(s, c, d) \in g.links <=> Link(s, c, d) \in Called
    BY DEF LinkSet
  <2> QED
    BY <1>1, <2>1, Zenon DEF PointExact
<1> QED
  BY <1>4, <1>5 DEF LinksExact, Called

(* InsertCompleteEdges adds the links between S and D on channel c.        *)
LEMMA InsertAdds ==
  ASSUME NEW g \in GraphSet, NEW S \in SUBSET Nodes, NEW ch \in Channels,
         NEW D \in SUBSET Nodes, EndsListed(g)
  PROVE  LET h == InsertCompleteEdges(g, S, ch, D)
         IN  /\ h \in GraphSet /\ h.srcs = g.srcs /\ h.dsts = g.dsts
             /\ EndsListed(h)
             /\ \A s \in Nodes, c \in Channels, d \in Nodes :
                  Link(s, c, d) \in h.links <=>
                    Link(s, c, d) \in g.links \/ (s \in S /\ c = ch /\ d \in D)
<1> DEFINE h == InsertCompleteEdges(g, S, ch, D)
           new == {Link(s, ch, d) : s \in S, d \in D}
           kept == {l \in g.links : ~(l.src \in S /\ \E d \in D : l.key = EdgeKey(ch, d))}
           keys == IF S = {} \/ D = {} THEN g.keys ELSE g.keys \cup S \cup D
<1>1. h = [g EXCEPT !.keys = keys, !.links = kept \cup new]
  BY DEF InsertCompleteEdges
<1>2. keys \in SUBSET Nodes /\ kept \cup new \in SUBSET LinkSet
  <2>1. keys \in SUBSET Nodes /\ kept \in SUBSET LinkSet
    BY Zenon DEF GraphSet
  <2>2. \A s \in S, d \in D : Link(s, ch, d) \in LinkSet
    BY DEF LinkSet
  <2> QED
    BY <2>1, <2>2
<1> HIDE DEF h, new, kept, keys
<1>3. /\ h \in GraphSet /\ h.srcs = g.srcs /\ h.dsts = g.dsts
      /\ h.keys = keys /\ h.links = kept \cup new
  BY <1>1, <1>2, Zenon DEF GraphSet
<1>4. EndsListed(h)
  <2> SUFFICES ASSUME NEW l \in kept \cup new
               PROVE  l.src \in keys /\ l.dst \in keys
    BY <1>3, Zenon DEF EndsListed, kept, keys
  <2>1. CASE l \in kept
    BY <2>1, Zenon DEF EndsListed, kept, keys
  <2>2. CASE l \in new
    BY <2>2 DEF Link, new, keys
  <2> QED
    BY <2>1, <2>2, Zenon
<1>5. ASSUME NEW s \in Nodes, NEW c \in Channels, NEW d \in Nodes
      PROVE  Link(s, c, d) \in kept \cup new <=>
               Link(s, c, d) \in g.links \/ (s \in S /\ c = ch /\ d \in D)
  <2>1. Link(s, c, d) \in new <=> s \in S /\ c = ch /\ d \in D
    <3>1. ASSUME Link(s, c, d) \in new
          PROVE  s \in S /\ c = ch /\ d \in D
      <4>1. PICK s2 \in S, d2 \in D : Link(s, c, d) = Link(s2, ch, d2)
        BY <3>1, SMTT(30) DEF new
      <4> QED
        BY <4>1, LinkInjective
    <3> QED
      BY <3>1 DEF new
  <2>2. Link(s, c, d) \in g.links /\ Link(s, c, d) \notin kept => s \in S /\ c = ch /\ d \in D
    BY NamesAssumption DEF Link, KeysDistinct, kept
  <2> QED
    BY <2>1, <2>2, Zenon DEF kept
<1> QED
  BY <1>3, <1>4, <1>5, Zenon DEF h

(* DeleteCompleteEdges removes the links between S and D on channel c.     *)
LEMMA DeleteRemoves ==
  ASSUME NEW g \in GraphSet, NEW S \in SUBSET Nodes, NEW ch \in Channels,
         NEW D \in SUBSET Nodes, EndsListed(g)
  PROVE  LET h == DeleteCompleteEdges(g, S, ch, D)
         IN  /\ h \in GraphSet /\ h.srcs = g.srcs /\ h.dsts = g.dsts
             /\ EndsListed(h)
             /\ \A s \in Nodes, c \in Channels, d \in Nodes :
                  Link(s, c, d) \in h.links <=>
                    Link(s, c, d) \in g.links /\ ~(s \in S /\ c = ch /\ d \in D)
<1> DEFINE h == DeleteCompleteEdges(g, S, ch, D)
           kept == {l \in g.links : ~(l.src \in S /\ \E d \in D : l.key = EdgeKey(ch, d))}
           keys == IF D = {} THEN g.keys ELSE g.keys \cup S
<1>1. h = [g EXCEPT !.keys = keys, !.links = kept]
  BY Zenon DEF DeleteCompleteEdges
<1>2. keys \in SUBSET Nodes /\ kept \in SUBSET LinkSet
  BY Zenon DEF GraphSet
<1> HIDE DEF h, kept, keys
<1>3. /\ h \in GraphSet /\ h.srcs = g.srcs /\ h.dsts = g.dsts
      /\ h.keys = keys /\ h.links = kept
  BY <1>1, <1>2, Zenon DEF GraphSet
<1>4. EndsListed(h)
  BY <1>3, Zenon DEF EndsListed, kept, keys
<1>5. ASSUME NEW s \in Nodes, NEW c \in Channels, NEW d \in Nodes
      PROVE  Link(s, c, d) \in kept <=>
               Link(s, c, d) \in g.links /\ ~(s \in S /\ c = ch /\ d \in D)
  BY NamesAssumption DEF Link, KeysDistinct, kept
<1> QED
  BY <1>3, <1>4, <1>5, Zenon DEF h

(* What the operations of the graph keep: the adjacency list and the       *)
(* channels' maps agree, and the list has an entry for each end of a link. *)
GraphOK(g) == g \in GraphSet /\ PointExact(g) /\ EndsListed(g)

(* The outgoing half of Insert keeps the two representations of the graph  *)
(* in agreement.                                                           *)
LEMMA InsertOutgoingKeeps ==
  ASSUME NEW g, GraphOK(g), NEW e \in Edges
  PROVE  GraphOK(InsertOutgoingEdge(g, e))
<1>1. CASE e.src = Dummy \/ <<e.value, e.src>> \in g.srcs
  BY <1>1, Zenon DEF InsertOutgoingEdge
<1>2. CASE ~(e.src = Dummy \/ <<e.value, e.src>> \in g.srcs)
  <2> DEFINE g1 == [g EXCEPT !.srcs = @ \cup {<<e.value, e.src>>}]
             S == {e.src}
             D == DstsOf(g, e.value)
             h == InsertCompleteEdges(g1, S, e.value, D)
  <2>1. InsertOutgoingEdge(g, e) = h
    BY <1>2, Zenon DEF InsertOutgoingEdge
  <2>2. /\ e.value \in Channels /\ e.src \in Nodes
        /\ S \in SUBSET Nodes /\ D \in SUBSET Nodes
    BY <1>2, Zenon DEF Edges, SrcsOf, DstsOf
  <2>3. /\ g1 \in GraphSet /\ g1.links = g.links /\ g1.keys = g.keys /\ g1.dsts = g.dsts
        /\ g1.srcs = g.srcs \cup {<<e.value, e.src>>}
    BY <2>2 DEF GraphOK, GraphSet
  <2>4. EndsListed(g1)
    BY <2>3, Zenon DEF GraphOK, EndsListed
  <2> HIDE DEF g1, S, D, h
  <2>5. /\ h \in GraphSet /\ h.srcs = g1.srcs /\ h.dsts = g1.dsts /\ EndsListed(h)
        /\ \A s \in Nodes, c \in Channels, d \in Nodes :
             Link(s, c, d) \in h.links <=>
               Link(s, c, d) \in g.links \/ (s \in S /\ c = e.value /\ d \in D)
    BY <2>2, <2>3, <2>4, InsertAdds DEF h
  <2>6. PointExact(h)
    <3> SUFFICES ASSUME NEW s \in Nodes, NEW c \in Channels, NEW d \in Nodes
                 PROVE  Link(s, c, d) \in h.links <=> <<c, s>> \in h.srcs /\ <<c, d>> \in h.dsts
      BY Zenon DEF PointExact
    <3>1. Link(s, c, d) \in g.links <=> <<c, s>> \in g.srcs /\ <<c, d>> \in g.dsts
      BY Zenon DEF GraphOK, PointExact
    <3>2. s \in S /\ c = e.value /\ d \in D <=>
            <<c, s>> = <<e.value, e.src>> /\ <<c, d>> \in g.dsts
      BY <2>2, Zenon DEF S, D, SrcsOf, DstsOf
    <3> QED
      BY <2>3, <2>5, <3>1, <3>2, Zenon
  <2> QED
    BY <2>1, <2>5, <2>6, Zenon DEF GraphOK
<1> QED
  BY <1>1, <1>2, Zenon

(* The same for the incoming half of Insert. *)
LEMMA InsertIncomingKeeps ==
  ASSUME NEW g, GraphOK(g), NEW e \in Edges
  PROVE  GraphOK(InsertIncomingEdge(g, e))
<1>1. CASE e.dst = Dummy \/ <<e.value, e.dst>> \in g.dsts
  BY <1>1, Zenon DEF InsertIncomingEdge
<1>2. CASE ~(e.dst = Dummy \/ <<e.value, e.dst>> \in g.dsts)
  <2> DEFINE g1 == [g EXCEPT !.dsts = @ \cup {<<e.value, e.dst>>}]
             S == SrcsOf(g, e.value)
             D == {e.dst}
             h == InsertCompleteEdges(g1, S, e.value, D)
  <2>1. InsertIncomingEdge(g, e) = h
    BY <1>2, Zenon DEF InsertIncomingEdge
  <2>2. /\ e.value \in Channels /\ e.dst \in Nodes
        /\ S \in SUBSET Nodes /\ D \in SUBSET Nodes
    BY <1>2, Zenon DEF Edges, SrcsOf, DstsOf
  <2>3. /\ g1 \in GraphSet /\ g1.links = g.links /\ g1.keys = g.keys /\ g1.srcs = g.srcs
        /\ g1.dsts = g.dsts \cup {<<e.value, e.dst>>}
    BY <2>2 DEF GraphOK, GraphSet
  <2>4. EndsListed(g1)
    BY <2>3, Zenon DEF GraphOK, EndsListed
  <2> HIDE DEF g1, S, D, h
  <2>5. /\ h \in GraphSet /\ h.srcs = g1.srcs /\ h.dsts = g1.dsts /\ EndsListed(h)
        /\ \A s \in Nodes, c \in Channels, d \in Nodes :
             Link(s, c, d) \in h.links <=>
               Link(s, c, d) \in g.links \/ (s \in S /\ c = e.value /\ d \in D)
    BY <2>2, <2>3, <2>4, InsertAdds DEF h
  <2>6. PointExact(h)
    <3> SUFFICES ASSUME NEW s \in Nodes, NEW c \in Channels, NEW d \in Nodes
                 PROVE  Link(s, c, d) \in h.links <=> <<c, s>> \in h.srcs /\ <<c, d>> \in h.dsts
      BY Zenon DEF PointExact
    <3>1. Link(s, c, d) \in g.links <=> <<c, s>> \in g.srcs /\ <<c, d>> \in g.dsts
      BY Zenon DEF GraphOK, PointExact
    <3>2. s \in S /\ c = e.value /\ d \in D <=>
            <<c, d>> = <<e.value, e.dst>> /\ <<c, s>> \in g.srcs
      BY <2>2, Zenon DEF S, D, SrcsOf, DstsOf
    <3> QED
      BY <2>3, <2>5, <3>1, <3>2, Zenon
  <2> QED
    BY <2>1, <2>5, <2>6, Zenon DEF GraphOK
<1> QED
  BY <1>1, <1>2, Zenon

(* The same for the outgoing half of Delete. *)
LEMMA DeleteOutgoingKeeps ==
  ASSUME NEW g, GraphOK(g), NEW e \in Edges
  PROVE  GraphOK(DeleteOutgoingEdge(g, e))
<1>1. CASE e.src = Dummy \/ <<e.value, e.src>> \notin g.srcs
  BY <1>1, Zenon DEF DeleteOutgoingEdge
<1>2. CASE ~(e.src = Dummy \/ <<e.value, e.src>> \notin g.srcs)
  <2> DEFINE g1 == [g EXCEPT !.srcs = @ \ {<<e.value, e.src>>}]
             S == {e.src}
             D == DstsOf(g, e.value)
             h == DeleteCompleteEdges(g1, S, e.value, D)
  <2>1. DeleteOutgoingEdge(g, e) = h
    BY <1>2, Zenon DEF DeleteOutgoingEdge
  <2>2. /\ e.value \in Channels /\ e.src \in Nodes
        /\ S \in SUBSET Nodes /\ D \in SUBSET Nodes
    BY <1>2, Zenon DEF Edges, SrcsOf, DstsOf
  <2>3. /\ g1 \in GraphSet /\ g1.links = g.links /\ g1.keys = g.keys /\ g1.dsts = g.dsts
        /\ g1.srcs = g.srcs \ {<<e.value, e.src>>}
    BY <2>2, Zenon DEF GraphOK, GraphSet
  <2>4. EndsListed(g1)
    BY <2>3, Zenon DEF GraphOK, EndsListed
  <2> HIDE DEF g1, S, D, h
  <2>5. /\ h \in GraphSet /\ h.srcs = g1.srcs /\ h.dsts = g1.dsts /\ EndsListed(h)
        /\ \A s \in Nodes, c \in Channels, d \in Nodes :
             Link(s, c, d) \in h.links <=>
               Link(s, c, d) \in g.links /\ ~(s \in S /\ c = e.value /\ d \in D)
    BY <2>2, <2>3, <2>4, DeleteRemoves DEF h
  <2>6. PointExact(h)
    <3> SUFFICES ASSUME NEW s \in Nodes, NEW c \in Channels, NEW d \in Nodes
                 PROVE  Link(s, c, d) \in h.links <=> <<c, s>> \in h.srcs /\ <<c, d>> \in h.dsts
      BY Zenon DEF PointExact
    <3>1. Link(s, c, d) \in g.links <=> <<c, s>> \in g.srcs /\ <<c, d>> \in g.dsts
      BY Zenon DEF GraphOK, PointExact
    <3>2. s \in S /\ c = e.value /\ d \in D <=>
            <<c, s>> = <<e.value, e.src>> /\ <<c, d>> \in g.dsts
      BY <2>2, Zenon DEF S, D, SrcsOf, DstsOf
    <3> QED
      BY <2>3, <2>5, <3>1, <3>2, Zenon
  <2> QED
    BY <2>1, <2>5, <2>6, Zenon DEF GraphOK
<1> QED
  BY <1>1, <1>2, Zenon

(* The same for the incoming half of Delete. *)
LEMMA DeleteIncomingKeeps ==
  ASSUME NEW g, GraphOK(g), NEW e \in Edges
  PROVE  GraphOK(DeleteIncomingEdge(g, e))
<1>1. CASE e.dst = Dummy \/ <<e.value, e.dst>> \notin g.dsts
  BY <1>1, Zenon DEF DeleteIncomingEdge
<1>2. CASE ~(e.dst = Dummy \/ <<e.value, e.dst>> \notin g.dsts)
  <2> DEFINE g1 == [g EXCEPT !.dsts = @ \ {<<e.value, e.dst>>}]
             S == SrcsOf(g, e.value)
             D == {e.dst}
             h == DeleteCompleteEdges(g1, S, e.value, D)
  <2>1. DeleteIncomingEdge(g, e) = h
    BY <1>2, Zenon DEF DeleteIncomingEdge
  <2>2. /\ e.value \in Channels /\ e.dst \in Nodes
        /\ S \in SUBSET Nodes /\ D \in SUBSET Nodes
    BY <1>2, Zenon DEF Edges, SrcsOf, DstsOf
  <2>3. /\ g1 \in GraphSet /\ g1.links = g.links /\ g1.keys = g.keys /\ g1.srcs = g.srcs
        /\ g1.dsts = g.dsts \ {<<e.value, e.dst>>}
    BY <2>2, Zenon DEF GraphOK, GraphSet
  <2>4. EndsListed(g1)
    BY <2>3, Zenon DEF GraphOK, EndsListed
  <2> HIDE DEF g1, S, D, h
  <2>5. /\ h \in GraphSet /\ h.srcs = g1.srcs /\ h.dsts = g1.dsts /\ EndsListed(h)
        /\ \A s \in Nodes, c \in Channels, d \in Nodes :
             Link(s, c, d) \in h.links <=>
               Link(s, c, d) \in g.links /\ ~(s \in S /\ c = e.value /\ d \in D)
    BY <2>2, <2>3, <2>4, DeleteRemoves DEF h
  <2>6. PointExact(h)
    <3> SUFFICES ASSUME NEW s \in Nodes, NEW c \in Channels, NEW d \in Nodes
                 PROVE  Link(s, c, d) \in h.links <=> <<c, s>> \in h.srcs /\ <<c, d>> \in h.dsts
      BY Zenon DEF PointExact
    <3>1. Link(s, c, d) \in g.links <=> <<c, s>> \in g.srcs /\ <<c, d>> \in g.dsts
      BY Zenon DEF GraphOK, PointExact
    <3>2. s \in S /\ c = e.value /\ d \in D <=>
            <<c, d>> = <<e.value, e.dst>> /\ <<c, s>> \in g.srcs
      BY <2>2, Zenon DEF S, D, SrcsOf, DstsOf
    <3> QED
      BY <2>3, <2>5, <3>1, <3>2, Zenon
  <2> QED
    BY <2>1, <2>5, <2>6, Zenon DEF GraphOK
<1> QED
  BY <1>1, <1>2, Zenon

(* Graph::Insert as a whole. *)
LEMMA InsertKeeps ==
  ASSUME NEW g, GraphOK(g), NEW e \in Edges
  PROVE  GraphOK(Insert(g, e))
<1> DEFINE g1 == [g EXCEPT !.known = @ \cup {e.value}]
<1>1. /\ g1 \in GraphSet /\ g1.srcs = g.srcs /\ g1.dsts = g.dsts
      /\ g1.keys = g.keys /\ g1.links = g.links
  BY Zenon DEF GraphOK, GraphSet, Edges
<1>2. GraphOK(g1)
  BY <1>1, Zenon DEF GraphOK, PointExact, EndsListed
<1> HIDE DEF g1
<1>3. GraphOK(InsertIncomingEdge(InsertOutgoingEdge(g1, e), e))
  BY <1>2, InsertOutgoingKeeps, InsertIncomingKeeps, Zenon
<1> QED
  BY <1>3, Zenon DEF Insert, g1

(* Graph::Delete as a whole. *)
LEMMA DeleteKeeps ==
  ASSUME NEW g, GraphOK(g), NEW e \in Edges
  PROVE  GraphOK(Delete(g, e))
<1>1. GraphOK(DeleteIncomingEdge(DeleteOutgoingEdge(g, e), e))
  BY DeleteOutgoingKeeps, DeleteIncomingKeeps, Zenon
<1> QED
  BY <1>1, Zenon DEF Delete

-----------------------------------------------------------------------------
(* The state machine.  A thread that is disposing of a message has a role; *)
(* that is what makes the edge it inserts or deletes one of the graph.     *)
HasRole ==
  \A t \in Threads : thread[t].pc \in {"node", "channel", "graph", "call"} =>
    thread[t].role \in Roles

IInv == TypeOK /\ HasRole /\ GraphOK(graph)

LEMMA InitIInv == Init => IInv
<1> SUFFICES ASSUME Init PROVE IInv
  BY Zenon
<1>1. EmptyGraph \in GraphSet /\ EmptyGraph.links = {} /\ EmptyGraph.srcs = {}
  BY Zenon DEF EmptyGraph, GraphSet
<1>2. GraphOK(graph)
  BY <1>1, Zenon DEF Init, GraphOK, PointExact, EndsListed
<1>3. TypeOK
  BY <1>1 DEF Init, TypeOK, Locals, Idle, Local, Others
<1>4. HasRole
  BY Zenon DEF Init, HasRole, Idle
<1> QED
  BY <1>2, <1>3, <1>4, Zenon DEF IInv

(* The edge of a role is an edge of the graph. *)
LEMMA EdgeOfRole == \A r \in Roles : EdgeOf(r) \in Edges
  BY RolesAssumption, Zenon DEF EdgeOf, Edges

(* What the warehouses return and hold are roles. *)
LEMMA WarehouseTypes ==
  ASSUME NEW K, NEW w \in SUBSET (K \X Roles)
  PROVE  /\ \A k \in K, r \in Roles : MultiAdd(w, k, r) \in SUBSET (K \X Roles)
         /\ \A k, x : MultiRemove(w, k, x) \in SUBSET (K \X Roles)
         /\ \A k : MultiUnder(w, k) \in SUBSET Roles
         /\ \A x : MultiSearch(w, x) \in SUBSET Roles
  BY DEF MultiAdd, MultiRemove, MultiUnder, MultiSearch

(* A thread that moves on with well-typed local variables. *)
LEMMA BecomeTypes ==
  ASSUME thread \in [Threads -> Locals], HasRole, NEW t \in Threads, NEW new \in Locals,
         new.pc \in {"node", "channel", "graph", "call"} => new.role \in Roles,
         Become(t, new)
  PROVE  thread' \in [Threads -> Locals] /\ HasRole'
  BY Zenon DEF Become, HasRole

(* Enable and Disable keep the sets of ids. *)
LEMMA PeerTypes ==
  ASSUME peers \in [Endpoints -> SUBSET Ids], NEW e \in Local, NEW r \in Roles
  PROVE  /\ EnablePeer(e, r) \in [Endpoints -> SUBSET Ids]
         /\ DisablePeer(e, r) \in [Endpoints -> SUBSET Ids]
  BY SMTT(30) DEF EnablePeer, DisablePeer, Endpoints, Ids

(* Every step keeps the types and gives a role to every thread that        *)
(* disposes of a message.                                                  *)
LEMMA NextTypes == IInv /\ [Next]_vars => TypeOK' /\ HasRole'
<1> SUFFICES ASSUME IInv, [Next]_vars PROVE TypeOK' /\ HasRole'
  BY Zenon
<1> USE DEF IInv, TypeOK, HasRole, Msg
<1>1. ASSUME NEW r \in Roles, RemoteJoin(r) PROVE TypeOK' /\ HasRole'
  BY <1>1, SMTT(30) DEF RemoteJoin, Local, Others
<1>2. ASSUME NEW r \in Roles, RemoteLeave(r) PROVE TypeOK' /\ HasRole'
  BY <1>2 DEF RemoteLeave, Local, Others
<1>3. ASSUME NEW q \in Others, RemoteDown(q) PROVE TypeOK' /\ HasRole'
  BY <1>3, Zenon DEF RemoteDown
<1>4. ASSUME NEW q \in Others, OnRemoteChange(q) PROVE TypeOK' /\ HasRole'
  <2>1. Head(inbox[q]) \in Msg /\ Tail(inbox[q]) \in Seq(Msg)
    <3>1. inbox[q] \in Seq(Msg) /\ inbox[q] # <<>>
      BY <1>4, Zenon DEF OnRemoteChange
    <3> HIDE DEF Msg
    <3> QED
      BY <3>1
  <2> QED
    <3>1. /\ Dispose(Head(inbox[q]), {}) \in Locals /\ sub \in Threads
          /\ Dispose(Head(inbox[q]), {}).role \in Roles
      BY <2>1, Zenon DEF Dispose, Locals, Threads
    <3>2. thread' \in [Threads -> Locals] /\ HasRole'
      BY <1>4, <3>1, BecomeTypes, Zenon DEF OnRemoteChange
    <3> QED
      BY <1>4, <2>1, <3>2, Zenon DEF OnRemoteChange
<1>5. ASSUME NEW q \in Others, OnTopoModuleLeave(q) PROVE TypeOK' /\ HasRole'
  <2>1. MultiSearch(chanRoles, [proc |-> q]) \in SUBSET Roles
    BY WarehouseTypes, Zenon
  <2> QED
    <3> DEFINE new == [Idle EXCEPT !.pc = "each", !.found = MultiSearch(chanRoles, [proc |-> q])]
    <3>1. new \in Locals /\ new.pc = "each" /\ part \in Threads
      BY <2>1, Zenon DEF Idle, Locals, Threads
    <3>2. thread' \in [Threads -> Locals] /\ HasRole'
      BY <1>5, <3>1, BecomeTypes, Zenon DEF OnTopoModuleLeave
    <3>3. inbox' \in [Others -> Seq(Msg)]
      <4> HIDE DEF Msg
      <4>1. <<>> \in Seq(Msg)
        OBVIOUS
      <4> QED
        BY <1>5, <4>1, Zenon DEF OnTopoModuleLeave
    <3>4. overlapped' \subseteq Roles /\ dropped' \subseteq gone' /\ gone' \subseteq Others
      BY <1>5, Zenon DEF OnTopoModuleLeave
    <3> HIDE DEF HasRole
    <3> QED
      BY <1>5, <3>2, <3>3, <3>4, Zenon DEF OnTopoModuleLeave
<1>6. ASSUME NEW e \in Local, JoinTheTopology(e) PROVE TypeOK' /\ HasRole'
  <2>1. /\ [Idle EXCEPT !.pc = "get"] \in Locals /\ [Idle EXCEPT !.pc = "get"].pc = "get"
        /\ e \in Threads
    BY Zenon DEF Idle, Locals, Threads
  <2>2. thread' \in [Threads -> Locals] /\ HasRole'
    BY <1>6, <2>1, BecomeTypes, Zenon DEF JoinTheTopology
  <2> HIDE DEF HasRole
  <2> QED
    BY <1>6, <2>2, Zenon DEF JoinTheTopology
<1>7. ASSUME NEW e \in Local, GetPeersOfChannel(e) PROVE TypeOK' /\ HasRole'
  <2>1. MultiUnder(chanRoles, e.name) \in SUBSET Roles
    BY WarehouseTypes, Zenon
  <2> DEFINE new == [Idle EXCEPT !.pc = "enable",
                       !.found = {r \in MultiUnder(chanRoles, e.name) : Opposite(e, r)}]
  <2>2. new \in Locals /\ new.pc = "enable" /\ e \in Threads
    BY <2>1, Zenon DEF Idle, Locals, Threads
  <2>3. thread' \in [Threads -> Locals] /\ HasRole'
    BY <1>7, <2>2, BecomeTypes, Zenon DEF GetPeersOfChannel
  <2> HIDE DEF HasRole
  <2> QED
    BY <1>7, <2>3, Zenon DEF GetPeersOfChannel
<1>8. ASSUME NEW e \in Local, EnableFound(e) PROVE TypeOK' /\ HasRole'
  <2>0. e \in Threads /\ e \in Roles
    BY Zenon DEF Threads, Local
  <2>1. CASE \E r \in thread[e].found :
               /\ peers' = EnablePeer(e, r)
               /\ Become(e, [thread[e] EXCEPT !.found = @ \ {r}])
               /\ UNCHANGED status
    <3>1. PICK r \in thread[e].found :
               /\ peers' = EnablePeer(e, r)
               /\ Become(e, [thread[e] EXCEPT !.found = @ \ {r}])
               /\ UNCHANGED status
      BY <2>1, Zenon
    <3>2. /\ [thread[e] EXCEPT !.found = @ \ {r}] \in Locals
          /\ [thread[e] EXCEPT !.found = @ \ {r}].pc = "enable"
      <4>1. thread[e] \in Locals /\ thread[e].pc = "enable"
        BY <1>8, <2>0, Zenon DEF EnableFound, At
      <4> QED
        BY <4>1, Zenon DEF Locals
    <3>3. thread' \in [Threads -> Locals] /\ HasRole'
      BY <2>0, <3>1, <3>2, BecomeTypes, Zenon
    <3>4. peers' \in [Endpoints -> SUBSET Ids]
      <4>1. r \in Roles
        BY <2>0, Zenon DEF Locals
      <4> QED
        BY <3>1, <4>1, PeerTypes, Zenon
    <3> QED
      BY <1>8, <3>1, <3>3, <3>4, Zenon DEF EnableFound
  <2>2. CASE /\ Become(e, Dispose([opt |-> "join", role |-> e], {}))
             /\ status' = [status EXCEPT ![e] = "joined"]
             /\ UNCHANGED peers
    <3>1. /\ Dispose([opt |-> "join", role |-> e], {}) \in Locals
          /\ Dispose([opt |-> "join", role |-> e], {}).role \in Roles
      BY <2>0, Zenon DEF Dispose, Locals
    <3>2. thread' \in [Threads -> Locals] /\ HasRole'
      BY <2>0, <2>2, <3>1, BecomeTypes, Zenon
    <3> QED
      BY <1>8, <2>0, <2>2, <3>2, Zenon DEF EnableFound
  <2> QED
    BY <1>8, <2>1, <2>2, Zenon DEF EnableFound
<1>9. ASSUME NEW e \in Local, LeaveTheTopology(e) PROVE TypeOK' /\ HasRole'
  <2>1. /\ Dispose([opt |-> "leave", role |-> e], {}) \in Locals
        /\ Dispose([opt |-> "leave", role |-> e], {}).role \in Roles
        /\ e \in Threads
    BY Zenon DEF Dispose, Locals, Threads, Local
  <2>2. thread' \in [Threads -> Locals] /\ HasRole'
    BY <1>9, <2>1, BecomeTypes, Zenon DEF LeaveTheTopology
  <2> HIDE DEF HasRole
  <2> QED
    BY <1>9, <2>2, Zenon DEF LeaveTheTopology
<1>10. ASSUME NEW t \in Threads, DisposeNode(t) PROVE TypeOK' /\ HasRole'
  <2>1. thread[t].role \in Roles /\ thread[t].role.node \in Nodes
    BY <1>10, RolesAssumption, Zenon DEF DisposeNode, At
  <2>2. nodeRoles' \in SUBSET (Nodes \X Roles)
    BY <1>10, <2>1, WarehouseTypes, ZenonT(40) DEF DisposeNode
  <2>3. /\ [thread[t] EXCEPT !.pc = "channel"] \in Locals
        /\ [thread[t] EXCEPT !.pc = "channel"].role \in Roles
    BY <2>1, Zenon DEF Locals
  <2>4. thread' \in [Threads -> Locals] /\ HasRole'
    BY <1>10, <2>3, BecomeTypes, Zenon DEF DisposeNode, Goto
  <2> HIDE DEF HasRole
  <2> QED
    BY <1>10, <2>2, <2>4, Zenon DEF DisposeNode
<1>11. ASSUME NEW t \in Threads, DisposeChannel(t) PROVE TypeOK' /\ HasRole'
  <2>1. thread[t].role \in Roles /\ thread[t].role.name \in Channels
    BY <1>11, RolesAssumption, Zenon DEF DisposeChannel, At
  <2>2. chanRoles' \in SUBSET (Channels \X Roles)
    BY <1>11, <2>1, WarehouseTypes, ZenonT(40) DEF DisposeChannel
  <2>3. overlapped' \subseteq Roles
    BY <1>11, <2>1, Zenon DEF DisposeChannel
  <2> QED
    <3>1. [thread[t] EXCEPT !.pc = "graph"] \in Locals /\ [thread[t] EXCEPT !.pc = "graph"].role \in Roles
      BY <2>1, Zenon DEF Locals
    <3>2. thread' \in [Threads -> Locals] /\ HasRole'
      BY <1>11, <3>1, BecomeTypes, Zenon DEF DisposeChannel, Goto
    <3> QED
      BY <1>11, <2>2, <2>3, <3>2, Zenon DEF DisposeChannel
<1>12. ASSUME NEW t \in Threads, DisposeGraph(t) PROVE TypeOK' /\ HasRole'
  <2>1. thread[t].role \in Roles /\ EdgeOf(thread[t].role) \in Edges
    BY <1>12, EdgeOfRole, Zenon DEF DisposeGraph, At
  <2>2. graph' \in GraphSet
    BY <1>12, <2>1, InsertKeeps, DeleteKeeps, Zenon DEF DisposeGraph, GraphOK
  <2>3. /\ [thread[t] EXCEPT !.pc = "call", !.slots = slots] \in Locals
        /\ [thread[t] EXCEPT !.pc = "call", !.slots = slots].role \in Roles
    BY <2>1, ZenonT(40) DEF Locals
  <2>4. thread' \in [Threads -> Locals] /\ HasRole'
    BY <1>12, <2>3, BecomeTypes, Zenon DEF DisposeGraph
  <2> HIDE DEF HasRole
  <2> QED
    BY <1>12, <2>2, <2>4, Zenon DEF DisposeGraph
<1>13. ASSUME NEW t \in Threads, OnChannelChange(t) PROVE TypeOK' /\ HasRole'
  <2>1. thread[t].role \in Roles
    BY <1>13, Zenon DEF OnChannelChange, At
  <2>2. ASSUME \E e \in thread[t].slots : Become(t, [thread[t] EXCEPT !.slots = @ \ {e}])
        PROVE  thread' \in [Threads -> Locals] /\ HasRole'
    <3>1. PICK e \in thread[t].slots : Become(t, [thread[t] EXCEPT !.slots = @ \ {e}])
      BY <2>2, Zenon
    <3>2. /\ [thread[t] EXCEPT !.slots = @ \ {e}] \in Locals
          /\ [thread[t] EXCEPT !.slots = @ \ {e}].role \in Roles
      BY <2>1, ZenonT(40) DEF Locals
    <3> QED
      BY <3>1, <3>2, BecomeTypes, Zenon
  <2>3. ASSUME Become(t, [Idle EXCEPT !.pc = IF t = part THEN "each" ELSE "idle",
                                      !.found = thread[t].found])
        PROVE  thread' \in [Threads -> Locals] /\ HasRole'
    <3> DEFINE new == [Idle EXCEPT !.pc = IF t = part THEN "each" ELSE "idle",
                                   !.found = thread[t].found]
    <3>1. new \in Locals /\ new.pc \in {"each", "idle"}
      BY Zenon DEF Idle, Locals
    <3> QED
      BY <2>3, <3>1, BecomeTypes, Zenon
  <2>4. thread' \in [Threads -> Locals] /\ HasRole'
    BY <1>13, <2>2, <2>3, Zenon DEF OnChannelChange
  <2>5. peers' \in [Endpoints -> SUBSET Ids]
    <3>1. thread[t].slots \subseteq Local
      BY Zenon DEF Locals
    <3>2. \A e \in Local : /\ EnablePeer(e, thread[t].role) \in [Endpoints -> SUBSET Ids]
                           /\ DisablePeer(e, thread[t].role) \in [Endpoints -> SUBSET Ids]
      BY <2>1, PeerTypes, Zenon
    <3>3. \/ peers' = peers
          \/ \E e \in thread[t].slots : \/ peers' = EnablePeer(e, thread[t].role)
                                        \/ peers' = DisablePeer(e, thread[t].role)
      BY <1>13, Zenon DEF OnChannelChange
    <3> QED
      BY <3>1, <3>2, <3>3, Zenon
  <2> HIDE DEF HasRole
  <2> QED
    BY <1>13, <2>4, <2>5, Zenon DEF OnChannelChange
<1>14. ASSUME EachFound PROVE TypeOK' /\ HasRole'
  <2>0. part \in Threads
    BY Zenon DEF Threads
  <2>1. ASSUME \E r \in thread[part].found :
                 Become(part, Dispose([opt |-> "leave", role |-> r], thread[part].found \ {r}))
        PROVE  thread' \in [Threads -> Locals] /\ HasRole'
    <3>1. PICK r \in thread[part].found :
               Become(part, Dispose([opt |-> "leave", role |-> r], thread[part].found \ {r}))
      BY <2>1, Zenon
    <3>2. /\ Dispose([opt |-> "leave", role |-> r], thread[part].found \ {r}) \in Locals
          /\ Dispose([opt |-> "leave", role |-> r], thread[part].found \ {r}).role \in Roles
      BY <2>0, <3>1, Zenon DEF Dispose, Locals
    <3> QED
      BY <2>0, <3>1, <3>2, BecomeTypes, Zenon
  <2>2. ASSUME Become(part, Idle)
        PROVE  thread' \in [Threads -> Locals] /\ HasRole'
    <3>1. Idle \in Locals /\ Idle.pc = "idle"
      BY Zenon DEF Idle, Locals
    <3> QED
      BY <2>0, <2>2, <3>1, BecomeTypes, SMTT(30)
  <2>3. thread' \in [Threads -> Locals] /\ HasRole'
    BY <1>14, <2>1, <2>2, Zenon DEF EachFound
  <2> QED
    BY <1>14, <2>3, Zenon DEF EachFound
<1>15. ASSUME UNCHANGED vars PROVE TypeOK' /\ HasRole'
  BY <1>15, Zenon DEF vars
<1> QED
  BY <1>1, <1>2, <1>3, <1>4, <1>5, <1>6, <1>7, <1>8, <1>9, <1>10, <1>11, <1>12,
     <1>13, <1>14, <1>15, Zenon DEF Next

(* Only DisposeGraph changes the graph, by Insert or Delete. *)
LEMMA NextGraph == IInv /\ [Next]_vars => GraphOK(graph)'
<1> SUFFICES ASSUME IInv, [Next]_vars PROVE GraphOK(graph')
  BY Zenon
<1>1. ASSUME NEW t \in Threads, DisposeGraph(t) PROVE GraphOK(graph')
  <2>1. EdgeOf(thread[t].role) \in Edges
    BY <1>1, EdgeOfRole, Zenon DEF DisposeGraph, At, IInv, HasRole
  <2> QED
    BY <1>1, <2>1, InsertKeeps, DeleteKeeps, Zenon DEF DisposeGraph, IInv
<1>2. ASSUME UNCHANGED graph PROVE GraphOK(graph')
  BY <1>2, Zenon DEF IInv
<1>3. (\E t \in Threads : DisposeGraph(t)) \/ UNCHANGED graph
  BY Zenon DEF Next, vars, RemoteJoin, RemoteLeave, RemoteDown, OnRemoteChange,
     OnTopoModuleLeave,
         JoinTheTopology, GetPeersOfChannel, EnableFound, LeaveTheTopology, DisposeNode,
         DisposeChannel, OnChannelChange, EachFound
<1> QED
  BY <1>1, <1>2, <1>3, Zenon

(* The three facts together. *)
LEMMA IInvHolds == Spec => []IInv
<1>1. IInv /\ [Next]_vars => IInv'
  BY NextTypes, NextGraph, Zenon DEF IInv
<1> QED
  BY <1>1, InitIInv, PTL DEF Spec

(* ChannelManager's tables, its listeners and its threads' variables are   *)
(* well typed.                                                             *)
THEOREM TypeOKHolds == Spec => []TypeOK
<1>1. IInv => TypeOK
  BY Zenon DEF IInv
<1> QED
  BY <1>1, IInvHolds, PTL

(* The node graph's adjacency list is always exactly what the channels'    *)
(* writers and readers call for, and the traversal of GetDirectionOf, under *)
(* the read lock, never has to insert an entry.                            *)
THEOREM GraphExactHolds == Spec => []GraphExact
<1>1. IInv => GraphExact
  BY ExactPointwise, Zenon DEF IInv, GraphOK, GraphExact
<1> QED
  BY <1>1, IInvHolds, PTL

-----------------------------------------------------------------------------
(* What follows from TableInv. *)

(* TableInv is an invariant of every run.                                  *)
LEMMA TableInvHolds == Spec => [](TypeOK /\ TableInv)
<1>1. Spec => []TypeOK
  BY TypeOKHolds, Zenon
<1>2. Init => TableInv
  BY InitTableInv, Zenon
<1>3. TypeOK /\ TableInv /\ [Next]_vars => TableInv'
  BY NextTableInv, Zenon
<1> QED
  BY <1>1, <1>2, <1>3, PTL DEF Spec

(* A Writer or Reader that has joined never misses a peer: JoinTheTopology *)
(* connects its listener before it reads the table, so a role that is not  *)
(* in what it has read will be announced to it.                            *)
THEOREM NoPeerMissedHolds == Spec => []NoPeerMissed
<1>1. TypeOK /\ TableInv => NoPeerMissed
  <2> SUFFICES ASSUME TypeOK, TableInv, NoSharedReceiver, NEW e \in slots, NEW r \in Known,
                      Opposite(e, r), ~At(e, "get"), ~At(e, "enable"), r.id \notin peers[e.id]
               PROVE  \E t \in Threads : /\ thread[t].pc \in {"graph", "call"}
                                         /\ thread[t].opt = "join" /\ thread[t].role = r
    BY SMTT(30) DEF NoPeerMissed
  <2>1. \E t \in Threads : Calls(t, "join", e, r)
    BY Zenon DEF TableInv, PeersOK, Reached
  <2> QED
    BY <2>1, Zenon DEF Calls, Does
<1> QED
  BY <1>1, TableInvHolds, PTL

(* When each table keeps a role under its channel, or its node, and both   *)
(* hold the same roles, the queries answer for these roles.                *)
LEMMA AnswersExact ==
  ASSUME KeysOK, NodeKnown = Known
  PROVE  AnswersFor(Known)
<1>1. \A c, r : r \in MultiUnder(chanRoles, c) <=> r \in Known /\ r.name = c
  BY Zenon DEF MultiUnder, Known, KeysOK
<1>2. \A n, r : r \in MultiUnder(nodeRoles, n) <=> r \in Known /\ r.node = n
  BY Zenon DEF MultiUnder, NodeKnown, KeysOK
<1>3. \A c, r : /\ r \in GetWritersOfChannel(c) <=> r \in Known /\ r.name = c /\ r.type = "writer"
                /\ r \in GetReadersOfChannel(c) <=> r \in Known /\ r.name = c /\ r.type = "reader"
  BY <1>1, Zenon DEF GetWritersOfChannel, GetReadersOfChannel
<1>4. \A n, r : /\ r \in GetWritersOfNode(n) <=> r \in Known /\ r.node = n /\ r.type = "writer"
                /\ r \in GetReadersOfNode(n) <=> r \in Known /\ r.node = n /\ r.type = "reader"
  BY <1>2, Zenon DEF GetWritersOfNode, GetReadersOfNode
<1>5. \A c \in Channels : /\ HasWriter(c) <=> \E r \in Known : r.type = "writer" /\ r.name = c
                          /\ HasReader(c) <=> \E r \in Known : r.type = "reader" /\ r.name = c
  BY <1>3, Zenon DEF HasWriter, HasReader
<1>6. ASSUME NEW m \in Nodes, NEW n \in Nodes
      PROVE  /\ m \in GetUpstreamOfNode(n) <=> NodeFeeds(Known, m, n)
             /\ n \in GetDownstreamOfNode(m) <=> NodeFeeds(Known, m, n)
  <2>1. m \in GetUpstreamOfNode(n) <=>
          \E r \in GetReadersOfNode(n) : \E w \in GetWritersOfChannel(r.name) : m = w.node
    BY Zenon DEF GetUpstreamOfNode
  <2>2. n \in GetDownstreamOfNode(m) <=>
          \E w \in GetWritersOfNode(m) : \E r \in GetReadersOfChannel(w.name) : n = r.node
    BY Zenon DEF GetDownstreamOfNode
  <2>3. m \in GetUpstreamOfNode(n) <=> NodeFeeds(Known, m, n)
    BY <1>3, <1>4, <2>1, SMTT(30) DEF NodeFeeds, Feeds
  <2>4. n \in GetDownstreamOfNode(m) <=> NodeFeeds(Known, m, n)
    BY <1>3, <1>4, <2>2, SMTT(30) DEF NodeFeeds, Feeds
  <2> QED
    BY <2>3, <2>4, Zenon
<1>7. \A m, n \in Nodes : /\ m \in GetUpstreamOfNode(n) <=> NodeFeeds(Known, m, n)
                          /\ n \in GetDownstreamOfNode(m) <=> NodeFeeds(Known, m, n)
  BY <1>6, Zenon
<1>8. GetChannelNames = {r.name : r \in Known}
  BY Zenon DEF GetChannelNames
<1> QED
  BY <1>5, <1>7, <1>8, Zenon DEF AnswersFor

(* Once no change is under way, the channel table holds exactly the live   *)
(* roles, both indexes agree, every endpoint is enabled for exactly its    *)
(* peers, and the queries answer for the live roles (roles that left while *)
(* their joining was under way apart).                                     *)
THEOREM TopologyExactAtRestHolds == Spec => []TopologyExactAtRest
<1>1. TypeOK /\ TableInv => TopologyExactAtRest
  <2> SUFFICES ASSUME TypeOK, TableInv, AtRest
               PROVE  /\ Known \ overlapped = {r \in Roles : Live(r)} \ overlapped
                      /\ NodeKnown = Known
                      /\ NoSharedReceiver => \A e \in slots, r \in Roles \ overlapped :
                           r.id \in peers[e.id] <=> r \in Known /\ Opposite(e, r)
                      /\ overlapped = {} => AnswersFor({r \in Roles : Live(r)})
    BY Zenon DEF TopologyExactAtRest, NodeKnown
  <2>1. \A t \in Threads : thread[t].pc = "idle" /\ thread[t].opt = "none"
    BY SMTT(30) DEF AtRest, At, TableInv, ThreadsOK, ThreadFine
  <2>2. thread[part].found = {} /\ gone = dropped /\ \A q \in Others : Len(inbox[q]) = 0
    BY <2>1, Distinct, SMTT(30) DEF TableInv, ThreadsOK, PartThread, AtRest
  <2>3. /\ \A t \in Threads : \A r, pcs : ~Does(t, "join", r, pcs) /\ ~Does(t, "leave", r, pcs)
        /\ \A t \in Threads : \A e, r : ~Calls(t, "join", e, r) /\ ~Calls(t, "leave", e, r)
    BY <2>1, Zenon DEF Does, Calls
  <2>4. /\ \A r : ~Joining(r)
        /\ \A q \in Others : \A r : ~Sent(q, "join", r) /\ ~Sent(q, "leave", r)
    BY <2>2, <2>3, SMTT(30) DEF Joining, Sent
  <2>5. NodeKnown = Known
    BY <2>3, Zenon DEF TableInv, NodesOK
  <2>6. ASSUME NEW r \in Roles \ overlapped PROVE r \in Known <=> Live(r)
    <3>1. r \in Known => status[r] # "new"
      BY Zenon DEF TableInv, SettledOK, Settled
    <3>2. status[r] \in {"new", "joined", "left"}
      BY Typed, Zenon
    <3>3. CASE r \in Local
      <4>1. LocalFine(r)
        BY <3>3, Zenon DEF TableInv, RolesOK
      <4>2. r.proc \notin gone
        BY <3>3, Typed, Distinct, Zenon
      <4> QED
        BY <2>3, <2>4, <3>1, <3>2, <3>3, <4>1, <4>2, Distinct,
           Zenon DEF LocalFine, Live
    <3>4. CASE r \notin Local /\ r.proc \notin dropped
      <4>1. PresentFine(r) /\ r.proc \in Others
        BY <3>4, Distinct, SMTT(30) DEF TableInv, RolesOK
      <4> QED
        BY <2>2, <2>3, <2>4, <3>1, <3>2, <3>4, <4>1, Distinct,
           Zenon DEF PresentFine, Live
    <3>5. CASE r \notin Local /\ r.proc \in dropped
      <4>1. DroppedFine(r)
        BY <3>5, Zenon DEF TableInv, RolesOK
      <4> QED
        BY <2>2, <2>3, <3>5, <4>1, Distinct, Zenon DEF DroppedFine, Live
    <3> QED
      BY <3>3, <3>4, <3>5, Zenon
  <2>7. ASSUME NoSharedReceiver, NEW e \in slots, NEW r \in Roles \ overlapped
        PROVE  r.id \in peers[e.id] <=> r \in Known /\ Opposite(e, r)
    <3>1. e \in Local /\ e \in Threads
      BY Typed, Distinct, Zenon
    <3>2. EnabledFine(e, r) /\ (r \in Known /\ Opposite(e, r) /\ ~At(e, "get") => Reached(e, r))
      BY <2>7, <3>1, Zenon DEF TableInv, PeersOK
    <3>3. ~At(e, "get") /\ ~At(e, "enable")
      BY <2>1, <3>1, SMTT(30) DEF At
    <3> QED
      BY <2>3, <2>7, <3>2, <3>3, Zenon DEF EnabledFine, Reached
  <2>8. Known \subseteq Roles
    BY Typed, Zenon
  <2>9. overlapped = {} => AnswersFor({r \in Roles : Live(r)})
    <3>1. overlapped = {} => Known = {r \in Roles : Live(r)}
      BY <2>6, <2>8, Zenon
    <3>2. AnswersFor(Known)
      BY <2>5, AnswersExact, Zenon DEF TableInv
    <3> QED
      BY <3>1, <3>2, Zenon
  <2> QED
    BY <2>5, <2>6, <2>7, <2>8, <2>9, Zenon
<1> QED
  BY <1>1, TableInvHolds, PTL
=============================================================================
