--------------------------- MODULE BaseContainers ---------------------------
(* The containers of cyber/base that threads share: the lock-free hash map  *)
(* behind GlobalData, DataDispatcher and DataNotifier (atomic_hash_map.h),   *)
(* the object pools (concurrent_object_pool.h, of which croutine.cc draws    *)
(* its contexts, and object_pool.h), the unbounded and the thread-safe queue *)
(* and the re-entrant read-write lock.  A behaviour exercises one of them,   *)
(* `kind'.  Every atomic load, store and exchange is a step of its own;      *)
(* compare_exchange_weak fails like the strong one, its spurious failures    *)
(* repeat the same loop.                                                     *)
EXTENDS Integers, Sequences, FiniteSets, FiniteSetsExt, SequencesExt

CONSTANTS
    Threads,      \* calling threads
    None,         \* nullptr, or the null thread id
    Plans,        \* records [kind, ops]: a container and the calls of each thread
    TableSize,    \* buckets of the map
    Cells,        \* addresses malloc has for values of the map and nodes of the queue
    Size          \* objects of a pool

VARIABLES
    kind,         \* the container this behaviour is about
    todo,         \* calls each thread has still to make
    pc, r,        \* where a thread is in its call, and its locals
    fault,        \* where a thread touched what was no longer there or its own
    ent, mem,     \* the map's entries; what each value's address holds
    sets,         \* sets[k]: how many Set(k) have published a value
    free, nxt,    \* a pool's head [count, node] and the links of its nodes
    held,         \* objects (pool), elements got (queues), guards (lock)
    q,            \* the thread-safe queue: [items, broken, owner of mutex_]
    u,            \* the unbounded queue: its nodes by address, and history: the node
                  \* at each address, the order they came and went, a mistaken head
    l             \* the re-entrant lock: [num, wait, writer, first]

mapVars == <<ent, mem, sets>>
poolVars == <<free, nxt>>
vars == <<kind, todo, pc, r, fault, mapVars, poolVars, held, q, u, l>>

Blank == [key |-> 0, prev |-> None, target |-> None, entry |-> None,
          cell |-> None, old |-> None, num |-> 0]

-----------------------------------------------------------------------------
(* Calls: a thread takes the next call of its plan, and is idle again when   *)
(* the call has returned.                                                    *)

Begin(t, op, to) ==
    /\ pc[t] = "idle" /\ todo[t] # <<>> /\ Head(todo[t])[1] = op
    /\ pc' = [pc EXCEPT ![t] = to]
    /\ todo' = [todo EXCEPT ![t] = Tail(@)]
    /\ UNCHANGED <<kind, fault>>

Arg(t) == Head(todo[t])[2]

At(t, from, to) ==
    /\ pc[t] = from
    /\ pc' = [pc EXCEPT ![t] = to]
    /\ UNCHANGED <<kind, todo, fault>>

Local(t, changes) == r' = [r EXCEPT ![t] = changes @@ @]

-----------------------------------------------------------------------------
(* AtomicHashMap: TableSize sorted chains, each behind an entry of its own.  *)

Bucket(k) == <<None, k % TableSize>>

\* Every loop of Insert and every lookup starts at the bucket's first link.
Restart(k) == [prev |-> Bucket(k), target |-> ent[Bucket(k)].next]

BeginMap(t, op) ==
    /\ Begin(t, op, op)
    /\ Local(t, Restart(Arg(t)) @@ [Blank EXCEPT !.key = Arg(t)])
    /\ UNCHANGED <<mapVars, poolVars, held, q, u, l>>

Smaller(t) == r[t].target # None /\ ent[r[t].target].key < r[t].key
Found(t) == r[t].target # None /\ ent[r[t].target].key = r[t].key

\* Bucket::Find's loop: on to the next entry while its key is smaller.
Find(t) ==
    /\ pc[t] \in {"Set", "Get", "Has"} /\ Smaller(t)
    /\ Local(t, [prev |-> r[t].target, target |-> ent[r[t].target].next])
    /\ UNCHANGED <<kind, todo, pc, fault, mapVars, poolVars, held, q, u, l>>

New(c) == mem[c] = None

\* Key exists: make the value once and read the present one.
InsertFound(t) ==
    /\ Found(t) /\ At(t, "Set", "swap")
    /\ \E c \in IF r[t].cell = None THEN {d \in Cells : New(d)} ELSE {r[t].cell} :
          /\ mem' = [mem EXCEPT ![c] = <<t, r[t].key>>]
          /\ Local(t, [cell |-> c, old |-> ent[r[t].target].val])
    /\ UNCHANGED <<ent, sets, poolVars, held, q, u, l>>

\* The exchange of the value; on failure the loop starts again with Find.
SwapValue(t) ==
    LET e == r[t].target IN
    \/ /\ ent[e].val = r[t].old /\ At(t, "swap", "delete")
       /\ ent' = [ent EXCEPT ![e].val = r[t].cell]
       /\ sets' = [sets EXCEPT ![r[t].key] = @ + 1]
       /\ UNCHANGED <<r, mem, poolVars, held, q, u, l>>
    \/ /\ ent[e].val # r[t].old /\ At(t, "swap", "Set")
       /\ Local(t, Restart(r[t].key))
       /\ UNCHANGED <<mapVars, poolVars, held, q, u, l>>

\* Then the old value is deleted, and the entry made in vain (its value too).
DeleteOld(t) ==
    /\ At(t, "delete", "idle")
    /\ mem' = [c \in Cells |-> IF c = r[t].old \/ (r[t].entry # None /\ c = ent[r[t].entry].val)
                               THEN None ELSE mem[c]]
    /\ ent' = IF r[t].entry = None THEN ent
              ELSE [e \in DOMAIN ent \ {r[t].entry} |-> ent[e]]
    /\ Local(t, Blank)
    /\ UNCHANGED <<sets, poolVars, held, q, u, l>>

\* No such key: make the entry once and let it point at the one found.
InsertNew(t) ==
    /\ ~Smaller(t) /\ ~Found(t) /\ At(t, "Set", "link")
    /\ LET e == <<t, Len(todo[t])>> IN
       \/ /\ r[t].entry = None
          /\ \E c \in {d \in Cells : New(d)} :
                /\ mem' = [mem EXCEPT ![c] = <<t, r[t].key>>]
                /\ ent' = (e :> [key |-> r[t].key, val |-> c, next |-> r[t].target]) @@ ent
          /\ Local(t, [entry |-> e])
       \/ /\ r[t].entry # None
          /\ ent' = [ent EXCEPT ![e].next = r[t].target]
          /\ UNCHANGED <<r, mem>>
    /\ UNCHANGED <<sets, poolVars, held, q, u, l>>

\* The exchange that links it; the value made for an update is deleted.
LinkEntry_Unchecked(t) ==
    /\ At(t, "link", "idle")
    /\ ent' = [ent EXCEPT ![r[t].prev].next = r[t].entry]
    /\ sets' = [sets EXCEPT ![r[t].key] = @ + 1]
    /\ Local(t, Blank)
    /\ UNCHANGED <<mem, poolVars, held, q, u, l>>

LinkEntry(t) ==
    \/ /\ ent[r[t].prev].next = r[t].target /\ At(t, "link", "idle")
       /\ ent' = [ent EXCEPT ![r[t].prev].next = r[t].entry]
       /\ mem' = [c \in Cells |-> IF c = r[t].cell THEN None ELSE mem[c]]
       /\ sets' = [sets EXCEPT ![r[t].key] = @ + 1]
       /\ Local(t, Blank)
       /\ UNCHANGED <<poolVars, held, q, u, l>>
    \/ /\ ent[r[t].prev].next # r[t].target /\ At(t, "link", "Set")
       /\ Local(t, Restart(r[t].key))
       /\ UNCHANGED <<mapVars, poolVars, held, q, u, l>>

\* Has answers from the entry it stopped at, Get without one answers false.
LookupEnds(t) ==
    /\ ~Smaller(t) /\ (pc[t] = "Get" => ~Found(t))
    /\ At(t, IF pc[t] = "Get" THEN "Get" ELSE "Has", "idle")
    /\ held' = [held EXCEPT ![t] = Append(@, <<r[t].key, Found(t)>>)]
    /\ Local(t, Blank)
    /\ UNCHANGED <<mapVars, poolVars, q, u, l>>

\* Get loads the value's pointer ...
LoadValue(t) ==
    /\ Found(t) /\ At(t, "Get", "copy")
    /\ Local(t, [cell |-> ent[r[t].target].val, num |-> sets[r[t].key]])
    /\ UNCHANGED <<mapVars, poolVars, held, q, u, l>>

\* ... and copies what it points at, which a Set may have deleted since.
CopyValue(t) ==
    /\ At(t, "copy", "idle")
    /\ held' = [held EXCEPT ![t] = Append(@, <<r[t].key, mem[r[t].cell], sets[r[t].key] - r[t].num>>)]
    /\ Local(t, Blank)
    /\ UNCHANGED <<mapVars, poolVars, q, u, l>>

MapStep(t) ==
    \/ \E op \in {"Set", "Get", "Has"} : BeginMap(t, op)
    \/ Find(t) \/ InsertFound(t) \/ (pc[t] = "swap" /\ SwapValue(t)) \/ DeleteOld(t)
    \/ (pc[t] = "link" /\ LinkEntry(t)) \/ InsertNew(t)
    \/ (pc[t] \in {"Get", "Has"} /\ LookupEnds(t)) \/ LoadValue(t) \/ CopyValue(t)

-----------------------------------------------------------------------------
(* CCObjectPool: a stack of free nodes under a head with a counter.          *)

\* FindFreeHead and ReleaseObject: load the head.
PoolLoad(t, op) ==
    /\ \/ op = "GetObject" /\ Begin(t, op, "getNext")
       \/ op = "Release" /\ held[t] # <<>> /\ Begin(t, op, "putNext")
    /\ Local(t, [old |-> free])
    /\ UNCHANGED <<mapVars, poolVars, held, q, u, l>>

\* An empty pool answers nullptr; otherwise the first node's link is read.
GetNext(t) ==
    \/ /\ r[t].old.node = None /\ At(t, "getNext", "idle")
       /\ Local(t, Blank)
       /\ UNCHANGED <<mapVars, poolVars, held, q, u, l>>
    \/ /\ r[t].old.node # None /\ At(t, "getNext", "getSwap")
       /\ Local(t, [target |-> nxt[r[t].old.node]])
       /\ UNCHANGED <<mapVars, poolVars, held, q, u, l>>

Unmoved_NoCount(t) == free.node = r[t].old.node
Unmoved(t) == free = r[t].old

\* Take the node (GetObject, ConstructObject), or try again with the head seen.
GetSwap(t) ==
    \/ /\ Unmoved(t) /\ At(t, "getSwap", "idle")
       /\ free' = [count |-> r[t].old.count + 1, node |-> r[t].target]
       /\ held' = [held EXCEPT ![t] = Append(@, r[t].old.node)]
       /\ Local(t, Blank)
       /\ UNCHANGED <<mapVars, nxt, q, u, l>>
    \/ /\ ~Unmoved(t) /\ At(t, "getSwap", "getNext")
       /\ Local(t, [old |-> free])
       /\ UNCHANGED <<mapVars, poolVars, held, q, u, l>>

\* The deleter of the shared pointer: link the node, then put it on top.
PutNext(t) ==
    /\ At(t, "putNext", "putSwap")
    /\ nxt' = [nxt EXCEPT ![Head(held[t])] = r[t].old.node]
    /\ UNCHANGED <<mapVars, free, held, q, u, l, r>>

PutSwap(t) ==
    \/ /\ Unmoved(t) /\ At(t, "putSwap", "idle")
       /\ free' = [count |-> r[t].old.count + 1, node |-> Head(held[t])]
       /\ held' = [held EXCEPT ![t] = Tail(@)]
       /\ Local(t, Blank)
       /\ UNCHANGED <<mapVars, nxt, q, u, l>>
    \/ /\ ~Unmoved(t) /\ At(t, "putSwap", "putNext")
       /\ Local(t, [old |-> free])
       /\ UNCHANGED <<mapVars, poolVars, held, q, u, l>>

CCPoolStep(t) ==
    \/ \E op \in {"GetObject", "Release"} : PoolLoad(t, op)
    \/ (pc[t] = "getNext" /\ GetNext(t)) \/ (pc[t] = "getSwap" /\ GetSwap(t))
    \/ PutNext(t) \/ (pc[t] = "putSwap" /\ PutSwap(t))

(* ObjectPool: the same stack for one thread.                                *)
GetObject(t) ==
    /\ Begin(t, "GetObject", "idle")
    /\ \/ free.node = None /\ UNCHANGED <<free, held>>
       \/ /\ free.node # None
          /\ held' = [held EXCEPT ![t] = Append(@, free.node)]
          /\ free' = [free EXCEPT !.node = nxt[@]]
    /\ UNCHANGED <<r, mapVars, nxt, q, u, l>>

ReleaseObject(t) ==
    /\ held[t] # <<>> /\ Begin(t, "Release", "idle")
    /\ nxt' = [nxt EXCEPT ![Head(held[t])] = free.node]
    /\ free' = [free EXCEPT !.node = Head(held[t])]
    /\ held' = [held EXCEPT ![t] = Tail(@)]
    /\ UNCHANGED <<r, mapVars, q, u, l>>

\* Without an object to give back a planned release does nothing.
NoRelease(t) ==
    /\ held[t] = <<>> /\ Begin(t, "Release", "idle")
    /\ UNCHANGED <<r, mapVars, poolVars, held, q, u, l>>

-----------------------------------------------------------------------------
(* ThreadSafeQueue: a queue, a mutex and a condition variable.               *)

Sleepers == {t \in Threads : pc[t] = "asleep"}

Enqueue_NoNotify(t) ==
    /\ q.owner = None /\ Begin(t, "Enqueue", "idle")
    /\ q' = [q EXCEPT !.items = Append(@, <<t, Len(todo[t])>>)]
    /\ UNCHANGED <<r, mapVars, poolVars, held, u, l>>

\* Append, and with notify_one one sleeper wakes if there is one.
Enqueue(t) ==
    /\ q.owner = None /\ pc[t] = "idle" /\ todo[t] # <<>> /\ Head(todo[t])[1] = "Enqueue"
    /\ \E w \in IF Sleepers = {} THEN {t} ELSE Sleepers :
          pc' = [pc EXCEPT ![w] = IF w = t THEN "idle" ELSE "awake"]
    /\ todo' = [todo EXCEPT ![t] = Tail(@)]
    /\ q' = [q EXCEPT !.items = Append(@, <<t, Len(todo[t])>>)]
    /\ UNCHANGED <<kind, fault, r, mapVars, poolVars, held, u, l>>

Pop(t) ==
    IF q.items = <<>> THEN UNCHANGED <<q, held>>
    ELSE /\ held' = [held EXCEPT ![t] = Append(@, Head(q.items))]
         /\ q' = [q EXCEPT !.items = Tail(@)]

Dequeue(t) ==
    /\ q.owner = None /\ Begin(t, "Dequeue", "idle") /\ Pop(t)
    /\ UNCHANGED <<r, mapVars, poolVars, u, l>>

\* The predicate of cv_.wait under the mutex: wait, give up or take one.
WaitDequeue(t) ==
    /\ q.owner = None
    /\ \/ pc[t] = "awake" /\ At(t, "awake", IF ~q.broken /\ q.items = <<>> THEN "wait" ELSE "idle")
       \/ Begin(t, "WaitDequeue", IF ~q.broken /\ q.items = <<>> THEN "wait" ELSE "idle")
    /\ IF q.broken THEN UNCHANGED <<q, held>>
       ELSE IF q.items = <<>> THEN q' = [q EXCEPT !.owner = t] /\ UNCHANGED held
       ELSE Pop(t)
    /\ UNCHANGED <<r, mapVars, poolVars, u, l>>

\* It sleeps and lets the mutex go in one step.
FallAsleep(t) ==
    /\ At(t, "wait", "asleep")
    /\ q' = [q EXCEPT !.owner = None]
    /\ UNCHANGED <<r, mapVars, poolVars, held, u, l>>

\* BreakAllWait takes no lock: it may come between the two steps above.
BreakAllWait(t) ==
    /\ pc[t] = "idle" /\ todo[t] # <<>> /\ Head(todo[t])[1] = "BreakAllWait"
    /\ pc' = [w \in Threads |-> IF w \in Sleepers THEN "awake" ELSE pc[w]]
    /\ todo' = [todo EXCEPT ![t] = Tail(@)]
    /\ q' = [q EXCEPT !.broken = TRUE]
    /\ r' = [w \in Threads |-> IF pc[w] = "wait" THEN [r[w] EXCEPT !.num = 1] ELSE r[w]]
    /\ UNCHANGED <<kind, fault, mapVars, poolVars, held, u, l>>

SafeQueueStep(t) ==
    Enqueue(t) \/ Dequeue(t) \/ WaitDequeue(t) \/ FallAsleep(t) \/ BreakAllWait(t)

-----------------------------------------------------------------------------
(* UnboundedQueue: a linked list whose nodes count two owners, the Enqueue   *)
(* that puts the next one behind it and the Dequeue that moves past it.      *)

Dummy == <<None, 0>>
Node(t) == <<t, Len(todo[t])>>
NoNode == [id |-> None, next |-> None, ref |-> 0]

\* new Node: at any address that is free, also one just given back.
NewNodes(id) ==
    {[u EXCEPT !.node[c] = [id |-> id, next |-> None, ref |-> 2]] :
        c \in {d \in Cells : u.node[d] = NoNode}}
Address(v, id) == CHOOSE c \in Cells : v.node[c].id = id

\* An access to the node that a thread knows at an address; if that one is
\* deleted the behaviour is undefined and not followed any further.
Touch(t, address, id, from, to) ==
    /\ pc[t] = from
    /\ IF u.node[address].id = id THEN pc' = [pc EXCEPT ![t] = to] /\ UNCHANGED fault
       ELSE fault' = fault \cup {from} /\ UNCHANGED pc
    /\ UNCHANGED <<kind, todo>>

PushBegin(t) ==
    /\ Begin(t, "Push", "pushSwap")
    /\ u' \in NewNodes(Node(t))
    /\ Local(t, [old |-> u.tail, target |-> Address(u', Node(t))])
    /\ UNCHANGED <<mapVars, poolVars, held, q, l>>

\* The exchange compares addresses: any node that is the tail now will do.
PushSwap(t) ==
    \/ /\ u.tail = r[t].old /\ At(t, "pushSwap", "pushNext")
       /\ u' = [u EXCEPT !.tail = r[t].target, !.order = Append(@, u.node[r[t].target].id)]
       /\ Local(t, [entry |-> u.node[r[t].old].id])
       /\ UNCHANGED <<mapVars, poolVars, held, q, l>>
    \/ /\ u.tail # r[t].old /\ At(t, "pushSwap", "pushSwap")
       /\ Local(t, [old |-> u.tail])
       /\ UNCHANGED <<mapVars, poolVars, held, q, u, l>>

PushNext(t) ==
    /\ Touch(t, r[t].old, r[t].entry, "pushNext", "release")
    /\ u' = IF fault' = fault THEN [u EXCEPT !.node[r[t].old].next = r[t].target] ELSE u
    /\ Local(t, [cell |-> 1])
    /\ UNCHANGED <<mapVars, poolVars, held, q, l>>

Loaded == [old |-> u.head, entry |-> u.node[u.head].id]

PopBegin(t) ==
    /\ Begin(t, "Pop", "popNext")
    /\ Local(t, Loaded)
    /\ UNCHANGED <<mapVars, poolVars, held, q, u, l>>

PopNext(t) ==
    LET n == u.node[r[t].old].next IN
    /\ Touch(t, r[t].old, r[t].entry, "popNext", IF n = None THEN "idle" ELSE "popSwap")
    /\ IF n = None THEN Local(t, Blank)
       ELSE Local(t, [target |-> n, prev |-> u.node[n].id])
    /\ UNCHANGED <<mapVars, poolVars, held, q, u, l>>

\* So does the one of the head, whose successor was read before.
PopSwap(t) ==
    \/ /\ u.head = r[t].old /\ At(t, "popSwap", "popData")
       /\ u' = [u EXCEPT !.head = r[t].target, !.popped = Append(@, r[t].prev),
                         !.mistaken = (r[t].entry # u.node[u.head].id)]
       /\ UNCHANGED <<r, mapVars, poolVars, held, q, l>>
    \/ /\ u.head # r[t].old /\ At(t, "popSwap", "popNext")
       /\ Local(t, Loaded)
       /\ UNCHANGED <<mapVars, poolVars, held, q, u, l>>

PopData(t) ==
    /\ Touch(t, r[t].target, r[t].prev, "popData", "release")
    /\ held' = [held EXCEPT ![t] = Append(@, r[t].prev)]
    /\ u' = [u EXCEPT !.size = @ - 1]
    /\ Local(t, [cell |-> 0])
    /\ UNCHANGED <<mapVars, poolVars, q, l>>

Release_Twice(t) ==
    /\ Touch(t, r[t].old, r[t].entry, "release", "isZero")
    /\ u' = IF fault' = fault THEN [u EXCEPT !.node[r[t].old].ref = @ - 2] ELSE u
    /\ UNCHANGED <<r, mapVars, poolVars, held, q, l>>

\* Node::release: the decrement, and a second access that may delete.
Release(t) ==
    /\ Touch(t, r[t].old, r[t].entry, "release", "isZero")
    /\ u' = IF fault' = fault THEN [u EXCEPT !.node[r[t].old].ref = @ - 1] ELSE u
    /\ UNCHANGED <<r, mapVars, poolVars, held, q, l>>

IsZero(t) ==
    /\ Touch(t, r[t].old, r[t].entry, "isZero", "idle")
    /\ u' = [u EXCEPT !.node[r[t].old] = IF @.ref = 0 /\ fault' = fault THEN NoNode ELSE @,
                      !.size = @ + r[t].cell]
    /\ Local(t, Blank)
    /\ UNCHANGED <<mapVars, poolVars, held, q, l>>

\* Clear with nobody else in the queue: Destroy every node, then Reset.
EmptyQueue(id) ==
    [head |-> 1, tail |-> 1, size |-> 0, order |-> <<>>, popped |-> <<>>, mistaken |-> FALSE,
     node |-> [c \in Cells |-> IF c = 1 THEN [id |-> id, next |-> None, ref |-> 2] ELSE NoNode]]

ClearQueue(t) ==
    /\ \A w \in Threads : pc[w] = "idle"
    /\ Begin(t, "Clear", "idle")
    /\ u' = EmptyQueue(<<t, 0>>)
    /\ UNCHANGED <<r, mapVars, poolVars, held, q, l>>

UnboundedStep(t) ==
    /\ fault = {} /\ ~u.mistaken
    /\ \/ PushBegin(t) \/ (pc[t] = "pushSwap" /\ PushSwap(t)) \/ (pc[t] = "pushNext" /\ PushNext(t))
       \/ PopBegin(t) \/ (pc[t] = "popNext" /\ PopNext(t)) \/ (pc[t] = "popSwap" /\ PopSwap(t))
       \/ (pc[t] = "popData" /\ PopData(t)) \/ (pc[t] = "release" /\ Release(t))
       \/ (pc[t] = "isZero" /\ IsZero(t)) \/ ClearQueue(t)

-----------------------------------------------------------------------------
(* ReentrantRWLock: num < 0 counts the writer's own nested locks.            *)

Push(t, guard) == held' = [held EXCEPT ![t] = Append(@, guard)]

ReadLock(t) ==
    /\ \/ l.writer = t /\ Begin(t, "read", "idle") /\ Push(t, "r") /\ UNCHANGED r
       \/ /\ l.writer # t /\ Begin(t, "read", "readTest")
          /\ Local(t, [num |-> l.num]) /\ UNCHANGED held
    /\ UNCHANGED <<mapVars, poolVars, q, u, l>>

\* The inner loop: past it with a number read while no writer waits.
ReadTest(t) ==
    /\ \/ r[t].num >= 0 /\ (l.first => l.wait = 0) /\ At(t, "readTest", "readSwap") /\ UNCHANGED r
       \/ /\ r[t].num < 0 \/ (l.first /\ l.wait > 0)
          /\ At(t, "readTest", "readTest") /\ Local(t, [num |-> l.num])
    /\ UNCHANGED <<mapVars, poolVars, held, q, u, l>>

ReadSwap(t) ==
    \/ /\ l.num = r[t].num /\ At(t, "readSwap", "idle")
       /\ l' = [l EXCEPT !.num = @ + 1]
       /\ Push(t, "r") /\ Local(t, Blank)
       /\ UNCHANGED <<mapVars, poolVars, q, u>>
    \/ /\ l.num # r[t].num /\ At(t, "readSwap", "readTest")
       /\ Local(t, [num |-> l.num])
       /\ UNCHANGED <<mapVars, poolVars, held, q, u, l>>

WriteLock(t) ==
    /\ \/ /\ l.writer = t /\ Begin(t, "write", "idle")
          /\ l' = [l EXCEPT !.num = @ - 1] /\ Push(t, "w")
       \/ /\ l.writer # t /\ Begin(t, "write", "writeSwap")
          /\ l' = [l EXCEPT !.wait = @ + 1] /\ UNCHANGED held
    /\ UNCHANGED <<r, mapVars, poolVars, q, u>>

WriteSwap(t) ==
    /\ l.num = 0 /\ At(t, "writeSwap", "writeOwn")
    /\ l' = [l EXCEPT !.num = -1]
    /\ UNCHANGED <<r, mapVars, poolVars, held, q, u>>

WriteOwn(t) ==
    /\ At(t, "writeOwn", "writeDone")
    /\ l' = [l EXCEPT !.writer = t]
    /\ UNCHANGED <<r, mapVars, poolVars, held, q, u>>

WriteDone(t) ==
    /\ At(t, "writeDone", "idle")
    /\ l' = [l EXCEPT !.wait = @ - 1] /\ Push(t, "w")
    /\ UNCHANGED <<r, mapVars, poolVars, q, u>>

ReadUnlock(t) ==
    /\ held[t] # <<>> /\ Last(held[t]) = "r" /\ Begin(t, "unlock", "idle")
    /\ held' = [held EXCEPT ![t] = Front(@)]
    /\ l' = IF l.writer = t THEN l ELSE [l EXCEPT !.num = @ - 1]
    /\ UNCHANGED <<r, mapVars, poolVars, q, u>>

\* The lock is free again before the writer's id is cleared.
WriteUnlock(t) ==
    /\ held[t] # <<>> /\ Last(held[t]) = "w"
    /\ Begin(t, "unlock", IF l.num = -1 THEN "clear" ELSE "idle")
    /\ held' = [held EXCEPT ![t] = Front(@)]
    /\ l' = [l EXCEPT !.num = @ + 1]
    /\ UNCHANGED <<r, mapVars, poolVars, q, u>>

ClearWriter(t) ==
    /\ pc[t] = "clear" /\ pc' = [pc EXCEPT ![t] = "idle"]
    /\ l' = [l EXCEPT !.writer = None]
    /\ fault' = IF l.writer = t THEN fault ELSE fault \cup {"clear"}
    /\ UNCHANGED <<kind, todo>>
    /\ UNCHANGED <<r, mapVars, poolVars, held, q, u>>

LockStep(t) ==
    \/ ReadLock(t) \/ (pc[t] = "readTest" /\ ReadTest(t)) \/ (pc[t] = "readSwap" /\ ReadSwap(t))
    \/ WriteLock(t) \/ WriteSwap(t) \/ WriteOwn(t) \/ WriteDone(t)
    \/ ReadUnlock(t) \/ WriteUnlock(t) \/ ClearWriter(t)

-----------------------------------------------------------------------------
\* CCObjectPool's constructor links the nodes of the arena first to last ...
Chained ==
    /\ free = [count |-> 0, node |-> 1]
    /\ nxt = [i \in 1..Size |-> IF i = Size THEN None ELSE i + 1]

\* ... ObjectPool's two put each object on top of the one before.
Stacked ==
    /\ free = [count |-> 0, node |-> Size]
    /\ nxt = [i \in 1..Size |-> IF i = 1 THEN None ELSE i - 1]

\* The containers as constructed, and a plan of calls.
Init ==
    /\ \E p \in Plans :
          /\ kind = p.kind /\ todo = p.ops
          /\ IF kind = "ObjectPool" THEN Stacked ELSE Chained
          /\ l = [num |-> 0, wait |-> 0, writer |-> None, first |-> p.first]
          /\ sets = [k \in p.keys |-> 0]
    /\ pc = [t \in Threads |-> "idle"] /\ r = [t \in Threads |-> Blank] /\ fault = {}
    /\ ent = [b \in {None} \X (0..(TableSize - 1)) |-> [key |-> 0, val |-> None, next |-> None]]
    /\ mem = [c \in Cells |-> None]
    /\ held = [t \in Threads |-> <<>>]
    /\ q = [items |-> <<>>, broken |-> FALSE, owner |-> None]
    /\ u = EmptyQueue(Dummy)

Next ==
    \E t \in Threads :
        \/ kind = "AtomicHashMap" /\ MapStep(t)
        \/ kind = "CCObjectPool" /\ (CCPoolStep(t) \/ NoRelease(t))
        \/ kind = "ObjectPool" /\ (GetObject(t) \/ ReleaseObject(t) \/ NoRelease(t))
        \/ kind = "ThreadSafeQueue" /\ SafeQueueStep(t)
        \/ kind = "UnboundedQueue" /\ UnboundedStep(t)
        \/ kind = "ReentrantRWLock" /\ LockStep(t)

Spec == Init /\ [][Next]_vars

-----------------------------------------------------------------------------
AtRest == \A t \in Threads : pc[t] = "idle"
Heads == {None} \X (0..(TableSize - 1))

Reached[n \in Nat] ==
    IF n = 0 THEN Heads
    ELSE LET before == Reached[n - 1] IN before \cup ({ent[e].next : e \in before} \ {None})
Linked == Reached[Cardinality(DOMAIN ent)]

Owners(c) ==
    {e \in DOMAIN ent : ent[e].val = c}
        \cup {t \in Threads : pc[t] \in {"Set", "swap", "link"} /\ r[t].cell = c}
        \cup {t \in Threads : pc[t] = "delete" /\ r[t].old = c}

\* AtomicHashMap: whatever Sets race, every bucket's chain stays strictly
\* sorted and holds exactly the keys that were Set; every value has exactly one
\* owner, so none is leaked, deleted twice or deleted under a linked entry.
MapWhole ==
    kind = "AtomicHashMap" => LET linked == Linked IN
        /\ \A e \in linked : ent[e].next # None =>
              /\ (e \in Heads \/ ent[e].key < ent[ent[e].next].key)
              /\ (e \in Heads => Bucket(ent[ent[e].next].key) = e)
        /\ \A k \in DOMAIN sets :
              (sets[k] > 0) <=> (\E e \in linked \ Heads : ent[e].key = k)
        /\ \A c \in Cells : Cardinality(Owners(c)) = IF New(c) THEN 0 ELSE 1

\* A Get during which no Set of its key was published copies a value of that
\* key; only a Set in between can leave it with deleted memory.
GetReadsValue ==
    kind = "AtomicHashMap" =>
        \A t \in Threads : \A i \in DOMAIN held[t] :
            (Len(held[t][i]) = 3 /\ held[t][i][3] = 0) =>
                held[t][i][2] # None /\ held[t][i][2][2] = held[t][i][1]

FreeNodes[n \in Nat] ==
    IF n = 0 THEN {free.node} \ {None}
    ELSE LET before == FreeNodes[n - 1] IN before \cup ({nxt[i] : i \in before} \ {None})

\* Pools: no object is handed to two holders, none is free and held, and at rest
\* none is lost, although the same node comes back to the head again and again.
PoolExclusive ==
    kind \in {"CCObjectPool", "ObjectPool"} =>
        LET Held(t) == {held[t][i] : i \in DOMAIN held[t]} IN
        /\ \A t, w \in Threads : t # w => Held(t) \cap Held(w) = {}
        /\ \A t \in Threads : Cardinality(Held(t)) = Len(held[t])
        /\ AtRest => /\ FreeNodes[Size] \cap UNION {Held(t) : t \in Threads} = {}
                     /\ FreeNodes[Size] \cup UNION {Held(t) : t \in Threads} = 1..Size

\* ThreadSafeQueue: an element is taken once, in its producer's order; while
\* elements are there some waiter is awake; after BreakAllWait only a waiter
\* that was between its check and its sleep stays asleep.
SafeQueueServes ==
    kind = "ThreadSafeQueue" =>
        /\ \A t, w \in Threads : \A i \in DOMAIN held[t], j \in DOMAIN held[w] :
              /\ (held[t][i] = held[w][j] => t = w /\ i = j)
              /\ (t = w /\ i < j /\ held[t][i][1] = held[t][j][1] => held[t][i][2] > held[t][j][2])
        /\ (Sleepers # {} /\ q.items # <<>>) => \E t \in Threads : pc[t] = "awake"
        /\ q.broken => \A t \in Sleepers : r[t].num = 1

\* UnboundedQueue: elements leave in the order they entered, no node still to
\* be reached from the head is deleted, and at rest size counts the elements,
\* until the exchange of the head takes a new node for an old one at the same
\* address.  The two references of a node protect the link and the decrements;
\* what they do not protect is the old head's next, the data of the new head,
\* and the count that release reads again.
UnboundedInOrder ==
    kind = "UnboundedQueue" /\ ~u.mistaken =>
        /\ IsPrefix(u.popped, u.order)
        /\ \A i \in (Len(u.popped) + 1)..Len(u.order) :
              \E c \in Cells : u.node[c].id = u.order[i]
        /\ u.popped # <<>> => u.node[u.head].id = Last(u.popped)
        /\ u.node[u.head] # NoNode
        /\ AtRest => u.size = Len(u.order) - Len(u.popped)
        /\ fault \subseteq {"popNext", "popData", "isZero"}

\* ReentrantRWLock: a writer is alone, and the lock is free once every guard is
\* gone, unless an unlocking writer cleared the id of the next one.
LockExclusive ==
    kind = "ReentrantRWLock" =>
        LET Writes(t) == "w" \in {held[t][i] : i \in DOMAIN held[t]} \/ pc[t] \in {"writeOwn", "writeDone"}
            Holds(t) == held[t] # <<>> \/ pc[t] \in {"writeOwn", "writeDone"}
        IN  /\ \A t, w \in Threads : t # w /\ Writes(t) => ~Holds(w)
            /\ (fault = {} /\ AtRest /\ \A t \in Threads : held[t] = <<>>) =>
                  l.num = 0 /\ l.wait = 0 /\ l.writer = None
=============================================================================
