----------------------------- MODULE ShmSegment ------------------------------
(***************************************************************************)
(* The life of a channel's shared memory (transport/shm/segment.cc with     *)
(* xsi_segment.cc or posix_segment.cc): every transmitter and dispatcher    *)
(* has a Segment object that creates the memory under the channel's key or  *)
(* opens what is there; a message too large for it makes its writer mark it *)
(* need_remap_, remove the key and create a larger one, to which the others *)
(* move when they see the mark.  The calls of the operating system fail as  *)
(* they may.                                                                *)
(*                                                                          *)
(* A message size is the number of its class in ShmConf; a class with       *)
(* larger messages has fewer blocks.  What happens in a block is ShmBlocks' *)
(* subject.                                                                 *)
(***************************************************************************)
EXTENDS Integers, Sequences, FiniteSets

CONSTANTS Writers, Readers,
          Kinds,         \* the values of shm_type
          BlockNum,      \* blocks of a segment of each size class
          MaxSegments,   \* bound: segments created
          MaxCount       \* bound: reference_count_ of a segment

Sizes == DOMAIN BlockNum
Users == Writers \union Readers
Segments == 1 .. MaxSegments
None == 0

ShmSegmentConstants ==
  /\ MaxSegments \in Nat /\ MaxCount \in Nat
  /\ BlockNum \in Seq(Nat \ {0}) /\ BlockNum # <<>>

VARIABLES kind, limit,            \* of the host's segments; their largest size
          key,                    \* the segment that has the key, or None
          made, empty,            \* segments created; those without memory yet
          ceiling_msg_size_, reference_count_, need_remap_,  \* their State
          init_, segment, conf_,  \* of each Segment object
          call,                   \* of each object: the operation under way
          notes,                  \* of each reader: block indices it was told
          raced                   \* for the properties: segments opened while
                                  \* nobody was counted, or removed by a process
                                  \* that had another one

stateVars == <<ceiling_msg_size_, reference_count_, need_remap_>>
objectVars == <<init_, segment, conf_>>
hostVars == <<kind, limit, key, made, empty>>
vars == <<hostVars, stateVars, objectVars, call, notes, raced>>

\* An operation: its place, where OpenOnly or OpenOrCreate return to, its message
\* size or block index, the retries of OpenOrCreate and, for the properties,
\* whether that found another's segment after Recreate had removed the key.
Idle == [pc |-> "idle", then |-> "idle", size |-> 1, index |-> 0, retry |-> 0,
         found |-> FALSE]

\* The shm_type of the configuration decides; XsiSegment is the default.
CreateSegment(shm_type) == IF shm_type = "posix" THEN "posix" ELSE "xsi"

\* Memory is zero when it is created.
Init ==
  /\ kind \in {CreateSegment(t) : t \in Kinds}
  /\ limit \in IF kind = "xsi" THEN Sizes ELSE {Len(BlockNum)}
  /\ key = None /\ made = 0 /\ empty = {}
  /\ ceiling_msg_size_ = [g \in Segments |-> 0]
  /\ reference_count_ = [g \in Segments |-> 0]
  /\ need_remap_ = [g \in Segments |-> FALSE]
  /\ init_ = [u \in Users |-> FALSE]
  /\ segment = [u \in Users |-> None]
  /\ conf_ = [u \in Users |-> 1]
  /\ call = [u \in Users |-> Idle]
  /\ notes = [r \in Readers |-> {}]
  /\ raced = {}

\* The object goes on at a place of its operation, or is done with it.
Goto(u, place) ==
  call' = [call EXCEPT ![u] =
             IF place = "idle" THEN Idle ELSE [@ EXCEPT !.pc = place]]

\* Calls OpenOnly ("open") or OpenOrCreate ("create") and goes on at "after".
Call(u, entry, after) ==
  call' = [call EXCEPT ![u].pc = entry, ![u].then = after]

Return(u) ==
  call' = [call EXCEPT ![u] = [@ EXCEPT !.pc = call[u].then, !.then = "idle",
                                        !.retry = 0]]

(* ------------------------- OpenOrCreate, OpenOnly ------------------------ *)

\* A writer whose Remap failed still compares the sizes; others give up.
Failed(u) == IF call[u].then = "size" THEN "size" ELSE "idle"

\* The segment with the key, which its remover does not have.
Strange(mine) == {key} \ {None, mine}

\* Memory that has lost its key goes with the last process that has it.
Cleared ==
  LET gone == {g \in Segments : g # key /\ \A u \in Users : segment[u] # g}
      Clear(f, zero) == [g \in Segments |-> IF g \in gone THEN zero ELSE f[g]] IN
  /\ ceiling_msg_size_' = Clear(ceiling_msg_size_, 0)
  /\ reference_count_' = Clear(reference_count_, 0)
  /\ need_remap_' = Clear(need_remap_, FALSE)
  /\ raced' = raced \ gone

\* The next segment is new and gets the key; if another has it, that is opened.
NewSegment(u, next) ==
  /\ call[u].pc = "create"
  /\ \/ /\ key = None /\ conf_[u] <= limit /\ made < MaxSegments
        /\ made' = made + 1 /\ key' = made + 1
        /\ empty' = IF next = "truncate" THEN empty \union {made + 1} ELSE empty
        /\ segment' = [segment EXCEPT ![u] = made + 1]
        /\ Goto(u, next) /\ Cleared
     \/ /\ key # None
        /\ call' = [call EXCEPT ![u].pc = "open",
                                ![u].found = call[u].then = "publish"]
        /\ UNCHANGED <<made, empty, key, segment, stateVars, raced>>
  /\ UNCHANGED <<kind, limit, init_, conf_, notes>>

\* shmget with IPC_CREAT | IPC_EXCL
OpenOrCreate(u) == kind = "xsi" /\ NewSegment(u, "construct")

\* EINVAL, for a size above the limit: "need larger space, recreate" ...
CreateInvalid(u) ==
  /\ call[u].pc = "create" /\ key = None /\ conf_[u] > limit
  /\ Goto(u, "invalid")
  /\ UNCHANGED <<hostVars, stateVars, objectVars, notes, raced>>

\* ... removes what another may have created meanwhile, and tries once more.
RemoveAndRetry(u) ==
  /\ call[u].pc = "invalid"
  /\ key' = None /\ raced' = raced \union Strange(None)
  /\ IF call[u].retry = 0
     THEN call' = [call EXCEPT ![u].pc = "create", ![u].retry = 1]
     ELSE Goto(u, Failed(u))
  /\ UNCHANGED <<kind, limit, made, empty, stateVars, objectVars, notes>>

\* shm_open with O_CREAT | O_EXCL; the memory is empty until ftruncate.
OpenOrCreatePosix(u) == kind = "posix" /\ NewSegment(u, "truncate")

\* Another error of shmget or shm_open.
CreateFails(u) ==
  /\ call[u].pc = "create" /\ key = None /\ Goto(u, Failed(u))
  /\ UNCHANGED <<hostVars, stateVars, objectVars, notes, raced>>

\* A failed ftruncate leaves the name, with no memory behind it.
Truncate(u) ==
  /\ call[u].pc = "truncate"
  /\ \/ Goto(u, "construct") /\ empty' = empty \ {segment[u]} /\ UNCHANGED segment
     \/ /\ Goto(u, Failed(u)) /\ segment' = [segment EXCEPT ![u] = None]
        /\ UNCHANGED empty
  /\ UNCHANGED <<kind, limit, key, made, stateVars, init_, conf_, notes,
                 raced>>

\* A failed shmat removes the new segment, a failed mmap the one with the name.
CreateUndone(u) ==
  /\ call[u].pc = "construct"
  /\ key' = IF kind = "posix" \/ key = segment[u] THEN None ELSE key
  /\ raced' = IF kind = "posix" THEN raced \union Strange(segment[u]) ELSE raced
  /\ segment' = [segment EXCEPT ![u] = None]
  /\ Goto(u, Failed(u))
  /\ UNCHANGED <<kind, limit, made, empty, stateVars, init_, conf_, notes>>

\* new (managed_shm_) State(conf_.ceiling_msg_size()), and the blocks.
NewState(u) ==
  /\ call[u].pc = "construct"
  /\ ceiling_msg_size_' = [ceiling_msg_size_ EXCEPT ![segment[u]] = conf_[u]]
  /\ reference_count_' = [reference_count_ EXCEPT ![segment[u]] = 0]
  /\ need_remap_' = [need_remap_ EXCEPT ![segment[u]] = FALSE]
  /\ Goto(u, "created")
  /\ UNCHANGED <<hostVars, objectVars, notes, raced>>

Construct(u) == kind = "xsi" /\ NewState(u)
ConstructPosix(u) == kind = "posix" /\ NewState(u)

\* The existing segment; without one the caller gives up.
FindSegment(u) ==
  /\ call[u].pc = "open"
  /\ segment' = [segment EXCEPT ![u] = key]
  /\ Goto(u, IF key = None THEN Failed(u) ELSE "attach")
  /\ UNCHANGED <<hostVars, stateVars, init_, conf_, notes, raced>>

OpenOnly(u) == kind = "xsi" /\ FindSegment(u)
OpenOnlyPosix(u) == kind = "posix" /\ FindSegment(u)

\* conf_.Update(state_->ceiling_msg_size())
Attached(u) ==
  /\ LET size == ceiling_msg_size_[segment[u]] IN
       conf_' = [conf_ EXCEPT ![u] = IF size = 0 THEN 1 ELSE size]
  /\ raced' = raced \union {g \in {segment[u]} : reference_count_[g] = 0}
  /\ Goto(u, "count")
  /\ UNCHANGED <<hostVars, stateVars, segment, init_, notes>>

NotAttached(u) ==
  /\ segment' = [segment EXCEPT ![u] = None]
  /\ Goto(u, Failed(u))
  /\ UNCHANGED <<hostVars, stateVars, init_, conf_, notes, raced>>

\* shmat may fail, always if the segment was removed meanwhile and nobody else
\* has it attached.
Attach(u) ==
  /\ kind = "xsi" /\ call[u].pc = "attach"
  /\ Attached(u) \/ NotAttached(u)

\* mmap may fail, always while the memory is empty; a descriptor keeps what was
\* removed meanwhile.
AttachPosix(u) ==
  /\ kind = "posix" /\ call[u].pc = "attach"
  /\ (segment[u] \notin empty /\ Attached(u)) \/ NotAttached(u)

\* Mutant: opening does not count.
Count_Never(u) ==
  /\ call[u].pc \in {"created", "count"}
  /\ init_' = [init_ EXCEPT ![u] = TRUE]
  /\ Return(u)
  /\ UNCHANGED <<hostVars, stateVars, segment, conf_, notes, raced>>

\* state_->IncreaseReferenceCounts()
Count(u) ==
  /\ call[u].pc \in {"created", "count"}
  /\ raced' = raced \union
       {g \in {segment[u]} : call[u].pc = "count" /\ reference_count_[g] = 0}
  /\ reference_count_[segment[u]] < MaxCount
  /\ reference_count_' = [reference_count_ EXCEPT ![segment[u]] = @ + 1]
  /\ init_' = [init_ EXCEPT ![u] = TRUE]
  /\ Return(u)
  /\ UNCHANGED <<hostVars, ceiling_msg_size_, need_remap_, segment, conf_,
                 notes>>

(* ---------------------------- AcquireBlockToWrite ------------------------ *)

AcquireBlockToWrite(w, n) ==
  /\ call[w].pc = "idle"
  /\ call' = [call EXCEPT ![w] =
       IF init_[w] THEN [Idle EXCEPT !.pc = "remap", !.size = n]
       ELSE [Idle EXCEPT !.pc = "create", !.then = "remap", !.size = n]]
  /\ UNCHANGED <<hostVars, stateVars, objectVars, notes, raced>>

\* state_->need_remap(), and Remap: the old memory is let go, the new opened.
\* A reader goes on to lock the block, a writer to compare the sizes.
CheckRemap(u) ==
  LET after == IF u \in Writers THEN "size" ELSE "lock" IN
  /\ call[u].pc = "remap"
  /\ \/ /\ need_remap_[segment[u]]
        /\ init_' = [init_ EXCEPT ![u] = FALSE]
        /\ segment' = [segment EXCEPT ![u] = None]
        /\ Call(u, "open", after)
     \/ /\ ~need_remap_[segment[u]]
        /\ Goto(u, after)
        /\ UNCHANGED <<init_, segment>>
  /\ UNCHANGED <<hostVars, stateVars, conf_, notes, raced>>

\* msg_size > conf_.ceiling_msg_size()?  Recreate uses state_, which a failed
\* Remap has cleared.
CheckSize(w) ==
  /\ call[w].pc = "size"
  /\ Goto(w, CASE call[w].size > conf_[w] /\ segment[w] # None -> "mark"
                [] call[w].size > conf_[w] /\ segment[w] = None -> "crashed"
                [] call[w].size <= conf_[w] /\ segment[w] # None -> "publish"
                [] call[w].size <= conf_[w] /\ segment[w] = None -> "idle")
  /\ UNCHANGED <<hostVars, stateVars, objectVars, notes, raced>>

\* Mutant: the others are not told.
MarkRemap_Not(w) ==
  /\ call[w].pc = "mark"
  /\ init_' = [init_ EXCEPT ![w] = FALSE]
  /\ Goto(w, "remove")
  /\ UNCHANGED <<hostVars, stateVars, segment, conf_, notes, raced>>

\* Recreate: state_->set_need_remap(true)
MarkRemap(w) ==
  /\ call[w].pc = "mark"
  /\ init_' = [init_ EXCEPT ![w] = FALSE]
  /\ need_remap_' = [need_remap_ EXCEPT ![segment[w]] = TRUE]
  /\ Goto(w, "remove")
  /\ UNCHANGED <<hostVars, ceiling_msg_size_, reference_count_, segment, conf_,
                 notes, raced>>

\* Recreate: Reset(), Remove() of whatever has the key, conf_.Update(msg_size).
Recreate(w) ==
  /\ call[w].pc = "remove"
  /\ segment' = [segment EXCEPT ![w] = None]
  /\ key' = None /\ raced' = raced \union Strange(segment[w])
  /\ conf_' = [conf_ EXCEPT ![w] = call[w].size]
  /\ Call(w, "create", "publish")
  /\ UNCHANGED <<kind, limit, made, empty, stateVars, init_, notes>>

\* The writer fills some block and announces its index.
Publish(w, b) ==
  /\ call[w].pc = "publish" /\ b < BlockNum[conf_[w]]
  /\ notes' = [r \in Readers |-> notes[r] \union {b}]
  /\ Goto(w, "idle")
  /\ UNCHANGED <<hostVars, stateVars, objectVars, raced>>

(* ---------------------------- AcquireBlockToRead ------------------------- *)

AcquireBlockToRead(r, b) ==
  /\ call[r].pc = "idle" /\ b \in notes[r]
  /\ notes' = [notes EXCEPT ![r] = @ \ {b}]
  /\ call' = [call EXCEPT ![r] =
       IF init_[r] THEN [Idle EXCEPT !.pc = "index", !.index = b]
       ELSE [Idle EXCEPT !.pc = "open", !.then = "index", !.index = b]]
  /\ UNCHANGED <<hostVars, stateVars, objectVars, raced>>

\* index >= conf_.block_num()
CheckIndex(r) ==
  /\ call[r].pc = "index"
  /\ Goto(r, IF call[r].index >= BlockNum[conf_[r]] THEN "idle" ELSE "remap")
  /\ UNCHANGED <<hostVars, stateVars, objectVars, notes, raced>>

\* blocks_[index].TryLockForRead(), the message and the release.
ReadBlock(r) ==
  /\ call[r].pc = "lock"
  /\ Goto(r, "idle")
  /\ UNCHANGED <<hostVars, stateVars, objectVars, notes, raced>>

(* --------------------------------- Destroy ------------------------------- *)

\* Destroy: state_->DecreaseReferenceCounts(), which stops at 0.
Destroy(u) ==
  /\ call[u].pc = "idle" /\ init_[u]
  /\ init_' = [init_ EXCEPT ![u] = FALSE]
  /\ reference_count_' =
       [reference_count_ EXCEPT ![segment[u]] = IF @ = 0 THEN 0 ELSE @ - 1]
  /\ Goto(u, "destroy")
  /\ UNCHANGED <<hostVars, ceiling_msg_size_, need_remap_, segment, conf_,
                 notes, raced>>

ReadCount(u) ==
  /\ call[u].pc = "destroy"
  /\ Goto(u, IF reference_count_[segment[u]] = 0 THEN "unlink" ELSE "reset")
  /\ UNCHANGED <<hostVars, stateVars, objectVars, notes, raced>>

\* Remove(): the key goes, whichever segment has it now.
Unlink(u) ==
  /\ call[u].pc = "unlink"
  /\ key' = None
  /\ raced' = raced \union Strange(segment[u]) \union
       {g \in {key} : \E v \in Users :
                       call[v].pc \in {"attach", "count"} /\ segment[v] = g}
  /\ Goto(u, "reset")
  /\ UNCHANGED <<kind, limit, made, empty, stateVars, objectVars, notes>>

Remove(u) == kind = "xsi" /\ Unlink(u)
RemovePosix(u) == kind = "posix" /\ Unlink(u)

\* The next user of the channel in this process has a new Segment object.
NewObject(u) ==
  /\ call[u].pc = "reset"
  /\ segment' = [segment EXCEPT ![u] = None] /\ conf_' = [conf_ EXCEPT ![u] = 1]
  /\ Goto(u, "idle")
  /\ UNCHANGED <<hostVars, stateVars, init_, notes, raced>>

Next ==
  \/ \E u \in Users :
       \/ OpenOrCreate(u) \/ Construct(u) \/ OpenOnly(u) \/ Attach(u)
       \/ CreateInvalid(u) \/ RemoveAndRetry(u) \/ CreateFails(u) \/ CreateUndone(u)
       \/ OpenOrCreatePosix(u) \/ Truncate(u) \/ ConstructPosix(u)
       \/ OpenOnlyPosix(u) \/ AttachPosix(u)
       \/ Count(u) \/ CheckRemap(u) \/ Destroy(u) \/ ReadCount(u)
       \/ Remove(u) \/ RemovePosix(u) \/ NewObject(u)
  \/ \E w \in Writers :
       \/ \E n \in Sizes : AcquireBlockToWrite(w, n)
       \/ CheckSize(w) \/ MarkRemap(w) \/ Recreate(w)
       \/ \E b \in 0 .. BlockNum[1] - 1 : Publish(w, b)
  \/ \E r \in Readers :
       \/ \E b \in notes[r] : AcquireBlockToRead(r, b)
       \/ CheckIndex(r) \/ ReadBlock(r)

Spec == Init /\ [][Next]_vars

(* ------------------------------ Properties ------------------------------ *)

Places == {"idle", "create", "invalid", "truncate", "construct", "created",
           "open", "attach", "count", "remap", "size", "mark", "remove",
           "publish", "crashed", "index", "lock", "destroy", "unlink", "reset"}

\* Every variable holds a value of its type, and a process that uses state_
\* has one.
TypeOK ==
  /\ key \in 0 .. made /\ made \in 0 .. MaxSegments /\ limit \in Sizes
  /\ raced \subseteq 1 .. made /\ empty \subseteq 1 .. made
  /\ \A g \in Segments :
       /\ ceiling_msg_size_[g] \in Sizes \union {0}
       /\ reference_count_[g] \in Nat /\ need_remap_[g] \in BOOLEAN
  /\ \A u \in Users :
       /\ call[u].pc \in Places /\ call[u].retry \in 0 .. 1
       /\ segment[u] \in 0 .. made /\ conf_[u] \in Sizes
       /\ init_[u] \/ call[u].pc \in {"remap", "mark", "publish", "lock"} =>
            segment[u] # None

\* The layout a process computes with is the one the memory has, unless the
\* memory was opened before its creator had filled in the size.
LayoutAgrees ==
  \A u \in Users :
    init_[u] /\ segment[u] \notin raced =>
      conf_[u] = ceiling_msg_size_[segment[u]]

\* The reference count covers the processes that use a segment, so that the
\* last one to leave, and no other, removes it; unless it was opened while no
\* process was counted (segment.cc: Destroy reads the count after it).
CountCovers ==
  \A g \in Segments \ raced :
    reference_count_[g] >=
      Cardinality({u \in Users : init_[u] /\ segment[u] = g})

\* A process that is done with an operation uses the segment that others will
\* find, or will learn from need_remap_ that it has been replaced; unless a
\* process that had another segment removed its key, as the second of two
\* Recreates does to the first one's segment.
NotStranded ==
  \A u \in Users :
    init_[u] /\ call[u].pc = "idle" /\ segment[u] \notin raced =>
      segment[u] = key \/ need_remap_[segment[u]]

\* "larger than current shm_buffer_size, need recreate": a message is only
\* written into a segment whose blocks have room for it, unless the writer's
\* Recreate found the smaller segment that another writer created meanwhile.
MessageFits ==
  \A w \in Writers :
    call[w].pc = "publish" => call[w].size <= conf_[w] \/ call[w].found

\* "invalid block_index": a reader only uses a block that its segment has.
IndexInRange ==
  \A r \in Readers : call[r].pc = "lock" => call[r].index < BlockNum[conf_[r]]
=============================================================================
