------------------------------ MODULE ShmBlocks ------------------------------
(***************************************************************************)
(* One shared memory segment (transport/shm/block.cc, segment.cc): writers  *)
(* in several processes take the blocks in turn under a write lock and      *)
(* announce the index of the block; readers lock the block they were told   *)
(* of and read what it holds then.  ShmTransmitter::Transmit drives the     *)
(* writers and ShmDispatcher::ThreadFunc the readers.                       *)
(*                                                                          *)
(* A message is a number, in the order in which the writes begin.  A        *)
(* segment that is replaced is ShmSegment's subject, the notifier between   *)
(* the two sides ConditionNotifier's; here every reader has a queue.        *)
(***************************************************************************)
EXTENDS Integers, Sequences, FiniteSets, FiniteSetTheorems, TLAPS

CONSTANTS Writers, Readers,
          BlockNum,          \* conf_.block_num(), a power of two
          kMaxTryLockTimes,
          MaxMsgs            \* bound: messages

ShmBlocksConstants ==
  /\ BlockNum \in Nat \ {0} /\ kMaxTryLockTimes \in Nat \ {0}
  /\ MaxMsgs \in Nat

VARIABLES seq_,
          lock_num_, content, whole,     \* of each block
          wpc, windex, wmsg,             \* of each writer
          notes,                         \* of each reader: what it is told
          rpc, rindex, lock_num, try_times,  \* of each reader
          told, seen, excused,           \* of each reader, for the properties
          made                           \* messages so far

blockVars == <<lock_num_, content, whole>>
writerVars == <<wpc, windex, wmsg, made, seq_>>
localVars == <<rpc, rindex, lock_num, try_times>>
ghostVars == <<told, seen, excused>>
vars == <<seq_, lock_num_, content, whole, wpc, windex, wmsg, notes, rpc,
          rindex, lock_num, try_times, told, seen, excused, made>>

Blocks == 0 .. BlockNum - 1
kRWLockFree == 0
kWriteExclusive == -1

Init ==
  /\ seq_ = 0 /\ made = 0
  /\ lock_num_ = [b \in Blocks |-> kRWLockFree]
  /\ content = [b \in Blocks |-> 0] /\ whole = [b \in Blocks |-> TRUE]
  /\ wpc = [w \in Writers |-> "idle"]
  /\ windex = [w \in Writers |-> 0] /\ wmsg = [w \in Writers |-> 0]
  /\ notes = [r \in Readers |-> <<>>]
  /\ rpc = [r \in Readers |-> "listen"]
  /\ rindex = [r \in Readers |-> 0] /\ lock_num = [r \in Readers |-> 0]
  /\ try_times = [r \in Readers |-> 0]
  /\ told = [r \in Readers |-> 0]
  /\ seen = [r \in Readers |-> [b \in Blocks |-> 0]]
  /\ excused = [r \in Readers |-> FALSE]

(* --------------------------------- Writers ------------------------------- *)

Transmit(w) ==
  /\ wpc[w] = "idle" /\ made < MaxMsgs
  /\ wpc' = [wpc EXCEPT ![w] = "next"]
  /\ UNCHANGED <<seq_, made, windex, wmsg, blockVars, notes, localVars,
                 ghostVars>>

\* state_->FetchAddSeq(1) % block_num: block_num divides 2^32, so that only the
\* remainder of seq_ matters.
GetNextWritableBlockIndex(w) ==
  /\ wpc[w] = "next"
  /\ windex' = [windex EXCEPT ![w] = seq_]
  /\ seq_' = (seq_ + 1) % BlockNum
  /\ wpc' = [wpc EXCEPT ![w] = "lock"]
  /\ UNCHANGED <<wmsg, made, blockVars, notes, localVars, ghostVars>>

\* Mutant: readers are not looked at.
WriteLockFree_Readers(b) == lock_num_[b] # kWriteExclusive

\* What compare_exchange_weak compares.
WriteLockFree(b) == lock_num_[b] = kRWLockFree

TryLockForWrite(w) ==
  /\ wpc[w] = "lock" /\ WriteLockFree(windex[w])
  /\ lock_num_' = [lock_num_ EXCEPT ![windex[w]] = kWriteExclusive]
  /\ wpc' = [wpc EXCEPT ![w] = "write"]
  /\ UNCHANGED <<seq_, windex, wmsg, made, content, whole, notes, localVars,
                 ghostVars>>

\* A weak compare-exchange may also fail for no reason.
TryNextBlock(w) ==
  /\ wpc[w] = "lock"
  /\ wpc' = [wpc EXCEPT ![w] = "next"]
  /\ UNCHANGED <<seq_, windex, wmsg, made, blockVars, notes, localVars,
                 ghostVars>>

\* The message is being serialized into the block.
BeginWrite(w) ==
  /\ wpc[w] = "write" /\ made < MaxMsgs
  /\ made' = made + 1
  /\ wmsg' = [wmsg EXCEPT ![w] = made + 1]
  /\ content' = [content EXCEPT ![windex[w]] = made + 1]
  /\ whole' = [whole EXCEPT ![windex[w]] = FALSE]
  /\ wpc' = [wpc EXCEPT ![w] = "writing"]
  /\ UNCHANGED <<seq_, windex, lock_num_, notes, localVars, ghostVars>>

\* A message that protobuf refuses is refused before anything is written; the
\* block is released and nobody is told.
RefuseWrite(w) ==
  /\ wpc[w] = "write"
  /\ lock_num_' = [lock_num_ EXCEPT ![windex[w]] = @ + 1]
  /\ excused' = [r \in Readers |-> TRUE]
  /\ wpc' = [wpc EXCEPT ![w] = "idle"]
  /\ UNCHANGED <<seq_, windex, wmsg, made, content, whole, notes, localVars,
                 told, seen>>

EndWrite(w) ==
  /\ wpc[w] = "writing"
  /\ whole' = [whole EXCEPT ![windex[w]] = TRUE]
  /\ wpc' = [wpc EXCEPT ![w] = "release"]
  /\ UNCHANGED <<seq_, windex, wmsg, made, lock_num_, content, notes,
                 localVars, ghostVars>>

\* Mutant: the readers are told first, and the block is released after.
ReleaseWrittenBlock_Late(w) ==
  /\ \/ /\ wpc[w] = "release"
        /\ notes' = [r \in Readers |->
             Append(notes[r], [index |-> windex[w], msg |-> wmsg[w]])]
        /\ wpc' = [wpc EXCEPT ![w] = "unlock"]
        /\ UNCHANGED lock_num_
     \/ /\ wpc[w] = "unlock"
        /\ lock_num_' = [lock_num_ EXCEPT ![windex[w]] = @ + 1]
        /\ wpc' = [wpc EXCEPT ![w] = "idle"]
        /\ UNCHANGED notes
  /\ UNCHANGED <<seq_, windex, wmsg, made, content, whole, localVars,
                 ghostVars>>

ReleaseWrittenBlock(w) ==
  /\ wpc[w] = "release"
  /\ lock_num_' = [lock_num_ EXCEPT ![windex[w]] = @ + 1]
  /\ wpc' = [wpc EXCEPT ![w] = "notify"]
  /\ UNCHANGED <<seq_, windex, wmsg, made, content, whole, notes, localVars,
                 ghostVars>>

\* notifier_->Notify(readable_info): only the index travels; the message is
\* there for the properties.
Notify(w) ==
  /\ wpc[w] = "notify"
  /\ notes' = [r \in Readers |->
                 Append(notes[r], [index |-> windex[w], msg |-> wmsg[w]])]
  /\ wpc' = [wpc EXCEPT ![w] = "idle"]
  /\ UNCHANGED <<seq_, windex, wmsg, made, blockVars, localVars, ghostVars>>

(* --------------------------------- Readers ------------------------------- *)

Listen(r) ==
  /\ rpc[r] = "listen" /\ notes[r] # <<>>
  /\ rindex' = [rindex EXCEPT ![r] = Head(notes[r]).index]
  /\ told' = [told EXCEPT ![r] = Head(notes[r]).msg]
  /\ notes' = [notes EXCEPT ![r] = Tail(notes[r])]
  /\ try_times' = [try_times EXCEPT ![r] = 0]
  /\ rpc' = [rpc EXCEPT ![r] = "load"]
  /\ UNCHANGED <<writerVars, blockVars, lock_num, seen, excused>>

\* lock_num_.load(): a block that is being written is given up.
LoadLockNum(r) ==
  /\ rpc[r] = "load"
  /\ lock_num' = [lock_num EXCEPT ![r] = lock_num_[rindex[r]]]
  /\ rpc' = [rpc EXCEPT ![r] =
               IF lock_num_[rindex[r]] < kRWLockFree THEN "listen" ELSE "cas"]
  /\ UNCHANGED <<writerVars, blockVars, notes, rindex, try_times, ghostVars>>

\* The compare-exchange fails when others came or went meanwhile, or for no
\* reason; after kMaxTryLockTimes failures the block is given up.
TryLockForRead(r) ==
  /\ rpc[r] = "cas"
  /\ \/ /\ lock_num_[rindex[r]] = lock_num[r]
        /\ lock_num_' = [lock_num_ EXCEPT ![rindex[r]] = @ + 1]
        /\ rpc' = [rpc EXCEPT ![r] = "reading"]
        /\ UNCHANGED <<try_times, excused>>
     \/ /\ try_times' = [try_times EXCEPT ![r] = @ + 1]
        /\ rpc' = [rpc EXCEPT ![r] =
             IF try_times'[r] = kMaxTryLockTimes THEN "listen" ELSE "load"]
        /\ excused' = [excused EXCEPT ![r] =
                         @ \/ try_times'[r] = kMaxTryLockTimes]
        /\ UNCHANGED lock_num_
  /\ UNCHANGED <<writerVars, content, whole, notes, rindex, lock_num, told,
                 seen>>

\* OnMessage parses the block and runs the listeners; then the block is
\* released.
ReadMessage(r) ==
  /\ rpc[r] = "reading"
  /\ seen' = [seen EXCEPT ![r][rindex[r]] = content[rindex[r]]]
  /\ rpc' = [rpc EXCEPT ![r] = "release"]
  /\ UNCHANGED <<writerVars, blockVars, notes, rindex, lock_num, try_times,
                 told, excused>>

ReleaseReadBlock(r) ==
  /\ rpc[r] = "release"
  /\ lock_num_' = [lock_num_ EXCEPT ![rindex[r]] = @ - 1]
  /\ rpc' = [rpc EXCEPT ![r] = "listen"]
  /\ UNCHANGED <<writerVars, content, whole, notes, rindex, lock_num,
                 try_times, ghostVars>>

Next ==
  \/ \E w \in Writers :
       \/ Transmit(w) \/ GetNextWritableBlockIndex(w) \/ TryLockForWrite(w)
       \/ TryNextBlock(w) \/ BeginWrite(w) \/ RefuseWrite(w) \/ EndWrite(w)
       \/ ReleaseWrittenBlock(w) \/ Notify(w)
  \/ \E r \in Readers :
       \/ Listen(r) \/ LoadLockNum(r) \/ TryLockForRead(r)
       \/ ReadMessage(r) \/ ReleaseReadBlock(r)

Spec == Init /\ [][Next]_vars

(* ------------------------------ Properties ------------------------------ *)

Holds(w) == wpc[w] \in {"write", "writing", "release"}
Reads(r) == rpc[r] \in {"reading", "release"}

\* Every variable holds a value of its type.
TypeOK ==
  /\ seq_ \in Blocks /\ made \in 0 .. MaxMsgs
  /\ \A b \in Blocks :
       /\ lock_num_[b] \in kWriteExclusive .. Cardinality(Readers)
       /\ content[b] \in 0 .. made /\ whole[b] \in BOOLEAN
  /\ \A w \in Writers :
       /\ wpc[w] \in {"idle", "next", "lock", "write", "writing", "release",
                      "notify"}
       /\ windex[w] \in Blocks /\ wmsg[w] \in 0 .. made
  /\ \A r \in Readers :
       /\ rpc[r] \in {"listen", "load", "cas", "reading", "release"}
       /\ rindex[r] \in Blocks /\ lock_num[r] \in Int
       /\ try_times[r] \in 0 .. kMaxTryLockTimes
       /\ \A i \in DOMAIN notes[r] : notes[r][i].index \in Blocks

\* Nobody reads a block that is half written: while a reader holds a block no
\* writer does, and the message in it is complete.
NoTornRead ==
  \A r \in Readers : Reads(r) =>
    /\ whole[rindex[r]]
    /\ \A w \in Writers : Holds(w) => windex[w] # rindex[r]

\* lock_num_ counts its holders, so that no release is lost or done twice.
LockCounts ==
  \A b \in Blocks :
    LET writers == {w \in Writers : Holds(w) /\ windex[w] = b}
        readers == {r \in Readers : Reads(r) /\ rindex[r] = b}
    IN  /\ Cardinality(writers) <= 1
        /\ lock_num_[b] = Cardinality(readers) - Cardinality(writers)

\* The index alone is enough: what a reader finds in the block is the message
\* it was told of, or one that was written over it later, never an older one.
NeverOlder ==
  \A r \in Readers : rpc[r] = "release" => seen[r][rindex[r]] >= told[r]

\* When writers and readers have come to rest, every reader has seen the last
\* message of every block, unless it gave up after kMaxTryLockTimes attempts
\* or a writer took the block and then had nothing to write.
NothingMissedAtRest ==
  (/\ \A w \in Writers : wpc[w] = "idle"
   /\ \A r \in Readers : rpc[r] = "listen" /\ notes[r] = <<>>) =>
    \A r \in Readers : excused[r] \/ seen[r] = content

(* -------------------------------- Proofs -------------------------------- *)

WriterPlaces == {"idle", "next", "lock", "write", "writing", "release", "notify"}
ReaderPlaces == {"listen", "load", "cas", "reading", "release"}

\* What the proofs need of the constants.
FiniteUsers == BlockNum \in Nat \ {0} /\ IsFiniteSet(Readers)

\* What a reader is told.
Note == [index : Blocks, msg : Nat]

Typed ==
  /\ seq_ \in Blocks /\ made \in Nat
  /\ lock_num_ \in [Blocks -> Int]
  /\ content \in [Blocks -> Nat] /\ whole \in [Blocks -> BOOLEAN]
  /\ wpc \in [Writers -> WriterPlaces] /\ windex \in [Writers -> Blocks]
  /\ wmsg \in [Writers -> Nat]
  /\ notes \in [Readers -> Seq(Note)]
  /\ rpc \in [Readers -> ReaderPlaces] /\ rindex \in [Readers -> Blocks]
  /\ lock_num \in [Readers -> Int] /\ told \in [Readers -> Nat]
  /\ seen \in [Readers -> [Blocks -> Nat]]

ReadersOf(b) == {r \in Readers : Reads(r) /\ rindex[r] = b}
Written(b) == \E w \in Writers : Holds(w) /\ windex[w] = b

\* A block has one writer and no reader, or no writer and lock_num_ readers; a
\* reader only compares lock_num_ with a number of readers.
Locked ==
  /\ \A w, v \in Writers :
       Holds(w) /\ Holds(v) /\ windex[w] = windex[v] => w = v
  /\ \A b \in Blocks : Written(b) => lock_num_[b] = -1 /\ ReadersOf(b) = {}
  /\ \A b \in Blocks : ~Written(b) => lock_num_[b] = Cardinality(ReadersOf(b))
  /\ \A r \in Readers : rpc[r] = "cas" => lock_num[r] >= 0

\* Only the writer of a block leaves it torn.
TornOnlyByWriter ==
  \A b \in Blocks : ~whole[b] =>
    \E w \in Writers : wpc[w] = "writing" /\ windex[w] = b

NotesNewer(r) ==
  \A i \in 1 .. Len(notes[r]) : notes[r][i].msg <= content[notes[r][i].index]

\* What a block holds is at least as new as what anybody was, or will be, told
\* of it.
Newer ==
  /\ \A b \in Blocks : content[b] <= made
  /\ \A w \in Writers : wpc[w] \in {"writing", "release", "notify"} =>
       wmsg[w] <= content[windex[w]]
  /\ \A r \in Readers : NotesNewer(r)
  /\ \A r \in Readers : rpc[r] \in {"load", "cas", "reading"} =>
       told[r] <= content[rindex[r]]
  /\ NeverOlder

IInv == Typed /\ Locked /\ TornOnlyByWriter /\ Newer

(* Initially no block is locked and all are whole.                          *)
LEMMA InitIInv == ASSUME FiniteUsers PROVE Init => IInv
<1> SUFFICES ASSUME Init PROVE IInv OBVIOUS
<1> USE DEF FiniteUsers, Blocks, kRWLockFree
<1>1. Typed BY DEF Init, Typed, WriterPlaces, ReaderPlaces
<1>2. \A b \in Blocks : ReadersOf(b) = {} /\ ~Written(b)
  BY DEF Init, ReadersOf, Written, Reads, Holds
<1>3. Locked
  BY <1>2, FS_EmptySet DEF Locked, Init, Holds
<1>4. TornOnlyByWriter /\ Newer
  BY DEF TornOnlyByWriter, Newer, NotesNewer, NeverOlder, Init
<1> QED BY <1>1, <1>3, <1>4 DEF IInv

(* A step that neither takes nor gives up a block leaves the locks right.   *)
LEMMA QuietLocked ==
  ASSUME Locked, Typed, UNCHANGED lock_num_,
         \A w \in Writers : /\ Holds(w)' <=> Holds(w)
                            /\ Holds(w) => windex'[w] = windex[w],
         \A r \in Readers : /\ Reads(r)' <=> Reads(r)
                            /\ Reads(r) => rindex'[r] = rindex[r],
         \A r \in Readers : rpc'[r] = "cas" => lock_num'[r] >= 0
  PROVE  Locked'
<1>1. \A b \in Blocks : Written(b)' <=> Written(b) BY DEF Written
<1>2. \A b \in Blocks : ReadersOf(b)' = ReadersOf(b)
  <2> SUFFICES ASSUME NEW b \in Blocks PROVE ReadersOf(b)' = ReadersOf(b)
    OBVIOUS
  <2> QED BY DEF ReadersOf
<1>3. \A w, v \in Writers :
        Holds(w)' /\ Holds(v)' /\ windex'[w] = windex'[v] => w = v
  BY DEF Locked
<1> QED BY <1>1, <1>2, <1>3 DEF Locked

(* A set of readers that gains or loses one changes its size by one.        *)
LEMMA Counting ==
  ASSUME IsFiniteSet(Readers), NEW S \in SUBSET Readers, NEW r \in Readers
  PROVE  /\ Cardinality(S) \in Nat
         /\ r \notin S => Cardinality(S \union {r}) = Cardinality(S) + 1
         /\ r \in S => Cardinality(S \ {r}) = Cardinality(S) - 1
         /\ Cardinality(S) = 0 <=> S = {}
<1>1. IsFiniteSet(S) BY FS_Subset
<1>2. Cardinality(S) \in Nat BY <1>1, FS_CardinalityType
<1>3. r \notin S => Cardinality(S \union {r}) = Cardinality(S) + 1
  BY <1>1, FS_AddElement
<1>4. r \in S => Cardinality(S \ {r}) = Cardinality(S) - 1
  BY <1>1, FS_RemoveElement
<1>5. Cardinality(S) = 0 <=> S = {} BY <1>1, FS_EmptySet
<1> QED BY <1>2, <1>3, <1>4, <1>5

(* TryLockForWrite finds lock_num_ free, so there was no other user.        *)
LEMMA TakeForWrite ==
  ASSUME FiniteUsers, Typed, Locked, NEW w \in Writers, TryLockForWrite(w)
  PROVE  Locked'
<1> DEFINE b == windex[w]
<1> USE DEF FiniteUsers, kRWLockFree, kWriteExclusive
<1>1. /\ b \in Blocks /\ lock_num_[b] = 0 /\ ~Holds(w)
      /\ lock_num_' = [lock_num_ EXCEPT ![b] = -1]
      /\ wpc' = [wpc EXCEPT ![w] = "write"]
      /\ UNCHANGED <<windex, rpc, rindex, lock_num>>
  BY DEF Typed, TryLockForWrite, WriteLockFree, Holds, localVars
<1>2. ~Written(b)
  BY <1>1 DEF Locked
<1>3. ReadersOf(b) = {}
  <2>1. Cardinality(ReadersOf(b)) = 0 BY <1>1, <1>2 DEF Locked
  <2>2. ReadersOf(b) \in SUBSET Readers BY DEF ReadersOf
  <2>3. IsFiniteSet(ReadersOf(b)) BY <2>2, FS_Subset
  <2> QED BY <2>1, <2>3, FS_EmptySet
<1>4. \A c \in Blocks : ReadersOf(c)' = ReadersOf(c)
  BY <1>1 DEF ReadersOf, Reads
<1>5. \A v \in Writers : Holds(v)' <=> (v = w \/ Holds(v))
  BY <1>1 DEF Typed, Holds
<1>6. \A c \in Blocks : Written(c)' <=> (c = b \/ Written(c))
  BY <1>1, <1>5 DEF Written
<1>7. \A u, v \in Writers :
        Holds(u)' /\ Holds(v)' /\ windex'[u] = windex'[v] => u = v
  BY <1>1, <1>2, <1>5 DEF Locked, Written
<1>8. \A c \in Blocks : lock_num_'[c] = IF c = b THEN -1 ELSE lock_num_[c]
  BY <1>1 DEF Typed
<1>9. \A r \in Readers : rpc'[r] = "cas" => lock_num'[r] >= 0
  BY <1>1 DEF Locked
<1>10. \A c \in Blocks : Written(c)' => lock_num_'[c] = -1 /\ ReadersOf(c)' = {}
  BY <1>3, <1>4, <1>6, <1>8 DEF Locked
<1>11. \A c \in Blocks : ~Written(c)' => lock_num_'[c] = Cardinality(ReadersOf(c)')
  BY <1>4, <1>6, <1>8 DEF Locked
<1> HIDE DEF b
<1> QED BY <1>7, <1>9, <1>10, <1>11 DEF Locked

(* A writer that adds one to its lock_num_ leaves it free.                  *)
LEMMA ReleaseWritten ==
  ASSUME FiniteUsers, Typed, Locked, NEW w \in Writers,
         RefuseWrite(w) \/ ReleaseWrittenBlock(w)
  PROVE  Locked'
<1> DEFINE b == windex[w]
<1> USE DEF FiniteUsers
<1>1. /\ b \in Blocks /\ Holds(w)
      /\ lock_num_' = [lock_num_ EXCEPT ![b] = @ + 1]
      /\ wpc' = [wpc EXCEPT ![w] = wpc'[w]] /\ wpc'[w] \in {"idle", "notify"}
      /\ UNCHANGED <<windex, rpc, rindex, lock_num>>
  BY DEF Typed, RefuseWrite, ReleaseWrittenBlock, Holds, localVars
<1>2. Written(b) /\ lock_num_[b] = -1 /\ ReadersOf(b) = {}
  BY <1>1 DEF Locked, Written
<1>3. \A c \in Blocks : ReadersOf(c)' = ReadersOf(c)
  BY <1>1 DEF ReadersOf, Reads
<1>4. \A v \in Writers : Holds(v)' <=> (v # w /\ Holds(v))
  BY <1>1 DEF Typed, Holds
<1>5. \A c \in Blocks : Written(c)' <=> (c # b /\ Written(c))
  BY <1>1, <1>4 DEF Written, Locked
<1>6. \A c \in Blocks : lock_num_'[c] = IF c = b THEN 0 ELSE lock_num_[c]
  BY <1>1, <1>2 DEF Typed
<1>7. \A u, v \in Writers :
        Holds(u)' /\ Holds(v)' /\ windex'[u] = windex'[v] => u = v
  BY <1>1, <1>4 DEF Locked
<1>8. \A r \in Readers : rpc'[r] = "cas" => lock_num'[r] >= 0
  BY <1>1 DEF Locked
<1>9. Cardinality(ReadersOf(b)) = 0 BY <1>2, FS_EmptySet
<1>10. \A c \in Blocks : Written(c)' => lock_num_'[c] = -1 /\ ReadersOf(c)' = {}
  BY <1>3, <1>5, <1>6 DEF Locked
<1>11. \A c \in Blocks : ~Written(c)' => lock_num_'[c] = Cardinality(ReadersOf(c)')
  BY <1>3, <1>5, <1>6, <1>9 DEF Locked
<1> HIDE DEF b
<1> QED BY <1>7, <1>8, <1>10, <1>11 DEF Locked

(* A compare-exchange with a number of readers meets no writer.             *)
LEMMA TakeForRead ==
  ASSUME FiniteUsers, Typed, Locked, NEW r \in Readers, TryLockForRead(r),
         rpc'[r] = "reading"
  PROVE  Locked'
<1> DEFINE b == rindex[r]
<1> USE DEF FiniteUsers
<1>1. /\ b \in Blocks /\ ~Reads(r) /\ lock_num_[b] = lock_num[r]
      /\ lock_num_' = [lock_num_ EXCEPT ![b] = @ + 1]
      /\ rpc[r] = "cas" /\ rpc' = [rpc EXCEPT ![r] = "reading"]
      /\ UNCHANGED <<wpc, windex, rindex, lock_num>>
  BY DEF Typed, TryLockForRead, Reads, writerVars
<1>2. lock_num_[b] >= 0 BY <1>1 DEF Locked
<1>3. ~Written(b) BY <1>1, <1>2 DEF Locked
<1>4. \A c \in Blocks : Written(c)' <=> Written(c)
  BY <1>1 DEF Written, Holds
<1>5. \A q \in Readers : Reads(q)' <=> (q = r \/ Reads(q))
  BY <1>1 DEF Typed, Reads
<1>6. ReadersOf(b)' = ReadersOf(b) \union {r} /\ r \notin ReadersOf(b)
  BY <1>1, <1>5 DEF ReadersOf
<1>7. \A c \in Blocks \ {b} : ReadersOf(c)' = ReadersOf(c)
  BY <1>1, <1>5 DEF ReadersOf
<1>8. Cardinality(ReadersOf(b)') = Cardinality(ReadersOf(b)) + 1
  BY <1>6, Counting DEF ReadersOf
<1>9. /\ lock_num_'[b] = lock_num_[b] + 1
      /\ \A c \in Blocks \ {b} : lock_num_'[c] = lock_num_[c]
  BY <1>1 DEF Typed
<1>10. \A c \in Blocks : Written(c)' => lock_num_'[c] = -1 /\ ReadersOf(c)' = {}
  BY <1>3, <1>4, <1>7, <1>9 DEF Locked
<1>11. \A c \in Blocks : ~Written(c)' => lock_num_'[c] = Cardinality(ReadersOf(c)')
  BY <1>1, <1>3, <1>4, <1>7, <1>8, <1>9 DEF Locked
<1>12. \A u, v \in Writers :
         Holds(u)' /\ Holds(v)' /\ windex'[u] = windex'[v] => u = v
  BY <1>1 DEF Locked, Holds
<1>13. \A q \in Readers : rpc'[q] = "cas" => lock_num'[q] >= 0
  BY <1>1 DEF Locked, Typed
<1> HIDE DEF b
<1> QED BY <1>10, <1>11, <1>12, <1>13 DEF Locked

(* ReleaseReadBlock takes one reader, and one from lock_num_.               *)
LEMMA ReleaseRead ==
  ASSUME FiniteUsers, Typed, Locked, NEW r \in Readers, ReleaseReadBlock(r)
  PROVE  Locked'
<1> DEFINE b == rindex[r]
<1> USE DEF FiniteUsers
<1>1. /\ b \in Blocks /\ Reads(r)
      /\ lock_num_' = [lock_num_ EXCEPT ![b] = @ - 1]
      /\ rpc' = [rpc EXCEPT ![r] = "listen"]
      /\ UNCHANGED <<wpc, windex, rindex, lock_num>>
  BY DEF Typed, ReleaseReadBlock, Reads, writerVars
<1>2. r \in ReadersOf(b) BY <1>1 DEF ReadersOf
<1>3. ~Written(b) BY <1>1, <1>2 DEF Locked
<1>4. \A c \in Blocks : Written(c)' <=> Written(c)
  BY <1>1 DEF Written, Holds
<1>5. \A q \in Readers : Reads(q)' <=> (q # r /\ Reads(q))
  BY <1>1 DEF Typed, Reads
<1>6. ReadersOf(b)' = ReadersOf(b) \ {r}
  BY <1>1, <1>5 DEF ReadersOf
<1>7. \A c \in Blocks \ {b} : ReadersOf(c)' = ReadersOf(c)
  BY <1>1, <1>5 DEF ReadersOf
<1>8. Cardinality(ReadersOf(b)') = Cardinality(ReadersOf(b)) - 1
  BY <1>2, <1>6, Counting DEF ReadersOf
<1>9. /\ lock_num_'[b] = lock_num_[b] - 1
      /\ \A c \in Blocks \ {b} : lock_num_'[c] = lock_num_[c]
  BY <1>1 DEF Typed
<1>10. \A c \in Blocks : Written(c)' => lock_num_'[c] = -1 /\ ReadersOf(c)' = {}
  BY <1>3, <1>4, <1>7, <1>9 DEF Locked
<1>11. \A c \in Blocks : ~Written(c)' => lock_num_'[c] = Cardinality(ReadersOf(c)')
  BY <1>1, <1>3, <1>4, <1>7, <1>8, <1>9 DEF Locked
<1>12. \A u, v \in Writers :
         Holds(u)' /\ Holds(v)' /\ windex'[u] = windex'[v] => u = v
  BY <1>1 DEF Locked, Holds
<1>13. \A q \in Readers : rpc'[q] = "cas" => lock_num'[q] >= 0
  BY <1>1 DEF Locked, Typed
<1> HIDE DEF b
<1> QED BY <1>10, <1>11, <1>12, <1>13 DEF Locked

(* A queue of notes with one more, or with one less.                        *)
LEMMA Queues ==
  ASSUME NEW S, NEW q \in Seq(S)
  PROVE  /\ \A e \in S : Append(q, e) \in Seq(S)
         /\ q # << >> => Head(q) \in S /\ Tail(q) \in Seq(S)
OBVIOUS

(* Every step keeps the types.                                              *)
LEMMA NextTyped == ASSUME FiniteUsers, Typed, [Next]_vars PROVE Typed'
<1> USE DEF FiniteUsers, WriterPlaces, ReaderPlaces, kRWLockFree, kWriteExclusive
<1>1. CASE UNCHANGED vars BY <1>1 DEF vars, Typed
<1>2. ASSUME NEW w \in Writers, Transmit(w) PROVE Typed'
  BY <1>2 DEF Typed, Transmit, localVars, ghostVars, blockVars
<1>3. ASSUME NEW w \in Writers, TryLockForWrite(w) PROVE Typed'
  BY <1>3 DEF Typed, TryLockForWrite, localVars, ghostVars, blockVars
<1>4. ASSUME NEW w \in Writers, TryNextBlock(w) PROVE Typed'
  BY <1>4 DEF Typed, TryNextBlock, localVars, ghostVars, blockVars
<1>5. ASSUME NEW w \in Writers, RefuseWrite(w) PROVE Typed'
  BY <1>5 DEF Typed, RefuseWrite, localVars, ghostVars, blockVars
<1>6. ASSUME NEW w \in Writers, EndWrite(w) PROVE Typed'
  BY <1>6 DEF Typed, EndWrite, localVars, ghostVars, blockVars
<1>7. ASSUME NEW w \in Writers, ReleaseWrittenBlock(w) PROVE Typed'
  BY <1>7 DEF Typed, ReleaseWrittenBlock, localVars, ghostVars, blockVars
<1>8. ASSUME NEW w \in Writers, GetNextWritableBlockIndex(w) PROVE Typed'
  <2>1. seq_' \in Blocks BY <1>8 DEF GetNextWritableBlockIndex, Typed, Blocks
  <2> QED
    BY <1>8, <2>1 DEF GetNextWritableBlockIndex, Typed, localVars, ghostVars, blockVars
<1>9. ASSUME NEW w \in Writers, BeginWrite(w) PROVE Typed'
  BY <1>9 DEF Typed, BeginWrite, localVars, ghostVars
<1>10. ASSUME NEW w \in Writers, Notify(w) PROVE Typed'
  <2> DEFINE note == [index |-> windex[w], msg |-> wmsg[w]]
  <2>1. note \in Note BY <1>10 DEF Typed, Note
  <2>2. notes' = [r \in Readers |-> Append(notes[r], note)] BY <1>10 DEF Notify
  <2> HIDE DEF note
  <2>3. ASSUME NEW r \in Readers PROVE Append(notes[r], note) \in Seq(Note)
    <3>1. notes[r] \in Seq(Note) BY DEF Typed
    <3> QED BY <2>1, <3>1, Queues
  <2>4. notes' \in [Readers -> Seq(Note)] BY <2>2, <2>3
  <2> QED BY <1>10, <2>4 DEF Typed, Notify, localVars, ghostVars, blockVars
<1>11. ASSUME NEW r \in Readers, Listen(r) PROVE Typed'
  <2>1. notes[r] \in Seq(Note) /\ notes[r] # << >> BY <1>11 DEF Typed, Listen
  <2>2. Head(notes[r]) \in Note /\ Tail(notes[r]) \in Seq(Note) BY <2>1, Queues
  <2>3. Head(notes[r]).index \in Blocks /\ Head(notes[r]).msg \in Nat BY <2>2 DEF Note
  <2> QED BY <1>11, <2>2, <2>3 DEF Typed, Listen, writerVars, blockVars
<1>12. ASSUME NEW r \in Readers, LoadLockNum(r) PROVE Typed'
  BY <1>12 DEF Typed, LoadLockNum, writerVars, ghostVars, blockVars
<1>13. ASSUME NEW r \in Readers, TryLockForRead(r) PROVE Typed'
  <2>1. UNCHANGED <<writerVars, content, whole, notes, rindex, lock_num, told, seen>>
    BY <1>13 DEF TryLockForRead
  <2>2. lock_num_' = lock_num_ \/ lock_num_' = [lock_num_ EXCEPT ![rindex[r]] = @ + 1]
    BY <1>13 DEF TryLockForRead
  <2>3. lock_num_' \in [Blocks -> Int] BY <2>2 DEF Typed
  <2>4. \E p \in ReaderPlaces : rpc' = [rpc EXCEPT ![r] = p]
    BY <1>13 DEF TryLockForRead
  <2>5. rpc' \in [Readers -> ReaderPlaces] BY <2>4 DEF Typed
  <2> QED BY <2>1, <2>3, <2>5 DEF Typed, writerVars
<1>14. ASSUME NEW r \in Readers, ReleaseReadBlock(r) PROVE Typed'
  BY <1>14 DEF Typed, ReleaseReadBlock, writerVars, ghostVars, blockVars
<1>15. ASSUME NEW r \in Readers, ReadMessage(r) PROVE Typed'
  <2>1. seen' \in [Readers -> [Blocks -> Nat]] BY <1>15 DEF Typed, ReadMessage
  <2> QED BY <1>15, <2>1 DEF Typed, ReadMessage, writerVars, blockVars
<1> QED
  BY <1>1, <1>2, <1>3, <1>4, <1>5, <1>6, <1>7, <1>8, <1>9, <1>10, <1>11,
     <1>12, <1>13, <1>14, <1>15 DEF Next

(* Every step keeps the locks right.                                        *)
LEMMA NextLocked == ASSUME FiniteUsers, Typed, Locked, [Next]_vars PROVE Locked'
<1>1. CASE UNCHANGED vars
  BY <1>1, QuietLocked DEF vars, Holds, Reads, Locked
<1>2. ASSUME NEW w \in Writers,
             Transmit(w) \/ GetNextWritableBlockIndex(w) \/ TryNextBlock(w)
             \/ BeginWrite(w) \/ EndWrite(w) \/ Notify(w)
      PROVE  Locked'
  <2>1. /\ UNCHANGED <<lock_num_, rpc, rindex, lock_num>>
        /\ wpc' = [wpc EXCEPT ![w] = wpc'[w]]
        /\ wpc'[w] \in {"write", "writing", "release"}
             <=> wpc[w] \in {"write", "writing", "release"}
        /\ Holds(w) => windex' = windex
        /\ \A v \in Writers \ {w} : windex'[v] = windex[v]
    BY <1>2 DEF Typed, Holds, Transmit, GetNextWritableBlockIndex, TryNextBlock,
                BeginWrite, EndWrite, Notify, blockVars, localVars
  <2>2. \A v \in Writers : /\ Holds(v)' <=> Holds(v)
                           /\ Holds(v) => windex'[v] = windex[v]
    BY <2>1 DEF Typed, Holds
  <2>3. \A r \in Readers : Reads(r)' <=> Reads(r) BY <2>1 DEF Reads
  <2> QED BY <2>1, <2>2, <2>3, QuietLocked DEF Locked
<1>3. ASSUME NEW r \in Readers,
             Listen(r) \/ LoadLockNum(r) \/ ReadMessage(r)
             \/ (TryLockForRead(r) /\ rpc'[r] # "reading")
      PROVE  Locked'
  <2>1. /\ UNCHANGED <<lock_num_, wpc, windex>>
        /\ rpc' = [rpc EXCEPT ![r] = rpc'[r]]
        /\ rpc'[r] \in {"reading", "release"} <=> rpc[r] \in {"reading", "release"}
        /\ Reads(r) => rindex' = rindex
        /\ \A q \in Readers \ {r} : rindex'[q] = rindex[q] /\ lock_num'[q] = lock_num[q]
        /\ rpc'[r] = "cas" => lock_num'[r] >= 0
    <3>1. CASE Listen(r) BY <3>1 DEF Typed, Reads, Listen, blockVars, writerVars
    <3>2. CASE LoadLockNum(r)
      BY <3>2 DEF Typed, Reads, LoadLockNum, blockVars, writerVars, kRWLockFree
    <3>3. CASE ReadMessage(r) BY <3>3 DEF Typed, Reads, ReadMessage, blockVars, writerVars
    <3>4. CASE TryLockForRead(r) /\ rpc'[r] # "reading"
      BY <3>4 DEF Typed, Reads, TryLockForRead, writerVars
    <3> QED BY <1>3, <3>1, <3>2, <3>3, <3>4
  <2>2. \A q \in Readers : /\ Reads(q)' <=> Reads(q)
                           /\ Reads(q) => rindex'[q] = rindex[q]
    BY <2>1 DEF Typed, Reads
  <2>3. \A w \in Writers : Holds(w)' <=> Holds(w) BY <2>1 DEF Holds
  <2>4. \A q \in Readers : rpc'[q] = "cas" => lock_num'[q] >= 0
    BY <2>1 DEF Typed, Locked
  <2> QED BY <2>1, <2>2, <2>3, <2>4, QuietLocked
<1> QED BY <1>1, <1>2, <1>3, TakeForWrite, ReleaseWritten, TakeForRead, ReleaseRead
        DEF Next

(* Only BeginWrite tears a block, and the writer mends it before it goes.   *)
LEMMA NextTorn ==
  ASSUME Typed, Locked, TornOnlyByWriter, [Next]_vars
  PROVE  TornOnlyByWriter'
<1>1. CASE UNCHANGED vars BY <1>1 DEF vars, TornOnlyByWriter
<1>2. ASSUME NEW w \in Writers, BeginWrite(w) PROVE TornOnlyByWriter'
  <2>1. /\ windex' = windex /\ wpc' = [wpc EXCEPT ![w] = "writing"]
        /\ \A b \in Blocks : whole'[b] = IF b = windex[w] THEN FALSE ELSE whole[b]
    BY <1>2 DEF BeginWrite, Typed
  <2> QED BY <2>1 DEF Typed, TornOnlyByWriter
<1>3. ASSUME NEW w \in Writers, EndWrite(w) PROVE TornOnlyByWriter'
  <2>1. /\ windex' = windex /\ wpc' = [wpc EXCEPT ![w] = "release"]
        /\ \A b \in Blocks : whole'[b] = IF b = windex[w] THEN TRUE ELSE whole[b]
    BY <1>3 DEF EndWrite, Typed
  <2> QED BY <2>1, ZenonT(60) DEF Typed, TornOnlyByWriter
<1>4. ASSUME NEW w \in Writers,
             Transmit(w) \/ GetNextWritableBlockIndex(w) \/ TryLockForWrite(w)
             \/ TryNextBlock(w) \/ RefuseWrite(w) \/ ReleaseWrittenBlock(w) \/ Notify(w)
      PROVE  TornOnlyByWriter'
  <2>1. /\ whole' = whole /\ wpc[w] # "writing"
        /\ \A v \in Writers \ {w} : wpc'[v] = wpc[v] /\ windex'[v] = windex[v]
    BY <1>4 DEF Typed, Transmit, GetNextWritableBlockIndex, TryLockForWrite,
                TryNextBlock, RefuseWrite, ReleaseWrittenBlock, Notify, blockVars
  <2> QED BY <2>1 DEF TornOnlyByWriter
<1>5. ASSUME NEW r \in Readers,
             Listen(r) \/ LoadLockNum(r) \/ TryLockForRead(r) \/ ReadMessage(r)
             \/ ReleaseReadBlock(r)
      PROVE  TornOnlyByWriter'
  BY <1>5 DEF TornOnlyByWriter, Listen, LoadLockNum, TryLockForRead, ReadMessage,
              ReleaseReadBlock, writerVars, blockVars
<1> QED BY <1>1, <1>2, <1>3, <1>4, <1>5 DEF Next

(* The places of a longer and of a shorter queue.                           *)
LEMMA QueuePlaces ==
  ASSUME NEW S, NEW q \in Seq(S)
  PROVE  /\ \A e \in S : \A i \in 1 .. Len(Append(q, e)) :
              \/ i \in 1 .. Len(q) /\ Append(q, e)[i] = q[i]
              \/ Append(q, e)[i] = e
         /\ q # << >> => /\ 1 \in 1 .. Len(q) /\ Head(q) = q[1]
                         /\ \A i \in 1 .. Len(Tail(q)) :
                              i + 1 \in 1 .. Len(q) /\ Tail(q)[i] = q[i + 1]
OBVIOUS

(* No step makes a block older.                                             *)
LEMMA ContentGrows ==
  ASSUME Typed, Newer, [Next]_vars
  PROVE  \A b \in Blocks : content[b] <= content'[b] /\ content'[b] <= made'
<1>1. ASSUME NEW w \in Writers, BeginWrite(w)
      PROVE  \A b \in Blocks : content[b] <= content'[b] /\ content'[b] <= made'
  <2>1. /\ made' = made + 1 /\ made \in Nat
        /\ \A b \in Blocks : content'[b] = IF b = windex[w] THEN made + 1 ELSE content[b]
        /\ \A b \in Blocks : content[b] \in Nat /\ content[b] <= made
    BY <1>1 DEF BeginWrite, Typed, Newer
  <2> QED BY <2>1
<1>2. ASSUME content' = content, made' = made
      PROVE  \A b \in Blocks : content[b] <= content'[b] /\ content'[b] <= made'
  BY <1>2 DEF Typed, Newer
<1>3. ASSUME NEW w \in Writers,
             Transmit(w) \/ GetNextWritableBlockIndex(w) \/ TryLockForWrite(w)
             \/ TryNextBlock(w) \/ RefuseWrite(w) \/ EndWrite(w)
             \/ ReleaseWrittenBlock(w) \/ Notify(w)
      PROVE  content' = content /\ made' = made
  BY <1>3 DEF Transmit, GetNextWritableBlockIndex, TryLockForWrite, TryNextBlock,
              RefuseWrite, EndWrite, ReleaseWrittenBlock, Notify, blockVars
<1>4. ASSUME NEW r \in Readers,
             Listen(r) \/ LoadLockNum(r) \/ TryLockForRead(r) \/ ReadMessage(r)
             \/ ReleaseReadBlock(r)
      PROVE  content' = content /\ made' = made
  BY <1>4 DEF Listen, LoadLockNum, TryLockForRead, ReadMessage, ReleaseReadBlock,
              blockVars, writerVars
<1>5. CASE UNCHANGED vars BY <1>2, <1>5 DEF vars
<1> QED BY <1>1, <1>2, <1>3, <1>4, <1>5 DEF Next

(* What a writer is about to tell stays true of its block.                  *)
LEMMA WritersNewer ==
  ASSUME Typed, Typed', Newer, [Next]_vars,
         NEW v \in Writers, wpc'[v] \in {"writing", "release", "notify"}
  PROVE  wmsg'[v] <= content'[windex'[v]]
<1>1. CASE BeginWrite(v)
  BY <1>1 DEF BeginWrite, Typed
<1>2. ASSUME wpc[v] \in {"writing", "release", "notify"},
             wmsg'[v] = wmsg[v], windex'[v] = windex[v]
      PROVE  wmsg'[v] <= content'[windex'[v]]
  <2>1. /\ wmsg[v] \in Nat /\ windex[v] \in Blocks
        /\ content[windex[v]] \in Nat /\ content'[windex[v]] \in Nat
    BY DEF Typed
  <2>2. wmsg[v] <= content[windex[v]] BY <1>2 DEF Newer
  <2>3. content[windex[v]] <= content'[windex[v]] BY <2>1, ContentGrows
  <2> QED BY <1>2, <2>1, <2>2, <2>3
<1>3. ASSUME NEW w \in Writers, w # v,
             Transmit(w) \/ GetNextWritableBlockIndex(w) \/ TryLockForWrite(w)
             \/ TryNextBlock(w) \/ BeginWrite(w) \/ RefuseWrite(w) \/ EndWrite(w)
             \/ ReleaseWrittenBlock(w) \/ Notify(w)
      PROVE  wpc'[v] = wpc[v] /\ wmsg'[v] = wmsg[v] /\ windex'[v] = windex[v]
  BY <1>3, ZenonT(60) DEF Typed, Transmit, GetNextWritableBlockIndex, TryLockForWrite,
              TryNextBlock, BeginWrite, RefuseWrite, EndWrite, ReleaseWrittenBlock,
              Notify
<1>4. ASSUME Transmit(v) \/ GetNextWritableBlockIndex(v) \/ TryLockForWrite(v)
             \/ TryNextBlock(v) \/ RefuseWrite(v) \/ Notify(v)
      PROVE  FALSE
  BY <1>4, ZenonT(60) DEF Typed, Transmit, GetNextWritableBlockIndex, TryLockForWrite,
              TryNextBlock, RefuseWrite, Notify
<1>5. ASSUME EndWrite(v) \/ ReleaseWrittenBlock(v)
      PROVE  /\ wpc[v] \in {"writing", "release", "notify"}
             /\ wmsg'[v] = wmsg[v] /\ windex'[v] = windex[v]
  BY <1>5 DEF EndWrite, ReleaseWrittenBlock
<1>6. ASSUME NEW r \in Readers,
             Listen(r) \/ LoadLockNum(r) \/ TryLockForRead(r) \/ ReadMessage(r)
             \/ ReleaseReadBlock(r)
      PROVE  UNCHANGED <<wpc, wmsg, windex>>
  BY <1>6 DEF Listen, LoadLockNum, TryLockForRead, ReadMessage, ReleaseReadBlock,
              writerVars
<1>7. CASE UNCHANGED vars BY <1>2, <1>7 DEF vars
<1> QED BY <1>1, <1>2, <1>3, <1>4, <1>5, <1>6, <1>7 DEF Next

(* What waits for a reader stays true of the blocks: Notify adds what its    *)
(* writer knows, Listen takes one away.                                      *)
LEMMA QueuesNewer ==
  ASSUME Typed, Typed', Newer, [Next]_vars, NEW r \in Readers
  PROVE  NotesNewer(r)'
<1>1. notes[r] \in Seq(Note) BY DEF Typed
<1>2. \A e \in Note : e.msg <= content[e.index] => e.msg <= content'[e.index]
  <2> SUFFICES ASSUME NEW e \in Note, e.msg <= content[e.index]
               PROVE  e.msg <= content'[e.index]
    OBVIOUS
  <2>1. /\ e.msg \in Nat /\ e.index \in Blocks
        /\ content[e.index] \in Nat /\ content'[e.index] \in Nat
    BY DEF Note, Typed
  <2>2. content[e.index] <= content'[e.index] BY <2>1, ContentGrows
  <2> QED BY <2>1, <2>2
<1>3. \A i \in 1 .. Len(notes[r]) :
        notes[r][i] \in Note /\ notes[r][i].msg <= content'[notes[r][i].index]
  <2>1. \A i \in 1 .. Len(notes[r]) : notes[r][i] \in Note BY <1>1
  <2> QED BY <1>2, <2>1 DEF Newer, NotesNewer
<1>4. CASE notes'[r] = notes[r] BY <1>3, <1>4 DEF NotesNewer
<1>5. ASSUME NEW w \in Writers, Notify(w) PROVE NotesNewer(r)'
  <2> DEFINE note == [index |-> windex[w], msg |-> wmsg[w]]
  <2>1. note \in Note BY DEF Typed, Note
  <2>2. note.msg <= content[note.index] BY <1>5 DEF Newer, Notify
  <2>3. notes'[r] = Append(notes[r], note) BY <1>5 DEF Notify
  <2> HIDE DEF note
  <2>4. note.msg <= content'[note.index] BY <1>2, <2>1, <2>2
  <2>5. \A i \in 1 .. Len(Append(notes[r], note)) :
          \/ i \in 1 .. Len(notes[r]) /\ Append(notes[r], note)[i] = notes[r][i]
          \/ Append(notes[r], note)[i] = note
    BY <1>1, <2>1, QueuePlaces
  <2>6. \A i \in 1 .. Len(notes'[r]) : notes'[r][i].msg <= content'[notes'[r][i].index]
    BY <1>3, <2>3, <2>4, <2>5
  <2> QED BY <2>6 DEF NotesNewer
<1>6. ASSUME Listen(r) PROVE NotesNewer(r)'
  <2>1. notes[r] # << >> /\ notes'[r] = Tail(notes[r]) BY <1>6 DEF Listen, Typed
  <2>2. \A i \in 1 .. Len(Tail(notes[r])) :
          i + 1 \in 1 .. Len(notes[r]) /\ Tail(notes[r])[i] = notes[r][i + 1]
    BY <1>1, <2>1, QueuePlaces
  <2>3. \A i \in 1 .. Len(notes'[r]) : notes'[r][i].msg <= content'[notes'[r][i].index]
    BY <1>3, <2>1, <2>2
  <2> QED BY <2>3 DEF NotesNewer
<1>7. ASSUME NEW w \in Writers,
             Transmit(w) \/ GetNextWritableBlockIndex(w) \/ TryLockForWrite(w)
             \/ TryNextBlock(w) \/ BeginWrite(w) \/ RefuseWrite(w) \/ EndWrite(w)
             \/ ReleaseWrittenBlock(w)
      PROVE  notes' = notes
  BY <1>7 DEF Transmit, GetNextWritableBlockIndex, TryLockForWrite, TryNextBlock,
              BeginWrite, RefuseWrite, EndWrite, ReleaseWrittenBlock
<1>8. ASSUME NEW q \in Readers,
             LoadLockNum(q) \/ TryLockForRead(q) \/ ReadMessage(q) \/ ReleaseReadBlock(q)
      PROVE  notes' = notes
  BY <1>8 DEF LoadLockNum, TryLockForRead, ReadMessage, ReleaseReadBlock
<1>9. ASSUME NEW q \in Readers, q # r, Listen(q) PROVE notes'[r] = notes[r]
  BY <1>9 DEF Listen, Typed
<1>10. CASE UNCHANGED vars BY <1>4, <1>10 DEF vars
<1> QED BY <1>4, <1>5, <1>6, <1>7, <1>8, <1>9, <1>10 DEF Next

(* What a reader was told stays true of the block it turns to, and of what   *)
(* it has read there.                                                        *)
LEMMA ReadersNewer ==
  ASSUME Typed, Typed', Newer, [Next]_vars, NEW r \in Readers
  PROVE  /\ rpc'[r] \in {"load", "cas", "reading"} => told'[r] <= content'[rindex'[r]]
         /\ rpc'[r] = "release" => seen'[r][rindex'[r]] >= told'[r]
<1> DEFINE Goal ==
      /\ rpc'[r] \in {"load", "cas", "reading"} => told'[r] <= content'[rindex'[r]]
      /\ rpc'[r] = "release" => seen'[r][rindex'[r]] >= told'[r]
<1>0. /\ told[r] \in Nat /\ rindex[r] \in Blocks
      /\ content[rindex[r]] \in Nat /\ content'[rindex[r]] \in Nat
      /\ content[rindex[r]] <= content'[rindex[r]]
  BY ContentGrows, ZenonT(60) DEF Typed
<1>1. ASSUME told'[r] = told[r], rindex'[r] = rindex[r], seen'[r] = seen[r],
             \/ rpc'[r] = rpc[r] \/ rpc'[r] = "listen"
             \/ /\ rpc[r] \in {"load", "cas", "reading"}
                /\ rpc'[r] \in {"load", "cas", "reading"}
      PROVE  Goal
  BY <1>0, <1>1 DEF Newer, NeverOlder
<1>2. ASSUME Listen(r) PROVE Goal
  <2>1. notes[r] \in Seq(Note) /\ notes[r] # << >> BY <1>2 DEF Typed, Listen
  <2>2. 1 \in 1 .. Len(notes[r]) /\ Head(notes[r]) = notes[r][1]
    BY <2>1, QueuePlaces
  <2>3. notes[r][1].msg <= content[notes[r][1].index]
    BY <2>2 DEF Newer, NotesNewer
  <2>4. /\ told'[r] = Head(notes[r]).msg /\ rindex'[r] = Head(notes[r]).index
        /\ content' = content /\ rpc'[r] = "load"
    BY <1>2 DEF Listen, Typed, blockVars
  <2> QED BY <2>2, <2>3, <2>4
<1>3. ASSUME ReadMessage(r) PROVE Goal
  <2>1. /\ told'[r] = told[r] /\ rindex'[r] = rindex[r] /\ rpc'[r] = "release"
        /\ seen'[r][rindex[r]] = content[rindex[r]] /\ rpc[r] = "reading"
    BY <1>3 DEF ReadMessage, Typed
  <2>2. told[r] <= content[rindex[r]] BY <2>1 DEF Newer
  <2> QED BY <1>0, <2>1, <2>2
<1>4. ASSUME LoadLockNum(r) \/ TryLockForRead(r) \/ ReleaseReadBlock(r)
      PROVE  /\ told'[r] = told[r] /\ rindex'[r] = rindex[r] /\ seen'[r] = seen[r]
             /\ \/ rpc'[r] = "listen"
                \/ /\ rpc[r] \in {"load", "cas", "reading"}
                   /\ rpc'[r] \in {"load", "cas", "reading"}
  BY <1>4, ZenonT(60) DEF LoadLockNum, TryLockForRead, ReleaseReadBlock, Typed, ghostVars
<1>5. ASSUME NEW q \in Readers, q # r,
             Listen(q) \/ LoadLockNum(q) \/ TryLockForRead(q) \/ ReadMessage(q)
             \/ ReleaseReadBlock(q)
      PROVE  /\ told'[r] = told[r] /\ rindex'[r] = rindex[r] /\ seen'[r] = seen[r]
             /\ rpc'[r] = rpc[r]
  BY <1>5, ZenonT(60) DEF Listen, LoadLockNum, TryLockForRead, ReadMessage,
              ReleaseReadBlock, Typed, ghostVars
<1>6. ASSUME NEW w \in Writers,
             Transmit(w) \/ GetNextWritableBlockIndex(w) \/ TryLockForWrite(w)
             \/ TryNextBlock(w) \/ BeginWrite(w) \/ RefuseWrite(w) \/ EndWrite(w)
             \/ ReleaseWrittenBlock(w) \/ Notify(w)
      PROVE  UNCHANGED <<told, rindex, seen, rpc>>
  BY <1>6 DEF Transmit, GetNextWritableBlockIndex, TryLockForWrite, TryNextBlock,
              BeginWrite, RefuseWrite, EndWrite, ReleaseWrittenBlock, Notify,
              localVars, ghostVars
<1>7. ASSUME UNCHANGED vars PROVE Goal BY <1>1, <1>7 DEF vars
<1> HIDE DEF Goal
<1>8. ASSUME NEW w \in Writers,
             Transmit(w) \/ GetNextWritableBlockIndex(w) \/ TryLockForWrite(w)
             \/ TryNextBlock(w) \/ BeginWrite(w) \/ RefuseWrite(w) \/ EndWrite(w)
             \/ ReleaseWrittenBlock(w) \/ Notify(w)
      PROVE  Goal
  BY <1>1, <1>6, <1>8
<1>9. ASSUME NEW q \in Readers,
             Listen(q) \/ LoadLockNum(q) \/ TryLockForRead(q) \/ ReadMessage(q)
             \/ ReleaseReadBlock(q)
      PROVE  Goal
  <2>1. CASE q = r BY <1>1, <1>2, <1>3, <1>4, <1>9, <2>1
  <2>2. CASE q # r BY <1>1, <1>5, <1>9, <2>2
  <2> QED BY <2>1, <2>2
<1>10. Goal BY <1>7, <1>8, <1>9 DEF Next
<1> QED BY <1>10 DEF Goal

(* The four together are inductive.                                         *)
LEMMA NextIInv == ASSUME FiniteUsers, IInv, [Next]_vars PROVE IInv'
<1>1. Typed' BY NextTyped DEF IInv
<1>2. Locked' BY NextLocked DEF IInv
<1>3. TornOnlyByWriter' BY NextTorn DEF IInv
<1>4. Newer'
  <2>1. \A b \in Blocks : content'[b] <= made' BY ContentGrows DEF IInv
  <2>2. \A w \in Writers : wpc'[w] \in {"writing", "release", "notify"} =>
          wmsg'[w] <= content'[windex'[w]]
    BY <1>1, WritersNewer DEF IInv
  <2>3. \A r \in Readers : NotesNewer(r)' BY <1>1, QueuesNewer DEF IInv
  <2>4. \A r \in Readers :
          /\ rpc'[r] \in {"load", "cas", "reading"} => told'[r] <= content'[rindex'[r]]
          /\ rpc'[r] = "release" => seen'[r][rindex'[r]] >= told'[r]
    BY <1>1, ReadersNewer DEF IInv
  <2> QED BY <2>1, <2>2, <2>3, <2>4 DEF Newer, NeverOlder
<1> QED BY <1>1, <1>2, <1>3, <1>4 DEF IInv

(* However many writers, readers and blocks, a reader that has locked a block *)
(* finds it whole and shares it with no writer (block.cc's TryLockForRead and  *)
(* TryLockForWrite).                                                           *)
THEOREM NoTornReadHolds == ASSUME FiniteUsers PROVE Spec => []NoTornRead
<1>1. ASSUME IInv PROVE NoTornRead
  <2> SUFFICES ASSUME NEW r \in Readers, Reads(r)
               PROVE  /\ whole[rindex[r]]
                      /\ \A w \in Writers : Holds(w) => windex[w] # rindex[r]
    BY DEF NoTornRead
  <2>1. rindex[r] \in Blocks /\ r \in ReadersOf(rindex[r])
    BY <1>1 DEF IInv, Typed, ReadersOf
  <2>2. ~Written(rindex[r]) BY <1>1, <2>1 DEF IInv, Locked
  <2>3. \A w \in Writers : Holds(w) => windex[w] # rindex[r] BY <2>2 DEF Written
  <2>4. whole[rindex[r]] BY <1>1, <2>1, <2>3 DEF IInv, TornOnlyByWriter, Holds
  <2> QED BY <2>3, <2>4
<1> QED BY <1>1, InitIInv, NextIInv, PTL DEF Spec

(* A note carries only the index of a block: by the time its reader gets      *)
(* there the block holds that message or a later one, never an earlier one    *)
(* (ShmTransmitter::Transmit, ShmDispatcher::ReadMessage).                    *)
THEOREM NeverOlderHolds == ASSUME FiniteUsers PROVE Spec => []NeverOlder
<1>1. IInv => NeverOlder BY DEF IInv, Newer
<1> QED BY <1>1, InitIInv, NextIInv, PTL DEF Spec

(* lock_num_ of every block counts its holders, so that a block that all have *)
(* left can always be taken again (block.cc's four lock functions).           *)
THEOREM LockCountsHolds == ASSUME FiniteUsers PROVE Spec => []LockCounts
<1>1. ASSUME IInv PROVE LockCounts
  <2> SUFFICES ASSUME NEW b \in Blocks
               PROVE  LET writers == {w \in Writers : Holds(w) /\ windex[w] = b}
                          readers == {r \in Readers : Reads(r) /\ rindex[r] = b}
                      IN  /\ Cardinality(writers) <= 1
                          /\ lock_num_[b] = Cardinality(readers) - Cardinality(writers)
    BY DEF LockCounts
  <2> DEFINE writers == {w \in Writers : Holds(w) /\ windex[w] = b}
  <2> SUFFICES /\ Cardinality(writers) <= 1
               /\ lock_num_[b] = Cardinality(ReadersOf(b)) - Cardinality(writers)
    BY DEF ReadersOf
  <2>1. CASE Written(b)
    <3>1. PICK w \in Writers : Holds(w) /\ windex[w] = b BY <2>1 DEF Written
    <3>2. writers = {w} BY <1>1, <3>1 DEF IInv, Locked
    <3>3. Cardinality(writers) = 1 BY <3>2, FS_Singleton
    <3>4. lock_num_[b] = -1 /\ ReadersOf(b) = {} BY <1>1, <2>1 DEF IInv, Locked
    <3>5. Cardinality(ReadersOf(b)) = 0 BY <3>4, FS_EmptySet
    <3> HIDE DEF writers
    <3> QED BY <3>3, <3>4, <3>5
  <2>2. CASE ~Written(b)
    <3>1. writers = {} BY <2>2 DEF Written
    <3>2. Cardinality(writers) = 0 BY <3>1, FS_EmptySet
    <3>3. lock_num_[b] = Cardinality(ReadersOf(b)) BY <1>1, <2>2 DEF IInv, Locked
    <3>4. lock_num_[b] \in Int BY <1>1 DEF IInv, Typed
    <3> HIDE DEF writers
    <3> QED BY <3>2, <3>3, <3>4
  <2> QED BY <2>1, <2>2
<1> QED BY <1>1, InitIInv, NextIInv, PTL DEF Spec
=============================================================================
