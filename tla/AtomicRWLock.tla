---------------------------- MODULE AtomicRWLock ----------------------------
(***************************************************************************)
(* The spinning readers-writer lock of src/cyber/base/atomic_rw_lock.h, the *)
(* lock around every map of the framework (id_cr_, run queues, listeners).  *)
(* Each atomic load, compare-exchange and fetch_add is a step of its own.   *)
(* compare_exchange_weak may fail although the value matches.               *)
(***************************************************************************)
EXTENDS Integers, FiniteSets, FiniteSetTheorems, TLAPS

CONSTANTS Thread,        \* the threads that use the lock
          write_first_   \* the constructor's argument

ASSUME ThreadFinite == IsFiniteSet(Thread)
ASSUME WriteFirstIsBoolean == write_first_ \in BOOLEAN

RW_LOCK_FREE == 0
WRITE_EXCLUSIVE == -1

VARIABLES lock_num_,             \* -1, or the number of readers inside
          write_lock_wait_num_,  \* writers between their two counter updates
          lock_num,              \* each reader's local copy of lock_num_
          pc                     \* where each thread is

vars == <<lock_num_, write_lock_wait_num_, lock_num, pc>>

Locations == {"idle", "r_load", "r_test", "r_cas", "reading",
              "w_cas", "w_dec", "writing"}

Init ==
  /\ lock_num_ = RW_LOCK_FREE
  /\ write_lock_wait_num_ = 0
  /\ lock_num = [t \in Thread |-> 0]
  /\ pc = [t \in Thread |-> "idle"]

Go(t, from, to) == pc[t] = from /\ pc' = [pc EXCEPT ![t] = to]

\* ReadLock is entered.
ReadLock(t) ==
  /\ Go(t, "idle", "r_load")
  /\ UNCHANGED <<lock_num_, write_lock_wait_num_, lock_num>>

\* The load before the loop, and the one at the end of the waiting loop.
ReadLoad(t) ==
  /\ Go(t, "r_load", "r_test")
  /\ lock_num' = [lock_num EXCEPT ![t] = lock_num_]
  /\ UNCHANGED <<lock_num_, write_lock_wait_num_>>

MustWait_IgnoresWriters(t) == lock_num[t] < RW_LOCK_FREE

MustWait_OnlyWriters(t) == write_first_ /\ write_lock_wait_num_ > 0

\* The condition of the waiting loop, in either branch.
MustWait(t) ==
  \/ lock_num[t] < RW_LOCK_FREE
  \/ write_first_ /\ write_lock_wait_num_ > 0

ReadTest(t) ==
  /\ Go(t, "r_test", IF MustWait(t) THEN "r_load" ELSE "r_cas")
  /\ UNCHANGED <<lock_num_, write_lock_wait_num_, lock_num>>

ReadCasSucceeds(t) ==
  /\ Go(t, "r_cas", "reading")
  /\ lock_num_ = lock_num[t]
  /\ lock_num_' = lock_num[t] + 1
  /\ UNCHANGED <<write_lock_wait_num_, lock_num>>

\* A failed compare-exchange, spurious or not, reloads the expected value.
ReadCasFails(t) ==
  /\ Go(t, "r_cas", "r_test")
  /\ lock_num' = [lock_num EXCEPT ![t] = lock_num_]
  /\ UNCHANGED <<lock_num_, write_lock_wait_num_>>

ReadUnlock(t) ==
  /\ Go(t, "reading", "idle")
  /\ lock_num_' = lock_num_ - 1
  /\ UNCHANGED <<write_lock_wait_num_, lock_num>>

WriteLock(t) ==
  /\ Go(t, "idle", "w_cas")
  /\ write_lock_wait_num_' = write_lock_wait_num_ + 1
  /\ UNCHANGED <<lock_num_, lock_num>>

WriteCas_AnyReader(t) ==
  /\ Go(t, "w_cas", "w_dec")
  /\ lock_num_ # WRITE_EXCLUSIVE
  /\ lock_num_' = WRITE_EXCLUSIVE
  /\ UNCHANGED <<write_lock_wait_num_, lock_num>>

\* A failing compare-exchange leaves everything as it was: a stuttering step.
WriteCas(t) ==
  /\ Go(t, "w_cas", "w_dec")
  /\ lock_num_ = RW_LOCK_FREE
  /\ lock_num_' = WRITE_EXCLUSIVE
  /\ UNCHANGED <<write_lock_wait_num_, lock_num>>

WriteDone(t) ==
  /\ Go(t, "w_dec", "writing")
  /\ write_lock_wait_num_' = write_lock_wait_num_ - 1
  /\ UNCHANGED <<lock_num_, lock_num>>

WriteUnlock_Twice(t) ==
  /\ Go(t, "writing", "idle")
  /\ lock_num_' = lock_num_ + 2
  /\ UNCHANGED <<write_lock_wait_num_, lock_num>>

WriteUnlock(t) ==
  /\ Go(t, "writing", "idle")
  /\ lock_num_' = lock_num_ + 1
  /\ UNCHANGED <<write_lock_wait_num_, lock_num>>

\* The steps a thread takes once it has called the lock.
Step(t) ==
  \/ ReadLoad(t) \/ ReadTest(t) \/ ReadCasSucceeds(t) \/ ReadCasFails(t)
  \/ ReadUnlock(t)
  \/ WriteCas(t) \/ WriteDone(t) \/ WriteUnlock(t)

Next == \E t \in Thread : ReadLock(t) \/ WriteLock(t) \/ Step(t)

Spec == Init /\ [][Next]_vars

(***************************************************************************)
(* The operating system keeps running every thread that is inside the lock  *)
(* code, and every critical section ends (a guard is a scope); no thread    *)
(* has to ask for the lock.                                                 *)
(***************************************************************************)
FairSpec == Spec /\ \A t \in Thread : WF_vars(Step(t))
-----------------------------------------------------------------------------
Readers == {t \in Thread : pc[t] = "reading"}
Writers == {t \in Thread : pc[t] \in {"w_dec", "writing"}}
Waiting == {t \in Thread : pc[t] \in {"w_cas", "w_dec"}}

TypeOK ==
  /\ lock_num_ \in -1 .. Cardinality(Thread)
  /\ write_lock_wait_num_ \in 0 .. Cardinality(Thread)
  /\ lock_num \in [Thread -> -1 .. Cardinality(Thread)]
  /\ pc \in [Thread -> Locations]

(***************************************************************************)
(* While a thread is inside its WriteLockGuard no other thread is inside    *)
(* any guard of the same lock, whatever the interleaving of the loads and   *)
(* compare-exchanges of ReadLock and WriteLock.                             *)
(***************************************************************************)
Exclusion ==
  \A w \in Writers : Readers = {} /\ Writers = {w}

(***************************************************************************)
(* The counters tell the truth: lock_num_ is WRITE_EXCLUSIVE exactly while  *)
(* a writer is inside, and otherwise counts the readers inside;             *)
(* write_lock_wait_num_ counts the writers between their two updates of it, *)
(* so neither ever drifts and locks everyone out.                           *)
(***************************************************************************)
CountersExact ==
  /\ lock_num_ = IF Writers = {} THEN Cardinality(Readers) ELSE WRITE_EXCLUSIVE
  /\ write_lock_wait_num_ = Cardinality(Waiting)

(***************************************************************************)
(* With write_first_ a waiting writer keeps new readers out (ReadLock's     *)
(* second loop condition), so some waiting writer always gets in however    *)
(* often the readers come back.                                             *)
(***************************************************************************)
WriterProgress ==
  write_first_ =>
    ((\E t \in Thread : pc[t] = "w_cas") ~> (\E t \in Thread : pc[t] = "w_dec"))

(***************************************************************************)
(* The lock implements the readers-writer lock its users rely on.           *)
(***************************************************************************)
Abstract == INSTANCE RWLockSpec WITH readers <- Readers, writers <- Writers
ImplementsRWLock == Abstract!Spec

-----------------------------------------------------------------------------
(***************************************************************************)
(* Mutual exclusion of AtomicRWLock for any finite set of threads and for   *)
(* both values of write_first_.                                             *)
(*                                                                          *)
(* Exclusion is not inductive: a reader's compare-exchange only excludes a  *)
(* writer because lock_num_ is WRITE_EXCLUSIVE while one is inside, and     *)
(* because a reader at the compare-exchange holds a non-negative copy.  The *)
(* invariant is therefore CountersExact, CasCopyNonNegative and Exclusion   *)
(* together.                                                                *)
(***************************************************************************)

(* The waiting loop of ReadLock lets no negative copy reach the             *)
(* compare-exchange.                                                        *)
CasCopyNonNegative == \A t \in Thread : pc[t] = "r_cas" => lock_num[t] >= 0

Typed ==
  /\ lock_num_ \in Int
  /\ write_lock_wait_num_ \in Int
  /\ lock_num \in [Thread -> Int]
  /\ pc \in [Thread -> Locations]

IInv == Typed /\ CountersExact /\ CasCopyNonNegative /\ Exclusion

(* A set of threads that gains or loses one thread changes its cardinality  *)
(* by one; lock_num_ and write_lock_wait_num_ follow such sets.             *)
LEMMA Counting ==
  ASSUME NEW S \in SUBSET Thread, NEW t \in Thread
  PROVE  /\ Cardinality(S) \in Nat
         /\ t \notin S => Cardinality(S \union {t}) = Cardinality(S) + 1
         /\ t \in S => Cardinality(S \ {t}) = Cardinality(S) - 1
         /\ Cardinality(S) = 0 <=> S = {}
         /\ Cardinality(S) <= Cardinality(Thread)
<1>1. IsFiniteSet(S) BY FS_Subset, ThreadFinite
<1>2. Cardinality(S) \in Nat BY <1>1, FS_CardinalityType
<1>3. t \notin S => Cardinality(S \union {t}) = Cardinality(S) + 1
  BY <1>1, FS_AddElement
<1>4. t \in S => Cardinality(S \ {t}) = Cardinality(S) - 1
  BY <1>1, FS_RemoveElement
<1>5. Cardinality(S) = 0 <=> S = {} BY <1>1, FS_EmptySet
<1>6. Cardinality(S) <= Cardinality(Thread) BY FS_Subset, ThreadFinite
<1> QED BY <1>2, <1>3, <1>4, <1>5, <1>6

(* Initially nobody is inside and all counters are zero.                    *)
LEMMA InitIInv == Init => IInv
<1> SUFFICES ASSUME Init PROVE IInv OBVIOUS
<1>1. Typed BY DEF Init, Typed, Locations, RW_LOCK_FREE
<1>2. Readers = {} /\ Writers = {} /\ Waiting = {}
  BY DEF Init, Readers, Writers, Waiting
<1>3. CountersExact
  BY <1>2, FS_EmptySet DEF CountersExact, Init, RW_LOCK_FREE
<1>4. CasCopyNonNegative /\ Exclusion
  BY <1>2 DEF CasCopyNonNegative, Exclusion, Init
<1> QED BY <1>1, <1>3, <1>4 DEF IInv

(* Every step of every thread preserves the invariant.                      *)
LEMMA NextIInv == IInv /\ [Next]_vars => IInv'
<1> USE DEF RW_LOCK_FREE, WRITE_EXCLUSIVE
<1> SUFFICES ASSUME IInv, [Next]_vars PROVE IInv' OBVIOUS
<1>0. /\ Readers \in SUBSET Thread
      /\ Writers \in SUBSET Thread
      /\ Waiting \in SUBSET Thread
  BY DEF Readers, Writers, Waiting
<1>1. CASE UNCHANGED vars
  <2>1. Readers' = Readers /\ Writers' = Writers /\ Waiting' = Waiting
    BY <1>1 DEF vars, Readers, Writers, Waiting
  <2> QED
    BY <1>1, <2>1
    DEF vars, IInv, Typed, CountersExact, CasCopyNonNegative, Exclusion
<1>2. ASSUME NEW t \in Thread,
             ReadLock(t) \/ ReadLoad(t) \/ ReadTest(t) \/ ReadCasFails(t)
      PROVE  IInv'
  <2>1. Typed'
    BY <1>2 DEF IInv, Typed, Locations, Go, ReadLock, ReadLoad, ReadTest,
                ReadCasFails
  <2>2. /\ pc[t] \notin {"reading", "w_cas", "w_dec", "writing"}
        /\ pc' = [pc EXCEPT ![t] = pc'[t]]
        /\ pc'[t] \in {"r_load", "r_test", "r_cas"}
        /\ UNCHANGED <<lock_num_, write_lock_wait_num_>>
    BY <1>2 DEF IInv, Typed, Go, ReadLock, ReadLoad, ReadTest, ReadCasFails
  <2>3. Readers' = Readers /\ Writers' = Writers /\ Waiting' = Waiting
    BY <2>2 DEF IInv, Typed, Readers, Writers, Waiting
  <2>4. CountersExact' /\ Exclusion'
    BY <2>2, <2>3 DEF IInv, CountersExact, Exclusion
  <2>5. CasCopyNonNegative'
    BY <1>2 DEF IInv, Typed, CasCopyNonNegative, Go, MustWait, ReadLock,
                ReadLoad, ReadTest, ReadCasFails
  <2> QED BY <2>1, <2>4, <2>5 DEF IInv
<1>3. ASSUME NEW t \in Thread, ReadCasSucceeds(t) PROVE IInv'
  <2>1. Typed' /\ CasCopyNonNegative'
    BY <1>3 DEF IInv, Typed, Locations, CasCopyNonNegative, Go,
                ReadCasSucceeds
  <2>2. /\ Readers' = Readers \union {t} /\ t \notin Readers
        /\ Writers' = Writers /\ Waiting' = Waiting
    BY <1>3 DEF IInv, Typed, Go, ReadCasSucceeds, Readers, Writers, Waiting
  <2>3. lock_num_ >= 0
    BY <1>3 DEF IInv, CasCopyNonNegative, Go, ReadCasSucceeds
  <2>4. Writers = {}
    BY <2>3 DEF IInv, CountersExact
  <2>5. CountersExact' /\ Exclusion'
    BY <1>0, <1>3, <2>2, <2>4, Counting
    DEF IInv, CountersExact, Exclusion, Go, ReadCasSucceeds
  <2> QED BY <2>1, <2>5 DEF IInv
<1>4. ASSUME NEW t \in Thread, ReadUnlock(t) PROVE IInv'
  <2>1. Typed' /\ CasCopyNonNegative'
    BY <1>4 DEF IInv, Typed, Locations, CasCopyNonNegative, Go, ReadUnlock
  <2>2. /\ Readers' = Readers \ {t} /\ t \in Readers
        /\ Writers' = Writers /\ Waiting' = Waiting
    BY <1>4 DEF IInv, Typed, Go, ReadUnlock, Readers, Writers, Waiting
  <2>3. Writers = {}
    BY <2>2 DEF IInv, Exclusion
  <2>4. CountersExact' /\ Exclusion'
    BY <1>0, <1>4, <2>2, <2>3, Counting
    DEF IInv, CountersExact, Exclusion, ReadUnlock
  <2> QED BY <2>1, <2>4 DEF IInv
<1>5. ASSUME NEW t \in Thread, WriteLock(t) PROVE IInv'
  <2>1. Typed' /\ CasCopyNonNegative'
    BY <1>5 DEF IInv, Typed, Locations, CasCopyNonNegative, Go, WriteLock
  <2>2. /\ Readers' = Readers /\ Writers' = Writers
        /\ Waiting' = Waiting \union {t} /\ t \notin Waiting
    BY <1>5 DEF IInv, Typed, Go, WriteLock, Readers, Writers, Waiting
  <2>3. CountersExact' /\ Exclusion'
    BY <1>0, <1>5, <2>2, Counting
    DEF IInv, CountersExact, Exclusion, WriteLock
  <2> QED BY <2>1, <2>3 DEF IInv
<1>6. ASSUME NEW t \in Thread, WriteCas(t) PROVE IInv'
  <2>1. Typed' /\ CasCopyNonNegative'
    BY <1>6 DEF IInv, Typed, Locations, CasCopyNonNegative, Go, WriteCas
  <2>2. /\ Readers' = Readers /\ Waiting' = Waiting
        /\ Writers' = Writers \union {t}
    BY <1>6 DEF IInv, Typed, Go, WriteCas, Readers, Writers, Waiting
  <2>3. Readers = {} /\ Writers = {}
    <3>1. Writers = {} BY <1>6 DEF IInv, CountersExact, WriteCas
    <3>2. Cardinality(Readers) = 0
      BY <1>6, <3>1 DEF IInv, CountersExact, WriteCas
    <3> QED BY <1>0, <3>1, <3>2, Counting
  <2>4. CountersExact' /\ Exclusion'
    BY <1>6, <2>2, <2>3 DEF IInv, CountersExact, Exclusion, WriteCas
  <2> QED BY <2>1, <2>4 DEF IInv
<1>7. ASSUME NEW t \in Thread, WriteDone(t) PROVE IInv'
  <2>1. Typed' /\ CasCopyNonNegative'
    BY <1>7 DEF IInv, Typed, Locations, CasCopyNonNegative, Go, WriteDone
  <2>2. /\ Readers' = Readers /\ Writers' = Writers
        /\ Waiting' = Waiting \ {t} /\ t \in Waiting
    BY <1>7 DEF IInv, Typed, Go, WriteDone, Readers, Writers, Waiting
  <2>3. CountersExact' /\ Exclusion'
    BY <1>0, <1>7, <2>2, Counting
    DEF IInv, CountersExact, Exclusion, WriteDone
  <2> QED BY <2>1, <2>3 DEF IInv
<1>8. ASSUME NEW t \in Thread, WriteUnlock(t) PROVE IInv'
  <2>1. Typed' /\ CasCopyNonNegative'
    BY <1>8 DEF IInv, Typed, Locations, CasCopyNonNegative, Go, WriteUnlock
  <2>2. /\ Readers' = Readers /\ Waiting' = Waiting
        /\ Writers' = Writers \ {t} /\ t \in Writers
    BY <1>8 DEF IInv, Typed, Go, WriteUnlock, Readers, Writers, Waiting
  <2>3. Readers = {} /\ Writers' = {} /\ lock_num_ = -1
    BY <2>2 DEF IInv, Exclusion, CountersExact
  <2>4. CountersExact' /\ Exclusion'
    BY <1>8, <2>2, <2>3, FS_EmptySet
    DEF IInv, CountersExact, Exclusion, WriteUnlock
  <2> QED BY <2>1, <2>4 DEF IInv
<1> QED
  BY <1>1, <1>2, <1>3, <1>4, <1>5, <1>6, <1>7, <1>8 DEF Next, Step

(* The inductive invariant holds in every reachable state.                  *)
THEOREM IInvHolds == Spec => []IInv
BY InitIInv, NextIInv, PTL DEF Spec

(* A writer is alone: whatever the number of threads and the interleaving   *)
(* of the atomic accesses of ReadLock and WriteLock, nobody else is inside  *)
(* a guard while a thread is inside its WriteLockGuard.                     *)
THEOREM ExclusionHolds == Spec => []Exclusion
<1>1. IInv => Exclusion BY DEF IInv
<1> QED BY <1>1, IInvHolds, PTL

(* lock_num_ and write_lock_wait_num_ count exactly the threads inside and  *)
(* the writers waiting.                                                     *)
THEOREM CountersExactHolds == Spec => []CountersExact
<1>1. IInv => CountersExact BY DEF IInv
<1> QED BY <1>1, IInvHolds, PTL

(* The counters stay within their ranges: both follow sets of threads.      *)
LEMMA Ranges ==
  IInv => /\ lock_num_ \in -1 .. Cardinality(Thread)
          /\ write_lock_wait_num_ \in 0 .. Cardinality(Thread)
<1> SUFFICES ASSUME IInv
             PROVE  /\ lock_num_ \in -1 .. Cardinality(Thread)
                    /\ write_lock_wait_num_ \in 0 .. Cardinality(Thread)
  OBVIOUS
<1>1. /\ Readers \in SUBSET Thread
      /\ Waiting \in SUBSET Thread
  BY DEF Readers, Waiting
<1>2. Cardinality(Thread) \in Nat BY ThreadFinite, FS_CardinalityType
<1>3. /\ Cardinality(Readers) \in 0 .. Cardinality(Thread)
      /\ Cardinality(Waiting) \in 0 .. Cardinality(Thread)
  BY <1>1, <1>2, ThreadFinite, FS_Subset, FS_CardinalityType
<1> QED BY <1>2, <1>3 DEF IInv, CountersExact, WRITE_EXCLUSIVE

(* Type correctness: the counters never leave their ranges, nor does any    *)
(* reader's local copy.                                                     *)
THEOREM TypeOKHolds == Spec => []TypeOK
<1>1. Cardinality(Thread) \in Nat BY ThreadFinite, FS_CardinalityType
<1>2. Init => TypeOK
  BY <1>1 DEF Init, TypeOK, Locations, RW_LOCK_FREE
<1>3. TypeOK /\ IInv /\ IInv' /\ [Next]_vars => TypeOK'
  <2> SUFFICES ASSUME TypeOK, IInv, IInv', [Next]_vars PROVE TypeOK' OBVIOUS
  <2>0. lock_num_ \in -1 .. Cardinality(Thread) BY Ranges
  <2>1. (/\ lock_num_ \in -1 .. Cardinality(Thread)
         /\ write_lock_wait_num_ \in 0 .. Cardinality(Thread))'
    BY Ranges, PTL
  <2>2. (pc \in [Thread -> Locations])' BY DEF IInv, Typed
  <2>3. (lock_num \in [Thread -> -1 .. Cardinality(Thread)])'
    BY <2>0 DEF TypeOK, vars, Next, Step, ReadLock, ReadLoad, ReadTest,
                ReadCasSucceeds, ReadCasFails, ReadUnlock, WriteLock,
                WriteCas, WriteDone, WriteUnlock
  <2> QED BY <2>1, <2>2, <2>3 DEF TypeOK
<1> QED BY <1>2, <1>3, IInvHolds, PTL DEF Spec

(* AtomicRWLock implements the abstract readers-writer lock: a successful   *)
(* compare-exchange is the acquisition, an unlock the release, and every    *)
(* other step is invisible.                                                 *)
THEOREM RWLockImplemented == Spec => ImplementsRWLock
<1>1. Init => Abstract!Init
  BY DEF Init, Abstract!Init, Readers, Writers
<1>2. IInv /\ [Next]_vars => [Abstract!Next]_<<Readers, Writers>>
  <2> USE DEF Readers, Writers
  <2> SUFFICES ASSUME IInv, [Next]_vars
               PROVE  [Abstract!Next]_<<Readers, Writers>>
    OBVIOUS
  <2>1. CASE UNCHANGED vars BY <2>1 DEF vars
  <2>2. ASSUME NEW t \in Thread,
               \/ ReadLock(t) \/ ReadLoad(t) \/ ReadTest(t) \/ ReadCasFails(t)
               \/ WriteLock(t) \/ WriteDone(t)
        PROVE  UNCHANGED <<Readers, Writers>>
    BY <2>2 DEF IInv, Typed, Go, ReadLock, ReadLoad, ReadTest, ReadCasFails,
                WriteLock, WriteDone
  <2>3. ASSUME NEW t \in Thread, ReadCasSucceeds(t)
        PROVE  Abstract!AcquireRead(t)
    <3>1. Writers = {}
      BY <2>3 DEF IInv, Go, ReadCasSucceeds, CasCopyNonNegative,
                  CountersExact, WRITE_EXCLUSIVE
    <3> QED
      BY <2>3, <3>1 DEF IInv, Typed, Go, ReadCasSucceeds, Abstract!AcquireRead
  <2>4. ASSUME NEW t \in Thread, ReadUnlock(t)
        PROVE  Abstract!ReleaseRead(t)
    BY <2>4 DEF IInv, Typed, Go, ReadUnlock, Abstract!ReleaseRead
  <2>5. ASSUME NEW t \in Thread, WriteCas(t)
        PROVE  Abstract!AcquireWrite(t)
    <3>1. Writers = {}
      BY <2>5 DEF IInv, WriteCas, CountersExact, WRITE_EXCLUSIVE,
                  RW_LOCK_FREE
    <3>2. Cardinality(Readers) = 0
      BY <2>5, <3>1 DEF IInv, WriteCas, CountersExact, RW_LOCK_FREE
    <3>3. Readers \in SUBSET Thread OBVIOUS
    <3>4. Readers = {} BY <3>2, <3>3, Counting
    <3> QED
      BY <2>5, <3>1, <3>4
      DEF IInv, Typed, Go, WriteCas, Abstract!AcquireWrite
  <2>6. ASSUME NEW t \in Thread, WriteUnlock(t)
        PROVE  Abstract!ReleaseWrite(t)
    BY <2>6 DEF IInv, Typed, Go, WriteUnlock, Abstract!ReleaseWrite
  <2> QED
    BY <2>1, <2>2, <2>3, <2>4, <2>5, <2>6 DEF Next, Step, Abstract!Next
<1> QED BY <1>1, <1>2, IInvHolds, PTL DEF Spec, ImplementsRWLock, Abstract!Spec
=============================================================================
