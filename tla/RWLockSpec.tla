----------------------------- MODULE RWLockSpec -----------------------------
(***************************************************************************)
(* What a readers-writer lock promises to the code under a ReadLockGuard or *)
(* WriteLockGuard (src/cyber/base/rw_lock_guard.h): any number of threads   *)
(* read together, a writer is alone.                                        *)
(***************************************************************************)
CONSTANT Thread

VARIABLES readers,  \* threads inside a ReadLockGuard
          writers   \* threads inside a WriteLockGuard

Init == readers = {} /\ writers = {}

AcquireRead(t) ==
  /\ t \notin readers /\ writers = {}
  /\ readers' = readers \union {t}
  /\ UNCHANGED writers

AcquireWrite(t) ==
  /\ readers = {} /\ writers = {}
  /\ writers' = {t}
  /\ UNCHANGED readers

ReleaseRead(t) ==
  /\ t \in readers
  /\ readers' = readers \ {t}
  /\ UNCHANGED writers

ReleaseWrite(t) ==
  /\ t \in writers
  /\ writers' = writers \ {t}
  /\ UNCHANGED readers

Next == \E t \in Thread :
  \/ AcquireRead(t) \/ AcquireWrite(t) \/ ReleaseRead(t) \/ ReleaseWrite(t)

Spec == Init /\ [][Next]_<<readers, writers>>
=============================================================================
