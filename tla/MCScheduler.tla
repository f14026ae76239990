----------------------------- MODULE MCScheduler -----------------------------
(***************************************************************************)
(* Instances for TLC of the two schedulers.  ClassicScheduler is extended,  *)
(* its constants come from the configuration files; Choreography has        *)
(* variables of its own, whose names end in _c.  The policies do not        *)
(* interact: a process has one of them, the one that "policy" names.        *)
(***************************************************************************)
EXTENDS ClassicScheduler, TLC

CONSTANTS c1, w1, r1, r2, ta, tb,
          Policies  \* the schedulers that run

VARIABLES policy,
          cfg_c, id_cr_c, cr_queue_c, state_c, updated_c, lock_c, force_stop_c,
          notify_c, shutter_c, running_c, buffer_c, sent_c, pc_c, cur_c, scan_c,
          todo_c, registered_c, missed_c

OneTask == (r1 :> ta)

\* Two objects created under one name, one after the other or at once.
SameName == (r1 :> ta) @@ (r2 :> ta)

TwoNames == (r1 :> ta) @@ (r2 :> tb)
LowPrio == (ta :> 0)
TopPrio == (ta :> 1)

\* Choreography files: how many processors and pool processors, how many by
\* default, where the tasks are placed, which are created, and the messages sent.
Placement(procs, pool, default, ofA, ofB, tasks, msgs) ==
  [procs |-> procs, pool |-> pool, default |-> default, tasks |-> tasks,
   msgs |-> msgs, prio |-> (ta :> 0) @@ (tb :> 1), processor |-> (ta :> ofA) @@ (tb :> ofB)]

Placements ==
  {Placement(1, 0, None, 0, 0, {ta, tb}, 1),
   Placement(1, 1, None, 0, 3, {ta, tb}, 0),
   Placement(0, 0, 1, None, 0, {ta, tb}, 1),
   Placement(1, 2, 1, None, None, {ta, tb}, 0),
   Placement(1, 2, 1, None, None, {ta}, 1)}

Placed == INSTANCE Choreography WITH
  Clients <- {c1}, Notifiers <- {w1}, Routines <- {r1, r2}, Names <- {ta, tb},
  nameOf <- TwoNames, Configs <- Placements, MAX_PRIO <- 1,
  cfg <- cfg_c, id_cr_ <- id_cr_c, cr_queue_ <- cr_queue_c, state_ <- state_c,
  updated_ <- updated_c, lock_ <- lock_c, force_stop_ <- force_stop_c,
  notify <- notify_c, shutter <- shutter_c, running_ <- running_c,
  buffer <- buffer_c, sent <- sent_c, pc <- pc_c, cur <- cur_c, scan <- scan_c,
  todo <- todo_c, registered <- registered_c, missed <- missed_c

ASSUME Placed!ChoreographyConstants

placedVars == <<cfg_c, id_cr_c, cr_queue_c, state_c, updated_c, lock_c,
                force_stop_c, notify_c, shutter_c, running_c, buffer_c, sent_c,
                pc_c, cur_c, scan_c, todo_c, registered_c, missed_c>>
policyVars == <<policy, vars, placedVars>>

\* Under the classic policy the choreography's variables stay as they are, with
\* one file, and the other way round.
PolicyInit ==
  /\ policy \in Policies
  /\ Init /\ Placed!Init
  /\ policy = "classic" => cfg_c = Placement(1, 0, None, 0, 0, {ta, tb}, 1)

PolicyNext ==
  \/ policy = "classic" /\ Next /\ UNCHANGED <<policy, placedVars>>
  \/ policy = "choreography" /\ Placed!Next /\ UNCHANGED <<policy, vars>>

PolicySpec == PolicyInit /\ [][PolicyNext]_policyVars

\* The scheduler's own fairness: see ClassicScheduler.
ClassicFairSpec == PolicySpec /\ Fairness

Symmetry ==
  Permutations(Processor) \union Permutations(Client) \union Permutations(Notifier)

(* -------------------------------- Properties ------------------------------ *)

\* Under the choreography policy a routine runs on the processor it is placed on
\* and a pooled one on none of those, held by one (SchedulerChoreography); once
\* its removal has returned it is nowhere (RemoveCRoutine); and a waiting task
\* with an unread message is flagged, a processor of its own context awake or
\* woken, except where two of the pool's processors miss the flag between them
\* (NotifyProcessor, NextRoutine).  Every variable of the classic scheduler holds a value of
\* its type.
PlacedTasks ==
  /\ Placed!RunsWherePlaced /\ Placed!RemovedIsGone /\ Placed!FlaggedIsWoken
  /\ TypeOK
=============================================================================
