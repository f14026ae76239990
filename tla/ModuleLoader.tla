---------------------------- MODULE ModuleLoader ----------------------------
(***************************************************************************)
(* Loading classes from libraries (class_loader/) and the mainboard, which *)
(* loads the components of its DAG files with them (mainboard/).           *)
(*                                                                         *)
(* Either every ClassLoader is used by threads of its own, or they are     *)
(* those of the ModuleController's ClassLoaderManager, one for a library.  *)
(* There is one base class.                                                *)
(***************************************************************************)
EXTENDS Naturals, Sequences

CONSTANTS
  Configs,         \* records [lib, classes, dag]: see Init
  MaxObjects,      \* bound: objects created with one loader
  MaxLoads         \* bound: loadlib_ref_count_

ModuleLoaderConstants ==
  /\ MaxObjects \in Nat /\ MaxLoads \in Nat
  /\ \A c \in Configs : \A m \in {c.dag[i] : i \in 1 .. Len(c.dag)} :
       m.loader \in DOMAIN c.lib /\ m.class \in UNION {c.classes[l] : l \in DOMAIN c.classes}

VARIABLES
  lib, classes,    \* given: the library of each loader; the classes of each library
  dag,             \* given: the components of the mainboard, [loader, class]; <<>> without one
  mapped,          \* times that each library is open (dlopen)
  opened,          \* entries of each library in opened_libraries
  factory,         \* by class: [lib, owners], with lib = "" if there is none
  ref, objs,       \* loadlib_ref_count_ and classobj_ref_count_
  lpc, then,       \* the thread of a loader that loads or creates, and the class it then creates
  at,              \* the factories it has pointers to: as it found them, without those that left
  gone,            \* the ones of them that were deleted since
  alive,           \* the objects: [loader, class, lib, n]
  mpc, mnext, held,\* the mainboard, its next component, component_list_
  raced, overwritten  \* history: libraries of which ...

vars == <<lib, classes, dag, mapped, opened, factory, ref, objs, lpc, then, at, gone, alive,
          mpc, mnext, held, raced, overwritten>>

Loaders == DOMAIN lib
Libs == DOMAIN classes
Classes == UNION {classes[b] : b \in Libs}
NoFactory == [lib |-> "", owners |-> {}]
given == <<lib, classes, dag>>
pointers == <<at, gone>>
mainboard == <<mpc, mnext, held>>
NoPointers == [c \in {} |-> NoFactory]
history == <<raced, overwritten>>

Init ==
  /\ \E c \in Configs : lib = c.lib /\ classes = c.classes /\ dag = c.dag
  /\ mapped = [b \in Libs |-> 0] /\ opened = [b \in Libs |-> 0]
  /\ factory = [c \in Classes |-> NoFactory]
  /\ ref = [l \in Loaders |-> 0] /\ objs = [l \in Loaders |-> 0]
  /\ lpc = [l \in Loaders |-> "idle"] /\ then = [l \in Loaders |-> ""] /\ alive = {}
  /\ at = [l \in Loaders |-> NoPointers] /\ gone = [l \in Loaders |-> {}]
  /\ mpc = (IF dag = <<>> THEN "none" ELSE "load") /\ mnext = 1 /\ held = {}
  /\ raced = {} /\ overwritten = {}

-----------------------------------------------------------------------------
(* utility::LoadLibrary: attaches when anybody has loaded the library.     *)
StartLoad(l, class) ==
  /\ lpc[l] = "idle" /\ ref[l] < MaxLoads
  /\ ref' = [ref EXCEPT ![l] = @ + 1]
  /\ lpc' = [lpc EXCEPT ![l] = IF opened[lib[l]] > 0 THEN "attach" ELSE "dlopen"]
  /\ then' = [then EXCEPT ![l] = class]
  /\ UNCHANGED <<given, mapped, opened, factory, objs, pointers, alive, history>>

(* ClassLoader::LoadLibrary *)
LoadLibrary(l) == mpc = "none" /\ StartLoad(l, "") /\ UNCHANGED mainboard

Loaded(l) == IF then[l] = "" THEN "idle" ELSE "create"

(* GetAllClassFactoryObjectsOfLibrary: pointers to the factories there are *)
(* by now, taken with the lock ...                                         *)
Collect(l) ==
  /\ lpc[l] = "attach" /\ lpc' = [lpc EXCEPT ![l] = "own"]
  /\ at' = [at EXCEPT ![l] = [c \in {d \in Classes : factory[d].lib = lib[l]} |-> factory[c]]]
  /\ UNCHANGED <<given, mapped, opened, factory, ref, objs, then, gone, alive, mainboard, history>>

(* The factory found at c is the one of the map. *)
InMap(l, c) == c \notin gone[l] /\ factory[c].lib = at[l][c].lib

Forget(l) == at' = [at EXCEPT ![l] = NoPointers] /\ gone' = [gone EXCEPT ![l] = {}]

(* ... and used without: the loader becomes an owner of those that remain. *)
Attach(l) ==
  /\ lpc[l] = "own" /\ lpc' = [lpc EXCEPT ![l] = Loaded(l)] /\ Forget(l)
  /\ factory' = [c \in Classes |-> IF c \in DOMAIN at[l] /\ InMap(l, c)
                                   THEN [factory[c] EXCEPT !.owners = @ \cup {l}] ELSE factory[c]]
  /\ UNCHANGED <<given, mapped, opened, ref, objs, then, alive, mainboard, history>>

(* RegisterClass, by the static objects of a library that comes in: a      *)
(* factory of the same name is overwritten.                                *)
RegisterClass(l) ==
  [c \in Classes |->
     IF c \in classes[lib[l]] THEN [lib |-> lib[l], owners |-> {l}] ELSE factory[c]]

(* Nobody has: Poco::SharedLibrary opens the library, or throws.           *)
Open(l) ==
  /\ lpc[l] = "dlopen"
  /\ \/ /\ lpc' = [lpc EXCEPT ![l] = "append"]
        /\ mapped' = [mapped EXCEPT ![lib[l]] = @ + 1]
        /\ IF mapped[lib[l]] > 0 THEN UNCHANGED <<factory, overwritten>>
           ELSE /\ factory' = RegisterClass(l)
                /\ overwritten' = overwritten \cup {factory[c].lib : c \in classes[lib[l]]}
     \/ lpc' = [lpc EXCEPT ![l] = Loaded(l)] /\ UNCHANGED <<mapped, factory, overwritten>>
  /\ UNCHANGED <<given, opened, ref, objs, then, pointers, alive, mainboard, raced>>

AddOpened(l) ==
  /\ lpc[l] = "append" /\ lpc' = [lpc EXCEPT ![l] = Loaded(l)]
  /\ opened' = [opened EXCEPT ![lib[l]] = @ + 1]
  /\ UNCHANGED <<given, mapped, factory, ref, objs, then, pointers, alive, mainboard, history>>

-----------------------------------------------------------------------------
(* utility::CreateClassObj: the factory is looked up with the lock ...     *)
Lookup(l, class) ==
  /\ lpc' = [lpc EXCEPT ![l] = "use"] /\ then' = [then EXCEPT ![l] = class]
  /\ at' = [at EXCEPT ![l] = [c \in {class} \ {d \in Classes : factory[d] = NoFactory} |->
                              factory[c]]]
  /\ UNCHANGED <<given, mapped, opened, factory, ref, objs, gone, alive, history>>

(* ... and used without it: an object, if the loader owns the factory. One *)
(* that is gone may say either.                                            *)
CreateObj(l) ==
  LET c == then[l]
      owners == IF InMap(l, c) THEN factory[c].owners ELSE at[l][c].owners
      Owns == IF c \notin DOMAIN at[l] THEN {FALSE}
              ELSE IF c \in gone[l] THEN BOOLEAN ELSE {l \in owners}
  IN /\ lpc[l] = "use" /\ then' = [then EXCEPT ![l] = ""] /\ Forget(l)
     /\ \/ FALSE \in Owns /\ lpc' = [lpc EXCEPT ![l] = "idle"] /\ UNCHANGED alive
        \/ /\ TRUE \in Owns /\ lpc' = [lpc EXCEPT ![l] = "count"]
           /\ \E n \in 1 .. MaxObjects :
                LET o == [loader |-> l, class |-> c, lib |-> at[l][c].lib, n |-> n]
                IN o \notin alive /\ alive' = alive \cup {o}
     /\ UNCHANGED <<given, mapped, opened, factory, ref, objs, mainboard, history>>

(* ClassLoader::CreateClassObj loads the library when it is not there:     *)
(* IsLibraryLoaded is true when anybody has loaded it.                     *)
CreateClassObj(l, class) ==
  /\ mpc = "none" /\ lpc[l] = "idle" /\ UNCHANGED mainboard
  /\ IF opened[lib[l]] = 0 THEN StartLoad(l, class) ELSE Lookup(l, class)

CreateLoaded(l) == lpc[l] = "create" /\ Lookup(l, then[l]) /\ UNCHANGED mainboard

(* The object is counted after it was made.                                *)
CountObject(l) ==
  /\ lpc[l] = "count" /\ lpc' = [lpc EXCEPT ![l] = "idle"]
  /\ objs' = [objs EXCEPT ![l] = @ + 1]
  /\ UNCHANGED <<given, mapped, opened, factory, ref, then, pointers, alive, mainboard, history>>

OnClassObjDeleter(o) ==
  /\ objs[o.loader] > 0
  /\ alive' = alive \ {o} /\ objs' = [objs EXCEPT ![o.loader] = @ - 1]
  /\ UNCHANGED <<given, mapped, opened, factory, ref, lpc, then, pointers, history>>

(* The user of an object lets it go. *)
Release(o) == mpc = "none" /\ OnClassObjDeleter(o) /\ UNCHANGED mainboard

-----------------------------------------------------------------------------
(* DestroyClassFactoryObjectsOfLibrary: the loader leaves the factories of *)
(* its library, and those without an owner are deleted.                    *)
DestroyFactories(l) ==
  [c \in Classes |->
     LET left == factory[c].owners \ {l}
     IN IF factory[c].lib # lib[l] \/ l \notin factory[c].owners THEN factory[c]
        ELSE IF left = {} THEN NoFactory ELSE [factory[c] EXCEPT !.owners = left]]

(* utility::UnloadLibrary closes a library that has no factory left; those *)
(* deleted may be in another thread's hands.                               *)
CloseLibrary(l) ==
  LET b == lib[l]
      closes == \A c \in Classes : DestroyFactories(l)[c].lib # b
      deleted == {c \in Classes : factory[c] # NoFactory /\ DestroyFactories(l)[c] = NoFactory}
      Held(m) == {c \in deleted \cap DOMAIN at[m] : InMap(m, c)}
  IN IF opened[b] = 0 THEN UNCHANGED <<mapped, opened, factory, pointers, raced>>
     ELSE /\ factory' = DestroyFactories(l)
          /\ mapped' = IF closes THEN [mapped EXCEPT ![b] = @ - 1] ELSE mapped
          /\ opened' = IF closes THEN [opened EXCEPT ![b] = @ - 1] ELSE opened
          /\ gone' = [m \in Loaders |-> gone[m] \cup Held(m)]
          /\ at' = [at EXCEPT ![l] = [c \in DOMAIN @ |-> [@[c] EXCEPT !.owners = @ \ {l}]]]
          /\ raced' = IF lpc[l] = "count" \/ \E m \in Loaders : Held(m) # {}
                      THEN raced \cup {b} ELSE raced

(* Mutant: the objects are not looked at. *)
Unload_Anyway(l) ==
  /\ lpc[l] \in {"idle", "create", "use", "count"}
  /\ ref' = [ref EXCEPT ![l] = IF @ > 0 THEN @ - 1 ELSE 0]
  /\ IF ref[l] = 1 THEN CloseLibrary(l) ELSE UNCHANGED <<mapped, opened, factory, pointers, raced>>
  /\ UNCHANGED <<given, objs, lpc, then, alive, overwritten>>

(* ClassLoader::UnloadLibrary: nothing while there are objects, or until   *)
(* it was called as often as LoadLibrary.                                  *)
Unload(l) ==
  /\ lpc[l] \in {"idle", "create", "use", "count"}
  /\ ref' = [ref EXCEPT ![l] = IF objs[l] = 0 /\ @ > 0 THEN @ - 1 ELSE @]
  /\ IF objs[l] = 0 /\ ref[l] = 1 THEN CloseLibrary(l)
     ELSE UNCHANGED <<mapped, opened, factory, pointers, raced>>
  /\ UNCHANGED <<given, objs, lpc, then, alive, overwritten>>

UnloadLibrary(l) == mpc = "none" /\ Unload(l) /\ UNCHANGED mainboard

-----------------------------------------------------------------------------
(* ModuleController: the only thread.                                      *)
AllIdle == \A l \in Loaders : lpc[l] = "idle"

(* ClassLoaderManager::LoadLibrary: one loader for a library.              *)
LoadModule ==
  /\ mpc = "load" /\ AllIdle /\ mpc' = "create" /\ UNCHANGED <<mnext, held>>
  /\ LET l == dag[mnext].loader
     IN IF ref[l] = 0 THEN StartLoad(l, "")
        ELSE UNCHANGED <<given, mapped, opened, factory, ref, objs, lpc, then, pointers, alive,
                       history>>

(* ClassLoaderManager::CreateClassObj asks for a loader that has the class.*)
CreateComponent ==
  LET class == dag[mnext].class
      valid == factory[class].owners
  IN /\ mpc = "create" /\ AllIdle /\ UNCHANGED <<mnext, held>>
     /\ \/ \E l \in valid : Lookup(l, class) /\ mpc' = "initialize"
        \/ /\ valid = {} /\ mpc' = "clear"
           /\ UNCHANGED <<given, mapped, opened, factory, ref, objs, lpc, then,
                          pointers, alive, history>>

(* Initialize succeeds, or the component is dropped and the loading ends.  *)
InitializeComponent ==
  /\ mpc = "initialize" /\ AllIdle
  /\ \E o \in alive \ held :
       \/ /\ held' = held \cup {o} /\ mnext' = mnext + 1
          /\ mpc' = IF mnext = Len(dag) THEN "run" ELSE "load"
          /\ UNCHANGED <<given, mapped, opened, factory, ref, objs, lpc, then,
                         pointers, alive, history>>
       \/ OnClassObjDeleter(o) /\ mpc' = "clear" /\ UNCHANGED <<mnext, held>>

WaitForShutdown ==
  /\ mpc = "run" /\ mpc' = "clear"
  /\ UNCHANGED <<given, mapped, opened, factory, ref, objs, lpc, then, pointers,
                 alive, mnext, held, history>>

(* Clear: the components go, and then the libraries.                       *)
ClearComponent ==
  /\ mpc = "clear" /\ \E o \in held : OnClassObjDeleter(o) /\ held' = held \ {o}
  /\ UNCHANGED <<mpc, mnext>>

UnloadAllLibrary ==
  /\ mpc \in {"clear", "unload"} /\ held = {} /\ UNCHANGED <<mnext, held>>
  /\ LET left == {l \in Loaders : ref[l] > 0}
     IN \/ mpc' = "unload" /\ \E l \in left : Unload(l)
        \/ /\ left = {} /\ mpc' = "done"
           /\ UNCHANGED <<given, mapped, opened, factory, ref, objs, lpc, then,
                          pointers, alive, history>>

Next ==
  \/ \E l \in Loaders :
       \/ LoadLibrary(l) \/ Collect(l) \/ Attach(l) \/ Open(l) \/ AddOpened(l)
       \/ CreateLoaded(l) \/ CreateObj(l) \/ CountObject(l) \/ UnloadLibrary(l)
       \/ \E c \in Classes : CreateClassObj(l, c)
  \/ \E o \in alive : Release(o)
  \/ LoadModule \/ CreateComponent \/ InitializeComponent \/ WaitForShutdown
  \/ ClearComponent \/ UnloadAllLibrary

Spec == Init /\ [][Next]_vars

-----------------------------------------------------------------------------
(* The code of a living object stays in memory: classobj_ref_count_ keeps  *)
(* its loader from leaving the factories.  Two ways out: an UnloadLibrary  *)
(* between the lookup of a factory and the counting of the object that it  *)
(* makes, and a second library whose class of the same name overwrote the  *)
(* factory.                                                                *)
ObjectsKeepLibrary ==
  \A o \in alive : o.lib \in raced \cup overwritten \/ mapped[o.lib] > 0

(* No factory outlives its library: its CreateObj is code of the library.  *)
FactoriesKeepLibrary ==
  \A c \in Classes : factory[c] # NoFactory => mapped[factory[c].lib] > 0

(* A factory that a thread has looked up outlives its use as long as the   *)
(* thread's loader was its owner and was not unloaded meanwhile. A loader  *)
(* that does not own it, or is only about to, may find it deleted: the     *)
(* lookup and the use are not under one lock.                              *)
OwnerFindsFactory ==
  \A l \in Loaders : \A c \in gone[l] : l \notin at[l][c].owners

(* After Clear the mainboard has destroyed every component and then closed *)
(* every library, also when a library did not load, a class was not found  *)
(* or Initialize of a component failed.                                    *)
NothingLeftAfterClear ==
  mpc = "done" => /\ alive = {}
                  /\ \A b \in Libs : mapped[b] = 0 /\ opened[b] = 0
                  /\ \A c \in Classes : factory[c] = NoFactory
=============================================================================
