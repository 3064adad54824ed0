-------------------------- MODULE LifecycleQuiesce --------------------------
(***************************************************************************)
(* The application-wide birth gate of src-tauri/src/sidecar/shutdown.rs.   *)
(*                                                                         *)
(* Every path that creates a process-owning resource (a Session or Global  *)
(* Sidecar, an IM channel, a Bridge) first takes a LifecycleSpawnPermit.   *)
(* The updater and the application exit close the gate and then sleep on   *)
(* the condition variable `idle' until the permits already out are back.   *)
(* The update gate reopens when its guard is dropped; the exit gate never  *)
(* does.  The process-wide flag UPDATE_SHUTDOWN_IN_PROGRESS, read without  *)
(* the mutex by the health monitors, shadows the gate.                     *)
(*                                                                         *)
(* An action is one critical section of the gate's mutex.  A definition    *)
(* Bug_D is a faulty variant of D; nothing uses it but the checks that a   *)
(* property notices it.                                                    *)
(***************************************************************************)
EXTENDS Naturals, FiniteSets

CONSTANTS
  Creators,  \* threads that create process-owning resources
  Updaters,  \* threads that run a verified update shutdown
  Exiters    \* threads that run the application-exit path

ASSUME CreatorsAssumption == IsFiniteSet(Creators)

VARIABLES admission,         \* LifecycleQuiesceState::admission
          activeCreations,   \* LifecycleQuiesceState::active_creations
          updateInProgress,  \* UPDATE_SHUTDOWN_IN_PROGRESS
          creator,           \* what each creator is doing
          updater,           \* what each updater is doing
          exiter             \* what each exiter is doing

quiesceVars == <<admission, activeCreations, updateInProgress, creator, updater, exiter>>

CreationAdmission == {"Open", "UpdateShutdown", "AppExit"}

QuiesceTypeOK ==
  /\ admission \in CreationAdmission
  /\ activeCreations \in Nat
  /\ updateInProgress \in BOOLEAN
  /\ creator \in [Creators -> {"idle", "creating"}]
  /\ updater \in [Updaters -> {"idle", "asleep", "awake", "guarding"}]
  /\ exiter \in [Exiters -> {"idle", "asleep", "awake", "done"}]

QuiesceInit ==
  /\ admission = "Open"
  /\ activeCreations = 0
  /\ updateInProgress = FALSE
  /\ creator = [c \in Creators |-> "idle"]
  /\ updater = [u \in Updaters |-> "idle"]
  /\ exiter = [x \in Exiters |-> "idle"]

-----------------------------------------------------------------------------
(* A refused begin_spawn returns an error and changes nothing. *)
BeginSpawn(c) ==
  /\ creator[c] = "idle"
  /\ admission = "Open"
  /\ activeCreations' = activeCreations + 1
  /\ creator' = [creator EXCEPT ![c] = "creating"]
  /\ UNCHANGED <<admission, updateInProgress, updater, exiter>>

(* idle.notify_all: whoever sleeps on the condition variable gets to test  *)
(* the count again.                                                        *)
Bug_Woken(f) == f
Woken(f) == [w \in DOMAIN f |-> IF f[w] = "asleep" THEN "awake" ELSE f[w]]

(* Drop of the permit: the resource is registered with its owner, or the   *)
(* failed creation dropped it.  The last one back wakes the waiters.       *)
DropPermit(c) ==
  /\ creator[c] = "creating"
  /\ activeCreations' = IF activeCreations = 0 THEN 0 ELSE activeCreations - 1
  /\ creator' = [creator EXCEPT ![c] = "idle"]
  /\ IF activeCreations' = 0
       THEN updater' = Woken(updater) /\ exiter' = Woken(exiter)
       ELSE UNCHANGED <<updater, exiter>>
  /\ UNCHANGED <<admission, updateInProgress>>

(* The test of the wait loops: go on, or (back) to sleep. *)
Bug_Tested(quiesced) == quiesced
Tested(quiesced) == IF activeCreations > 0 THEN "asleep" ELSE quiesced

(* begin_update; a second updater, or one that comes after the exit, is    *)
(* refused and changes nothing.                                            *)
BeginUpdate(u) ==
  /\ updater[u] = "idle"
  /\ admission = "Open"
  /\ admission' = "UpdateShutdown"
  /\ updateInProgress' = TRUE
  /\ updater' = [updater EXCEPT ![u] = Tested("guarding")]
  /\ UNCHANGED <<activeCreations, creator, exiter>>

(* The woken updater tests only active_creations: it obtains the guard     *)
(* even when the exit overtook it.                                         *)
RetestUpdate(u) ==
  /\ updater[u] = "awake"
  /\ updater' = [updater EXCEPT ![u] = Tested("guarding")]
  /\ UNCHANGED <<admission, activeCreations, updateInProgress, creator, exiter>>

(* Drop of the update guard: the gate reopens unless the exit took it. *)
Bug_DropUpdateGuard(u) ==
  /\ updater[u] = "guarding"
  /\ admission' = IF admission = "UpdateShutdown" THEN "Open" ELSE admission
  /\ updateInProgress' = FALSE
  /\ updater' = Woken([updater EXCEPT ![u] = "idle"])
  /\ exiter' = Woken(exiter)
  /\ UNCHANGED <<activeCreations, creator>>
DropUpdateGuard(u) ==
  /\ updater[u] = "guarding"
  /\ IF admission = "UpdateShutdown"
       THEN /\ admission' = "Open"
            /\ updateInProgress' = FALSE
            /\ updater' = Woken([updater EXCEPT ![u] = "idle"])
            /\ exiter' = Woken(exiter)
       ELSE /\ updater' = [updater EXCEPT ![u] = "idle"]
            /\ UNCHANGED <<admission, updateInProgress, exiter>>
  /\ UNCHANGED <<activeCreations, creator>>

(* begin_app_exit takes the gate from whoever holds it. *)
BeginAppExit(x) ==
  /\ exiter[x] = "idle"
  /\ admission' = "AppExit"
  /\ updateInProgress' = TRUE
  /\ exiter' = [exiter EXCEPT ![x] = Tested("done")]
  /\ UNCHANGED <<activeCreations, creator, updater>>

RetestExit(x) ==
  /\ exiter[x] = "awake"
  /\ exiter' = [exiter EXCEPT ![x] = Tested("done")]
  /\ UNCHANGED <<admission, activeCreations, updateInProgress, creator, updater>>

(* A condition variable may wake a thread for no reason. *)
SpuriousWake ==
  /\ \/ \E u \in Updaters : /\ updater[u] = "asleep"
                            /\ updater' = [updater EXCEPT ![u] = "awake"]
                            /\ UNCHANGED exiter
     \/ \E x \in Exiters : /\ exiter[x] = "asleep"
                           /\ exiter' = [exiter EXCEPT ![x] = "awake"]
                           /\ UNCHANGED updater
  /\ UNCHANGED <<admission, activeCreations, updateInProgress, creator>>

QuiesceNext ==
  \/ \E c \in Creators : BeginSpawn(c) \/ DropPermit(c)
  \/ \E u \in Updaters : BeginUpdate(u) \/ RetestUpdate(u) \/ DropUpdateGuard(u)
  \/ \E x \in Exiters : BeginAppExit(x) \/ RetestExit(x)
  \/ SpuriousWake

QuiesceSpec == QuiesceInit /\ [][QuiesceNext]_quiesceVars

-----------------------------------------------------------------------------
Creating == {c \in Creators : creator[c] = "creating"}

(* Every permit that is out is counted, and every counted one is out. *)
PermitsCounted == activeCreations = Cardinality(Creating)

(* While an update guard is out, or once the exit gate is acquired, no     *)
(* creation is in progress: the updater may replace files and the exit may *)
(* stop every process without racing a birth it cannot see.                *)
QuiescedMeansNoBirth ==
  (\E u \in Updaters : updater[u] = "guarding")
    \/ (\E x \in Exiters : exiter[x] = "done")
    => Creating = {}

(* The monitors read the flag without the mutex; it must say "closed"      *)
(* whenever an updater or the exit still relies on the gate, whatever the  *)
(* order in which the two of them came and went.                           *)
FlagCoversShutdown ==
  (\E u \in Updaters : updater[u] # "idle") \/ (\E x \in Exiters : exiter[x] # "idle")
    => updateInProgress

(* App exit is terminal: no guard that is dropped later reopens birth.     *)
ExitIsTerminal ==
  [][admission = "AppExit" => admission' = "AppExit" /\ updateInProgress']_quiesceVars
=============================================================================
