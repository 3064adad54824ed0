---------------------------- MODULE GlobalSidecar ----------------------------
(***************************************************************************)
(* The Global Sidecar: the one Node process that serves the application    *)
(* outside any Session (settings, the command line, the browser host).     *)
(* src-tauri/src/sidecar/instances.rs starts, watches, replaces and stops  *)
(* it, manager.rs keeps its entry, types.rs its dispatch gate, shutdown.rs *)
(* the whole-application stop.                                             *)
(*                                                                         *)
(* The manager holds a standing wish for the process and at most one entry *)
(* for it.  Whoever creates or removes a process works outside the         *)
(* manager's mutex, with a private lease on the entry's dispatch gate: a   *)
(* birth keeps an entry without a process in the manager, a replacement    *)
(* keeps the closed old entry there.  Births hold a permit of the          *)
(* LifecycleQuiesce gate, which this module composes with; stops do not.   *)
(*                                                                         *)
(* An action is one critical section of the manager, or one blocking call  *)
(* outside it.  Requests to the process, its crashes and its stalls come   *)
(* from outside.                                                           *)
(***************************************************************************)
EXTENDS LifecycleQuiesce

CONSTANTS
  Monitor,      \* the creator that is the health monitor; the others are start requests
  Stoppers,     \* threads that stop the Global Sidecar by name
  MaxGen,       \* bound: process generations
  MaxRequests,  \* bound: requests in flight at one process
  MaxFaults     \* bound: crashes, stalls, failed calls

ASSUME ActorsAssumption ==
  Monitor \in Creators /\ Stoppers \cap Creators = {} /\ IsFiniteSet(Stoppers)
ASSUME BoundsAssumption == MaxGen \in Nat /\ MaxRequests \in Nat /\ MaxFaults \in Nat

VARIABLES
  desired,   \* GlobalSidecarIntent is DesiredRunning
  entry,     \* the Global entry of SidecarManager::instances
  gate,      \* of each generation: the state of its DispatchGate
  requests,  \* of each generation: the ordinary leases in flight
  proc,      \* of each generation: its operating-system process
  lastGen,   \* instance_counter: the newest generation
  portFile,  \* the generation whose port ~/.myagents/sidecar.port names, or 0
  job,       \* what each creator and stopper is doing
  misses,    \* the monitor's consecutive failed probes, and of whom
  stopAll,   \* what each updater and exiter does in stop_all_sidecars
  faults     \* faults so far

globalVars == <<desired, entry, gate, requests, proc, lastGen, portFile, job, misses,
                stopAll, faults>>
vars == <<quiesceVars, globalVars>>

Starters == Creators \ {Monitor}
Gens == 1..MaxGen
GenOrNone == 0..MaxGen
Jobs == Creators \cup Stoppers
Stops == Updaters \cup Exiters

(* held: the entry owns a process; young: within the startup grace. *)
Entry == [gen : GenOrNone, held : BOOLEAN, healthy : BOOLEAN, young : BOOLEAN]
NoEntry == [gen |-> 0, held |-> FALSE, healthy |-> FALSE, young |-> FALSE]
Born(g, held) == [gen |-> g, held |-> held, healthy |-> FALSE, young |-> TRUE]

(* "doomed" is a process that was told to stop and has not exited yet. *)
Up == {"starting", "serving", "hung"}
ProcState == {"none", "doomed", "killed", "crashed"} \cup Up

(* gen is the generation the job is about: the one it expects to replace,  *)
(* then its own; lease is the gate on which it has its private lease.      *)
Idle == [step |-> "idle", gen |-> 0, lease |-> 0]
JobStep == {"idle", "probe", "hit", "miss", "restart", "select", "drain", "reserve", "kill",
            "spawn", "install", "discard", "release", "health", "ready", "publish", "write",
            "return", "retire", "settle", "detach", "wait"}
StopStep == {"none", "drain", "drop", "ended", "exited"}

TypeOK ==
  /\ QuiesceTypeOK
  /\ desired \in BOOLEAN
  /\ entry \in Entry
  /\ gate \in [Gens -> {"none", "open", "closed"}]
  /\ requests \in [Gens -> Nat]
  /\ proc \in [Gens -> ProcState]
  /\ lastGen \in GenOrNone
  /\ portFile \in GenOrNone
  /\ job \in [Jobs -> [step : JobStep, gen : GenOrNone, lease : GenOrNone]]
  /\ misses \in [gen : GenOrNone, count : Nat]
  /\ stopAll \in [Stops -> [step : StopStep, gen : GenOrNone]]
  /\ faults \in Nat

Init ==
  /\ QuiesceInit
  /\ desired = FALSE
  /\ entry = NoEntry
  /\ gate = [g \in Gens |-> "none"]
  /\ requests = [g \in Gens |-> 0]
  /\ proc = [g \in Gens |-> "none"]
  /\ lastGen = 0
  /\ portFile = 0
  /\ job = [t \in Jobs |-> Idle]
  /\ misses = [gen |-> 0, count |-> 0]
  /\ stopAll = [x \in Stops |-> [step |-> "none", gen |-> 0]]
  /\ faults = 0

-----------------------------------------------------------------------------
(* DispatchGateState::in_flight counts requests and private leases alike. *)
Leaseholders(g) == {t \in Jobs : job[t].lease = g}
Bug_InFlight(g) == requests[g]
InFlight(g) == requests[g] + Cardinality(Leaseholders(g))

Accepting(e) == e.gen # 0 /\ gate[e.gen] = "open"

(* is_process_alive: an entry whose process is out of its hands counts as  *)
(* alive.  The poll's note in `healthy' is read nowhere without the poll.  *)
Alive(e) == ~e.held \/ proc[e.gen] \in Up
Running(e) == e.gen # 0 /\ e.healthy /\ Alive(e)

Closed(g) == IF g = 0 THEN gate ELSE [gate EXCEPT ![g] = "closed"]
Fault == faults < MaxFaults /\ faults' = faults + 1

At(t, step) == job[t].step = step
Go(t, step, g, l) == job' = [job EXCEPT ![t] = [step |-> step, gen |-> g, lease |-> l]]

(* What the current section of a creator leaves alone: the birth gate,     *)
(* which it enters and leaves with BeginSpawn and DropPermit.              *)
Inside == UNCHANGED <<quiesceVars, stopAll>>

(* A creator returns its candidate (0 for an error) from                   *)
(* start_tab_sidecar_admitted.  The monitor publishes it under its permit, *)
(* a start request after it has given the permit back.                     *)
Result(t, g) == Go(t, IF t = Monitor /\ g # 0 THEN "publish" ELSE "return", g, 0)

(* The end of retire_instance_handoff or of a stop. *)
Done(t) == IF t \in Creators THEN Result(t, 0) ELSE Go(t, "idle", 0, 0)

-----------------------------------------------------------------------------
(* start_global_sidecar: the wish is recorded under the permit; a request  *)
(* that finds the birth gate closed changes nothing.                       *)
StartRequest(t) ==
  /\ At(t, "idle")
  /\ BeginSpawn(t)
  /\ desired' = TRUE
  /\ Go(t, "select", 0, 0)
  /\ UNCHANGED <<entry, gate, requests, proc, lastGen, portFile, misses, stopAll, faults>>

(* restart_global_sidecar_if_desired: it does not renew the wish, which it *)
(* tests here and which Select tests again.                                *)
MonitorRestart ==
  /\ At(Monitor, "restart")
  /\ IF admission = "Open"
       THEN BeginSpawn(Monitor) /\ Go(Monitor, "select", job[Monitor].gen, 0)
       ELSE Go(Monitor, "idle", 0, 0) /\ UNCHANGED quiesceVars
  /\ UNCHANGED <<desired, entry, gate, requests, proc, lastGen, portFile, misses, stopAll,
                 faults>>

(* The launcher, Node, the script or a port is missing. *)
PreambleFails(t) ==
  /\ At(t, "select")
  /\ Fault
  /\ Result(t, 0)
  /\ Inside
  /\ UNCHANGED <<desired, entry, gate, requests, proc, lastGen, portFile, misses>>

(* The first look at the entry: a running one is the answer, a dead one is *)
(* closed for replacement, by the monitor also a live one it has condemned.*)
Bug_Replaceable(t) ==
  /\ entry.gen # 0
  /\ job[t].gen \in {0, entry.gen}
  /\ ~Alive(entry)
  /\ Accepting(entry)
Replaceable(t) ==
  /\ entry.gen # 0
  /\ job[t].gen \in {0, entry.gen}
  /\ ~Running(entry)
  /\ Accepting(entry)
  /\ job[t].gen = 0 => ~Alive(entry)
Select(t) ==
  /\ At(t, "select")
  /\ IF ~desired THEN Result(t, 0) /\ UNCHANGED gate
     ELSE IF entry.gen = 0
       THEN /\ IF job[t].gen = 0 THEN Go(t, "reserve", 0, 0) ELSE Result(t, 0)
            /\ UNCHANGED gate
     ELSE IF Replaceable(t)
       THEN Go(t, "drain", 0, entry.gen) /\ gate' = Closed(entry.gen)
       ELSE /\ Result(t, IF job[t].gen \in {0, entry.gen} /\ Running(entry)
                           THEN entry.gen ELSE 0)
            /\ UNCHANGED gate
  /\ Inside
  /\ UNCHANGED <<desired, entry, requests, proc, lastGen, portFile, misses, faults>>

(* wait_for_requests: all but the private lease have left; the port file   *)
(* no longer names the old generation.                                     *)
Bug_Drained(g) == TRUE
Drained(g) == InFlight(g) <= 1
DrainOld(t) ==
  /\ At(t, "drain")
  /\ Drained(job[t].lease)
  /\ portFile' = 0
  /\ Go(t, "reserve", 0, job[t].lease)
  /\ Inside
  /\ UNCHANGED <<desired, entry, gate, requests, proc, lastGen, misses, faults>>

(* The directory of the new process cannot be created; none is created     *)
(* beyond the bound.                                                       *)
SetupFails(t) ==
  /\ At(t, "reserve")
  /\ IF lastGen < MaxGen THEN Fault ELSE UNCHANGED faults
  /\ IF job[t].lease # 0 THEN Go(t, "retire", job[t].lease, job[t].lease) ELSE Result(t, 0)
  /\ Inside
  /\ UNCHANGED <<desired, entry, gate, requests, proc, lastGen, portFile, misses>>

(* The old process leaves its entry, a generation is drawn for the new. *)
ReserveReplacement(t) ==
  /\ At(t, "reserve") /\ job[t].lease # 0
  /\ IF ~desired
       THEN /\ Go(t, "retire", job[t].lease, job[t].lease)
            /\ UNCHANGED <<entry, lastGen>>
     ELSE IF entry.gen # job[t].lease
       THEN Result(t, 0) /\ UNCHANGED <<entry, lastGen>>
     ELSE /\ lastGen < MaxGen
          /\ lastGen' = lastGen + 1
          /\ entry' = [entry EXCEPT !.held = FALSE]
          /\ Go(t, "kill", lastGen', job[t].lease)
  /\ Inside
  /\ UNCHANGED <<desired, gate, requests, proc, portFile, misses, faults>>

(* An entry without a process holds the place of the birth. *)
Bug_ReserveBirth(t) ==
  /\ At(t, "reserve") /\ job[t].lease = 0
  /\ IF ~desired THEN Result(t, 0) /\ UNCHANGED <<entry, gate, lastGen>>
     ELSE /\ lastGen < MaxGen
          /\ lastGen' = lastGen + 1
          /\ entry' = Born(lastGen', FALSE)
          /\ gate' = [gate EXCEPT ![lastGen'] = "open"]
          /\ Go(t, "spawn", lastGen', lastGen')
  /\ Inside
  /\ UNCHANGED <<desired, requests, proc, portFile, misses, faults>>
ReserveBirth(t) ==
  /\ At(t, "reserve") /\ job[t].lease = 0
  /\ IF ~desired THEN Result(t, 0) /\ UNCHANGED <<entry, gate, lastGen>>
     ELSE IF entry.gen # 0
       THEN /\ Result(t, IF Running(entry) THEN entry.gen ELSE 0)
            /\ UNCHANGED <<entry, gate, lastGen>>
     ELSE /\ lastGen < MaxGen
          /\ lastGen' = lastGen + 1
          /\ entry' = Born(lastGen', FALSE)
          /\ gate' = [gate EXCEPT ![lastGen'] = "open"]
          /\ Go(t, "spawn", lastGen', lastGen')
  /\ Inside
  /\ UNCHANGED <<desired, requests, proc, portFile, misses, faults>>

(* kill_and_wait ends the process, or reports that it would not end and    *)
(* leaves it under termination.                                            *)
Killed(g) == [proc EXCEPT ![g] = IF @ \in Up THEN "killed" ELSE @]
Doomed(g) == [proc EXCEPT ![g] = IF @ \in Up THEN "doomed" ELSE @]

KillOld(t) ==
  /\ At(t, "kill")
  /\ \/ /\ proc' = Killed(job[t].lease)
        /\ Go(t, "spawn", job[t].gen, job[t].lease)
        /\ UNCHANGED faults
     \/ /\ proc[job[t].lease] \in Up
        /\ Fault
        /\ proc' = Doomed(job[t].lease)
        /\ Go(t, "retire", job[t].lease, job[t].lease)
  /\ Inside
  /\ UNCHANGED <<desired, entry, gate, requests, lastGen, portFile, misses>>

Birth(t) == job[t].lease = job[t].gen

Spawn(t) ==
  /\ At(t, "spawn")
  /\ proc' = [proc EXCEPT ![job[t].gen] = "starting"]
  /\ Go(t, "install", job[t].gen, job[t].lease)
  /\ Inside
  /\ UNCHANGED <<desired, entry, gate, requests, lastGen, portFile, misses, faults>>

(* abandon_instance_birth: the place is given up unless a stop has closed  *)
(* its gate and will remove it.                                            *)
Abandonable(t) == entry.gen = job[t].gen /\ Accepting(entry) /\ ~entry.held
AbandonBirth(t) ==
  IF Abandonable(t) THEN entry' = NoEntry /\ gate' = Closed(entry.gen)
                    ELSE UNCHANGED <<entry, gate>>

SpawnFails(t) ==
  /\ At(t, "spawn")
  /\ Fault
  /\ IF Birth(t)
       THEN AbandonBirth(t) /\ Result(t, 0)
       ELSE Go(t, "retire", job[t].lease, job[t].lease) /\ UNCHANGED <<entry, gate>>
  /\ Inside
  /\ UNCHANGED <<desired, requests, proc, lastGen, portFile, misses>>

(* finish_instance_birth fills the place if it is still wanted and open;   *)
(* the private lease goes.                                                 *)
InstallBirth(t) ==
  /\ At(t, "install") /\ Birth(t)
  /\ IF desired /\ Abandonable(t)
       THEN /\ entry' = Born(job[t].gen, TRUE)
            /\ Go(t, "health", job[t].gen, 0)
            /\ UNCHANGED gate
       ELSE AbandonBirth(t) /\ Go(t, "discard", job[t].gen, job[t].lease)
  /\ Inside
  /\ UNCHANGED <<desired, requests, proc, lastGen, portFile, misses, faults>>

(* finish_instance_replacement: the new entry takes the old one's place;   *)
(* an unwanted one takes the old entry with it.                            *)
InstallReplacement(t) ==
  /\ At(t, "install") /\ ~Birth(t)
  /\ IF entry.gen = job[t].lease /\ desired
       THEN /\ entry' = Born(job[t].gen, TRUE)
            /\ gate' = [gate EXCEPT ![job[t].gen] = "open"]
            /\ Go(t, "health", job[t].gen, 0)
       ELSE /\ entry' = IF entry.gen = job[t].lease THEN NoEntry ELSE entry
            /\ Go(t, "discard", job[t].gen, job[t].lease)
            /\ UNCHANGED gate
  /\ Inside
  /\ UNCHANGED <<desired, requests, proc, lastGen, portFile, misses, faults>>

(* The candidate is told to stop before the lease wakes a waiting stop. *)
Discard(t) ==
  /\ At(t, "discard")
  /\ proc' = Doomed(job[t].gen)
  /\ Go(t, "release", 0, job[t].lease)
  /\ Inside
  /\ UNCHANGED <<desired, entry, gate, requests, lastGen, portFile, misses, faults>>

ReleaseLease(t) ==
  /\ At(t, "release")
  /\ Result(t, 0)
  /\ Inside
  /\ UNCHANGED <<desired, entry, gate, requests, proc, lastGen, portFile, misses, faults>>

-----------------------------------------------------------------------------
(* The candidate is installed, so others may stop or condemn it while its  *)
(* creator waits for it to answer.  retire_instance_handoff is the         *)
(* creator's if nobody else has closed the gate.                           *)
Condemn(t) ==
  IF entry.gen = job[t].gen /\ Accepting(entry)
    THEN Go(t, "retire", job[t].gen, job[t].gen) /\ gate' = Closed(job[t].gen)
    ELSE Result(t, 0) /\ UNCHANGED gate

(* A stalled process still accepts the connection that is the whole test. *)
HealthOk(t) ==
  /\ At(t, "health")
  /\ proc[job[t].gen] \in {"serving", "hung"}
  /\ Go(t, "ready", job[t].gen, 0)
  /\ Inside
  /\ UNCHANGED <<desired, entry, gate, requests, proc, lastGen, portFile, misses, faults>>

(* alive_check finds the candidate gone, or the attempts are used up. *)
HealthFails(t) ==
  /\ At(t, "health")
  /\ IF entry.gen = job[t].gen /\ entry.held /\ proc[entry.gen] \in Up
       THEN Fault
       ELSE UNCHANGED faults
  /\ Condemn(t)
  /\ Inside
  /\ UNCHANGED <<desired, entry, requests, proc, lastGen, portFile, misses>>

MarkHealthy(t) ==
  /\ At(t, "ready")
  /\ IF desired /\ entry.gen = job[t].gen
       THEN /\ entry' = [entry EXCEPT !.healthy = TRUE]
            /\ Result(t, job[t].gen)
            /\ UNCHANGED gate
       ELSE Condemn(t) /\ UNCHANGED entry
  /\ Inside
  /\ UNCHANGED <<desired, requests, proc, lastGen, portFile, misses, faults>>

(* The permit is dropped when the call returns. *)
Return(t) ==
  /\ At(t, "return")
  /\ DropPermit(t)
  /\ IF t # Monitor /\ job[t].gen # 0 THEN Go(t, "publish", job[t].gen, 0)
                                      ELSE Go(t, "idle", 0, 0)
  /\ UNCHANGED <<desired, entry, gate, requests, proc, lastGen, portFile, misses, stopAll,
                 faults>>

(* publish_global_port_if_current: a lease of an ordinary request orders   *)
(* the write of the port file before any stop or replacement.              *)
Published(t) == IF t = Monitor THEN Go(t, "return", 0, 0) ELSE Go(t, "idle", 0, 0)
AdmitPublish(t) ==
  /\ At(t, "publish")
  /\ IF desired /\ entry.gen = job[t].gen /\ Running(entry) /\ Accepting(entry)
       THEN Go(t, "write", job[t].gen, job[t].gen)
       ELSE Published(t)
  /\ Inside
  /\ UNCHANGED <<desired, entry, gate, requests, proc, lastGen, portFile, misses, faults>>
WritePort(t) ==
  /\ At(t, "write")
  /\ portFile' = job[t].gen
  /\ Published(t)
  /\ Inside
  /\ UNCHANGED <<desired, entry, gate, requests, proc, lastGen, misses, faults>>

-----------------------------------------------------------------------------
(* retire_instance_handoff: wait for the requests, take the process, kill  *)
(* it and take the port file away, and only then remove the entry.         *)
RetireDrained(t) ==
  /\ At(t, "retire")
  /\ Drained(job[t].lease)
  /\ entry' = IF entry.gen = job[t].lease THEN [entry EXCEPT !.held = FALSE] ELSE entry
  /\ Go(t, "settle", job[t].gen, job[t].lease)
  /\ Inside
  /\ UNCHANGED <<desired, gate, requests, proc, lastGen, portFile, misses, faults>>

RetireKill(t) ==
  /\ At(t, "settle")
  /\ \/ proc' = Killed(job[t].lease) /\ UNCHANGED faults
     \/ proc[job[t].lease] \in Up /\ Fault /\ proc' = Doomed(job[t].lease)
  /\ portFile' = 0
  /\ Go(t, "detach", job[t].gen, job[t].lease)
  /\ Inside
  /\ UNCHANGED <<desired, entry, gate, requests, lastGen, misses>>

RetireDetach(t) ==
  /\ At(t, "detach")
  /\ entry' = IF entry.gen = job[t].lease THEN NoEntry ELSE entry
  /\ Done(t)
  /\ Inside
  /\ UNCHANGED <<desired, gate, requests, proc, lastGen, portFile, misses, faults>>

(* stop_tab_sidecar needs no permit.  Whoever closes the gate retires the  *)
(* entry, anyone else waits for the leases on it.                          *)
StopRequest(t) ==
  /\ At(t, "idle")
  /\ desired' = FALSE
  /\ IF Accepting(entry) THEN Go(t, "retire", entry.gen, entry.gen)
     ELSE IF entry.gen # 0 THEN Go(t, "wait", entry.gen, 0)
     ELSE UNCHANGED job
  /\ gate' = Closed(entry.gen)
  /\ Inside
  /\ UNCHANGED <<entry, requests, proc, lastGen, portFile, misses, faults>>

StopWaited(t) ==
  /\ At(t, "wait")
  /\ InFlight(job[t].gen) = 0
  /\ Go(t, "idle", 0, 0)
  /\ Inside
  /\ UNCHANGED <<desired, entry, gate, requests, proc, lastGen, portFile, misses, faults>>

-----------------------------------------------------------------------------
(* monitor_global_sidecar, one look per interval. *)
Reset == misses' = [gen |-> 0, count |-> 0]
Watching == UNCHANGED <<quiesceVars, desired, gate, requests, proc, lastGen, portFile,
                        stopAll, faults>>

(* Nothing to do: an update is in progress, nobody wants the process, it   *)
(* is being born or replaced, or it is young.                              *)
MonitorRests ==
  /\ At(Monitor, "idle")
  /\ \/ updateInProgress
     \/ ~desired
     \/ entry.gen # 0 /\ ~entry.held
     \/ entry.held /\ Alive(entry) /\ entry.young
  /\ Reset
  /\ Watching
  /\ UNCHANGED <<entry, job>>

(* The wanted process is missing or dead. *)
MonitorFindsDead ==
  /\ At(Monitor, "idle") /\ ~updateInProgress /\ desired
  /\ entry.gen = 0 \/ ~Alive(entry)
  /\ Reset
  /\ Go(Monitor, "restart", entry.gen, 0)
  /\ Watching
  /\ UNCHANGED entry

MonitorFindsAlive ==
  /\ At(Monitor, "idle") /\ ~updateInProgress /\ desired
  /\ entry.held /\ Alive(entry) /\ ~entry.young
  /\ Go(Monitor, "probe", entry.gen, 0)
  /\ Watching
  /\ UNCHANGED <<entry, misses>>

(* The HTTP probe, outside the mutex. *)
Probe ==
  /\ At(Monitor, "probe")
  /\ Go(Monitor, IF proc[job[Monitor].gen] = "serving" THEN "hit" ELSE "miss",
        job[Monitor].gen, 0)
  /\ Watching
  /\ UNCHANGED <<entry, misses>>

(* GLOBAL_HEALTH_FAIL_THRESHOLD misses of one generation in a row condemn  *)
(* it.  A result about a generation that is gone counts for nothing.       *)
Threshold == 2
Streak(g) == IF misses.gen = g THEN misses.count + 1 ELSE 1

Judge ==
  LET g == job[Monitor].gen
      condemned == At(Monitor, "miss") /\ entry.gen = g /\ Streak(g) >= Threshold
  IN /\ At(Monitor, "hit") \/ At(Monitor, "miss")
     /\ misses' = IF At(Monitor, "miss") /\ entry.gen = g /\ ~condemned
                    THEN [gen |-> g, count |-> Streak(g)] ELSE [gen |-> 0, count |-> 0]
     /\ IF condemned
          THEN entry' = [entry EXCEPT !.healthy = FALSE] /\ Go(Monitor, "restart", g, 0)
          ELSE Go(Monitor, "idle", 0, 0) /\ UNCHANGED entry
     /\ Watching

-----------------------------------------------------------------------------
(* stop_all_sidecars, called under the update guard or after the exit      *)
(* closed the birth gate.  prepare_stop_all closes the gate and keeps the  *)
(* entry.                                                                  *)
Licensed(x) == \/ x \in Updaters /\ updater[x] = "guarding"
               \/ x \in Exiters /\ exiter[x] = "done"
Stopping(x, step, g) == stopAll' = [stopAll EXCEPT ![x] = [step |-> step, gen |-> g]]
StopAllPrepare(x) ==
  /\ Licensed(x)
  /\ stopAll[x].step = "none"
  /\ gate' = Closed(entry.gen)
  /\ Stopping(x, "drain", entry.gen)
  /\ UNCHANGED <<quiesceVars, desired, entry, requests, proc, lastGen, portFile, job, misses,
                 faults>>

(* The requests and the leases are gone (the checkpoint of the browser     *)
(* host follows); the wish ends and the entry is taken out.                *)
StopAllTake(x) ==
  /\ stopAll[x].step = "drain"
  /\ stopAll[x].gen # 0 => InFlight(stopAll[x].gen) = 0
  /\ desired' = FALSE
  /\ gate' = Closed(entry.gen)
  /\ entry' = NoEntry
  /\ Stopping(x, "drop", entry.gen)
  /\ UNCHANGED <<quiesceVars, requests, proc, lastGen, portFile, job, misses, faults>>

(* SidecarRetirement::finish: the drop waits for the leases of the gate    *)
(* and starts the termination; the port file goes.                         *)
Bug_StopAllDrop(x) ==
  /\ stopAll[x].step = "drop"
  /\ stopAll[x].gen # 0 => InFlight(stopAll[x].gen) = 0
  /\ proc' = IF stopAll[x].gen = 0 THEN proc ELSE Doomed(stopAll[x].gen)
  /\ Stopping(x, "ended", 0)
  /\ UNCHANGED <<quiesceVars, desired, entry, gate, requests, lastGen, portFile, job, misses,
                 faults>>
StopAllDrop(x) ==
  /\ stopAll[x].step = "drop"
  /\ stopAll[x].gen # 0 => InFlight(stopAll[x].gen) = 0
  /\ proc' = IF stopAll[x].gen = 0 THEN proc ELSE Doomed(stopAll[x].gen)
  /\ portFile' = 0
  /\ Stopping(x, "ended", 0)
  /\ UNCHANGED <<quiesceVars, desired, entry, gate, requests, lastGen, job, misses, faults>>

(* settle_pending_tree_terminations, and the end of the application.  What *)
(* other threads would do after it is left in: they may be cut off         *)
(* anywhere.                                                               *)
Exit(x) ==
  /\ x \in Exiters
  /\ stopAll[x].step = "ended"
  /\ \A g \in Gens : proc[g] # "doomed"
  /\ Stopping(x, "exited", 0)
  /\ UNCHANGED <<quiesceVars, desired, entry, gate, requests, proc, lastGen, portFile, job,
                 misses, faults>>

(* The guard of the updater goes: with the stop done, or before it began   *)
(* because a terminal or a channel would not close.                        *)
EndUpdate(u) ==
  /\ stopAll[u].step \in {"none", "ended"}
  /\ DropUpdateGuard(u)
  /\ Stopping(u, "none", 0)
  /\ UNCHANGED <<desired, entry, gate, requests, proc, lastGen, portFile, job, misses, faults>>

(* The steps of the birth gate that concern nothing else. *)
QuiesceAlone ==
  /\ \/ \E u \in Updaters : BeginUpdate(u) \/ RetestUpdate(u)
     \/ \E x \in Exiters : BeginAppExit(x) \/ RetestExit(x)
     \/ SpuriousWake
  /\ UNCHANGED globalVars

-----------------------------------------------------------------------------
(* acquire_global_dispatch and the drop of its lease. *)
Outside == UNCHANGED <<quiesceVars, desired, lastGen, portFile, job, misses, stopAll>>
Request ==
  /\ Running(entry) /\ Accepting(entry)
  /\ requests[entry.gen] < MaxRequests
  /\ requests' = [requests EXCEPT ![entry.gen] = @ + 1]
  /\ Outside /\ UNCHANGED <<entry, gate, proc, faults>>
Respond(g) ==
  /\ requests[g] > 0
  /\ requests' = [requests EXCEPT ![g] = @ - 1]
  /\ Outside /\ UNCHANGED <<entry, gate, proc, faults>>

Becomes(g, from, to) == proc[g] = from /\ proc' = [proc EXCEPT ![g] = to]
Boot(g) == Becomes(g, "starting", "serving") /\ Outside /\ UNCHANGED <<entry, gate, requests, faults>>
Die(g) == Becomes(g, "doomed", "killed") /\ Outside /\ UNCHANGED <<entry, gate, requests, faults>>
Recover(g) == Becomes(g, "hung", "serving") /\ Outside /\ UNCHANGED <<entry, gate, requests, faults>>
Stall(g) == Fault /\ Becomes(g, "serving", "hung") /\ Outside /\ UNCHANGED <<entry, gate, requests>>
Crash(g) ==
  /\ Fault
  /\ \E s \in Up : Becomes(g, s, "crashed")
  /\ Outside /\ UNCHANGED <<entry, gate, requests>>

(* STARTUP_GRACE_SECS pass. *)
Age ==
  /\ entry.young /\ entry.held
  /\ entry' = [entry EXCEPT !.young = FALSE]
  /\ Outside /\ UNCHANGED <<gate, requests, proc, faults>>

Create(t) ==
  \/ DrainOld(t) \/ ReserveReplacement(t) \/ ReserveBirth(t) \/ KillOld(t) \/ Spawn(t)
  \/ InstallBirth(t) \/ InstallReplacement(t) \/ Discard(t) \/ ReleaseLease(t)
  \/ HealthOk(t) \/ MarkHealthy(t) \/ Return(t) \/ AdmitPublish(t) \/ WritePort(t)
Retire(t) == RetireDrained(t) \/ RetireKill(t) \/ RetireDetach(t)
Watch == MonitorFindsDead \/ MonitorFindsAlive \/ Probe \/ Judge \/ MonitorRestart

Next ==
  \/ \E t \in Starters : StartRequest(t)
  \/ \E t \in Creators : \/ Select(t) \/ Create(t) \/ HealthFails(t)
                         \/ PreambleFails(t) \/ SetupFails(t) \/ SpawnFails(t)
  \/ \E t \in Jobs : Retire(t)
  \/ \E t \in Stoppers : StopRequest(t) \/ StopWaited(t)
  \/ MonitorRests \/ Watch
  \/ \E x \in Stops : StopAllPrepare(x) \/ StopAllTake(x) \/ StopAllDrop(x) \/ Exit(x)
  \/ \E u \in Updaters : EndUpdate(u)
  \/ QuiesceAlone
  \/ Request \/ Age
  \/ \E g \in Gens : Respond(g) \/ Boot(g) \/ Die(g) \/ Recover(g) \/ Stall(g) \/ Crash(g)

(* What a thread does next inside its call, when nothing fails. *)
GoOn(t) ==
  \/ t \in Creators /\ \/ Select(t) \/ Create(t) \/ HealthFails(t)
                       \/ lastGen = MaxGen /\ SetupFails(t)
  \/ t = Monitor /\ Watch
  \/ t \in Stoppers /\ StopWaited(t)
  \/ Retire(t)
Shut(x) ==
  \/ StopAllPrepare(x) \/ StopAllTake(x) \/ StopAllDrop(x) \/ Exit(x)
  \/ x \in Updaters /\ EndUpdate(x)
  \/ x \in Updaters /\ RetestUpdate(x) /\ UNCHANGED globalVars
  \/ x \in Exiters /\ RetestExit(x) /\ UNCHANGED globalVars

(* A thread inside a call goes on, a process comes up or goes down, a      *)
(* request returns, the monitor looks again.  Nobody must start, stop,     *)
(* update or exit; nothing must fail or recover from a stall.              *)
Fairness ==
  /\ \A t \in Jobs : WF_vars(GoOn(t))
  /\ \A x \in Stops : WF_vars(Shut(x))
  /\ \A g \in Gens : WF_vars(Respond(g)) /\ WF_vars(Boot(g) \/ Die(g))
  /\ WF_vars(Age)

Spec == Init /\ [][Next]_vars
FairSpec == Spec /\ Fairness

-----------------------------------------------------------------------------
Quiet == /\ \A t \in Jobs : At(t, "idle")
         /\ \A x \in Stops : stopAll[x].step \in {"none", "ended", "exited"}

(* The singleton (types.rs, process_cmd.rs: the work of an old and a new    *)
(* process does not overlap): of the Global Sidecar at most one process    *)
(* runs that was not told to stop, but for a candidate its creator has     *)
(* given up and is about to tell.                                          *)
GivenUp(g) == \E t \in Creators : At(t, "discard") /\ job[t].gen = g
OneGlobal ==
  \A g, h \in Gens : proc[g] \in Up /\ proc[h] \in Up /\ g # h => GivenUp(g) \/ GivenUp(h)

(* The port file sends the command line to a port the manager still has on *)
(* its books, so never to a stranger that was given a freed port: whoever  *)
(* removes an entry takes the file away first, and nobody writes late.     *)
PortFileFresh ==
  portFile = 0 \/ portFile = entry.gen
    \/ \E x \in Stops : stopAll[x].step = "drop" /\ stopAll[x].gen = portFile

(* Once the wish has ended and every call has returned there is no entry,  *)
(* no process and no port file; and when the application exits, there is   *)
(* none but what another stop of everything has in hand, an update that    *)
(* the exit overtook.                                                      *)
StopSettles ==
  /\ ~desired /\ Quiet =>
       /\ entry = NoEntry /\ portFile = 0
       /\ \A g \in Gens : proc[g] \notin Up
  /\ (\E x \in Exiters : stopAll[x].step = "exited") =>
       /\ entry = NoEntry
       /\ \A g \in Gens : proc[g] \in Up =>
            \E y \in Stops : stopAll[y].step = "drop" /\ stopAll[y].gen = g

(* The Global Sidecar keeps the contract of its gate: whoever is admitted  *)
(* is answered before the process is told to stop.                         *)
Gate == INSTANCE DispatchGate WITH
  born <- {g \in Gens : gate[g] # "none"},
  accepting <- {g \in Gens : gate[g] = "open"},
  inFlight <- [g \in Gens |-> requests[g] + Cardinality({t \in Jobs : At(t, "write") /\ job[t].gen = g})],
  terminated <- {g \in Gens : proc[g] \in {"doomed", "killed"}}
GateContract == Gate!Spec

(* Nobody waits for ever: neither a start, a stop or an update for the     *)
(* requests and the leases of others, nor the exit.                        *)
EveryCallReturns ==
  /\ \A t \in Jobs \ {Monitor} : ~At(t, "idle") ~> At(t, "idle")
  /\ \A u \in Updaters : updater[u] # "idle" ~> updater[u] = "idle"
  /\ \A x \in Exiters : exiter[x] # "idle" ~> stopAll[x].step = "exited"

(* The monitor serves the standing wish.  Excepted is a process that was   *)
(* condemned and recovered before a failed restart.                        *)
Served == Running(entry) /\ Accepting(entry)
Shelved == entry.held /\ ~entry.healthy /\ proc[entry.gen] = "serving"
OutOfBounds == lastGen = MaxGen
WishServed == desired ~> Served \/ ~desired \/ updateInProgress \/ OutOfBounds \/ Shelved
-----------------------------------------------------------------------------
(* What the source's comments say and its interleavings do not keep *)

(* "A concurrent stop waits that same gate, so it cannot expose an         *)
(* authority gap or race a second process into the singleton slot": a      *)
(* replacement nobody wants any more gives up its entry before its         *)
(* candidate is told to stop, and a new start may take the place.          *)
OneProcess == \A g, h \in Gens : proc[g] \in Up /\ proc[h] \in Up => g = h

(* "A failed process candidate may disappear while the application still   *)
(* requires the Global service to be restored": a process the monitor      *)
(* condemned and whose restart failed may recover; its probes succeed, and *)
(* nobody marks it healthy again.                                          *)
WishServedAlways == desired ~> Served \/ ~desired \/ updateInProgress \/ OutOfBounds
=============================================================================
