--------------------------- MODULE SessionSidecar ---------------------------
(***************************************************************************)
(* The lifecycle of ONE product Session's Sidecar process, as kept by      *)
(* SidecarManager (src-tauri/src/sidecar/manager.rs) and driven by the     *)
(* operations of session_lifecycle.rs, the health monitor of instances.rs  *)
(* and the background-completion poller of background.rs.                  *)
(*                                                                         *)
(* An action is one critical section of the manager mutex.  Between two    *)
(* critical sections of one operation every other thread may run; what the *)
(* operation remembers across the gap is in `op', `bg', `monitor' and      *)
(* `drains'.  Two kinds of operation exist:                                *)
(*   - those holding the Session's lifecycle fence (ensure, the monitor's  *)
(*     recovery, delete, the release of a Tab): at most one runs, it is op;*)
(*   - those that take only the manager mutex (releases of the other       *)
(*     owners, reply admission, background completion, request dispatch).  *)
(*                                                                         *)
(* A process generation, its port, its dispatch gate and its Child are one *)
(* to one, so a generation stands for all four.  A recovery epoch stands   *)
(* for the generation whose displacement began it.                         *)
(*                                                                         *)
(* A definition Bug_D is a faulty variant of D, a mistake somebody could   *)
(* make; nothing uses it but the checks that a property notices it.        *)
(***************************************************************************)
EXTENDS Naturals, FiniteSets

CONSTANTS
  TabOwners,      \* SidecarOwner::Tab: acquired and released under the fence
  AgentOwners,    \* Agent, Task, Goal owners: acquired under the fence only
  ReplyOwners,    \* per-request owners of the IM reply router: never fenced
  Background,     \* the Session's one SidecarOwner::BackgroundCompletion
  NoOwner,
  MaxGen,         \* bound: process generations ever reserved
  MaxLeases,      \* bound: requests in flight to one process
  MaxFaults,      \* bound: crashes, failed boots, failed probes, refusals
  MaxAttempts     \* MAX_ENSURE_ATTEMPTS

Owners == TabOwners \cup AgentOwners \cup ReplyOwners \cup {Background}
Gens   == 1 .. MaxGen
NoGen  == 0

ASSUME BoundsAssumption ==
  /\ MaxGen \in Nat /\ MaxLeases \in Nat /\ MaxFaults \in Nat /\ MaxAttempts \in Nat
ASSUME OwnersAssumption ==
  /\ NoOwner \notin Owners
  /\ Background \notin TabOwners \cup AgentOwners \cup ReplyOwners

VARIABLES
  active,        \* sidecars[session]: the process that serves, or starts to
  recovering,    \* recovering_sidecars[session]: the displaced process
  generation,    \* sidecar_generations[session], NoGen when absent
  lastGen,       \* instance_counter
  accepting,     \* generations whose DispatchGate accepts
  inFlight,      \* DispatchGateState::in_flight of each generation
  proc,          \* the operating-system process of each generation
  turn,          \* the generation whose process is executing a turn
  detached,      \* entries taken out of the manager and not yet dropped
  drains,        \* SessionGenerationDrains a release thread waits on
  op,            \* the operation that holds the lifecycle fence
  monitor,       \* whether the health monitor has queued the Session
  bg,            \* the background-completion thread
  stored,        \* the Session's transcript exists
  faults         \* failures the environment has injected so far

entryVars == <<active, recovering, generation, lastGen>>
gateVars  == <<accepting, inFlight>>
procVars  == <<proc, turn, detached>>
vars == <<entryVars, gateVars, procVars, drains, op, monitor, bg, stored, faults>>

Entry == [gen : Gens \cup {NoGen}, state : {"Starting", "Healthy", "Dead"},
          owners : SUBSET Owners]
Recovery == [gen : Gens \cup {NoGen}, candidate : Gens \cup {NoGen},
             due : BOOLEAN, owners : SUBSET Owners]
Drain == [active : Gens \cup {NoGen}, recovering : Gens \cup {NoGen}]

NoEntry    == [gen |-> NoGen, state |-> "Dead", owners |-> {}]
NoRecovery == [gen |-> NoGen, candidate |-> NoGen, due |-> FALSE, owners |-> {}]
NoDrain    == [active |-> NoGen, recovering |-> NoGen]

OpKinds == {"none", "ensure", "recover", "delete", "releaseTab"}
OpSteps == {"none", "check", "probe", "replace", "await", "retire", "reap",
            "create", "boot", "discard", "commit",
            "dispatch",
            "activity", "recheck", "close", "kill", "confirm", "unlink",
            "releaseTabs"}
OperationRecord ==
  [kind : OpKinds, step : OpSteps, owner : Owners \cup {NoOwner},
   epoch : Gens \cup {NoGen}, gen : Gens \cup {NoGen}, drain : Drain,
   attempt : Nat, isNew : BOOLEAN, clear : BOOLEAN]
Operation == {o \in OperationRecord : o.kind = "ensure" => o.owner \in Owners}
BgThread == [step : {"none", "probe", "attach", "poll", "settle"},
             gen : Gens \cup {NoGen}, idle : BOOLEAN]
Idle == [kind |-> "none", step |-> "none", owner |-> NoOwner, epoch |-> NoGen,
         gen |-> NoGen, drain |-> NoDrain, attempt |-> 0, isNew |-> FALSE,
         clear |-> FALSE]

TypeOK ==
  /\ active \in Entry
  /\ recovering \in Recovery
  /\ generation \in Gens \cup {NoGen}
  /\ lastGen \in 0 .. MaxGen
  /\ accepting \in SUBSET Gens
  /\ inFlight \in [Gens -> 0 .. MaxLeases]
  /\ proc \in [Gens -> {"unborn", "running", "crashed", "terminated"}]
  /\ turn \in Gens \cup {NoGen}
  /\ detached \in SUBSET Gens
  /\ drains \in SUBSET Drain
  /\ op \in Operation
  /\ monitor \in {"idle", "queued"}
  /\ bg \in BgThread
  /\ stored \in BOOLEAN
  /\ faults \in 0 .. MaxFaults

Init ==
  /\ active = NoEntry
  /\ recovering = NoRecovery
  /\ generation = NoGen
  /\ lastGen = 0
  /\ accepting = {}
  /\ inFlight = [g \in Gens |-> 0]
  /\ proc = [g \in Gens |-> "unborn"]
  /\ turn = NoGen
  /\ detached = {}
  /\ drains = {}
  /\ op = Idle
  /\ monitor = "idle"
  /\ bg = [step |-> "none", gen |-> NoGen, idle |-> FALSE]
  /\ stored = TRUE
  /\ faults = 0

-----------------------------------------------------------------------------
(* Observations *)

Exited(g) == proc[g] \in {"crashed", "terminated"}
HasActive == active.gen # NoGen
HasRecovery == recovering.gen # NoGen

(* SessionSidecar::is_dead, which also records what try_wait reported. *)
IsDead == HasActive /\ (active.state = "Dead" \/ Exited(active.gen))
Observed == IF IsDead THEN [active EXCEPT !.state = "Dead"] ELSE active

Bug_IsReusable == HasActive /\ active.state = "Healthy"
IsReusable == HasActive /\ active.state = "Healthy" /\ active.gen \in accepting
IsReady == IsReusable /\ ~IsDead

(* session_owners: what the manager still owes the Session to. *)
Held == active.owners \cup recovering.owners

(* An owner may join a displaced entry unless it is being retired. *)
RecoveryAdmits ==
  HasRecovery /\ (recovering.owners # {} \/ recovering.gen \in accepting)

Bug_Drained(g) == TRUE
Drained(g) == g # NoGen => inFlight[g] = 0

(* The failures the environment may still inject. *)
Fault == faults < MaxFaults /\ faults' = faults + 1
NoFault == faults' = faults

Killed(S) == [g \in Gens |-> IF g \in S /\ proc[g] = "running" THEN "terminated" ELSE proc[g]]
TurnAfter(S) == IF turn \in S THEN NoGen ELSE turn

-----------------------------------------------------------------------------
(* Manager operations shared by several handlers *)

(* prepare_session_sidecar_replacement: close the active gate; the drain   *)
(* remembers which one.  Followed by step "replace".                       *)
Bug_PrepareReplacement(o) ==
  /\ UNCHANGED accepting
  /\ op' = [o EXCEPT !.step = "replace",
                     !.drain = [active |-> active.gen, recovering |-> NoGen]]
PrepareReplacement(o) ==
  /\ accepting' = accepting \ {active.gen}
  /\ op' = [o EXCEPT !.step = "replace",
                     !.drain = [active |-> active.gen, recovering |-> NoGen]]

(* finish_session_sidecar_replacement for the drain d: the entry becomes   *)
(* the recovery authority, or joins the one that is there and is dropped   *)
(* under the manager mutex.  A drain whose entry is gone does nothing.     *)
FinishReplacement(d) ==
  IF ~HasActive \/ active.gen # d.active
    THEN UNCHANGED <<active, recovering, proc, turn>>
    ELSE /\ active' = NoEntry
         /\ IF HasRecovery
              THEN /\ recovering' = [recovering EXCEPT !.owners = @ \cup active.owners]
                   /\ proc' = Killed({active.gen})
                   /\ turn' = TurnAfter({active.gen})
              ELSE /\ recovering' = [gen |-> active.gen, candidate |-> NoGen,
                                     due |-> TRUE, owners |-> active.owners]
                   /\ UNCHANGED <<proc, turn>>

(* prepare_unowned_session_retirement: the gates of what is left. *)
UnownedDrain == [active |-> active.gen, recovering |-> recovering.gen]

(* remove_session_owner for a set of owners: the last one closes every     *)
(* gate, and the caller goes on to wait for the drain: on a thread of its  *)
(* own, or as the fence holder.                                            *)
Bug_LastRemoved(S) == Held \cap S # {}
LastRemoved(S) == Held \cap S # {} /\ Held \subseteq S
RemoveOwners(S) ==
  /\ active' = [active EXCEPT !.owners = @ \ S]
  /\ recovering' = [recovering EXCEPT !.owners = @ \ S]
  /\ accepting' = IF LastRemoved(S) THEN accepting \ {active.gen, recovering.gen}
                                    ELSE accepting

Release(S) ==
  /\ RemoveOwners(S)
  /\ drains' = IF LastRemoved(S) THEN drains \cup {UnownedDrain} ELSE drains
  /\ UNCHANGED op

FencedRelease(S) ==
  /\ RemoveOwners(S)
  /\ op' = IF LastRemoved(S)
              THEN [Idle EXCEPT !.kind = "releaseTab", !.step = "retire", !.drain = UnownedDrain]
              ELSE Idle
  /\ UNCHANGED drains

(* finish_unowned_session_retirement for the drain d: only the entries it  *)
(* named are taken out, and none while the Session has an owner.           *)
Bug_Retired(d) == {active.gen, recovering.gen} \ {NoGen}
Retired(d) ==
  IF Held # {} THEN {}
  ELSE {g \in Gens : \/ g = active.gen /\ g = d.active
                     \/ g = recovering.gen /\ g = d.recovering}

FinishUnowned(d) ==
  /\ active' = IF active.gen \in Retired(d) THEN NoEntry ELSE active
  /\ recovering' = IF recovering.gen \in Retired(d) THEN NoRecovery ELSE recovering
  /\ generation' = IF Held = {} /\ {active.gen, recovering.gen} \subseteq Retired(d) \cup {NoGen}
                     THEN NoGen ELSE generation
  /\ detached' = detached \cup Retired(d)

(* record_session_recovery_failure; a recovery's own epoch must match. *)
RecordFailure ==
  recovering' = IF HasRecovery /\ (op.kind = "recover" => op.epoch = recovering.gen)
                  THEN [recovering EXCEPT !.due = FALSE] ELSE recovering

(* recovery_attempt_is_authorized; a plain ensure expects no epoch. *)
Authorized ==
  op.kind = "recover" =>
    IF HasRecovery THEN recovering.gen = op.epoch /\ op.owner \in recovering.owners
                   ELSE op.owner \in active.owners

Step(s) == op' = [op EXCEPT !.step = s]
Retry == op' = [op EXCEPT !.step = "check", !.attempt = @ + 1, !.gen = NoGen,
                          !.drain = NoDrain, !.clear = FALSE]
Finish == op' = Idle

-----------------------------------------------------------------------------
(* Requests, turns and processes *)

(* acquire_session_dispatch and acquire_frontend_session_dispatch: one     *)
(* lease on the ready process; looking for it notices a process that died. *)
AcquireDispatch ==
  /\ IsReady
  /\ inFlight[active.gen] < MaxLeases
  /\ inFlight' = [inFlight EXCEPT ![active.gen] = @ + 1]
  /\ UNCHANGED <<entryVars, accepting, procVars, drains, op, monitor, bg, stored, faults>>

NoticeDeath ==
  /\ IsDead /\ active.state # "Dead"
  /\ active' = Observed
  /\ UNCHANGED <<recovering, generation, lastGen, gateVars, procVars, drains, op,
                 monitor, bg, stored, faults>>

(* Drop of the lease: the response is read, or the request has failed. *)
DropLease(g) ==
  /\ inFlight[g] > 0
  /\ inFlight' = [inFlight EXCEPT ![g] = @ - 1]
  /\ UNCHANGED <<entryVars, accepting, procVars, drains, op, monitor, bg, stored, faults>>

(* An admitted request makes the process start a turn, which outlives it. *)
BeginTurn(g) ==
  /\ inFlight[g] > 0 /\ proc[g] = "running" /\ turn = NoGen
  /\ turn' = g
  /\ UNCHANGED <<entryVars, gateVars, proc, detached, drains, op, monitor, bg, stored, faults>>

EndTurn ==
  /\ turn # NoGen
  /\ turn' = NoGen
  /\ UNCHANGED <<entryVars, gateVars, proc, detached, drains, op, monitor, bg, stored, faults>>

Crash(g) ==
  /\ Fault
  /\ proc[g] = "running"
  /\ proc' = [proc EXCEPT ![g] = "crashed"]
  /\ turn' = TurnAfter({g})
  /\ UNCHANGED <<entryVars, gateVars, detached, drains, op, monitor, bg, stored>>

(* SessionSidecar::drop outside the mutex: wait for the gate, then kill. *)
Bug_DropDetached(g) ==
  /\ g \in detached /\ Drained(g)
  /\ detached' = detached \ {g}
  /\ UNCHANGED <<entryVars, gateVars, proc, turn, drains, op, monitor, bg, stored, faults>>
DropDetached(g) ==
  /\ g \in detached
  /\ Drained(g)
  /\ detached' = detached \ {g}
  /\ proc' = Killed({g})
  /\ turn' = TurnAfter({g})
  /\ UNCHANGED <<entryVars, gateVars, drains, op, monitor, bg, stored, faults>>

-----------------------------------------------------------------------------
(* Owners that come and go without the fence *)

(* remove_session_owner by release_session_sidecar, and the browser-host   *)
(* request that separates the drain from its completion.                   *)
ReleaseOwner(o) ==
  /\ o \in Held
  /\ Release({o})
  /\ UNCHANGED <<generation, lastGen, inFlight, procVars, monitor, bg, stored, faults>>

(* finish_session_owner_release after both waits. *)
FinishOwnerRelease(d) ==
  /\ d \in drains
  /\ Drained(d.active) /\ Drained(d.recovering)
  /\ FinishUnowned(d)
  /\ drains' = drains \ {d}
  /\ UNCHANGED <<lastGen, gateVars, proc, turn, op, monitor, bg, stored, faults>>

(* add_session_owner_to_generation: a reply slot of a consumer that knows  *)
(* this generation from a finished ensure.                                 *)
AdmitReply(o) ==
  /\ HasActive /\ active.state # "Starting"
  /\ active.gen = generation /\ active.gen \in accepting
  /\ o \notin active.owners
  /\ active' = [active EXCEPT !.owners = @ \cup {o}]
  /\ recovering' = IF RecoveryAdmits THEN [recovering EXCEPT !.owners = @ \cup {o}]
                                     ELSE recovering
  /\ UNCHANGED <<generation, lastGen, gateVars, procVars, drains, op, monitor, bg,
                 stored, faults>>

-----------------------------------------------------------------------------
(* The blocking ensure kernel, under the fence: ensure_session_sidecar_... *)
(* and ensure_session_sidecar_attempt, create_new_session_sidecar          *)

Ensuring(s) == op.kind \in {"ensure", "recover"} /\ op.step = s

(* A new owner asks for the Session.  The bound leaves a generation for    *)
(* every failure still to come.                                            *)
EnsureBegin(o) ==
  /\ op = Idle
  /\ lastGen + (MaxFaults - faults) < MaxGen
  /\ op' = [Idle EXCEPT !.kind = "ensure", !.step = "check", !.owner = o]
  /\ UNCHANGED <<entryVars, gateVars, procVars, drains, monitor, bg, stored, faults>>

(* The attempt failed: it is recorded against the recovery and reported. *)
EnsureExhausted ==
  /\ Ensuring("check")
  /\ op.attempt >= MaxAttempts
  /\ RecordFailure
  /\ Finish
  /\ UNCHANGED <<active, generation, lastGen, gateVars, procVars, drains, monitor, bg,
                 stored, faults>>

(* RECOVERY_ATTEMPT_STALE: the selected owner left meanwhile.  Tested at   *)
(* every critical section of the attempt; nothing is recorded.             *)
EnsureStale ==
  /\ Ensuring("check") \/ Ensuring("probe") \/ (Ensuring("create") /\ ~HasActive)
  /\ op.step = "check" => op.attempt < MaxAttempts
  /\ ~Authorized
  /\ Finish
  /\ UNCHANGED <<entryVars, gateVars, procVars, drains, monitor, bg, stored, faults>>

Checking == Ensuring("check") /\ op.attempt < MaxAttempts /\ Authorized

CheckAbsent ==
  /\ Checking /\ ~HasActive
  /\ Step("create")
  /\ UNCHANGED <<entryVars, gateVars, procVars, drains, monitor, bg, stored, faults>>

CheckDead ==
  /\ Checking /\ IsDead
  /\ active' = Observed
  /\ PrepareReplacement(op)
  /\ UNCHANGED <<recovering, generation, lastGen, inFlight, procVars, drains, monitor,
                 bg, stored, faults>>

(* A ready process is probed over HTTP with the mutex released. *)
CheckReusable ==
  /\ Checking /\ ~IsDead /\ IsReusable
  /\ op' = [op EXCEPT !.step = "probe", !.gen = generation]
  /\ UNCHANGED <<entryVars, gateVars, procVars, drains, monitor, bg, stored, faults>>

(* Runtime drift: the process runs another runtime than the Session's      *)
(* metadata names; it is displaced and the generation forgotten.  (Counted *)
(* as a fault: the change of metadata is not part of this module.)         *)
CheckDrift ==
  /\ Checking /\ ~IsDead /\ IsReusable
  /\ Fault
  /\ PrepareReplacement([op EXCEPT !.clear = TRUE])
  /\ UNCHANGED <<entryVars, inFlight, procVars, drains, monitor, bg, stored>>

(* Admission is closed: help the retirement that closed it, then retry. *)
CheckDraining ==
  /\ Checking /\ HasActive /\ ~IsDead
  /\ active.state = "Healthy" /\ active.gen \notin accepting
  /\ op' = [op EXCEPT !.step = "await",
                      !.drain = [active |-> active.gen, recovering |-> NoGen]]
  /\ UNCHANGED <<entryVars, gateVars, procVars, drains, monitor, bg, stored, faults>>

(* finish_unowned_session_after_drain, its first wait ... *)
AwaitDrained ==
  /\ Ensuring("await") /\ Drained(op.drain.active)
  /\ IF Held = {} /\ (HasActive \/ HasRecovery)
       THEN /\ accepting' = accepting \ {active.gen, recovering.gen}
            /\ op' = [op EXCEPT !.step = "retire", !.drain = UnownedDrain]
       ELSE Retry /\ UNCHANGED accepting
  /\ UNCHANGED <<entryVars, inFlight, procVars, drains, monitor, bg, stored, faults>>

(* ... its second wait, and the removal (finish_session_owner_release of a *)
(* fenced release is these two steps) ...                                  *)
RetireUnowned ==
  /\ op.step = "retire"
  /\ Drained(op.drain.active) /\ Drained(op.drain.recovering)
  /\ FinishUnowned(op.drain)
  /\ op' = [op EXCEPT !.step = "reap",
                      !.drain = [active |-> IF @.active \in Retired(@) THEN @.active ELSE NoGen,
                                 recovering |-> IF @.recovering \in Retired(@) THEN @.recovering ELSE NoGen]]
  /\ UNCHANGED <<lastGen, gateVars, proc, turn, drains, monitor, bg, stored, faults>>

(* ... and the drop of what was removed. *)
ReapRetired ==
  /\ op.step = "reap"
  /\ op.drain.active \notin detached /\ op.drain.recovering \notin detached
  /\ CASE op.kind \in {"ensure", "recover"} -> Retry
       [] op.kind = "delete" -> Step("unlink")
       [] OTHER -> Finish
  /\ UNCHANGED <<entryVars, gateVars, procVars, drains, monitor, bg, stored, faults>>

(* The answer of the probe.  It may be older than a crash. *)
ProbeReplaced ==
  /\ Ensuring("probe") /\ Authorized
  /\ generation # op.gen
  /\ active' = Observed
  /\ IF HasActive /\ ~IsDead THEN Retry ELSE Step("create")
  /\ UNCHANGED <<recovering, generation, lastGen, gateVars, procVars, drains, monitor,
                 bg, stored, faults>>

ProbeHealthy ==
  /\ Ensuring("probe") /\ Authorized
  /\ generation = op.gen
  /\ IF IsReusable
       THEN /\ active' = [active EXCEPT !.owners = @ \cup {op.owner}]
            /\ Step("commit")
       ELSE Step("create") /\ UNCHANGED active
  /\ UNCHANGED <<recovering, generation, lastGen, gateVars, procVars, drains, monitor,
                 bg, stored, faults>>

ProbeUnhealthy ==
  /\ Ensuring("probe") /\ Authorized
  /\ generation = op.gen
  /\ IF op.gen # NoGen /\ Exited(op.gen) THEN NoFault ELSE Fault
  /\ IF HasActive
       THEN PrepareReplacement(op)
       ELSE Step("create") /\ UNCHANGED accepting
  /\ UNCHANGED <<entryVars, inFlight, procVars, drains, monitor, bg, stored>>

(* replace_session_sidecar_after_drain, begin_dead_session_recovery and    *)
(* retire_session_writer: the wait, and the move into recovery.            *)
ReplaceDrained ==
  /\ op.step = "replace"
  /\ Drained(op.drain.active)
  /\ FinishReplacement(op.drain)
  /\ generation' = IF op.clear THEN NoGen ELSE generation
  /\ op' = [op EXCEPT !.drain = NoDrain, !.clear = FALSE,
                      !.step = CASE op.kind = "delete" -> "kill"
                                 [] op.kind = "recover" /\ op.owner = NoOwner -> "dispatch"
                                 [] OTHER -> "create"]
  /\ UNCHANGED <<lastGen, gateVars, detached, drains, monitor, bg, stored, faults>>

(* create_new_session_sidecar finds an entry that appeared meanwhile ... *)
CreateRetry ==
  /\ Ensuring("create") /\ HasActive /\ ~IsDead
  /\ Retry
  /\ UNCHANGED <<entryVars, gateVars, procVars, drains, monitor, bg, stored, faults>>

(* ... or a dead one, displaced first ... *)
CreateDead ==
  /\ Ensuring("create") /\ IsDead
  /\ active' = Observed
  /\ PrepareReplacement(op)
  /\ UNCHANGED <<recovering, generation, lastGen, inFlight, procVars, drains, monitor,
                 bg, stored, faults>>

(* ... or none: it reserves a generation, on the recovery too ... *)
Reserve ==
  /\ Ensuring("create") /\ ~HasActive /\ Authorized
  /\ lastGen < MaxGen
  /\ lastGen' = lastGen + 1

Candidate(r) == IF r.gen # NoGen THEN [r EXCEPT !.candidate = lastGen + 1] ELSE r

(* ... and spawns, and publishes the process as Starting with its owner. *)
CreateSpawned ==
  /\ Reserve
  /\ generation' = lastGen + 1
  /\ recovering' = Candidate(recovering)
  /\ active' = [gen |-> lastGen + 1, state |-> "Starting", owners |-> {op.owner}]
  /\ accepting' = accepting \cup {lastGen + 1}
  /\ proc' = [proc EXCEPT ![lastGen + 1] = "running"]
  /\ op' = [op EXCEPT !.step = "boot", !.gen = lastGen + 1, !.isNew = TRUE]
  /\ UNCHANGED <<inFlight, turn, detached, drains, monitor, bg, stored, faults>>

(* The spawn fails, or the process is gone at the first try_wait. *)
CreateFailed ==
  /\ Reserve
  /\ Fault
  /\ generation' = NoGen
  /\ recovering' = IF HasRecovery
                     THEN [Candidate(recovering) EXCEPT
                             !.due = IF op.kind = "recover" /\ op.epoch # recovering.gen
                                       THEN @ ELSE FALSE]
                     ELSE recovering
  /\ Finish
  /\ UNCHANGED <<active, gateVars, procVars, drains, monitor, bg, stored>>

(* wait_for_health and wait_for_readiness succeed.  Their answer may be    *)
(* older than a crash, or than the death that a request has recorded.      *)
Bug_BootReady ==
  /\ Ensuring("boot")
  /\ Step("commit")
  /\ UNCHANGED <<entryVars, gateVars, procVars, drains, monitor, bg, stored, faults>>
BootReady ==
  /\ Ensuring("boot")
  /\ active' = IF active.gen = op.gen THEN [active EXCEPT !.state = "Healthy"] ELSE active
  /\ Step("commit")
  /\ UNCHANGED <<recovering, generation, lastGen, gateVars, procVars, drains, monitor,
                 bg, stored, faults>>

(* They fail: the process died, its entry was retired, or time ran out.    *)
(* remove_sidecar takes out the entry if it is still this process's.       *)
BootFailed ==
  /\ Ensuring("boot")
  /\ IF Exited(op.gen) \/ active.gen # op.gen THEN NoFault ELSE Fault
  /\ accepting' = accepting \ {op.gen}
  /\ IF HasActive /\ active.gen = op.gen
       THEN active' = NoEntry /\ detached' = detached \cup {op.gen}
       ELSE UNCHANGED <<active, detached>>
  /\ Step("discard")
  /\ UNCHANGED <<recovering, generation, lastGen, inFlight, proc, turn, drains, monitor,
                 bg, stored>>

(* The failed process is dropped before the failure is reported. *)
BootDiscarded ==
  /\ Ensuring("discard") /\ op.gen \notin detached
  /\ RecordFailure
  /\ Finish
  /\ UNCHANGED <<active, generation, lastGen, gateVars, procVars, drains, monitor, bg,
                 stored, faults>>

(* commit_ready_session_sidecar: the ready process takes over the owners   *)
(* the recovery retained, and the displaced process is dropped under the   *)
(* mutex.  Reuse of a process with no recovery needs no commit.            *)
CanCommit ==
  /\ HasActive /\ active.state = "Healthy"
  /\ HasRecovery => recovering.candidate = generation

Bug_Commit ==
  /\ Ensuring("commit")
  /\ op.isNew \/ HasRecovery
  /\ CanCommit
  /\ recovering' = NoRecovery
  /\ proc' = Killed({recovering.gen})
  /\ turn' = TurnAfter({recovering.gen} \ {NoGen})
  /\ Finish
  /\ UNCHANGED <<active, generation, lastGen, gateVars, detached, drains, monitor, bg,
                 stored, faults>>
Commit ==
  /\ Ensuring("commit")
  /\ op.isNew \/ HasRecovery
  /\ CanCommit
  /\ active' = [active EXCEPT !.owners = @ \cup recovering.owners]
  /\ recovering' = NoRecovery
  /\ proc' = Killed({recovering.gen})
  /\ turn' = TurnAfter({recovering.gen} \ {NoGen})
  /\ Finish
  /\ UNCHANGED <<generation, lastGen, gateVars, detached, drains, monitor, bg, stored, faults>>

CommitReused ==
  /\ Ensuring("commit")
  /\ ~op.isNew /\ ~HasRecovery
  /\ Finish
  /\ UNCHANGED <<entryVars, gateVars, procVars, drains, monitor, bg, stored, faults>>

CommitRejected ==
  /\ Ensuring("commit")
  /\ op.isNew \/ HasRecovery
  /\ ~CanCommit
  /\ RecordFailure
  /\ Finish
  /\ UNCHANGED <<active, generation, lastGen, gateVars, procVars, drains, monitor, bg,
                 stored, faults>>

EnsureStep ==
  \/ EnsureExhausted \/ EnsureStale
  \/ CheckAbsent \/ CheckDead \/ CheckReusable \/ CheckDrift \/ CheckDraining
  \/ AwaitDrained \/ ProbeReplaced \/ ProbeHealthy \/ ProbeUnhealthy
  \/ CreateRetry \/ CreateDead \/ CreateSpawned \/ CreateFailed
  \/ BootReady \/ BootFailed \/ BootDiscarded
  \/ Commit \/ CommitReused \/ CommitRejected

-----------------------------------------------------------------------------
(* The health monitor: monitor_session_sidecars *)

(* due_session_recoveries, taken without the fence.  The monitor is one    *)
(* task: it does not scan while it recovers.                               *)
Bug_IsDue == IsDead /\ active.owners # {}
IsDue ==
  \/ IsDead /\ active.owners # {}
  \/ HasRecovery /\ recovering.owners # {} /\ recovering.due

MonitorScan ==
  /\ monitor = "idle" /\ op.kind # "recover"
  /\ IsDue
  /\ monitor' = "queued"
  /\ active' = Observed
  /\ UNCHANGED <<recovering, generation, lastGen, gateVars, procVars, drains, op, bg,
                 stored, faults>>

(* The fence is acquired, and begin_dead_session_recovery displaces        *)
(* whatever process the Session has by then.                               *)
MonitorBegin ==
  /\ monitor = "queued" /\ op = Idle
  /\ lastGen < MaxGen
  /\ monitor' = "idle"
  /\ LET o == [Idle EXCEPT !.kind = "recover"]
     IN IF HasActive
          THEN PrepareReplacement(o)
          ELSE op' = [o EXCEPT !.step = "dispatch"] /\ UNCHANGED accepting
  /\ UNCHANGED <<entryVars, inFlight, procVars, drains, bg, stored, faults>>

(* recovery_restart_identity: any retained owner will do. *)
Bug_MonitorDispatch ==
  /\ op.kind = "recover" /\ op.step = "dispatch"
  /\ IF HasRecovery /\ recovering.owners # {} /\ recovering.due
       THEN \E o \in recovering.owners :
              op' = [op EXCEPT !.step = "check", !.owner = o, !.epoch = recovering.gen]
       ELSE UNCHANGED op
  /\ UNCHANGED <<entryVars, gateVars, procVars, drains, monitor, bg, stored, faults>>
MonitorDispatch ==
  /\ op.kind = "recover" /\ op.step = "dispatch"
  /\ IF HasRecovery /\ recovering.owners # {} /\ recovering.due
       THEN \E o \in recovering.owners :
              op' = [op EXCEPT !.step = "check", !.owner = o, !.epoch = recovering.gen]
       ELSE Finish
  /\ UNCHANGED <<entryVars, gateVars, procVars, drains, monitor, bg, stored, faults>>

(* next_retry_at passes. *)
RetryClock ==
  /\ HasRecovery /\ ~recovering.due
  /\ recovering' = [recovering EXCEPT !.due = TRUE]
  /\ UNCHANGED <<active, generation, lastGen, gateVars, procVars, drains, op, monitor,
                 bg, stored, faults>>

-----------------------------------------------------------------------------
(* Background completion: start_background_completion and its poller *)

NoBg == [step |-> "none", gen |-> NoGen, idle |-> FALSE]

(* reusable_session_binding: the process whose activity is to be probed. *)
BgBind ==
  /\ bg = NoBg
  /\ generation # NoGen /\ IsReady
  /\ bg' = [NoBg EXCEPT !.step = "probe", !.gen = generation]
  /\ UNCHANGED <<entryVars, gateVars, procVars, drains, op, monitor, stored, faults>>

(* check_sidecar_is_busy, outside the mutex: only a busy Session is kept. *)
BgProbe ==
  /\ bg.step = "probe"
  /\ bg' = IF turn = bg.gen THEN [bg EXCEPT !.step = "attach"] ELSE NoBg
  /\ UNCHANGED <<entryVars, gateVars, procVars, drains, op, monitor, stored, faults>>

(* attach_background_owner_if_current, and when the probed process is no   *)
(* longer current attach_background_owner_to_logical_session.              *)
AttachIfCurrent ==
  /\ IsReady
  /\ active' = [active EXCEPT !.owners = @ \cup {Background}]
  /\ recovering' = IF HasRecovery THEN [recovering EXCEPT !.owners = @ \cup {Background}]
                                  ELSE recovering

AttachLogical ==
  CASE Background \in Held -> UNCHANGED <<active, recovering>>
    [] Background \notin Held /\ IsReady /\ generation # NoGen -> AttachIfCurrent
    [] Background \notin Held /\ ~(IsReady /\ generation # NoGen) /\ IsDead /\ ~HasRecovery ->
         active' = [Observed EXCEPT !.owners = @ \cup {Background}] /\ UNCHANGED recovering
    [] OTHER -> UNCHANGED active /\
         recovering' = IF RecoveryAdmits THEN [recovering EXCEPT !.owners = @ \cup {Background}]
                                         ELSE recovering

BgAttach ==
  /\ bg.step = "attach"
  /\ IF generation = bg.gen /\ IsReady
       THEN IF Background \in active.owners THEN UNCHANGED <<active, recovering>>
                                            ELSE AttachIfCurrent
       ELSE AttachLogical
  /\ bg' = IF Background \in Held \/ Background \notin active'.owners \cup recovering'.owners
             THEN NoBg
             ELSE [NoBg EXCEPT !.step = "poll"]
  /\ UNCHANGED <<generation, lastGen, gateVars, procVars, drains, op, monitor, stored, faults>>

(* start_headless_background_completion: a delivered message needs an      *)
(* owner at once; no probe.                                                *)
BgHeadless ==
  /\ bg = NoBg
  /\ Background \notin Held /\ (HasActive \/ HasRecovery)
  /\ AttachLogical
  /\ bg' = IF Background \in active'.owners \cup recovering'.owners
             THEN [NoBg EXCEPT !.step = "poll"] ELSE NoBg
  /\ UNCHANGED <<generation, lastGen, gateVars, procVars, drains, op, monitor, stored, faults>>

(* background_poll_target: during a recovery the owner waits. *)
BgPoll ==
  /\ bg.step = "poll"
  /\ active' = IF Background \notin recovering.owners /\ Background \in active.owners
                 THEN Observed ELSE active
  /\ CASE Background \in recovering.owners -> UNCHANGED bg
       [] Background \notin recovering.owners /\ Background \in active.owners ->
            IF IsDead THEN UNCHANGED bg
            ELSE \E idle \in {turn # generation, FALSE} :
                   bg' = [step |-> "settle", gen |-> generation, idle |-> idle]
       [] OTHER -> bg' = NoBg
  /\ UNCHANGED <<recovering, generation, lastGen, gateVars, procVars, drains, op,
                 monitor, stored, faults>>

(* background_binding_is_current, for the process that answered. *)
Bug_BindingIsCurrent == Background \in active.owners /\ ~IsDead
BindingIsCurrent ==
  generation = bg.gen /\ Background \in active.owners /\ ~IsDead

(* The answer is consumed: an idle process, or one that stayed unreachable *)
(* (a fault), lets the owner go (release_background_owner_if_current); an  *)
(* answer of a process that is not current any more is discarded.          *)
BgSettle ==
  /\ bg.step = "settle"
  /\ ~BindingIsCurrent \/ ~bg.idle
  /\ active' = IF generation = bg.gen /\ Background \in active.owners THEN Observed ELSE active
  /\ bg' = [NoBg EXCEPT !.step = "poll"]
  /\ UNCHANGED <<recovering, generation, lastGen, gateVars, procVars, drains, op,
                 monitor, stored, faults>>

BgRelease ==
  /\ bg.step = "settle"
  /\ BindingIsCurrent
  /\ IF bg.idle THEN NoFault ELSE Fault
  /\ Release({Background})
  /\ bg' = NoBg
  /\ UNCHANGED <<generation, lastGen, inFlight, procVars, monitor, stored>>

(* BG_MAX_DURATION_SECS is over: released whatever the process does. *)
Bug_BgTimeout ==
  /\ bg.step = "poll" /\ turn # generation
  /\ Release({Background})
  /\ bg' = NoBg
  /\ UNCHANGED <<generation, lastGen, inFlight, procVars, monitor, stored, faults>>
BgTimeout ==
  /\ bg.step = "poll"
  /\ Release({Background})
  /\ bg' = NoBg
  /\ UNCHANGED <<generation, lastGen, inFlight, procVars, monitor, stored, faults>>

(* reconcile_session_tab_activation: a Tab took over, no drain follows. *)
ReconcileTab ==
  /\ IsReusable /\ active.owners \cap TabOwners # {}
  /\ Background \in Held
  /\ active' = [active EXCEPT !.owners = @ \ {Background}]
  /\ recovering' = [recovering EXCEPT !.owners = @ \ {Background}]
  /\ UNCHANGED <<generation, lastGen, gateVars, procVars, drains, op, monitor, bg,
                 stored, faults>>

-----------------------------------------------------------------------------
(* Fenced release of a Tab: cmd_release_tab_session *)

ReleaseTab(o) ==
  /\ op = Idle
  /\ o \in Held
  /\ FencedRelease({o})
  /\ UNCHANGED <<generation, lastGen, inFlight, procVars, monitor, bg, stored, faults>>

-----------------------------------------------------------------------------
(* cmd_delete_session_if_unowned, under the fence.  App names every Tab it *)
(* has mounted as releasable.                                              *)

Deleting(s) == op.kind = "delete" /\ op.step = s

DeleteBegin ==
  /\ op = Idle
  /\ Held \subseteq TabOwners
  /\ op' = [Idle EXCEPT !.kind = "delete", !.step = IF IsReusable THEN "activity" ELSE "recheck"]
  /\ UNCHANGED <<entryVars, gateVars, procVars, drains, monitor, bg, stored, faults>>

(* Any refusal: busy, activity or authority unavailable, an owner, a       *)
(* writer that would not exit, storage that would not delete.              *)
DeleteRefused ==
  /\ \/ Deleting("activity") /\ turn # NoGen /\ NoFault
     \/ Deleting("recheck") /\ ~(Held \subseteq TabOwners) /\ NoFault
     \/ op.kind = "delete" /\ op.step \in {"activity", "recheck", "kill", "unlink"} /\ Fault
  /\ Finish
  /\ UNCHANGED <<entryVars, gateVars, procVars, drains, monitor, bg, stored>>

DeleteActivity ==
  /\ Deleting("activity") /\ turn = NoGen
  /\ Step("recheck")
  /\ UNCHANGED <<entryVars, gateVars, procVars, drains, monitor, bg, stored, faults>>

DeleteRecheck ==
  /\ Deleting("recheck") /\ Held \subseteq TabOwners
  /\ Step("close")
  /\ UNCHANGED <<entryVars, gateVars, procVars, drains, monitor, bg, stored, faults>>

(* retire_session_writer: displace what is active ... *)
Bug_DeleteClose ==
  /\ Deleting("close")
  /\ Step("kill")
  /\ UNCHANGED <<entryVars, gateVars, procVars, drains, monitor, bg, stored, faults>>
DeleteClose ==
  /\ Deleting("close")
  /\ IF HasActive THEN PrepareReplacement(op) ELSE Step("kill") /\ UNCHANGED accepting
  /\ UNCHANGED <<entryVars, inFlight, procVars, drains, monitor, bg, stored, faults>>

(* ... kill the displaced process ... *)
DeleteKill ==
  /\ Deleting("kill")
  /\ proc' = Killed({recovering.gen})
  /\ turn' = TurnAfter({recovering.gen} \ {NoGen})
  /\ Step("confirm")
  /\ UNCHANGED <<entryVars, gateVars, detached, drains, monitor, bg, stored, faults>>

(* ... and, once it has exited, finish a retirement that has no owner.     *)
DeleteConfirm ==
  /\ Deleting("confirm")
  /\ HasRecovery => Exited(recovering.gen)
  /\ IF Held = {} /\ (HasActive \/ HasRecovery)
       THEN /\ accepting' = accepting \ {active.gen, recovering.gen}
            /\ op' = [op EXCEPT !.step = "retire", !.drain = UnownedDrain]
       ELSE Step("unlink") /\ UNCHANGED accepting
  /\ UNCHANGED <<entryVars, inFlight, procVars, drains, monitor, bg, stored, faults>>

(* The Global Sidecar unlinks the transcript, or did so before (404). *)
DeleteUnlink ==
  /\ Deleting("unlink")
  /\ stored' = FALSE
  /\ Step("releaseTabs")
  /\ UNCHANGED <<entryVars, gateVars, procVars, drains, monitor, bg, faults>>

DeleteReleaseTabs ==
  /\ Deleting("releaseTabs")
  /\ FencedRelease(TabOwners)
  /\ UNCHANGED <<generation, lastGen, inFlight, procVars, monitor, bg, stored, faults>>

DeleteStep ==
  \/ DeleteRefused \/ DeleteActivity \/ DeleteRecheck \/ DeleteClose
  \/ DeleteKill \/ DeleteConfirm \/ DeleteUnlink \/ DeleteReleaseTabs

-----------------------------------------------------------------------------
FencedStep ==
  \/ EnsureStep \/ RetireUnowned \/ ReapRetired \/ ReplaceDrained \/ MonitorDispatch
  \/ DeleteStep

BgStep == BgProbe \/ BgAttach \/ BgPoll \/ BgSettle \/ BgRelease

Next ==
  \/ AcquireDispatch \/ NoticeDeath \/ EndTurn
  \/ \E g \in Gens : DropLease(g) \/ BeginTurn(g) \/ Crash(g) \/ DropDetached(g)
  \/ \E o \in Owners : ReleaseOwner(o)
  \/ \E d \in drains : FinishOwnerRelease(d)
  \/ \E o \in ReplyOwners : AdmitReply(o)
  \/ \E o \in TabOwners \cup AgentOwners : EnsureBegin(o)
  \/ \E o \in TabOwners : ReleaseTab(o)
  \/ DeleteBegin
  \/ FencedStep
  \/ MonitorScan \/ MonitorBegin \/ RetryClock
  \/ BgBind \/ BgHeadless \/ BgStep \/ BgTimeout \/ ReconcileTab

Spec == Init /\ [][Next]_vars

(* Requests have timeouts, threads that hold a drain or a detached process *)
(* run, the fence holder runs, the monitor's and the poller's timers fire. *)
(* The fence is granted in FIFO order and the poller's hour passes, hence  *)
(* strong fairness.  Nothing is assumed of owners, turns or crashes.       *)
Fairness ==
  /\ \A g \in Gens : WF_vars(DropLease(g)) /\ WF_vars(DropDetached(g))
  /\ \A d \in Drain : WF_vars(FinishOwnerRelease(d))
  /\ WF_vars(FencedStep)
  /\ WF_vars(MonitorScan) /\ SF_vars(MonitorBegin) /\ WF_vars(RetryClock)
  /\ WF_vars(BgStep) /\ SF_vars(BgTimeout)

FairSpec == Spec /\ Fairness
-----------------------------------------------------------------------------
(* Properties *)

(* The manager never kills a process under a request it admitted: every    *)
(* path that kills (displacement, commit, retirement, delete, a failed     *)
(* boot) waited for that very generation's gate.                           *)
NoKillUnderLease == \A g \in Gens : proc[g] = "terminated" => inFlight[g] = 0

(* At most one generation admits requests, and it is the one the Session's *)
(* entry and its generation counter name: a caller that resolved a port    *)
(* never reaches a displaced process.                                      *)
OneAdmitting ==
  /\ accepting \subseteq {active.gen}
  /\ active.gen # NoGen => generation = active.gen /\ active.gen \in 1 .. lastGen

(* What waits for recovery or for its drop is closed and, once displaced,  *)
(* has no request in flight: it may be killed under the manager mutex.     *)
RecoveryIsDrained ==
  HasRecovery => recovering.gen \notin accepting /\ inFlight[recovering.gen] = 0

(* Only the fence holder that spawned a process sees it as Starting: the   *)
(* join branch of ensure_session_sidecar_attempt is never entered.         *)
StartingIsPrivate ==
  active.state = "Starting" =>
    HasActive /\ op.kind \in {"ensure", "recover"} /\ op.step = "boot" /\ op.gen = active.gen

(* A Session somebody owns is never stuck behind a closed gate: whoever    *)
(* closed it is still at work, or the monitor will find the process dead.  *)
NoStrandedOwner ==
  Held # {} /\ HasActive /\ active.state # "Dead" /\ active.gen \notin accepting =>
    \/ Exited(active.gen)
    \/ op.step = "replace" /\ op.drain.active = active.gen

(* Owners are conserved: displacement, commit and retirement neither lose  *)
(* nor resurrect one.  The only steps that change who holds the Session    *)
(* are an explicit attach, an explicit release, and a boot that failed     *)
(* (which takes its own, never ready, owners with it).                     *)
OwnersConserved ==
  [][LET gone == Held \ Held'
         come == Held' \ Held
     IN /\ Cardinality(come) <= 1
        /\ gone # {} =>
             \/ Cardinality(gone) = 1 /\ UNCHANGED <<generation, proc>>
             \/ op.step = "boot" /\ op'.step = "discard" /\ gone \subseteq active.owners
             \/ Deleting("releaseTabs") /\ gone \subseteq TabOwners]_vars

(* A late drain touches only what it closed: the process that serves keeps *)
(* serving whatever release threads of older generations finish.           *)
StaleDrainHarmless ==
  [][active.gen \in accepting /\ active'.gen # active.gen =>
       op.step = "boot" /\ op'.step = "discard"]_vars

(* The poller gives the owner back on the word of one process only while   *)
(* that process is the current one and no recovery retains the owner: an   *)
(* answer that a replacement overtook never uncovers the replacement.      *)
BgReleaseCurrent ==
  [][bg.step = "settle" /\ bg' = NoBg
       => active.gen = bg.gen /\ Background \notin recovering.owners]_vars

(* Storage is unlinked only when the manager holds no process of the       *)
(* Session that could still write.                                         *)
DeleteFencesManagerWriter ==
  Deleting("unlink") => active.gen = NoGen /\ (HasRecovery => Exited(recovering.gen))

(* The fence is always released: no fenced operation waits for ever, on a  *)
(* drain, on another operation or on its own retries.                      *)
FenceReleased == op # Idle ~> op = Idle

(* A Session whose owners stay is served again: its dead or displaced      *)
(* process is found, and its retries are not lost.  (Owners that come and  *)
(* go between the choice of a restart owner and the attempt can make every *)
(* attempt stale.)                                                         *)
OwnedEventuallyServed ==
  \A S \in SUBSET Owners \ {{}} : <>[](Held = S) => []<>IsReady

(* Whatever was taken out of the manager exits.                            *)
RetirementFinishes == \A g \in Gens : g \in detached ~> Exited(g)

(* The poller lets go of the Session.                                      *)
BackgroundSettles == bg.step \in {"poll", "settle"} ~> bg = NoBg

(* What DispatchGate promises. *)
Gate == INSTANCE DispatchGate WITH
          born <- {g \in Gens : proc[g] # "unborn"},
          terminated <- {g \in Gens : proc[g] = "terminated"}
GateSpec == Gate!Spec
-----------------------------------------------------------------------------
(* What the source's comments say and its interleavings do not keep *)

(* "Monitor all session sidecars and auto-restart dead ones that still     *)
(* have owners": the process the monitor displaces is dead.                *)
MonitorRestartsDeadOnes ==
  op.kind = "recover" /\ op.owner = NoOwner /\ op.step = "replace"
    /\ active.gen = op.drain.active => IsDead

(* "Do not unlink until the exact old Node process has actually exited":   *)
(* no process of the Session runs when its storage is unlinked.            *)
UnlinkAfterExit == Deleting("unlink") => \A g \in Gens : proc[g] # "running"

(* "the outer per-Session lifecycle fence still excludes new owner         *)
(* acquisition": after the delete's last look at the owners, none joins.   *)
FenceExcludesAcquisition ==
  op.kind = "delete" /\ op.step \notin {"activity", "recheck"} => Held \subseteq TabOwners

(* "When all owners release, the Sidecar is stopped": once every thread    *)
(* that could finish a retirement has, no process of the Session runs.     *)
UnownedIsStopped ==
  Held = {} /\ op = Idle /\ drains = {} /\ detached = {} =>
    \A g \in Gens : proc[g] # "running"
=============================================================================
