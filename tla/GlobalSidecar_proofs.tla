------------------------- MODULE GlobalSidecar_proofs -------------------------
(***************************************************************************)
(* Proofs about GlobalSidecar for any finite sets of threads and any       *)
(* bounds: GlobalInv is inductive, so there is one Global Sidecar, its     *)
(* port file names no other generation than the entry's, and a stop that   *)
(* is over has left no process behind; and its gates keep the contract of  *)
(* DispatchGate.  The birth gate comes first: that nobody creates while    *)
(* everything is stopped is what StopAllAlone needs.                       *)
(***************************************************************************)
EXTENDS GlobalSidecarInv, FiniteSetTheorems, TLAPS

(***************************************************************************)
(* The birth gate alone: the proofs about LifecycleQuiesce, for any number *)
(* of creators, updaters and exit paths.                                   *)
(***************************************************************************)

(* The inductive invariant: beyond the properties themselves, who may be   *)
(* at work in which state of the gate, and that the count is zero for      *)
(* whoever was let through.                                                *)
UpdatersAdmitted ==
  \A u \in Updaters : updater[u] # "idle" =>
    /\ admission # "Open"
    /\ admission = "UpdateShutdown" => \A v \in Updaters : updater[v] # "idle" => v = u
ExitersAdmitted == \A x \in Exiters : exiter[x] # "idle" => admission = "AppExit"
FlagShadowsGate == updateInProgress <=> admission # "Open"
AdmittedAtZero ==
  /\ \A u \in Updaters : updater[u] = "guarding" => activeCreations = 0
  /\ \A x \in Exiters : exiter[x] = "done" => activeCreations = 0

IInv == QuiesceTypeOK /\ PermitsCounted /\ UpdatersAdmitted /\ ExitersAdmitted
          /\ FlagShadowsGate /\ AdmittedAtZero

LEMMA InitIInv == QuiesceInit => IInv
<1> SUFFICES ASSUME QuiesceInit PROVE IInv
  OBVIOUS
<1>1. Creating = {}
  BY DEF QuiesceInit, Creating
<1>2. PermitsCounted
  BY <1>1, FS_EmptySet DEF QuiesceInit, PermitsCounted
<1> QED
  BY <1>2 DEF QuiesceInit, IInv, QuiesceTypeOK, CreationAdmission, UpdatersAdmitted, ExitersAdmitted,
              FlagShadowsGate, AdmittedAtZero

LEMMA UpdatersWoken ==
  ASSUME NEW f \in [Updaters -> {"idle", "asleep", "awake", "guarding"}]
  PROVE  /\ Woken(f) \in [Updaters -> {"idle", "asleep", "awake", "guarding"}]
         /\ \A u \in Updaters : /\ f[u] # "asleep" => Woken(f)[u] = f[u]
                                /\ f[u] = "asleep" => Woken(f)[u] = "awake"
  BY DEF Woken

LEMMA ExitersWoken ==
  ASSUME NEW f \in [Exiters -> {"idle", "asleep", "awake", "done"}]
  PROVE  /\ Woken(f) \in [Exiters -> {"idle", "asleep", "awake", "done"}]
         /\ \A x \in Exiters : /\ f[x] # "asleep" => Woken(f)[x] = f[x]
                               /\ f[x] = "asleep" => Woken(f)[x] = "awake"
  BY DEF Woken

(* The count follows the set of permits. *)
LEMMA CreatingFinite == IsFiniteSet(Creating)
  BY CreatorsAssumption, FS_Subset DEF Creating

LEMMA SpawnStep ==
  ASSUME IInv, NEW c \in Creators, BeginSpawn(c)
  PROVE  IInv'
<1> USE DEF IInv
<1>1. QuiesceTypeOK'
  BY DEF BeginSpawn, QuiesceTypeOK
<1>2. Creating' = Creating \cup {c} /\ c \notin Creating
  BY DEF BeginSpawn, QuiesceTypeOK, Creating
<1>3. PermitsCounted'
  BY <1>2, CreatingFinite, FS_AddElement DEF BeginSpawn, PermitsCounted
<1>4. UpdatersAdmitted' /\ ExitersAdmitted' /\ FlagShadowsGate'
  BY DEF BeginSpawn, UpdatersAdmitted, ExitersAdmitted, FlagShadowsGate
<1>5. AdmittedAtZero'
  BY DEF BeginSpawn, AdmittedAtZero, UpdatersAdmitted, ExitersAdmitted
<1> QED  BY <1>1, <1>3, <1>4, <1>5

LEMMA PermitStep ==
  ASSUME IInv, NEW c \in Creators, DropPermit(c)
  PROVE  IInv'
<1> USE DEF IInv
<1>1. Creating' = Creating \ {c} /\ c \in Creating
  BY DEF DropPermit, QuiesceTypeOK, Creating
<1>2. activeCreations \in Nat /\ activeCreations # 0 /\ activeCreations' = activeCreations - 1
      /\ PermitsCounted'
  <2>1. Cardinality(Creating) # 0
    BY <1>1, CreatingFinite, FS_EmptySet
  <2>2. activeCreations' = activeCreations - 1
    BY <2>1 DEF DropPermit, PermitsCounted
  <2>3. Cardinality(Creating') = Cardinality(Creating) - 1
    BY <1>1, CreatingFinite, FS_RemoveElement
  <2>4. PermitsCounted'
    BY <2>2, <2>3 DEF PermitsCounted
  <2> QED  BY <2>1, <2>2, <2>4 DEF PermitsCounted, QuiesceTypeOK
<1>3. updater' \in {updater, Woken(updater)} /\ exiter' \in {exiter, Woken(exiter)}
  BY DEF DropPermit
<1>4. /\ updater' \in [Updaters -> {"idle", "asleep", "awake", "guarding"}]
      /\ \A u \in Updaters : /\ updater[u] # "asleep" => updater'[u] = updater[u]
                             /\ updater[u] = "asleep" => updater'[u] \in {"asleep", "awake"}
  <2>1. updater \in [Updaters -> {"idle", "asleep", "awake", "guarding"}]
    BY DEF QuiesceTypeOK
  <2>2. CASE updater' = updater
    BY <2>1, <2>2
  <2>3. CASE updater' = Woken(updater)
    BY <2>1, <2>3, UpdatersWoken
  <2> QED  BY <1>3, <2>2, <2>3
<1>5. /\ exiter' \in [Exiters -> {"idle", "asleep", "awake", "done"}]
      /\ \A x \in Exiters : /\ exiter[x] # "asleep" => exiter'[x] = exiter[x]
                            /\ exiter[x] = "asleep" => exiter'[x] \in {"asleep", "awake"}
  <2>1. exiter \in [Exiters -> {"idle", "asleep", "awake", "done"}]
    BY DEF QuiesceTypeOK
  <2>2. CASE exiter' = exiter
    BY <2>1, <2>2
  <2>3. CASE exiter' = Woken(exiter)
    BY <2>1, <2>3, ExitersWoken
  <2> QED  BY <1>3, <2>2, <2>3
<1>6. activeCreations' \in Nat
  BY <1>2
<1>7. QuiesceTypeOK'
  BY <1>4, <1>5, <1>6 DEF DropPermit, QuiesceTypeOK
<1>8. UpdatersAdmitted'
  BY <1>4 DEF DropPermit, UpdatersAdmitted
<1>9. ExitersAdmitted'
  BY <1>5 DEF DropPermit, ExitersAdmitted
<1>10. FlagShadowsGate'
  BY DEF DropPermit, FlagShadowsGate
<1>11. AdmittedAtZero'
  <2>1. \A u \in Updaters : updater[u] # "guarding"
    BY <1>2 DEF AdmittedAtZero
  <2>2. \A x \in Exiters : exiter[x] # "done"
    BY <1>2 DEF AdmittedAtZero
  <2> QED  BY <1>4, <1>5, <2>1, <2>2 DEF AdmittedAtZero
<1> QED  BY <1>2, <1>7, <1>8, <1>9, <1>10, <1>11

LEMMA UpdateStep ==
  ASSUME IInv, NEW u \in Updaters, BeginUpdate(u) \/ RetestUpdate(u)
  PROVE  IInv'
<1> USE DEF IInv
<1>1. /\ updater' \in [Updaters -> {"idle", "asleep", "awake", "guarding"}]
      /\ \A v \in Updaters : v # u => updater'[v] = updater[v]
      /\ updater'[u] \in {"asleep", "guarding"}
      /\ updater'[u] = "guarding" => activeCreations = 0
  BY DEF BeginUpdate, RetestUpdate, Tested, QuiesceTypeOK
<1>2. UNCHANGED <<activeCreations, creator, exiter>>
  BY DEF BeginUpdate, RetestUpdate
<1>3. QuiesceTypeOK'
  BY <1>1, <1>2 DEF BeginUpdate, RetestUpdate, QuiesceTypeOK, CreationAdmission
<1>4. PermitsCounted'
  BY <1>2 DEF PermitsCounted, Creating
<1>5. UpdatersAdmitted'
  BY <1>1 DEF BeginUpdate, RetestUpdate, UpdatersAdmitted
<1>6. ExitersAdmitted'
  BY <1>2 DEF BeginUpdate, RetestUpdate, ExitersAdmitted
<1>7. FlagShadowsGate'
  BY DEF BeginUpdate, RetestUpdate, FlagShadowsGate
<1>8. AdmittedAtZero'
  BY <1>1, <1>2 DEF AdmittedAtZero
<1> QED  BY <1>3, <1>4, <1>5, <1>6, <1>7, <1>8

LEMMA GuardStep ==
  ASSUME IInv, NEW u \in Updaters, DropUpdateGuard(u)
  PROVE  IInv'
<1> USE DEF IInv
<1>1. CASE admission = "UpdateShutdown"
  <2>1. \A v \in Updaters : v # u => updater[v] = "idle"
    BY <1>1 DEF DropUpdateGuard, UpdatersAdmitted, QuiesceTypeOK
  <2>2. \A x \in Exiters : exiter[x] = "idle"
    BY <1>1 DEF ExitersAdmitted, QuiesceTypeOK
  <2> DEFINE f == [updater EXCEPT ![u] = "idle"]
  <2>3. f \in [Updaters -> {"idle", "asleep", "awake", "guarding"}]
        /\ \A v \in Updaters : f[v] = "idle"
    BY <2>1 DEF QuiesceTypeOK
  <2> HIDE DEF f
  <2>4. /\ updater' = Woken(f) /\ exiter' = Woken(exiter)
        /\ admission' = "Open" /\ updateInProgress' = FALSE
        /\ UNCHANGED <<activeCreations, creator>>
    BY <1>1 DEF DropUpdateGuard, f
  <2>5. updater' \in [Updaters -> {"idle", "asleep", "awake", "guarding"}]
        /\ \A v \in Updaters : updater'[v] = "idle"
    BY <2>3, <2>4, UpdatersWoken
  <2>6. exiter' \in [Exiters -> {"idle", "asleep", "awake", "done"}]
        /\ \A x \in Exiters : exiter'[x] = "idle"
    BY <2>2, <2>4, ExitersWoken DEF QuiesceTypeOK
  <2>7. QuiesceTypeOK'
    BY <2>4, <2>5, <2>6 DEF QuiesceTypeOK, CreationAdmission
  <2> QED
    BY <2>4, <2>5, <2>6, <2>7 DEF PermitsCounted, Creating, UpdatersAdmitted,
        ExitersAdmitted,
                                  FlagShadowsGate, AdmittedAtZero
<1>2. CASE admission # "UpdateShutdown"
  <2>1. /\ updater' = [updater EXCEPT ![u] = "idle"]
        /\ UNCHANGED <<admission, activeCreations, updateInProgress, creator, exiter>>
    BY <1>2 DEF DropUpdateGuard
  <2> QED
    BY <1>2, <2>1 DEF QuiesceTypeOK, PermitsCounted, Creating, UpdatersAdmitted,
        ExitersAdmitted,
                      FlagShadowsGate, AdmittedAtZero
<1> QED  BY <1>1, <1>2

LEMMA ExitStep ==
  ASSUME IInv, NEW x \in Exiters, BeginAppExit(x) \/ RetestExit(x)
  PROVE  IInv'
<1> USE DEF IInv
<1>1. /\ exiter' \in [Exiters -> {"idle", "asleep", "awake", "done"}]
      /\ \A y \in Exiters : y # x => exiter'[y] = exiter[y]
      /\ exiter'[x] = "done" => activeCreations = 0
      /\ admission' = "AppExit" /\ updateInProgress' = TRUE
  BY DEF BeginAppExit, RetestExit, Tested, QuiesceTypeOK, ExitersAdmitted, FlagShadowsGate
<1>2. UNCHANGED <<activeCreations, creator, updater>>
  BY DEF BeginAppExit, RetestExit
<1>3. QuiesceTypeOK'
  BY <1>1, <1>2 DEF QuiesceTypeOK, CreationAdmission
<1>4. PermitsCounted'
  BY <1>2 DEF PermitsCounted, Creating
<1>5. UpdatersAdmitted' /\ ExitersAdmitted' /\ FlagShadowsGate'
  BY <1>1, <1>2 DEF UpdatersAdmitted, ExitersAdmitted, FlagShadowsGate
<1>6. AdmittedAtZero'
  BY <1>1, <1>2 DEF AdmittedAtZero
<1> QED  BY <1>3, <1>4, <1>5, <1>6

LEMMA WakeStep ==
  ASSUME IInv, SpuriousWake \/ UNCHANGED quiesceVars
  PROVE  IInv'
<1> USE DEF IInv
<1>1. /\ updater' \in [Updaters -> {"idle", "asleep", "awake", "guarding"}]
      /\ \A u \in Updaters : \/ updater'[u] = updater[u]
                             \/ updater[u] = "asleep" /\ updater'[u] = "awake"
  BY DEF SpuriousWake, quiesceVars, QuiesceTypeOK
<1>2. /\ exiter' \in [Exiters -> {"idle", "asleep", "awake", "done"}]
      /\ \A x \in Exiters : \/ exiter'[x] = exiter[x]
                            \/ exiter[x] = "asleep" /\ exiter'[x] = "awake"
  BY DEF SpuriousWake, quiesceVars, QuiesceTypeOK
<1>3. UNCHANGED <<admission, activeCreations, updateInProgress, creator>>
  BY DEF SpuriousWake, quiesceVars
<1>4. QuiesceTypeOK' /\ PermitsCounted'
  BY <1>1, <1>2, <1>3 DEF QuiesceTypeOK, PermitsCounted, Creating
<1>5. UpdatersAdmitted'
  BY <1>1, <1>3 DEF UpdatersAdmitted
<1>6. ExitersAdmitted' /\ FlagShadowsGate' /\ AdmittedAtZero'
  BY <1>1, <1>2, <1>3 DEF ExitersAdmitted, FlagShadowsGate, AdmittedAtZero
<1> QED  BY <1>4, <1>5, <1>6

LEMMA NextIInv == IInv /\ [QuiesceNext]_quiesceVars => IInv'
  BY SpawnStep, PermitStep, UpdateStep, GuardStep, ExitStep, WakeStep DEF QuiesceNext

(* The gate's state, the flag and the permits stay consistent for any      *)
(* number of threads.                                                      *)
THEOREM Invariance == QuiesceSpec => []IInv
  BY InitIInv, NextIInv, PTL DEF QuiesceSpec

(* The declarations of LifecycleQuiesceState and the threads' states. *)
THEOREM QuiesceTypeCorrect == QuiesceSpec => []QuiesceTypeOK
<1>1. IInv => QuiesceTypeOK
  BY DEF IInv
<1> QED  BY <1>1, Invariance, PTL

(* While an update guard is out, or once the exit is through, nobody       *)
(* creates a process.                                                      *)
THEOREM NoBirth == QuiesceSpec => []QuiescedMeansNoBirth
<1>1. IInv => QuiescedMeansNoBirth
  <2> SUFFICES ASSUME IInv, activeCreations = 0
               PROVE  Creating = {}
    BY DEF IInv, AdmittedAtZero, QuiescedMeansNoBirth
  <2> QED  BY CreatingFinite, FS_EmptySet DEF IInv, PermitsCounted
<1> QED  BY <1>1, Invariance, PTL

(* The flag the monitors read covers every update and every exit. *)
THEOREM FlagCovers == QuiesceSpec => []FlagCoversShutdown
<1>1. IInv => FlagCoversShutdown
  BY DEF IInv, UpdatersAdmitted, ExitersAdmitted, FlagShadowsGate, FlagCoversShutdown
<1> QED  BY <1>1, Invariance, PTL

(* No step reopens the gate once the application exits. *)
THEOREM ExitTerminal == QuiesceSpec => ExitIsTerminal
<1>1. IInv /\ [QuiesceNext]_quiesceVars =>
        [admission = "AppExit" => admission' = "AppExit" /\ updateInProgress']_quiesceVars
  <2> SUFFICES ASSUME IInv, QuiesceNext, admission = "AppExit"
               PROVE  admission' = "AppExit" /\ updateInProgress' = TRUE
    BY DEF quiesceVars
  <2>1. updateInProgress = TRUE
    BY DEF IInv, FlagShadowsGate, QuiesceTypeOK
  <2> QED
    BY <2>1 DEF QuiesceNext, BeginSpawn, DropPermit, BeginUpdate, RetestUpdate,
        DropUpdateGuard,
                BeginAppExit, RetestExit, SpuriousWake
<1> QED  BY <1>1, Invariance, PTL DEF QuiesceSpec, ExitIsTerminal

(***************************************************************************)
(* Types of the parts of the state, and what one step of a job does.       *)
(***************************************************************************)

JobType == [step : JobStep, gen : GenOrNone, lease : GenOrNone]

LEMMA GoType ==
  ASSUME TypeOK, NEW t \in Jobs, NEW step \in JobStep, NEW g \in GenOrNone, NEW l \in GenOrNone,
         Go(t, step, g, l)
  PROVE  job' \in [Jobs -> JobType]
BY DEF TypeOK, Go, JobType

LEMMA JobFields ==
  ASSUME TypeOK, NEW t \in Jobs
  PROVE  job[t].step \in JobStep /\ job[t].gen \in GenOrNone /\ job[t].lease \in GenOrNone
BY DEF TypeOK

LEMMA EntryFields ==
  ASSUME TypeOK
  PROVE  entry.gen \in GenOrNone /\ entry.held \in BOOLEAN /\ entry.healthy \in BOOLEAN
         /\ entry.young \in BOOLEAN
BY DEF TypeOK, Entry

LEMMA Zero == 0 \in GenOrNone /\ NoEntry \in Entry /\ Gens \subseteq GenOrNone
BY BoundsAssumption DEF GenOrNone, Gens, NoEntry, Entry

LEMMA BornType == \A g \in GenOrNone : Born(g, TRUE) \in Entry /\ Born(g, FALSE) \in Entry
BY DEF Born, Entry

LEMMA ClosedType == ASSUME TypeOK, NEW g PROVE Closed(g) \in [Gens -> {"none", "open", "closed"}]
BY DEF TypeOK, Closed

LEMMA KilledType == ASSUME TypeOK, NEW g PROVE Killed(g) \in [Gens -> ProcState]
BY DEF TypeOK, Killed, ProcState, Up

LEMMA DoomedType == ASSUME TypeOK, NEW g PROVE Doomed(g) \in [Gens -> ProcState]
BY DEF TypeOK, Doomed, ProcState, Up

LEMMA GoOnType ==
  ASSUME TypeOK, NEW t \in Jobs, NEW g \in GenOrNone
  PROVE  /\ Result(t, g) => job' \in [Jobs -> JobType]
         /\ Done(t) => job' \in [Jobs -> JobType]
         /\ Published(t) => job' \in [Jobs -> JobType]
<1> USE Zero
<1>1. Result(t, g) => job' \in [Jobs -> JobType]
  BY GoType DEF Result, JobStep
<1>2. Result(t, 0) => job' \in [Jobs -> JobType]
  BY GoType DEF Result, JobStep
<1>3. Done(t) => job' \in [Jobs -> JobType]
  BY <1>2, GoType DEF Done, JobStep
<1>4. Published(t) => job' \in [Jobs -> JobType]
  BY JobFields, GoType DEF Published, JobStep
<1> QED  BY <1>1, <1>3, <1>4

LEMMA GoEffect ==
  ASSUME TypeOK, NEW t \in Jobs, NEW step, NEW g, NEW l, Go(t, step, g, l)
  PROVE  /\ job'[t].step = step /\ job'[t].gen = g /\ job'[t].lease = l
         /\ \A u \in Jobs : u # t => job'[u] = job[u]
BY DEF TypeOK, Go

Others(t) == \A u \in Jobs : u # t => job'[u] = job[u]

(* Requests, and what happens to a process, ask nobody.                    *)
LEMMA OutsideStep ==
  ASSUME GlobalInv, TypeOK',
         UNCHANGED <<quiesceVars, desired, lastGen, portFile, job, stopAll, gate>>,
         entry' = [entry EXCEPT !.young = entry'.young],
         entry.gen = 0 => entry' = entry,
         \A g \in Gens : requests'[g] > 0 =>
           requests[g] > 0 \/ (g = entry.gen /\ entry.healthy /\ gate[g] = "open"),
         \A g \in Gens : /\ proc'[g] \in Up => proc[g] \in Up
                         /\ proc[g] = "none" => proc'[g] = "none"
  PROVE  GlobalInv'
<1>1. entry'.gen = entry.gen /\ entry'.held = entry.held /\ entry'.healthy = entry.healthy
  BY DEF GlobalInv, TypeOK, Entry
<1>2. Permitted' /\ StopLicensed' /\ Shapes' /\ OneMaker'
  BY DEF GlobalInv, Permitted, StopLicensed, Licensed, Shapes, OneMaker, quiesceVars
<1>3. Drawn'
  BY <1>1 DEF GlobalInv, Drawn
<1>4. Gated'
  BY <1>1 DEF GlobalInv, Gated
<1>5. Anchored' /\ Taken' /\ OneCloser'
  BY <1>1 DEF GlobalInv, Anchored, Taken, OneCloser, Closer, Replacing, Parting, Bearing
<1>6. Unpublished' /\ PortFileFresh'
  BY <1>1 DEF GlobalInv, Unpublished, PortFileFresh, Replacing, Parting, Bearing
<1>7. ASSUME NEW t \in Jobs, Alone(t) PROVE requests'[job[t].lease] = 0
  <2>1. job[t].lease \in Gens /\ gate[job[t].lease] = "closed" /\ requests[job[t].lease] = 0
    BY <1>7, JobFields DEF GlobalInv, DrainedAlone, OneCloser, Alone, Closer, Replacing, Parting,
       Shapes, Leasing, Gens, GenOrNone
  <2> QED  BY <2>1 DEF TypeOK
<1>8. DrainedAlone'
  BY <1>7 DEF GlobalInv, DrainedAlone, Alone, Replacing, Parting
<1>9. ASSUME NEW t \in Jobs, Bearing(t) PROVE requests'[job[t].lease] = 0
  <2>1. job[t].lease \in Gens /\ ~entry.healthy /\ requests[job[t].lease] = 0
    BY <1>9, JobFields DEF GlobalInv, Unborn, Bearing, Shapes, Leasing, Gens, GenOrNone
  <2> QED  BY <2>1 DEF TypeOK
<1>10. Unborn'
  BY <1>1, <1>9 DEF GlobalInv, Unborn, Bearing
<1>11. StopAllAlone'
  BY <1>1 DEF GlobalInv, StopAllAlone, NoEntry
<1>12. NoOrphan'
  BY <1>1 DEF GlobalInv, NoOrphan, InHand, At
<1>13. InCharge'
  BY <1>1 DEF GlobalInv, InCharge, Closer, Replacing, Parting
<1> QED  BY <1>2, <1>3, <1>4, <1>5, <1>6, <1>8, <1>10, <1>11, <1>12, <1>13 DEF GlobalInv

(***************************************************************************)
(* Moves of a thread, by what it holds before and after: nothing, the      *)
(* lease of a closer, the lease of a birth, the lease of a publisher.      *)
(* Every action below is one of these moves.                               *)
(***************************************************************************)

(* Threads that hold no lease, before and after. *)
LEMMA QuietMove ==
  ASSUME GlobalInv, TypeOK', Permitted', StopLicensed',
         NEW t \in Jobs, Others(t),
         job[t].lease = 0, job'[t].lease = 0, job[t].step \notin Leasing, job'[t].step \notin Leasing,
         job'[t].step \in Making => job[t].step \in Making /\ job'[t].gen = job[t].gen,
         job'[t].step = "publish" => job'[t].gen # 0,
         job'[t].gen <= lastGen,
         t \in Stoppers => job'[t].step \in {"idle", "wait"},
         entry' = [entry EXCEPT !.healthy = entry'.healthy],
         entry.gen = 0 => entry' = entry,
         entry'.healthy \in {entry.healthy, FALSE} \/ (job[t].step = "ready" /\ job[t].gen = entry.gen),
         \/ desired' \in {desired, TRUE}
         \/ entry.gen # 0 => gate[entry.gen] = "closed",
         \A x \in Stops : stopAll'[x] = stopAll[x],
         UNCHANGED <<gate, requests, proc, lastGen, portFile>>
  PROVE  GlobalInv'
<1> USE DEF Others
<1>1. entry'.gen = entry.gen /\ entry'.held = entry.held
  BY DEF GlobalInv, TypeOK, Entry
<1>2. \A u \in Jobs : job[u].lease = 0 => ~Closer(u) /\ ~Alone(u) /\ ~Bearing(u) /\ ~Replacing(u)
                                          /\ ~Parting(u)
  BY DEF GlobalInv, Shapes, Closer, Alone, Bearing, Replacing, Parting, Leasing
<1>3. ~Closer(t)' /\ ~Alone(t)' /\ ~Bearing(t)' /\ ~Replacing(t)' /\ ~Parting(t)'
  BY DEF Closer, Alone, Bearing, Replacing, Parting, Leasing
<1>4. \A u \in Jobs : u # t => /\ Closer(u)' = Closer(u) /\ Alone(u)' = Alone(u)
                               /\ Bearing(u)' = Bearing(u) /\ Replacing(u)' = Replacing(u)
                               /\ Parting(u)' = Parting(u)
  BY DEF Closer, Alone, Bearing, Replacing, Parting
<1>5. Shapes' /\ OneMaker'
  BY DEF GlobalInv, Shapes, OneMaker, Leasing, Making
<1>6. Drawn' /\ Gated'
  BY <1>1 DEF GlobalInv, Drawn, Gated, Leasing
<1>7. Anchored'
  BY <1>1 DEF GlobalInv, Anchored
<1>8. OneCloser'
  BY <1>2, <1>3, <1>4 DEF GlobalInv, OneCloser, Leasing
<1>9. DrainedAlone'
  BY <1>2, <1>3, <1>4 DEF GlobalInv, DrainedAlone
<1>10. Taken' /\ Unpublished'
  BY <1>1, <1>2, <1>3, <1>4 DEF GlobalInv, Taken, Unpublished, Leasing
<1>11. ASSUME NEW u \in Jobs, Bearing(u)' PROVE ~entry'.healthy
  <2>1. u # t /\ Bearing(u) /\ ~entry.healthy
    BY <1>3, <1>4, <1>11 DEF GlobalInv, Unborn
  <2>2. entry.gen = job[u].gen /\ job[u].step \in Making
    BY <2>1 DEF GlobalInv, Anchored, Bearing, Shapes, Leasing, Making
  <2>3. ~(job[t].step = "ready" /\ job[t].gen = entry.gen)
    BY <2>1, <2>2 DEF GlobalInv, OneMaker, Making
  <2> QED  BY <2>1, <2>3
<1>12. Unborn'
  BY <1>2, <1>3, <1>4, <1>11 DEF GlobalInv, Unborn, Leasing
<1>13. StopAllAlone'
  BY <1>1 DEF GlobalInv, StopAllAlone, NoEntry
<1>14. NoOrphan'
  BY <1>1 DEF GlobalInv, NoOrphan, InHand, At, Leasing
<1>15. InCharge'
  BY <1>1, <1>2, <1>3, <1>4 DEF GlobalInv, InCharge
<1>16. PortFileFresh'
  BY <1>1 DEF GlobalInv, PortFileFresh
<1> QED  BY <1>5, <1>6, <1>7, <1>8, <1>9, <1>10, <1>12, <1>13, <1>14, <1>15, <1>16 DEF GlobalInv

(* What the others are does not depend on t. *)
LEMMA OtherRoles ==
  ASSUME NEW t \in Jobs, Others(t)
  PROVE  \A u \in Jobs : u # t =>
           /\ Closer(u)' = Closer(u) /\ Alone(u)' = Alone(u) /\ Bearing(u)' = Bearing(u)
           /\ Replacing(u)' = Replacing(u) /\ Parting(u)' = Parting(u)
BY DEF Others, Closer, Alone, Bearing, Replacing, Parting

LEMMA RolesLease ==
  ASSUME GlobalInv
  PROVE  \A u \in Jobs : /\ Closer(u) \/ Bearing(u) => job[u].lease # 0 /\ job[u].lease \in Gens
                                                       /\ entry.gen = job[u].lease
                         /\ Alone(u) => Closer(u)
                         /\ Closer(u) => gate[job[u].lease] = "closed"
<1>1. \A u \in Jobs : Closer(u) \/ Bearing(u) =>
        job[u].lease # 0 /\ job[u].step \notin {"discard", "release"}
  BY DEF GlobalInv, Shapes, Closer, Bearing, Replacing, Parting, Leasing
<1>2. \A u \in Jobs : job[u].lease # 0 => job[u].lease \in Gens
  BY JobFields DEF GlobalInv, GenOrNone, Gens
<1>3. \A u \in Jobs : Alone(u) => Closer(u)
  BY DEF Alone, Closer
<1> QED  BY <1>1, <1>2, <1>3 DEF GlobalInv, Anchored, OneCloser

LEMMA ClosedEffect ==
  ASSUME TypeOK, NEW g \in Gens
  PROVE  /\ Closed(g)[g] = "closed"
         /\ \A h \in Gens : h # g => Closed(g)[h] = gate[h]
BY BoundsAssumption DEF TypeOK, Closed, Gens

(* A thread closes the open gate of the entry and becomes its closer. *)
LEMMA TakeCharge ==
  ASSUME GlobalInv, TypeOK', Permitted', StopLicensed',
         NEW t \in Jobs, Others(t),
         job[t].lease = 0, job[t].step \notin Leasing,
         entry.gen # 0, gate[entry.gen] = "open", gate' = Closed(entry.gen),
         job'[t].step \in {"drain", "retire"}, job'[t].lease = entry.gen, job'[t].gen <= lastGen,
         t \in Stoppers => job'[t].step = "retire",
         desired' \in {desired, FALSE},
         \A x \in Stops : stopAll'[x] = stopAll[x],
         UNCHANGED <<entry, requests, proc, lastGen, portFile>>
  PROVE  GlobalInv'
<1> USE DEF Others
<1>1. /\ entry.gen \in Gens /\ entry.gen <= lastGen /\ gate'[entry.gen] = "closed"
      /\ \A g \in Gens : g # entry.gen => gate'[g] = gate[g]
  BY EntryFields, ClosedEffect DEF GlobalInv, Drawn, Gens, GenOrNone
<1>2. ~Closer(t) /\ ~Alone(t) /\ ~Bearing(t) /\ ~Replacing(t) /\ ~Parting(t)
  BY DEF GlobalInv, Shapes, Closer, Alone, Bearing, Replacing, Parting, Leasing
<1>3. Closer(t)' /\ ~Alone(t)' /\ ~Bearing(t)' /\ ~Replacing(t)' /\ ~Parting(t)'
  BY DEF Closer, Alone, Bearing, Replacing, Parting
<1>4. \A u \in Jobs : ~Closer(u) /\ ~Alone(u)
  BY RolesLease
<1>5. Shapes' /\ OneMaker'
  BY DEF GlobalInv, Shapes, OneMaker, Leasing, Making
<1>6. Drawn' /\ Gated'
  <2>1. \A g \in Gens : gate[g] # "none" <=> gate'[g] # "none"
    BY <1>1
  <2>2. Drawn'
    BY <1>1, <2>1 DEF GlobalInv, Drawn
  <2>3. \A u \in Jobs : /\ job[u].lease # 0 => job[u].lease \in Gens
                        /\ job[u].gen # 0 => job[u].gen \in Gens
    BY JobFields DEF GlobalInv, GenOrNone, Gens
  <2>4. Gated'
    BY <1>1, <2>1, <2>3 DEF GlobalInv, Gated, Shapes, Making
  <2> QED  BY <2>2, <2>4
<1>7. Anchored'
  BY DEF GlobalInv, Anchored
<1>8. OneCloser'
  <2>1. \A u \in Jobs : job[u].lease # 0 => job[u].lease \in Gens
    BY JobFields DEF GlobalInv, GenOrNone, Gens
  <2>2. \A u \in Jobs : job[u].step \in {"discard", "release"} => job[u].lease # 0
    BY DEF GlobalInv, Shapes, Leasing
  <2> QED  BY <1>1, <1>3, <1>4, <2>1, <2>2, OtherRoles DEF GlobalInv, OneCloser
<1>9. DrainedAlone'
  BY <1>3, <1>4, OtherRoles DEF DrainedAlone
<1>10. Taken' /\ Unpublished' /\ Unborn'
  BY <1>3, OtherRoles DEF GlobalInv, Taken, Unpublished, Unborn
<1>13. StopAllAlone'
  <2>1. \A x \in Stops : stopAll[x].gen # 0 => stopAll[x].gen \in Gens
    BY DEF GlobalInv, TypeOK, GenOrNone, Gens
  <2> QED  BY <1>1, <2>1 DEF GlobalInv, StopAllAlone
<1>14. NoOrphan'
  BY DEF GlobalInv, NoOrphan, InHand, At, Leasing
<1>15. InCharge'
  BY <1>1, <1>3 DEF InCharge
<1>16. PortFileFresh'
  BY DEF GlobalInv, PortFileFresh
<1> QED  BY <1>5, <1>6, <1>7, <1>8, <1>9, <1>10, <1>13, <1>14, <1>15, <1>16 DEF GlobalInv

LEMMA LeaseholdersFinite == \A g : IsFiniteSet(Leaseholders(g)) /\ Cardinality(Leaseholders(g)) \in Nat
<1>1. IsFiniteSet(Jobs)
  BY CreatorsAssumption, ActorsAssumption, FS_Union DEF Jobs
<1> QED  BY <1>1, FS_Subset, FS_CardinalityType DEF Leaseholders

LEMMA NoLease ==
  ASSUME TypeOK, NEW g \in Gens, InFlight(g) = 0
  PROVE  requests[g] = 0 /\ \A t \in Jobs : job[t].lease # g
<1>1. requests[g] \in Nat
  BY DEF TypeOK
<1>2. requests[g] = 0 /\ Cardinality(Leaseholders(g)) = 0
  BY <1>1, LeaseholdersFinite DEF InFlight
<1>3. Leaseholders(g) = {}
  BY <1>2, LeaseholdersFinite, FS_EmptySet
<1> QED  BY <1>2, <1>3 DEF Leaseholders

LEMMA OneLease ==
  ASSUME TypeOK, NEW g \in Gens, NEW t \in Jobs, job[t].lease = g, InFlight(g) <= 1
  PROVE  requests[g] = 0 /\ \A u \in Jobs : job[u].lease = g => u = t
<1>1. requests[g] \in Nat
  BY DEF TypeOK
<1>2. t \in Leaseholders(g)
  BY DEF Leaseholders
<1>3. Cardinality(Leaseholders(g)) # 0
  BY <1>2, LeaseholdersFinite, FS_EmptySet
<1>4. requests[g] = 0 /\ Cardinality(Leaseholders(g)) = 1
  BY <1>1, <1>3, LeaseholdersFinite DEF InFlight
<1>5. PICK u : Leaseholders(g) = {u}
  BY <1>4, LeaseholdersFinite, FS_Singleton
<1> QED  BY <1>2, <1>4, <1>5 DEF Leaseholders

(* The steps of a creator that has a permit. *)
Calling == {"select", "drain", "reserve", "kill", "spawn", "install", "discard", "release",
            "health", "ready"}

LEMMA NoStops ==
  ASSUME GlobalInv, QuiescedMeansNoBirth, NEW t \in Creators, job[t].step \in Calling
  PROVE  \A x \in Stops : stopAll[x].step = "none"
<1>1. creator[t] # "idle"
  BY DEF GlobalInv, Permitted, Calling
<1>2. t \in Creating
  BY <1>1 DEF GlobalInv, TypeOK, QuiesceTypeOK, Creating
<1> QED  BY <1>2 DEF GlobalInv, StopLicensed, Licensed, QuiescedMeansNoBirth

LEMMA BooksKept ==
  ASSUME GlobalInv, UNCHANGED <<quiesceVars, stopAll>>, NEW t \in Jobs, Others(t),
         t \in Creators /\ creator[t] = "idle" =>
           \/ job'[t].step \in {"idle", "probe", "hit", "miss", "restart"}
           \/ t # Monitor /\ job'[t].step \in {"publish", "write"}
  PROVE  Permitted' /\ StopLicensed'
<1>1. ASSUME NEW u \in Creators, creator'[u] = "idle"
      PROVE  \/ job'[u].step \in {"idle", "probe", "hit", "miss", "restart"}
             \/ u # Monitor /\ job'[u].step \in {"publish", "write"}
  <2>1. u \in Jobs /\ creator[u] = "idle"
    BY <1>1 DEF Jobs, quiesceVars
  <2> QED  BY <2>1 DEF GlobalInv, Permitted, Others
<1>2. Permitted'
  BY <1>1 DEF Permitted
<1>3. StopLicensed'
  BY DEF GlobalInv, StopLicensed, Licensed, quiesceVars
<1> QED  BY <1>2, <1>3

(* The lease of a birth that failed, or of a publisher, goes. *)
LEMMA LetGo ==
  ASSUME GlobalInv, TypeOK', Permitted', StopLicensed',
         NEW t \in Creators, Others(t),
         job[t].step \in {"release", "write"},
         job'[t].step \in {"idle", "return"}, job'[t].lease = 0, job'[t].gen <= lastGen,
         portFile' = portFile \/ (job[t].step = "write" /\ portFile' = job[t].gen),
         UNCHANGED <<desired, stopAll, entry, gate, requests, proc, lastGen>>
  PROVE  GlobalInv'
<1> t \in Jobs /\ t \notin Stoppers  BY ActorsAssumption DEF Jobs
<1> USE DEF Others
<1>1. ~Closer(t) /\ ~Alone(t) /\ ~Bearing(t) /\ ~Replacing(t) /\ ~Parting(t)
  BY DEF Closer, Alone, Bearing, Replacing, Parting
<1>2. ~Closer(t)' /\ ~Alone(t)' /\ ~Bearing(t)' /\ ~Replacing(t)' /\ ~Parting(t)'
  BY DEF Closer, Alone, Bearing, Replacing, Parting
<1>3. portFile' = portFile \/ /\ job[t].step = "write" /\ portFile' = entry.gen
                              /\ job[t].lease = entry.gen
  BY DEF GlobalInv, Shapes, Anchored, Leasing
<1>5. Shapes' /\ OneMaker'
  BY DEF GlobalInv, Shapes, OneMaker, Leasing, Making
<1>4. \A u \in Jobs : Alone(u) => job[u].lease # 0
  BY RolesLease
<1>6. Drawn' /\ Gated'
  <2>1. 0 <= lastGen
    BY BoundsAssumption DEF GlobalInv, TypeOK, GenOrNone
  <2>2. Drawn'
    BY <1>3, <2>1 DEF GlobalInv, Drawn
  <2>3. Gated'
    BY DEF GlobalInv, Gated
  <2> QED  BY <2>2, <2>3
<1>7. Anchored'
  BY DEF GlobalInv, Anchored
<1>8. OneCloser'
  BY <1>1, <1>2, OtherRoles DEF GlobalInv, OneCloser
<1>9. DrainedAlone'
  BY <1>1, <1>2, <1>4, OtherRoles DEF GlobalInv, DrainedAlone
<1>10. Taken' /\ Unborn'
  BY <1>1, <1>2, OtherRoles DEF GlobalInv, Taken, Unborn
<1>11. ASSUME NEW u \in Jobs, (job[u].step = "detach" \/ Replacing(u) \/ Parting(u) \/ Bearing(u))',
              job[t].step = "write", portFile' = job[t].lease
       PROVE  portFile' # job'[u].lease
  <2>1. u # t /\ (Alone(u) \/ Bearing(u)) /\ job'[u] = job[u]
    BY <1>2, <1>11, OtherRoles DEF Alone
  <2> QED  BY <1>11, <2>1 DEF GlobalInv, DrainedAlone, Unborn
<1>12. Unpublished'
  BY <1>2, <1>3, <1>11, OtherRoles DEF GlobalInv, Unpublished
<1>13. StopAllAlone'
  BY DEF GlobalInv, StopAllAlone
<1>14. NoOrphan'
  BY DEF GlobalInv, NoOrphan, InHand, At
<1>15. InCharge'
  BY <1>1, OtherRoles DEF GlobalInv, InCharge
<1>16. PortFileFresh'
  BY <1>3 DEF GlobalInv, PortFileFresh
<1> QED  BY <1>5, <1>6, <1>7, <1>8, <1>9, <1>10, <1>12, <1>13, <1>14, <1>15, <1>16 DEF GlobalInv

(* A publisher is admitted to the entry. *)
LEMMA Admitted ==
  ASSUME GlobalInv, TypeOK', Permitted', StopLicensed',
         NEW t \in Creators, Others(t), job[t].step = "publish",
         entry.gen # 0, entry.healthy, gate[entry.gen] = "open",
         job'[t].step = "write", job'[t].gen = entry.gen, job'[t].lease = entry.gen,
         UNCHANGED <<desired, stopAll, entry, gate, requests, proc, lastGen, portFile>>
  PROVE  GlobalInv'
<1> t \in Jobs /\ t \notin Stoppers  BY ActorsAssumption DEF Jobs
<1> USE DEF Others
<1>1. ~Closer(t) /\ ~Alone(t) /\ ~Bearing(t) /\ ~Replacing(t) /\ ~Parting(t)
  BY DEF Closer, Alone, Bearing, Replacing, Parting
<1>2. ~Closer(t)' /\ ~Alone(t)' /\ ~Bearing(t)' /\ ~Replacing(t)' /\ ~Parting(t)'
  BY DEF Closer, Alone, Bearing, Replacing, Parting
<1>3. \A u \in Jobs : ~Closer(u) /\ ~Alone(u) /\ ~Bearing(u)
  BY RolesLease DEF GlobalInv, Unborn
<1>5. Shapes' /\ OneMaker'
  BY DEF GlobalInv, Shapes, OneMaker, Leasing, Making
<1>6. Drawn' /\ Gated'
  BY DEF GlobalInv, Drawn, Gated, Shapes, Leasing
<1>7. Anchored'
  BY DEF GlobalInv, Anchored
<1>8. OneCloser'
  BY <1>1, <1>2, OtherRoles DEF GlobalInv, OneCloser
<1>9. DrainedAlone'
  BY <1>3, <1>2, OtherRoles DEF GlobalInv, DrainedAlone
<1>10. Taken' /\ Unborn' /\ Unpublished'
  BY <1>2, <1>3, OtherRoles DEF GlobalInv, Taken, Unborn, Unpublished
<1>13. StopAllAlone'
  BY DEF GlobalInv, StopAllAlone
<1>14. NoOrphan'
  BY DEF GlobalInv, NoOrphan, InHand, At
<1>15. InCharge'
  BY <1>1, OtherRoles DEF GlobalInv, InCharge
<1>16. PortFileFresh'
  BY DEF GlobalInv, PortFileFresh
<1> QED  BY <1>5, <1>6, <1>7, <1>8, <1>9, <1>10, <1>13, <1>14, <1>15, <1>16 DEF GlobalInv

LEMMA Zeros == ASSUME TypeOK PROVE 0 <= lastGen /\ lastGen \in Nat /\ portFile \in Nat
BY BoundsAssumption DEF TypeOK, GenOrNone

(* A closer goes from one of its steps to the next and keeps its lease.    *)
LEMMA ChargeKept ==
  ASSUME GlobalInv, TypeOK', Permitted', StopLicensed',
         NEW t \in Jobs, Others(t), Closer(t), Closer(t)', job'[t].lease = job[t].lease,
         job[t].step # "install", job'[t].step # "install",
         entry' = [entry EXCEPT !.held = entry'.held],
         entry'.held => entry.held,
         entry.held => entry'.held \/ job'[t].step \in {"kill", "settle"},
         job'[t].step \in {"settle", "detach"} \/ Replacing(t)' => ~entry'.held,
         Alone(t)' => Alone(t) \/ InFlight(job[t].lease) <= 1,
         portFile' \in {0, portFile},
         job'[t].step = "detach" \/ Replacing(t)' \/ Parting(t)' =>
           portFile' = 0 \/ Parting(t) \/ Replacing(t),
         \A g \in Gens : /\ proc'[g] \in Up => proc[g] \in Up
                         /\ proc[g] = "none" => proc'[g] = "none",
         job[t].step \in {"kill", "settle"} =>
           job'[t].step \in {"kill", "settle"} \/ proc'[job[t].lease] \notin Up,
         lastGen' \in {lastGen, lastGen + 1},
         job'[t].gen <= lastGen',
         job'[t].step \in Making =>
           /\ job'[t].gen # 0 /\ job'[t].gen # job[t].lease
           /\ \/ job'[t].gen = lastGen + 1 /\ lastGen' = lastGen + 1
              \/ job[t].step \in Making /\ job'[t].gen = job[t].gen,
         t \in Stoppers => job'[t].step \in {"retire", "settle", "detach"},
         UNCHANGED <<desired, stopAll, gate, requests>>
  PROVE  GlobalInv'
<1> USE DEF Others
<1> DEFINE l == job[t].lease
<1>1. /\ l # 0 /\ l \in Gens /\ entry.gen = l /\ gate[l] = "closed" /\ lastGen \in Nat
      /\ job[t].step \notin {"discard", "release", "write", "health", "ready", "publish"}
      /\ job'[t].step \notin {"discard", "release", "write", "health", "ready", "publish"}
      /\ job'[t].step \in Leasing \cup {"reserve"}
      /\ ~Bearing(t) /\ ~Bearing(t)'
  BY RolesLease, Zeros DEF GlobalInv, Closer, Replacing, Parting, Bearing, Leasing
<1>2. entry'.gen = entry.gen /\ entry'.healthy = entry.healthy
  BY DEF GlobalInv, TypeOK, Entry
<1>3. \A u \in Jobs : u # t /\ Closer(u) => FALSE
  BY <1>1, RolesLease DEF GlobalInv, OneCloser
<1>4. \A u \in Jobs : u # t => ~Closer(u)' /\ ~Alone(u)' /\ ~Replacing(u)' /\ ~Parting(u)'
                               /\ Bearing(u)' = Bearing(u)
  BY <1>3, OtherRoles DEF Alone, Closer
<1>5. Shapes'
  BY <1>1 DEF GlobalInv, Shapes, Leasing, Making
<1>6. \A u \in Jobs : job[u].gen <= lastGen /\ job[u].gen \in Nat
  BY JobFields DEF GlobalInv, Drawn, GenOrNone
<1>7. OneMaker'
  BY <1>1, <1>6 DEF GlobalInv, OneMaker, Making
<1>8. Drawn'
  <2>1. \A g \in Gens : g > lastGen' => g > lastGen
    BY <1>1 DEF Gens
  <2>2. entry'.gen <= lastGen' /\ portFile' <= lastGen'
    BY <1>1, <1>2, Zeros DEF GlobalInv, Drawn, Gens
  <2>3. \A u \in Jobs : job'[u].lease <= lastGen' /\ job'[u].gen <= lastGen'
    BY <1>1, JobFields DEF GlobalInv, Drawn, GenOrNone
  <2>4. \A x \in Stops : stopAll[x].gen \in Nat
    BY DEF GlobalInv, TypeOK, GenOrNone
  <2>5. \A x \in Stops : stopAll'[x].gen <= lastGen'
    BY <1>1, <2>4 DEF GlobalInv, Drawn
  <2> QED  BY <1>1, <1>2, <2>1, <2>2, <2>3, <2>5 DEF GlobalInv, Drawn
<1>9. Gated'
  <2>1. job'[t].step \in {"kill", "spawn"} => gate[job'[t].gen] = "none"
    <3>1. job'[t].gen = lastGen + 1 /\ job'[t].gen \in Gens => gate[job'[t].gen] = "none"
      BY <1>1 DEF GlobalInv, Drawn
    <3>2. job'[t].gen # 0 => job'[t].gen \in Gens
      BY DEF TypeOK, GenOrNone, Gens
    <3>3. job[t].step \in Making => gate[job[t].gen] = "none"
      BY <1>1 DEF GlobalInv, Gated, Shapes, Making, Closer, Replacing, Parting
    <3> QED  BY <3>1, <3>2, <3>3 DEF Making
  <2> QED  BY <1>1, <1>2, <2>1 DEF GlobalInv, Gated
<1>10. Anchored'
  BY <1>1, <1>2 DEF GlobalInv, Anchored
<1>11. OneCloser'
  BY <1>1, <1>4 DEF GlobalInv, OneCloser
<1>12. DrainedAlone'
  <2>1. Alone(t)' => requests[l] = 0 /\ \A u \in Jobs : job[u].lease = l => u = t
    BY <1>1, OneLease DEF GlobalInv, DrainedAlone
  <2> QED  BY <1>4, <2>1 DEF DrainedAlone
<1>13. Taken'
  BY <1>1, <1>2, <1>4 DEF GlobalInv, Taken
<1>14. Unpublished'
  <2>1. \A u \in Jobs : Bearing(u) => job[u].lease # 0
    BY RolesLease
  <2>2. job'[t].step = "detach" \/ Replacing(t)' \/ Parting(t)' => portFile' # l
    BY <1>1 DEF GlobalInv, Unpublished
  <2>3. \A u \in Jobs : Bearing(u) => portFile' # job[u].lease
    BY <2>1 DEF GlobalInv, Unpublished
  <2>4. \A u \in Jobs : u # t => job[u].step # "detach"
    BY <1>3 DEF Closer
  <2> QED  BY <1>1, <1>4, <2>2, <2>3, <2>4 DEF Unpublished
<1>15. Unborn'
  BY <1>1, <1>2, <1>4 DEF GlobalInv, Unborn
<1>16. StopAllAlone'
  BY <1>1, <1>2 DEF GlobalInv, StopAllAlone, NoEntry
<1>17. NoOrphan'
  <2> SUFFICES ASSUME NEW g \in Gens, proc'[g] \in Up
               PROVE  (entry'.gen = g /\ entry'.held) \/ InHand(g)'
    BY DEF NoOrphan
  <2>1. proc[g] \in Up
    OBVIOUS
  <2>2. CASE g = l
    BY <1>1, <1>2, <2>1, <2>2 DEF GlobalInv, NoOrphan, InHand, At
  <2>3. CASE g # l
    BY <1>1, <1>2, <2>1, <2>3 DEF GlobalInv, NoOrphan, InHand, At
  <2> QED  BY <2>2, <2>3
<1>18. InCharge'
  BY <1>1, <1>2 DEF GlobalInv, InCharge
<1>19. PortFileFresh'
  BY <1>2 DEF GlobalInv, PortFileFresh
<1> QED  BY <1>5, <1>7, <1>8, <1>9, <1>10, <1>11, <1>12, <1>13, <1>14, <1>15, <1>16, <1>17,
            <1>18, <1>19 DEF GlobalInv

LEMMA LeaseCases ==
  ASSUME GlobalInv
  PROVE  \A u \in Jobs : job[u].lease # 0 =>
           Closer(u) \/ Bearing(u) \/ job[u].step \in {"write", "discard", "release"}
BY DEF GlobalInv, Shapes, Closer, Bearing, Replacing, Parting, Leasing

(* A birth nobody has stopped is alone with its generation.                *)
LEMMA BirthAlone ==
  ASSUME GlobalInv, NEW t \in Jobs, Bearing(t), gate[job[t].lease] = "open"
  PROVE  \A u \in Jobs : u # t /\ job[u].lease # 0 =>
           job[u].step \in {"discard", "release"} /\ job[u].lease # job[t].lease
<1> SUFFICES ASSUME NEW u \in Jobs, u # t, job[u].lease # 0
             PROVE  job[u].step \in {"discard", "release"} /\ job[u].lease # job[t].lease
  OBVIOUS
<1>1. entry.gen = job[t].lease /\ ~Closer(u)
  BY RolesLease
<1>2. ~Bearing(u)
  BY <1>1, RolesLease DEF GlobalInv, OneMaker, Bearing, Making
<1>3. job[u].step # "write"
  BY <1>1 DEF GlobalInv, Unborn, Anchored
<1>4. job[u].step \in {"discard", "release"}
  BY <1>1, <1>2, <1>3, LeaseCases
<1> QED  BY <1>4 DEF GlobalInv, OneCloser

LEMMA CandidateStep ==
  ASSUME GlobalInv, TypeOK', NEW t \in Creators, Spawn(t)
  PROVE  GlobalInv'
<1> t \in Jobs /\ t \notin Stoppers  BY ActorsAssumption DEF Jobs
<1>1. /\ job[t].step = "spawn" /\ job'[t].step = "install"
      /\ job'[t].gen = job[t].gen /\ job'[t].lease = job[t].lease /\ Others(t)
      /\ proc' = [proc EXCEPT ![job[t].gen] = "starting"]
      /\ UNCHANGED <<quiesceVars, stopAll, desired, entry, gate, requests, lastGen, portFile>>
  BY GoEffect DEF Spawn, At, Inside, Others, GlobalInv
<1>2. job[t].gen \in Gens /\ job[t].lease # 0 /\ job[t].gen <= lastGen
  BY <1>1, JobFields DEF GlobalInv, Shapes, Making, Leasing, Gens, GenOrNone, Drawn
<1>3. /\ \A u \in Jobs : /\ Closer(u)' = Closer(u) /\ Alone(u)' = Alone(u)
                         /\ Bearing(u)' = Bearing(u) /\ Replacing(u)' = Replacing(u)
                         /\ Parting(u)' = Parting(u)
                         /\ job'[u].gen = job[u].gen /\ job'[u].lease = job[u].lease
      /\ \A u \in Jobs : u # t => job'[u] = job[u]
  BY <1>1, OtherRoles DEF Others, Closer, Alone, Bearing, Replacing, Parting
<1>4. \A u \in Jobs : job'[u].step # job[u].step => job'[u].step = "install" /\ job[u].step = "spawn"
  BY <1>1, <1>3
<1>5. Permitted' /\ StopLicensed'
  BY <1>1, BooksKept DEF GlobalInv, Permitted
<1>6. Shapes'
  BY <1>1, <1>3, <1>4 DEF GlobalInv, Shapes, Leasing, Making
<1>7. Drawn'
  <2>1. \A g \in Gens : g > lastGen => g # job[t].gen
    BY <1>2, Zeros DEF GlobalInv, Gens
  <2>2. \A g \in Gens : g # job[t].gen => proc'[g] = proc[g]
    BY <1>1 DEF GlobalInv, TypeOK
  <2> QED  BY <1>1, <1>3, <2>1, <2>2 DEF GlobalInv, Drawn
<1>8. Gated' /\ OneMaker'
  BY <1>1, <1>3, <1>4 DEF GlobalInv, Gated, OneMaker, Making
<1>9. Anchored' /\ OneCloser' /\ DrainedAlone'
  BY <1>1, <1>3, <1>4 DEF GlobalInv, Anchored, OneCloser, DrainedAlone
<1>10. Taken' /\ Unpublished' /\ Unborn'
  BY <1>1, <1>3, <1>4 DEF GlobalInv, Taken, Unpublished, Unborn
<1>11. StopAllAlone' /\ PortFileFresh'
  BY <1>1 DEF GlobalInv, StopAllAlone, PortFileFresh
<1>12. NoOrphan'
  <2> SUFFICES ASSUME NEW g \in Gens, proc'[g] \in Up
               PROVE  (entry'.gen = g /\ entry'.held) \/ InHand(g)'
    BY DEF NoOrphan
  <2>1. CASE g = job[t].gen
    BY <1>1, <2>1 DEF InHand, At
  <2>2. CASE g # job[t].gen
    <3>1. proc[g] \in Up
      BY <1>1, <2>2 DEF GlobalInv, TypeOK
    <3> QED  BY <1>1, <1>3, <3>1 DEF GlobalInv, NoOrphan, InHand, At
  <2> QED  BY <2>1, <2>2
<1>13. InCharge'
  BY <1>1, <1>3 DEF GlobalInv, InCharge
<1> QED  BY <1>5, <1>6, <1>7, <1>8, <1>9, <1>10, <1>11, <1>12, <1>13 DEF GlobalInv

(* A generation is drawn and put into the empty place.                     *)
LEMMA PlaceTaken ==
  ASSUME GlobalInv, QuiescedMeansNoBirth, TypeOK', Permitted', StopLicensed',
         NEW t \in Creators, Others(t), job[t].step = "reserve", job[t].lease = 0,
         desired, entry.gen = 0, lastGen < MaxGen, lastGen' = lastGen + 1,
         entry' = Born(lastGen', FALSE), gate' = [gate EXCEPT ![lastGen'] = "open"],
         job'[t].step = "spawn", job'[t].gen = lastGen', job'[t].lease = lastGen',
         UNCHANGED <<desired, stopAll, requests, proc, portFile>>
  PROVE  GlobalInv'
<1> t \in Jobs /\ t \notin Stoppers  BY ActorsAssumption DEF Jobs
<1> USE DEF Others
<1> DEFINE n == lastGen + 1
<1>1. /\ n \in Gens /\ n # 0 /\ gate'[n] = "open" /\ lastGen \in Nat
      /\ \A g \in Gens : g # n => gate'[g] = gate[g]
      /\ gate[n] = "none" /\ requests[n] = 0
  <2>1. n \in Gens /\ n > lastGen /\ lastGen \in Nat
    BY Zeros, BoundsAssumption DEF GlobalInv, Gens
  <2>2. gate[n] = "none" /\ requests[n] \in Nat
    BY <2>1 DEF GlobalInv, Drawn, TypeOK
  <2>3. requests[n] = 0
    BY <2>1, <2>2 DEF GlobalInv, Gated
  <2> QED  BY <2>1, <2>2, <2>3 DEF GlobalInv, TypeOK
<1>2. entry'.gen = n /\ ~entry'.held /\ ~entry'.healthy
  BY DEF Born
<1>3. /\ \A x \in Stops : stopAll[x].step = "none"
      /\ portFile = 0
  BY NoStops DEF Calling, GlobalInv, PortFileFresh
<1>4. \A u \in Jobs : job[u].lease # 0 => job[u].step \in {"discard", "release"}
  BY DEF GlobalInv, Anchored
<1>5. \A u \in Jobs : /\ job[u].lease # n /\ job[u].gen # n
                      /\ job[u].lease # 0 => job[u].lease \in Gens
                      /\ job[u].gen # 0 => job[u].gen \in Gens
                      /\ job[u].gen <= n /\ job[u].lease <= n
  BY <1>1, JobFields DEF GlobalInv, Drawn, GenOrNone, Gens
<1>6. /\ \A u \in Jobs : ~Closer(u) /\ ~Alone(u) /\ ~Replacing(u) /\ ~Parting(u) /\ ~Bearing(u)
      /\ \A u \in Jobs : ~Closer(u)' /\ ~Alone(u)' /\ ~Replacing(u)' /\ ~Parting(u)'
                         /\ (Bearing(u)' => u = t)
  <2>1. \A u \in Jobs : ~Closer(u) /\ ~Alone(u) /\ ~Replacing(u) /\ ~Parting(u) /\ ~Bearing(u)
    BY <1>4 DEF GlobalInv, Shapes, Closer, Alone, Replacing, Parting, Bearing, Leasing
  <2>2. ~Closer(t)' /\ ~Alone(t)' /\ ~Replacing(t)' /\ ~Parting(t)'
    BY DEF Closer, Alone, Replacing, Parting
  <2> QED  BY <2>1, <2>2, OtherRoles
<1>7. Shapes'
  BY <1>1 DEF GlobalInv, Shapes, Leasing, Making
<1>8. Drawn'
  <2>1. \A x \in Stops : stopAll[x].gen \in Nat
    BY DEF GlobalInv, TypeOK, GenOrNone
  <2>2. \A x \in Stops : stopAll'[x].gen <= n
    BY <1>1, <2>1 DEF GlobalInv, Drawn
  <2>3. \A g \in Gens : g > n => g > lastGen /\ g # n
    BY <1>1 DEF Gens
  <2>4. entry'.gen <= lastGen' /\ portFile' <= lastGen' /\ entry'.gen # 0
    <3>1. portFile' = 0 /\ lastGen' = n
      BY <1>3
    <3>2. 0 <= n /\ n <= n
      BY <1>1
    <3> QED  BY <1>1, <1>2, <3>1, <3>2
  <2>5. \A g \in Gens : g > lastGen' => gate'[g] = "none" /\ proc'[g] = "none"
    <3>1. \A g \in Gens : g > n => gate[g] = "none" /\ proc[g] = "none" /\ g # n
      BY <2>3 DEF GlobalInv, Drawn
    <3> QED  BY <1>1, <3>1
  <2>6. \A u \in Jobs : job'[u].gen <= lastGen' /\ job'[u].lease <= lastGen'
    BY <1>1, <1>5
  <2> QED  BY <2>2, <2>4, <2>5, <2>6 DEF Drawn
<1>9. Gated'
  <2>1. \A g \in Gens : gate[g] # "none" => gate'[g] # "none"
    BY <1>1
  <2>2. \A u \in Jobs : job'[u].lease # 0 => gate'[job'[u].lease] # "none"
    BY <1>1, <1>5, <2>1 DEF GlobalInv, Gated
  <2>3. \A u \in Jobs : u # t /\ job[u].step \in {"kill", "spawn", "install", "discard"}
          /\ job[u].gen # job[u].lease => gate'[job[u].gen] = "none"
    <3> SUFFICES ASSUME NEW u \in Jobs, u # t, job[u].step \in {"kill", "spawn", "install", "discard"},
                        job[u].gen # job[u].lease
                 PROVE  gate'[job[u].gen] = "none"
      OBVIOUS
    <3>1. gate[job[u].gen] = "none"
      BY DEF GlobalInv, Gated
    <3>2. job[u].gen \in Gens /\ job[u].gen # n
      BY <1>5 DEF GlobalInv, Shapes, Making
    <3> QED  BY <1>1, <3>1, <3>2
  <2>4. entry'.gen # 0 => gate'[entry'.gen] # "none"
    BY <1>1, <1>2
  <2>5. \A h \in Gens : requests'[h] > 0 => gate'[h] # "none"
    BY <2>1 DEF GlobalInv, Gated
  <2>6. \A u \in Jobs :
          job'[u].step \in {"kill", "spawn", "install", "discard"} /\ job'[u].gen # job'[u].lease
            => gate'[job'[u].gen] = "none"
    BY <2>3
  <2> QED  BY <2>2, <2>4, <2>5, <2>6 DEF Gated
<1>10. OneMaker'
  BY <1>5 DEF GlobalInv, OneMaker
<1>11. Anchored'
  BY <1>2, <1>4 DEF Anchored
<1>12. OneCloser'
  <2>1. \A u \in Jobs : job[u].step \in {"discard", "release"} => job[u].lease # 0
    BY DEF GlobalInv, Shapes, Leasing
  <2> QED  BY <1>1, <1>5, <1>6, <2>1 DEF GlobalInv, OneCloser
<1>13. DrainedAlone' /\ Taken'
  BY <1>2, <1>6 DEF DrainedAlone, Taken
<1>14. Unpublished'
  BY <1>1, <1>3, <1>6 DEF Unpublished, Alone
<1>15. Unborn'
  BY <1>1, <1>2, <1>5, <1>6 DEF Unborn
<1>16. StopAllAlone' /\ PortFileFresh'
  BY <1>3 DEF StopAllAlone, PortFileFresh
<1>17. NoOrphan'
  <2>1. \A g \in Gens : proc[g] \in Up => InHand(g)
    BY DEF GlobalInv, NoOrphan, Gens
  <2>2. \A g \in Gens : InHand(g) => InHand(g)'
    BY DEF InHand, At
  <2> QED  BY <2>1, <2>2 DEF NoOrphan
<1>18. InCharge'
  BY <1>1, <1>2 DEF InCharge
<1> QED  BY <1>7, <1>8, <1>9, <1>10, <1>11, <1>12, <1>13, <1>14, <1>15, <1>16, <1>17, <1>18
         DEF GlobalInv

(* A birth is given up and its place with it.                              *)
LEMMA PlaceGivenUp ==
  ASSUME GlobalInv, TypeOK', Permitted', StopLicensed',
         NEW t \in Creators, Others(t), Bearing(t), gate[entry.gen] = "open",
         entry' = NoEntry, gate' = Closed(entry.gen),
         \/ /\ job[t].step = "spawn" /\ job'[t].step = "return"
            /\ job'[t].gen = 0 /\ job'[t].lease = 0
         \/ /\ job[t].step = "install" /\ job'[t].step = "discard"
            /\ job'[t].gen = job[t].gen /\ job'[t].lease = job[t].lease,
         UNCHANGED <<desired, stopAll, requests, proc, lastGen, portFile>>
  PROVE  GlobalInv'
<1> t \in Jobs /\ t \notin Stoppers  BY ActorsAssumption DEF Jobs
<1> USE DEF Others
<1> DEFINE g == entry.gen
<1>1. /\ g \in Gens /\ g = job[t].lease /\ g = job[t].gen /\ g # 0 /\ ~entry.held
      /\ gate'[g] = "closed" /\ \A h \in Gens : h # g => gate'[h] = gate[h]
  BY RolesLease, ClosedEffect DEF GlobalInv, Taken, Bearing
<1>2. \A u \in Jobs : u # t /\ job[u].lease # 0 =>
        job[u].step \in {"discard", "release"} /\ job[u].lease # g
  BY <1>1, BirthAlone
<1>3. /\ \A u \in Jobs : u # t => ~Closer(u) /\ ~Alone(u) /\ ~Bearing(u)
      /\ \A u \in Jobs : ~Closer(u)' /\ ~Alone(u)' /\ ~Bearing(u)' /\ ~Replacing(u)' /\ ~Parting(u)'
  <2>1. \A u \in Jobs : u # t => ~Closer(u) /\ ~Alone(u) /\ ~Bearing(u)
    BY <1>2, RolesLease DEF Closer, Replacing, Parting, Bearing, Alone
  <2>2. ~Closer(t)' /\ ~Alone(t)' /\ ~Bearing(t)' /\ ~Replacing(t)' /\ ~Parting(t)'
    BY DEF Closer, Alone, Bearing, Replacing, Parting
  <2>3. \A u \in Jobs : u # t => ~Replacing(u) /\ ~Parting(u)
    BY <2>1 DEF Closer
  <2> QED  BY <2>1, <2>2, <2>3, OtherRoles
<1>4. /\ entry'.gen = 0 /\ ~entry'.held /\ ~entry'.healthy
      /\ \A u \in Jobs : job[u].lease # 0 => job[u].lease \in Gens
      /\ \A u \in Jobs : job[u].gen # 0 => job[u].gen \in Gens
  BY JobFields DEF GlobalInv, NoEntry, GenOrNone, Gens
<1>5. Shapes' /\ OneMaker'
  BY <1>1 DEF GlobalInv, Shapes, OneMaker, Leasing, Making
<1>6. Drawn'
  <2>1. g <= lastGen /\ 0 <= lastGen
    BY Zeros DEF GlobalInv, Drawn
  <2>2. \A h \in Gens : h > lastGen => gate'[h] = "none"
    BY <1>1, <2>1 DEF GlobalInv, Drawn, Gens
  <2> QED  BY <1>4, <2>1, <2>2 DEF GlobalInv, Drawn
<1>7. Gated'
  BY <1>1, <1>4 DEF GlobalInv, Gated, Shapes, Making
<1>8. Anchored'
  BY <1>2 DEF Anchored
<1>9. OneCloser'
  BY <1>1, <1>2, <1>3, <1>4 DEF GlobalInv, OneCloser, Shapes, Leasing
<1>10. DrainedAlone' /\ Taken' /\ Unborn'
  BY <1>3, <1>4 DEF DrainedAlone, Taken, Unborn
<1>11. portFile # g
  BY <1>1 DEF GlobalInv, Unpublished
<1>12. Unpublished'
  BY <1>3 DEF Unpublished, Alone
<1>13. StopAllAlone'
  <2>1. \A h \in Gens : gate[h] = "closed" => gate'[h] = "closed"
    BY <1>1
  <2>2. \A x \in Stops : stopAll[x].gen # 0 => stopAll[x].gen \in Gens
    BY DEF GlobalInv, TypeOK, GenOrNone, Gens
  <2> QED  BY <1>4, <2>1, <2>2 DEF GlobalInv, StopAllAlone
<1>14. NoOrphan'
  <2>1. \A h \in Gens : proc[h] \in Up => InHand(h)
    BY <1>1 DEF GlobalInv, NoOrphan
  <2>2. \A h \in Gens : InHand(h) => InHand(h)'
    BY DEF InHand, At
  <2> QED  BY <2>1, <2>2 DEF NoOrphan
<1>15. InCharge'
  BY <1>4 DEF InCharge
<1>16. PortFileFresh'
  BY <1>11 DEF GlobalInv, PortFileFresh
<1> QED  BY <1>5, <1>6, <1>7, <1>8, <1>9, <1>10, <1>12, <1>13, <1>14, <1>15, <1>16 DEF GlobalInv

(* A stop has overtaken the birth and will remove its place.               *)
LEMMA BirthOvertaken ==
  ASSUME GlobalInv, TypeOK', Permitted', StopLicensed',
         NEW t \in Creators, Others(t), Bearing(t), gate[entry.gen] # "open",
         \/ /\ job[t].step = "spawn" /\ job'[t].step = "return"
            /\ job'[t].gen = 0 /\ job'[t].lease = 0
         \/ /\ job[t].step = "install" /\ job'[t].step = "discard"
            /\ job'[t].gen = job[t].gen /\ job'[t].lease = job[t].lease,
         UNCHANGED <<desired, stopAll, entry, gate, requests, proc, lastGen, portFile>>
  PROVE  GlobalInv'
<1> t \in Jobs /\ t \notin Stoppers  BY ActorsAssumption DEF Jobs
<1> USE DEF Others
<1> DEFINE g == entry.gen
<1>1. g \in Gens /\ g = job[t].lease /\ g = job[t].gen /\ g # 0 /\ ~entry.held
  BY RolesLease DEF GlobalInv, Taken, Bearing
<1>2. gate[g] = "closed"
  BY <1>1 DEF GlobalInv, Gated, TypeOK
<1>3. /\ ~Closer(t) /\ ~Alone(t)
      /\ ~Closer(t)' /\ ~Alone(t)' /\ ~Bearing(t)' /\ ~Replacing(t)' /\ ~Parting(t)'
  BY DEF Closer, Alone, Bearing, Replacing, Parting
<1>4. \A u \in Jobs : ~Alone(u)
  BY <1>1, <1>3, RolesLease DEF GlobalInv, DrainedAlone
<1>5. Shapes' /\ OneMaker'
  BY <1>1 DEF GlobalInv, Shapes, OneMaker, Leasing, Making
<1>6. Drawn' /\ Gated'
  BY <1>1, Zeros DEF GlobalInv, Drawn, Gated
<1>7. Anchored'
  BY DEF GlobalInv, Anchored
<1>8. OneCloser'
  BY <1>1, <1>2, <1>3, OtherRoles DEF GlobalInv, OneCloser
<1>9. DrainedAlone'
  BY <1>3, <1>4, OtherRoles DEF DrainedAlone
<1>10. Taken' /\ Unpublished' /\ Unborn'
  BY <1>3, OtherRoles DEF GlobalInv, Taken, Unpublished, Unborn
<1>11. StopAllAlone' /\ PortFileFresh'
  BY DEF GlobalInv, StopAllAlone, PortFileFresh
<1>12. NoOrphan'
  <2>1. \A h \in Gens : InHand(h) => InHand(h)'
    BY DEF InHand, At
  <2> QED  BY <2>1 DEF GlobalInv, NoOrphan
<1>13. InCharge'
  BY <1>3, OtherRoles DEF GlobalInv, InCharge
<1> QED  BY <1>5, <1>6, <1>7, <1>8, <1>9, <1>10, <1>11, <1>12, <1>13 DEF GlobalInv

(* The process that was born takes the place.                              *)
LEMMA PlaceFilled ==
  ASSUME GlobalInv, TypeOK', Permitted', StopLicensed',
         NEW t \in Creators, Others(t), Bearing(t), job[t].step = "install",
         gate[entry.gen] = "open", entry' = Born(job[t].gen, TRUE),
         job'[t].step = "health", job'[t].gen = job[t].gen, job'[t].lease = 0,
         UNCHANGED <<desired, stopAll, gate, requests, proc, lastGen, portFile>>
  PROVE  GlobalInv'
<1> t \in Jobs /\ t \notin Stoppers  BY ActorsAssumption DEF Jobs
<1> USE DEF Others
<1> DEFINE g == entry.gen
<1>1. g \in Gens /\ g = job[t].lease /\ g = job[t].gen /\ g # 0 /\ ~entry.held
  BY RolesLease DEF GlobalInv, Taken, Bearing
<1>2. \A u \in Jobs : u # t /\ job[u].lease # 0 =>
        job[u].step \in {"discard", "release"} /\ job[u].lease # g
  BY <1>1, BirthAlone
<1>3. /\ \A u \in Jobs : u # t => ~Closer(u) /\ ~Alone(u) /\ ~Bearing(u)
      /\ \A u \in Jobs : ~Closer(u)' /\ ~Alone(u)' /\ ~Bearing(u)' /\ ~Replacing(u)' /\ ~Parting(u)'
  <2>1. \A u \in Jobs : u # t => ~Closer(u) /\ ~Alone(u) /\ ~Bearing(u)
    BY <1>2, RolesLease DEF Closer, Replacing, Parting, Bearing, Alone
  <2>2. ~Closer(t)' /\ ~Alone(t)' /\ ~Bearing(t)' /\ ~Replacing(t)' /\ ~Parting(t)'
    BY DEF Closer, Alone, Bearing, Replacing, Parting
  <2>3. \A u \in Jobs : u # t => ~Replacing(u) /\ ~Parting(u)
    BY <2>1 DEF Closer
  <2> QED  BY <2>1, <2>2, <2>3, OtherRoles
<1>4. entry'.gen = g /\ entry'.held
  BY <1>1 DEF Born
<1>5. Shapes' /\ OneMaker'
  BY <1>1 DEF GlobalInv, Shapes, OneMaker, Leasing, Making
<1>6. Drawn'
  BY <1>1, <1>4, Zeros DEF GlobalInv, Drawn
<1>7. Gated'
  BY <1>1, <1>4 DEF GlobalInv, Gated
<1>8. Anchored'
  BY <1>2 DEF Anchored
<1>9. OneCloser'
  BY <1>2, <1>3 DEF GlobalInv, OneCloser, Shapes, Leasing
<1>10. DrainedAlone' /\ Taken' /\ Unborn' /\ Unpublished'
  BY <1>3 DEF DrainedAlone, Taken, Unborn, Unpublished, Alone
<1>11. StopAllAlone' /\ PortFileFresh'
  <2>1. entry # NoEntry
    BY <1>1 DEF NoEntry
  <2>2. StopAllAlone'
    BY <1>4, <2>1 DEF GlobalInv, StopAllAlone
  <2>3. PortFileFresh'
    BY <1>4 DEF GlobalInv, PortFileFresh
  <2> QED  BY <2>2, <2>3
<1>12. NoOrphan'
  <2> SUFFICES ASSUME NEW h \in Gens, proc[h] \in Up, h # g
               PROVE  InHand(h)'
    BY <1>4 DEF NoOrphan
  <2>1. InHand(h)
    BY DEF GlobalInv, NoOrphan
  <2> QED  BY <1>1, <2>1 DEF InHand, At
<1>13. InCharge'
  BY <1>4 DEF GlobalInv, InCharge
<1> QED  BY <1>5, <1>6, <1>7, <1>8, <1>9, <1>10, <1>11, <1>12, <1>13 DEF GlobalInv

(* Whoever is alone with the entry's generation is alone altogether.       *)
LEMMA AloneAll ==
  ASSUME GlobalInv, NEW t \in Jobs, Alone(t)
  PROVE  /\ entry.gen = job[t].lease /\ entry.gen \in Gens /\ entry.gen # 0
         /\ gate[entry.gen] = "closed" /\ requests[entry.gen] = 0
         /\ \A u \in Jobs : u # t /\ job[u].lease # 0 =>
              job[u].step \in {"discard", "release"} /\ job[u].lease # entry.gen
         /\ \A u \in Jobs : u # t =>
              ~Closer(u) /\ ~Alone(u) /\ ~Bearing(u) /\ ~Replacing(u) /\ ~Parting(u)
<1>1. /\ entry.gen = job[t].lease /\ entry.gen \in Gens /\ entry.gen # 0
      /\ gate[entry.gen] = "closed"
  BY RolesLease DEF Gens
<1>2. \A u \in Jobs : u # t /\ job[u].lease # 0 => job[u].lease # entry.gen
  BY <1>1 DEF GlobalInv, DrainedAlone
<1>3. \A u \in Jobs : u # t /\ job[u].lease # 0 => job[u].step \in {"discard", "release"}
  BY <1>2 DEF GlobalInv, Anchored
<1>4. \A u \in Jobs : u # t => ~Closer(u) /\ ~Alone(u) /\ ~Bearing(u)
  BY <1>2, RolesLease
<1>5. \A u \in Jobs : u # t => ~Replacing(u) /\ ~Parting(u)
  BY <1>4 DEF Closer
<1> QED  BY <1>1, <1>2, <1>3, <1>4, <1>5 DEF GlobalInv, DrainedAlone

(* The entry goes with whoever is alone with it.                           *)
LEMMA EntryLeaves ==
  ASSUME GlobalInv, TypeOK', Permitted', StopLicensed',
         NEW t \in Jobs, Others(t), entry' = NoEntry,
         \/ /\ job[t].step = "detach" /\ job'[t].step \in {"idle", "return"}
            /\ t \in Stoppers => job'[t].step = "idle"
            /\ job'[t].gen = 0 /\ job'[t].lease = 0
         \/ /\ job[t].step = "install" /\ Replacing(t) /\ t \notin Stoppers
            /\ job'[t].step = "discard"
            /\ job'[t].gen = job[t].gen /\ job'[t].lease = job[t].lease,
         UNCHANGED <<desired, stopAll, gate, requests, proc, lastGen, portFile>>
  PROVE  GlobalInv'
<1> USE DEF Others
<1> DEFINE g == entry.gen
<1>1. Alone(t)
  BY DEF Alone
<1>2. /\ g = job[t].lease /\ g \in Gens /\ g # 0
      /\ \A u \in Jobs : u # t /\ job[u].lease # 0 =>
           job[u].step \in {"discard", "release"} /\ job[u].lease # g
  BY <1>1, AloneAll
<1>3. \A u \in Jobs : ~Closer(u)' /\ ~Alone(u)' /\ ~Bearing(u)' /\ ~Replacing(u)' /\ ~Parting(u)'
  <2>1. ~Closer(t)' /\ ~Alone(t)' /\ ~Bearing(t)' /\ ~Replacing(t)' /\ ~Parting(t)'
    BY DEF Closer, Alone, Bearing, Replacing, Parting
  <2> QED  BY <1>1, <2>1, AloneAll, OtherRoles
<1>4. entry'.gen = 0 /\ ~entry'.held /\ ~entry'.healthy /\ ~entry.held
  BY DEF GlobalInv, Taken, NoEntry
<1>5. Shapes' /\ OneMaker'
  BY DEF GlobalInv, Shapes, OneMaker, Leasing, Making
<1>6. Drawn' /\ Gated'
  BY <1>4, Zeros DEF GlobalInv, Drawn, Gated
<1>8. Anchored'
  BY <1>2 DEF Anchored
<1>9. OneCloser'
  <2>1. gate[g] = "closed"
    BY <1>1, AloneAll
  <2> QED  BY <1>2, <1>3, <2>1 DEF GlobalInv, OneCloser
<1>10. DrainedAlone' /\ Taken' /\ Unborn' /\ Unpublished'
  BY <1>3 DEF DrainedAlone, Taken, Unborn, Unpublished, Alone
<1>11. StopAllAlone'
  BY <1>4 DEF GlobalInv, StopAllAlone
<1>12. PortFileFresh'
  <2>1. portFile # g
    BY <1>2 DEF GlobalInv, Unpublished
  <2> QED  BY <2>1 DEF GlobalInv, PortFileFresh
<1>13. NoOrphan'
  <2>1. \A h \in Gens : proc[h] \in Up => InHand(h)
    BY <1>4 DEF GlobalInv, NoOrphan
  <2>2. \A h \in Gens : InHand(h) => InHand(h)'
    BY DEF InHand, At
  <2> QED  BY <2>1, <2>2 DEF NoOrphan
<1>14. InCharge'
  BY <1>4 DEF InCharge
<1> QED  BY <1>5, <1>6, <1>8, <1>9, <1>10, <1>11, <1>12, <1>13, <1>14 DEF GlobalInv

(* The new process takes the old one's place.                              *)
LEMMA PlaceReplaced ==
  ASSUME GlobalInv, QuiescedMeansNoBirth, TypeOK', Permitted', StopLicensed',
         NEW t \in Creators, Others(t), Replacing(t), job[t].step = "install", desired,
         entry' = Born(job[t].gen, TRUE), gate' = [gate EXCEPT ![job[t].gen] = "open"],
         job'[t].step = "health", job'[t].gen = job[t].gen, job'[t].lease = 0,
         UNCHANGED <<desired, stopAll, requests, proc, lastGen, portFile>>
  PROVE  GlobalInv'
<1> t \in Jobs /\ t \notin Stoppers  BY ActorsAssumption DEF Jobs
<1> USE DEF Others
<1> DEFINE g == entry.gen
           n == job[t].gen
<1>1. Alone(t)
  BY DEF Alone
<1>2. /\ g = job[t].lease /\ g \in Gens /\ n # g
      /\ \A u \in Jobs : u # t /\ job[u].lease # 0 =>
           job[u].step \in {"discard", "release"} /\ job[u].lease # g
  BY <1>1, AloneAll DEF Replacing
<1>3. \A u \in Jobs : ~Closer(u)' /\ ~Alone(u)' /\ ~Bearing(u)' /\ ~Replacing(u)' /\ ~Parting(u)'
  <2>1. ~Closer(t)' /\ ~Alone(t)' /\ ~Bearing(t)' /\ ~Replacing(t)' /\ ~Parting(t)'
    BY DEF Closer, Alone, Bearing, Replacing, Parting
  <2> QED  BY <1>1, <2>1, AloneAll, OtherRoles
<1>4. /\ n \in Gens /\ n # 0 /\ n <= lastGen /\ gate[n] = "none" /\ gate'[n] = "open"
      /\ \A h \in Gens : h # n => gate'[h] = gate[h]
      /\ \A u \in Jobs : /\ job[u].lease # n
                         /\ job[u].lease # 0 => job[u].lease \in Gens
                         /\ u # t /\ job[u].step \in Making => job[u].gen # n
                         /\ job[u].gen # 0 => job[u].gen \in Gens
  <2>1. n \in Gens /\ n # 0 /\ n <= lastGen
    BY JobFields DEF GlobalInv, Shapes, Making, Gens, GenOrNone, Drawn
  <2>2. gate[n] = "none"
    BY <1>2 DEF GlobalInv, Gated
  <2>3. gate'[n] = "open" /\ \A h \in Gens : h # n => gate'[h] = gate[h]
    BY <2>1 DEF GlobalInv, TypeOK
  <2>4. \A u \in Jobs : job[u].lease # n
    BY <2>1, <2>2 DEF GlobalInv, Gated
  <2>5. \A u \in Jobs : /\ job[u].lease # 0 => job[u].lease \in Gens
                        /\ job[u].gen # 0 => job[u].gen \in Gens
    BY JobFields DEF GlobalInv, Gens, GenOrNone
  <2>6. \A u \in Jobs : u # t /\ job[u].step \in Making => job[u].gen # n
    BY DEF GlobalInv, OneMaker, Making
  <2> QED  BY <2>1, <2>2, <2>3, <2>4, <2>5, <2>6
<1>5. entry'.gen = n /\ entry'.held /\ ~entry.held
  BY DEF Born, GlobalInv, Taken
<1>6. Shapes' /\ OneMaker'
  BY DEF GlobalInv, Shapes, OneMaker, Leasing, Making
<1>7. Drawn'
  <2>1. \A h \in Gens : h > lastGen => gate'[h] = "none"
    BY <1>4, Zeros DEF GlobalInv, Drawn, Gens
  <2> QED  BY <1>4, <1>5, <2>1, Zeros DEF GlobalInv, Drawn
<1>8. Gated'
  <2>1. \A h \in Gens : gate[h] # "none" => gate'[h] # "none"
    BY <1>4
  <2>2. \A u \in Jobs : job'[u].lease # 0 => gate'[job'[u].lease] # "none"
    BY <1>4, <2>1 DEF GlobalInv, Gated
  <2>3. \A u \in Jobs : u # t /\ job[u].step \in {"kill", "spawn", "install", "discard"}
          /\ job[u].gen # job[u].lease => gate'[job[u].gen] = "none"
    <3> SUFFICES ASSUME NEW u \in Jobs, u # t, job[u].step \in {"kill", "spawn", "install", "discard"},
                        job[u].gen # job[u].lease
                 PROVE  gate'[job[u].gen] = "none"
      OBVIOUS
    <3>1. gate[job[u].gen] = "none"
      BY DEF GlobalInv, Gated
    <3>2. job[u].step \in Making
      BY DEF Making
    <3>3. job[u].gen # 0
      BY <3>2 DEF GlobalInv, Shapes
    <3> QED  BY <1>4, <3>1, <3>2, <3>3
  <2>4. entry'.gen # 0 => gate'[entry'.gen] # "none"
    BY <1>4, <1>5
  <2>5. \A h \in Gens : requests'[h] > 0 => gate'[h] # "none"
    BY <2>1 DEF GlobalInv, Gated
  <2>6. \A u \in Jobs :
          job'[u].step \in {"kill", "spawn", "install", "discard"} /\ job'[u].gen # job'[u].lease
            => gate'[job'[u].gen] = "none"
    BY <2>3
  <2> QED  BY <2>2, <2>4, <2>5, <2>6 DEF Gated
<1>9. Anchored'
  BY <1>2 DEF Anchored
<1>10. OneCloser'
  BY <1>2, <1>3, <1>4 DEF GlobalInv, OneCloser, Shapes, Leasing
<1>11. DrainedAlone' /\ Taken' /\ Unborn' /\ Unpublished'
  BY <1>3 DEF DrainedAlone, Taken, Unborn, Unpublished, Alone
<1>12. StopAllAlone' /\ PortFileFresh'
  <2>1. \A x \in Stops : stopAll[x].step = "none"
    BY NoStops DEF Calling
  <2>2. portFile # g
    BY <1>2 DEF GlobalInv, Unpublished
  <2> QED  BY <2>1, <2>2 DEF GlobalInv, StopAllAlone, PortFileFresh
<1>13. NoOrphan'
  <2> SUFFICES ASSUME NEW h \in Gens, proc[h] \in Up, h # n
               PROVE  InHand(h)'
    BY <1>5 DEF NoOrphan
  <2>1. InHand(h)
    BY <1>5 DEF GlobalInv, NoOrphan
  <2> QED  BY <2>1 DEF InHand, At
<1>14. InCharge'
  BY <1>4, <1>5 DEF InCharge
<1> QED  BY <1>6, <1>7, <1>8, <1>9, <1>10, <1>11, <1>12, <1>13, <1>14 DEF GlobalInv

(* The candidate is told to stop.                                          *)
LEMMA DiscardStep ==
  ASSUME GlobalInv, TypeOK', NEW t \in Creators, Discard(t)
  PROVE  GlobalInv'
<1> t \in Jobs /\ t \notin Stoppers  BY ActorsAssumption DEF Jobs
<1>1. /\ job[t].step = "discard" /\ job'[t].step = "release"
      /\ job'[t].gen = 0 /\ job'[t].lease = job[t].lease /\ Others(t)
      /\ proc' = Doomed(job[t].gen)
      /\ UNCHANGED <<quiesceVars, stopAll, desired, entry, gate, requests, lastGen, portFile>>
  BY GoEffect DEF Discard, At, Inside, Others, GlobalInv
<1> USE DEF Others
<1>2. \A h \in Gens : /\ proc'[h] \in Up => proc[h] \in Up /\ h # job[t].gen
                      /\ proc[h] = "none" => proc'[h] = "none"
  BY <1>1 DEF GlobalInv, TypeOK, Doomed, Up
<1>3. ~Closer(t)' /\ ~Alone(t)' /\ ~Bearing(t)' /\ ~Replacing(t)' /\ ~Parting(t)'
      /\ ~Closer(t) /\ ~Alone(t) /\ ~Bearing(t)
  BY <1>1 DEF Closer, Alone, Bearing, Replacing, Parting
<1>4. Permitted' /\ StopLicensed'
  BY <1>1, BooksKept DEF GlobalInv, Permitted
<1>5. Shapes' /\ OneMaker'
  BY <1>1 DEF GlobalInv, Shapes, OneMaker, Leasing, Making
<1>6. Drawn' /\ Gated'
  BY <1>1, <1>2, Zeros DEF GlobalInv, Drawn, Gated
<1>7. Anchored'
  BY <1>1 DEF GlobalInv, Anchored
<1>8. OneCloser'
  BY <1>1, <1>3, OtherRoles DEF GlobalInv, OneCloser
<1>9. DrainedAlone'
  BY <1>1, <1>3, OtherRoles DEF GlobalInv, DrainedAlone
<1>10. Taken' /\ Unborn' /\ Unpublished'
  BY <1>1, <1>3, OtherRoles DEF GlobalInv, Taken, Unborn, Unpublished
<1>11. StopAllAlone' /\ PortFileFresh'
  BY <1>1 DEF GlobalInv, StopAllAlone, PortFileFresh
<1>12. NoOrphan'
  <2> SUFFICES ASSUME NEW h \in Gens, proc'[h] \in Up
               PROVE  (entry.gen = h /\ entry.held) \/ InHand(h)'
    BY <1>1 DEF NoOrphan
  <2>1. h # job[t].gen /\ proc[h] \in Up
    BY <1>2
  <2>2. InHand(h) => InHand(h)'
    BY <1>1, <2>1 DEF InHand, At
  <2> QED  BY <2>1, <2>2 DEF GlobalInv, NoOrphan
<1>13. InCharge'
  BY <1>1, <1>3, OtherRoles DEF GlobalInv, InCharge
<1> QED  BY <1>4, <1>5, <1>6, <1>7, <1>8, <1>9, <1>10, <1>11, <1>12, <1>13 DEF GlobalInv

(***************************************************************************)
(* Stopping everything.                                                    *)
(***************************************************************************)

LEMMA StopAllEffect ==
  ASSUME TypeOK, NEW x \in Stops, NEW step, NEW g, Stopping(x, step, g)
  PROVE  /\ stopAll'[x].step = step /\ stopAll'[x].gen = g
         /\ \A y \in Stops : y # x => stopAll'[y] = stopAll[y]
BY DEF TypeOK, Stopping

(* Every job and every role stays what it is.                              *)
LEMMA SameRoles ==
  ASSUME UNCHANGED job
  PROVE  \A u \in Jobs : /\ Closer(u)' = Closer(u) /\ Alone(u)' = Alone(u)
                         /\ Bearing(u)' = Bearing(u) /\ Replacing(u)' = Replacing(u)
                         /\ Parting(u)' = Parting(u)
BY DEF Closer, Alone, Bearing, Replacing, Parting

LEMMA PrepareStep ==
  ASSUME GlobalInv, TypeOK', NEW x \in Stops, StopAllPrepare(x)
  PROVE  GlobalInv'
<1>1. /\ Licensed(x) /\ stopAll[x].step = "none"
      /\ stopAll'[x].step = "drain" /\ stopAll'[x].gen = entry.gen
      /\ \A y \in Stops : y # x => stopAll'[y] = stopAll[y]
      /\ gate' = Closed(entry.gen)
      /\ UNCHANGED <<quiesceVars, desired, entry, requests, proc, lastGen, portFile, job, misses,
                     faults>>
  BY StopAllEffect DEF StopAllPrepare, GlobalInv
<1>2. /\ entry.gen # 0 => entry.gen \in Gens /\ gate'[entry.gen] = "closed"
      /\ \A h \in Gens : h # entry.gen => gate'[h] = gate[h]
      /\ \A h \in Gens : gate[h] = "closed" => gate'[h] = "closed"
      /\ \A h \in Gens : gate[h] # "none" <=> gate'[h] # "none"
  <2>1. entry.gen # 0 => entry.gen \in Gens
    BY EntryFields DEF GlobalInv, GenOrNone, Gens
  <2>2. CASE entry.gen = 0
    BY <1>1, <2>2 DEF Closed, Gens
  <2>3. CASE entry.gen # 0
    BY <1>1, <2>1, <2>3, ClosedEffect DEF GlobalInv, Gated
  <2> QED  BY <2>2, <2>3
<1>3. \A u \in Jobs : /\ job[u].lease # 0 => job[u].lease \in Gens
                      /\ job[u].gen # 0 => job[u].gen \in Gens
  BY JobFields DEF GlobalInv, Gens, GenOrNone
<1>4. Permitted' /\ Shapes' /\ OneMaker' /\ Anchored'
  BY <1>1 DEF GlobalInv, Permitted, Shapes, OneMaker, Anchored, quiesceVars
<1>5. StopLicensed'
  BY <1>1 DEF GlobalInv, StopLicensed, Licensed, quiesceVars
<1>6. Drawn'
  BY <1>1, <1>2 DEF GlobalInv, Drawn
<1>7. Gated'
  BY <1>1, <1>2, <1>3 DEF GlobalInv, Gated, Shapes, Making
<1>8. OneCloser'
  <2>1. \A u \in Jobs : Closer(u) \/ job[u].step \in {"discard", "release"} => job[u].lease \in Gens
    BY <1>3, RolesLease DEF GlobalInv, Shapes, Leasing
  <2> QED  BY <1>1, <1>2, <2>1, SameRoles DEF GlobalInv, OneCloser
<1>9. DrainedAlone' /\ Taken' /\ Unpublished' /\ Unborn'
  BY <1>1, SameRoles DEF GlobalInv, DrainedAlone, Taken, Unpublished, Unborn
<1>10. StopAllAlone'
  <2>1. \A y \in Stops : stopAll[y].gen # 0 => stopAll[y].gen \in Gens
    BY DEF GlobalInv, TypeOK, Gens, GenOrNone
  <2> QED  BY <1>1, <1>2, <2>1 DEF GlobalInv, StopAllAlone
<1>11. NoOrphan' /\ PortFileFresh'
  BY <1>1 DEF GlobalInv, NoOrphan, InHand, At, PortFileFresh
<1>12. InCharge'
  BY <1>1, <1>2 DEF GlobalInv, InCharge
<1> QED  BY <1>4, <1>5, <1>6, <1>7, <1>8, <1>9, <1>10, <1>11, <1>12 DEF GlobalInv

LEMMA TakeStep ==
  ASSUME GlobalInv, TypeOK', NEW x \in Stops, StopAllTake(x)
  PROVE  GlobalInv'
<1>1. /\ stopAll[x].step = "drain" /\ (stopAll[x].gen # 0 => InFlight(stopAll[x].gen) = 0)
      /\ stopAll'[x].step = "drop" /\ stopAll'[x].gen = entry.gen
      /\ \A y \in Stops : y # x => stopAll'[y] = stopAll[y]
      /\ gate' = Closed(entry.gen) /\ entry' = NoEntry /\ ~desired'
      /\ UNCHANGED <<quiesceVars, requests, proc, lastGen, portFile, job, misses, faults>>
  BY StopAllEffect DEF StopAllTake, GlobalInv
<1>2. /\ entry.gen # 0 => entry.gen \in Gens /\ gate'[entry.gen] = "closed"
      /\ \A h \in Gens : gate[h] = "closed" => gate'[h] = "closed"
      /\ \A h \in Gens : gate[h] # "none" <=> gate'[h] # "none"
      /\ \A h \in Gens : gate[h] = "none" => gate'[h] = "none"
  <2>1. entry.gen # 0 => entry.gen \in Gens
    BY EntryFields DEF GlobalInv, GenOrNone, Gens
  <2>2. CASE entry.gen = 0
    BY <1>1, <2>2 DEF Closed, Gens
  <2>3. CASE entry.gen # 0
    BY <1>1, <2>1, <2>3, ClosedEffect DEF GlobalInv, Gated
  <2> QED  BY <2>2, <2>3
<1>3. \A u \in Jobs : /\ job[u].lease # 0 => job[u].lease \in Gens
                      /\ job[u].gen # 0 => job[u].gen \in Gens
  BY JobFields DEF GlobalInv, Gens, GenOrNone
<1>4. \A u \in Jobs : job[u].lease # 0 => job[u].step \in {"discard", "release"}
  <2>1. entry.gen # 0 => entry.gen = stopAll[x].gen
    BY <1>1 DEF GlobalInv, StopAllAlone
  <2>2. entry.gen # 0 => \A u \in Jobs : job[u].lease # entry.gen
    BY <1>1, <1>2, <2>1, NoLease DEF GlobalInv
  <2> QED  BY <2>2 DEF GlobalInv, Anchored
<1>5. \A u \in Jobs : ~Closer(u)' /\ ~Alone(u)' /\ ~Bearing(u)' /\ ~Replacing(u)' /\ ~Parting(u)'
  <2>1. \A u \in Jobs : ~Closer(u) /\ ~Alone(u) /\ ~Bearing(u)
    BY <1>4, RolesLease DEF Closer, Replacing, Parting, Bearing
  <2> QED  BY <1>1, <2>1, SameRoles DEF Closer
<1>6. entry'.gen = 0 /\ ~entry'.held
  BY <1>1 DEF NoEntry
<1>7. Permitted' /\ Shapes' /\ OneMaker'
  BY <1>1 DEF GlobalInv, Permitted, Shapes, OneMaker, quiesceVars
<1>8. StopLicensed'
  BY <1>1 DEF GlobalInv, StopLicensed, Licensed, quiesceVars
<1>9. Drawn' /\ Anchored'
  BY <1>1, <1>2, <1>4, <1>6, Zeros DEF GlobalInv, Drawn, Anchored
<1>10. Gated'
  BY <1>1, <1>2, <1>3, <1>6 DEF GlobalInv, Gated, Shapes, Making
<1>11. OneCloser'
  BY <1>1, <1>2, <1>3, <1>5 DEF GlobalInv, OneCloser, Shapes, Leasing
<1>12. DrainedAlone' /\ Taken' /\ Unpublished' /\ Unborn'
  BY <1>5 DEF DrainedAlone, Taken, Unpublished, Unborn, Alone
<1>13. StopAllAlone'
  <2>1. \A y \in Stops : stopAll[y].gen # 0 => stopAll[y].gen \in Gens
    BY DEF GlobalInv, TypeOK, Gens, GenOrNone
  <2>2. entry = NoEntry => entry.gen = 0
    BY DEF NoEntry
  <2> QED  BY <1>1, <1>2, <1>6, <2>1, <2>2 DEF GlobalInv, StopAllAlone
<1>14. NoOrphan'
  <2> SUFFICES ASSUME NEW h \in Gens, proc[h] \in Up
               PROVE  InHand(h)'
    BY <1>1 DEF NoOrphan
  <2>1. CASE InHand(h)
    BY <1>1, <2>1 DEF InHand, At
  <2>2. CASE entry.gen = h
    BY <1>1, <2>2 DEF InHand
  <2> QED  BY <2>1, <2>2 DEF GlobalInv, NoOrphan
<1>15. PortFileFresh'
  BY <1>1 DEF GlobalInv, PortFileFresh
<1>16. InCharge'
  BY <1>6 DEF InCharge
<1> QED  BY <1>7, <1>8, <1>9, <1>10, <1>11, <1>12, <1>13, <1>14, <1>15, <1>16 DEF GlobalInv

LEMMA DropStep ==
  ASSUME GlobalInv, TypeOK', NEW x \in Stops, StopAllDrop(x)
  PROVE  GlobalInv'
<1>1. /\ stopAll[x].step = "drop" /\ portFile' = 0
      /\ proc' = IF stopAll[x].gen = 0 THEN proc ELSE Doomed(stopAll[x].gen)
      /\ stopAll'[x].step = "ended" /\ stopAll'[x].gen = 0
      /\ \A y \in Stops : y # x => stopAll'[y] = stopAll[y]
      /\ UNCHANGED <<quiesceVars, desired, entry, gate, requests, lastGen, job, misses, faults>>
  BY StopAllEffect DEF StopAllDrop, GlobalInv
<1>2. \A h \in Gens : /\ proc'[h] \in Up => proc[h] \in Up /\ h # stopAll[x].gen
                      /\ proc[h] = "none" => proc'[h] = "none"
  BY <1>1, BoundsAssumption DEF GlobalInv, TypeOK, Doomed, Up, Gens
<1>3. Permitted' /\ Shapes' /\ OneMaker' /\ Anchored' /\ Gated'
  BY <1>1 DEF GlobalInv, Permitted, Shapes, OneMaker, Anchored, Gated, quiesceVars
<1>4. StopLicensed'
  BY <1>1 DEF GlobalInv, StopLicensed, Licensed, quiesceVars
<1>5. Drawn'
  BY <1>1, <1>2, Zeros DEF GlobalInv, Drawn
<1>6. OneCloser' /\ DrainedAlone' /\ Taken' /\ Unborn'
  BY <1>1, SameRoles DEF GlobalInv, OneCloser, DrainedAlone, Taken, Unborn
<1>7. Unpublished'
  <2>1. \A u \in Jobs : job[u].step = "detach" \/ Replacing(u) \/ Parting(u) \/ Bearing(u)
                         => job[u].lease # 0
    BY RolesLease DEF Closer
  <2> QED  BY <1>1, <2>1, SameRoles DEF Unpublished
<1>8. StopAllAlone' /\ PortFileFresh'
  BY <1>1 DEF GlobalInv, StopAllAlone, PortFileFresh
<1>9. NoOrphan'
  <2> SUFFICES ASSUME NEW h \in Gens, proc'[h] \in Up
               PROVE  (entry.gen = h /\ entry.held) \/ InHand(h)'
    BY <1>1 DEF NoOrphan
  <2>1. h # stopAll[x].gen /\ proc[h] \in Up
    BY <1>2
  <2>2. InHand(h) => InHand(h)'
    BY <1>1, <2>1 DEF InHand, At
  <2> QED  BY <2>1, <2>2 DEF GlobalInv, NoOrphan
<1>10. InCharge'
  BY <1>1, SameRoles DEF GlobalInv, InCharge
<1> QED  BY <1>3, <1>4, <1>5, <1>6, <1>7, <1>8, <1>9, <1>10 DEF GlobalInv

(* What concerns neither the jobs nor the entry.                           *)
LEMMA ApartStep ==
  ASSUME GlobalInv, TypeOK', StopLicensed', UNCHANGED creator,
         UNCHANGED <<desired, entry, gate, requests, proc, lastGen, portFile, job>>,
         \A x \in Stops : \/ stopAll'[x] = stopAll[x]
                          \/ /\ stopAll[x].step \in {"none", "ended"}
                             /\ stopAll'[x].gen = 0
                             /\ \/ stopAll'[x].step = "none"
                                \/ stopAll[x].step = "ended" /\ stopAll'[x].step = "exited"
  PROVE  GlobalInv'
<1>1. Permitted' /\ Shapes' /\ OneMaker' /\ Anchored' /\ Gated'
  BY DEF GlobalInv, Permitted, Shapes, OneMaker, Anchored, Gated
<1>2. Drawn'
  BY Zeros DEF GlobalInv, Drawn
<1>3. OneCloser' /\ DrainedAlone' /\ Taken' /\ Unborn' /\ Unpublished'
  BY SameRoles DEF GlobalInv, OneCloser, DrainedAlone, Taken, Unborn, Unpublished
<1>4. StopAllAlone' /\ PortFileFresh'
  BY DEF GlobalInv, StopAllAlone, PortFileFresh
<1>5. NoOrphan'
  BY DEF GlobalInv, NoOrphan, InHand, At
<1>6. InCharge'
  BY SameRoles DEF GlobalInv, InCharge
<1> QED  BY <1>1, <1>2, <1>3, <1>4, <1>5, <1>6 DEF GlobalInv

(***************************************************************************)
(* Every step of the whole is a step of the birth gate or leaves it alone. *)
(***************************************************************************)

LEMMA PreservesQuiesce == Next => QuiesceNext \/ UNCHANGED quiesceVars
<1> SUFFICES ASSUME Next PROVE QuiesceNext \/ UNCHANGED quiesceVars
  OBVIOUS
<1>1. CASE \E t \in Starters : StartRequest(t)
  BY <1>1 DEF StartRequest, QuiesceNext, Starters
<1>2. ASSUME NEW t \in Creators, Select(t) \/ Create(t) \/ HealthFails(t) \/ PreambleFails(t)
                                 \/ SetupFails(t) \/ SpawnFails(t)
      PROVE  QuiesceNext \/ UNCHANGED quiesceVars
  <2>1. CASE Return(t)
    BY <2>1 DEF Return, QuiesceNext
  <2>2. CASE ~Return(t)
    <3>1. Inside
      BY <1>2, <2>2 DEF Select, Create, HealthFails, PreambleFails, SetupFails, SpawnFails, DrainOld,
         ReserveReplacement, ReserveBirth, KillOld, Spawn, InstallBirth, InstallReplacement, Discard,
         ReleaseLease, HealthOk, MarkHealthy, AdmitPublish, WritePort
    <3> QED  BY <3>1 DEF Inside
  <2> QED  BY <2>1, <2>2
<1>3. CASE \E t \in Jobs : Retire(t)
  BY <1>3 DEF Retire, RetireDrained, RetireKill, RetireDetach, Inside
<1>4. CASE \E t \in Stoppers : StopRequest(t) \/ StopWaited(t)
  BY <1>4 DEF StopRequest, StopWaited, Inside
<1>5. CASE MonitorRests \/ MonitorFindsDead \/ MonitorFindsAlive \/ Probe \/ Judge
  BY <1>5 DEF MonitorRests, MonitorFindsDead, MonitorFindsAlive, Probe, Judge, Watching
<1>6. CASE MonitorRestart
  BY <1>6, ActorsAssumption DEF MonitorRestart, QuiesceNext
<1>7. CASE \E x \in Stops : StopAllPrepare(x) \/ StopAllTake(x) \/ StopAllDrop(x) \/ Exit(x)
  BY <1>7 DEF StopAllPrepare, StopAllTake, StopAllDrop, Exit
<1>8. CASE \E u \in Updaters : EndUpdate(u)
  BY <1>8 DEF EndUpdate, QuiesceNext
<1>9. CASE QuiesceAlone
  BY <1>9 DEF QuiesceAlone, QuiesceNext
<1>10. CASE Request \/ Age
  BY <1>10 DEF Request, Age, Outside
<1>11. CASE \E g \in Gens : Respond(g) \/ Boot(g) \/ Die(g) \/ Recover(g) \/ Stall(g) \/ Crash(g)
  BY <1>11 DEF Respond, Boot, Die, Recover, Stall, Crash, Outside
<1> QED
  BY <1>1, <1>2, <1>3, <1>4, <1>5, <1>6, <1>7, <1>8, <1>9, <1>10, <1>11 DEF Next, Watch

(* The part of TypeOK that is neither the birth gate's nor the jobs'. *)
RestOK ==
  /\ desired \in BOOLEAN
  /\ entry \in Entry
  /\ gate \in [Gens -> {"none", "open", "closed"}]
  /\ requests \in [Gens -> Nat]
  /\ proc \in [Gens -> ProcState]
  /\ lastGen \in GenOrNone
  /\ portFile \in GenOrNone
  /\ misses \in [gen : GenOrNone, count : Nat]
  /\ stopAll \in [Stops -> [step : StopStep, gen : GenOrNone]]
  /\ faults \in Nat

LEMMA TypeParts == TypeOK <=> QuiesceTypeOK /\ RestOK /\ job \in [Jobs -> JobType]
BY DEF TypeOK, RestOK, JobType

LEMMA EntryEdit ==
  ASSUME TypeOK
  PROVE  /\ [entry EXCEPT !.held = FALSE] \in Entry
         /\ [entry EXCEPT !.healthy = TRUE] \in Entry
         /\ [entry EXCEPT !.healthy = FALSE] \in Entry
         /\ [entry EXCEPT !.young = FALSE] \in Entry
BY DEF TypeOK, Entry

LEMMA OneMore == ASSUME TypeOK, NEW g \in Gens PROVE [requests EXCEPT ![g] = @ + 1] \in [Gens -> Nat]
BY DEF TypeOK

LEMMA NextGen == ASSUME TypeOK, lastGen < MaxGen PROVE lastGen + 1 \in GenOrNone /\ lastGen + 1 \in Gens
BY BoundsAssumption DEF TypeOK, GenOrNone, Gens

LEMMA MonitorJob == Monitor \in Jobs
BY ActorsAssumption DEF Jobs

LEMMA EntryGen == ASSUME TypeOK, entry.gen # 0 PROVE entry.gen \in Gens
BY EntryFields DEF GenOrNone, Gens

(***************************************************************************)
(* Each action keeps the types.                                            *)
(***************************************************************************)

LEMMA StartRequestType == ASSUME TypeOK, NEW t \in Creators, StartRequest(t) PROVE RestOK' /\ job' \in [Jobs -> JobType]
<1> t \in Jobs  BY DEF Jobs
<1>1. job' \in [Jobs -> JobType]
  BY TypeParts, Zero, JobFields, EntryFields, NextGen, MonitorJob, GoType, GoOnType DEF StartRequest, JobStep
<1>2. RestOK'
  BY Zero, JobFields, EntryFields, NextGen, MonitorJob, EntryEdit, BornType, ClosedType, KilledType, DoomedType
     DEF StartRequest, TypeOK, RestOK, ProcState, Up, StopStep
<1> QED  BY <1>1, <1>2

LEMMA MonitorRestartType == ASSUME TypeOK, MonitorRestart PROVE RestOK' /\ job' \in [Jobs -> JobType]
<1>1. job' \in [Jobs -> JobType]
  BY TypeParts, Zero, JobFields, EntryFields, NextGen, MonitorJob, GoType, GoOnType DEF MonitorRestart, JobStep
<1>2. RestOK'
  BY Zero, JobFields, EntryFields, NextGen, MonitorJob, EntryEdit, BornType, ClosedType, KilledType, DoomedType
     DEF MonitorRestart, TypeOK, RestOK, ProcState, Up, StopStep
<1> QED  BY <1>1, <1>2

LEMMA PreambleFailsType == ASSUME TypeOK, NEW t \in Creators, PreambleFails(t) PROVE RestOK' /\ job' \in [Jobs -> JobType]
<1> t \in Jobs  BY DEF Jobs
<1>1. job' \in [Jobs -> JobType]
  BY TypeParts, Zero, JobFields, EntryFields, NextGen, MonitorJob, GoType, GoOnType DEF PreambleFails, Inside, Fault, JobStep
<1>2. RestOK'
  BY Zero, JobFields, EntryFields, NextGen, MonitorJob, EntryEdit, BornType, ClosedType, KilledType, DoomedType
     DEF PreambleFails, Inside, Fault, TypeOK, RestOK, ProcState, Up, StopStep
<1> QED  BY <1>1, <1>2

LEMMA SelectType == ASSUME TypeOK, NEW t \in Creators, Select(t) PROVE RestOK' /\ job' \in [Jobs -> JobType]
<1> t \in Jobs  BY DEF Jobs
<1>1. job' \in [Jobs -> JobType]
  BY TypeParts, Zero, JobFields, EntryFields, NextGen, MonitorJob, GoType, GoOnType DEF Select, Inside, JobStep
<1>2. RestOK'
  BY Zero, JobFields, EntryFields, NextGen, MonitorJob, EntryEdit, BornType, ClosedType, KilledType, DoomedType
     DEF Select, Inside, TypeOK, RestOK, ProcState, Up, StopStep
<1> QED  BY <1>1, <1>2

LEMMA DrainOldType == ASSUME TypeOK, NEW t \in Creators, DrainOld(t) PROVE RestOK' /\ job' \in [Jobs -> JobType]
<1> t \in Jobs  BY DEF Jobs
<1>1. job' \in [Jobs -> JobType]
  BY TypeParts, Zero, JobFields, EntryFields, NextGen, MonitorJob, GoType, GoOnType DEF DrainOld, Inside, JobStep
<1>2. RestOK'
  BY Zero, JobFields, EntryFields, NextGen, MonitorJob, EntryEdit, BornType, ClosedType, KilledType, DoomedType
     DEF DrainOld, Inside, TypeOK, RestOK, ProcState, Up, StopStep
<1> QED  BY <1>1, <1>2

LEMMA SetupFailsType == ASSUME TypeOK, NEW t \in Creators, SetupFails(t) PROVE RestOK' /\ job' \in [Jobs -> JobType]
<1> t \in Jobs  BY DEF Jobs
<1>1. job' \in [Jobs -> JobType]
  BY TypeParts, Zero, JobFields, EntryFields, NextGen, MonitorJob, GoType, GoOnType DEF SetupFails, Inside, Fault, JobStep
<1>2. RestOK'
  BY Zero, JobFields, EntryFields, NextGen, MonitorJob, EntryEdit, BornType, ClosedType, KilledType, DoomedType
     DEF SetupFails, Inside, Fault, TypeOK, RestOK, ProcState, Up, StopStep
<1> QED  BY <1>1, <1>2

LEMMA ReserveReplacementType == ASSUME TypeOK, NEW t \in Creators, ReserveReplacement(t) PROVE RestOK' /\ job' \in [Jobs -> JobType]
<1> t \in Jobs  BY DEF Jobs
<1>1. job' \in [Jobs -> JobType]
  BY TypeParts, Zero, JobFields, EntryFields, NextGen, MonitorJob, GoType, GoOnType DEF ReserveReplacement, Inside, JobStep
<1>2. RestOK'
  BY Zero, JobFields, EntryFields, NextGen, MonitorJob, EntryEdit, BornType, ClosedType, KilledType, DoomedType
     DEF ReserveReplacement, Inside, TypeOK, RestOK, ProcState, Up, StopStep
<1> QED  BY <1>1, <1>2

LEMMA ReserveBirthType == ASSUME TypeOK, NEW t \in Creators, ReserveBirth(t) PROVE RestOK' /\ job' \in [Jobs -> JobType]
<1> t \in Jobs  BY DEF Jobs
<1>1. job' \in [Jobs -> JobType]
  BY TypeParts, Zero, JobFields, EntryFields, NextGen, MonitorJob, GoType, GoOnType DEF ReserveBirth, Inside, JobStep
<1>3. entry' \in Entry
  <2>1. CASE ~desired \/ entry.gen # 0
    <3>1. entry' = entry
      BY <2>1 DEF ReserveBirth, TypeOK
    <3> QED  BY <3>1 DEF TypeOK
  <2>2. CASE desired /\ entry.gen = 0
    <3>1. entry' = Born(lastGen', FALSE) /\ lastGen < MaxGen /\ lastGen' = lastGen + 1
      BY <2>2 DEF ReserveBirth
    <3> QED  BY <3>1, NextGen, BornType
  <2> QED  BY <2>1, <2>2 DEF TypeOK
<1>4. gate' \in [Gens -> {"none", "open", "closed"}]
  BY NextGen, ClosedType DEF ReserveBirth, Inside, TypeOK
<1>5. lastGen' \in GenOrNone /\ misses' \in [gen : GenOrNone, count : Nat] /\ requests' \in [Gens -> Nat]
  BY Zero, EntryFields, JobFields, MonitorJob, NextGen, OneMore, EntryGen DEF ReserveBirth, Inside, Running, TypeOK
<1>2. RestOK'
  BY <1>3, <1>4, <1>5 DEF ReserveBirth, Inside, TypeOK, RestOK
<1> QED  BY <1>1, <1>2

LEMMA KillOldType == ASSUME TypeOK, NEW t \in Creators, KillOld(t) PROVE RestOK' /\ job' \in [Jobs -> JobType]
<1> t \in Jobs  BY DEF Jobs
<1>1. job' \in [Jobs -> JobType]
  BY TypeParts, Zero, JobFields, EntryFields, NextGen, MonitorJob, GoType, GoOnType DEF KillOld, Inside, Fault, JobStep
<1>2. RestOK'
  BY Zero, JobFields, EntryFields, NextGen, MonitorJob, EntryEdit, BornType, ClosedType, KilledType, DoomedType
     DEF KillOld, Inside, Fault, TypeOK, RestOK, ProcState, Up, StopStep
<1> QED  BY <1>1, <1>2

LEMMA SpawnType == ASSUME TypeOK, NEW t \in Creators, Spawn(t) PROVE RestOK' /\ job' \in [Jobs -> JobType]
<1> t \in Jobs  BY DEF Jobs
<1>1. job' \in [Jobs -> JobType]
  BY TypeParts, Zero, JobFields, EntryFields, NextGen, MonitorJob, GoType, GoOnType DEF Spawn, Inside, JobStep
<1>2. RestOK'
  BY Zero, JobFields, EntryFields, NextGen, MonitorJob, EntryEdit, BornType, ClosedType, KilledType, DoomedType
     DEF Spawn, Inside, TypeOK, RestOK, ProcState, Up, StopStep
<1> QED  BY <1>1, <1>2

LEMMA SpawnFailsType == ASSUME TypeOK, NEW t \in Creators, SpawnFails(t) PROVE RestOK' /\ job' \in [Jobs -> JobType]
<1> t \in Jobs  BY DEF Jobs
<1>1. job' \in [Jobs -> JobType]
  BY TypeParts, Zero, JobFields, EntryFields, NextGen, MonitorJob, GoType, GoOnType DEF SpawnFails, Inside, Fault, AbandonBirth, JobStep
<1>2. RestOK'
  BY Zero, JobFields, EntryFields, NextGen, MonitorJob, EntryEdit, BornType, ClosedType, KilledType, DoomedType
     DEF SpawnFails, Inside, Fault, AbandonBirth, TypeOK, RestOK, ProcState, Up, StopStep
<1> QED  BY <1>1, <1>2

LEMMA InstallBirthType == ASSUME TypeOK, NEW t \in Creators, InstallBirth(t) PROVE RestOK' /\ job' \in [Jobs -> JobType]
<1> t \in Jobs  BY DEF Jobs
<1>1. job' \in [Jobs -> JobType]
  BY TypeParts, Zero, JobFields, EntryFields, NextGen, MonitorJob, GoType, GoOnType DEF InstallBirth, Inside, AbandonBirth, JobStep
<1>3. \/ entry' = Born(job[t].gen, TRUE) /\ gate' = gate
      \/ entry' = NoEntry /\ gate' = Closed(entry.gen)
      \/ entry' = entry /\ gate' = gate
  BY DEF InstallBirth, AbandonBirth
<1>4. entry' \in Entry /\ gate' \in [Gens -> {"none", "open", "closed"}]
  <2>1. Born(job[t].gen, TRUE) \in Entry /\ NoEntry \in Entry /\ entry \in Entry
    BY Zero, JobFields, BornType DEF TypeOK
  <2>2. /\ Closed(entry.gen) \in [Gens -> {"none", "open", "closed"}]
        /\ gate \in [Gens -> {"none", "open", "closed"}]
    BY ClosedType DEF TypeOK
  <2> QED  BY <1>3, <2>1, <2>2
<1>5. lastGen' \in GenOrNone /\ misses' \in [gen : GenOrNone, count : Nat] /\ requests' \in [Gens -> Nat]
  BY Zero, EntryFields, JobFields, MonitorJob, NextGen, OneMore, EntryGen DEF InstallBirth, Inside, AbandonBirth, Running, TypeOK
<1>2. RestOK'
  BY <1>4, <1>5 DEF InstallBirth, Inside, AbandonBirth, TypeOK, RestOK
<1> QED  BY <1>1, <1>2

LEMMA InstallReplacementType == ASSUME TypeOK, NEW t \in Creators, InstallReplacement(t) PROVE RestOK' /\ job' \in [Jobs -> JobType]
<1> t \in Jobs  BY DEF Jobs
<1>1. job' \in [Jobs -> JobType]
  BY TypeParts, Zero, JobFields, EntryFields, NextGen, MonitorJob, GoType, GoOnType DEF InstallReplacement, Inside, JobStep
<1>3. entry' \in Entry
  <2>1. entry' = entry \/ entry' = NoEntry \/ entry' = Born(job[t].gen, TRUE)
    BY DEF InstallReplacement
  <2>2. Born(job[t].gen, TRUE) \in Entry /\ NoEntry \in Entry /\ entry \in Entry
    BY Zero, JobFields, BornType DEF TypeOK
  <2> QED  BY <2>1, <2>2
<1>4. gate' \in [Gens -> {"none", "open", "closed"}]
  BY NextGen, ClosedType DEF InstallReplacement, Inside, TypeOK
<1>5. lastGen' \in GenOrNone /\ misses' \in [gen : GenOrNone, count : Nat] /\ requests' \in [Gens -> Nat]
  BY Zero, EntryFields, JobFields, MonitorJob, NextGen, OneMore, EntryGen DEF InstallReplacement, Inside, Running, TypeOK
<1>2. RestOK'
  BY <1>3, <1>4, <1>5 DEF InstallReplacement, Inside, TypeOK, RestOK
<1> QED  BY <1>1, <1>2

LEMMA DiscardType == ASSUME TypeOK, NEW t \in Creators, Discard(t) PROVE RestOK' /\ job' \in [Jobs -> JobType]
<1> t \in Jobs  BY DEF Jobs
<1>1. job' \in [Jobs -> JobType]
  BY TypeParts, Zero, JobFields, EntryFields, NextGen, MonitorJob, GoType, GoOnType DEF Discard, Inside, JobStep
<1>2. RestOK'
  BY Zero, JobFields, EntryFields, NextGen, MonitorJob, EntryEdit, BornType, ClosedType, KilledType, DoomedType
     DEF Discard, Inside, TypeOK, RestOK, ProcState, Up, StopStep
<1> QED  BY <1>1, <1>2

LEMMA ReleaseLeaseType == ASSUME TypeOK, NEW t \in Creators, ReleaseLease(t) PROVE RestOK' /\ job' \in [Jobs -> JobType]
<1> t \in Jobs  BY DEF Jobs
<1>1. job' \in [Jobs -> JobType]
  BY TypeParts, Zero, JobFields, EntryFields, NextGen, MonitorJob, GoType, GoOnType DEF ReleaseLease, Inside, JobStep
<1>2. RestOK'
  BY Zero, JobFields, EntryFields, NextGen, MonitorJob, EntryEdit, BornType, ClosedType, KilledType, DoomedType
     DEF ReleaseLease, Inside, TypeOK, RestOK, ProcState, Up, StopStep
<1> QED  BY <1>1, <1>2

LEMMA HealthOkType == ASSUME TypeOK, NEW t \in Creators, HealthOk(t) PROVE RestOK' /\ job' \in [Jobs -> JobType]
<1> t \in Jobs  BY DEF Jobs
<1>1. job' \in [Jobs -> JobType]
  BY TypeParts, Zero, JobFields, EntryFields, NextGen, MonitorJob, GoType, GoOnType DEF HealthOk, Inside, JobStep
<1>2. RestOK'
  BY Zero, JobFields, EntryFields, NextGen, MonitorJob, EntryEdit, BornType, ClosedType, KilledType, DoomedType
     DEF HealthOk, Inside, TypeOK, RestOK, ProcState, Up, StopStep
<1> QED  BY <1>1, <1>2

LEMMA HealthFailsType == ASSUME TypeOK, NEW t \in Creators, HealthFails(t) PROVE RestOK' /\ job' \in [Jobs -> JobType]
<1> t \in Jobs  BY DEF Jobs
<1>1. job' \in [Jobs -> JobType]
  BY TypeParts, Zero, JobFields, EntryFields, NextGen, MonitorJob, GoType, GoOnType DEF HealthFails, Inside, Fault, Condemn, JobStep
<1>2. RestOK'
  BY Zero, JobFields, EntryFields, NextGen, MonitorJob, EntryEdit, BornType, ClosedType, KilledType, DoomedType
     DEF HealthFails, Inside, Fault, Condemn, TypeOK, RestOK, ProcState, Up, StopStep
<1> QED  BY <1>1, <1>2

LEMMA MarkHealthyType == ASSUME TypeOK, NEW t \in Creators, MarkHealthy(t) PROVE RestOK' /\ job' \in [Jobs -> JobType]
<1> t \in Jobs  BY DEF Jobs
<1>1. job' \in [Jobs -> JobType]
  BY TypeParts, Zero, JobFields, EntryFields, NextGen, MonitorJob, GoType, GoOnType DEF MarkHealthy, Inside, Condemn, JobStep
<1>3. entry' \in Entry
  BY Zero, JobFields, EntryFields, NextGen, EntryEdit, BornType
     DEF MarkHealthy, Inside, Condemn, TypeOK
<1>4. gate' \in [Gens -> {"none", "open", "closed"}]
  BY NextGen, ClosedType DEF MarkHealthy, Inside, Condemn, TypeOK
<1>5. lastGen' \in GenOrNone /\ misses' \in [gen : GenOrNone, count : Nat] /\ requests' \in [Gens -> Nat]
  BY Zero, EntryFields, JobFields, MonitorJob, NextGen, OneMore, EntryGen DEF MarkHealthy, Inside, Condemn, Running, TypeOK
<1>2. RestOK'
  BY <1>3, <1>4, <1>5 DEF MarkHealthy, Inside, Condemn, TypeOK, RestOK
<1> QED  BY <1>1, <1>2

LEMMA ReturnType == ASSUME TypeOK, NEW t \in Creators, Return(t) PROVE RestOK' /\ job' \in [Jobs -> JobType]
<1> t \in Jobs  BY DEF Jobs
<1>1. job' \in [Jobs -> JobType]
  BY TypeParts, Zero, JobFields, EntryFields, NextGen, MonitorJob, GoType, GoOnType DEF Return, JobStep
<1>2. RestOK'
  BY Zero, JobFields, EntryFields, NextGen, MonitorJob, EntryEdit, BornType, ClosedType, KilledType, DoomedType
     DEF Return, TypeOK, RestOK, ProcState, Up, StopStep
<1> QED  BY <1>1, <1>2

LEMMA AdmitPublishType == ASSUME TypeOK, NEW t \in Creators, AdmitPublish(t) PROVE RestOK' /\ job' \in [Jobs -> JobType]
<1> t \in Jobs  BY DEF Jobs
<1>1. job' \in [Jobs -> JobType]
  BY TypeParts, Zero, JobFields, EntryFields, NextGen, MonitorJob, GoType, GoOnType DEF AdmitPublish, Inside, JobStep
<1>2. RestOK'
  BY Zero, JobFields, EntryFields, NextGen, MonitorJob, EntryEdit, BornType, ClosedType, KilledType, DoomedType
     DEF AdmitPublish, Inside, TypeOK, RestOK, ProcState, Up, StopStep
<1> QED  BY <1>1, <1>2

LEMMA WritePortType == ASSUME TypeOK, NEW t \in Creators, WritePort(t) PROVE RestOK' /\ job' \in [Jobs -> JobType]
<1> t \in Jobs  BY DEF Jobs
<1>1. job' \in [Jobs -> JobType]
  BY TypeParts, Zero, JobFields, EntryFields, NextGen, MonitorJob, GoType, GoOnType DEF WritePort, Inside, JobStep
<1>2. RestOK'
  BY Zero, JobFields, EntryFields, NextGen, MonitorJob, EntryEdit, BornType, ClosedType, KilledType, DoomedType
     DEF WritePort, Inside, TypeOK, RestOK, ProcState, Up, StopStep
<1> QED  BY <1>1, <1>2

LEMMA RetireDrainedType == ASSUME TypeOK, NEW t \in Jobs, RetireDrained(t) PROVE RestOK' /\ job' \in [Jobs -> JobType]
<1>1. job' \in [Jobs -> JobType]
  BY TypeParts, Zero, JobFields, EntryFields, NextGen, MonitorJob, GoType, GoOnType DEF RetireDrained, Inside, JobStep
<1>2. RestOK'
  BY Zero, JobFields, EntryFields, NextGen, MonitorJob, EntryEdit, BornType, ClosedType, KilledType, DoomedType
     DEF RetireDrained, Inside, TypeOK, RestOK, ProcState, Up, StopStep
<1> QED  BY <1>1, <1>2

LEMMA RetireKillType == ASSUME TypeOK, NEW t \in Jobs, RetireKill(t) PROVE RestOK' /\ job' \in [Jobs -> JobType]
<1>1. job' \in [Jobs -> JobType]
  BY TypeParts, Zero, JobFields, EntryFields, NextGen, MonitorJob, GoType, GoOnType DEF RetireKill, Inside, Fault, JobStep
<1>2. RestOK'
  BY Zero, JobFields, EntryFields, NextGen, MonitorJob, EntryEdit, BornType, ClosedType, KilledType, DoomedType
     DEF RetireKill, Inside, Fault, TypeOK, RestOK, ProcState, Up, StopStep
<1> QED  BY <1>1, <1>2

LEMMA RetireDetachType == ASSUME TypeOK, NEW t \in Jobs, RetireDetach(t) PROVE RestOK' /\ job' \in [Jobs -> JobType]
<1>1. job' \in [Jobs -> JobType]
  BY TypeParts, Zero, JobFields, EntryFields, NextGen, MonitorJob, GoType, GoOnType DEF RetireDetach, Inside, JobStep
<1>2. RestOK'
  BY Zero, JobFields, EntryFields, NextGen, MonitorJob, EntryEdit, BornType, ClosedType, KilledType, DoomedType
     DEF RetireDetach, Inside, TypeOK, RestOK, ProcState, Up, StopStep
<1> QED  BY <1>1, <1>2

LEMMA StopRequestType == ASSUME TypeOK, NEW t \in Stoppers, StopRequest(t) PROVE RestOK' /\ job' \in [Jobs -> JobType]
<1> t \in Jobs  BY DEF Jobs
<1>1. job' \in [Jobs -> JobType]
  BY TypeParts, Zero, JobFields, EntryFields, NextGen, MonitorJob, GoType, GoOnType DEF StopRequest, Inside, JobStep
<1>2. RestOK'
  BY Zero, JobFields, EntryFields, NextGen, MonitorJob, EntryEdit, BornType, ClosedType, KilledType, DoomedType
     DEF StopRequest, Inside, TypeOK, RestOK, ProcState, Up, StopStep
<1> QED  BY <1>1, <1>2

LEMMA StopWaitedType == ASSUME TypeOK, NEW t \in Stoppers, StopWaited(t) PROVE RestOK' /\ job' \in [Jobs -> JobType]
<1> t \in Jobs  BY DEF Jobs
<1>1. job' \in [Jobs -> JobType]
  BY TypeParts, Zero, JobFields, EntryFields, NextGen, MonitorJob, GoType, GoOnType DEF StopWaited, Inside, JobStep
<1>2. RestOK'
  BY Zero, JobFields, EntryFields, NextGen, MonitorJob, EntryEdit, BornType, ClosedType, KilledType, DoomedType
     DEF StopWaited, Inside, TypeOK, RestOK, ProcState, Up, StopStep
<1> QED  BY <1>1, <1>2

LEMMA MonitorRestsType == ASSUME TypeOK, MonitorRests PROVE RestOK' /\ job' \in [Jobs -> JobType]
<1>1. job' \in [Jobs -> JobType]
  BY TypeParts, Zero, JobFields, EntryFields, NextGen, MonitorJob, GoType, GoOnType DEF MonitorRests, Watching, Reset, JobStep
<1>2. RestOK'
  BY Zero, JobFields, EntryFields, NextGen, MonitorJob, EntryEdit, BornType, ClosedType, KilledType, DoomedType
     DEF MonitorRests, Watching, Reset, TypeOK, RestOK, ProcState, Up, StopStep
<1> QED  BY <1>1, <1>2

LEMMA MonitorFindsDeadType == ASSUME TypeOK, MonitorFindsDead PROVE RestOK' /\ job' \in [Jobs -> JobType]
<1>1. job' \in [Jobs -> JobType]
  BY TypeParts, Zero, JobFields, EntryFields, NextGen, MonitorJob, GoType, GoOnType DEF MonitorFindsDead, Watching, Reset, JobStep
<1>2. RestOK'
  BY Zero, JobFields, EntryFields, NextGen, MonitorJob, EntryEdit, BornType, ClosedType, KilledType, DoomedType
     DEF MonitorFindsDead, Watching, Reset, TypeOK, RestOK, ProcState, Up, StopStep
<1> QED  BY <1>1, <1>2

LEMMA MonitorFindsAliveType == ASSUME TypeOK, MonitorFindsAlive PROVE RestOK' /\ job' \in [Jobs -> JobType]
<1>1. job' \in [Jobs -> JobType]
  BY TypeParts, Zero, JobFields, EntryFields, NextGen, MonitorJob, GoType, GoOnType DEF MonitorFindsAlive, Watching, JobStep
<1>2. RestOK'
  BY Zero, JobFields, EntryFields, NextGen, MonitorJob, EntryEdit, BornType, ClosedType, KilledType, DoomedType
     DEF MonitorFindsAlive, Watching, TypeOK, RestOK, ProcState, Up, StopStep
<1> QED  BY <1>1, <1>2

LEMMA ProbeType == ASSUME TypeOK, Probe PROVE RestOK' /\ job' \in [Jobs -> JobType]
<1>1. job' \in [Jobs -> JobType]
  BY TypeParts, Zero, JobFields, EntryFields, NextGen, MonitorJob, GoType, GoOnType DEF Probe, Watching, JobStep
<1>2. RestOK'
  BY Zero, JobFields, EntryFields, NextGen, MonitorJob, EntryEdit, BornType, ClosedType, KilledType, DoomedType
     DEF Probe, Watching, TypeOK, RestOK, ProcState, Up, StopStep
<1> QED  BY <1>1, <1>2

LEMMA JudgeType == ASSUME TypeOK, Judge PROVE RestOK' /\ job' \in [Jobs -> JobType]
<1>1. job' \in [Jobs -> JobType]
  BY TypeParts, Zero, JobFields, EntryFields, NextGen, MonitorJob, GoType, GoOnType DEF Judge, Watching, Streak, JobStep
<1>3. entry' \in Entry
  BY Zero, JobFields, EntryFields, NextGen, EntryEdit, BornType
     DEF Judge, Watching, Streak, TypeOK
<1>4. gate' \in [Gens -> {"none", "open", "closed"}]
  BY NextGen, ClosedType DEF Judge, Watching, Streak, TypeOK
<1>5. lastGen' \in GenOrNone /\ misses' \in [gen : GenOrNone, count : Nat] /\ requests' \in [Gens -> Nat]
  BY Zero, EntryFields, JobFields, MonitorJob, NextGen, OneMore, EntryGen DEF Judge, Watching, Streak, Running, TypeOK
<1>2. RestOK'
  BY <1>3, <1>4, <1>5 DEF Judge, Watching, Streak, TypeOK, RestOK
<1> QED  BY <1>1, <1>2

LEMMA StopAllPrepareType == ASSUME TypeOK, NEW x \in Stops, StopAllPrepare(x) PROVE RestOK' /\ job' \in [Jobs -> JobType]
<1>1. job' \in [Jobs -> JobType]
  BY TypeParts, Zero, JobFields, EntryFields, NextGen, MonitorJob, GoType, GoOnType DEF StopAllPrepare, Stopping, JobStep
<1>2. RestOK'
  BY Zero, JobFields, EntryFields, NextGen, MonitorJob, EntryEdit, BornType, ClosedType, KilledType, DoomedType
     DEF StopAllPrepare, Stopping, TypeOK, RestOK, ProcState, Up, StopStep
<1> QED  BY <1>1, <1>2

LEMMA StopAllTakeType == ASSUME TypeOK, NEW x \in Stops, StopAllTake(x) PROVE RestOK' /\ job' \in [Jobs -> JobType]
<1>1. job' \in [Jobs -> JobType]
  BY TypeParts, Zero, JobFields, EntryFields, NextGen, MonitorJob, GoType, GoOnType DEF StopAllTake, Stopping, JobStep
<1>2. RestOK'
  BY Zero, JobFields, EntryFields, NextGen, MonitorJob, EntryEdit, BornType, ClosedType, KilledType, DoomedType
     DEF StopAllTake, Stopping, TypeOK, RestOK, ProcState, Up, StopStep
<1> QED  BY <1>1, <1>2

LEMMA StopAllDropType == ASSUME TypeOK, NEW x \in Stops, StopAllDrop(x) PROVE RestOK' /\ job' \in [Jobs -> JobType]
<1>1. job' \in [Jobs -> JobType]
  BY TypeParts, Zero, JobFields, EntryFields, NextGen, MonitorJob, GoType, GoOnType DEF StopAllDrop, Stopping, JobStep
<1>2. RestOK'
  BY Zero, JobFields, EntryFields, NextGen, MonitorJob, EntryEdit, BornType, ClosedType, KilledType, DoomedType
     DEF StopAllDrop, Stopping, TypeOK, RestOK, ProcState, Up, StopStep
<1> QED  BY <1>1, <1>2

LEMMA ExitType == ASSUME TypeOK, NEW x \in Stops, Exit(x) PROVE RestOK' /\ job' \in [Jobs -> JobType]
<1>1. job' \in [Jobs -> JobType]
  BY TypeParts, Zero, JobFields, EntryFields, NextGen, MonitorJob, GoType, GoOnType DEF Exit, Stopping, JobStep
<1>2. RestOK'
  BY Zero, JobFields, EntryFields, NextGen, MonitorJob, EntryEdit, BornType, ClosedType, KilledType, DoomedType
     DEF Exit, Stopping, TypeOK, RestOK, ProcState, Up, StopStep
<1> QED  BY <1>1, <1>2

LEMMA EndUpdateType == ASSUME TypeOK, NEW u \in Updaters, EndUpdate(u) PROVE RestOK' /\ job' \in [Jobs -> JobType]
<1>1. job' \in [Jobs -> JobType]
  BY TypeParts, Zero, JobFields, EntryFields, NextGen, MonitorJob, GoType, GoOnType DEF EndUpdate, Stopping, Stops, JobStep
<1>2. RestOK'
  BY Zero, JobFields, EntryFields, NextGen, MonitorJob, EntryEdit, BornType, ClosedType, KilledType, DoomedType
     DEF EndUpdate, Stopping, Stops, TypeOK, RestOK, ProcState, Up, StopStep
<1> QED  BY <1>1, <1>2

LEMMA QuiesceAloneType == ASSUME TypeOK, QuiesceAlone PROVE RestOK' /\ job' \in [Jobs -> JobType]
<1>1. job' \in [Jobs -> JobType]
  BY TypeParts, Zero, JobFields, EntryFields, NextGen, MonitorJob, GoType, GoOnType DEF QuiesceAlone, globalVars, JobStep
<1>2. RestOK'
  BY Zero, JobFields, EntryFields, NextGen, MonitorJob, EntryEdit, BornType, ClosedType, KilledType, DoomedType
     DEF QuiesceAlone, globalVars, TypeOK, RestOK, ProcState, Up, StopStep
<1> QED  BY <1>1, <1>2

LEMMA RequestType == ASSUME TypeOK, Request PROVE RestOK' /\ job' \in [Jobs -> JobType]
<1>1. job' \in [Jobs -> JobType]
  BY TypeParts, Zero, JobFields, EntryFields, NextGen, MonitorJob, GoType, GoOnType DEF Request, Outside, JobStep
<1>3. entry' \in Entry
  BY Zero, JobFields, EntryFields, NextGen, EntryEdit, BornType
     DEF Request, Outside, TypeOK
<1>4. gate' \in [Gens -> {"none", "open", "closed"}]
  BY NextGen, ClosedType DEF Request, Outside, TypeOK
<1>5. lastGen' \in GenOrNone /\ misses' \in [gen : GenOrNone, count : Nat] /\ requests' \in [Gens -> Nat]
  BY Zero, EntryFields, JobFields, MonitorJob, NextGen, OneMore, EntryGen DEF Request, Outside, Running, TypeOK
<1>2. RestOK'
  BY <1>3, <1>4, <1>5 DEF Request, Outside, TypeOK, RestOK
<1> QED  BY <1>1, <1>2

LEMMA RespondType == ASSUME TypeOK, NEW g \in Gens, Respond(g) PROVE RestOK' /\ job' \in [Jobs -> JobType]
<1>1. job' \in [Jobs -> JobType]
  BY TypeParts, Zero, JobFields, EntryFields, NextGen, MonitorJob, GoType, GoOnType DEF Respond, Outside, JobStep
<1>2. RestOK'
  BY Zero, JobFields, EntryFields, NextGen, MonitorJob, EntryEdit, BornType, ClosedType, KilledType, DoomedType
     DEF Respond, Outside, TypeOK, RestOK, ProcState, Up, StopStep
<1> QED  BY <1>1, <1>2

LEMMA BootType == ASSUME TypeOK, NEW g \in Gens, Boot(g) PROVE RestOK' /\ job' \in [Jobs -> JobType]
<1>1. job' \in [Jobs -> JobType]
  BY TypeParts, Zero, JobFields, EntryFields, NextGen, MonitorJob, GoType, GoOnType DEF Boot, Outside, Becomes, JobStep
<1>2. RestOK'
  BY Zero, JobFields, EntryFields, NextGen, MonitorJob, EntryEdit, BornType, ClosedType, KilledType, DoomedType
     DEF Boot, Outside, Becomes, TypeOK, RestOK, ProcState, Up, StopStep
<1> QED  BY <1>1, <1>2

LEMMA DieType == ASSUME TypeOK, NEW g \in Gens, Die(g) PROVE RestOK' /\ job' \in [Jobs -> JobType]
<1>1. job' \in [Jobs -> JobType]
  BY TypeParts, Zero, JobFields, EntryFields, NextGen, MonitorJob, GoType, GoOnType DEF Die, Outside, Becomes, JobStep
<1>2. RestOK'
  BY Zero, JobFields, EntryFields, NextGen, MonitorJob, EntryEdit, BornType, ClosedType, KilledType, DoomedType
     DEF Die, Outside, Becomes, TypeOK, RestOK, ProcState, Up, StopStep
<1> QED  BY <1>1, <1>2

LEMMA RecoverType == ASSUME TypeOK, NEW g \in Gens, Recover(g) PROVE RestOK' /\ job' \in [Jobs -> JobType]
<1>1. job' \in [Jobs -> JobType]
  BY TypeParts, Zero, JobFields, EntryFields, NextGen, MonitorJob, GoType, GoOnType DEF Recover, Outside, Becomes, JobStep
<1>2. RestOK'
  BY Zero, JobFields, EntryFields, NextGen, MonitorJob, EntryEdit, BornType, ClosedType, KilledType, DoomedType
     DEF Recover, Outside, Becomes, TypeOK, RestOK, ProcState, Up, StopStep
<1> QED  BY <1>1, <1>2

LEMMA StallType == ASSUME TypeOK, NEW g \in Gens, Stall(g) PROVE RestOK' /\ job' \in [Jobs -> JobType]
<1>1. job' \in [Jobs -> JobType]
  BY TypeParts, Zero, JobFields, EntryFields, NextGen, MonitorJob, GoType, GoOnType DEF Stall, Outside, Becomes, Fault, JobStep
<1>2. RestOK'
  BY Zero, JobFields, EntryFields, NextGen, MonitorJob, EntryEdit, BornType, ClosedType, KilledType, DoomedType
     DEF Stall, Outside, Becomes, Fault, TypeOK, RestOK, ProcState, Up, StopStep
<1> QED  BY <1>1, <1>2

LEMMA CrashType == ASSUME TypeOK, NEW g \in Gens, Crash(g) PROVE RestOK' /\ job' \in [Jobs -> JobType]
<1>1. job' \in [Jobs -> JobType]
  BY TypeParts, Zero, JobFields, EntryFields, NextGen, MonitorJob, GoType, GoOnType DEF Crash, Outside, Becomes, Fault, JobStep
<1>2. RestOK'
  BY Zero, JobFields, EntryFields, NextGen, MonitorJob, EntryEdit, BornType, ClosedType, KilledType, DoomedType
     DEF Crash, Outside, Becomes, Fault, TypeOK, RestOK, ProcState, Up, StopStep
<1> QED  BY <1>1, <1>2

LEMMA AgeType == ASSUME TypeOK, Age PROVE RestOK' /\ job' \in [Jobs -> JobType]
<1>1. job' \in [Jobs -> JobType]
  BY TypeParts, Zero, JobFields, EntryFields, NextGen, MonitorJob, GoType, GoOnType DEF Age, Outside, JobStep
<1>2. RestOK'
  BY Zero, JobFields, EntryFields, NextGen, MonitorJob, EntryEdit, BornType, ClosedType, KilledType, DoomedType
     DEF Age, Outside, TypeOK, RestOK, ProcState, Up, StopStep
<1> QED  BY <1>1, <1>2

(***************************************************************************)
(* Each action keeps the inductive invariant.                              *)
(***************************************************************************)

LEMMA TypeOf ==
  ASSUME QuiesceTypeOK', RestOK', job' \in [Jobs -> JobType] PROVE TypeOK'
BY DEF TypeOK, RestOK, JobType

LEMMA ResultEffect ==
  ASSUME TypeOK, NEW t \in Jobs, NEW g, Result(t, g)
  PROVE  /\ job'[t].step \in {"publish", "return"} /\ job'[t].gen = g /\ job'[t].lease = 0
         /\ job'[t].step = "publish" => t = Monitor /\ g # 0
         /\ Others(t)
BY GoEffect DEF Result, Others

LEMMA DoneEffect ==
  ASSUME TypeOK, NEW t \in Jobs, Done(t)
  PROVE  /\ job'[t].step = (IF t \in Creators THEN "return" ELSE "idle")
         /\ job'[t].gen = 0 /\ job'[t].lease = 0 /\ Others(t)
BY GoEffect DEF Done, Result, Others

LEMMA PublishedEffect ==
  ASSUME TypeOK, NEW t \in Jobs, Published(t)
  PROVE  /\ job'[t].step = (IF t = Monitor THEN "return" ELSE "idle")
         /\ job'[t].gen = 0 /\ job'[t].lease = 0 /\ Others(t)
BY GoEffect DEF Published, Others

LEMMA Leaseless ==
  ASSUME GlobalInv
  PROVE  /\ \A u \in Jobs : job[u].step \notin Leasing \cup {"reserve"} => job[u].lease = 0
         /\ \A u \in Jobs : job[u].gen <= lastGen
         /\ 0 <= lastGen /\ entry.gen <= lastGen
         /\ \A u \in Jobs : job[u].step \in Making \cup {"publish", "write"} => job[u].gen # 0
BY Zeros DEF GlobalInv, Shapes, Drawn

LEMMA CreatorJob == \A t \in Creators : t \in Jobs /\ t \notin Stoppers
BY ActorsAssumption DEF Jobs

LEMMA SameEntry ==
  ASSUME TypeOK
  PROVE  /\ entry = [entry EXCEPT !.healthy = entry.healthy]
         /\ entry = [entry EXCEPT !.held = entry.held]
         /\ entry = [entry EXCEPT !.young = entry.young]
BY DEF TypeOK, Entry

LEMMA QuietJob ==
  ASSUME GlobalInv, TypeOK', Permitted', StopLicensed',
         NEW t \in Jobs, Others(t),
         job[t].lease = 0, job'[t].lease = 0, job[t].step \notin Leasing, job'[t].step \notin Leasing,
         job'[t].step \in Making => job[t].step \in Making /\ job'[t].gen = job[t].gen,
         job'[t].step = "publish" => job'[t].gen # 0,
         job'[t].gen <= lastGen,
         t \in Stoppers => job'[t].step \in {"idle", "wait"},
         desired' \in {desired, TRUE} \/ (entry.gen # 0 => gate[entry.gen] = "closed"),
         UNCHANGED <<entry, stopAll, gate, requests, proc, lastGen, portFile>>
  PROVE  GlobalInv'
<1>1. entry' = [entry EXCEPT !.healthy = entry'.healthy]
  BY SameEntry DEF GlobalInv
<1>2. entry'.healthy \in {entry.healthy, FALSE} \/ (job[t].step = "ready" /\ job[t].gen = entry.gen)
  OBVIOUS
<1>3. \A x \in Stops : stopAll'[x] = stopAll[x]
  OBVIOUS
<1>4. /\ entry.gen = 0 => entry' = entry
      /\ UNCHANGED <<gate, requests, proc, lastGen, portFile>>
  OBVIOUS
<1> QED  BY <1>1, <1>2, <1>3, <1>4, QuietMove

LEMMA WorkingCreator ==
  ASSUME GlobalInv, NEW t \in Creators, job[t].step \in Calling \cup {"return"}
  PROVE  creator[t] # "idle"
BY DEF GlobalInv, Permitted, Calling

LEMMA PreambleFailsStep ==
  ASSUME GlobalInv, QuiesceTypeOK', NEW t \in Creators, PreambleFails(t)
  PROVE  GlobalInv'
<1> t \in Jobs /\ t \notin Stoppers
  BY CreatorJob
<1>1. TypeOK'
  BY PreambleFailsType, TypeOf DEF GlobalInv
<1>2. /\ job[t].step = "select" /\ job'[t].step = "return" /\ job'[t].gen = 0
      /\ job'[t].lease = 0 /\ Others(t)
      /\ UNCHANGED <<quiesceVars, stopAll, desired, entry, gate, requests, proc, lastGen, portFile>>
  BY ResultEffect DEF PreambleFails, At, Inside, GlobalInv
<1>3. Permitted' /\ StopLicensed'
  BY <1>2, BooksKept, WorkingCreator DEF Calling
<1> QED
  BY <1>1, <1>2, <1>3, Leaseless, QuietJob DEF Leasing, Making

LEMMA HealthOkStep ==
  ASSUME GlobalInv, QuiesceTypeOK', NEW t \in Creators, HealthOk(t)
  PROVE  GlobalInv'
<1> t \in Jobs /\ t \notin Stoppers
  BY CreatorJob
<1>1. TypeOK'
  BY HealthOkType, TypeOf DEF GlobalInv
<1>2. /\ job[t].step = "health" /\ job'[t].step = "ready" /\ job'[t].gen = job[t].gen
      /\ job'[t].lease = 0 /\ Others(t)
      /\ UNCHANGED <<quiesceVars, stopAll, desired, entry, gate, requests, proc, lastGen, portFile>>
  BY GoEffect DEF HealthOk, At, Inside, Others, GlobalInv
<1>3. Permitted' /\ StopLicensed'
  BY <1>2, BooksKept, WorkingCreator DEF Calling
<1> QED
  BY <1>1, <1>2, <1>3, Leaseless, QuietJob DEF Leasing, Making

LEMMA StopWaitedStep ==
  ASSUME GlobalInv, QuiesceTypeOK', NEW t \in Stoppers, StopWaited(t)
  PROVE  GlobalInv'
<1> t \in Jobs /\ t \notin Creators
  BY ActorsAssumption DEF Jobs
<1>1. TypeOK'
  BY StopWaitedType, TypeOf DEF GlobalInv
<1>2. /\ job[t].step = "wait" /\ job'[t].step = "idle" /\ job'[t].gen = 0
      /\ job'[t].lease = 0 /\ Others(t)
      /\ UNCHANGED <<quiesceVars, stopAll, desired, entry, gate, requests, proc, lastGen, portFile>>
  BY GoEffect DEF StopWaited, At, Inside, Others, GlobalInv
<1>3. Permitted' /\ StopLicensed'
  BY <1>2, BooksKept, WorkingCreator DEF Calling
<1> QED
  BY <1>1, <1>2, <1>3, Leaseless, QuietJob DEF Leasing, Making

LEMMA MonitorFindsDeadStep ==
  ASSUME GlobalInv, QuiesceTypeOK', MonitorFindsDead
  PROVE  GlobalInv'
<1> Monitor \in Jobs /\ Monitor \notin Stoppers
  BY CreatorJob, ActorsAssumption
<1>1. TypeOK'
  BY MonitorFindsDeadType, TypeOf DEF GlobalInv
<1>2. /\ job[Monitor].step = "idle" /\ job'[Monitor].step = "restart" /\ job'[Monitor].gen = entry.gen
      /\ job'[Monitor].lease = 0 /\ Others(Monitor)
      /\ UNCHANGED <<quiesceVars, stopAll, desired, entry, gate, requests, proc, lastGen, portFile>>
  BY GoEffect DEF MonitorFindsDead, At, Watching, Others, GlobalInv
<1>3. Permitted' /\ StopLicensed'
  BY <1>2, BooksKept, WorkingCreator DEF Calling
<1> QED
  BY <1>1, <1>2, <1>3, Leaseless, QuietJob DEF Leasing, Making

LEMMA MonitorFindsAliveStep ==
  ASSUME GlobalInv, QuiesceTypeOK', MonitorFindsAlive
  PROVE  GlobalInv'
<1> Monitor \in Jobs /\ Monitor \notin Stoppers
  BY CreatorJob, ActorsAssumption
<1>1. TypeOK'
  BY MonitorFindsAliveType, TypeOf DEF GlobalInv
<1>2. /\ job[Monitor].step = "idle" /\ job'[Monitor].step = "probe" /\ job'[Monitor].gen = entry.gen
      /\ job'[Monitor].lease = 0 /\ Others(Monitor)
      /\ UNCHANGED <<quiesceVars, stopAll, desired, entry, gate, requests, proc, lastGen, portFile>>
  BY GoEffect DEF MonitorFindsAlive, At, Watching, Others, GlobalInv
<1>3. Permitted' /\ StopLicensed'
  BY <1>2, BooksKept, WorkingCreator DEF Calling
<1> QED
  BY <1>1, <1>2, <1>3, Leaseless, QuietJob DEF Leasing, Making

LEMMA ProbeStep ==
  ASSUME GlobalInv, QuiesceTypeOK', Probe
  PROVE  GlobalInv'
<1> Monitor \in Jobs /\ Monitor \notin Stoppers
  BY CreatorJob, ActorsAssumption
<1>1. TypeOK'
  BY ProbeType, TypeOf DEF GlobalInv
<1>2. /\ job[Monitor].step = "probe" /\ job'[Monitor].step \in {"hit", "miss"} /\ job'[Monitor].gen = job[Monitor].gen
      /\ job'[Monitor].lease = 0 /\ Others(Monitor)
      /\ UNCHANGED <<quiesceVars, stopAll, desired, entry, gate, requests, proc, lastGen, portFile>>
  BY GoEffect DEF Probe, At, Watching, Others, GlobalInv
<1>3. Permitted' /\ StopLicensed'
  BY <1>2, BooksKept, WorkingCreator DEF Calling
<1> QED
  BY <1>1, <1>2, <1>3, Leaseless, QuietJob DEF Leasing, Making

LEMMA LicenceKept ==
  ASSUME GlobalInv, UNCHANGED stopAll,
         \A u \in Updaters : updater[u] = "guarding" => updater'[u] = "guarding",
         \A x \in Exiters : exiter[x] = "done" => exiter'[x] = "done"
  PROVE  StopLicensed'
BY DEF GlobalInv, StopLicensed, Licensed

LEMMA StartRequestStep ==
  ASSUME GlobalInv, QuiesceTypeOK', NEW t \in Starters, StartRequest(t)
  PROVE  GlobalInv'
<1> t \in Creators /\ t \in Jobs /\ t \notin Stoppers
  BY CreatorJob DEF Starters
<1>1. TypeOK'
  BY StartRequestType, TypeOf DEF GlobalInv
<1>2. /\ job[t].step = "idle" /\ job'[t].step = "select" /\ job'[t].gen = 0
      /\ job'[t].lease = 0 /\ Others(t) /\ desired' = TRUE
      /\ UNCHANGED <<updater, exiter, stopAll, entry, gate, requests, proc, lastGen, portFile>>
      /\ creator' = [creator EXCEPT ![t] = "creating"]
  BY GoEffect DEF StartRequest, BeginSpawn, At, Others, GlobalInv
<1>3. Permitted'
  <2>1. \A u \in Creators : creator'[u] = "idle" => u # t /\ creator[u] = "idle"
    BY <1>2 DEF GlobalInv, TypeOK, QuiesceTypeOK
  <2> QED  BY <1>2, <2>1, CreatorJob DEF GlobalInv, Permitted, Others
<1>4. StopLicensed'
  BY <1>2, LicenceKept
<1> QED  BY <1>1, <1>2, <1>3, <1>4, Leaseless, QuietJob DEF Leasing, Making

LEMMA MonitorRestartStep ==
  ASSUME GlobalInv, QuiesceTypeOK', MonitorRestart
  PROVE  GlobalInv'
<1> DEFINE t == Monitor
<1> t \in Creators /\ t \in Jobs /\ t \notin Stoppers
  BY CreatorJob, ActorsAssumption
<1>1. TypeOK'
  BY MonitorRestartType, TypeOf DEF GlobalInv
<1>2. /\ job[t].step = "restart"
      /\ \/ job'[t].step = "select" /\ creator' = [creator EXCEPT ![t] = "creating"]
            /\ job'[t].gen = job[t].gen
         \/ job'[t].step = "idle" /\ UNCHANGED creator /\ job'[t].gen = 0
      /\ job'[t].lease = 0 /\ Others(t)
      /\ UNCHANGED <<desired, updater, exiter, stopAll, entry, gate, requests, proc, lastGen, portFile>>
  BY GoEffect DEF MonitorRestart, BeginSpawn, At, Others, GlobalInv, quiesceVars
<1>3. Permitted'
  <2>1. \A u \in Creators : creator'[u] = "idle" =>
          creator[u] = "idle" /\ (u = t => job'[t].step = "idle")
    BY <1>2 DEF GlobalInv, TypeOK, QuiesceTypeOK
  <2> QED  BY <1>2, <2>1, CreatorJob DEF GlobalInv, Permitted, Others
<1>4. StopLicensed'
  BY <1>2, LicenceKept
<1> QED  BY <1>1, <1>2, <1>3, <1>4, Leaseless, QuietJob DEF Leasing, Making

LEMMA ReturnStep ==
  ASSUME GlobalInv, QuiesceTypeOK', NEW t \in Creators, Return(t)
  PROVE  GlobalInv'
<1> t \in Jobs /\ t \notin Stoppers
  BY CreatorJob
<1>1. TypeOK'
  BY ReturnType, TypeOf DEF GlobalInv
<1>2. /\ job[t].step = "return"
      /\ \/ job'[t].step = "publish" /\ t # Monitor /\ job'[t].gen = job[t].gen /\ job[t].gen # 0
         \/ job'[t].step = "idle" /\ job'[t].gen = 0
      /\ job'[t].lease = 0 /\ Others(t)
      /\ UNCHANGED <<desired, stopAll, entry, gate, requests, proc, lastGen, portFile>>
      /\ DropPermit(t)
  BY GoEffect DEF Return, At, Others, GlobalInv
<1>3. Permitted'
  <2>1. \A u \in Creators : u # t => creator'[u] = creator[u]
    BY <1>2 DEF GlobalInv, TypeOK, QuiesceTypeOK, DropPermit
  <2> QED  BY <1>2, <2>1, CreatorJob DEF GlobalInv, Permitted, Others
<1>4. /\ \A u \in Updaters : updater[u] = "guarding" => updater'[u] = "guarding"
      /\ \A x \in Exiters : exiter[x] = "done" => exiter'[x] = "done"
  <2>1. /\ updater \in [Updaters -> {"idle", "asleep", "awake", "guarding"}]
        /\ exiter \in [Exiters -> {"idle", "asleep", "awake", "done"}]
    BY DEF GlobalInv, TypeOK, QuiesceTypeOK
  <2>2. \/ updater' = Woken(updater) /\ exiter' = Woken(exiter)
        \/ updater' = updater /\ exiter' = exiter
    BY <1>2 DEF DropPermit
  <2>3. CASE updater' = updater /\ exiter' = exiter
    BY <2>3
  <2>4. CASE updater' = Woken(updater) /\ exiter' = Woken(exiter)
    BY <2>1, <2>4, UpdatersWoken, ExitersWoken
  <2> QED  BY <2>2, <2>3, <2>4
<1>5. StopLicensed'
  BY <1>2, <1>4, LicenceKept
<1> QED  BY <1>1, <1>2, <1>3, <1>5, Leaseless, QuietJob DEF Leasing, Making

LEMMA EntryKept ==
  ASSUME GlobalInv
  PROVE  /\ Accepting(entry) => entry.gen # 0 /\ gate[entry.gen] = "open"
         /\ ~Accepting(entry) /\ entry.gen # 0 => gate[entry.gen] = "closed"
         /\ ~Accepting(entry) => Closed(entry.gen) = gate
<1>1. entry.gen # 0 => entry.gen \in Gens
  BY EntryGen DEF GlobalInv
<1>2. ~Accepting(entry) /\ entry.gen # 0 => gate[entry.gen] = "closed"
  BY <1>1 DEF GlobalInv, Gated, TypeOK, Accepting
<1>3. ~Accepting(entry) => Closed(entry.gen) = gate
  BY <1>2 DEF GlobalInv, TypeOK, Closed
<1> QED  BY <1>2, <1>3 DEF Accepting

LEMMA SelectStep ==
  ASSUME GlobalInv, QuiesceTypeOK', NEW t \in Creators, Select(t)
  PROVE  GlobalInv'
<1> t \in Jobs /\ t \notin Stoppers
  BY CreatorJob
<1>1. TypeOK'
  BY SelectType, TypeOf DEF GlobalInv
<1>2. /\ job[t].step = "select"
      /\ UNCHANGED <<quiesceVars, stopAll, desired, entry, requests, proc, lastGen, portFile>>
  BY DEF Select, At, Inside
<1>3. ASSUME UNCHANGED gate,
             \/ Result(t, 0)
             \/ Result(t, entry.gen) /\ entry.gen # 0
             \/ Go(t, "reserve", 0, 0)
      PROVE  GlobalInv'
  <2>1. /\ job'[t].step \in {"return", "publish", "reserve"} /\ job'[t].gen \in {0, entry.gen}
        /\ job'[t].lease = 0 /\ Others(t)
        /\ job'[t].step = "publish" => job'[t].gen # 0
    BY <1>3, GoEffect, ResultEffect DEF GlobalInv, Others
  <2>2. Permitted' /\ StopLicensed'
    BY <1>2, <2>1, BooksKept, WorkingCreator DEF Calling
  <2> QED  BY <1>1, <1>2, <1>3, <2>1, <2>2, Leaseless, QuietJob DEF Leasing, Making
<1>4. ASSUME Replaceable(t), Go(t, "drain", 0, entry.gen), gate' = Closed(entry.gen)
      PROVE  GlobalInv'
  <2>1. /\ job'[t].step = "drain" /\ job'[t].gen = 0 /\ job'[t].lease = entry.gen /\ Others(t)
        /\ entry.gen # 0 /\ gate[entry.gen] = "open"
    BY <1>4, GoEffect DEF GlobalInv, Others, Replaceable, Accepting
  <2>2. Permitted' /\ StopLicensed'
    BY <1>2, <2>1, BooksKept, WorkingCreator DEF Calling
  <2> QED  BY <1>1, <1>2, <1>4, <2>1, <2>2, Leaseless, TakeCharge DEF Leasing
<1>5. CASE ~desired
  <2>1. Result(t, 0) /\ UNCHANGED gate
    BY <1>5 DEF Select
  <2> QED  BY <1>3, <2>1
<1>6. CASE desired /\ entry.gen = 0
  <2>1. UNCHANGED gate /\ IF job[t].gen = 0 THEN Go(t, "reserve", 0, 0) ELSE Result(t, 0)
    BY <1>6 DEF Select
  <2> QED  BY <1>3, <2>1
<1>7. CASE desired /\ entry.gen # 0 /\ Replaceable(t)
  <2>1. Go(t, "drain", 0, entry.gen) /\ gate' = Closed(entry.gen)
    BY <1>7 DEF Select
  <2> QED  BY <1>4, <1>7, <2>1
<1>8. CASE desired /\ entry.gen # 0 /\ ~Replaceable(t)
  <2> DEFINE r == IF job[t].gen \in {0, entry.gen} /\ Running(entry) THEN entry.gen ELSE 0
  <2>1. Result(t, r) /\ UNCHANGED gate
    BY <1>8 DEF Select
  <2>2. r \in {0, entry.gen}
    OBVIOUS
  <2> HIDE DEF r
  <2> QED  BY <1>3, <1>8, <2>1, <2>2
<1> QED  BY <1>5, <1>6, <1>7, <1>8 DEF GlobalInv, TypeOK

LEMMA SetupFailsStep ==
  ASSUME GlobalInv, QuiesceTypeOK', NEW t \in Creators, SetupFails(t)
  PROVE  GlobalInv'
<1> t \in Jobs /\ t \notin Stoppers
  BY CreatorJob
<1>1. TypeOK'
  BY SetupFailsType, TypeOf DEF GlobalInv
<1>2. /\ job[t].step = "reserve"
      /\ UNCHANGED <<quiesceVars, stopAll, desired, entry, gate, requests, proc, lastGen, portFile>>
  BY DEF SetupFails, At, Inside
<1>3. CASE job[t].lease = 0
  <2>1. job'[t].step = "return" /\ job'[t].gen = 0 /\ job'[t].lease = 0 /\ Others(t)
    BY <1>3, ResultEffect DEF SetupFails, GlobalInv
  <2>2. Permitted' /\ StopLicensed'
    BY <1>2, <2>1, BooksKept, WorkingCreator DEF Calling
  <2> QED  BY <1>1, <1>2, <1>3, <2>1, <2>2, Leaseless, QuietJob DEF Leasing, Making
<1>4. CASE job[t].lease # 0
  <2>1. /\ job'[t].step = "retire" /\ job'[t].gen = job[t].lease /\ job'[t].lease = job[t].lease
        /\ Others(t)
    BY <1>4, GoEffect DEF SetupFails, GlobalInv, Others
  <2>2. Permitted' /\ StopLicensed'
    BY <1>2, <2>1, BooksKept, WorkingCreator DEF Calling
  <2>3. /\ Closer(t) /\ Closer(t)' /\ ~Alone(t)' /\ ~Replacing(t)' /\ ~Parting(t)'
        /\ entry' = [entry EXCEPT !.held = entry'.held]
        /\ job'[t].gen <= lastGen
    BY <1>2, <1>4, <2>1, SameEntry DEF Closer, Parting, Alone, Replacing, GlobalInv, Drawn
  <2> QED  BY <1>1, <1>2, <2>1, <2>2, <2>3, ChargeKept DEF Making
<1> QED  BY <1>3, <1>4

LEMMA DrainOldStep ==
  ASSUME GlobalInv, QuiesceTypeOK', NEW t \in Creators, DrainOld(t)
  PROVE  GlobalInv'
<1> t \in Jobs /\ t \notin Stoppers
  BY CreatorJob
<1>1. TypeOK'
  BY DrainOldType, TypeOf DEF GlobalInv
<1>2. /\ job[t].step = "drain" /\ job'[t].step = "reserve" /\ job'[t].gen = 0
      /\ job'[t].lease = job[t].lease /\ Others(t) /\ portFile' = 0
      /\ InFlight(job[t].lease) <= 1
      /\ UNCHANGED <<quiesceVars, stopAll, desired, entry, gate, requests, proc, lastGen>>
  BY GoEffect DEF DrainOld, Drained, At, Inside, Others, GlobalInv
<1>3. Permitted' /\ StopLicensed'
  BY <1>2, BooksKept, WorkingCreator DEF Calling
<1>4. /\ Closer(t) /\ Closer(t)'
      /\ entry' = [entry EXCEPT !.held = entry'.held]
      /\ ~Replacing(t)'
  BY <1>2, SameEntry DEF Closer, Parting, Replacing, Leasing, GlobalInv, Shapes
<1> QED  BY <1>1, <1>2, <1>3, <1>4, Leaseless, ChargeKept DEF Making

LEMMA ReserveReplacementStep ==
  ASSUME GlobalInv, QuiesceTypeOK', NEW t \in Creators, ReserveReplacement(t)
  PROVE  GlobalInv'
<1> t \in Jobs /\ t \notin Stoppers
  BY CreatorJob
<1>1. TypeOK'
  BY ReserveReplacementType, TypeOf DEF GlobalInv
<1>2. /\ job[t].step = "reserve" /\ job[t].lease # 0
      /\ UNCHANGED <<quiesceVars, stopAll, desired, gate, requests, proc, portFile>>
  BY DEF ReserveReplacement, At, Inside
<1>3. Parting(t) /\ Closer(t) /\ Alone(t) /\ entry.gen = job[t].lease /\ lastGen \in Nat
  BY <1>2, Zeros DEF Closer, Parting, Alone, GlobalInv, Anchored
<1>4. CASE ~desired
  <2>1. /\ job'[t].step = "retire" /\ job'[t].gen = job[t].lease /\ job'[t].lease = job[t].lease
        /\ Others(t) /\ UNCHANGED <<entry, lastGen>>
    BY <1>4, GoEffect DEF ReserveReplacement, GlobalInv, Others
  <2>2. Permitted' /\ StopLicensed'
    BY <1>2, <2>1, BooksKept, WorkingCreator DEF Calling
  <2>3. /\ Closer(t)' /\ ~Alone(t)' /\ ~Replacing(t)' /\ ~Parting(t)'
        /\ entry' = [entry EXCEPT !.held = entry'.held]
        /\ job'[t].gen <= lastGen
    BY <2>1, SameEntry DEF Closer, Parting, Alone, Replacing, GlobalInv, Drawn
  <2> QED  BY <1>1, <1>2, <1>3, <2>1, <2>2, <2>3, ChargeKept DEF Making
<1>5. CASE desired
  <2>1. /\ lastGen' = lastGen + 1 /\ entry' = [entry EXCEPT !.held = FALSE]
        /\ Go(t, "kill", lastGen', job[t].lease)
    BY <1>3, <1>5 DEF ReserveReplacement
  <2>2. /\ job'[t].step = "kill" /\ job'[t].gen = lastGen + 1 /\ job'[t].lease = job[t].lease
        /\ Others(t)
    BY <2>1, GoEffect DEF GlobalInv, Others
  <2>3. Permitted' /\ StopLicensed'
    BY <1>2, <2>2, BooksKept, WorkingCreator DEF Calling
  <2>4. /\ Closer(t)' /\ Replacing(t)' /\ ~Parting(t)'
        /\ ~entry'.held /\ entry' = [entry EXCEPT !.held = entry'.held]
    BY <2>1, <2>2 DEF Closer, Parting, Replacing, GlobalInv, TypeOK, Entry
  <2>5. job'[t].gen <= lastGen' /\ job'[t].gen # 0 /\ job'[t].gen # job[t].lease
    BY <1>3, <2>1, <2>2 DEF GlobalInv, Drawn
  <2> QED  BY <1>1, <1>2, <1>3, <2>1, <2>2, <2>3, <2>4, <2>5, ChargeKept
<1> QED  BY <1>4, <1>5 DEF GlobalInv, TypeOK

LEMMA KillOldStep ==
  ASSUME GlobalInv, QuiesceTypeOK', NEW t \in Creators, KillOld(t)
  PROVE  GlobalInv'
<1> t \in Jobs /\ t \notin Stoppers
  BY CreatorJob
<1>1. TypeOK'
  BY KillOldType, TypeOf DEF GlobalInv
<1>2. /\ job[t].step = "kill" /\ Others(t)
      /\ \/ job'[t].step = "spawn" /\ job'[t].gen = job[t].gen /\ proc' = Killed(job[t].lease)
         \/ job'[t].step = "retire" /\ job'[t].gen = job[t].lease /\ proc' = Doomed(job[t].lease)
      /\ job'[t].lease = job[t].lease
      /\ UNCHANGED <<quiesceVars, stopAll, desired, entry, gate, requests, lastGen, portFile>>
  BY GoEffect DEF KillOld, At, Inside, Others, GlobalInv
<1>3. Permitted' /\ StopLicensed'
  BY <1>2, BooksKept, WorkingCreator DEF Calling
<1>4. /\ Closer(t) /\ Replacing(t) /\ Alone(t) /\ job[t].lease \in Gens
      /\ ~entry.held /\ entry' = [entry EXCEPT !.held = entry'.held]
      /\ job[t].gen # job[t].lease /\ job[t].gen # 0
      /\ job[t].gen <= lastGen /\ job[t].lease <= lastGen
  BY <1>2, SameEntry, RolesLease DEF Closer, Replacing, Alone, GlobalInv, Taken, Shapes, Making, Drawn
<1>5. Closer(t)' /\ ~Parting(t)'
  BY <1>2, <1>4 DEF Closer, Replacing, Parting
<1>6. /\ \A h \in Gens : /\ proc'[h] \in Up => proc[h] \in Up
                         /\ proc[h] = "none" => proc'[h] = "none"
      /\ proc'[job[t].lease] \notin Up
  BY <1>2, <1>4 DEF GlobalInv, TypeOK, Killed, Doomed, Up
<1> QED  BY <1>1, <1>2, <1>3, <1>4, <1>5, <1>6, ChargeKept DEF Making

LEMMA SpawnFailsStep ==
  ASSUME GlobalInv, QuiesceTypeOK', NEW t \in Creators, SpawnFails(t)
  PROVE  GlobalInv'
<1> t \in Jobs /\ t \notin Stoppers
  BY CreatorJob
<1>1. TypeOK'
  BY SpawnFailsType, TypeOf DEF GlobalInv
<1>2. /\ job[t].step = "spawn"
      /\ UNCHANGED <<quiesceVars, stopAll, desired, requests, proc, lastGen, portFile>>
  BY DEF SpawnFails, At, Inside
<1>3. CASE Birth(t)
  <2>1. Bearing(t) /\ entry.gen = job[t].gen /\ ~entry.held
    BY <1>2, <1>3 DEF Birth, Bearing, GlobalInv, Anchored, Taken, Shapes, Leasing
  <2>2. job'[t].step = "return" /\ job'[t].gen = 0 /\ job'[t].lease = 0 /\ Others(t)
    BY <1>3, ResultEffect DEF SpawnFails, GlobalInv
  <2>3. Permitted' /\ StopLicensed'
    BY <1>2, <2>2, BooksKept, WorkingCreator DEF Calling
  <2>4. CASE Accepting(entry)
    <3>1. entry' = NoEntry /\ gate' = Closed(entry.gen)
      BY <1>3, <2>1, <2>4 DEF SpawnFails, AbandonBirth, Abandonable
    <3> QED  BY <1>1, <1>2, <2>1, <2>2, <2>3, <2>4, <3>1, EntryKept, PlaceGivenUp
  <2>5. CASE ~Accepting(entry)
    <3>1. UNCHANGED <<entry, gate>> /\ gate[entry.gen] # "open"
      BY <1>3, <2>1, <2>5, EntryKept, RolesLease DEF SpawnFails, AbandonBirth, Abandonable
    <3> QED  BY <1>1, <1>2, <2>1, <2>2, <2>3, <3>1, BirthOvertaken
  <2> QED  BY <2>4, <2>5
<1>4. CASE ~Birth(t)
  <2>1. /\ job'[t].step = "retire" /\ job'[t].gen = job[t].lease /\ job'[t].lease = job[t].lease
        /\ Others(t) /\ UNCHANGED <<entry, gate>>
    BY <1>4, GoEffect DEF SpawnFails, GlobalInv, Others
  <2>2. Permitted' /\ StopLicensed'
    BY <1>2, <2>1, BooksKept, WorkingCreator DEF Calling
  <2>3. /\ Closer(t) /\ Closer(t)' /\ ~Alone(t)' /\ ~Replacing(t)' /\ ~Parting(t)'
        /\ entry' = [entry EXCEPT !.held = entry'.held]
        /\ job'[t].gen <= lastGen
    BY <1>2, <1>4, <2>1, SameEntry DEF Birth, Closer, Parting, Alone, Replacing, GlobalInv, Drawn
  <2> QED  BY <1>1, <1>2, <2>1, <2>2, <2>3, ChargeKept DEF Making
<1> QED  BY <1>3, <1>4

LEMMA ReserveBirthStep ==
  ASSUME GlobalInv, QuiescedMeansNoBirth, QuiesceTypeOK', NEW t \in Creators, ReserveBirth(t)
  PROVE  GlobalInv'
<1> t \in Jobs /\ t \notin Stoppers
  BY CreatorJob
<1>1. TypeOK'
  BY ReserveBirthType, TypeOf DEF GlobalInv
<1>2. /\ job[t].step = "reserve" /\ job[t].lease = 0
      /\ UNCHANGED <<quiesceVars, stopAll, desired, requests, proc, portFile>>
  BY DEF ReserveBirth, At, Inside
<1>3. ASSUME NEW r, r \in {0, entry.gen}, Result(t, r), UNCHANGED <<entry, gate, lastGen>>
      PROVE  GlobalInv'
  <2>1. /\ job'[t].step \in {"return", "publish"} /\ job'[t].gen = r
        /\ job'[t].lease = 0 /\ Others(t)
        /\ job'[t].step = "publish" => job'[t].gen # 0
    BY <1>3, ResultEffect DEF GlobalInv
  <2>2. Permitted' /\ StopLicensed'
    BY <1>2, <2>1, BooksKept, WorkingCreator DEF Calling
  <2> QED  BY <1>1, <1>2, <1>3, <2>1, <2>2, Leaseless, QuietJob DEF Leasing, Making
<1>4. CASE ~desired
  <2>1. Result(t, 0) /\ UNCHANGED <<entry, gate, lastGen>>
    BY <1>4 DEF ReserveBirth
  <2> QED  BY <1>3, <2>1
<1>5. CASE desired /\ entry.gen # 0
  <2> DEFINE r == IF Running(entry) THEN entry.gen ELSE 0
  <2>1. Result(t, r) /\ UNCHANGED <<entry, gate, lastGen>>
    BY <1>5 DEF ReserveBirth
  <2>2. r \in {0, entry.gen}
    OBVIOUS
  <2> HIDE DEF r
  <2> QED  BY <1>3, <2>1, <2>2
<1>6. CASE desired /\ entry.gen = 0
  <2>1. /\ lastGen < MaxGen /\ lastGen' = lastGen + 1 /\ entry' = Born(lastGen', FALSE)
        /\ gate' = [gate EXCEPT ![lastGen'] = "open"] /\ Go(t, "spawn", lastGen', lastGen')
    BY <1>2, <1>6 DEF ReserveBirth
  <2>2. /\ job'[t].step = "spawn" /\ job'[t].gen = lastGen' /\ job'[t].lease = lastGen'
        /\ Others(t)
    BY <2>1, GoEffect DEF GlobalInv, Others
  <2>3. Permitted' /\ StopLicensed'
    BY <1>2, <2>2, BooksKept, WorkingCreator DEF Calling
  <2> QED  BY <1>1, <1>2, <1>6, <2>1, <2>2, <2>3, PlaceTaken
<1> QED  BY <1>4, <1>5, <1>6 DEF GlobalInv, TypeOK

LEMMA InstallBirthStep ==
  ASSUME GlobalInv, QuiesceTypeOK', NEW t \in Creators, InstallBirth(t)
  PROVE  GlobalInv'
<1> t \in Jobs /\ t \notin Stoppers
  BY CreatorJob
<1>1. TypeOK'
  BY InstallBirthType, TypeOf DEF GlobalInv
<1>2. /\ job[t].step = "install"
      /\ UNCHANGED <<quiesceVars, stopAll, desired, requests, proc, lastGen, portFile>>
  BY DEF InstallBirth, At, Inside
<1>3. Bearing(t) /\ entry.gen = job[t].gen /\ ~entry.held
  BY <1>2 DEF InstallBirth, Birth, Bearing, GlobalInv, Anchored, Taken, Shapes, Leasing
<1>4. Abandonable(t) <=> Accepting(entry)
  BY <1>3 DEF Abandonable
<1>5. CASE desired /\ Abandonable(t)
  <2>1. entry' = Born(job[t].gen, TRUE) /\ Go(t, "health", job[t].gen, 0) /\ UNCHANGED gate
    BY <1>5 DEF InstallBirth
  <2>2. job'[t].step = "health" /\ job'[t].gen = job[t].gen /\ job'[t].lease = 0 /\ Others(t)
    BY <2>1, GoEffect DEF GlobalInv, Others
  <2>3. Permitted' /\ StopLicensed'
    BY <1>2, <2>2, BooksKept, WorkingCreator DEF Calling
  <2> QED  BY <1>1, <1>2, <1>3, <1>4, <1>5, <2>1, <2>2, <2>3, EntryKept, PlaceFilled
<1>6. CASE ~(desired /\ Abandonable(t))
  <2>1. AbandonBirth(t) /\ Go(t, "discard", job[t].gen, job[t].lease)
    BY <1>6 DEF InstallBirth
  <2>2. /\ job'[t].step = "discard" /\ job'[t].gen = job[t].gen /\ job'[t].lease = job[t].lease
        /\ Others(t)
    BY <2>1, GoEffect DEF GlobalInv, Others
  <2>3. Permitted' /\ StopLicensed'
    BY <1>2, <2>2, BooksKept, WorkingCreator DEF Calling
  <2>4. CASE Accepting(entry)
    <3>1. entry' = NoEntry /\ gate' = Closed(entry.gen)
      BY <1>4, <2>1, <2>4 DEF AbandonBirth
    <3> QED  BY <1>1, <1>2, <1>3, <2>2, <2>3, <2>4, <3>1, EntryKept, PlaceGivenUp
  <2>5. CASE ~Accepting(entry)
    <3>1. UNCHANGED <<entry, gate>>
      BY <1>4, <2>1, <2>5 DEF AbandonBirth
    <3>2. gate[entry.gen] # "open"
      BY <1>3, <2>5, RolesLease DEF Accepting
    <3> QED  BY <1>1, <1>2, <1>3, <2>2, <2>3, <3>1, <3>2, BirthOvertaken
  <2> QED  BY <2>4, <2>5
<1> QED  BY <1>5, <1>6

LEMMA InstallReplacementStep ==
  ASSUME GlobalInv, QuiescedMeansNoBirth, QuiesceTypeOK', NEW t \in Creators, InstallReplacement(t)
  PROVE  GlobalInv'
<1> t \in Jobs /\ t \notin Stoppers
  BY CreatorJob
<1>1. TypeOK'
  BY InstallReplacementType, TypeOf DEF GlobalInv
<1>2. /\ job[t].step = "install"
      /\ UNCHANGED <<quiesceVars, stopAll, desired, requests, proc, lastGen, portFile>>
  BY DEF InstallReplacement, At, Inside
<1>3. Replacing(t) /\ entry.gen = job[t].lease
  BY <1>2 DEF InstallReplacement, Birth, Replacing, GlobalInv, Anchored, Shapes, Leasing
<1>4. CASE desired
  <2>1. /\ entry' = Born(job[t].gen, TRUE) /\ gate' = [gate EXCEPT ![job[t].gen] = "open"]
        /\ Go(t, "health", job[t].gen, 0)
    BY <1>3, <1>4 DEF InstallReplacement
  <2>2. job'[t].step = "health" /\ job'[t].gen = job[t].gen /\ job'[t].lease = 0 /\ Others(t)
    BY <2>1, GoEffect DEF GlobalInv, Others
  <2>3. Permitted' /\ StopLicensed'
    BY <1>2, <2>2, BooksKept, WorkingCreator DEF Calling
  <2> QED  BY <1>1, <1>2, <1>3, <1>4, <2>1, <2>2, <2>3, PlaceReplaced
<1>5. CASE ~desired
  <2>1. /\ entry' = NoEntry /\ UNCHANGED gate /\ Go(t, "discard", job[t].gen, job[t].lease)
    BY <1>3, <1>5 DEF InstallReplacement
  <2>2. /\ job'[t].step = "discard" /\ job'[t].gen = job[t].gen /\ job'[t].lease = job[t].lease
        /\ Others(t)
    BY <2>1, GoEffect DEF GlobalInv, Others
  <2>3. Permitted' /\ StopLicensed'
    BY <1>2, <2>2, BooksKept, WorkingCreator DEF Calling
  <2> QED  BY <1>1, <1>2, <1>3, <2>1, <2>2, <2>3, EntryLeaves
<1> QED  BY <1>4, <1>5 DEF GlobalInv, TypeOK

LEMMA CondemnStep ==
  ASSUME GlobalInv, TypeOK', NEW t \in Creators, job[t].step \in {"health", "ready"}, Condemn(t),
         UNCHANGED <<quiesceVars, stopAll, desired, entry, requests, proc, lastGen, portFile>>
  PROVE  GlobalInv'
<1> t \in Jobs /\ t \notin Stoppers
  BY CreatorJob
<1>1. CASE entry.gen = job[t].gen /\ Accepting(entry)
  <2>1. gate' = Closed(entry.gen) /\ Go(t, "retire", job[t].gen, job[t].gen)
    BY <1>1 DEF Condemn
  <2>2. /\ job'[t].step = "retire" /\ job'[t].gen = entry.gen /\ job'[t].lease = entry.gen
        /\ Others(t)
    BY <1>1, <2>1, GoEffect DEF GlobalInv, Others
  <2>3. Permitted' /\ StopLicensed'
    BY <2>2, BooksKept, WorkingCreator DEF Calling
  <2> QED  BY <1>1, <2>1, <2>2, <2>3, EntryKept, Leaseless, TakeCharge DEF Leasing
<1>2. CASE ~(entry.gen = job[t].gen /\ Accepting(entry))
  <2>1. Result(t, 0) /\ UNCHANGED gate
    BY <1>2 DEF Condemn
  <2>2. job'[t].step = "return" /\ job'[t].gen = 0 /\ job'[t].lease = 0 /\ Others(t)
    BY <2>1, ResultEffect DEF GlobalInv
  <2>3. Permitted' /\ StopLicensed'
    BY <2>2, BooksKept, WorkingCreator DEF Calling
  <2> QED  BY <2>1, <2>2, <2>3, Leaseless, QuietJob DEF Leasing, Making
<1> QED  BY <1>1, <1>2

LEMMA HealthFailsStep ==
  ASSUME GlobalInv, QuiesceTypeOK', NEW t \in Creators, HealthFails(t)
  PROVE  GlobalInv'
<1>1. TypeOK'
  BY HealthFailsType, TypeOf DEF GlobalInv
<1> QED  BY <1>1, CondemnStep DEF HealthFails, At, Inside

LEMMA MarkHealthyStep ==
  ASSUME GlobalInv, QuiesceTypeOK', NEW t \in Creators, MarkHealthy(t)
  PROVE  GlobalInv'
<1> t \in Jobs /\ t \notin Stoppers
  BY CreatorJob
<1>1. TypeOK'
  BY MarkHealthyType, TypeOf DEF GlobalInv
<1>2. /\ job[t].step = "ready"
      /\ UNCHANGED <<quiesceVars, stopAll, desired, requests, proc, lastGen, portFile>>
  BY DEF MarkHealthy, At, Inside
<1>3. CASE desired /\ entry.gen = job[t].gen
  <2>1. /\ entry' = [entry EXCEPT !.healthy = TRUE] /\ Result(t, job[t].gen) /\ UNCHANGED gate
    BY <1>3 DEF MarkHealthy
  <2>2. /\ job'[t].step \in {"return", "publish"} /\ job'[t].gen = job[t].gen
        /\ job'[t].lease = 0 /\ Others(t)
    BY <2>1, ResultEffect DEF GlobalInv
  <2>3. Permitted' /\ StopLicensed'
    BY <1>2, <2>2, BooksKept, WorkingCreator DEF Calling
  <2>4. job[t].gen # 0 /\ job[t].lease = 0 /\ job[t].gen <= lastGen
    BY <1>2, Leaseless DEF Making, Leasing
  <2>5. entry' = [entry EXCEPT !.healthy = entry'.healthy]
    BY <2>1 DEF GlobalInv, TypeOK, Entry
  <2>6. \A x \in Stops : stopAll'[x] = stopAll[x]
    BY <1>2
  <2> QED  BY <1>1, <1>2, <1>3, <2>1, <2>2, <2>3, <2>4, <2>5, <2>6, QuietMove DEF Leasing, Making
<1>4. CASE ~(desired /\ entry.gen = job[t].gen)
  BY <1>1, <1>2, <1>4, CondemnStep DEF MarkHealthy
<1> QED  BY <1>3, <1>4

LEMMA AdmitPublishStep ==
  ASSUME GlobalInv, QuiesceTypeOK', NEW t \in Creators, AdmitPublish(t)
  PROVE  GlobalInv'
<1> t \in Jobs /\ t \notin Stoppers
  BY CreatorJob
<1>1. TypeOK'
  BY AdmitPublishType, TypeOf DEF GlobalInv
<1>2. /\ job[t].step = "publish"
      /\ UNCHANGED <<quiesceVars, stopAll, desired, entry, gate, requests, proc, lastGen, portFile>>
      /\ creator[t] = "idle" => t # Monitor
  BY DEF AdmitPublish, At, Inside, GlobalInv, Permitted
<1> DEFINE a == desired /\ entry.gen = job[t].gen /\ Running(entry) /\ Accepting(entry)
<1>3. CASE a
  <2>1. Go(t, "write", entry.gen, entry.gen)
    BY <1>3 DEF AdmitPublish
  <2>2. job'[t].step = "write" /\ job'[t].gen = entry.gen /\ job'[t].lease = entry.gen /\ Others(t)
    BY <2>1, GoEffect DEF GlobalInv, Others
  <2>3. Permitted' /\ StopLicensed'
    BY <1>2, <2>2, BooksKept
  <2>4. entry.gen # 0 /\ entry.healthy /\ gate[entry.gen] = "open"
    BY <1>3 DEF Running, Accepting
  <2> QED  BY <1>1, <1>2, <2>2, <2>3, <2>4, Admitted
<1>4. CASE ~a
  <2>1. Published(t)
    BY <1>4 DEF AdmitPublish
  <2>2. /\ job'[t].step = (IF t = Monitor THEN "return" ELSE "idle")
        /\ job'[t].gen = 0 /\ job'[t].lease = 0 /\ Others(t)
    BY <2>1, PublishedEffect DEF GlobalInv
  <2>3. Permitted' /\ StopLicensed'
    BY <1>2, <2>2, BooksKept
  <2> QED  BY <1>1, <1>2, <2>2, <2>3, Leaseless, QuietJob DEF Leasing, Making
<1> QED  BY <1>3, <1>4

LEMMA WritePortStep ==
  ASSUME GlobalInv, QuiesceTypeOK', NEW t \in Creators, WritePort(t)
  PROVE  GlobalInv'
<1> t \in Jobs /\ t \notin Stoppers
  BY CreatorJob
<1>1. TypeOK'
  BY WritePortType, TypeOf DEF GlobalInv
<1>2. /\ job[t].step = "write" /\ portFile' = job[t].gen
      /\ UNCHANGED <<quiesceVars, stopAll, desired, entry, gate, requests, proc, lastGen>>
      /\ creator[t] = "idle" => t # Monitor
      /\ job'[t].step = (IF t = Monitor THEN "return" ELSE "idle")
      /\ job'[t].gen = 0 /\ job'[t].lease = 0 /\ Others(t)
  BY PublishedEffect DEF WritePort, At, Inside, GlobalInv, Permitted
<1>3. Permitted' /\ StopLicensed'
  BY <1>2, BooksKept
<1> QED  BY <1>1, <1>2, <1>3, Leaseless, LetGo

LEMMA ReleaseLeaseStep ==
  ASSUME GlobalInv, QuiesceTypeOK', NEW t \in Creators, ReleaseLease(t)
  PROVE  GlobalInv'
<1> t \in Jobs /\ t \notin Stoppers
  BY CreatorJob
<1>1. TypeOK'
  BY ReleaseLeaseType, TypeOf DEF GlobalInv
<1>2. /\ job[t].step = "release"
      /\ UNCHANGED <<quiesceVars, stopAll, desired, entry, gate, requests, proc, lastGen, portFile>>
      /\ job'[t].step = "return" /\ job'[t].gen = 0 /\ job'[t].lease = 0 /\ Others(t)
  BY ResultEffect DEF ReleaseLease, At, Inside, GlobalInv
<1>3. Permitted' /\ StopLicensed'
  BY <1>2, BooksKept, WorkingCreator DEF Calling
<1> QED  BY <1>1, <1>2, <1>3, Leaseless, LetGo

(* A retiring creator still has its permit. *)
LEMMA RetireBooks ==
  ASSUME GlobalInv, NEW t \in Jobs, job[t].step \in {"retire", "settle", "detach"}, Others(t),
         UNCHANGED <<quiesceVars, stopAll>>
  PROVE  Permitted' /\ StopLicensed'
<1>1. t \in Creators => creator[t] # "idle"
  BY DEF GlobalInv, Permitted
<1> QED  BY <1>1, BooksKept

LEMMA RetireDrainedStep ==
  ASSUME GlobalInv, QuiesceTypeOK', NEW t \in Jobs, RetireDrained(t)
  PROVE  GlobalInv'
<1>1. TypeOK'
  BY RetireDrainedType, TypeOf DEF GlobalInv
<1>2. /\ job[t].step = "retire" /\ job'[t].step = "settle" /\ job'[t].gen = job[t].gen
      /\ job'[t].lease = job[t].lease /\ Others(t) /\ InFlight(job[t].lease) <= 1
      /\ entry' = IF entry.gen = job[t].lease THEN [entry EXCEPT !.held = FALSE] ELSE entry
      /\ UNCHANGED <<quiesceVars, stopAll, desired, gate, requests, proc, lastGen, portFile>>
  BY GoEffect DEF RetireDrained, Drained, At, Inside, Others, GlobalInv
<1>3. Permitted' /\ StopLicensed'
  BY <1>2, RetireBooks
<1>4. Closer(t) /\ Closer(t)' /\ ~Replacing(t)' /\ ~Parting(t)' /\ entry.gen = job[t].lease
  BY <1>2, RolesLease DEF Closer, Replacing, Parting
<1>5. ~entry'.held /\ entry' = [entry EXCEPT !.held = entry'.held]
  BY <1>2, <1>4 DEF GlobalInv, TypeOK, Entry
<1>6. t \in Stoppers => job'[t].step \in {"retire", "settle", "detach"}
  BY <1>2
<1> QED  BY <1>1, <1>2, <1>3, <1>4, <1>5, <1>6, Leaseless, ChargeKept DEF Making

LEMMA RetireKillStep ==
  ASSUME GlobalInv, QuiesceTypeOK', NEW t \in Jobs, RetireKill(t)
  PROVE  GlobalInv'
<1>1. TypeOK'
  BY RetireKillType, TypeOf DEF GlobalInv
<1>2. /\ job[t].step = "settle" /\ job'[t].step = "detach" /\ job'[t].gen = job[t].gen
      /\ job'[t].lease = job[t].lease /\ Others(t) /\ portFile' = 0
      /\ proc' = Killed(job[t].lease) \/ proc' = Doomed(job[t].lease)
      /\ UNCHANGED <<quiesceVars, stopAll, desired, entry, gate, requests, lastGen>>
  BY GoEffect DEF RetireKill, At, Inside, Others, GlobalInv
<1>3. Permitted' /\ StopLicensed'
  BY <1>2, RetireBooks
<1>4. /\ Closer(t) /\ Closer(t)' /\ ~Replacing(t)' /\ ~Parting(t)' /\ Alone(t)
      /\ job[t].lease \in Gens /\ ~entry.held
      /\ entry' = [entry EXCEPT !.held = entry'.held]
  BY <1>2, RolesLease, SameEntry DEF Closer, Replacing, Parting, Alone, GlobalInv, Taken
<1>5. /\ \A h \in Gens : /\ proc'[h] \in Up => proc[h] \in Up
                         /\ proc[h] = "none" => proc'[h] = "none"
      /\ proc'[job[t].lease] \notin Up
  BY <1>2, <1>4 DEF GlobalInv, TypeOK, Killed, Doomed, Up
<1> QED  BY <1>1, <1>2, <1>3, <1>4, <1>5, Leaseless, ChargeKept DEF Making

LEMMA RetireDetachStep ==
  ASSUME GlobalInv, QuiesceTypeOK', NEW t \in Jobs, RetireDetach(t)
  PROVE  GlobalInv'
<1>1. TypeOK'
  BY RetireDetachType, TypeOf DEF GlobalInv
<1>2. /\ job[t].step = "detach" /\ job'[t].step = (IF t \in Creators THEN "return" ELSE "idle")
      /\ job'[t].gen = 0 /\ job'[t].lease = 0 /\ Others(t)
      /\ entry' = IF entry.gen = job[t].lease THEN NoEntry ELSE entry
      /\ UNCHANGED <<quiesceVars, stopAll, desired, gate, requests, proc, lastGen, portFile>>
  BY DoneEffect DEF RetireDetach, At, Inside, GlobalInv
<1>3. Permitted' /\ StopLicensed'
  BY <1>2, RetireBooks
<1>4. entry' = NoEntry
  BY <1>2, RolesLease DEF Closer
<1> QED  BY <1>1, <1>2, <1>3, <1>4, CreatorJob, EntryLeaves

LEMMA StopRequestStep ==
  ASSUME GlobalInv, QuiesceTypeOK', NEW t \in Stoppers, StopRequest(t)
  PROVE  GlobalInv'
<1> t \in Jobs /\ t \notin Creators
  BY ActorsAssumption DEF Jobs
<1>1. TypeOK'
  BY StopRequestType, TypeOf DEF GlobalInv
<1>2. /\ job[t].step = "idle" /\ desired' = FALSE /\ gate' = Closed(entry.gen)
      /\ UNCHANGED <<quiesceVars, stopAll, entry, requests, proc, lastGen, portFile>>
  BY DEF StopRequest, At, Inside
<1>3. job[t].lease = 0 /\ job[t].gen <= lastGen
  BY <1>2, Leaseless DEF Leasing
<1>4. CASE Accepting(entry)
  <2>1. job'[t].step = "retire" /\ job'[t].gen = entry.gen /\ job'[t].lease = entry.gen /\ Others(t)
    BY <1>4, GoEffect DEF StopRequest, GlobalInv, Others
  <2>2. Permitted' /\ StopLicensed'
    BY <1>2, <2>1, BooksKept
  <2> QED  BY <1>1, <1>2, <1>3, <1>4, <2>1, <2>2, EntryKept, Leaseless, TakeCharge DEF Leasing
<1>5. CASE ~Accepting(entry)
  <2>1. /\ Others(t) /\ job'[t].lease = 0
        /\ \/ job'[t].step = "wait" /\ job'[t].gen = entry.gen
           \/ job'[t].step = "idle" /\ job'[t].gen = job[t].gen
    BY <1>2, <1>3, <1>5, GoEffect DEF StopRequest, GlobalInv, Others
  <2>2. Permitted' /\ StopLicensed'
    BY <1>2, <2>1, BooksKept
  <2>3. UNCHANGED gate /\ (entry.gen # 0 => gate[entry.gen] = "closed")
    BY <1>2, <1>5, EntryKept
  <2> QED  BY <1>1, <1>2, <1>3, <2>1, <2>2, <2>3, Leaseless, QuietJob DEF Leasing, Making
<1> QED  BY <1>4, <1>5

LEMMA JudgeStep ==
  ASSUME GlobalInv, QuiesceTypeOK', Judge
  PROVE  GlobalInv'
<1> DEFINE t == Monitor
<1> t \in Jobs /\ t \notin Stoppers
  BY CreatorJob, ActorsAssumption
<1>1. TypeOK'
  BY JudgeType, TypeOf DEF GlobalInv
<1>2. /\ job[t].step \in {"hit", "miss"} /\ job'[t].step \in {"restart", "idle"}
      /\ job'[t].gen \in {0, job[t].gen} /\ job'[t].lease = 0 /\ Others(t)
      /\ \/ entry' = [entry EXCEPT !.healthy = FALSE]
         \/ entry' = entry
      /\ UNCHANGED <<quiesceVars, stopAll, desired, gate, requests, proc, lastGen, portFile>>
  BY GoEffect DEF Judge, At, Watching, Others, GlobalInv
<1>3. Permitted' /\ StopLicensed'
  BY <1>2, BooksKept
<1>4. /\ entry' = [entry EXCEPT !.healthy = entry'.healthy]
      /\ entry'.healthy \in {entry.healthy, FALSE}
  BY <1>2, SameEntry DEF GlobalInv, TypeOK, Entry
<1>5. entry.gen = 0 => entry' = entry
  <2>1. entry.gen = 0 => entry.healthy = FALSE
    BY DEF GlobalInv, Drawn, NoEntry
  <2>2. entry = [entry EXCEPT !.healthy = entry.healthy]
    BY SameEntry DEF GlobalInv
  <2> QED  BY <1>2, <2>1, <2>2
<1>6. job[t].lease = 0 /\ job[t].gen <= lastGen /\ 0 <= lastGen
  BY <1>2, Leaseless DEF Leasing
<1>7. \A x \in Stops : stopAll'[x] = stopAll[x]
  BY <1>2
<1> QED  BY <1>1, <1>2, <1>3, <1>4, <1>5, <1>6, <1>7, QuietMove DEF Leasing, Making

LEMMA MonitorRestsStep ==
  ASSUME GlobalInv, QuiesceTypeOK', MonitorRests
  PROVE  GlobalInv'
<1>1. TypeOK'
  BY MonitorRestsType, TypeOf DEF GlobalInv
<1>2. UNCHANGED <<quiesceVars, desired, entry, gate, requests, proc, lastGen, portFile, job, stopAll>>
  BY DEF MonitorRests, Watching
<1>3. StopLicensed'
  BY <1>2, LicenceKept DEF quiesceVars
<1> QED  BY <1>1, <1>2, <1>3, ApartStep DEF quiesceVars

LEMMA ExitAllStep ==
  ASSUME GlobalInv, QuiesceTypeOK', NEW x \in Stops, Exit(x)
  PROVE  GlobalInv'
<1>1. TypeOK'
  BY ExitType, TypeOf DEF GlobalInv
<1>2. /\ stopAll[x].step = "ended" /\ stopAll'[x].step = "exited" /\ stopAll'[x].gen = 0
      /\ \A y \in Stops : y # x => stopAll'[y] = stopAll[y]
      /\ UNCHANGED <<quiesceVars, desired, entry, gate, requests, proc, lastGen, portFile, job>>
  BY StopAllEffect DEF Exit, GlobalInv
<1>3. StopLicensed'
  BY <1>2 DEF GlobalInv, StopLicensed, Licensed, quiesceVars
<1> QED  BY <1>1, <1>2, <1>3, ApartStep DEF quiesceVars

LEMMA EndUpdateStep ==
  ASSUME GlobalInv, QuiesceTypeOK', NEW u \in Updaters, EndUpdate(u)
  PROVE  GlobalInv'
<1> u \in Stops  BY DEF Stops
<1>1. TypeOK'
  BY EndUpdateType, TypeOf DEF GlobalInv
<1>2. /\ stopAll[u].step \in {"none", "ended"} /\ stopAll'[u].step = "none" /\ stopAll'[u].gen = 0
      /\ \A y \in Stops : y # u => stopAll'[y] = stopAll[y]
      /\ UNCHANGED <<creator, desired, entry, gate, requests, proc, lastGen, portFile, job>>
      /\ DropUpdateGuard(u)
  BY StopAllEffect DEF EndUpdate, GlobalInv, DropUpdateGuard
<1>3. /\ \A v \in Updaters : v # u /\ updater[v] = "guarding" => updater'[v] = "guarding"
      /\ \A x \in Exiters : exiter[x] = "done" => exiter'[x] = "done"
  BY <1>2 DEF DropUpdateGuard, GlobalInv, TypeOK, QuiesceTypeOK, Woken
<1>4. StopLicensed'
  BY <1>2, <1>3 DEF GlobalInv, StopLicensed, Licensed
<1> QED  BY <1>1, <1>2, <1>4, ApartStep

LEMMA QuiesceAloneStep ==
  ASSUME GlobalInv, QuiesceTypeOK', QuiesceAlone
  PROVE  GlobalInv'
<1>1. TypeOK'
  BY QuiesceAloneType, TypeOf DEF GlobalInv
<1>2. UNCHANGED globalVars /\ UNCHANGED creator
  BY DEF QuiesceAlone, BeginUpdate, RetestUpdate, BeginAppExit, RetestExit, SpuriousWake
<1>3. /\ \A u \in Updaters : updater[u] = "guarding" => updater'[u] = "guarding"
      /\ \A x \in Exiters : exiter[x] = "done" => exiter'[x] = "done"
  BY DEF QuiesceAlone, BeginUpdate, RetestUpdate, BeginAppExit, RetestExit, SpuriousWake,
     GlobalInv, TypeOK, QuiesceTypeOK, Tested
<1>4. StopLicensed'
  BY <1>2, <1>3, LicenceKept DEF globalVars
<1> QED  BY <1>1, <1>2, <1>4, ApartStep DEF globalVars

LEMMA OutsideSteps ==
  ASSUME GlobalInv, QuiesceTypeOK',
         \/ Request \/ Age
         \/ \E g \in Gens : Respond(g) \/ Boot(g) \/ Die(g) \/ Recover(g) \/ Stall(g) \/ Crash(g)
  PROVE  GlobalInv'
<1>1. TypeOK'
  BY RequestType, AgeType, RespondType, BootType, DieType, RecoverType, StallType, CrashType, TypeOf
     DEF GlobalInv
<1>2. UNCHANGED <<quiesceVars, desired, lastGen, portFile, job, stopAll, gate>>
  BY DEF Request, Age, Respond, Boot, Die, Recover, Stall, Crash, Outside
<1>3. CASE Request
  <2>1. /\ entry' = entry /\ UNCHANGED proc
        /\ entry.gen # 0 /\ entry.healthy /\ gate[entry.gen] = "open" /\ entry.gen \in Gens
        /\ requests' = [requests EXCEPT ![entry.gen] = @ + 1]
    BY <1>3, EntryGen DEF Request, Running, Accepting, GlobalInv
  <2>2. \A g \in Gens : requests'[g] > 0 => requests[g] > 0 \/ g = entry.gen
    BY <2>1 DEF GlobalInv, TypeOK
  <2>3. entry' = [entry EXCEPT !.young = entry'.young]
    BY <2>1, SameEntry DEF GlobalInv
  <2> QED  BY <1>1, <1>2, <2>1, <2>2, <2>3, OutsideStep
<1>4. CASE Age
  <2>1. /\ entry.held /\ entry' = [entry EXCEPT !.young = FALSE] /\ UNCHANGED <<requests, proc>>
    BY <1>4 DEF Age
  <2>2. entry' = [entry EXCEPT !.young = entry'.young]
    BY <2>1 DEF GlobalInv, TypeOK, Entry
  <2>3. entry.gen # 0
    BY <2>1 DEF GlobalInv, Drawn, NoEntry
  <2> QED  BY <1>1, <1>2, <2>1, <2>2, <2>3, OutsideStep
<1>5. ASSUME NEW g \in Gens,
             Respond(g) \/ Boot(g) \/ Die(g) \/ Recover(g) \/ Stall(g) \/ Crash(g)
      PROVE  GlobalInv'
  <2>1. entry' = entry /\ entry' = [entry EXCEPT !.young = entry'.young]
    BY <1>5, SameEntry DEF Respond, Boot, Die, Recover, Stall, Crash, GlobalInv
  <2>2. \A h \in Gens : requests'[h] > 0 => requests[h] > 0
    BY <1>5 DEF Respond, Boot, Die, Recover, Stall, Crash, GlobalInv, TypeOK
  <2>3. \A h \in Gens : /\ proc'[h] \in Up => proc[h] \in Up
                        /\ proc[h] = "none" => proc'[h] = "none"
    BY <1>5 DEF Respond, Boot, Die, Recover, Stall, Crash, Becomes, Up, GlobalInv, TypeOK
  <2> QED  BY <1>1, <1>2, <2>1, <2>2, <2>3, OutsideStep
<1> QED  BY <1>3, <1>4, <1>5

(***************************************************************************)
(* The theorems.                                                           *)
(***************************************************************************)

LEMMA InitGlobalInv == Init => GlobalInv
<1> SUFFICES ASSUME Init PROVE GlobalInv
  OBVIOUS
<1> USE DEF Init
<1>1. \A t \in Jobs : job[t].step = "idle" /\ job[t].gen = 0 /\ job[t].lease = 0
  BY DEF Idle
<1>2. /\ entry.gen = 0 /\ ~entry.held /\ ~entry.healthy
      /\ \A x \in Stops : stopAll[x].step = "none" /\ stopAll[x].gen = 0
  BY DEF NoEntry
<1>3. TypeOK
  <2>1. QuiesceTypeOK
    BY InitIInv DEF IInv
  <2>2. job \in [Jobs -> JobType]
    BY Zero DEF Idle, JobType, JobStep
  <2>3. RestOK
    BY Zero DEF RestOK, ProcState, StopStep
  <2> QED  BY <2>1, <2>2, <2>3, TypeParts
<1>4. \A t \in Jobs : ~Closer(t) /\ ~Alone(t) /\ ~Bearing(t) /\ ~Replacing(t) /\ ~Parting(t)
  BY <1>1 DEF Closer, Alone, Bearing, Replacing, Parting
<1>5. Permitted /\ StopLicensed /\ OneMaker /\ Anchored
  BY <1>1, <1>2, CreatorJob DEF Permitted, StopLicensed, OneMaker, Anchored, Making
<1>6. Shapes
  BY <1>1 DEF Shapes, Leasing, Making
<1>7. Drawn /\ Gated
  BY <1>1, <1>2 DEF Drawn, Gated
<1>8. OneCloser /\ DrainedAlone /\ Taken /\ Unpublished /\ Unborn
  BY <1>1, <1>4 DEF OneCloser, DrainedAlone, Taken, Unpublished, Unborn
<1>9. StopAllAlone /\ InCharge /\ PortFileFresh
  BY <1>2 DEF StopAllAlone, InCharge, PortFileFresh
<1>10. NoOrphan
  BY DEF NoOrphan, Up
<1> QED  BY <1>3, <1>5, <1>6, <1>7, <1>8, <1>9, <1>10 DEF GlobalInv

LEMMA NextGlobalInv ==
  ASSUME GlobalInv, QuiescedMeansNoBirth, QuiesceTypeOK', [Next]_vars
  PROVE  GlobalInv'
<1>1. CASE UNCHANGED vars
  <2>1. TypeOK'
    BY <1>1 DEF GlobalInv, TypeOK, QuiesceTypeOK, vars, globalVars, quiesceVars
  <2>2. StopLicensed'
    BY <1>1, LicenceKept DEF vars, globalVars, quiesceVars
  <2> QED  BY <1>1, <2>1, <2>2, ApartStep DEF vars, globalVars, quiesceVars
<1>2. CASE \E t \in Starters : StartRequest(t)
  BY <1>2, StartRequestStep
<1>3. CASE \E t \in Creators : Select(t) \/ HealthFails(t) \/ PreambleFails(t) \/ SetupFails(t)
                               \/ SpawnFails(t)
  BY <1>3, SelectStep, HealthFailsStep, PreambleFailsStep, SetupFailsStep, SpawnFailsStep
<1>4. CASE \E t \in Creators : Create(t)
  <2> PICK t \in Creators : Create(t)
    BY <1>4
  <2>1. Spawn(t) \/ Discard(t) => TypeOK'
    BY SpawnType, DiscardType, TypeOf DEF GlobalInv
  <2> QED
    BY <2>1, DrainOldStep, ReserveReplacementStep, ReserveBirthStep, KillOldStep, CandidateStep,
       InstallBirthStep, InstallReplacementStep, DiscardStep, ReleaseLeaseStep, HealthOkStep,
       MarkHealthyStep, ReturnStep, AdmitPublishStep, WritePortStep DEF Create
<1>5. CASE \E t \in Jobs : Retire(t)
  BY <1>5, RetireDrainedStep, RetireKillStep, RetireDetachStep DEF Retire
<1>6. CASE \E t \in Stoppers : StopRequest(t) \/ StopWaited(t)
  BY <1>6, StopRequestStep, StopWaitedStep
<1>7. CASE MonitorRests \/ Watch
  BY <1>7, MonitorRestsStep, MonitorFindsDeadStep, MonitorFindsAliveStep, ProbeStep, JudgeStep,
     MonitorRestartStep DEF Watch
<1>8. CASE \E x \in Stops : StopAllPrepare(x) \/ StopAllTake(x) \/ StopAllDrop(x) \/ Exit(x)
  <2> PICK x \in Stops : StopAllPrepare(x) \/ StopAllTake(x) \/ StopAllDrop(x) \/ Exit(x)
    BY <1>8
  <2>1. StopAllPrepare(x) \/ StopAllTake(x) \/ StopAllDrop(x) => TypeOK'
    BY StopAllPrepareType, StopAllTakeType, StopAllDropType, TypeOf DEF GlobalInv
  <2> QED  BY <2>1, PrepareStep, TakeStep, DropStep, ExitAllStep
<1>9. CASE \E u \in Updaters : EndUpdate(u)
  BY <1>9, EndUpdateStep
<1>10. CASE QuiesceAlone
  BY <1>10, QuiesceAloneStep
<1>11. CASE \/ Request \/ Age
            \/ \E g \in Gens : Respond(g) \/ Boot(g) \/ Die(g) \/ Recover(g) \/ Stall(g) \/ Crash(g)
  BY <1>11, OutsideSteps
<1> QED
  BY <1>1, <1>2, <1>3, <1>4, <1>5, <1>6, <1>7, <1>8, <1>9, <1>10, <1>11 DEF Next

(* The whole implements the birth gate alone: creators, updaters and exit  *)
(* paths of the Global Sidecar use LifecycleQuiesceState only through its  *)
(* operations.                                                             *)
THEOREM GateKept == Spec => QuiesceSpec
<1>1. Init => QuiesceInit
  BY DEF Init
<1>2. [Next]_vars => [QuiesceNext]_quiesceVars
  BY PreservesQuiesce DEF vars
<1> QED  BY <1>1, <1>2, PTL DEF Spec, QuiesceSpec

(* Nobody creates a Global Sidecar while an update guard is out or once    *)
(* the exit is through (LifecycleQuiesceState of shutdown.rs).             *)
THEOREM SpecNoBirth == Spec => []QuiescedMeansNoBirth
BY GateKept, NoBirth, PTL

(* Whoever has a lease of the entry's generation works on that entry; its  *)
(* closer is one and, past its wait, alone.                                *)
THEOREM Inductive == Spec => []GlobalInv
<1>1. GlobalInv /\ QuiescedMeansNoBirth /\ QuiesceTypeOK' /\ [Next]_vars => GlobalInv'
  BY NextGlobalInv
<1> QED  BY InitGlobalInv, <1>1, GateKept, NoBirth, QuiesceTypeCorrect, PTL DEF Spec

(* The declarations of the manager's fields and of the threads' states. *)
THEOREM TypeCorrect == Spec => []TypeOK
<1>1. GlobalInv => TypeOK
  BY DEF GlobalInv
<1> QED  BY <1>1, Inductive, PTL

(* The port file names the generation of the entry, whoever replaces,      *)
(* retires or publishes it (write_global_sidecar_port_file).               *)
THEOREM PortFile == Spec => []PortFileFresh
<1>1. GlobalInv => PortFileFresh
  BY DEF GlobalInv
<1> QED  BY <1>1, Inductive, PTL

(* Whoever has the process of the entry in hand.                           *)
LEMMA HandsOn ==
  ASSUME GlobalInv, NEW g \in Gens, proc[g] \in Up, ~GivenUp(g)
  PROVE  \/ entry.gen = g /\ entry.held
         \/ /\ entry.gen # 0 /\ ~entry.held
            /\ \E t \in Jobs : /\ Bearing(t) \/ Alone(t)
                               /\ job[t].lease = entry.gen
                               /\ \/ job[t].step = "install" /\ job[t].gen = g
                                  \/ job[t].step \in {"kill", "settle"} /\ entry.gen = g
         \/ entry = NoEntry /\ \E x \in Stops : stopAll[x].step = "drop" /\ stopAll[x].gen = g
<1>1. ASSUME NEW t \in Jobs, job[t].step = "install" \/ job[t].step \in {"kill", "settle"}
      PROVE  /\ Bearing(t) \/ Alone(t)
             /\ job[t].lease = entry.gen /\ entry.gen # 0 /\ ~entry.held
  <2>1. Bearing(t) \/ Alone(t)
    BY <1>1 DEF Bearing, Alone, Replacing
  <2>2. job[t].lease = entry.gen /\ entry.gen # 0
    BY <2>1, RolesLease DEF Gens
  <2> QED  BY <1>1, <2>1, <2>2 DEF GlobalInv, Taken, Bearing, Replacing
<1>2. ASSUME NEW t \in Jobs, At(t, "discard"), job[t].gen = g PROVE FALSE
  <2>1. t \in Creators
    BY <1>2 DEF GlobalInv, Shapes, Jobs, At
  <2> QED  BY <1>2, <2>1 DEF GivenUp
<1>3. CASE entry.gen = g /\ entry.held
  BY <1>3
<1>4. CASE \E t \in Jobs : job[t].step = "install" /\ job[t].gen = g
  BY <1>1, <1>4
<1>5. CASE \E t \in Jobs : job[t].step \in {"kill", "settle"} /\ job[t].lease = g
  BY <1>1, <1>5
<1>6. CASE \E x \in Stops : stopAll[x].step = "drop" /\ stopAll[x].gen = g
  BY <1>6 DEF GlobalInv, StopAllAlone
<1> QED  BY <1>2, <1>3, <1>4, <1>5, <1>6 DEF GlobalInv, NoOrphan, InHand, At

LEMMA OneOfTwo ==
  ASSUME GlobalInv, NEW g \in Gens, NEW h \in Gens, proc[g] \in Up, proc[h] \in Up,
         ~GivenUp(g), ~GivenUp(h)
  PROVE  g = h
<1>1. NoEntry.gen = 0 /\ g # 0 /\ h # 0
  BY DEF NoEntry, Gens
<1>2. CASE entry.gen # 0 /\ entry.held
  BY <1>1, <1>2, HandsOn
<1>3. CASE entry.gen # 0 /\ ~entry.held
  <2>1. PICK t \in Jobs : /\ Bearing(t) \/ Alone(t)
                          /\ job[t].lease = entry.gen
                          /\ \/ job[t].step = "install" /\ job[t].gen = g
                             \/ job[t].step \in {"kill", "settle"} /\ entry.gen = g
    BY <1>1, <1>3, HandsOn
  <2>2. PICK u \in Jobs : /\ Bearing(u) \/ Alone(u)
                          /\ job[u].lease = entry.gen
                          /\ \/ job[u].step = "install" /\ job[u].gen = h
                             \/ job[u].step \in {"kill", "settle"} /\ entry.gen = h
    BY <1>1, <1>3, HandsOn
  <2>3. CASE Alone(t) \/ Alone(u)
    <3>1. t = u
      BY <2>1, <2>2, <2>3 DEF GlobalInv, DrainedAlone
    <3> QED  BY <2>1, <2>2, <3>1
  <2>4. CASE Bearing(t) /\ Bearing(u)
    BY <2>1, <2>2, <2>4 DEF Bearing
  <2> QED  BY <2>1, <2>2, <2>3, <2>4
<1>4. CASE entry.gen = 0
  <2>1. PICK x \in Stops : stopAll[x].step = "drop" /\ stopAll[x].gen = g
    BY <1>1, <1>4, HandsOn
  <2>2. PICK y \in Stops : stopAll[y].step = "drop" /\ stopAll[y].gen = h
    BY <1>1, <1>4, HandsOn
  <2> QED  BY <1>1, <2>1, <2>2 DEF GlobalInv, StopAllAlone
<1> QED  BY <1>2, <1>3, <1>4 DEF GlobalInv, TypeOK, Entry

(* At most one process of the Global Sidecar runs that nobody has given    *)
(* up: create_global_sidecar replaces it, never adds one.                  *)
THEOREM Singleton == Spec => []OneGlobal
<1>1. GlobalInv => OneGlobal
  BY OneOfTwo DEF OneGlobal
<1> QED  BY <1>1, Inductive, PTL

LEMMA Settled == GlobalInv /\ ~desired /\ Quiet =>
  /\ entry = NoEntry /\ portFile = 0
  /\ \A g \in Gens : proc[g] \notin Up
<1> SUFFICES ASSUME GlobalInv, ~desired, Quiet
             PROVE  /\ entry = NoEntry /\ portFile = 0
                    /\ \A g \in Gens : proc[g] \notin Up
  OBVIOUS
<1>1. /\ \A t \in Jobs : job[t].step = "idle" /\ ~Closer(t)
      /\ \A x \in Stops : stopAll[x].step \notin {"drain", "drop"}
  BY DEF Quiet, At, Closer, Replacing, Parting
<1>2. entry.gen = 0
  BY <1>1 DEF GlobalInv, InCharge
<1>3. entry = NoEntry /\ portFile = 0
  BY <1>1, <1>2 DEF GlobalInv, Drawn, PortFileFresh
<1>4. \A g \in Gens : ~InHand(g) /\ g # entry.gen
  BY <1>1, <1>2 DEF InHand, At, Gens
<1> QED  BY <1>3, <1>4 DEF GlobalInv, NoOrphan

LEMMA SettledAtExit ==
  ASSUME GlobalInv, QuiescedMeansNoBirth, NEW x \in Exiters, stopAll[x].step = "exited"
  PROVE  /\ entry = NoEntry
         /\ \A g \in Gens : proc[g] \in Up =>
              \E y \in Stops : stopAll[y].step = "drop" /\ stopAll[y].gen = g
<1> x \in Stops  BY DEF Stops
<1>1. entry = NoEntry /\ entry.gen = 0
  BY DEF GlobalInv, StopAllAlone, NoEntry
<1>2. \A t \in Jobs : job[t].step # "discard"
  <2>1. \A t \in Creators : job[t].step \notin Calling
    BY NoStops
  <2> QED  BY <2>1 DEF GlobalInv, Shapes, Jobs, Calling
<1>3. \A g \in Gens : ~GivenUp(g) /\ g # 0
  BY <1>2, CreatorJob DEF GivenUp, At, Gens
<1> QED  BY <1>1, <1>3, HandsOn

(* When the wish has ended and every call has returned, no entry, process  *)
(* and port file is left (stop_global_sidecar); and when the application   *)
(* exits, none but what another stop has in hand (stop_all_sidecars).      *)
THEOREM Stopped == Spec => []StopSettles
<1>1. GlobalInv /\ QuiescedMeansNoBirth => StopSettles
  BY Settled, SettledAtExit DEF StopSettles
<1> QED  BY <1>1, Inductive, SpecNoBirth, PTL

(* The flag that the Global Sidecar's monitor reads is set as long as an   *)
(* update or the exit waits for the gate or holds it.                      *)
THEOREM FlagKept == Spec => []FlagCoversShutdown
BY GateKept, FlagCovers, PTL

(* Nothing the Global Sidecar does reopens the gate once the application   *)
(* exits.                                                                  *)
THEOREM ExitKept == Spec => ExitIsTerminal
BY GateKept, ExitTerminal, PTL

(***************************************************************************)
(* The refinement: the Global Sidecar implements DispatchGate.             *)
(***************************************************************************)

(* What the gates see: who publishes, and whom the manager told to stop.   *)
Writers(g) == {t \in Jobs : At(t, "write") /\ job[t].gen = g}
Dead == {"doomed", "killed"}
Exists == {g \in Gens : gate[g] # "none"}
Admits == {g \in Gens : gate[g] = "open"}
Load(g) == requests[g] + Cardinality(Writers(g))
Ended == {g \in Gens : proc[g] \in Dead}

(* What the refinement needs beyond GlobalInv: a process nobody has        *)
(* started is none that was stopped, and a birth that was given up has     *)
(* nobody to answer.                                                       *)
Fresh == \A t \in Jobs : job[t].step \in {"kill", "spawn"} => proc[job[t].gen] = "none"
Spent ==
  \A t \in Jobs : job[t].step = "discard" /\ job[t].gen = job[t].lease =>
    requests[job[t].gen] = 0 /\ Writers(job[t].gen) = {}
GateInv == Fresh /\ Spent

GateStep == [Gate!Next]_Gate!gateVars

LEMMA GateNexts ==
  /\ \A g \in Gens : Gate!Open(g) \/ Gate!Acquire(g) \/ Gate!Drop(g) => GateStep
  /\ \A S \in SUBSET Gens : Gate!Close(S) \/ Gate!Terminate(S) => GateStep
  BY DEF GateStep, Gate!Next

LEMMA GateVars ==
  ASSUME Exists' = Exists, Admits' = Admits, Ended' = Ended,
         \A g \in Gens : Load(g)' = Load(g)
  PROVE  GateStep
BY DEF GateStep, Gate!gateVars, Exists, Admits, Ended, Load, Writers, Dead

(* Nobody begins or ends a publication. *)
Mute(t) == Others(t) /\ job[t].step # "write" /\ job'[t].step # "write"

LEMMA MuteWriters ==
  ASSUME NEW t \in Jobs, Mute(t) PROVE \A g : Writers(g)' = Writers(g)
BY DEF Mute, Others, Writers, At

(* A step that closes a gate at most. *)
LEMMA ClosingGate ==
  ASSUME TypeOK, \A g : Writers(g)' = Writers(g), UNCHANGED <<requests, proc>>,
         NEW g \in GenOrNone, gate' = Closed(g), g # 0 => gate[g] # "none"
  PROVE  GateStep
<1>1. CASE g = 0
  <2>1. gate' = gate
    BY <1>1 DEF Closed
  <2> QED  BY <2>1, GateVars DEF Exists, Admits, Ended, Load
<1>2. CASE g # 0
  <2>1. g \in Gens
    BY <1>2 DEF GenOrNone, Gens
  <2>2. gate'[g] = "closed" /\ \A h \in Gens : h # g => gate'[h] = gate[h]
    BY <2>1, ClosedEffect
  <2>3. Exists' = Exists /\ Admits' = Admits \ {g} /\ Ended' = Ended
    BY <1>2, <2>1, <2>2 DEF Exists, Admits, Ended
  <2>4. \A h \in Gens : Load(h)' = Load(h)
    BY DEF Load
  <2>5. Gate!Close({g})
    BY <2>3, <2>4 DEF Gate!Close, Exists, Admits, Ended, Load, Writers, Dead
  <2> QED  BY <2>1, <2>5, GateNexts
<1> QED  BY <1>1, <1>2

(* A step that opens the gate of a new generation. *)
LEMMA OpeningGate ==
  ASSUME TypeOK, \A g : Writers(g)' = Writers(g), UNCHANGED <<requests, proc>>,
         NEW n \in Gens, gate[n] = "none", gate' = [gate EXCEPT ![n] = "open"]
  PROVE  GateStep
<1>1. gate'[n] = "open" /\ \A h \in Gens : h # n => gate'[h] = gate[h]
  BY DEF TypeOK
<1>2. n \notin Exists /\ Exists' = Exists \cup {n} /\ Admits' = Admits \cup {n} /\ Ended' = Ended
  BY <1>1 DEF Exists, Admits, Ended
<1>3. \A h \in Gens : Load(h)' = Load(h)
  BY DEF Load
<1>4. Gate!Open(n)
  BY <1>2, <1>3 DEF Gate!Open, Exists, Admits, Ended, Load, Writers, Dead
<1> QED  BY <1>4, GateNexts

(* A step that tells a process to stop, or does nothing to a gate.         *)
LEMMA StoppingGate ==
  ASSUME TypeOK, \A g : Writers(g)' = Writers(g), UNCHANGED <<requests, gate>>,
         NEW k, k \in Gens => gate[k] # "open" /\ requests[k] = 0 /\ Writers(k) = {},
         \A g \in Gens : \/ proc'[g] \in Dead <=> proc[g] \in Dead
                         \/ g = k /\ proc'[g] \in Dead
  PROVE  GateStep
<1> SUFFICES ASSUME NEW S, S = {g \in Gens : proc'[g] \in Dead /\ proc[g] \notin Dead}
             PROVE  GateStep
  OBVIOUS
<1>1. \A g \in S : g = k
  OBVIOUS
<1>2. Exists' = Exists /\ Admits' = Admits /\ Ended' = Ended \cup S
  BY DEF Exists, Admits, Ended
<1>3. \A g \in Gens : Load(g)' = Load(g)
  BY DEF Load
<1>4. S \cap Admits = {}
  BY <1>1 DEF Admits
<1>5. \A g \in S : Load(g) = 0
  <2> SUFFICES ASSUME NEW g \in S PROVE Load(g) = 0
    OBVIOUS
  <2>1. requests[g] = 0 /\ Writers(g) = {}
    BY <1>1
  <2> QED  BY <2>1, FS_EmptySet DEF Load
<1>6. Gate!Terminate(S)
  <2>1. /\ S \cap Admits = {} /\ \A g \in S : g \in Gens /\ Load(g) = 0
        /\ Ended' = Ended \cup S /\ Exists' = Exists /\ Admits' = Admits
    BY <1>2, <1>4, <1>5
  <2>2. PICK loads : loads = [g \in Gens |-> Load(g)]
    OBVIOUS
  <2>3. loads = [g \in Gens |-> Load(g)]' /\ \A g \in S : loads[g] = 0
    BY <1>3, <2>1, <2>2
  <2> QED  BY <2>1, <2>2, <2>3 DEF Gate!Terminate, Exists, Admits, Ended, Load, Writers, Dead
<1>7. S \in SUBSET Gens
  OBVIOUS
<1> QED  BY <1>6, <1>7, GateNexts

LEMMA WritersFinite == \A g : IsFiniteSet(Writers(g)) /\ Cardinality(Writers(g)) \in Nat
<1>1. IsFiniteSet(Jobs)
  BY CreatorsAssumption, ActorsAssumption, FS_Union DEF Jobs
<1> QED  BY <1>1, FS_Subset, FS_CardinalityType DEF Writers

(* One more, or one less, is admitted by g. *)
LEMMA AdmittingGate ==
  ASSUME UNCHANGED <<gate, proc>>, NEW g \in Gens, gate[g] = "open",
         Load(g)' = Load(g) + 1,
         \A h \in Gens : h # g => Load(h)' = Load(h)
  PROVE  GateStep
<1>1. g \in Admits /\ Exists' = Exists /\ Admits' = Admits /\ Ended' = Ended
  BY DEF Exists, Admits, Ended
<1>2. Gate!Acquire(g)
  BY <1>1 DEF Gate!Acquire, Exists, Admits, Ended, Load, Writers, Dead
<1> QED  BY <1>2, GateNexts

LEMMA AnsweringGate ==
  ASSUME UNCHANGED <<gate, proc>>, NEW g \in Gens, Load(g) > 0,
         Load(g)' = Load(g) - 1,
         \A h \in Gens : h # g => Load(h)' = Load(h)
  PROVE  GateStep
<1>1. Exists' = Exists /\ Admits' = Admits /\ Ended' = Ended
  BY DEF Exists, Admits, Ended
<1>2. Gate!Drop(g)
  BY <1>1 DEF Gate!Drop, Exists, Admits, Ended, Load, Writers, Dead
<1> QED  BY <1>2, GateNexts

LEMMA ClosedNone == ASSUME TypeOK PROVE Closed(0) = gate
BY DEF Closed

(* What is closed admits nobody new, so what was given up stays spent.     *)
LEMMA SpentKept ==
  ASSUME GlobalInv, GateInv,
         \A g \in Gens : gate[g] = "closed" =>
            (requests[g] = 0 => requests'[g] = 0) /\ Writers(g)' \subseteq Writers(g),
         \A u \in Jobs : job'[u].step = "discard" =>
            job[u].step = "discard" /\ job'[u].gen = job[u].gen /\ job'[u].lease = job[u].lease
  PROVE  Spent'
<1> SUFFICES ASSUME NEW u \in Jobs, (job[u].step = "discard" /\ job[u].gen = job[u].lease)'
             PROVE  (requests[job[u].gen] = 0 /\ Writers(job[u].gen) = {})'
  BY DEF Spent
<1>1. job[u].step = "discard" /\ job'[u].gen = job[u].gen /\ job[u].lease = job[u].gen
  OBVIOUS
<1> DEFINE n == job[u].gen
<1>2. n \in Gens /\ gate[n] = "closed"
  <2>1. job[u].lease # 0 /\ job[u].lease \in GenOrNone
    BY <1>1, JobFields DEF GlobalInv, Shapes, Leasing
  <2> QED  BY <1>1, <2>1 DEF GlobalInv, OneCloser, GenOrNone, Gens
<1>3. requests[n] = 0 /\ Writers(n) = {}
  BY <1>1 DEF GateInv, Spent
<1>4. PICK m : m = n
  OBVIOUS
<1>5. requests'[m] = 0 /\ Writers(m)' = {}
  BY <1>2, <1>3, <1>4
<1> QED  BY <1>1, <1>4, <1>5 DEF Writers

LEMMA FreshKept ==
  ASSUME GateInv,
         \A u \in Jobs : job'[u].step \in {"kill", "spawn"} =>
            \/ job'[u] = job[u] /\ (proc[job[u].gen] = "none" => proc'[job[u].gen] = "none")
            \/ proc'[job'[u].gen] = "none"
  PROVE  Fresh'
BY DEF GateInv, Fresh

Steady == {"kill", "spawn", "discard", "write"}

(* A thread works at its call and closes a gate at most. *)
LEMMA ClosingStep ==
  ASSUME GlobalInv, GateInv, NEW t \in Jobs, Others(t),
         job[t].step # "write", job'[t].step \notin Steady,
         UNCHANGED <<requests, proc>>,
         NEW g \in GenOrNone, gate' = Closed(g), g # 0 => gate[g] # "none"
  PROVE  GateStep /\ GateInv'
<1>1. \A h : Writers(h)' = Writers(h)
  BY MuteWriters DEF Mute, Steady
<1>2. GateStep
  BY <1>1, ClosingGate DEF GlobalInv
<1>3. Spent'
  BY <1>1, SpentKept DEF Others, Steady
<1>4. Fresh'
  BY FreshKept DEF Others, Steady
<1> QED  BY <1>2, <1>3, <1>4 DEF GateInv

LEMMA QuietStep ==
  ASSUME GlobalInv, GateInv, NEW t \in Jobs, Others(t),
         job[t].step # "write", job'[t].step \notin Steady,
         UNCHANGED <<requests, proc, gate>>
  PROVE  GateStep /\ GateInv'
<1>1. gate' = Closed(0) /\ 0 \in GenOrNone
  BY ClosedNone, Zero DEF GlobalInv
<1> QED  BY <1>1, ClosingStep

(* No thread of a start or a stop moves. *)
LEMMA RestStep ==
  ASSUME GlobalInv, GateInv, UNCHANGED <<job, requests, proc>>,
         NEW g \in GenOrNone, gate' = Closed(g), g # 0 => gate[g] # "none"
  PROVE  GateStep /\ GateInv'
<1>1. \A h : Writers(h)' = Writers(h)
  BY DEF Writers, At
<1>2. GateStep
  BY <1>1, ClosingGate DEF GlobalInv
<1>3. Spent'
  BY <1>1, SpentKept
<1>4. Fresh'
  BY FreshKept
<1> QED  BY <1>2, <1>3, <1>4 DEF GateInv

(* What happens to a process that nobody waits for. *)
LEMMA ProcessStep ==
  ASSUME GlobalInv, GateInv, UNCHANGED <<job, requests, gate>>,
         NEW g \in Gens, NEW s, s # "none", NEW d, d # "none", d \in Dead <=> s \in Dead,
         proc[g] = s, proc' = [proc EXCEPT ![g] = d]
  PROVE  GateStep /\ GateInv'
<1>1. \A h : Writers(h)' = Writers(h)
  BY DEF Writers, At
<1>2. proc'[g] = d /\ \A h \in Gens : h # g => proc'[h] = proc[h]
  BY DEF GlobalInv, TypeOK
<1>3. GateStep
  BY <1>1, <1>2, GateVars DEF Exists, Admits, Ended, Load
<1>4. Spent'
  BY <1>1, SpentKept
<1>5. Fresh'
  <2>1. \A u \in Jobs : proc[job[u].gen] = "none" => proc'[job[u].gen] = "none"
    BY <1>2 DEF GlobalInv, TypeOK
  <2> QED  BY <2>1, FreshKept
<1> QED  BY <1>3, <1>4, <1>5 DEF GateInv

LEMMA EntryGate ==
  ASSUME GlobalInv
  PROVE  entry.gen \in GenOrNone /\ (entry.gen # 0 => gate[entry.gen] # "none")
BY EntryFields DEF GlobalInv, Gated

LEMMA StartRequestGate == ASSUME GlobalInv, GateInv, NEW t \in Creators, StartRequest(t) PROVE GateStep /\ GateInv'
<1>1. t \in Jobs
  BY MonitorJob DEF Jobs
<1>2. Others(t) /\ job[t].step # "write" /\ job'[t].step \notin Steady
  BY <1>1, GoEffect, ResultEffect, DoneEffect DEF StartRequest, At, Others, Steady, GlobalInv
<1>3. UNCHANGED <<requests, proc, gate>>
  BY DEF StartRequest
<1> QED  BY <1>1, <1>2, <1>3, QuietStep

LEMMA MonitorRestartGate == ASSUME GlobalInv, GateInv, MonitorRestart PROVE GateStep /\ GateInv'
<1>1. Monitor \in Jobs
  BY MonitorJob DEF Jobs
<1>2. Others(Monitor) /\ job[Monitor].step # "write" /\ job'[Monitor].step \notin Steady
  BY <1>1, GoEffect, ResultEffect, DoneEffect DEF MonitorRestart, At, Others, Steady, GlobalInv
<1>3. UNCHANGED <<requests, proc, gate>>
  BY DEF MonitorRestart
<1> QED  BY <1>1, <1>2, <1>3, QuietStep

LEMMA PreambleFailsGate == ASSUME GlobalInv, GateInv, NEW t \in Creators, PreambleFails(t) PROVE GateStep /\ GateInv'
<1>1. t \in Jobs
  BY MonitorJob DEF Jobs
<1>2. Others(t) /\ job[t].step # "write" /\ job'[t].step \notin Steady
  BY <1>1, GoEffect, ResultEffect, DoneEffect DEF PreambleFails, At, Others, Steady, GlobalInv
<1>3. UNCHANGED <<requests, proc, gate>>
  BY DEF PreambleFails
<1> QED  BY <1>1, <1>2, <1>3, QuietStep

LEMMA DrainOldGate == ASSUME GlobalInv, GateInv, NEW t \in Creators, DrainOld(t) PROVE GateStep /\ GateInv'
<1>1. t \in Jobs
  BY MonitorJob DEF Jobs
<1>2. Others(t) /\ job[t].step # "write" /\ job'[t].step \notin Steady
  BY <1>1, GoEffect, ResultEffect, DoneEffect DEF DrainOld, At, Others, Steady, GlobalInv
<1>3. UNCHANGED <<requests, proc, gate>>
  BY DEF DrainOld
<1> QED  BY <1>1, <1>2, <1>3, QuietStep

LEMMA SetupFailsGate == ASSUME GlobalInv, GateInv, NEW t \in Creators, SetupFails(t) PROVE GateStep /\ GateInv'
<1>1. t \in Jobs
  BY MonitorJob DEF Jobs
<1>2. Others(t) /\ job[t].step # "write" /\ job'[t].step \notin Steady
  BY <1>1, GoEffect, ResultEffect, DoneEffect DEF SetupFails, At, Others, Steady, GlobalInv
<1>3. UNCHANGED <<requests, proc, gate>>
  BY DEF SetupFails
<1> QED  BY <1>1, <1>2, <1>3, QuietStep

LEMMA ReleaseLeaseGate == ASSUME GlobalInv, GateInv, NEW t \in Creators, ReleaseLease(t) PROVE GateStep /\ GateInv'
<1>1. t \in Jobs
  BY MonitorJob DEF Jobs
<1>2. Others(t) /\ job[t].step # "write" /\ job'[t].step \notin Steady
  BY <1>1, GoEffect, ResultEffect, DoneEffect DEF ReleaseLease, At, Others, Steady, GlobalInv
<1>3. UNCHANGED <<requests, proc, gate>>
  BY DEF ReleaseLease
<1> QED  BY <1>1, <1>2, <1>3, QuietStep

LEMMA HealthOkGate == ASSUME GlobalInv, GateInv, NEW t \in Creators, HealthOk(t) PROVE GateStep /\ GateInv'
<1>1. t \in Jobs
  BY MonitorJob DEF Jobs
<1>2. Others(t) /\ job[t].step # "write" /\ job'[t].step \notin Steady
  BY <1>1, GoEffect, ResultEffect, DoneEffect DEF HealthOk, At, Others, Steady, GlobalInv
<1>3. UNCHANGED <<requests, proc, gate>>
  BY DEF HealthOk
<1> QED  BY <1>1, <1>2, <1>3, QuietStep

LEMMA ReturnGate == ASSUME GlobalInv, GateInv, NEW t \in Creators, Return(t) PROVE GateStep /\ GateInv'
<1>1. t \in Jobs
  BY MonitorJob DEF Jobs
<1>2. Others(t) /\ job[t].step # "write" /\ job'[t].step \notin Steady
  BY <1>1, GoEffect, ResultEffect, DoneEffect DEF Return, At, Others, Steady, GlobalInv
<1>3. UNCHANGED <<requests, proc, gate>>
  BY DEF Return
<1> QED  BY <1>1, <1>2, <1>3, QuietStep

LEMMA RetireDrainedGate == ASSUME GlobalInv, GateInv, NEW t \in Jobs, RetireDrained(t) PROVE GateStep /\ GateInv'
<1>1. t \in Jobs
  BY MonitorJob DEF Jobs
<1>2. Others(t) /\ job[t].step # "write" /\ job'[t].step \notin Steady
  BY <1>1, GoEffect, ResultEffect, DoneEffect DEF RetireDrained, At, Others, Steady, GlobalInv
<1>3. UNCHANGED <<requests, proc, gate>>
  BY DEF RetireDrained
<1> QED  BY <1>1, <1>2, <1>3, QuietStep

LEMMA RetireDetachGate == ASSUME GlobalInv, GateInv, NEW t \in Jobs, RetireDetach(t) PROVE GateStep /\ GateInv'
<1>1. t \in Jobs
  BY MonitorJob DEF Jobs
<1>2. Others(t) /\ job[t].step # "write" /\ job'[t].step \notin Steady
  BY <1>1, GoEffect, ResultEffect, DoneEffect DEF RetireDetach, At, Others, Steady, GlobalInv
<1>3. UNCHANGED <<requests, proc, gate>>
  BY DEF RetireDetach
<1> QED  BY <1>1, <1>2, <1>3, QuietStep

LEMMA StopWaitedGate == ASSUME GlobalInv, GateInv, NEW t \in Stoppers, StopWaited(t) PROVE GateStep /\ GateInv'
<1>1. t \in Jobs
  BY MonitorJob DEF Jobs
<1>2. Others(t) /\ job[t].step # "write" /\ job'[t].step \notin Steady
  BY <1>1, GoEffect, ResultEffect, DoneEffect DEF StopWaited, At, Others, Steady, GlobalInv
<1>3. UNCHANGED <<requests, proc, gate>>
  BY DEF StopWaited
<1> QED  BY <1>1, <1>2, <1>3, QuietStep

LEMMA MonitorFindsDeadGate == ASSUME GlobalInv, GateInv, MonitorFindsDead PROVE GateStep /\ GateInv'
<1>1. Monitor \in Jobs
  BY MonitorJob DEF Jobs
<1>2. Others(Monitor) /\ job[Monitor].step # "write" /\ job'[Monitor].step \notin Steady
  BY <1>1, GoEffect, ResultEffect, DoneEffect DEF MonitorFindsDead, At, Others, Steady, GlobalInv
<1>3. UNCHANGED <<requests, proc, gate>>
  BY DEF MonitorFindsDead, Watching
<1> QED  BY <1>1, <1>2, <1>3, QuietStep

LEMMA MonitorFindsAliveGate == ASSUME GlobalInv, GateInv, MonitorFindsAlive PROVE GateStep /\ GateInv'
<1>1. Monitor \in Jobs
  BY MonitorJob DEF Jobs
<1>2. Others(Monitor) /\ job[Monitor].step # "write" /\ job'[Monitor].step \notin Steady
  BY <1>1, GoEffect, ResultEffect, DoneEffect DEF MonitorFindsAlive, At, Others, Steady, GlobalInv
<1>3. UNCHANGED <<requests, proc, gate>>
  BY DEF MonitorFindsAlive, Watching
<1> QED  BY <1>1, <1>2, <1>3, QuietStep

LEMMA ProbeGate == ASSUME GlobalInv, GateInv, Probe PROVE GateStep /\ GateInv'
<1>1. Monitor \in Jobs
  BY MonitorJob DEF Jobs
<1>2. Others(Monitor) /\ job[Monitor].step # "write" /\ job'[Monitor].step \notin Steady
  BY <1>1, GoEffect, ResultEffect, DoneEffect DEF Probe, At, Others, Steady, GlobalInv
<1>3. UNCHANGED <<requests, proc, gate>>
  BY DEF Probe, Watching
<1> QED  BY <1>1, <1>2, <1>3, QuietStep

LEMMA JudgeGate == ASSUME GlobalInv, GateInv, Judge PROVE GateStep /\ GateInv'
<1>1. Monitor \in Jobs
  BY MonitorJob DEF Jobs
<1>2. Others(Monitor) /\ job[Monitor].step # "write" /\ job'[Monitor].step \notin Steady
  BY <1>1, GoEffect, ResultEffect, DoneEffect DEF Judge, At, Others, Steady, GlobalInv
<1>3. UNCHANGED <<requests, proc, gate>>
  BY DEF Judge, Watching
<1> QED  BY <1>1, <1>2, <1>3, QuietStep

LEMMA MonitorRestsGate == ASSUME GlobalInv, GateInv, MonitorRests PROVE GateStep /\ GateInv'
<1>1. UNCHANGED <<job, requests, proc, gate>>
  BY DEF MonitorRests, Watching
<1>2. gate' = Closed(0) /\ 0 \in GenOrNone
  BY <1>1, ClosedNone, Zero DEF GlobalInv
<1> QED  BY <1>1, <1>2, RestStep

LEMMA ExitGate == ASSUME GlobalInv, GateInv, NEW x \in Stops, Exit(x) PROVE GateStep /\ GateInv'
<1>1. UNCHANGED <<job, requests, proc, gate>>
  BY DEF Exit
<1>2. gate' = Closed(0) /\ 0 \in GenOrNone
  BY <1>1, ClosedNone, Zero DEF GlobalInv
<1> QED  BY <1>1, <1>2, RestStep

LEMMA EndUpdateGate == ASSUME GlobalInv, GateInv, NEW u \in Updaters, EndUpdate(u) PROVE GateStep /\ GateInv'
<1>1. UNCHANGED <<job, requests, proc, gate>>
  BY DEF EndUpdate
<1>2. gate' = Closed(0) /\ 0 \in GenOrNone
  BY <1>1, ClosedNone, Zero DEF GlobalInv
<1> QED  BY <1>1, <1>2, RestStep

LEMMA QuiesceAloneGate == ASSUME GlobalInv, GateInv, QuiesceAlone PROVE GateStep /\ GateInv'
<1>1. UNCHANGED <<job, requests, proc, gate>>
  BY DEF QuiesceAlone, globalVars
<1>2. gate' = Closed(0) /\ 0 \in GenOrNone
  BY <1>1, ClosedNone, Zero DEF GlobalInv
<1> QED  BY <1>1, <1>2, RestStep

LEMMA AgeGate == ASSUME GlobalInv, GateInv, Age PROVE GateStep /\ GateInv'
<1>1. UNCHANGED <<job, requests, proc, gate>>
  BY DEF Age, Outside
<1>2. gate' = Closed(0) /\ 0 \in GenOrNone
  BY <1>1, ClosedNone, Zero DEF GlobalInv
<1> QED  BY <1>1, <1>2, RestStep

LEMMA StopAllPrepareGate == ASSUME GlobalInv, GateInv, NEW x \in Stops, StopAllPrepare(x) PROVE GateStep /\ GateInv'
<1>1. UNCHANGED <<job, requests, proc>> /\ gate' = Closed(entry.gen)
  BY DEF StopAllPrepare
<1> QED  BY <1>1, EntryGate, RestStep

LEMMA StopAllTakeGate == ASSUME GlobalInv, GateInv, NEW x \in Stops, StopAllTake(x) PROVE GateStep /\ GateInv'
<1>1. UNCHANGED <<job, requests, proc>> /\ gate' = Closed(entry.gen)
  BY DEF StopAllTake
<1> QED  BY <1>1, EntryGate, RestStep

LEMMA SelectGate == ASSUME GlobalInv, GateInv, NEW t \in Creators, Select(t) PROVE GateStep /\ GateInv'
<1>1. t \in Jobs
  BY DEF Jobs
<1>2. Others(t) /\ job[t].step # "write" /\ job'[t].step \notin Steady
  BY <1>1, GoEffect, ResultEffect DEF Select, Replaceable, At, Others, Steady, GlobalInv
<1>3. UNCHANGED <<requests, proc>>
  BY DEF Select
<1>4. gate' = gate \/ gate' = Closed(entry.gen)
  BY DEF Select, Replaceable
<1>5. CASE gate' = gate
  BY <1>1, <1>2, <1>3, <1>5, QuietStep
<1>6. CASE gate' = Closed(entry.gen)
  BY <1>1, <1>2, <1>3, <1>6, EntryGate, ClosingStep
<1> QED  BY <1>4, <1>5, <1>6

LEMMA SpawnFailsGate == ASSUME GlobalInv, GateInv, NEW t \in Creators, SpawnFails(t) PROVE GateStep /\ GateInv'
<1>1. t \in Jobs
  BY DEF Jobs
<1>2. Others(t) /\ job[t].step # "write" /\ job'[t].step \notin Steady
  BY <1>1, GoEffect, ResultEffect DEF SpawnFails, AbandonBirth, At, Others, Steady, GlobalInv
<1>3. UNCHANGED <<requests, proc>>
  BY DEF SpawnFails
<1>4. gate' = gate \/ gate' = Closed(entry.gen)
  BY DEF SpawnFails, AbandonBirth
<1>5. CASE gate' = gate
  BY <1>1, <1>2, <1>3, <1>5, QuietStep
<1>6. CASE gate' = Closed(entry.gen)
  BY <1>1, <1>2, <1>3, <1>6, EntryGate, ClosingStep
<1> QED  BY <1>4, <1>5, <1>6

LEMMA StopRequestGate == ASSUME GlobalInv, GateInv, NEW t \in Stoppers, StopRequest(t) PROVE GateStep /\ GateInv'
<1>1. t \in Jobs
  BY DEF Jobs
<1>2. Others(t) /\ job[t].step # "write" /\ job'[t].step \notin Steady
  BY <1>1, GoEffect, ResultEffect DEF StopRequest, At, Others, Steady, GlobalInv
<1>3. UNCHANGED <<requests, proc>>
  BY DEF StopRequest
<1>4. gate' = gate \/ gate' = Closed(entry.gen)
  BY DEF StopRequest
<1>5. CASE gate' = gate
  BY <1>1, <1>2, <1>3, <1>5, QuietStep
<1>6. CASE gate' = Closed(entry.gen)
  BY <1>1, <1>2, <1>3, <1>6, EntryGate, ClosingStep
<1> QED  BY <1>4, <1>5, <1>6

LEMMA HealthFailsGate == ASSUME GlobalInv, GateInv, NEW t \in Creators, HealthFails(t) PROVE GateStep /\ GateInv'
<1>1. t \in Jobs
  BY DEF Jobs
<1>2. Others(t) /\ job[t].step # "write" /\ job'[t].step \notin Steady
  BY <1>1, GoEffect, ResultEffect DEF HealthFails, Condemn, At, Others, Steady, GlobalInv
<1>3. UNCHANGED <<requests, proc>>
  BY DEF HealthFails
<1>4. gate' = gate \/ gate' = Closed(entry.gen)
  BY DEF HealthFails, Condemn
<1>5. CASE gate' = gate
  BY <1>1, <1>2, <1>3, <1>5, QuietStep
<1>6. CASE gate' = Closed(entry.gen)
  BY <1>1, <1>2, <1>3, <1>6, EntryGate, ClosingStep
<1> QED  BY <1>4, <1>5, <1>6

LEMMA MarkHealthyGate == ASSUME GlobalInv, GateInv, NEW t \in Creators, MarkHealthy(t) PROVE GateStep /\ GateInv'
<1>1. t \in Jobs
  BY DEF Jobs
<1>2. Others(t) /\ job[t].step # "write" /\ job'[t].step \notin Steady
  BY <1>1, GoEffect, ResultEffect DEF MarkHealthy, Condemn, At, Others, Steady, GlobalInv
<1>3. UNCHANGED <<requests, proc>>
  BY DEF MarkHealthy
<1>4. gate' = gate \/ gate' = Closed(entry.gen)
  BY DEF MarkHealthy, Condemn
<1>5. CASE gate' = gate
  BY <1>1, <1>2, <1>3, <1>5, QuietStep
<1>6. CASE gate' = Closed(entry.gen)
  BY <1>1, <1>2, <1>3, <1>6, EntryGate, ClosingStep
<1> QED  BY <1>4, <1>5, <1>6

LEMMA BootGate == ASSUME GlobalInv, GateInv, NEW g \in Gens, Boot(g) PROVE GateStep /\ GateInv'
<1>1. UNCHANGED <<job, requests, gate>> /\ proc[g] = "starting" /\ proc' = [proc EXCEPT ![g] = "serving"]
  BY DEF Boot, Becomes, Outside
<1>2. "starting" # "none" /\ "serving" # "none" /\ ("serving" \in Dead <=> "starting" \in Dead)
  BY DEF Dead
<1> QED  BY <1>1, <1>2, ProcessStep

LEMMA DieGate == ASSUME GlobalInv, GateInv, NEW g \in Gens, Die(g) PROVE GateStep /\ GateInv'
<1>1. UNCHANGED <<job, requests, gate>> /\ proc[g] = "doomed" /\ proc' = [proc EXCEPT ![g] = "killed"]
  BY DEF Die, Becomes, Outside
<1>2. "doomed" # "none" /\ "killed" # "none" /\ ("killed" \in Dead <=> "doomed" \in Dead)
  BY DEF Dead
<1> QED  BY <1>1, <1>2, ProcessStep

LEMMA RecoverGate == ASSUME GlobalInv, GateInv, NEW g \in Gens, Recover(g) PROVE GateStep /\ GateInv'
<1>1. UNCHANGED <<job, requests, gate>> /\ proc[g] = "hung" /\ proc' = [proc EXCEPT ![g] = "serving"]
  BY DEF Recover, Becomes, Outside
<1>2. "hung" # "none" /\ "serving" # "none" /\ ("serving" \in Dead <=> "hung" \in Dead)
  BY DEF Dead
<1> QED  BY <1>1, <1>2, ProcessStep

LEMMA StallGate == ASSUME GlobalInv, GateInv, NEW g \in Gens, Stall(g) PROVE GateStep /\ GateInv'
<1>1. UNCHANGED <<job, requests, gate>> /\ proc[g] = "serving" /\ proc' = [proc EXCEPT ![g] = "hung"]
  BY DEF Stall, Becomes, Outside
<1>2. "serving" # "none" /\ "hung" # "none" /\ ("hung" \in Dead <=> "serving" \in Dead)
  BY DEF Dead
<1> QED  BY <1>1, <1>2, ProcessStep

LEMMA CrashGate == ASSUME GlobalInv, GateInv, NEW g \in Gens, Crash(g) PROVE GateStep /\ GateInv'
<1>1. PICK s \in Up : Becomes(g, s, "crashed")
  BY DEF Crash
<1>2. UNCHANGED <<job, requests, gate>> /\ proc[g] = s /\ proc' = [proc EXCEPT ![g] = "crashed"]
  BY <1>1 DEF Crash, Becomes, Outside
<1>3. s # "none" /\ "crashed" # "none" /\ ("crashed" \in Dead <=> s \in Dead)
  BY DEF Dead, Up
<1> QED  BY <1>2, <1>3, ProcessStep

LEMMA ReserveReplacementGate == ASSUME GlobalInv, GateInv, NEW t \in Creators, ReserveReplacement(t) PROVE GateStep /\ GateInv'
<1>1. t \in Jobs
  BY DEF Jobs
<1>2. UNCHANGED <<requests, proc, gate>>
  BY DEF ReserveReplacement
<1>3. Others(t) /\ job[t].step = "reserve"
      /\ \/ job'[t].step \notin Steady
         \/ job'[t].step = "kill" /\ job'[t].gen = lastGen + 1 /\ lastGen < MaxGen
  BY <1>1, GoEffect, ResultEffect DEF ReserveReplacement, At, Others, Steady, GlobalInv
<1>4. CASE job'[t].step \notin Steady
  BY <1>1, <1>2, <1>3, <1>4, QuietStep
<1>5. CASE job'[t].step = "kill" /\ job'[t].gen = lastGen + 1 /\ lastGen < MaxGen
  <2>1. \A h : Writers(h)' = Writers(h)
    BY <1>1, <1>3, <1>5, MuteWriters DEF Mute
  <2>2. GateStep
    BY <1>2, <2>1, GateVars DEF Exists, Admits, Ended, Load
  <2>3. Spent'
    BY <1>2, <1>3, <1>5, <2>1, SpentKept DEF Others
  <2>4. proc[lastGen + 1] = "none"
    <3>1. lastGen + 1 \in Gens /\ lastGen \in Nat
      BY <1>5, NextGen, Zeros DEF GlobalInv
    <3> QED  BY <3>1 DEF GlobalInv, Drawn
  <2>5. Fresh'
    BY <1>2, <1>3, <1>5, <2>4, FreshKept DEF Others
  <2> QED  BY <2>2, <2>3, <2>5 DEF GateInv
<1> QED  BY <1>3, <1>4, <1>5

LEMMA ReserveBirthGate == ASSUME GlobalInv, GateInv, NEW t \in Creators, ReserveBirth(t) PROVE GateStep /\ GateInv'
<1>1. t \in Jobs
  BY DEF Jobs
<1>2. UNCHANGED <<requests, proc>>
  BY DEF ReserveBirth
<1>3. Others(t) /\ job[t].step = "reserve"
      /\ \/ job'[t].step \notin Steady /\ gate' = gate
         \/ /\ job'[t].step = "spawn" /\ job'[t].gen = lastGen + 1 /\ lastGen < MaxGen
            /\ gate' = [gate EXCEPT ![lastGen + 1] = "open"]
  <2>1. TypeOK /\ job[t].step = "reserve"
    BY DEF GlobalInv, ReserveBirth, At
  <2>2. CASE ~desired \/ entry.gen # 0
    <3>1. gate' = gate /\ \E g : Result(t, g)
      BY <2>2 DEF ReserveBirth
    <3> QED  BY <1>1, <2>1, <3>1, ResultEffect DEF Steady
  <2>3. CASE desired /\ entry.gen = 0
    <3>1. /\ Go(t, "spawn", lastGen + 1, lastGen + 1) /\ lastGen < MaxGen
          /\ gate' = [gate EXCEPT ![lastGen + 1] = "open"]
      BY <2>3 DEF ReserveBirth
    <3> QED  BY <1>1, <2>1, <3>1, GoEffect DEF Others
  <2> QED  BY <2>2, <2>3
<1>4. CASE job'[t].step \notin Steady /\ gate' = gate
  BY <1>1, <1>2, <1>3, <1>4, QuietStep
<1>5. CASE /\ job'[t].step = "spawn" /\ job'[t].gen = lastGen + 1 /\ lastGen < MaxGen
           /\ gate' = [gate EXCEPT ![lastGen + 1] = "open"]
  <2>1. \A h : Writers(h)' = Writers(h)
    BY <1>1, <1>3, <1>5, MuteWriters DEF Mute
  <2>2. lastGen + 1 \in Gens /\ proc[lastGen + 1] = "none" /\ gate[lastGen + 1] = "none"
    <3>1. lastGen + 1 \in Gens /\ lastGen \in Nat
      BY <1>5, NextGen, Zeros DEF GlobalInv
    <3> QED  BY <3>1 DEF GlobalInv, Drawn
  <2>3. GateStep
    BY <1>2, <1>5, <2>1, <2>2, OpeningGate DEF GlobalInv
  <2>4. Spent'
    BY <1>2, <1>3, <1>5, <2>1, SpentKept DEF Others
  <2>5. Fresh'
    BY <1>2, <1>3, <1>5, <2>2, FreshKept DEF Others
  <2> QED  BY <2>3, <2>4, <2>5 DEF GateInv
<1> QED  BY <1>3, <1>4, <1>5

(* Nobody makes the generation another makes. *)
LEMMA SpawnGate == ASSUME GlobalInv, GateInv, NEW t \in Creators, Spawn(t) PROVE GateStep /\ GateInv'
<1>1. t \in Jobs
  BY DEF Jobs
<1>2. UNCHANGED <<requests, gate>> /\ proc' = [proc EXCEPT ![job[t].gen] = "starting"]
  BY DEF Spawn
<1>3. Others(t) /\ job[t].step = "spawn" /\ job'[t].step = "install"
  BY <1>1, GoEffect DEF Spawn, At, Others, GlobalInv
<1>4. \A h : Writers(h)' = Writers(h)
  BY <1>1, <1>3, MuteWriters DEF Mute
<1>5. job[t].gen \in Gens /\ proc[job[t].gen] = "none"
  <2>1. job[t].gen \in GenOrNone /\ job[t].gen # 0
    BY <1>1, <1>3, JobFields DEF GlobalInv, Shapes, Making
  <2> QED  BY <1>1, <1>3, <2>1 DEF GateInv, Fresh, GenOrNone, Gens
<1>6. proc'[job[t].gen] = "starting" /\ \A h \in Gens : h # job[t].gen => proc'[h] = proc[h]
  BY <1>2, <1>5 DEF GlobalInv, TypeOK
<1>7. GateStep
  <2>1. Ended' = Ended
    BY <1>5, <1>6 DEF Ended, Dead
  <2> QED  BY <1>2, <1>4, <2>1, GateVars DEF Exists, Admits, Load
<1>8. Spent'
  BY <1>2, <1>3, <1>4, SpentKept DEF Others
<1>9. Fresh'
  <2> SUFFICES ASSUME NEW u \in Jobs, job'[u].step \in {"kill", "spawn"}
               PROVE  proc'[job'[u].gen] = "none"
    BY DEF Fresh
  <2>1. u # t /\ job'[u] = job[u] /\ job[u].step \in Making
    BY <1>3 DEF Others, Making
  <2>2. job[u].gen # job[t].gen
    BY <1>1, <1>3, <2>1 DEF GlobalInv, OneMaker, Making
  <2>3. job[u].gen \in Gens
    BY <2>1, JobFields DEF GlobalInv, Shapes, GenOrNone, Gens
  <2> QED  BY <1>6, <2>1, <2>2, <2>3 DEF GateInv, Fresh
<1> QED  BY <1>7, <1>8, <1>9 DEF GateInv

LEMMA InstallBirthGate == ASSUME GlobalInv, GateInv, NEW t \in Creators, InstallBirth(t) PROVE GateStep /\ GateInv'
<1>1. t \in Jobs
  BY DEF Jobs
<1>2. UNCHANGED <<requests, proc>> /\ job[t].step = "install" /\ job[t].gen = job[t].lease
  BY DEF InstallBirth, At, Birth
<1>3. Others(t) /\ \/ job'[t].step = "health"
                   \/ job'[t].step = "discard" /\ job'[t].gen = job[t].gen
  <2>1. TypeOK
    BY DEF GlobalInv
  <2>2. Go(t, "health", job[t].gen, 0) \/ Go(t, "discard", job[t].gen, job[t].lease)
    BY DEF InstallBirth
  <2> QED  BY <1>1, <2>1, <2>2, GoEffect DEF Others
<1>4. \A h : Writers(h)' = Writers(h)
  BY <1>1, <1>2, <1>3, MuteWriters DEF Mute
<1>5. GateStep
  <2>1. gate' = gate \/ gate' = Closed(entry.gen)
    BY DEF InstallBirth, AbandonBirth
  <2>2. CASE gate' = gate
    BY <1>2, <1>4, <2>2, GateVars DEF Exists, Admits, Ended, Load
  <2>3. CASE gate' = Closed(entry.gen)
    BY <1>2, <1>4, <2>3, EntryGate, ClosingGate DEF GlobalInv
  <2> QED  BY <2>1, <2>2, <2>3
<1>6. requests[job[t].gen] = 0 /\ Writers(job[t].gen) = {}
  <2>1. Bearing(t)
    BY <1>2 DEF Bearing
  <2>2. requests[job[t].gen] = 0 /\ \A u \in Jobs : job[u].step = "write" => job[u].lease # job[t].gen
    BY <1>1, <1>2, <2>1 DEF GlobalInv, Unborn
  <2> QED  BY <2>2 DEF Writers, At, GlobalInv, Shapes
<1>7. Spent'
  <2> SUFFICES ASSUME NEW u \in Jobs, (job[u].step = "discard" /\ job[u].gen = job[u].lease)'
               PROVE  (requests[job[u].gen] = 0 /\ Writers(job[u].gen) = {})'
    BY DEF Spent
  <2>1. PICK m : m = job[u].gen
    OBVIOUS
  <2>2. job'[u].gen = m
    BY <1>3, <2>1 DEF Others
  <2>3. requests[m] = 0 /\ Writers(m) = {}
    BY <1>3, <1>6, <2>1 DEF Others, GateInv, Spent
  <2>4. requests'[m] = 0 /\ Writers(m)' = {}
    BY <1>2, <1>4, <2>3
  <2> QED  BY <2>2, <2>4 DEF Writers
<1>8. Fresh'
  BY <1>2, <1>3, FreshKept DEF Others
<1> QED  BY <1>5, <1>7, <1>8 DEF GateInv

LEMMA InstallReplacementGate == ASSUME GlobalInv, GateInv, NEW t \in Creators, InstallReplacement(t) PROVE GateStep /\ GateInv'
<1>1. t \in Jobs
  BY DEF Jobs
<1>2. UNCHANGED <<requests, proc>> /\ job[t].step = "install" /\ job[t].gen # job[t].lease
  BY DEF InstallReplacement, At, Birth
<1>3. Others(t) /\ \/ job'[t].step = "health" /\ gate' = [gate EXCEPT ![job[t].gen] = "open"]
                   \/ /\ job'[t].step = "discard" /\ job'[t].gen = job[t].gen
                      /\ job'[t].lease = job[t].lease /\ gate' = gate
  <2>1. TypeOK
    BY DEF GlobalInv
  <2>2. \/ Go(t, "health", job[t].gen, 0) /\ gate' = [gate EXCEPT ![job[t].gen] = "open"]
        \/ Go(t, "discard", job[t].gen, job[t].lease) /\ gate' = gate
    BY DEF InstallReplacement
  <2> QED  BY <1>1, <2>1, <2>2, GoEffect DEF Others
<1>4. \A h : Writers(h)' = Writers(h)
  BY <1>1, <1>2, <1>3, MuteWriters DEF Mute
<1>5. GateStep
  <2>1. CASE gate' = gate
    BY <1>2, <1>4, <2>1, GateVars DEF Exists, Admits, Ended, Load
  <2>2. CASE gate' = [gate EXCEPT ![job[t].gen] = "open"]
    <3>1. job[t].gen \in Gens
      BY <1>1, <1>2, JobFields DEF GlobalInv, Shapes, Making, GenOrNone, Gens
    <3>2. gate[job[t].gen] = "none"
      BY <1>1, <1>2 DEF GlobalInv, Gated
    <3> QED  BY <1>2, <1>4, <2>2, <3>1, <3>2, OpeningGate DEF GlobalInv
  <2> QED  BY <1>3, <2>1, <2>2
<1>6. Spent'
  <2> SUFFICES ASSUME NEW u \in Jobs, (job[u].step = "discard" /\ job[u].gen = job[u].lease)'
               PROVE  (requests[job[u].gen] = 0 /\ Writers(job[u].gen) = {})'
    BY DEF Spent
  <2>1. u # t
    BY <1>2, <1>3
  <2>2. PICK m : m = job[u].gen
    OBVIOUS
  <2>3. job'[u].gen = m
    BY <1>3, <2>1, <2>2 DEF Others
  <2>4. requests[m] = 0 /\ Writers(m) = {}
    BY <1>3, <2>1, <2>2 DEF Others, GateInv, Spent
  <2>5. requests'[m] = 0 /\ Writers(m)' = {}
    BY <1>2, <1>4, <2>4
  <2> QED  BY <2>3, <2>5 DEF Writers
<1>7. Fresh'
  BY <1>2, <1>3, FreshKept DEF Others
<1> QED  BY <1>5, <1>6, <1>7 DEF GateInv

LEMMA StopEffect ==
  ASSUME TypeOK, NEW k \in Gens, proc' = Killed(k) \/ proc' = Doomed(k)
  PROVE  \A g \in Gens : \/ proc'[g] = proc[g]
                         \/ g = k /\ proc[g] # "none" /\ proc'[g] \in Dead
<1>1. CASE proc' = Killed(k)
  BY <1>1 DEF TypeOK, Killed, Dead, Up
<1>2. CASE proc' = Doomed(k)
  BY <1>2 DEF TypeOK, Doomed, Dead, Up
<1> QED  BY <1>1, <1>2

(* The manager tells the process of a closed gate to stop when nobody      *)
(* waits for it any more.                                                  *)
LEMMA StoppingStep ==
  ASSUME GlobalInv, GateInv, UNCHANGED <<requests, gate>>, \A h : Writers(h)' = Writers(h),
         NEW k \in Gens, proc' = Killed(k) \/ proc' = Doomed(k),
         gate[k] # "open", requests[k] = 0, Writers(k) = {},
         \A u \in Jobs : \/ job'[u] = job[u]
                         \/ job'[u].step \notin {"kill", "discard", "spawn"}
                         \/ job'[u].step = "spawn" /\ job[u].step = "kill"
                            /\ job'[u].gen = job[u].gen /\ job[u].gen # k
  PROVE  GateStep /\ GateInv'
<1>1. \A g \in Gens : \/ proc'[g] = proc[g]
                      \/ g = k /\ proc[g] # "none" /\ proc'[g] \in Dead
  BY StopEffect DEF GlobalInv
<1>2. GateStep
  BY <1>1, StoppingGate DEF GlobalInv
<1>3. Spent'
  BY SpentKept
<1>4. Fresh'
  <2> SUFFICES ASSUME NEW u \in Jobs, job'[u].step \in {"kill", "spawn"}
               PROVE  proc'[job'[u].gen] = "none"
    BY DEF Fresh
  <2>1. job'[u].gen = job[u].gen /\ job[u].step \in {"kill", "spawn"}
    OBVIOUS
  <2>2. job[u].gen \in Gens /\ proc[job[u].gen] = "none"
    BY <2>1, JobFields DEF GlobalInv, Shapes, Making, GenOrNone, Gens, GateInv, Fresh
  <2> QED  BY <1>1, <2>1, <2>2
<1> QED  BY <1>2, <1>3, <1>4 DEF GateInv

(* Nobody publishes a generation somebody is alone with. *)
LEMMA AloneQuiet ==
  ASSUME GlobalInv, NEW t \in Jobs, Alone(t), job[t].step # "write"
  PROVE  /\ job[t].lease \in Gens /\ gate[job[t].lease] # "open"
         /\ requests[job[t].lease] = 0 /\ Writers(job[t].lease) = {}
<1>1. \A u \in Jobs : job[u].step = "write" => job[u].gen # job[t].lease
  BY DEF GlobalInv, Shapes, DrainedAlone
<1> QED  BY <1>1, AloneAll DEF Writers, At

LEMMA KillOldGate == ASSUME GlobalInv, GateInv, NEW t \in Creators, KillOld(t) PROVE GateStep /\ GateInv'
<1>1. t \in Jobs
  BY DEF Jobs
<1>2. UNCHANGED <<requests, gate>> /\ job[t].step = "kill"
      /\ (proc' = Killed(job[t].lease) \/ proc' = Doomed(job[t].lease))
  BY DEF KillOld, At
<1>3. Others(t) /\ \/ job'[t].step = "spawn" /\ job'[t].gen = job[t].gen
                   \/ job'[t].step = "retire"
  BY <1>1, GoEffect DEF KillOld, Others, GlobalInv
<1>4. \A h : Writers(h)' = Writers(h)
  BY <1>1, <1>2, <1>3, MuteWriters DEF Mute
<1>5. Alone(t)
  BY <1>2 DEF Alone, Replacing
<1>6. job[t].gen # job[t].lease
  BY <1>1, <1>2 DEF GlobalInv, Shapes
<1> QED  BY <1>1, <1>2, <1>3, <1>4, <1>5, <1>6, AloneQuiet, StoppingStep DEF Others

LEMMA RetireKillGate == ASSUME GlobalInv, GateInv, NEW t \in Jobs, RetireKill(t) PROVE GateStep /\ GateInv'
<1>1. UNCHANGED <<requests, gate>> /\ job[t].step = "settle"
      /\ (proc' = Killed(job[t].lease) \/ proc' = Doomed(job[t].lease))
  BY DEF RetireKill, At
<1>2. Others(t) /\ job'[t].step = "detach"
  BY GoEffect DEF RetireKill, Others, GlobalInv
<1>3. \A h : Writers(h)' = Writers(h)
  BY <1>1, <1>2, MuteWriters DEF Mute
<1>4. Alone(t)
  BY <1>1 DEF Alone
<1> QED  BY <1>1, <1>2, <1>3, <1>4, AloneQuiet, StoppingStep DEF Others

LEMMA DiscardGate == ASSUME GlobalInv, GateInv, NEW t \in Creators, Discard(t) PROVE GateStep /\ GateInv'
<1>1. t \in Jobs
  BY DEF Jobs
<1> DEFINE k == job[t].gen
<1>2. UNCHANGED <<requests, gate>> /\ job[t].step = "discard" /\ proc' = Doomed(k)
  BY DEF Discard, At
<1>3. Others(t) /\ job'[t].step = "release"
  BY <1>1, GoEffect DEF Discard, Others, GlobalInv
<1>4. \A h : Writers(h)' = Writers(h)
  BY <1>1, <1>2, <1>3, MuteWriters DEF Mute
<1>5. k \in Gens
  BY <1>1, <1>2, JobFields DEF GlobalInv, Shapes, Making, GenOrNone, Gens
<1>6. gate[k] # "open" /\ requests[k] = 0 /\ Writers(k) = {}
  <2>1. CASE k = job[t].lease
    <3>1. gate[k] = "closed"
      BY <1>1, <1>2, <2>1 DEF GlobalInv, OneCloser
    <3> QED  BY <1>1, <1>2, <2>1, <3>1 DEF GateInv, Spent
  <2>2. CASE k # job[t].lease
    <3>1. gate[k] = "none"
      BY <1>1, <1>2, <2>2 DEF GlobalInv, Gated
    <3>2. requests[k] = 0
      BY <1>5, <3>1 DEF GlobalInv, Gated, TypeOK
    <3>3. \A u \in Jobs : job[u].step = "write" => job[u].gen # k
      BY <1>5, <3>1 DEF GlobalInv, Gated, Shapes, Leasing
    <3> QED  BY <3>1, <3>2, <3>3 DEF Writers, At
  <2> QED  BY <2>1, <2>2
<1> QED  BY <1>2, <1>3, <1>4, <1>5, <1>6, StoppingStep DEF Others

LEMMA StopAllDropGate == ASSUME GlobalInv, GateInv, NEW x \in Stops, StopAllDrop(x) PROVE GateStep /\ GateInv'
<1> DEFINE k == stopAll[x].gen
<1>1. UNCHANGED <<requests, gate, job>> /\ stopAll[x].step = "drop"
      /\ proc' = (IF k = 0 THEN proc ELSE Doomed(k)) /\ (k # 0 => InFlight(k) = 0)
  BY DEF StopAllDrop
<1>2. k \in GenOrNone
  BY DEF GlobalInv, TypeOK
<1>3. CASE k = 0
  <2>1. gate' = Closed(0) /\ 0 \in GenOrNone /\ UNCHANGED proc
    BY <1>1, <1>3, ClosedNone, Zero DEF GlobalInv
  <2> QED  BY <1>1, <2>1, RestStep
<1>4. CASE k # 0
  <2>1. k \in Gens /\ gate[k] = "closed" /\ requests[k] = 0 /\ \A u \in Jobs : job[u].lease # k
    BY <1>1, <1>2, <1>4, NoLease DEF GlobalInv, StopAllAlone, GenOrNone, Gens
  <2>2. Writers(k) = {}
    BY <2>1 DEF GlobalInv, Shapes, Writers, At
  <2>3. \A h : Writers(h)' = Writers(h)
    BY <1>1 DEF Writers, At
  <2>4. proc' = Doomed(k)
    BY <1>1, <1>4
  <2> QED  BY <1>1, <2>1, <2>2, <2>3, <2>4, StoppingStep
<1> QED  BY <1>3, <1>4

LEMMA AdmitPublishGate == ASSUME GlobalInv, GateInv, NEW t \in Creators, AdmitPublish(t) PROVE GateStep /\ GateInv'
<1>1. t \in Jobs
  BY DEF Jobs
<1>2. UNCHANGED <<requests, gate, proc>> /\ job[t].step = "publish"
  BY DEF AdmitPublish, At
<1>3. Others(t) /\ \/ job'[t].step \notin Steady
                   \/ /\ job'[t].step = "write" /\ job'[t].gen = job[t].gen
                      /\ entry.gen = job[t].gen /\ entry.gen # 0 /\ gate[entry.gen] = "open"
  BY <1>1, GoEffect, PublishedEffect DEF AdmitPublish, Accepting, Others, Steady, GlobalInv
<1>4. CASE job'[t].step \notin Steady
  BY <1>1, <1>2, <1>3, <1>4, QuietStep
<1>5. CASE /\ job'[t].step = "write" /\ job'[t].gen = job[t].gen
           /\ entry.gen = job[t].gen /\ entry.gen # 0 /\ gate[entry.gen] = "open"
  <2> PICK g : g = entry.gen
    OBVIOUS
  <2>1. g \in Gens /\ gate[g] = "open"
    BY <1>5, EntryGen DEF GlobalInv
  <2>2. \A h : h # g => Writers(h)' = Writers(h)
    BY <1>2, <1>3, <1>5 DEF Others, Writers, At
  <2>3. Writers(g)' = Writers(g) \cup {t} /\ t \notin Writers(g)
    BY <1>1, <1>2, <1>3, <1>5 DEF Others, Writers, At
  <2>4. Load(g)' = Load(g) + 1
    <3>1. Cardinality(Writers(g) \cup {t}) = Cardinality(Writers(g)) + 1
      BY <2>3, WritersFinite, FS_AddElement
    <3>2. requests[g] \in Nat /\ requests' = requests
      BY <1>2, <2>1 DEF GlobalInv, TypeOK
    <3> QED  BY <2>3, <3>1, <3>2, WritersFinite DEF Load
  <2>5. GateStep
    BY <1>2, <2>1, <2>2, <2>4, AdmittingGate DEF Load
  <2>6. Spent'
    BY <1>2, <1>3, <1>5, <2>2, SpentKept DEF Others
  <2>7. Fresh'
    BY <1>2, <1>3, <1>5, FreshKept DEF Others
  <2> QED  BY <2>5, <2>6, <2>7 DEF GateInv
<1> QED  BY <1>3, <1>4, <1>5

LEMMA WritePortGate == ASSUME GlobalInv, GateInv, NEW t \in Creators, WritePort(t) PROVE GateStep /\ GateInv'
<1>1. t \in Jobs
  BY DEF Jobs
<1>2. UNCHANGED <<requests, gate, proc>> /\ job[t].step = "write"
  BY DEF WritePort, At
<1>3. Others(t) /\ job'[t].step \notin Steady
  BY <1>1, PublishedEffect DEF WritePort, Others, Steady, GlobalInv
<1>4. PICK g : g = job[t].gen
  OBVIOUS
<1>5. g \in Gens
  BY <1>1, <1>2, <1>4, JobFields DEF GlobalInv, Shapes, GenOrNone, Gens
<1>6. \A h : h # g => Writers(h)' = Writers(h)
  BY <1>2, <1>3, <1>4 DEF Others, Writers, At, Steady
<1>7. Writers(g)' = Writers(g) \ {t} /\ t \in Writers(g)
  BY <1>1, <1>2, <1>3, <1>4 DEF Others, Writers, At, Steady
<1>8. Load(g)' = Load(g) - 1 /\ Load(g) > 0
  <2>1. Cardinality(Writers(g) \ {t}) = Cardinality(Writers(g)) - 1
    BY <1>7, WritersFinite, FS_RemoveElement
  <2>2. Cardinality(Writers(g)) \in Nat /\ Cardinality(Writers(g) \ {t}) \in Nat
    BY WritersFinite, FS_RemoveElement, FS_CardinalityType
  <2>3. requests[g] \in Nat /\ requests' = requests
    BY <1>2, <1>5 DEF GlobalInv, TypeOK
  <2> QED  BY <1>7, <2>1, <2>2, <2>3 DEF Load
<1>9. GateStep
  BY <1>2, <1>5, <1>6, <1>8, AnsweringGate DEF Load
<1>10. Spent'
  BY <1>2, <1>3, <1>6, <1>7, SpentKept DEF Others, Steady
<1>11. Fresh'
  BY <1>2, <1>3, FreshKept DEF Others, Steady
<1> QED  BY <1>9, <1>10, <1>11 DEF GateInv

LEMMA RequestGate == ASSUME GlobalInv, GateInv, Request PROVE GateStep /\ GateInv'
<1>1. UNCHANGED <<gate, proc, job>> /\ gate[entry.gen] = "open" /\ entry.gen # 0
      /\ requests' = [requests EXCEPT ![entry.gen] = @ + 1]
  BY DEF Request, Outside, Accepting
<1>2. PICK g : g = entry.gen
  OBVIOUS
<1>3. g \in Gens
  BY <1>1, <1>2, EntryGen DEF GlobalInv
<1>4. requests'[g] = requests[g] + 1 /\ requests[g] \in Nat
      /\ \A h \in Gens : h # g => requests'[h] = requests[h]
  BY <1>1, <1>2, <1>3 DEF GlobalInv, TypeOK
<1>5. \A h : Writers(h)' = Writers(h)
  BY <1>1 DEF Writers, At
<1>6. Load(g)' = Load(g) + 1 /\ \A h \in Gens : h # g => Load(h)' = Load(h)
  BY <1>3, <1>4, <1>5, WritersFinite DEF Load
<1>7. GateStep
  BY <1>1, <1>2, <1>3, <1>6, AdmittingGate
<1>8. Spent'
  BY <1>1, <1>2, <1>4, <1>5, SpentKept
<1>9. Fresh'
  BY <1>1, FreshKept
<1> QED  BY <1>7, <1>8, <1>9 DEF GateInv

LEMMA RespondGate == ASSUME GlobalInv, GateInv, NEW g \in Gens, Respond(g) PROVE GateStep /\ GateInv'
<1>1. UNCHANGED <<gate, proc, job>> /\ requests[g] > 0 /\ requests' = [requests EXCEPT ![g] = @ - 1]
  BY DEF Respond, Outside
<1>2. requests'[g] = requests[g] - 1 /\ requests[g] \in Nat
      /\ \A h \in Gens : h # g => requests'[h] = requests[h]
  BY <1>1 DEF GlobalInv, TypeOK
<1>3. \A h : Writers(h)' = Writers(h)
  BY <1>1 DEF Writers, At
<1>4. Load(g)' = Load(g) - 1 /\ Load(g) > 0 /\ \A h \in Gens : h # g => Load(h)' = Load(h)
  BY <1>1, <1>2, <1>3, WritersFinite DEF Load
<1>5. GateStep
  BY <1>1, <1>4, AnsweringGate
<1>6. Spent'
  BY <1>1, <1>2, <1>3, SpentKept
<1>7. Fresh'
  BY <1>1, FreshKept
<1> QED  BY <1>5, <1>6, <1>7 DEF GateInv

LEMMA GateSimulation ==
  ASSUME GlobalInv, GateInv, [Next]_vars PROVE GateStep /\ GateInv'
<1>1. CASE UNCHANGED vars
  <2>1. UNCHANGED <<job, requests, proc, gate>>
    BY <1>1 DEF vars, globalVars
  <2>2. gate' = Closed(0) /\ 0 \in GenOrNone
    BY <2>1, ClosedNone, Zero DEF GlobalInv
  <2> QED  BY <2>1, <2>2, RestStep
<1>2. CASE \E t \in Starters : StartRequest(t)
  BY <1>2, StartRequestGate DEF Starters
<1>3. CASE \E t \in Creators : Select(t) \/ HealthFails(t) \/ PreambleFails(t) \/ SetupFails(t)
                               \/ SpawnFails(t)
  BY <1>3, SelectGate, HealthFailsGate, PreambleFailsGate, SetupFailsGate, SpawnFailsGate
<1>4. CASE \E t \in Creators : Create(t)
  BY <1>4, DrainOldGate, ReserveReplacementGate, ReserveBirthGate, KillOldGate, SpawnGate,
     InstallBirthGate, InstallReplacementGate, DiscardGate, ReleaseLeaseGate, HealthOkGate,
     MarkHealthyGate, ReturnGate, AdmitPublishGate, WritePortGate DEF Create
<1>5. CASE \E t \in Jobs : Retire(t)
  BY <1>5, RetireDrainedGate, RetireKillGate, RetireDetachGate DEF Retire
<1>6. CASE \E t \in Stoppers : StopRequest(t) \/ StopWaited(t)
  BY <1>6, StopRequestGate, StopWaitedGate
<1>7. CASE MonitorRests \/ Watch
  BY <1>7, MonitorRestsGate, MonitorFindsDeadGate, MonitorFindsAliveGate, ProbeGate, JudgeGate,
     MonitorRestartGate DEF Watch
<1>8. CASE \E x \in Stops : StopAllPrepare(x) \/ StopAllTake(x) \/ StopAllDrop(x) \/ Exit(x)
  BY <1>8, StopAllPrepareGate, StopAllTakeGate, StopAllDropGate, ExitGate
<1>9. CASE \E u \in Updaters : EndUpdate(u)
  BY <1>9, EndUpdateGate
<1>10. CASE QuiesceAlone
  BY <1>10, QuiesceAloneGate
<1>11. CASE \/ Request \/ Age
            \/ \E g \in Gens : Respond(g) \/ Boot(g) \/ Die(g) \/ Recover(g) \/ Stall(g) \/ Crash(g)
  BY <1>11, RequestGate, AgeGate, RespondGate, BootGate, DieGate, RecoverGate, StallGate, CrashGate
<1> QED
  BY <1>1, <1>2, <1>3, <1>4, <1>5, <1>6, <1>7, <1>8, <1>9, <1>10, <1>11 DEF Next

LEMMA GateInit == Init => Gate!Init /\ GateInv
<1> SUFFICES ASSUME Init PROVE Gate!Init /\ GateInv
  OBVIOUS
<1>1. \A t \in Jobs : job[t].step = "idle"
  BY DEF Init, Idle
<1>2. Exists = {} /\ Admits = {} /\ Ended = {}
  BY DEF Init, Exists, Admits, Ended, Dead
<1>3. \A g \in Gens : Load(g) = 0
  <2>1. \A g : Writers(g) = {}
    BY <1>1 DEF Writers, At
  <2> QED  BY <2>1, FS_EmptySet DEF Load, Init
<1>4. Gate!Init
  BY <1>2, <1>3 DEF Gate!Init, Exists, Admits, Ended, Load, Writers, Dead
<1>5. GateInv
  BY <1>1 DEF GateInv, Fresh, Spent
<1> QED  BY <1>4, <1>5

(* The Global Sidecar keeps the contract of its gate: its requests and the *)
(* writers of its port file are answered before its process is told to     *)
(* stop, whoever stops, replaces or discards it.                           *)
THEOREM Refinement == Spec => GateContract
<1>1. GlobalInv /\ GateInv /\ [Next]_vars => [Gate!Next]_Gate!gateVars /\ GateInv'
  BY GateSimulation DEF GateStep
<1> QED  BY <1>1, GateInit, Inductive, PTL DEF Spec, GateContract, Gate!Spec
=============================================================================
