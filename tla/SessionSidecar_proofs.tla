------------------------ MODULE SessionSidecar_proofs ------------------------
(***************************************************************************)
(* Proofs about SessionSidecar for any number of owners, generations,      *)
(* leases and faults.                                                      *)
(***************************************************************************)
EXTENDS SessionSidecarInv, FiniteSetTheorems, TLAPS

USE BoundsAssumption, OwnersAssumption

-----------------------------------------------------------------------------
(* What the record-valued pieces of the state are made of. *)

LEMMA GenFacts == NoGen \notin Gens /\ NoGen \in Nat /\ Gens \subseteq Nat
  BY DEF NoGen, Gens

LEMMA ConstantRecords ==
  /\ NoEntry \in Entry
  /\ NoRecovery \in Recovery
  /\ NoDrain \in Drain
  /\ Idle \in Operation
  BY DEF NoEntry, NoRecovery, NoDrain, Idle, Entry, Recovery, Drain, Operation,
         OperationRecord, OpKinds, OpSteps

LEMMA EntryOwners ==
  ASSUME NEW e \in Entry, NEW S \in SUBSET Owners
  PROVE  [e EXCEPT !.owners = S] \in Entry
  BY DEF Entry

LEMMA EntryState ==
  ASSUME NEW e \in Entry, NEW s \in {"Starting", "Healthy", "Dead"}
  PROVE  [e EXCEPT !.state = s] \in Entry
  BY DEF Entry

LEMMA RecoveryOwners ==
  ASSUME NEW r \in Recovery, NEW S \in SUBSET Owners
  PROVE  [r EXCEPT !.owners = S] \in Recovery
  BY DEF Recovery

LEMMA RecoveryDue ==
  ASSUME NEW r \in Recovery, NEW b \in BOOLEAN
  PROVE  [r EXCEPT !.due = b] \in Recovery
  BY DEF Recovery

LEMMA RecoveryCandidate ==
  ASSUME NEW r \in Recovery, NEW g \in Gens
  PROVE  [r EXCEPT !.candidate = g] \in Recovery
  BY DEF Recovery

LEMMA OperationFields ==
  ASSUME NEW o \in Operation
  PROVE  /\ o.kind \in OpKinds /\ o.step \in OpSteps /\ o.owner \in Owners \cup {NoOwner}
         /\ o.epoch \in Gens \cup {NoGen} /\ o.gen \in Gens \cup {NoGen}
         /\ o.drain \in Drain /\ o.attempt \in Nat
         /\ o.isNew \in BOOLEAN /\ o.clear \in BOOLEAN
  BY DEF Operation, OperationRecord

LEMMA OperationStep ==
  ASSUME NEW o \in Operation, NEW s \in OpSteps
  PROVE  [o EXCEPT !.step = s] \in Operation
  BY DEF Operation, OperationRecord

LEMMA OperationStepDrain ==
  ASSUME NEW o \in Operation, NEW s \in OpSteps, NEW d \in Drain
  PROVE  [o EXCEPT !.step = s, !.drain = d] \in Operation
  BY DEF Operation, OperationRecord

LEMMA OperationRetry ==
  ASSUME NEW o \in Operation
  PROVE  [o EXCEPT !.step = "check", !.attempt = @ + 1, !.gen = NoGen,
                   !.drain = NoDrain, !.clear = FALSE] \in Operation
<1>1. o.attempt + 1 \in Nat /\ NoDrain \in Drain /\ "check" \in OpSteps
  BY OperationFields, ConstantRecords DEF OpSteps
<1> QED  BY <1>1 DEF Operation, OperationRecord

-----------------------------------------------------------------------------
(* Type correctness.  First what the shared operations do to the types. *)

LEMMA OpStepNames ==
  {"none", "check", "probe", "replace", "await", "retire", "reap", "create", "boot",
   "discard", "commit", "dispatch", "activity", "recheck", "close", "kill", "confirm",
   "unlink", "releaseTabs"} \subseteq OpSteps
  BY DEF OpSteps

LEMMA TypedParts ==
  ASSUME TypeOK
  PROVE  /\ active.gen \in Gens \cup {NoGen} /\ active.owners \in SUBSET Owners
         /\ recovering.gen \in Gens \cup {NoGen} /\ recovering.owners \in SUBSET Owners
         /\ recovering.candidate \in Gens \cup {NoGen} /\ recovering.due \in BOOLEAN
         /\ Held \in SUBSET Owners
         /\ Observed \in Entry
         /\ UnownedDrain \in Drain
         /\ op \in Operation
<1>1. /\ active.gen \in Gens \cup {NoGen} /\ active.owners \in SUBSET Owners
      /\ recovering.gen \in Gens \cup {NoGen} /\ recovering.owners \in SUBSET Owners
      /\ recovering.candidate \in Gens \cup {NoGen} /\ recovering.due \in BOOLEAN
  BY DEF TypeOK, Entry, Recovery
<1>2. Held \in SUBSET Owners
  BY <1>1 DEF Held
<1>3. Observed \in Entry
  BY EntryState DEF TypeOK, Observed
<1>4. UnownedDrain \in Drain
  BY <1>1 DEF UnownedDrain, Drain
<1> QED  BY <1>1, <1>2, <1>3, <1>4 DEF TypeOK

LEMMA BgTyped ==
  NoBg \in BgThread /\ \A g \in Gens \cup {NoGen}, s \in {"probe", "attach", "poll", "settle"} :
    [NoBg EXCEPT !.step = s, !.gen = g] \in BgThread /\ [NoBg EXCEPT !.step = s] \in BgThread
  BY DEF NoBg, BgThread

LEMMA AuthorizedOwner ==
  ASSUME TypeOK, op.kind \in {"ensure", "recover"}, Authorized
  PROVE  op.owner \in Owners
  BY TypedParts DEF Authorized, TypeOK, Operation

LEMMA KilledTyped ==
  ASSUME TypeOK, NEW S
  PROVE  /\ Killed(S) \in [Gens -> {"unborn", "running", "crashed", "terminated"}]
         /\ TurnAfter(S) \in Gens \cup {NoGen}
  BY DEF TypeOK, Killed, TurnAfter

LEMMA PrepareTyped ==
  ASSUME TypeOK, NEW o \in Operation, PrepareReplacement(o)
  PROVE  accepting' \in SUBSET Gens /\ op' \in Operation
<1>1. [active |-> active.gen, recovering |-> NoGen] \in Drain
  BY TypedParts DEF Drain
<1> QED  BY <1>1, OperationStepDrain, OpStepNames DEF PrepareReplacement, TypeOK

LEMMA StepTyped ==
  ASSUME TypeOK, NEW s \in OpSteps, Step(s)
  PROVE  op' \in Operation
  BY OperationStep DEF Step, TypeOK

LEMMA RetryTyped ==
  ASSUME TypeOK, Retry
  PROVE  op' \in Operation
  BY OperationRetry DEF Retry, TypeOK

LEMMA FinishReplacementTyped ==
  ASSUME TypeOK, NEW d \in Drain, FinishReplacement(d)
  PROVE  /\ active' \in Entry /\ recovering' \in Recovery
         /\ proc' \in [Gens -> {"unborn", "running", "crashed", "terminated"}]
         /\ turn' \in Gens \cup {NoGen}
<1>1. [recovering EXCEPT !.owners = @ \cup active.owners] \in Recovery
  BY TypedParts, RecoveryOwners DEF TypeOK
<1>2. [gen |-> active.gen, candidate |-> NoGen, due |-> TRUE, owners |-> active.owners]
        \in Recovery
  BY TypedParts DEF Recovery
<1> QED  BY <1>1, <1>2, KilledTyped, ConstantRecords DEF FinishReplacement, TypeOK

LEMMA RemoveOwnersTyped ==
  ASSUME TypeOK, NEW S, RemoveOwners(S)
  PROVE  active' \in Entry /\ recovering' \in Recovery /\ accepting' \in SUBSET Gens
<1>1. active' \in Entry
  BY TypedParts, EntryOwners DEF RemoveOwners, TypeOK
<1>2. recovering' \in Recovery
  BY TypedParts, RecoveryOwners DEF RemoveOwners, TypeOK
<1> QED  BY <1>1, <1>2 DEF RemoveOwners, TypeOK

LEMMA ReleaseTyped ==
  ASSUME TypeOK, NEW S, Release(S)
  PROVE  /\ active' \in Entry /\ recovering' \in Recovery /\ accepting' \in SUBSET Gens
         /\ drains' \in SUBSET Drain /\ op' \in Operation
  BY RemoveOwnersTyped, TypedParts DEF Release, TypeOK

LEMMA FencedReleaseTyped ==
  ASSUME TypeOK, NEW S, FencedRelease(S)
  PROVE  /\ active' \in Entry /\ recovering' \in Recovery /\ accepting' \in SUBSET Gens
         /\ drains' \in SUBSET Drain /\ op' \in Operation
<1>1. [Idle EXCEPT !.kind = "releaseTab", !.step = "retire", !.drain = UnownedDrain]
        \in Operation
  <2>1. [Idle EXCEPT !.kind = "releaseTab"] \in Operation
    BY ConstantRecords DEF Operation, OperationRecord, OpKinds
  <2>2. [[Idle EXCEPT !.kind = "releaseTab"] EXCEPT !.step = "retire", !.drain = UnownedDrain]
          \in Operation
    BY <2>1, TypedParts, OperationStepDrain, OpStepNames
  <2> QED  BY <2>2
<1> QED  BY <1>1, RemoveOwnersTyped, ConstantRecords DEF FencedRelease, TypeOK

LEMMA FinishUnownedTyped ==
  ASSUME TypeOK, NEW d \in Drain, FinishUnowned(d)
  PROVE  /\ active' \in Entry /\ recovering' \in Recovery
         /\ generation' \in Gens \cup {NoGen} /\ detached' \in SUBSET Gens
  BY ConstantRecords DEF FinishUnowned, Retired, TypeOK

LEMMA RecordFailureTyped ==
  ASSUME TypeOK, RecordFailure
  PROVE  recovering' \in Recovery
  BY RecoveryDue DEF RecordFailure, TypeOK

LEMMA AttachIfCurrentTyped ==
  ASSUME TypeOK, AttachIfCurrent
  PROVE  active' \in Entry /\ recovering' \in Recovery
<1>1. active' \in Entry
  BY TypedParts, EntryOwners DEF AttachIfCurrent, TypeOK, Owners
<1>2. recovering' \in Recovery
  BY TypedParts, RecoveryOwners DEF AttachIfCurrent, TypeOK, Owners
<1> QED  BY <1>1, <1>2

LEMMA AttachLogicalTyped ==
  ASSUME TypeOK, AttachLogical
  PROVE  active' \in Entry /\ recovering' \in Recovery
<1>1. [Observed EXCEPT !.owners = @ \cup {Background}] \in Entry
  <2>1. Observed.owners \cup {Background} \in SUBSET Owners
    BY TypedParts DEF Entry, Owners
  <2> QED  BY <2>1, TypedParts, EntryOwners
<1>2. [recovering EXCEPT !.owners = @ \cup {Background}] \in Recovery
  <2>1. recovering.owners \cup {Background} \in SUBSET Owners
    BY TypedParts DEF Owners
  <2> QED  BY <2>1, RecoveryOwners DEF TypeOK
<1>3. Background \in Held \/ Background \notin Held
  OBVIOUS
<1> QED  BY <1>1, <1>2, AttachIfCurrentTyped DEF AttachLogical, TypeOK

(* One step per action: every action preserves TypeOK. *)
LEMMA TypeStep ==
  ASSUME TypeOK, [Next]_vars
  PROVE  TypeOK'
<1>1. ASSUME AcquireDispatch PROVE TypeOK'
  BY <1>1, TypedParts DEF AcquireDispatch, IsReady, IsReusable, HasActive, TypeOK,
      entryVars, gateVars, procVars
<1>2. ASSUME NoticeDeath PROVE TypeOK'
  BY <1>2, TypedParts DEF NoticeDeath, TypeOK, entryVars, gateVars, procVars
<1>3. ASSUME NEW g \in Gens, DropLease(g) PROVE TypeOK'
  BY <1>3 DEF DropLease, TypeOK, entryVars, gateVars, procVars
<1>4. ASSUME NEW g \in Gens, BeginTurn(g) PROVE TypeOK'
  BY <1>4 DEF BeginTurn, TypeOK, entryVars, gateVars, procVars
<1>5. ASSUME EndTurn PROVE TypeOK'
  BY <1>5 DEF EndTurn, TypeOK, entryVars, gateVars, procVars
<1>6. ASSUME NEW g \in Gens, Crash(g) PROVE TypeOK'
  BY <1>6, KilledTyped DEF Crash, Fault, TypeOK, entryVars, gateVars, procVars
<1>7. ASSUME NEW g \in Gens, DropDetached(g) PROVE TypeOK'
  BY <1>7, KilledTyped DEF DropDetached, TypeOK, entryVars, gateVars, procVars
<1>8. ASSUME NEW o \in Owners, ReleaseOwner(o) PROVE TypeOK'
  BY <1>8, ReleaseTyped DEF ReleaseOwner, TypeOK, entryVars, gateVars, procVars
<1>9. ASSUME NEW d \in drains, FinishOwnerRelease(d) PROVE TypeOK'
  BY <1>9, FinishUnownedTyped DEF FinishOwnerRelease, TypeOK, entryVars, gateVars,
      procVars
<1>10. ASSUME NEW o \in ReplyOwners, AdmitReply(o) PROVE TypeOK'
  BY <1>10, TypedParts, EntryOwners, RecoveryOwners DEF AdmitReply, Owners, TypeOK,
      entryVars, gateVars, procVars
<1>11. ASSUME NEW o \in TabOwners \cup AgentOwners, EnsureBegin(o) PROVE TypeOK'
  <2>1. o \in Owners
    BY <1>11 DEF Owners
  <2>2. [Idle EXCEPT !.kind = "ensure", !.step = "check", !.owner = o] \in Operation
    BY <2>1, ConstantRecords DEF Operation, OperationRecord, OpKinds, OpSteps
  <2> QED  BY <1>11, <2>2 DEF EnsureBegin, TypeOK, entryVars, gateVars, procVars
<1>12. ASSUME NEW o \in TabOwners, ReleaseTab(o) PROVE TypeOK'
  BY <1>12, FencedReleaseTyped DEF ReleaseTab, TypeOK, entryVars, gateVars, procVars
<1>13. ASSUME DeleteBegin PROVE TypeOK'
  <2>1. ASSUME NEW s \in OpSteps
        PROVE  [Idle EXCEPT !.kind = "delete", !.step = s] \in Operation
    BY ConstantRecords DEF Operation, OperationRecord, OpKinds
  <2> QED  BY <1>13, <2>1, OpStepNames DEF DeleteBegin, TypeOK, entryVars, gateVars,
          procVars
<1>14. ASSUME EnsureExhausted PROVE TypeOK'
  BY <1>14, RecordFailureTyped, ConstantRecords DEF EnsureExhausted, Finish, TypeOK,
      entryVars, gateVars, procVars
<1>15. ASSUME EnsureStale PROVE TypeOK'
  BY <1>15, ConstantRecords DEF EnsureStale, Finish, TypeOK, entryVars, gateVars,
      procVars
<1>16. ASSUME CheckAbsent PROVE TypeOK'
  BY <1>16, StepTyped, OpStepNames DEF CheckAbsent, TypeOK, entryVars, gateVars,
      procVars
<1>17. ASSUME CheckDead PROVE TypeOK'
  BY <1>17, TypedParts, PrepareTyped DEF CheckDead, TypeOK, entryVars, gateVars,
      procVars
<1>18. ASSUME CheckReusable PROVE TypeOK'
  <2>1. [op EXCEPT !.step = "probe", !.gen = generation] \in Operation
    BY OpStepNames DEF TypeOK, Operation, OperationRecord
  <2> QED  BY <1>18, <2>1 DEF CheckReusable, TypeOK, entryVars, gateVars, procVars
<1>19. ASSUME CheckDrift PROVE TypeOK'
  <2>1. [op EXCEPT !.clear = TRUE] \in Operation
    BY DEF TypeOK, Operation, OperationRecord
  <2> QED  BY <1>19, <2>1, PrepareTyped DEF CheckDrift, Fault, TypeOK, entryVars,
          gateVars, procVars
<1>20. ASSUME CheckDraining PROVE TypeOK'
  <2>1. [active |-> active.gen, recovering |-> NoGen] \in Drain
    BY TypedParts DEF Drain
  <2> QED  BY <1>20, <2>1, TypedParts, OperationStepDrain, OpStepNames DEF
          CheckDraining, TypeOK, entryVars, gateVars, procVars
<1>21. ASSUME AwaitDrained PROVE TypeOK'
  <2>1. CASE Held = {} /\ (HasActive \/ HasRecovery)
    <3>1. [op EXCEPT !.step = "retire", !.drain = UnownedDrain] \in Operation
      BY TypedParts, OperationStepDrain, OpStepNames
    <3> QED  BY <1>21, <2>1, <3>1 DEF AwaitDrained, TypeOK, entryVars, gateVars,
            procVars
  <2>2. CASE ~(Held = {} /\ (HasActive \/ HasRecovery))
    BY <1>21, <2>2, RetryTyped DEF AwaitDrained, TypeOK, entryVars, gateVars, procVars
  <2> QED  BY <2>1, <2>2<1>22. ASSUME RetireUnowned PROVE TypeOK'
  <2>1. op.drain \in Drain
    BY TypedParts, OperationFields
  <2>2. op' \in Operation
    <3> DEFINE e == [active |-> IF op.drain.active \in Retired(op.drain) THEN op.drain.active ELSE NoGen,
                     recovering |-> IF op.drain.recovering \in Retired(op.drain) THEN op.drain.recovering ELSE NoGen]
    <3>1. e \in Drain
      BY DEF Drain, Retired
    <3> QED  BY <1>22, <3>1, TypedParts, OperationStepDrain, OpStepNames DEF
            RetireUnowned
  <2> QED  BY <1>22, <2>1, <2>2, FinishUnownedTyped DEF RetireUnowned, TypeOK,
          entryVars, gateVars, procVars
<1>23. ASSUME ReapRetired PROVE TypeOK'
  BY <1>23, RetryTyped, StepTyped, OpStepNames, ConstantRecords DEF ReapRetired,
      Finish, TypeOK, entryVars, gateVars, procVars
<1>24. ASSUME ProbeReplaced PROVE TypeOK'
  BY <1>24, TypedParts, RetryTyped, StepTyped, OpStepNames DEF ProbeReplaced, TypeOK,
      entryVars, gateVars, procVars
<1>25. ASSUME ProbeHealthy PROVE TypeOK'
  <2>1. CASE IsReusable
    <3>1. op.owner \in Owners
      BY <1>25, AuthorizedOwner DEF ProbeHealthy, Ensuring
    <3>2. [active EXCEPT !.owners = @ \cup {op.owner}] \in Entry
      BY <3>1, TypedParts, EntryOwners DEF TypeOK
    <3> QED  BY <1>25, <2>1, <3>2, StepTyped, OpStepNames DEF ProbeHealthy, TypeOK,
            entryVars, gateVars, procVars
  <2>2. CASE ~IsReusable
    BY <1>25, <2>2, StepTyped, OpStepNames DEF ProbeHealthy, TypeOK, entryVars,
        gateVars, procVars
  <2> QED  BY <2>1, <2>2<1>26. ASSUME ProbeUnhealthy PROVE TypeOK'
  BY <1>26, TypedParts, PrepareTyped, StepTyped, OpStepNames DEF ProbeUnhealthy,
      Fault, NoFault, TypeOK, entryVars, gateVars, procVars
<1>27. ASSUME ReplaceDrained PROVE TypeOK'
  <2>1. op.drain \in Drain
    BY TypedParts, OperationFields
  <2>2. ASSUME NEW s \in OpSteps
        PROVE  [op EXCEPT !.drain = NoDrain, !.clear = FALSE, !.step = s] \in Operation
    BY ConstantRecords DEF TypeOK, Operation, OperationRecord
  <2>3. op' \in Operation
    BY <1>27, <2>2, OpStepNames DEF ReplaceDrained
  <2> QED  BY <1>27, <2>1, <2>3, FinishReplacementTyped DEF ReplaceDrained, TypeOK,
          entryVars, gateVars, procVars
<1>28. ASSUME CreateRetry PROVE TypeOK'
  BY <1>28, RetryTyped DEF CreateRetry, TypeOK, entryVars, gateVars, procVars
<1>29. ASSUME CreateDead PROVE TypeOK'
  BY <1>29, TypedParts, PrepareTyped DEF CreateDead, TypeOK, entryVars, gateVars,
      procVars
<1>30. ASSUME CreateSpawned PROVE TypeOK'
  <2>1. lastGen + 1 \in Gens /\ lastGen' \in 0 .. MaxGen
    BY <1>30 DEF CreateSpawned, Reserve, TypeOK, Gens
  <2>2. op.owner \in Owners
    BY <1>30, AuthorizedOwner DEF CreateSpawned, Reserve, Ensuring
  <2>3. active' \in Entry
    BY <1>30, <2>1, <2>2 DEF CreateSpawned, Entry
  <2>4. recovering' \in Recovery
    BY <1>30, <2>1, RecoveryCandidate DEF CreateSpawned, Candidate, TypeOK
  <2>5. op' \in Operation
    BY <1>30, <2>1, TypedParts, OpStepNames DEF CreateSpawned, Operation,
        OperationRecord
  <2>6. proc' \in [Gens -> {"unborn", "running", "crashed", "terminated"}]
    BY <1>30, <2>1 DEF CreateSpawned, TypeOK
  <2> QED  BY <1>30, <2>1, <2>3, <2>4, <2>5, <2>6 DEF CreateSpawned, TypeOK,
          entryVars, gateVars, procVars
<1>31. ASSUME CreateFailed PROVE TypeOK'
  <2>1. lastGen + 1 \in Gens /\ lastGen' \in 0 .. MaxGen
    BY <1>31 DEF CreateFailed, Reserve, TypeOK, Gens
  <2>2. Candidate(recovering) \in Recovery
    BY <2>1, RecoveryCandidate DEF Candidate, TypeOK
  <2>3. recovering' \in Recovery
    <3>1. Candidate(recovering).due \in BOOLEAN
      BY <2>2 DEF Recovery
    <3>2. \A b \in BOOLEAN : [Candidate(recovering) EXCEPT !.due = b] \in Recovery
      BY <2>2, RecoveryDue
    <3> QED  BY <1>31, <3>1, <3>2 DEF CreateFailed, TypeOK
  <2>4. faults' \in 0 .. MaxFaults
    BY <1>31 DEF CreateFailed, Fault, TypeOK
  <2> QED  BY <1>31, <2>1, <2>3, <2>4, ConstantRecords DEF CreateFailed, Finish,
          TypeOK, entryVars, gateVars, procVars
<1>32. ASSUME BootReady PROVE TypeOK'
  BY <1>32, StepTyped, OpStepNames, EntryState DEF BootReady, TypeOK, entryVars,
      gateVars, procVars
<1>33. ASSUME BootFailed PROVE TypeOK'
  <2>1. op' \in Operation
    BY <1>33, StepTyped, OpStepNames DEF BootFailed
  <2>2. faults' \in 0 .. MaxFaults
    BY <1>33 DEF BootFailed, Fault, NoFault, TypeOK
  <2>3. active' \in Entry /\ detached' \in SUBSET Gens
    <3>1. op.gen \in Gens \cup {NoGen}
      BY TypedParts, OperationFields
    <3>2. CASE HasActive /\ active.gen = op.gen
      BY <1>33, <3>1, <3>2, ConstantRecords DEF BootFailed, HasActive, TypeOK
    <3>3. CASE ~(HasActive /\ active.gen = op.gen)
      BY <1>33, <3>3 DEF BootFailed, TypeOK
    <3> QED  BY <3>2, <3>3
  <2> QED  BY <1>33, <2>1, <2>2, <2>3 DEF BootFailed, TypeOK, entryVars, gateVars,
          procVars
<1>34. ASSUME BootDiscarded PROVE TypeOK'
  BY <1>34, RecordFailureTyped, ConstantRecords DEF BootDiscarded, Finish, TypeOK,
      entryVars, gateVars, procVars
<1>35. ASSUME Commit PROVE TypeOK'
  <2>1. active' \in Entry
    BY <1>35, TypedParts, EntryOwners DEF Commit, TypeOK
  <2> QED  BY <1>35, <2>1, KilledTyped, ConstantRecords DEF Commit, Finish, TypeOK,
          entryVars, gateVars, procVars
<1>36. ASSUME CommitReused PROVE TypeOK'
  BY <1>36, ConstantRecords DEF CommitReused, Finish, TypeOK, entryVars, gateVars,
      procVars
<1>37. ASSUME CommitRejected PROVE TypeOK'
  BY <1>37, RecordFailureTyped, ConstantRecords DEF CommitRejected, Finish, TypeOK,
      entryVars, gateVars, procVars
<1>38. ASSUME MonitorScan PROVE TypeOK'
  BY <1>38, TypedParts DEF MonitorScan, TypeOK, entryVars, gateVars, procVars
<1>39. ASSUME MonitorBegin PROVE TypeOK'
  <2> DEFINE o == [Idle EXCEPT !.kind = "recover"]
  <2>1. o \in Operation /\ [o EXCEPT !.step = "dispatch"] \in Operation
    BY ConstantRecords DEF Operation, OperationRecord, OpKinds, OpSteps
  <2>2. CASE HasActive
    BY <1>39, <2>1, <2>2, PrepareTyped DEF MonitorBegin, TypeOK, entryVars, gateVars,
        procVars
  <2>3. CASE ~HasActive
    BY <1>39, <2>1, <2>3 DEF MonitorBegin, TypeOK, entryVars, gateVars, procVars
  <2> QED  BY <2>2, <2>3
<1>40. ASSUME MonitorDispatch PROVE TypeOK'
  <2>1. ASSUME NEW o \in recovering.owners
        PROVE  [op EXCEPT !.step = "check", !.owner = o, !.epoch = recovering.gen] \in Operation
    BY TypedParts, OpStepNames DEF Operation, OperationRecord
  <2>2. op' \in Operation
    <3>1. CASE HasRecovery /\ recovering.owners # {} /\ recovering.due
      BY <1>40, <2>1, <3>1 DEF MonitorDispatch
    <3>2. CASE ~(HasRecovery /\ recovering.owners # {} /\ recovering.due)
      BY <1>40, <3>2, ConstantRecords DEF MonitorDispatch, Finish
    <3> QED  BY <3>1, <3>2
  <2> QED  BY <1>40, <2>2 DEF MonitorDispatch, TypeOK, entryVars, gateVars, procVars
<1>41. ASSUME RetryClock PROVE TypeOK'
  BY <1>41, RecoveryDue DEF RetryClock, TypeOK, entryVars, gateVars, procVars
<1>42. ASSUME BgBind PROVE TypeOK'
  BY <1>42, BgTyped DEF BgBind, TypeOK, entryVars, gateVars, procVars
<1>43. ASSUME BgProbe PROVE TypeOK'
  BY <1>43, BgTyped DEF BgProbe, BgThread, TypeOK, entryVars, gateVars, procVars
<1>44. ASSUME BgAttach PROVE TypeOK'
  BY <1>44, BgTyped, AttachIfCurrentTyped, AttachLogicalTyped DEF BgAttach, TypeOK,
      entryVars, gateVars, procVars
<1>45. ASSUME BgHeadless PROVE TypeOK'
  BY <1>45, BgTyped, AttachLogicalTyped DEF BgHeadless, TypeOK, entryVars, gateVars,
      procVars
<1>46. ASSUME BgPoll PROVE TypeOK'
  <2>1. active' \in Entry
    BY <1>46, TypedParts DEF BgPoll, TypeOK
  <2>2. \A i \in BOOLEAN : [step |-> "settle", gen |-> generation, idle |-> i] \in BgThread
    BY DEF TypeOK, BgThread
  <2>3. (turn # generation) \in BOOLEAN
    OBVIOUS
  <2>4. bg' \in BgThread
    BY <1>46, <2>2, <2>3, BgTyped DEF BgPoll, TypeOK
  <2> QED  BY <1>46, <2>1, <2>4 DEF BgPoll, TypeOK, entryVars, gateVars, procVars
<1>47. ASSUME BgSettle PROVE TypeOK'
  BY <1>47, BgTyped, TypedParts DEF BgSettle, TypeOK, entryVars, gateVars, procVars
<1>48. ASSUME BgRelease PROVE TypeOK'
  <2>1. faults' \in 0 .. MaxFaults
    BY <1>48 DEF BgRelease, Fault, NoFault, TypeOK
  <2>2. bg' \in BgThread
    BY <1>48, BgTyped DEF BgRelease, BgThread
  <2> QED  BY <1>48, <2>1, <2>2, ReleaseTyped DEF BgRelease, TypeOK, entryVars,
          gateVars, procVars
<1>49. ASSUME BgTimeout PROVE TypeOK'
  BY <1>49, BgTyped, ReleaseTyped DEF BgTimeout, TypeOK, entryVars, gateVars, procVars
<1>50. ASSUME ReconcileTab PROVE TypeOK'
  BY <1>50, TypedParts, EntryOwners, RecoveryOwners DEF ReconcileTab, TypeOK,
      entryVars, gateVars, procVars
<1>51. ASSUME DeleteRefused PROVE TypeOK'
  BY <1>51, ConstantRecords DEF DeleteRefused, Finish, Fault, NoFault, TypeOK,
      entryVars, gateVars, procVars
<1>52. ASSUME DeleteActivity PROVE TypeOK'
  BY <1>52, StepTyped, OpStepNames DEF DeleteActivity, TypeOK, entryVars, gateVars,
      procVars
<1>53. ASSUME DeleteRecheck PROVE TypeOK'
  BY <1>53, StepTyped, OpStepNames DEF DeleteRecheck, TypeOK, entryVars, gateVars,
      procVars
<1>54. ASSUME DeleteClose PROVE TypeOK'
  BY <1>54, PrepareTyped, StepTyped, OpStepNames DEF DeleteClose, TypeOK, TypeOK,
      entryVars, gateVars, procVars
<1>55. ASSUME DeleteKill PROVE TypeOK'
  BY <1>55, KilledTyped, StepTyped, OpStepNames DEF DeleteKill, TypeOK, entryVars,
      gateVars, procVars
<1>56. ASSUME DeleteConfirm PROVE TypeOK'
  <2>1. CASE Held = {} /\ (HasActive \/ HasRecovery)
    <3>1. [op EXCEPT !.step = "retire", !.drain = UnownedDrain] \in Operation
      BY TypedParts, OperationStepDrain, OpStepNames
    <3> QED  BY <1>56, <2>1, <3>1 DEF DeleteConfirm, TypeOK, entryVars, gateVars,
            procVars
  <2>2. CASE ~(Held = {} /\ (HasActive \/ HasRecovery))
    BY <1>56, <2>2, StepTyped, OpStepNames DEF DeleteConfirm, TypeOK, entryVars,
        gateVars, procVars
  <2> QED  BY <2>1, <2>2<1>57. ASSUME DeleteUnlink PROVE TypeOK'
  BY <1>57, StepTyped, OpStepNames DEF DeleteUnlink, TypeOK, entryVars, gateVars,
      procVars
<1>58. ASSUME DeleteReleaseTabs PROVE TypeOK'
  BY <1>58, FencedReleaseTyped DEF DeleteReleaseTabs, TypeOK, entryVars, gateVars,
      procVars
<1>59. ASSUME UNCHANGED vars PROVE TypeOK'
  BY <1>59 DEF vars, TypeOK, entryVars, gateVars, procVars
<1> QED
  BY <1>1, <1>2, <1>3, <1>4, <1>5, <1>6, <1>7, <1>8, <1>9, <1>10, <1>11, <1>12, <1>13,
      <1>14, <1>15, <1>16, <1>17, <1>18, <1>19, <1>20, <1>21, <1>22, <1>23, <1>24,
      <1>25, <1>26, <1>27, <1>28, <1>29, <1>30, <1>31, <1>32, <1>33, <1>34, <1>35,
      <1>36, <1>37, <1>38, <1>39, <1>40, <1>41, <1>42, <1>43, <1>44, <1>45, <1>46,
      <1>47, <1>48, <1>49, <1>50, <1>51, <1>52, <1>53, <1>54, <1>55, <1>56, <1>57,
      <1>58, <1>59
  DEF Next, FencedStep, EnsureStep, DeleteStep, BgStep

LEMMA TypeInit == Init => TypeOK
<1>1. Init => proc \in [Gens -> {"unborn", "running", "crashed", "terminated"}]
              /\ inFlight \in [Gens -> 0 .. MaxLeases]
  BY DEF Init
<1> QED  BY <1>1, ConstantRecords DEF Init, TypeOK, BgThread

(* Every state the manager, its operations and its threads reach is one    *)
(* the declarations of the fields allow.                                   *)
THEOREM TypeCorrect == Spec => []TypeOK
  BY TypeInit, TypeStep, PTL DEF Spec

-----------------------------------------------------------------------------
(* Safety.  First what the shared operations do to the parts of the records *)
(* the invariant speaks of: which entry, in which state, at which step.    *)

LEMMA EntryParts ==
  ASSUME NEW e \in Entry
  PROVE  /\ \A S : [e EXCEPT !.owners = S].gen = e.gen /\ [e EXCEPT !.owners = S].state = e.state
         /\ \A s : /\ [e EXCEPT !.state = s].gen = e.gen
                   /\ [e EXCEPT !.state = s].state = s
                   /\ [e EXCEPT !.state = s].owners = e.owners
  BY DEF Entry

LEMMA RecoveryParts ==
  ASSUME NEW r \in Recovery
  PROVE  /\ \A S : [r EXCEPT !.owners = S].gen = r.gen
         /\ \A b : [r EXCEPT !.due = b].gen = r.gen
         /\ \A c : [r EXCEPT !.candidate = c].gen = r.gen
  BY DEF Recovery

LEMMA ObservedParts ==
  ASSUME TypeOK
  PROVE  /\ Observed.gen = active.gen /\ Observed.owners = active.owners
         /\ Observed.state \in {active.state, "Dead"}
         /\ IsDead => Observed.state = "Dead"
  BY EntryParts DEF Observed, TypeOK

LEMMA StepParts ==
  ASSUME TypeOK, NEW s, Step(s)
  PROVE  /\ op'.step = s /\ op'.kind = op.kind /\ op'.drain = op.drain /\ op'.gen = op.gen
         /\ op'.owner = op.owner
  BY DEF Step, TypeOK, Operation, OperationRecord

LEMMA RetryParts ==
  ASSUME TypeOK, Retry
  PROVE  op'.step = "check" /\ op'.kind = op.kind /\ op'.drain = NoDrain
  BY DEF Retry, TypeOK, Operation, OperationRecord

LEMMA IdleParts ==
  Idle.step = "none" /\ Idle.kind = "none" /\ Idle.drain = NoDrain /\ NoDrain.active = NoGen
    /\ NoEntry.gen = NoGen /\ NoEntry.state = "Dead" /\ NoRecovery.gen = NoGen
  BY DEF Idle, NoDrain, NoEntry, NoRecovery

LEMMA PrepareParts ==
  ASSUME TypeOK, NEW o \in Operation, PrepareReplacement(o)
  PROVE  /\ accepting' = accepting \ {active.gen}
         /\ op'.step = "replace" /\ op'.kind = o.kind /\ op'.drain.active = active.gen
  BY DEF PrepareReplacement, Operation, OperationRecord

LEMMA RemoveOwnersParts ==
  ASSUME TypeOK, NEW S, RemoveOwners(S)
  PROVE  /\ active'.gen = active.gen /\ active'.state = active.state
         /\ recovering'.gen = recovering.gen
         /\ accepting' \in {accepting, accepting \ {active.gen, recovering.gen}}
         /\ LastRemoved(S) => accepting' = accepting \ {active.gen, recovering.gen}
  BY EntryParts, RecoveryParts DEF RemoveOwners, TypeOK

LEMMA RecordFailureParts ==
  ASSUME TypeOK, RecordFailure
  PROVE  recovering'.gen = recovering.gen
  BY RecoveryParts DEF RecordFailure, TypeOK

LEMMA AttachIfCurrentParts ==
  ASSUME TypeOK, AttachIfCurrent
  PROVE  /\ active'.gen = active.gen /\ active'.state = active.state
         /\ recovering'.gen = recovering.gen
  BY EntryParts, RecoveryParts DEF AttachIfCurrent, TypeOK

LEMMA AttachLogicalParts ==
  ASSUME TypeOK, AttachLogical
  PROVE  /\ active'.gen = active.gen /\ active'.state \in {active.state, "Dead"}
         /\ recovering'.gen = recovering.gen
<1>1. /\ [Observed EXCEPT !.owners = @ \cup {Background}].gen = active.gen
      /\ [Observed EXCEPT !.owners = @ \cup {Background}].state \in {active.state, "Dead"}
  BY TypedParts, ObservedParts, EntryParts
<1>2. [recovering EXCEPT !.owners = @ \cup {Background}].gen = recovering.gen
  BY RecoveryParts DEF TypeOK
<1> QED  BY <1>1, <1>2, AttachIfCurrentParts DEF AttachLogical


(* Most steps leave every entry, gate and process alone, but for a death   *)
(* that is noticed, and only move the fence holder on.                     *)
SameProcesses ==
  /\ active'.gen = active.gen /\ active'.state \in {active.state, "Dead", "Healthy"}
  /\ recovering'.gen = recovering.gen
  /\ UNCHANGED <<generation, lastGen, gateVars, proc, detached, drains>>

LEMMA NextOperation ==
  ASSUME SafetyInv, SameProcesses,
         op'.drain.active <= lastGen, op'.step \notin {"replace", "retire"},
         DeleteQuiet', StartingIsPrivate'
  PROVE  SafetyInv'
<1> USE DEF SafetyInv, SameProcesses, gateVars
<1>1. FreshGens'
  BY DEF FreshGens
<1>2. KnownGens'
  BY DEF KnownGens
<1>3. Disjoint'
  BY DEF Disjoint
<1>4. DrainsClosed' /\ ReplacesCurrent'
  BY DEF DrainsClosed, ReplacesCurrent
<1>5. OneAdmitting'
  BY DEF OneAdmitting
<1>6. RecoveryIsDrained'
  BY DEF RecoveryIsDrained, HasRecovery
<1>7. NoKillUnderLease'
  BY DEF NoKillUnderLease
<1> QED  BY <1>1, <1>2, <1>3, <1>4, <1>5, <1>6, <1>7

LEMMA SameOperation ==
  ASSUME SafetyInv, SameProcesses, op' = op
  PROVE  SafetyInv'
<1> USE DEF SafetyInv, SameProcesses, gateVars
<1>1. FreshGens'
  BY DEF FreshGens
<1>2. KnownGens'
  BY DEF KnownGens
<1>3. Disjoint'
  BY DEF Disjoint
<1>4. DrainsClosed'
  BY DEF DrainsClosed
<1>5. ReplacesCurrent'
  BY DEF ReplacesCurrent
<1>6. OneAdmitting'
  BY DEF OneAdmitting
<1>7. RecoveryIsDrained'
  BY DEF RecoveryIsDrained, HasRecovery
<1>8. NoKillUnderLease'
  BY DEF NoKillUnderLease
<1>9. DeleteQuiet'
  BY DEF DeleteQuiet, HasRecovery, Exited
<1>10. StartingIsPrivate'
  BY DEF StartingIsPrivate, HasActive
<1> QED  BY <1>1, <1>2, <1>3, <1>4, <1>5, <1>6, <1>7, <1>8, <1>9, <1>10

LEMMA NextEnsure ==
  ASSUME SafetyInv, SameProcesses, op.step # "boot",
         op'.drain.active <= lastGen, op'.step \notin {"replace", "retire"}, op'.kind # "delete"
  PROVE  SafetyInv'
<1>1. DeleteQuiet'
  BY DEF DeleteQuiet
<1>2. StartingIsPrivate'
  BY DEF SafetyInv, StartingIsPrivate, SameProcesses
<1> QED  BY <1>1, <1>2, NextOperation

(* An entry is about to be displaced: its gate is closed, and the drain    *)
(* names it.                                                               *)
LEMMA PrepareSafe ==
  ASSUME TypeOK, SafetyInv, NEW o \in Operation, PrepareReplacement(o), op.step # "boot",
         active'.gen = active.gen, active'.state \in {active.state, "Dead"},
         recovering'.gen = recovering.gen,
         UNCHANGED <<generation, lastGen, inFlight, proc, detached, drains>>
  PROVE  SafetyInv'
<1> USE PrepareParts DEF SafetyInv
<1>1. FreshGens'
  BY DEF FreshGens
<1>2. KnownGens'
  BY DEF KnownGens
<1>3. Disjoint'
  BY DEF Disjoint
<1>4. DrainsClosed'
  BY DEF DrainsClosed
<1>5. ReplacesCurrent'
  BY DEF ReplacesCurrent
<1>6. OneAdmitting'
  BY DEF OneAdmitting
<1>7. RecoveryIsDrained'
  BY DEF RecoveryIsDrained, HasRecovery
<1>8. NoKillUnderLease'
  BY DEF NoKillUnderLease
<1>9. DeleteQuiet'
  BY DEF DeleteQuiet
<1>10. StartingIsPrivate'
  BY DEF StartingIsPrivate, HasActive
<1> QED  BY <1>1, <1>2, <1>3, <1>4, <1>5, <1>6, <1>7, <1>8, <1>9, <1>10

(* Owners leave without the fence: at most every gate is closed, and the   *)
(* drain of the last release names what is closed.                         *)
LEMMA ReleaseSafe ==
  ASSUME TypeOK, SafetyInv, NEW S, Release(S),
         UNCHANGED <<generation, lastGen, inFlight, proc, detached>>
  PROVE  SafetyInv'
<1> USE RemoveOwnersParts DEF SafetyInv, Release, UnownedDrain
<1>1. FreshGens'
  BY DEF FreshGens
<1>2. KnownGens'
  BY DEF KnownGens
<1>3. Disjoint'
  BY DEF Disjoint
<1>4. DrainsClosed'
  <2>1. \A d \in drains' : d.active \notin accepting'
    BY DEF DrainsClosed
  <2> QED  BY <2>1 DEF DrainsClosed
<1>5. ReplacesCurrent'
  BY DEF ReplacesCurrent
<1>6. OneAdmitting'
  BY DEF OneAdmitting
<1>7. RecoveryIsDrained'
  BY DEF RecoveryIsDrained, HasRecovery
<1>8. NoKillUnderLease'
  BY DEF NoKillUnderLease
<1>9. DeleteQuiet'
  BY DEF DeleteQuiet, HasRecovery, Exited
<1>10. StartingIsPrivate'
  BY DEF StartingIsPrivate, HasActive
<1> QED  BY <1>1, <1>2, <1>3, <1>4, <1>5, <1>6, <1>7, <1>8, <1>9, <1>10

LEMMA FencedReleaseSafe ==
  ASSUME TypeOK, SafetyInv, NEW S, FencedRelease(S), op.step # "boot",
         UNCHANGED <<generation, lastGen, inFlight, proc, detached>>
  PROVE  SafetyInv'
<1>1. /\ op'.step \in {"none", "retire"} /\ op'.kind # "delete"
      /\ op'.step = "retire" =>
           accepting' = accepting \ {active.gen, recovering.gen} /\ op'.drain.active = active.gen
      /\ op'.drain.active \in {active.gen, NoGen}
  BY RemoveOwnersParts, IdleParts DEF FencedRelease, UnownedDrain, Idle
<1> USE <1>1, RemoveOwnersParts DEF SafetyInv, FencedRelease
<1>2. FreshGens'
  BY DEF FreshGens
<1>3. KnownGens'
  <2>1. lastGen \in Nat /\ NoGen <= lastGen
    BY DEF TypeOK, NoGen
  <2> QED  BY <2>1 DEF KnownGens
<1>4. Disjoint'
  BY DEF Disjoint
<1>5. DrainsClosed'
  BY DEF DrainsClosed
<1>6. ReplacesCurrent'
  BY DEF ReplacesCurrent
<1>7. OneAdmitting'
  BY DEF OneAdmitting
<1>8. RecoveryIsDrained'
  BY DEF RecoveryIsDrained, HasRecovery
<1>9. NoKillUnderLease'
  BY DEF NoKillUnderLease
<1>10. DeleteQuiet'
  BY DEF DeleteQuiet
<1>11. StartingIsPrivate'
  BY DEF StartingIsPrivate, HasActive
<1> QED  BY <1>2, <1>3, <1>4, <1>5, <1>6, <1>7, <1>8, <1>9, <1>10, <1>11

(* Entries without an owner are taken out. *)
LEMMA FinishUnownedParts ==
  ASSUME TypeOK, SafetyInv, NEW d \in Drain, FinishUnowned(d)
  PROVE  /\ active'.gen \in {active.gen, NoGen} /\ active'.state \in {active.state, "Dead"}
         /\ recovering'.gen \in {recovering.gen, NoGen}
         /\ active'.gen # active.gen => active.gen = d.active
         /\ generation' \in {generation, NoGen}
         /\ active'.gen # NoGen => active'.gen = active.gen /\ generation' = generation
         /\ \A g \in detached' : g \in detached \/ (g # NoGen /\ g \in {active.gen, recovering.gen})
         /\ active'.gen \notin detached' /\ recovering'.gen \notin detached'
<1>1. NoGen \notin Retired(d)
  BY GenFacts DEF Retired
<1>2. active'.gen \in {active.gen, NoGen} /\ active'.state \in {active.state, "Dead"}
      /\ recovering'.gen \in {recovering.gen, NoGen}
  BY IdleParts DEF FinishUnowned
<1>3. generation' \in {generation, NoGen}
  BY DEF FinishUnowned
<1>4. \A g \in detached' : g \in detached \/ (g # NoGen /\ g \in {active.gen, recovering.gen})
  BY GenFacts DEF FinishUnowned, Retired
<1>5. active'.gen \notin detached' /\ recovering'.gen \notin detached'
  BY <1>1, IdleParts, GenFacts DEF FinishUnowned, SafetyInv, Disjoint, Retired, TypeOK
<1>6. active'.gen # NoGen => active'.gen = active.gen /\ generation' = generation
  BY <1>1, IdleParts DEF FinishUnowned
<1>7. active'.gen # active.gen => active.gen = d.active
  BY <1>1 DEF FinishUnowned, SafetyInv, Disjoint, Retired
<1> QED  BY <1>2, <1>3, <1>4, <1>5, <1>6, <1>7

LEMMA FinishUnownedSafe ==
  ASSUME TypeOK, SafetyInv, NEW d \in Drain, FinishUnowned(d), d.active \notin accepting,
         drains' \subseteq drains, UNCHANGED <<lastGen, gateVars, proc>>,
         op' = op \/ (op'.step = "reap" /\ op'.kind = op.kind /\ op.step = "retire"
                      /\ op'.drain.active \in {op.drain.active, NoGen})
  PROVE  SafetyInv'
<1>0. lastGen \in Nat /\ NoGen <= lastGen
  BY DEF TypeOK, NoGen
<1> USE <1>0, FinishUnownedParts DEF SafetyInv, gateVars
<1>2. FreshGens'
  BY GenFacts DEF FreshGens, KnownGens, TypeOK
<1>3. KnownGens'
  BY DEF KnownGens
<1>4. Disjoint'
  BY DEF Disjoint
<1>5. DrainsClosed'
  BY DEF DrainsClosed
<1>6. ReplacesCurrent'
  BY DEF ReplacesCurrent
<1>7. OneAdmitting'
  BY DEF OneAdmitting
<1>8. RecoveryIsDrained'
  BY DEF RecoveryIsDrained, HasRecovery
<1>9. NoKillUnderLease'
  BY DEF NoKillUnderLease
<1>10. DeleteQuiet'
  BY DEF DeleteQuiet, HasRecovery, Exited
<1>11. StartingIsPrivate'
  BY IdleParts DEF StartingIsPrivate, HasActive, FinishUnowned
<1> QED  BY <1>2, <1>3, <1>4, <1>5, <1>6, <1>7, <1>8, <1>9, <1>10, <1>11

(* The wait for the gate is over: the entry is displaced, or dropped under *)
(* the mutex when an earlier one is still being recovered.                 *)
LEMMA ReplaceSafe ==
  ASSUME TypeOK, SafetyInv, ReplaceDrained
  PROVE  SafetyInv'
<1>1. /\ op'.step \in {"kill", "dispatch", "create"} /\ op'.kind = op.kind
      /\ op'.drain = NoDrain /\ (op'.step = "kill" <=> op.kind = "delete")
  BY DEF ReplaceDrained, TypeOK, Operation, OperationRecord
<1>2. lastGen \in Nat /\ NoGen <= lastGen
  BY DEF TypeOK, NoGen
<1>3. active'.gen = NoGen /\ active'.state # "Starting"
  BY IdleParts DEF ReplaceDrained, FinishReplacement, SafetyInv, ReplacesCurrent,
      HasActive,
                   StartingIsPrivate
<1>4. NoGen \notin accepting => accepting = {}
  BY DEF ReplaceDrained, SafetyInv, DrainsClosed, OneAdmitting, ReplacesCurrent
<1>5. /\ recovering'.gen \in {recovering.gen, active.gen}
      /\ recovering'.gen # recovering.gen =>
           recovering.gen = NoGen /\ active.gen = op.drain.active
  <2>1. [recovering EXCEPT !.owners = @ \cup active.owners].gen = recovering.gen
    BY RecoveryParts DEF TypeOK
  <2>2. FinishReplacement(op.drain)
    BY DEF ReplaceDrained
  <2>3. CASE HasActive /\ active.gen = op.drain.active /\ HasRecovery
    BY <2>1, <2>2, <2>3 DEF FinishReplacement
  <2>4. CASE HasActive /\ active.gen = op.drain.active /\ ~HasRecovery
    BY <2>2, <2>4 DEF FinishReplacement, HasRecovery
  <2>5. CASE ~HasActive \/ active.gen # op.drain.active
    BY <2>2, <2>5 DEF FinishReplacement
  <2> QED  BY <2>3, <2>4, <2>5
<1>6. \A g \in Gens : \/ proc'[g] = proc[g]
                      \/ proc'[g] = "terminated" /\ g = op.drain.active
  BY DEF ReplaceDrained, FinishReplacement, Killed, TypeOK
<1>7. FreshGens'
  <2>1. \A g \in Gens : g > lastGen => g # op.drain.active
    BY <1>2, GenFacts DEF SafetyInv, KnownGens
  <2> QED  BY <1>6, <2>1 DEF SafetyInv, FreshGens, ReplaceDrained, gateVars
<1>8. KnownGens'
  BY <1>1, <1>2, <1>3, <1>5, IdleParts DEF SafetyInv, KnownGens, ReplaceDrained
<1>9. Disjoint'
  BY <1>2, <1>3, <1>5, GenFacts DEF SafetyInv, Disjoint, ReplaceDrained, TypeOK
<1>10. DrainsClosed'
  BY <1>1 DEF SafetyInv, DrainsClosed, ReplaceDrained, gateVars
<1>11. ReplacesCurrent'
  BY <1>1 DEF ReplacesCurrent
<1>12. OneAdmitting'
  BY <1>3, <1>4, GenFacts DEF OneAdmitting, ReplaceDrained, gateVars, TypeOK
<1>13. RecoveryIsDrained'
  BY <1>5 DEF SafetyInv, RecoveryIsDrained, DrainsClosed, ReplaceDrained, Drained,
              HasRecovery, gateVars
<1>14. NoKillUnderLease'
  BY <1>6, GenFacts DEF SafetyInv, NoKillUnderLease, ReplaceDrained, Drained, gateVars
<1>15. DeleteQuiet'
  BY <1>1, <1>3 DEF DeleteQuiet
<1>16. StartingIsPrivate'
  BY <1>3 DEF StartingIsPrivate
<1> QED  BY <1>7, <1>8, <1>9, <1>10, <1>11, <1>12, <1>13, <1>14, <1>15, <1>16 DEF
        SafetyInv

(* A generation is reserved whatever becomes of the spawn. *)
LEMMA CreateFailedSafe ==
  ASSUME TypeOK, SafetyInv, CreateFailed
  PROVE  SafetyInv'
<1>1. lastGen \in Nat /\ lastGen' = lastGen + 1 /\ NoGen <= lastGen /\ active.gen = NoGen
  BY DEF CreateFailed, Reserve, HasActive, TypeOK, NoGen
<1>2. recovering'.gen = recovering.gen
  <2>1. Candidate(recovering) \in Recovery /\ Candidate(recovering).gen = recovering.gen
    <3>1. lastGen + 1 \in Gens
      BY DEF CreateFailed, Reserve, TypeOK, Gens
    <3> QED  BY <3>1, RecoveryCandidate, RecoveryParts DEF Candidate, TypeOK
  <2>2. \A b : [Candidate(recovering) EXCEPT !.due = b].gen = recovering.gen
    BY <2>1, RecoveryParts
  <2> QED  BY <2>1, <2>2 DEF CreateFailed
<1>3. op' = Idle
  BY DEF CreateFailed, Finish
<1> USE <1>1, <1>2, <1>3, IdleParts DEF SafetyInv, CreateFailed, gateVars, procVars
<1>4. FreshGens'
  BY DEF FreshGens, Gens, TypeOK
<1>5. KnownGens'
  <2>1. recovering.gen \in Nat /\ recovering.gen <= lastGen
    BY TypedParts, GenFacts DEF KnownGens
  <2>2. \A d \in drains : d.active \in Nat /\ d.active <= lastGen
    BY GenFacts DEF KnownGens, TypeOK, Drain
  <2> QED  BY <2>1, <2>2, GenFacts DEF KnownGens
<1>6. Disjoint'
  BY DEF Disjoint
<1>7. DrainsClosed'
  BY DEF DrainsClosed
<1>8. ReplacesCurrent'
  BY DEF ReplacesCurrent
<1>9. OneAdmitting'
  BY DEF OneAdmitting
<1>10. RecoveryIsDrained'
  BY DEF RecoveryIsDrained, HasRecovery
<1>11. NoKillUnderLease'
  BY DEF NoKillUnderLease
<1>12. DeleteQuiet'
  BY DEF DeleteQuiet
<1>13. StartingIsPrivate'
  BY DEF StartingIsPrivate, Reserve, Ensuring
<1> QED  BY <1>4, <1>5, <1>6, <1>7, <1>8, <1>9, <1>10, <1>11, <1>12, <1>13

(* The displaced process, drained before, is dropped under the mutex. *)
LEMMA CommitSafe ==
  ASSUME TypeOK, SafetyInv, Commit
  PROVE  SafetyInv'
<1>1. /\ active'.gen = active.gen /\ active'.state = active.state
      /\ recovering'.gen = NoGen /\ op' = Idle
  BY EntryParts, IdleParts DEF Commit, Finish, TypeOK
<1>2. \A g \in Gens : \/ proc'[g] = proc[g]
                      \/ proc[g] = "running" /\ proc'[g] = "terminated" /\ g = recovering.gen
  BY DEF Commit, Killed, TypeOK
<1>3. lastGen \in Nat /\ NoGen <= lastGen
  BY DEF TypeOK, NoGen
<1> USE <1>1, <1>2, <1>3, IdleParts DEF SafetyInv, Commit, gateVars
<1>4. FreshGens'
  BY DEF FreshGens
<1>5. KnownGens'
  BY DEF KnownGens
<1>6. Disjoint'
  BY GenFacts DEF Disjoint, TypeOK
<1>7. DrainsClosed'
  BY DEF DrainsClosed
<1>8. ReplacesCurrent'
  BY DEF ReplacesCurrent
<1>9. OneAdmitting'
  BY DEF OneAdmitting
<1>10. RecoveryIsDrained'
  BY DEF RecoveryIsDrained, HasRecovery
<1>11. NoKillUnderLease'
  BY GenFacts DEF NoKillUnderLease, RecoveryIsDrained, HasRecovery
<1>12. DeleteQuiet'
  BY DEF DeleteQuiet
<1>13. StartingIsPrivate'
  BY DEF CanCommit, StartingIsPrivate
<1> QED  BY <1>4, <1>5, <1>6, <1>7, <1>8, <1>9, <1>10, <1>11, <1>12, <1>13

LEMMA NoGenKnown ==
  ASSUME TypeOK
  PROVE  lastGen \in Nat /\ NoGen <= lastGen
  BY DEF TypeOK, NoGen

LEMMA NextDelete ==
  ASSUME SafetyInv, SameProcesses, op.kind \in {"delete", "none"},
         op'.drain.active <= lastGen, op'.step \notin {"replace", "retire"}, DeleteQuiet'
  PROVE  SafetyInv'
<1>1. StartingIsPrivate'
  BY DEF SafetyInv, StartingIsPrivate, SameProcesses
<1> QED  BY <1>1, NextOperation

(* Every gate is closed, by the fence holder that waits for the drain. *)
LEMMA CloseSafe ==
  ASSUME SafetyInv, op.step # "boot",
         accepting' = accepting \ {active.gen, recovering.gen},
         op' = [op EXCEPT !.step = "retire", !.drain = UnownedDrain], op \in Operation,
         op.kind = "delete" => op.step = "confirm" /\ (HasRecovery => Exited(recovering.gen)),
         UNCHANGED <<entryVars, inFlight, proc, detached, drains>>
  PROVE  SafetyInv'
<1>1. op'.step = "retire" /\ op'.kind = op.kind /\ op'.drain.active = active.gen
  BY DEF Operation, OperationRecord, UnownedDrain
<1> USE <1>1 DEF SafetyInv, entryVars
<1>2. FreshGens'
  BY DEF FreshGens
<1>3. KnownGens'
  BY DEF KnownGens
<1>4. Disjoint'
  BY DEF Disjoint
<1>5. DrainsClosed'
  BY DEF DrainsClosed
<1>6. ReplacesCurrent'
  BY DEF ReplacesCurrent
<1>7. OneAdmitting'
  BY DEF OneAdmitting
<1>8. RecoveryIsDrained'
  BY DEF RecoveryIsDrained, HasRecovery
<1>9. NoKillUnderLease'
  BY DEF NoKillUnderLease
<1>10. DeleteQuiet'
  BY DEF DeleteQuiet, HasRecovery, Exited
<1>11. StartingIsPrivate'
  BY DEF StartingIsPrivate, HasActive
<1> QED  BY <1>2, <1>3, <1>4, <1>5, <1>6, <1>7, <1>8, <1>9, <1>10, <1>11

(* Requests and processes come and go while the manager's entries stay. *)
LEMMA ProcessSafe ==
  ASSUME SafetyInv, UNCHANGED <<entryVars, accepting, drains, op>>, detached' \subseteq detached,
         FreshGens', RecoveryIsDrained', NoKillUnderLease', DeleteQuiet'
  PROVE  SafetyInv'
<1> USE DEF SafetyInv, entryVars
<1>1. KnownGens'
  BY DEF KnownGens
<1>2. Disjoint'
  BY DEF Disjoint
<1>3. DrainsClosed'
  BY DEF DrainsClosed
<1>4. ReplacesCurrent'
  BY DEF ReplacesCurrent
<1>5. OneAdmitting'
  BY DEF OneAdmitting
<1>6. StartingIsPrivate'
  BY DEF StartingIsPrivate, HasActive
<1> QED  BY <1>1, <1>2, <1>3, <1>4, <1>5, <1>6

LEMMA AcquireSafe ==
  ASSUME TypeOK, SafetyInv, AcquireDispatch
  PROVE  SafetyInv'
<1> USE DEF SafetyInv, AcquireDispatch, IsReady, IsReusable
<1>1. /\ active.gen \in Gens /\ active.gen <= lastGen /\ lastGen \in Nat
      /\ active.gen # recovering.gen
      /\ proc[active.gen] # "terminated"
  BY TypedParts, NoGenKnown DEF HasActive, IsDead, Exited, KnownGens, Disjoint
<1>2. \A g \in Gens : g # active.gen => inFlight'[g] = inFlight[g]
  BY DEF TypeOK
<1>3. FreshGens'
  BY <1>1, <1>2, GenFacts DEF FreshGens, procVars, entryVars
<1>4. RecoveryIsDrained'
  BY <1>1, <1>2, TypedParts DEF RecoveryIsDrained, HasRecovery, entryVars
<1>5. NoKillUnderLease'
  BY <1>1, <1>2 DEF NoKillUnderLease, procVars
<1>6. DeleteQuiet'
  BY DEF DeleteQuiet, HasRecovery, Exited, entryVars, procVars
<1> QED  BY <1>3, <1>4, <1>5, <1>6, ProcessSafe DEF procVars

LEMMA DropLeaseSafe ==
  ASSUME TypeOK, SafetyInv, NEW g \in Gens, DropLease(g)
  PROVE  SafetyInv'
<1> USE DEF SafetyInv, DropLease
<1>1. \A h \in Gens : inFlight[h] = 0 => inFlight'[h] = 0
  BY DEF TypeOK
<1>2. FreshGens'
  BY <1>1 DEF FreshGens, procVars, entryVars
<1>3. RecoveryIsDrained'
  BY <1>1, TypedParts DEF RecoveryIsDrained, HasRecovery, entryVars
<1>4. NoKillUnderLease'
  BY <1>1 DEF NoKillUnderLease, procVars
<1>5. DeleteQuiet'
  BY DEF DeleteQuiet, HasRecovery, Exited, entryVars, procVars
<1> QED  BY <1>2, <1>3, <1>4, <1>5, ProcessSafe DEF procVars

(* A process that runs crashes, or is killed once its gate is drained. *)
LEMMA ProcessEndSafe ==
  ASSUME TypeOK, SafetyInv, UNCHANGED <<entryVars, gateVars, drains, op>>,
         detached' \subseteq detached,
         \A g \in Gens : \/ proc'[g] = proc[g]
                         \/ proc[g] = "running" /\ proc'[g] = "crashed"
                         \/ proc[g] = "running" /\ proc'[g] = "terminated" /\ inFlight[g] = 0
  PROVE  SafetyInv'
<1> USE DEF SafetyInv, entryVars, gateVars
<1>1. FreshGens'
  BY DEF FreshGens
<1>2. RecoveryIsDrained'
  BY DEF RecoveryIsDrained, HasRecovery
<1>3. NoKillUnderLease'
  BY DEF NoKillUnderLease
<1>4. DeleteQuiet'
  BY TypedParts DEF DeleteQuiet, HasRecovery, Exited
<1> QED  BY <1>1, <1>2, <1>3, <1>4, ProcessSafe

LEMMA DeleteKillSafe ==
  ASSUME TypeOK, SafetyInv, DeleteKill
  PROVE  SafetyInv'
<1>1. /\ op.step = "kill" /\ op.kind = "delete"
      /\ op'.step = "confirm" /\ op'.kind = "delete" /\ op'.drain = op.drain
  BY StepParts DEF DeleteKill, Deleting
<1>2. active.gen = NoGen /\ active.state # "Starting"
  BY <1>1 DEF SafetyInv, DeleteQuiet, StartingIsPrivate
<1>3. \A g \in Gens : \/ proc'[g] = proc[g]
                      \/ proc[g] = "running" /\ proc'[g] = "terminated" /\ g = recovering.gen
  BY DEF DeleteKill, Killed, TypeOK
<1> USE <1>1, <1>2, <1>3 DEF SafetyInv, DeleteKill, entryVars, gateVars
<1>4. FreshGens'
  BY DEF FreshGens
<1>5. KnownGens'
  BY DEF KnownGens
<1>6. Disjoint'
  BY DEF Disjoint
<1>7. DrainsClosed'
  BY DEF DrainsClosed
<1>8. ReplacesCurrent'
  BY DEF ReplacesCurrent
<1>9. OneAdmitting'
  BY DEF OneAdmitting
<1>10. RecoveryIsDrained'
  BY DEF RecoveryIsDrained, HasRecovery
<1>11. NoKillUnderLease'
  BY GenFacts DEF NoKillUnderLease, RecoveryIsDrained, HasRecovery
<1>12. DeleteQuiet'
  BY DEF DeleteQuiet
<1>13. StartingIsPrivate'
  BY DEF StartingIsPrivate, HasActive
<1> QED  BY <1>4, <1>5, <1>6, <1>7, <1>8, <1>9, <1>10, <1>11, <1>12, <1>13

(* A new generation, of which nothing is left from earlier, takes the      *)
(* empty place.                                                            *)
LEMMA CreateSpawnedSafe ==
  ASSUME TypeOK, SafetyInv, CreateSpawned
  PROVE  SafetyInv'
<1> DEFINE n == lastGen + 1
<1>1. /\ n \in Gens /\ lastGen \in Nat /\ NoGen <= lastGen /\ lastGen' = n /\ n # NoGen
      /\ active.gen = NoGen
  BY NoGenKnown, GenFacts DEF CreateSpawned, Reserve, HasActive, TypeOK, Gens
<1>2. recovering'.gen = recovering.gen
  BY RecoveryParts DEF CreateSpawned, Candidate, TypeOK
<1>3. /\ op'.step = "boot" /\ op'.kind = op.kind /\ op'.gen = n /\ op'.drain = op.drain
      /\ op.kind \in {"ensure", "recover"}
  BY DEF CreateSpawned, Reserve, Ensuring, TypeOK, Operation, OperationRecord
<1>4. /\ active'.gen = n /\ active'.state = "Starting" /\ generation' = n
      /\ accepting' = accepting \cup {n}
  BY DEF CreateSpawned
<1>5. proc[n] = "unborn" /\ inFlight[n] = 0 /\ n \notin detached
  BY <1>1 DEF SafetyInv, FreshGens
<1>6. accepting = {}
  BY <1>1, GenFacts DEF SafetyInv, OneAdmitting, TypeOK
<1>7. /\ recovering.gen \in Nat /\ recovering.gen <= lastGen
      /\ op.drain.active \in Nat /\ op.drain.active <= lastGen
      /\ \A d \in drains : d.active \in Nat /\ d.active <= lastGen
  BY TypedParts, OperationFields, GenFacts DEF SafetyInv, KnownGens, Drain, TypeOK
<1>8. \A g \in Gens : proc'[g] = proc[g] \/ (g = n /\ proc'[g] = "running")
  BY DEF CreateSpawned, TypeOK
<1> HIDE DEF n
<1>9. FreshGens'
  <2>1. \A g \in Gens : g > n => g > lastGen /\ g # n
    BY <1>1, GenFacts DEF n
  <2> QED  BY <1>1, <1>8, <2>1 DEF SafetyInv, FreshGens, CreateSpawned
<1>10. KnownGens'
  <2>1. \A k \in Nat : k <= lastGen => k <= n
    BY <1>1 DEF n
  <2> QED  BY <1>1, <1>2, <1>3, <1>4, <1>7, <2>1, GenFacts DEF KnownGens, CreateSpawned
<1>11. Disjoint'
  <2>1. recovering.gen # n
    BY <1>1, <1>7 DEF n
  <2> QED  BY <1>2, <1>4, <1>5, <2>1 DEF SafetyInv, Disjoint, CreateSpawned
<1>12. DrainsClosed'
  <2>1. \A d \in drains : d.active # n
    BY <1>1, <1>7 DEF n
  <2> QED  BY <1>3, <1>4, <1>6, <2>1 DEF DrainsClosed, CreateSpawned
<1>13. ReplacesCurrent' /\ DeleteQuiet'
  BY <1>3 DEF ReplacesCurrent, DeleteQuiet
<1>14. OneAdmitting'
  BY <1>1, <1>4, <1>6 DEF OneAdmitting, n
<1>15. RecoveryIsDrained'
  <2>1. recovering.gen # n
    BY <1>1, <1>7 DEF n
  <2> QED  BY <1>2, <1>4, <2>1 DEF SafetyInv, RecoveryIsDrained, HasRecovery,
          CreateSpawned
<1>16. NoKillUnderLease'
  BY <1>8 DEF SafetyInv, NoKillUnderLease, CreateSpawned
<1>17. StartingIsPrivate'
  BY <1>1, <1>3, <1>4 DEF StartingIsPrivate, HasActive
<1> QED
  BY <1>9, <1>10, <1>11, <1>12, <1>13, <1>14, <1>15, <1>16, <1>17 DEF SafetyInv

(* A process that never became ready is taken out, if it is still there. *)
LEMMA BootFailedSafe ==
  ASSUME TypeOK, SafetyInv, BootFailed
  PROVE  SafetyInv'
<1>1. /\ op'.step = "discard" /\ op'.kind = op.kind /\ op'.drain = op.drain
      /\ op.step = "boot" /\ op.kind \in {"ensure", "recover"}
  BY StepParts DEF BootFailed, Ensuring
<1>2. lastGen \in Nat /\ NoGen <= lastGen
  BY NoGenKnown
<1>3. /\ active'.gen \in {active.gen, NoGen} /\ active'.state \in {active.state, "Dead"}
      /\ active'.gen = active.gen => detached' = detached
      /\ active'.gen # active.gen =>
           active.gen = op.gen /\ active.gen # NoGen /\ detached' = detached \cup {active.gen}
  BY IdleParts DEF BootFailed, HasActive
<1>4. active'.state # "Starting"
  BY <1>1, IdleParts DEF BootFailed, SafetyInv, StartingIsPrivate, HasActive
<1> USE DEF BootFailed
<1>5. FreshGens'
  BY <1>2, <1>3, TypedParts, GenFacts DEF SafetyInv, FreshGens, KnownGens
<1>6. KnownGens'
  BY <1>1, <1>2, <1>3 DEF SafetyInv, KnownGens
<1>7. Disjoint'
  BY <1>3, GenFacts DEF SafetyInv, Disjoint, TypeOK
<1>8. DrainsClosed'
  BY <1>1 DEF SafetyInv, DrainsClosed
<1>9. ReplacesCurrent' /\ DeleteQuiet'
  BY <1>1 DEF ReplacesCurrent, DeleteQuiet
<1>10. OneAdmitting'
  BY <1>3 DEF SafetyInv, OneAdmitting
<1>11. RecoveryIsDrained'
  BY DEF SafetyInv, RecoveryIsDrained, HasRecovery
<1>12. NoKillUnderLease'
  BY DEF SafetyInv, NoKillUnderLease
<1>13. StartingIsPrivate'
  BY <1>4 DEF StartingIsPrivate
<1> QED  BY <1>5, <1>6, <1>7, <1>8, <1>9, <1>10, <1>11, <1>12, <1>13 DEF SafetyInv


(* One step per action: every action preserves the invariant. *)
LEMMA SafetyStep ==
  ASSUME TypeOK, SafetyInv, [Next]_vars
  PROVE  SafetyInv'
<1>1. ASSUME AcquireDispatch PROVE SafetyInv'
  BY <1>1, AcquireSafe
<1>2. ASSUME NoticeDeath PROVE SafetyInv'
  BY <1>2, SameOperation, ObservedParts DEF NoticeDeath, SameProcesses, entryVars,
      gateVars, procVars
<1>3. ASSUME NEW g \in Gens, DropLease(g) PROVE SafetyInv'
  BY <1>3, DropLeaseSafe
<1>4. ASSUME NEW g \in Gens, BeginTurn(g) PROVE SafetyInv'
  BY <1>4, SameOperation DEF BeginTurn, SameProcesses, entryVars, gateVars, procVars
<1>5. ASSUME EndTurn PROVE SafetyInv'
  BY <1>5, SameOperation DEF EndTurn, SameProcesses, entryVars, gateVars, procVars
<1>6. ASSUME NEW g \in Gens, Crash(g) PROVE SafetyInv'
  BY <1>6, ProcessEndSafe DEF Crash, TypeOK
<1>7. ASSUME NEW g \in Gens, DropDetached(g) PROVE SafetyInv'
  <2>1. inFlight[g] = 0
    BY <1>7, GenFacts DEF DropDetached, Drained
  <2>2. ASSUME NEW h \in Gens
        PROVE  \/ proc'[h] = proc[h]
               \/ proc[h] = "running" /\ proc'[h] = "terminated" /\ inFlight[h] = 0
    <3>1. CASE h = g
      BY <1>7, <2>1, <3>1 DEF DropDetached, Killed
    <3>2. CASE h # g
      BY <1>7, <3>2 DEF DropDetached, Killed
    <3> QED  BY <3>1, <3>2
  <2> QED  BY <1>7, <2>2, ProcessEndSafe DEF DropDetached
<1>8. ASSUME NEW o \in Owners, ReleaseOwner(o) PROVE SafetyInv'
  BY <1>8, ReleaseSafe DEF ReleaseOwner, procVars
<1>9. ASSUME NEW d \in drains, FinishOwnerRelease(d) PROVE SafetyInv'
  BY <1>9, FinishUnownedSafe DEF FinishOwnerRelease, gateVars, SafetyInv,
      DrainsClosed, TypeOK
<1>10. ASSUME NEW o \in ReplyOwners, AdmitReply(o) PROVE SafetyInv'
  BY <1>10, SameOperation, EntryParts, RecoveryParts DEF AdmitReply, SameProcesses,
      TypeOK, entryVars, gateVars, procVars
<1>11. ASSUME NEW o \in TabOwners \cup AgentOwners, EnsureBegin(o) PROVE SafetyInv'
  <2>1. SameProcesses
    BY <1>11 DEF EnsureBegin, Idle, SameProcesses, entryVars, gateVars, procVars
  <2>2. op'.drain.active <= lastGen
    BY <1>11, NoGenKnown, IdleParts DEF EnsureBegin, Idle, SafetyInv, KnownGens
  <2>3. op.step # "boot" /\ op'.step \notin {"replace", "retire"} /\ op'.kind # "delete"
    BY <1>11, IdleParts DEF EnsureBegin, Idle
  <2> QED  BY <2>1, <2>2, <2>3, NextEnsure
<1>12. ASSUME NEW o \in TabOwners, ReleaseTab(o) PROVE SafetyInv'
  BY <1>12, FencedReleaseSafe, IdleParts DEF ReleaseTab, procVars
<1>13. ASSUME DeleteBegin PROVE SafetyInv'
  <2>1. SameProcesses
    BY <1>13 DEF DeleteBegin, SameProcesses, entryVars, gateVars, procVars
  <2>2. op'.drain.active <= lastGen
    BY <1>13, NoGenKnown, IdleParts DEF DeleteBegin, Idle, IsReusable, SafetyInv,
        KnownGens
  <2>3. op.kind \in {"delete", "none"} /\ op'.step \notin {"replace", "retire"}
    BY <1>13, IdleParts DEF DeleteBegin, Idle, IsReusable
  <2>4. DeleteQuiet'
    BY <1>13, IdleParts DEF DeleteBegin, Idle, IsReusable, SafetyInv, DeleteQuiet,
        HasRecovery, Exited, entryVars, procVars
  <2> QED  BY <2>1, <2>2, <2>3, <2>4, NextDelete
<1>14. ASSUME EnsureExhausted PROVE SafetyInv'
  <2>1. SameProcesses
    BY <1>14, RecordFailureParts DEF EnsureExhausted, Finish, Ensuring, SameProcesses,
        entryVars, gateVars, procVars
  <2>2. op'.drain.active <= lastGen
    BY <1>14, RecordFailureParts, NoGenKnown, IdleParts DEF EnsureExhausted, Finish,
        Ensuring, SafetyInv, KnownGens
  <2>3. op.step # "boot" /\ op'.step \notin {"replace", "retire"} /\ op'.kind # "delete"
    BY <1>14, RecordFailureParts, IdleParts DEF EnsureExhausted, Finish, Ensuring
  <2> QED  BY <2>1, <2>2, <2>3, NextEnsure
<1>15. ASSUME EnsureStale PROVE SafetyInv'
  <2>1. SameProcesses
    BY <1>15 DEF EnsureStale, Finish, Ensuring, SameProcesses, entryVars, gateVars,
        procVars
  <2>2. op'.drain.active <= lastGen
    BY <1>15, NoGenKnown, IdleParts DEF EnsureStale, Finish, Ensuring, SafetyInv,
        KnownGens
  <2>3. op.step # "boot" /\ op'.step \notin {"replace", "retire"} /\ op'.kind # "delete"
    BY <1>15, IdleParts DEF EnsureStale, Finish, Ensuring
  <2> QED  BY <2>1, <2>2, <2>3, NextEnsure
<1>16. ASSUME CheckAbsent PROVE SafetyInv'
  <2>1. SameProcesses
    BY <1>16, StepParts DEF CheckAbsent, Checking, Ensuring, SameProcesses, entryVars,
        gateVars, procVars
  <2>2. op'.drain.active <= lastGen
    BY <1>16, StepParts, NoGenKnown, IdleParts DEF CheckAbsent, Checking, Ensuring,
        SafetyInv, KnownGens
  <2>3. op.step # "boot" /\ op'.step \notin {"replace", "retire"} /\ op'.kind # "delete"
    BY <1>16, StepParts, IdleParts DEF CheckAbsent, Checking, Ensuring
  <2> QED  BY <2>1, <2>2, <2>3, NextEnsure
<1>17. ASSUME CheckDead PROVE SafetyInv'
  <2>1. active'.gen = active.gen /\ active'.state \in {active.state, "Dead"} /\ op.step # "boot"
    BY <1>17, ObservedParts DEF CheckDead, Checking, Ensuring
  <2> QED  BY <1>17, <2>1, PrepareSafe, TypedParts DEF CheckDead, procVars
<1>18. ASSUME CheckReusable PROVE SafetyInv'
  <2>1. SameProcesses
    BY <1>18 DEF CheckReusable, Checking, Ensuring, Operation, OperationRecord,
        TypeOK, SameProcesses, entryVars, gateVars, procVars
  <2>2. op'.drain.active <= lastGen
    BY <1>18, NoGenKnown, IdleParts DEF CheckReusable, Checking, Ensuring, Operation,
        OperationRecord, TypeOK, SafetyInv, KnownGens
  <2>3. op.step # "boot" /\ op'.step \notin {"replace", "retire"} /\ op'.kind # "delete"
    BY <1>18, IdleParts DEF CheckReusable, Checking, Ensuring, Operation,
        OperationRecord, TypeOK
  <2> QED  BY <2>1, <2>2, <2>3, NextEnsure
<1>19. ASSUME CheckDrift PROVE SafetyInv'
  <2>1. [op EXCEPT !.clear = TRUE] \in Operation
    BY DEF TypeOK, Operation, OperationRecord
  <2> QED  BY <1>19, <2>1, PrepareSafe DEF CheckDrift, Checking, Ensuring, entryVars,
          procVars
<1>20. ASSUME CheckDraining PROVE SafetyInv'
  <2>1. SameProcesses
    BY <1>20 DEF CheckDraining, Checking, Ensuring, Operation, OperationRecord,
        TypeOK, SameProcesses, entryVars, gateVars, procVars
  <2>2. op'.drain.active <= lastGen
    BY <1>20, NoGenKnown, IdleParts DEF CheckDraining, Checking, Ensuring, Operation,
        OperationRecord, TypeOK, SafetyInv, KnownGens
  <2>3. op.step # "boot" /\ op'.step \notin {"replace", "retire"} /\ op'.kind # "delete"
    BY <1>20, IdleParts DEF CheckDraining, Checking, Ensuring, Operation,
        OperationRecord, TypeOK
  <2> QED  BY <2>1, <2>2, <2>3, NextEnsure
<1>21. ASSUME AwaitDrained PROVE SafetyInv'
  <2>1. CASE Held = {} /\ (HasActive \/ HasRecovery)
    BY <1>21, <2>1, CloseSafe, TypedParts DEF AwaitDrained, Ensuring, procVars
  <2>2. CASE ~(Held = {} /\ (HasActive \/ HasRecovery))
    <3>1. SameProcesses
      BY <1>21, <2>2 DEF AwaitDrained, SameProcesses, entryVars, gateVars, procVars
    <3>2. op'.step = "check" /\ op'.kind = op.kind /\ op'.drain = NoDrain
      BY <1>21, <2>2, RetryParts DEF AwaitDrained
    <3> QED  BY <1>21, <3>1, <3>2, NextEnsure, NoGenKnown, IdleParts DEF AwaitDrained,
            Ensuring
  <2> QED  BY <2>1, <2>2
<1>22. ASSUME RetireUnowned PROVE SafetyInv'
  <2>1. op.drain \in Drain /\ op.drain.active \notin accepting
    BY <1>22, TypedParts, OperationFields DEF RetireUnowned, SafetyInv, DrainsClosed
  <2>2. /\ op'.step = "reap" /\ op'.kind = op.kind
        /\ op'.drain.active \in {op.drain.active, NoGen}
    BY <1>22 DEF RetireUnowned, TypeOK, Operation, OperationRecord
  <2> QED  BY <1>22, <2>1, <2>2, FinishUnownedSafe DEF RetireUnowned, gateVars
<1>23. ASSUME ReapRetired PROVE SafetyInv'
  <2>1. /\ op.step = "reap" /\ op'.step \in {"check", "unlink", "none"}
        /\ op'.kind = "delete" => op.kind = "delete" /\ op'.step = "unlink"
        /\ op'.drain \in {op.drain, NoDrain}
    BY <1>23, RetryParts, StepParts, IdleParts DEF ReapRetired, Finish
  <2>2. lastGen \in Nat /\ NoGen <= lastGen
    BY DEF TypeOK, NoGen
  <2>3. SameProcesses
    BY <1>23 DEF ReapRetired, SameProcesses, entryVars, gateVars, procVars
  <2>4. op'.drain.active <= lastGen
    BY <2>1, <2>2, IdleParts DEF SafetyInv, KnownGens
  <2>5. DeleteQuiet'
    BY <1>23, <2>1 DEF ReapRetired, SafetyInv, DeleteQuiet, HasRecovery, Exited,
        entryVars, procVars
  <2>6. StartingIsPrivate'
    BY <2>1, <2>3 DEF SafetyInv, StartingIsPrivate, SameProcesses
  <2> QED  BY <2>1, <2>3, <2>4, <2>5, <2>6, NextOperation
<1>24. ASSUME ProbeReplaced PROVE SafetyInv'
  <2>1. SameProcesses
    BY <1>24, ObservedParts, RetryParts, StepParts DEF ProbeReplaced, Ensuring,
        SameProcesses, entryVars, gateVars, procVars
  <2>2. op'.drain.active <= lastGen
    BY <1>24, ObservedParts, RetryParts, StepParts, NoGenKnown, IdleParts DEF
        ProbeReplaced, Ensuring, SafetyInv, KnownGens
  <2>3. op.step # "boot" /\ op'.step \notin {"replace", "retire"} /\ op'.kind # "delete"
    BY <1>24, ObservedParts, RetryParts, StepParts, IdleParts DEF ProbeReplaced,
        Ensuring
  <2> QED  BY <2>1, <2>2, <2>3, NextEnsure
<1>25. ASSUME ProbeHealthy PROVE SafetyInv'
  <2>1. active'.gen = active.gen /\ active'.state = active.state
    <3>1. /\ [active EXCEPT !.owners = @ \cup {op.owner}].gen = active.gen
          /\ [active EXCEPT !.owners = @ \cup {op.owner}].state = active.state
      BY EntryParts DEF TypeOK
    <3> QED  BY <1>25, <3>1 DEF ProbeHealthy
  <2>2. SameProcesses
    BY <1>25, <2>1 DEF ProbeHealthy, SameProcesses, gateVars, procVars
  <2>3. /\ op.step = "probe" /\ op'.step \in {"commit", "create"} /\ op.kind # "delete"
        /\ op'.kind = op.kind /\ op'.drain = op.drain
    BY <1>25, StepParts DEF ProbeHealthy, Ensuring
  <2> QED  BY <2>2, <2>3, NextEnsure DEF SafetyInv, KnownGens
<1>26. ASSUME ProbeUnhealthy PROVE SafetyInv'
  <2>1. CASE HasActive
    BY <1>26, <2>1, PrepareSafe, TypedParts DEF ProbeUnhealthy, Ensuring, entryVars,
        procVars
  <2>2. CASE ~HasActive
    <3>1. op'.drain = op.drain /\ op'.step = "create" /\ op'.kind = op.kind
      BY <1>26, <2>2, StepParts DEF ProbeUnhealthy
    <3>2. SameProcesses
      BY <1>26, <2>2 DEF ProbeUnhealthy, SameProcesses, entryVars, gateVars, procVars
    <3> QED  BY <1>26, <3>1, <3>2, NextEnsure DEF ProbeUnhealthy, Ensuring, SafetyInv,
            KnownGens
  <2> QED  BY <2>1, <2>2
<1>27. ASSUME ReplaceDrained PROVE SafetyInv'
  BY <1>27, ReplaceSafe
<1>28. ASSUME CreateRetry PROVE SafetyInv'
  <2>1. SameProcesses
    BY <1>28, RetryParts DEF CreateRetry, Ensuring, SameProcesses, entryVars,
        gateVars, procVars
  <2>2. op'.drain.active <= lastGen
    BY <1>28, RetryParts, NoGenKnown, IdleParts DEF CreateRetry, Ensuring, SafetyInv,
        KnownGens
  <2>3. op.step # "boot" /\ op'.step \notin {"replace", "retire"} /\ op'.kind # "delete"
    BY <1>28, RetryParts, IdleParts DEF CreateRetry, Ensuring
  <2> QED  BY <2>1, <2>2, <2>3, NextEnsure
<1>29. ASSUME CreateDead PROVE SafetyInv'
  <2>1. active'.gen = active.gen /\ active'.state \in {active.state, "Dead"} /\ op.step # "boot"
    BY <1>29, ObservedParts DEF CreateDead, Ensuring
  <2> QED  BY <1>29, <2>1, PrepareSafe, TypedParts DEF CreateDead, procVars
<1>30. ASSUME CreateSpawned PROVE SafetyInv'
  BY <1>30, CreateSpawnedSafe
<1>31. ASSUME CreateFailed PROVE SafetyInv'
  BY <1>31, CreateFailedSafe
<1>32. ASSUME BootReady PROVE SafetyInv'
  <2>1. /\ op.step = "boot" /\ op'.step = "commit" /\ op'.drain = op.drain
        /\ op.kind # "delete" /\ op'.kind = op.kind
    BY <1>32, StepParts DEF BootReady, Ensuring
  <2>2. SameProcesses /\ active'.state # "Starting"
    BY <1>32, EntryParts DEF BootReady, SameProcesses, gateVars, procVars, TypeOK,
        SafetyInv,
                           StartingIsPrivate
  <2>3. DeleteQuiet' /\ StartingIsPrivate'
    BY <2>1, <2>2 DEF DeleteQuiet, StartingIsPrivate
  <2> QED  BY <2>1, <2>2, <2>3, NextOperation DEF SafetyInv, KnownGens
<1>33. ASSUME BootFailed PROVE SafetyInv'
  BY <1>33, BootFailedSafe
<1>34. ASSUME BootDiscarded PROVE SafetyInv'
  <2>1. SameProcesses
    BY <1>34, RecordFailureParts DEF BootDiscarded, Finish, Ensuring, SameProcesses,
        entryVars, gateVars, procVars
  <2>2. op'.drain.active <= lastGen
    BY <1>34, RecordFailureParts, NoGenKnown, IdleParts DEF BootDiscarded, Finish,
        Ensuring, SafetyInv, KnownGens
  <2>3. op.step # "boot" /\ op'.step \notin {"replace", "retire"} /\ op'.kind # "delete"
    BY <1>34, RecordFailureParts, IdleParts DEF BootDiscarded, Finish, Ensuring
  <2> QED  BY <2>1, <2>2, <2>3, NextEnsure
<1>35. ASSUME Commit PROVE SafetyInv'
  BY <1>35, CommitSafe
<1>36. ASSUME CommitReused PROVE SafetyInv'
  <2>1. SameProcesses
    BY <1>36 DEF CommitReused, Finish, Ensuring, SameProcesses, entryVars, gateVars,
        procVars
  <2>2. op'.drain.active <= lastGen
    BY <1>36, NoGenKnown, IdleParts DEF CommitReused, Finish, Ensuring, SafetyInv,
        KnownGens
  <2>3. op.step # "boot" /\ op'.step \notin {"replace", "retire"} /\ op'.kind # "delete"
    BY <1>36, IdleParts DEF CommitReused, Finish, Ensuring
  <2> QED  BY <2>1, <2>2, <2>3, NextEnsure
<1>37. ASSUME CommitRejected PROVE SafetyInv'
  <2>1. SameProcesses
    BY <1>37, RecordFailureParts DEF CommitRejected, Finish, Ensuring, SameProcesses,
        entryVars, gateVars, procVars
  <2>2. op'.drain.active <= lastGen
    BY <1>37, RecordFailureParts, NoGenKnown, IdleParts DEF CommitRejected, Finish,
        Ensuring, SafetyInv, KnownGens
  <2>3. op.step # "boot" /\ op'.step \notin {"replace", "retire"} /\ op'.kind # "delete"
    BY <1>37, RecordFailureParts, IdleParts DEF CommitRejected, Finish, Ensuring
  <2> QED  BY <2>1, <2>2, <2>3, NextEnsure
<1>38. ASSUME MonitorScan PROVE SafetyInv'
  BY <1>38, SameOperation, ObservedParts DEF MonitorScan, SameProcesses, entryVars,
      gateVars, procVars
<1>39. ASSUME MonitorBegin PROVE SafetyInv'
  <2>1. op.step = "none" /\ op.kind = "none"
    BY <1>39, IdleParts DEF MonitorBegin
  <2>2. CASE HasActive
    <3>1. [Idle EXCEPT !.kind = "recover"] \in Operation
      BY ConstantRecords DEF Operation, OperationRecord, OpKinds
    <3> QED  BY <1>39, <2>1, <2>2, <3>1, PrepareSafe DEF MonitorBegin, entryVars,
            procVars
  <2>3. CASE ~HasActive
    <3>1. SameProcesses
      BY <1>39, <2>3 DEF MonitorBegin, SameProcesses, entryVars, gateVars, procVars
    <3>2. op'.step = "dispatch" /\ op'.kind = "recover" /\ op'.drain = NoDrain
      BY <1>39, <2>3 DEF MonitorBegin, Idle
    <3> QED  BY <2>1, <3>1, <3>2, NextEnsure, NoGenKnown, IdleParts
  <2> QED  BY <2>2, <2>3
<1>40. ASSUME MonitorDispatch PROVE SafetyInv'
  <2>1. op'.step \in {"check", "none"} /\ op'.kind # "delete" /\ op'.drain \in {op.drain, NoDrain}
    BY <1>40, IdleParts DEF MonitorDispatch, Finish, TypeOK, Operation, OperationRecord
  <2>2. SameProcesses
    BY <1>40 DEF MonitorDispatch, SameProcesses, entryVars, gateVars, procVars
  <2>3. op'.drain.active <= lastGen
    <3>1. lastGen \in Nat /\ NoGen <= lastGen
      BY DEF TypeOK, NoGen
    <3> QED  BY <2>1, <3>1, IdleParts DEF SafetyInv, KnownGens
  <2> QED  BY <1>40, <2>1, <2>2, <2>3, NextEnsure DEF MonitorDispatch
<1>41. ASSUME RetryClock PROVE SafetyInv'
  BY <1>41, SameOperation, RecoveryParts DEF RetryClock, SameProcesses, TypeOK,
      entryVars, gateVars, procVars
<1>42. ASSUME BgBind PROVE SafetyInv'
  BY <1>42, SameOperation DEF BgBind, SameProcesses, entryVars, gateVars, procVars
<1>43. ASSUME BgProbe PROVE SafetyInv'
  BY <1>43, SameOperation DEF BgProbe, SameProcesses, entryVars, gateVars, procVars
<1>44. ASSUME BgAttach PROVE SafetyInv'
  BY <1>44, SameOperation, AttachIfCurrentParts, AttachLogicalParts DEF BgAttach,
      SameProcesses, entryVars, gateVars, procVars
<1>45. ASSUME BgHeadless PROVE SafetyInv'
  BY <1>45, SameOperation, AttachLogicalParts DEF BgHeadless, SameProcesses,
      entryVars, gateVars, procVars
<1>46. ASSUME BgPoll PROVE SafetyInv'
  BY <1>46, SameOperation, ObservedParts DEF BgPoll, SameProcesses, entryVars,
      gateVars, procVars
<1>47. ASSUME BgSettle PROVE SafetyInv'
  BY <1>47, SameOperation, ObservedParts DEF BgSettle, SameProcesses, entryVars,
      gateVars, procVars
<1>48. ASSUME BgRelease PROVE SafetyInv'
  BY <1>48, ReleaseSafe DEF BgRelease, procVars
<1>49. ASSUME BgTimeout PROVE SafetyInv'
  BY <1>49, ReleaseSafe DEF BgTimeout, procVars
<1>50. ASSUME ReconcileTab PROVE SafetyInv'
  BY <1>50, SameOperation, EntryParts, RecoveryParts DEF ReconcileTab, SameProcesses,
      TypeOK, entryVars, gateVars, procVars
<1>51. ASSUME DeleteRefused PROVE SafetyInv'
  <2>1. SameProcesses
    BY <1>51 DEF DeleteRefused, SameProcesses, entryVars, gateVars, procVars
  <2>2. op'.drain.active <= lastGen
    BY <1>51, NoGenKnown, IdleParts DEF DeleteRefused, Finish, Deleting, SafetyInv,
        KnownGens
  <2>3. op.kind \in {"delete", "none"} /\ op'.step \notin {"replace", "retire"}
    BY <1>51, IdleParts DEF DeleteRefused, Finish, Deleting
  <2>4. DeleteQuiet'
    BY <1>51, IdleParts DEF DeleteRefused, Finish, Deleting, SafetyInv, DeleteQuiet,
        HasRecovery, Exited, entryVars, procVars
  <2> QED  BY <2>1, <2>2, <2>3, <2>4, NextDelete
<1>52. ASSUME DeleteActivity PROVE SafetyInv'
  <2>1. SameProcesses
    BY <1>52 DEF DeleteActivity, SameProcesses, entryVars, gateVars, procVars
  <2>2. op'.drain.active <= lastGen
    BY <1>52, StepParts, NoGenKnown, IdleParts DEF DeleteActivity, Deleting,
        SafetyInv, KnownGens
  <2>3. op.kind \in {"delete", "none"} /\ op'.step \notin {"replace", "retire"}
    BY <1>52, StepParts, IdleParts DEF DeleteActivity, Deleting
  <2>4. DeleteQuiet'
    BY <1>52, StepParts, IdleParts DEF DeleteActivity, Deleting, SafetyInv,
        DeleteQuiet, HasRecovery, Exited, entryVars, procVars
  <2> QED  BY <2>1, <2>2, <2>3, <2>4, NextDelete
<1>53. ASSUME DeleteRecheck PROVE SafetyInv'
  <2>1. SameProcesses
    BY <1>53 DEF DeleteRecheck, SameProcesses, entryVars, gateVars, procVars
  <2>2. op'.drain.active <= lastGen
    BY <1>53, StepParts, NoGenKnown, IdleParts DEF DeleteRecheck, Deleting, SafetyInv,
        KnownGens
  <2>3. op.kind \in {"delete", "none"} /\ op'.step \notin {"replace", "retire"}
    BY <1>53, StepParts, IdleParts DEF DeleteRecheck, Deleting
  <2>4. DeleteQuiet'
    BY <1>53, StepParts, IdleParts DEF DeleteRecheck, Deleting, SafetyInv,
        DeleteQuiet, HasRecovery, Exited, entryVars, procVars
  <2> QED  BY <2>1, <2>2, <2>3, <2>4, NextDelete
<1>54. ASSUME DeleteClose PROVE SafetyInv'
  <2>1. CASE HasActive
    BY <1>54, <2>1, PrepareSafe, TypedParts DEF DeleteClose, Deleting, entryVars,
        procVars
  <2>2. CASE ~HasActive
    <3>1. SameProcesses
      BY <1>54, <2>2 DEF DeleteClose, SameProcesses, entryVars, gateVars, procVars
    <3>2. op.kind = "delete" /\ op'.step = "kill" /\ op'.drain = op.drain
      BY <1>54, <2>2, StepParts DEF DeleteClose, Deleting
    <3>3. DeleteQuiet'
      BY <2>2, <3>1, <3>2 DEF DeleteQuiet, HasActive, SameProcesses
    <3> QED  BY <3>1, <3>2, <3>3, NextDelete DEF SafetyInv, KnownGens
  <2> QED  BY <2>1, <2>2
<1>55. ASSUME DeleteKill PROVE SafetyInv'
  BY <1>55, DeleteKillSafe
<1>56. ASSUME DeleteConfirm PROVE SafetyInv'
  <2>1. CASE Held = {} /\ (HasActive \/ HasRecovery)
    BY <1>56, <2>1, CloseSafe, TypedParts DEF DeleteConfirm, Deleting, procVars
  <2>2. CASE ~(Held = {} /\ (HasActive \/ HasRecovery))
    <3>1. SameProcesses
      BY <1>56, <2>2 DEF DeleteConfirm, SameProcesses, entryVars, gateVars, procVars
    <3>2. op.kind = "delete" /\ op.step = "confirm" /\ op'.step = "unlink" /\ op'.drain = op.drain
      BY <1>56, <2>2, StepParts DEF DeleteConfirm, Deleting
    <3>3. DeleteQuiet'
      BY <1>56, <3>2 DEF DeleteConfirm, SafetyInv, DeleteQuiet, HasRecovery, Exited,
          entryVars,
                      procVars
    <3> QED  BY <3>1, <3>2, <3>3, NextDelete DEF SafetyInv, KnownGens
  <2> QED  BY <2>1, <2>2
<1>57. ASSUME DeleteUnlink PROVE SafetyInv'
  <2>1. SameProcesses
    BY <1>57 DEF DeleteUnlink, SameProcesses, entryVars, gateVars, procVars
  <2>2. op'.drain.active <= lastGen
    BY <1>57, StepParts, NoGenKnown, IdleParts DEF DeleteUnlink, Deleting, SafetyInv,
        KnownGens
  <2>3. op.kind \in {"delete", "none"} /\ op'.step \notin {"replace", "retire"}
    BY <1>57, StepParts, IdleParts DEF DeleteUnlink, Deleting
  <2>4. DeleteQuiet'
    BY <1>57, StepParts, IdleParts DEF DeleteUnlink, Deleting, SafetyInv, DeleteQuiet,
        HasRecovery, Exited, entryVars, procVars
  <2> QED  BY <2>1, <2>2, <2>3, <2>4, NextDelete
<1>58. ASSUME DeleteReleaseTabs PROVE SafetyInv'
  BY <1>58, FencedReleaseSafe DEF DeleteReleaseTabs, Deleting, procVars
<1>59. ASSUME UNCHANGED vars PROVE SafetyInv'
  BY <1>59, SameOperation DEF vars, SameProcesses, entryVars, gateVars, procVars
<1> QED
  BY <1>1, <1>2, <1>3, <1>4, <1>5, <1>6, <1>7, <1>8, <1>9, <1>10, <1>11, <1>12, <1>13,
      <1>14, <1>15, <1>16, <1>17, <1>18, <1>19, <1>20, <1>21, <1>22, <1>23, <1>24,
      <1>25, <1>26, <1>27, <1>28, <1>29, <1>30, <1>31, <1>32, <1>33, <1>34, <1>35,
      <1>36, <1>37, <1>38, <1>39, <1>40, <1>41, <1>42, <1>43, <1>44, <1>45, <1>46,
      <1>47, <1>48, <1>49, <1>50, <1>51, <1>52, <1>53, <1>54, <1>55, <1>56, <1>57,
      <1>58, <1>59
  DEF Next, FencedStep, EnsureStep, DeleteStep, BgStep

LEMMA SafetyInit == Init => SafetyInv
<1> SUFFICES ASSUME Init PROVE SafetyInv
  OBVIOUS
<1>1. active.gen = NoGen /\ active.state = "Dead" /\ recovering.gen = NoGen
      /\ op.step = "none" /\ op.kind = "none" /\ op.drain.active = NoGen
      /\ NoGen = 0
  BY IdleParts DEF Init, NoGen
<1> QED  BY <1>1 DEF Init, SafetyInv, FreshGens, KnownGens, Disjoint, DrainsClosed,
            ReplacesCurrent, DeleteQuiet, OneAdmitting, RecoveryIsDrained, NoKillUnderLease,
            StartingIsPrivate, HasRecovery, Gens

(* The inductive invariant holds for any number of owners, generations,    *)
(* requests in flight and faults.                                          *)
THEOREM Safety == Spec => []SafetyInv
  BY TypeInit, TypeStep, SafetyInit, SafetyStep, PTL DEF Spec

(* No process is killed under a request the manager admitted to it. *)
THEOREM NoKill == Spec => []NoKillUnderLease
<1>1. SafetyInv => NoKillUnderLease
  BY DEF SafetyInv
<1> QED  BY <1>1, Safety, PTL

(* One generation at most admits requests, the one the entry names. *)
THEOREM Admission == Spec => []OneAdmitting
<1>1. SafetyInv => OneAdmitting
  BY DEF SafetyInv
<1> QED  BY <1>1, Safety, PTL

(* A displaced process is closed and drained when it may be killed. *)
THEOREM Recovering == Spec => []RecoveryIsDrained
<1>1. SafetyInv => RecoveryIsDrained
  BY DEF SafetyInv
<1> QED  BY <1>1, Safety, PTL

(* Nobody but its creator meets a process that is still starting. *)
THEOREM Starting == Spec => []StartingIsPrivate
<1>1. SafetyInv => StartingIsPrivate
  BY DEF SafetyInv
<1> QED  BY <1>1, Safety, PTL

(* The transcript is unlinked with no process left in the manager. *)
THEOREM DeleteFences == Spec => []DeleteFencesManagerWriter
<1>1. SafetyInv => DeleteFencesManagerWriter
  BY DEF SafetyInv, DeleteQuiet, DeleteFencesManagerWriter, Deleting
<1> QED  BY <1>1, Safety, PTL

-----------------------------------------------------------------------------
(* SessionSidecar implements DispatchGate: whatever the manager, its       *)
(* threads and its operations do, a process generation is born open,       *)
(* closed for good, and killed only when closed and drained.               *)

(* The abstract variables. *)
Born == {g \in Gens : proc[g] # "unborn"}
Terminated == {g \in Gens : proc[g] = "terminated"}

LEMMA GateInit == Init => Gate!Init
<1> SUFFICES ASSUME Init PROVE Gate!Init
  OBVIOUS
<1>1. Born = {} /\ Terminated = {}
  BY DEF Init, Born, Terminated
<1> QED  BY <1>1 DEF Init, Gate!Init, Born, Terminated

(* The shapes of a step, as the gates see it. *)
GateStep == [Gate!Next]_Gate!gateVars

LEMMA GateNexts ==
  /\ \A g \in Gens : Gate!Open(g) \/ Gate!Acquire(g) \/ Gate!Drop(g) => GateStep
  /\ \A S \in SUBSET Gens : Gate!Close(S) \/ Gate!Terminate(S) => GateStep
  BY DEF GateStep, Gate!Next

LEMMA GateStutters ==
  ASSUME UNCHANGED gateVars,
         \A g \in Gens : \/ proc'[g] = proc[g]
                         \/ proc[g] = "running" /\ proc'[g] = "crashed"
  PROVE  GateStep
<1>1. Born' = Born /\ Terminated' = Terminated
  BY DEF Born, Terminated
<1> QED  BY <1>1 DEF GateStep, Gate!gateVars, gateVars, Born, Terminated

LEMMA GateCloses ==
  ASSUME accepting \in SUBSET Gens, UNCHANGED <<inFlight, proc>>,
         NEW S, accepting' = accepting \ S
  PROVE  GateStep
<1>1. Born' = Born /\ Terminated' = Terminated
  BY DEF Born, Terminated
<1>2. Gate!Close(S \cap Gens)
  BY <1>1 DEF Gate!Close, Born, Terminated
<1> QED  BY <1>2 DEF GateStep, Gate!Next

LEMMA GateTerminates ==
  ASSUME UNCHANGED gateVars,
         \A g \in Gens : \/ proc'[g] = proc[g]
                         \/ /\ proc[g] = "running" /\ proc'[g] = "terminated"
                            /\ inFlight[g] = 0 /\ g \notin accepting
  PROVE  GateStep
<1> SUFFICES ASSUME NEW S, S = {g \in Gens : proc[g] = "running" /\ proc'[g] = "terminated"}
             PROVE  GateStep
  OBVIOUS
<1>1. Born' = Born /\ Terminated' = Terminated \cup S
  BY DEF Born, Terminated
<1>2. S \cap accepting = {} /\ \A g \in S : inFlight[g] = 0
  OBVIOUS
<1>3. Gate!Terminate(S)
  BY <1>1, <1>2 DEF Gate!Terminate, Born, Terminated, gateVars
<1>4. S \in SUBSET Gens
  OBVIOUS
<1> QED  BY <1>3, <1>4, GateNexts

LEMMA GateAcquires ==
  ASSUME TypeOK, AcquireDispatch
  PROVE  GateStep
<1>1. Born' = Born /\ Terminated' = Terminated
  BY DEF AcquireDispatch, procVars, Born, Terminated
<1>2. active.gen \in Gens
  BY TypedParts DEF AcquireDispatch, IsReady, IsReusable, HasActive
<1>3. Gate!Acquire(active.gen)
  BY <1>1 DEF AcquireDispatch, IsReady, IsReusable, Gate!Acquire, Born, Terminated
<1> QED  BY <1>2, <1>3 DEF GateStep, Gate!Next

LEMMA GateDrops ==
  ASSUME NEW g \in Gens, DropLease(g)
  PROVE  GateStep
<1>1. Born' = Born /\ Terminated' = Terminated
  BY DEF DropLease, procVars, Born, Terminated
<1>2. Gate!Drop(g)
  BY <1>1 DEF DropLease, Gate!Drop, Born, Terminated
<1> QED  BY <1>2 DEF GateStep, Gate!Next

LEMMA GateOpens ==
  ASSUME TypeOK, SafetyInv, CreateSpawned
  PROVE  GateStep
<1> SUFFICES ASSUME NEW n, n = lastGen + 1
             PROVE  GateStep
  OBVIOUS
<1>1. n \in Gens /\ n > lastGen
  <2>1. lastGen \in Nat /\ lastGen < MaxGen
    BY NoGenKnown DEF CreateSpawned, Reserve
  <2> QED  BY <2>1, BoundsAssumption DEF Gens
<1>2. proc[n] = "unborn"
  BY <1>1 DEF SafetyInv, FreshGens
<1>3. proc' = [proc EXCEPT ![n] = "running"] /\ accepting' = accepting \cup {n}
      /\ inFlight' = inFlight
  BY DEF CreateSpawned
<1>4. n \notin Born /\ Born' = Born \cup {n} /\ Terminated' = Terminated
  BY <1>1, <1>2, <1>3 DEF TypeOK, Born, Terminated
<1>5. Gate!Open(n)
  BY <1>3, <1>4 DEF Gate!Open, Born, Terminated
<1> QED  BY <1>1, <1>5, GateNexts

LEMMA RemovedOwnersClose ==
  ASSUME NEW S, RemoveOwners(S)
  PROVE  \E C : accepting' = accepting \ C
<1>1. accepting' = accepting \ {} \/ accepting' = accepting \ {active.gen, recovering.gen}
  BY DEF RemoveOwners
<1> QED  BY <1>1

(* One step per action: every action is a step of the gates, or none. *)
LEMMA GateSimulation ==
  ASSUME TypeOK, SafetyInv, [Next]_vars
  PROVE  GateStep
<1>1. ASSUME AcquireDispatch PROVE GateStep
  BY <1>1, GateAcquires
<1>2. ASSUME NoticeDeath PROVE GateStep
  BY <1>2, GateStutters DEF NoticeDeath, procVars
<1>3. ASSUME NEW g \in Gens, DropLease(g) PROVE GateStep
  BY <1>3, GateDrops
<1>4. ASSUME NEW g \in Gens, BeginTurn(g) PROVE GateStep
  BY <1>4, GateStutters DEF BeginTurn, procVars
<1>5. ASSUME EndTurn PROVE GateStep
  BY <1>5, GateStutters DEF EndTurn, procVars
<1>6. ASSUME NEW g \in Gens, Crash(g) PROVE GateStep
  <2>1. ASSUME NEW h \in Gens
        PROVE  proc'[h] = proc[h] \/ (proc[h] = "running" /\ proc'[h] = "crashed")
    <3>1. CASE h = g
      BY <1>6, <3>1 DEF Crash, TypeOK
    <3>2. CASE h # g
      BY <1>6, <3>2 DEF Crash, TypeOK
    <3> QED  BY <3>1, <3>2
  <2> QED  BY <1>6, <2>1, GateStutters DEF Crash
<1>7. ASSUME NEW g \in Gens, DropDetached(g) PROVE GateStep
  <2>1. inFlight[g] = 0 /\ g \notin accepting
    BY <1>7, GenFacts DEF DropDetached, Drained, SafetyInv, OneAdmitting, Disjoint
  <2>2. ASSUME NEW h \in Gens
        PROVE  \/ proc'[h] = proc[h]
               \/ /\ proc[h] = "running" /\ proc'[h] = "terminated"
                  /\ inFlight[h] = 0 /\ h \notin accepting
    <3>1. CASE h = g
      BY <1>7, <2>1, <3>1 DEF DropDetached, Killed
    <3>2. CASE h # g
      BY <1>7, <3>2 DEF DropDetached, Killed
    <3> QED  BY <3>1, <3>2
  <2> QED  BY <1>7, <2>2, GateTerminates DEF DropDetached
<1>8. ASSUME NEW o \in Owners, ReleaseOwner(o) PROVE GateStep
  <2>1. PICK S : accepting' = accepting \ S
    BY <1>8, RemovedOwnersClose DEF ReleaseOwner, Release
  <2> QED  BY <1>8, <2>1, GateCloses DEF ReleaseOwner, procVars, TypeOK
<1>9. ASSUME NEW d \in drains, FinishOwnerRelease(d) PROVE GateStep
  BY <1>9, GateStutters DEF FinishOwnerRelease, procVars
<1>10. ASSUME NEW o \in ReplyOwners, AdmitReply(o) PROVE GateStep
  BY <1>10, GateStutters DEF AdmitReply, procVars
<1>11. ASSUME NEW o \in TabOwners \cup AgentOwners, EnsureBegin(o) PROVE GateStep
  BY <1>11, GateStutters DEF EnsureBegin, procVars
<1>12. ASSUME NEW o \in TabOwners, ReleaseTab(o) PROVE GateStep
  <2>1. PICK S : accepting' = accepting \ S
    BY <1>12, RemovedOwnersClose DEF ReleaseTab, FencedRelease
  <2> QED  BY <1>12, <2>1, GateCloses DEF ReleaseTab, procVars, TypeOK
<1>13. ASSUME DeleteBegin PROVE GateStep
  BY <1>13, GateStutters DEF DeleteBegin, procVars
<1>14. ASSUME EnsureExhausted PROVE GateStep
  BY <1>14, GateStutters DEF EnsureExhausted, procVars
<1>15. ASSUME EnsureStale PROVE GateStep
  BY <1>15, GateStutters DEF EnsureStale, procVars
<1>16. ASSUME CheckAbsent PROVE GateStep
  BY <1>16, GateStutters DEF CheckAbsent, procVars
<1>17. ASSUME CheckDead PROVE GateStep
  <2>1. PICK S : accepting' = accepting \ S
    BY <1>17 DEF CheckDead, PrepareReplacement
  <2> QED  BY <1>17, <2>1, GateCloses DEF CheckDead, procVars, TypeOK
<1>18. ASSUME CheckReusable PROVE GateStep
  BY <1>18, GateStutters DEF CheckReusable, procVars
<1>19. ASSUME CheckDrift PROVE GateStep
  <2>1. PICK S : accepting' = accepting \ S
    BY <1>19 DEF CheckDrift, PrepareReplacement
  <2> QED  BY <1>19, <2>1, GateCloses DEF CheckDrift, procVars, TypeOK
<1>20. ASSUME CheckDraining PROVE GateStep
  BY <1>20, GateStutters DEF CheckDraining, procVars
<1>21. ASSUME AwaitDrained PROVE GateStep
  <2>1. CASE Held = {} /\ (HasActive \/ HasRecovery)
    <3>1. PICK S : accepting' = accepting \ S
      BY <1>21, <2>1 DEF AwaitDrained, PrepareReplacement
    <3> QED  BY <1>21, <3>1, GateCloses DEF AwaitDrained, procVars, TypeOK
  <2>2. CASE ~(Held = {} /\ (HasActive \/ HasRecovery))
    <3>1. UNCHANGED <<gateVars, proc>>
      BY <1>21, <2>2 DEF AwaitDrained, gateVars, procVars
    <3> QED  BY <3>1, GateStutters
  <2> QED  BY <2>1, <2>2
<1>22. ASSUME RetireUnowned PROVE GateStep
  BY <1>22, GateStutters DEF RetireUnowned, procVars
<1>23. ASSUME ReapRetired PROVE GateStep
  BY <1>23, GateStutters DEF ReapRetired, procVars
<1>24. ASSUME ProbeReplaced PROVE GateStep
  BY <1>24, GateStutters DEF ProbeReplaced, procVars
<1>25. ASSUME ProbeHealthy PROVE GateStep
  BY <1>25, GateStutters DEF ProbeHealthy, procVars
<1>26. ASSUME ProbeUnhealthy PROVE GateStep
  <2>1. CASE HasActive
    <3>1. PICK S : accepting' = accepting \ S
      BY <1>26, <2>1 DEF ProbeUnhealthy, PrepareReplacement
    <3> QED  BY <1>26, <3>1, GateCloses DEF ProbeUnhealthy, procVars, TypeOK
  <2>2. CASE ~(HasActive)
    <3>1. UNCHANGED <<gateVars, proc>>
      BY <1>26, <2>2 DEF ProbeUnhealthy, gateVars, procVars
    <3> QED  BY <3>1, GateStutters
  <2> QED  BY <2>1, <2>2
<1>27. ASSUME ReplaceDrained PROVE GateStep
  <2>1. ASSUME NEW h \in Gens
        PROVE  \/ proc'[h] = proc[h]
               \/ /\ proc[h] = "running" /\ proc'[h] = "terminated"
                  /\ inFlight[h] = 0 /\ h \notin accepting
    <3>1. \/ proc'[h] = proc[h]
          \/ proc[h] = "running" /\ proc'[h] = "terminated" /\ h = op.drain.active
      BY <1>27 DEF ReplaceDrained, FinishReplacement, Killed
    <3>2. h = op.drain.active => inFlight[h] = 0 /\ h \notin accepting
      BY <1>27, GenFacts DEF ReplaceDrained, Drained, SafetyInv, DrainsClosed
    <3> QED  BY <3>1, <3>2
  <2> QED  BY <1>27, <2>1, GateTerminates DEF ReplaceDrained
<1>28. ASSUME CreateRetry PROVE GateStep
  BY <1>28, GateStutters DEF CreateRetry, procVars
<1>29. ASSUME CreateDead PROVE GateStep
  <2>1. PICK S : accepting' = accepting \ S
    BY <1>29 DEF CreateDead, PrepareReplacement
  <2> QED  BY <1>29, <2>1, GateCloses DEF CreateDead, procVars, TypeOK
<1>30. ASSUME CreateSpawned PROVE GateStep
  BY <1>30, GateOpens
<1>31. ASSUME CreateFailed PROVE GateStep
  BY <1>31, GateStutters DEF CreateFailed, procVars
<1>32. ASSUME BootReady PROVE GateStep
  BY <1>32, GateStutters DEF BootReady, procVars
<1>33. ASSUME BootFailed PROVE GateStep
  <2>1. PICK S : accepting' = accepting \ S
    BY <1>33 DEF BootFailed
  <2> QED  BY <1>33, <2>1, GateCloses DEF BootFailed, procVars, TypeOK
<1>34. ASSUME BootDiscarded PROVE GateStep
  BY <1>34, GateStutters DEF BootDiscarded, procVars
<1>35. ASSUME Commit PROVE GateStep
  <2>1. ASSUME NEW h \in Gens
        PROVE  \/ proc'[h] = proc[h]
               \/ /\ proc[h] = "running" /\ proc'[h] = "terminated"
                  /\ inFlight[h] = 0 /\ h \notin accepting
    <3>1. \/ proc'[h] = proc[h]
          \/ proc[h] = "running" /\ proc'[h] = "terminated" /\ h = recovering.gen
      BY <1>35 DEF Commit, Killed
    <3> QED  BY <3>1, GenFacts DEF SafetyInv, RecoveryIsDrained, HasRecovery
  <2> QED  BY <1>35, <2>1, GateTerminates DEF Commit
<1>36. ASSUME CommitReused PROVE GateStep
  BY <1>36, GateStutters DEF CommitReused, procVars
<1>37. ASSUME CommitRejected PROVE GateStep
  BY <1>37, GateStutters DEF CommitRejected, procVars
<1>38. ASSUME MonitorScan PROVE GateStep
  BY <1>38, GateStutters DEF MonitorScan, procVars
<1>39. ASSUME MonitorBegin PROVE GateStep
  <2>1. CASE HasActive
    <3>1. PICK S : accepting' = accepting \ S
      BY <1>39, <2>1 DEF MonitorBegin, PrepareReplacement
    <3> QED  BY <1>39, <3>1, GateCloses DEF MonitorBegin, procVars, TypeOK
  <2>2. CASE ~(HasActive)
    <3>1. UNCHANGED <<gateVars, proc>>
      BY <1>39, <2>2 DEF MonitorBegin, gateVars, procVars
    <3> QED  BY <3>1, GateStutters
  <2> QED  BY <2>1, <2>2
<1>40. ASSUME MonitorDispatch PROVE GateStep
  BY <1>40, GateStutters DEF MonitorDispatch, procVars
<1>41. ASSUME RetryClock PROVE GateStep
  BY <1>41, GateStutters DEF RetryClock, procVars
<1>42. ASSUME BgBind PROVE GateStep
  BY <1>42, GateStutters DEF BgBind, procVars
<1>43. ASSUME BgProbe PROVE GateStep
  BY <1>43, GateStutters DEF BgProbe, procVars
<1>44. ASSUME BgAttach PROVE GateStep
  BY <1>44, GateStutters DEF BgAttach, procVars
<1>45. ASSUME BgHeadless PROVE GateStep
  BY <1>45, GateStutters DEF BgHeadless, procVars
<1>46. ASSUME BgPoll PROVE GateStep
  BY <1>46, GateStutters DEF BgPoll, procVars
<1>47. ASSUME BgSettle PROVE GateStep
  BY <1>47, GateStutters DEF BgSettle, procVars
<1>48. ASSUME BgRelease PROVE GateStep
  <2>1. PICK S : accepting' = accepting \ S
    BY <1>48, RemovedOwnersClose DEF BgRelease, Release
  <2> QED  BY <1>48, <2>1, GateCloses DEF BgRelease, procVars, TypeOK
<1>49. ASSUME BgTimeout PROVE GateStep
  <2>1. PICK S : accepting' = accepting \ S
    BY <1>49, RemovedOwnersClose DEF BgTimeout, Release
  <2> QED  BY <1>49, <2>1, GateCloses DEF BgTimeout, procVars, TypeOK
<1>50. ASSUME ReconcileTab PROVE GateStep
  BY <1>50, GateStutters DEF ReconcileTab, procVars
<1>51. ASSUME DeleteRefused PROVE GateStep
  BY <1>51, GateStutters DEF DeleteRefused, procVars
<1>52. ASSUME DeleteActivity PROVE GateStep
  BY <1>52, GateStutters DEF DeleteActivity, procVars
<1>53. ASSUME DeleteRecheck PROVE GateStep
  BY <1>53, GateStutters DEF DeleteRecheck, procVars
<1>54. ASSUME DeleteClose PROVE GateStep
  <2>1. CASE HasActive
    <3>1. PICK S : accepting' = accepting \ S
      BY <1>54, <2>1 DEF DeleteClose, PrepareReplacement
    <3> QED  BY <1>54, <3>1, GateCloses DEF DeleteClose, procVars, TypeOK
  <2>2. CASE ~(HasActive)
    <3>1. UNCHANGED <<gateVars, proc>>
      BY <1>54, <2>2 DEF DeleteClose, gateVars, procVars
    <3> QED  BY <3>1, GateStutters
  <2> QED  BY <2>1, <2>2
<1>55. ASSUME DeleteKill PROVE GateStep
  <2>1. ASSUME NEW h \in Gens
        PROVE  \/ proc'[h] = proc[h]
               \/ /\ proc[h] = "running" /\ proc'[h] = "terminated"
                  /\ inFlight[h] = 0 /\ h \notin accepting
    <3>1. \/ proc'[h] = proc[h]
          \/ proc[h] = "running" /\ proc'[h] = "terminated" /\ h = recovering.gen
      BY <1>55 DEF DeleteKill, Killed
    <3> QED  BY <3>1, GenFacts DEF SafetyInv, RecoveryIsDrained, HasRecovery
  <2> QED  BY <1>55, <2>1, GateTerminates DEF DeleteKill
<1>56. ASSUME DeleteConfirm PROVE GateStep
  <2>1. CASE Held = {} /\ (HasActive \/ HasRecovery)
    <3>1. PICK S : accepting' = accepting \ S
      BY <1>56, <2>1 DEF DeleteConfirm, PrepareReplacement
    <3> QED  BY <1>56, <3>1, GateCloses DEF DeleteConfirm, procVars, TypeOK
  <2>2. CASE ~(Held = {} /\ (HasActive \/ HasRecovery))
    <3>1. UNCHANGED <<gateVars, proc>>
      BY <1>56, <2>2 DEF DeleteConfirm, gateVars, procVars
    <3> QED  BY <3>1, GateStutters
  <2> QED  BY <2>1, <2>2
<1>57. ASSUME DeleteUnlink PROVE GateStep
  BY <1>57, GateStutters DEF DeleteUnlink, procVars
<1>58. ASSUME DeleteReleaseTabs PROVE GateStep
  <2>1. PICK S : accepting' = accepting \ S
    BY <1>58, RemovedOwnersClose DEF DeleteReleaseTabs, FencedRelease
  <2> QED  BY <1>58, <2>1, GateCloses DEF DeleteReleaseTabs, procVars, TypeOK
<1>59. ASSUME UNCHANGED vars PROVE GateStep
  BY <1>59, GateStutters DEF vars, procVars
<1> QED
  BY <1>1, <1>2, <1>3, <1>4, <1>5, <1>6, <1>7, <1>8, <1>9, <1>10, <1>11, <1>12, <1>13,
      <1>14,
     <1>15, <1>16, <1>17, <1>18, <1>19, <1>20, <1>21, <1>22, <1>23, <1>24, <1>25, <1>26, <1>27, <1>28,
     <1>29, <1>30, <1>31, <1>32, <1>33, <1>34, <1>35, <1>36, <1>37, <1>38, <1>39, <1>40, <1>41, <1>42,
     <1>43, <1>44, <1>45, <1>46, <1>47, <1>48, <1>49, <1>50, <1>51, <1>52, <1>53, <1>54, <1>55, <1>56,
     <1>57, <1>58, <1>59
  DEF Next, FencedStep, EnsureStep, DeleteStep, BgStep

(* Every behaviour of the Session's lifecycle is a behaviour of its gates. *)
THEOREM Refinement == Spec => GateSpec
<1>1. TypeOK /\ SafetyInv /\ [Next]_vars => [Gate!Next]_Gate!gateVars
  BY GateSimulation DEF GateStep
<1> QED  BY <1>1, GateInit, TypeCorrect, Safety, PTL DEF Spec, GateSpec, Gate!Spec

-----------------------------------------------------------------------------
(* The owners: none is stranded behind a gate nobody will open again, and  *)
(* none is lost or comes back (NoStranded, Conserved, StaleDrains,         *)
(* ReleaseCurrent).  The shared operations first.                          *)

LEMMA OwnersParts ==
  ASSUME TypeOK
  PROVE  /\ \A S : /\ [active EXCEPT !.owners = S].owners = S
                   /\ [active EXCEPT !.owners = S].gen = active.gen
                   /\ [active EXCEPT !.owners = S].state = active.state
         /\ \A S : /\ [recovering EXCEPT !.owners = S].owners = S
                   /\ [recovering EXCEPT !.owners = S].gen = recovering.gen
         /\ \A b : [recovering EXCEPT !.due = b].owners = recovering.owners
         /\ Observed.owners = active.owners /\ Observed.gen = active.gen
         /\ Observed.state \in {active.state, "Dead"}
         /\ \A S : /\ [Observed EXCEPT !.owners = S].owners = S
                   /\ [Observed EXCEPT !.owners = S].gen = active.gen
                   /\ [Observed EXCEPT !.owners = S].state = Observed.state
  BY ObservedParts, TypedParts DEF TypeOK, Entry, Recovery

LEMMA NoOwners == NoEntry.owners = {} /\ NoRecovery.owners = {} /\ NoEntry.gen = NoGen
  BY DEF NoEntry, NoRecovery

LEMMA RemovedOwners ==
  ASSUME TypeOK, NEW S, RemoveOwners(S)
  PROVE  /\ Held' = Held \ S
         /\ Held' # {} => accepting' = accepting
<1>1. active'.owners = active.owners \ S /\ recovering'.owners = recovering.owners \ S
  BY OwnersParts DEF RemoveOwners
<1>2. Held' = Held \ S
  BY <1>1 DEF Held
<1>3. LastRemoved(S) => Held' = {}
  BY <1>2 DEF LastRemoved
<1> QED  BY <1>2, <1>3 DEF RemoveOwners

(* Steps that leave the gates alone: an owner comes only through an open   *)
(* gate, to a dead entry, or to a recovery that has owners.                *)
LEMMA GateLeft ==
  ASSUME NoStrandedOwner,
         active'.gen = active.gen, active'.state # "Dead" => active.state # "Dead",
         accepting' = accepting,
         Held' # {} => \/ Held # {} \/ ~HasActive \/ active.gen \in accepting
                       \/ active'.state = "Dead",
         HasActive /\ Exited(active.gen) => Exited(active.gen)',
         op.step = "replace" => op' = op
  PROVE  NoStrandedOwner'
  BY DEF NoStrandedOwner, HasActive, Exited

LEMMA GatesAndOwnersLeft ==
  ASSUME NoStrandedOwner, UNCHANGED <<active, recovering, accepting, proc>>,
         op.step = "replace" => op' = op
  PROVE  NoStrandedOwner'
  BY DEF NoStrandedOwner, HasActive, Exited, Held

LEMMA Attached ==
  ASSUME TypeOK, SafetyInv, AttachLogical
  PROVE  /\ active'.gen = active.gen
         /\ active'.state # "Dead" => active.state # "Dead"
         /\ Held' # {} => \/ Held # {} \/ ~HasActive \/ active.gen \in accepting
                          \/ active'.state = "Dead"
<1>1. CASE Background \in Held
  BY <1>1 DEF AttachLogical
<1>2. CASE Background \notin Held /\ IsReady /\ generation # NoGen
  <2>1. AttachIfCurrent
    BY <1>2 DEF AttachLogical
  <2> QED  BY <1>2, <2>1, OwnersParts DEF AttachIfCurrent, IsReady, IsReusable
<1>3. CASE /\ Background \notin Held /\ ~(IsReady /\ generation # NoGen)
           /\ IsDead /\ ~HasRecovery
  <2>1. active' = [Observed EXCEPT !.owners = @ \cup {Background}]
    BY <1>3 DEF AttachLogical
  <2> QED  BY <1>3, <2>1, OwnersParts, ObservedParts
<1>4. CASE /\ Background \notin Held /\ ~(IsReady /\ generation # NoGen)
           /\ ~(IsDead /\ ~HasRecovery)
  <2>1. /\ active' = active
        /\ recovering' = IF RecoveryAdmits
                           THEN [recovering EXCEPT !.owners = @ \cup {Background}]
                           ELSE recovering
    BY <1>4 DEF AttachLogical
  <2>2. RecoveryAdmits => Held # {}
    BY DEF RecoveryAdmits, SafetyInv, RecoveryIsDrained, Held
  <2> QED  BY <2>1, <2>2 DEF Held
<1> QED  BY <1>1, <1>2, <1>3, <1>4

(* A gate closed for a displacement is the one the fence holder names.     *)
LEMMA Prepared ==
  ASSUME TypeOK, NEW o \in Operation, PrepareReplacement(o), active'.gen = active.gen
  PROVE  NoStrandedOwner'
<1>1. op'.step = "replace" /\ op'.drain.active = active.gen
  BY PrepareParts
<1> QED  BY <1>1 DEF NoStrandedOwner

(* A release of the last owner leaves nobody to strand. *)
LEMMA Released ==
  ASSUME TypeOK, NoStrandedOwner, NEW S, RemoveOwners(S), UNCHANGED proc,
         op.step = "replace" => op' = op
  PROVE  NoStrandedOwner'
<1>1. /\ Held' \subseteq Held
      /\ Held' # {} => accepting' = accepting
      /\ active'.gen = active.gen /\ active'.state = active.state
  BY RemovedOwners, RemoveOwnersParts
<1>2. CASE Held' = {}
  BY <1>2 DEF NoStrandedOwner
<1>3. CASE Held' # {}
  BY <1>1, <1>3, GateLeft DEF Exited
<1> QED  BY <1>2, <1>3

(* A retirement takes entries out of an unowned Session only. *)
LEMMA Finished ==
  ASSUME TypeOK, NoStrandedOwner, NEW d \in Drain, FinishUnowned(d),
         UNCHANGED <<accepting, proc>>, op.step = "replace" => op' = op
  PROVE  NoStrandedOwner'
<1>1. CASE Held = {}
  <2>1. active'.owners = {} /\ recovering'.owners = {}
    BY <1>1, NoOwners DEF FinishUnowned, Held
  <2> QED  BY <2>1 DEF NoStrandedOwner, Held
<1>2. CASE Held # {}
  <2>1. Retired(d) = {}
    BY <1>2 DEF Retired
  <2>2. UNCHANGED <<active, recovering>>
    BY <2>1 DEF FinishUnowned
  <2> QED  BY <2>2, GatesAndOwnersLeft
<1> QED  BY <1>1, <1>2

LEMMA FailureRecorded ==
  ASSUME TypeOK, RecordFailure
  PROVE  recovering'.owners = recovering.owners
  BY OwnersParts DEF RecordFailure

LEMMA ReplaceKeeps ==
  ASSUME TypeOK, SafetyInv, ReplaceDrained
  PROVE  active'.gen = NoGen
<1>1. active.gen \in {NoGen, op.drain.active}
  BY DEF SafetyInv, ReplacesCurrent, ReplaceDrained
<1> QED  BY <1>1, NoOwners DEF ReplaceDrained, FinishReplacement, HasActive

(* An entry is marked dead only when its process has exited, and no        *)
(* process comes back.                                                     *)
DeadHasExited == HasActive /\ active.state = "Dead" => Exited(active.gen)

LEMMA DeadLeft ==
  ASSUME DeadHasExited, UNCHANGED <<active, proc>>
  PROVE  DeadHasExited'
  BY DEF DeadHasExited, HasActive, Exited

LEMMA DeadNoticed ==
  ASSUME TypeOK, DeadHasExited, active'.gen = active.gen,
         active'.state \in {active.state, Observed.state}, UNCHANGED proc
  PROVE  DeadHasExited'
  BY DEF DeadHasExited, HasActive, Exited, Observed, IsDead

LEMMA DeadMany ==
  ASSUME TypeOK, DeadHasExited, active'.gen = active.gen, active'.state = active.state,
         \A g \in Gens : Exited(g) => Exited(g)'
  PROVE  DeadHasExited'
  BY TypedParts DEF DeadHasExited, HasActive

LEMMA KilledStay ==
  ASSUME NEW S, proc' = Killed(S)
  PROVE  \A g \in Gens : Exited(g) => Exited(g)'
  BY DEF Killed, Exited

LEMMA DeadAttached ==
  ASSUME TypeOK, DeadHasExited, AttachLogical, UNCHANGED proc
  PROVE  DeadHasExited'
<1>1. active'.gen = active.gen /\ active'.state \in {active.state, Observed.state}
  <2>1. /\ [Observed EXCEPT !.owners = @ \cup {Background}].gen = active.gen
        /\ [Observed EXCEPT !.owners = @ \cup {Background}].state = Observed.state
    BY OwnersParts
  <2> QED  BY <2>1, AttachIfCurrentParts DEF AttachLogical
<1> QED  BY <1>1, DeadNoticed

LEMMA DeadStep ==
  ASSUME TypeOK, SafetyInv, DeadHasExited, [Next]_vars
  PROVE  DeadHasExited'
<1> USE DEF entryVars, gateVars, procVars
<1>1. ASSUME AcquireDispatch PROVE DeadHasExited'
  BY <1>1, DeadLeft DEF AcquireDispatch
<1>2. ASSUME NoticeDeath PROVE DeadHasExited'
  BY <1>2, DeadNoticed, ObservedParts DEF NoticeDeath
<1>3. ASSUME NEW g \in Gens, DropLease(g) PROVE DeadHasExited'
  BY <1>3, DeadLeft DEF DropLease
<1>4. ASSUME NEW g \in Gens, BeginTurn(g) PROVE DeadHasExited'
  BY <1>4, DeadLeft DEF BeginTurn
<1>5. ASSUME EndTurn PROVE DeadHasExited'
  BY <1>5, DeadLeft DEF EndTurn
<1>6. ASSUME NEW g \in Gens, Crash(g) PROVE DeadHasExited'
  <2>1. \A h \in Gens : Exited(h) => Exited(h)'
    BY <1>6 DEF Crash, Exited, TypeOK
  <2> QED  BY <1>6, <2>1, DeadMany DEF Crash
<1>7. ASSUME NEW g \in Gens, DropDetached(g) PROVE DeadHasExited'
  BY <1>7, KilledStay, DeadMany DEF DropDetached
<1>8. ASSUME NEW o \in Owners, ReleaseOwner(o) PROVE DeadHasExited'
  BY <1>8, RemoveOwnersParts, DeadNoticed DEF ReleaseOwner, Release
<1>9. ASSUME NEW d \in drains, FinishOwnerRelease(d) PROVE DeadHasExited'
  BY <1>9, IdleParts DEF FinishOwnerRelease, FinishUnowned, DeadHasExited, HasActive,
      Exited
<1>10. ASSUME NEW o \in ReplyOwners, AdmitReply(o) PROVE DeadHasExited'
  BY <1>10, EntryParts, DeadNoticed DEF AdmitReply, TypeOK
<1>11. ASSUME NEW o \in TabOwners \cup AgentOwners, EnsureBegin(o) PROVE DeadHasExited'
  BY <1>11, DeadLeft DEF EnsureBegin
<1>12. ASSUME NEW o \in TabOwners, ReleaseTab(o) PROVE DeadHasExited'
  BY <1>12, RemoveOwnersParts, DeadNoticed DEF ReleaseTab, FencedRelease
<1>13. ASSUME DeleteBegin PROVE DeadHasExited'
  BY <1>13, DeadLeft DEF DeleteBegin
<1>14. ASSUME EnsureExhausted PROVE DeadHasExited'
  BY <1>14, DeadLeft DEF EnsureExhausted
<1>15. ASSUME EnsureStale PROVE DeadHasExited'
  BY <1>15, DeadLeft DEF EnsureStale
<1>16. ASSUME CheckAbsent PROVE DeadHasExited'
  BY <1>16, DeadLeft DEF CheckAbsent
<1>17. ASSUME CheckDead PROVE DeadHasExited'
  BY <1>17, DeadNoticed, ObservedParts DEF CheckDead
<1>18. ASSUME CheckReusable PROVE DeadHasExited'
  BY <1>18, DeadLeft DEF CheckReusable
<1>19. ASSUME CheckDrift PROVE DeadHasExited'
  BY <1>19, DeadLeft DEF CheckDrift
<1>20. ASSUME CheckDraining PROVE DeadHasExited'
  BY <1>20, DeadLeft DEF CheckDraining
<1>21. ASSUME AwaitDrained PROVE DeadHasExited'
  BY <1>21, DeadLeft DEF AwaitDrained
<1>22. ASSUME RetireUnowned PROVE DeadHasExited'
  BY <1>22, IdleParts DEF RetireUnowned, FinishUnowned, DeadHasExited, HasActive, Exited
<1>23. ASSUME ReapRetired PROVE DeadHasExited'
  BY <1>23, DeadLeft DEF ReapRetired
<1>24. ASSUME ProbeReplaced PROVE DeadHasExited'
  BY <1>24, DeadNoticed, ObservedParts DEF ProbeReplaced
<1>25. ASSUME ProbeHealthy PROVE DeadHasExited'
  <2>1. active'.gen = active.gen /\ active'.state = active.state
    <3>1. CASE active' = [active EXCEPT !.owners = @ \cup {op.owner}]
      BY <3>1, OwnersParts
    <3>2. CASE active' = active
      BY <3>2
    <3> QED  BY <1>25, <3>1, <3>2 DEF ProbeHealthy
  <2> QED  BY <1>25, <2>1, DeadNoticed DEF ProbeHealthy
<1>26. ASSUME ProbeUnhealthy PROVE DeadHasExited'
  BY <1>26, DeadLeft DEF ProbeUnhealthy
<1>27. ASSUME ReplaceDrained PROVE DeadHasExited'
  BY <1>27, ReplaceKeeps DEF DeadHasExited, HasActive
<1>28. ASSUME CreateRetry PROVE DeadHasExited'
  BY <1>28, DeadLeft DEF CreateRetry
<1>29. ASSUME CreateDead PROVE DeadHasExited'
  BY <1>29, DeadNoticed, ObservedParts DEF CreateDead
<1>30. ASSUME CreateSpawned PROVE DeadHasExited'
  <2>1. active'.state = "Starting"
    BY <1>30 DEF CreateSpawned
  <2> QED  BY <2>1 DEF DeadHasExited
<1>31. ASSUME CreateFailed PROVE DeadHasExited'
  BY <1>31, DeadLeft DEF CreateFailed
<1>32. ASSUME BootReady PROVE DeadHasExited'
  <2>1. CASE active.gen = op.gen
    BY <1>32, <2>1, EntryParts DEF BootReady, TypeOK, DeadHasExited
  <2>2. CASE active.gen # op.gen
    BY <1>32, <2>2, DeadLeft DEF BootReady
  <2> QED  BY <2>1, <2>2
<1>33. ASSUME BootFailed PROVE DeadHasExited'
  BY <1>33, IdleParts DEF BootFailed, DeadHasExited, HasActive, Exited
<1>34. ASSUME BootDiscarded PROVE DeadHasExited'
  BY <1>34, DeadLeft DEF BootDiscarded
<1>35. ASSUME Commit PROVE DeadHasExited'
  <2>1. active'.gen = active.gen /\ active'.state = active.state
    BY <1>35, EntryParts DEF Commit, TypeOK
  <2> QED  BY <1>35, <2>1, KilledStay, DeadMany DEF Commit
<1>36. ASSUME CommitReused PROVE DeadHasExited'
  BY <1>36, DeadLeft DEF CommitReused
<1>37. ASSUME CommitRejected PROVE DeadHasExited'
  BY <1>37, DeadLeft DEF CommitRejected
<1>38. ASSUME MonitorDispatch PROVE DeadHasExited'
  BY <1>38, DeadLeft DEF MonitorDispatch
<1>39. ASSUME DeleteRefused PROVE DeadHasExited'
  BY <1>39, DeadLeft DEF DeleteRefused
<1>40. ASSUME DeleteActivity PROVE DeadHasExited'
  BY <1>40, DeadLeft DEF DeleteActivity
<1>41. ASSUME DeleteRecheck PROVE DeadHasExited'
  BY <1>41, DeadLeft DEF DeleteRecheck
<1>42. ASSUME DeleteClose PROVE DeadHasExited'
  BY <1>42, DeadLeft DEF DeleteClose
<1>43. ASSUME DeleteKill PROVE DeadHasExited'
  BY <1>43, KilledStay, DeadMany DEF DeleteKill
<1>44. ASSUME DeleteConfirm PROVE DeadHasExited'
  BY <1>44, DeadLeft DEF DeleteConfirm
<1>45. ASSUME DeleteUnlink PROVE DeadHasExited'
  BY <1>45, DeadLeft DEF DeleteUnlink
<1>46. ASSUME DeleteReleaseTabs PROVE DeadHasExited'
  BY <1>46, RemoveOwnersParts, DeadNoticed DEF DeleteReleaseTabs, FencedRelease
<1>47. ASSUME MonitorScan PROVE DeadHasExited'
  BY <1>47, DeadNoticed, ObservedParts DEF MonitorScan
<1>48. ASSUME MonitorBegin PROVE DeadHasExited'
  BY <1>48, DeadLeft DEF MonitorBegin
<1>49. ASSUME RetryClock PROVE DeadHasExited'
  BY <1>49, DeadLeft DEF RetryClock
<1>50. ASSUME BgBind PROVE DeadHasExited'
  BY <1>50, DeadLeft DEF BgBind
<1>51. ASSUME BgProbe PROVE DeadHasExited'
  BY <1>51, DeadLeft DEF BgProbe
<1>52. ASSUME BgAttach PROVE DeadHasExited'
  <2>1. UNCHANGED proc
    BY <1>52 DEF BgAttach
  <2>2. CASE AttachIfCurrent
    BY <2>1, <2>2, AttachIfCurrentParts, DeadNoticed
  <2> QED  BY <1>52, <2>1, <2>2, DeadAttached, DeadLeft DEF BgAttach
<1>53. ASSUME BgHeadless PROVE DeadHasExited'
  BY <1>53, DeadAttached DEF BgHeadless
<1>54. ASSUME BgPoll PROVE DeadHasExited'
  BY <1>54, DeadNoticed, ObservedParts DEF BgPoll
<1>55. ASSUME BgSettle PROVE DeadHasExited'
  BY <1>55, DeadNoticed, ObservedParts DEF BgSettle
<1>56. ASSUME BgRelease PROVE DeadHasExited'
  BY <1>56, RemoveOwnersParts, DeadNoticed DEF BgRelease, Release
<1>57. ASSUME BgTimeout PROVE DeadHasExited'
  BY <1>57, RemoveOwnersParts, DeadNoticed DEF BgTimeout, Release
<1>58. ASSUME ReconcileTab PROVE DeadHasExited'
  BY <1>58, EntryParts, DeadNoticed DEF ReconcileTab, TypeOK
<1>59. ASSUME UNCHANGED vars PROVE DeadHasExited'
  BY <1>59, DeadLeft DEF vars
<1> QED  BY <1>1, <1>2, <1>3, <1>4, <1>5, <1>6, <1>7, <1>8, <1>9, <1>10, <1>11,
         <1>12, <1>13, <1>14, <1>15, <1>16, <1>17, <1>18, <1>19, <1>20, <1>21,
         <1>22, <1>23, <1>24, <1>25, <1>26, <1>27, <1>28, <1>29, <1>30, <1>31,
         <1>32, <1>33, <1>34, <1>35, <1>36, <1>37, <1>38, <1>39, <1>40, <1>41,
         <1>42, <1>43, <1>44, <1>45, <1>46, <1>47, <1>48, <1>49, <1>50, <1>51,
         <1>52, <1>53, <1>54, <1>55, <1>56, <1>57, <1>58, <1>59 DEF Next,
         FencedStep, EnsureStep, DeleteStep, BgStep

LEMMA StrandedStep ==
  ASSUME TypeOK, SafetyInv, DeadHasExited, NoStrandedOwner, [Next]_vars
  PROVE  NoStrandedOwner'
<1> USE DEF entryVars, gateVars, procVars
<1>1. ASSUME AcquireDispatch PROVE NoStrandedOwner'
  BY <1>1, GatesAndOwnersLeft DEF AcquireDispatch
<1>2. ASSUME NoticeDeath PROVE NoStrandedOwner'
  BY <1>2, GateLeft, ObservedParts DEF NoticeDeath, Exited, Held
<1>3. ASSUME NEW g \in Gens, DropLease(g) PROVE NoStrandedOwner'
  BY <1>3, GatesAndOwnersLeft DEF DropLease
<1>4. ASSUME NEW g \in Gens, BeginTurn(g) PROVE NoStrandedOwner'
  BY <1>4, GatesAndOwnersLeft DEF BeginTurn
<1>5. ASSUME EndTurn PROVE NoStrandedOwner'
  BY <1>5, GatesAndOwnersLeft DEF EndTurn
<1>6. ASSUME NEW g \in Gens, Crash(g) PROVE NoStrandedOwner'
  <2>1. HasActive /\ Exited(active.gen) => Exited(active.gen)'
    BY <1>6, TypedParts DEF Crash, Exited, HasActive, TypeOK
  <2> QED  BY <1>6, <2>1, GateLeft DEF Crash, Held
<1>7. ASSUME NEW g \in Gens, DropDetached(g) PROVE NoStrandedOwner'
  <2>1. HasActive /\ Exited(active.gen) => Exited(active.gen)'
    BY <1>7, TypedParts DEF DropDetached, Exited, HasActive, Killed
  <2> QED  BY <1>7, <2>1, GateLeft DEF DropDetached, Held
<1>8. ASSUME NEW o \in Owners, ReleaseOwner(o) PROVE NoStrandedOwner'
  BY <1>8, Released DEF ReleaseOwner, Release
<1>9. ASSUME NEW d \in drains, FinishOwnerRelease(d) PROVE NoStrandedOwner'
  BY <1>9, Finished DEF FinishOwnerRelease, TypeOK
<1>10. ASSUME NEW o \in ReplyOwners, AdmitReply(o) PROVE NoStrandedOwner'
  <2>1. active'.gen = active.gen /\ active'.state = active.state
    BY <1>10, EntryParts DEF AdmitReply, TypeOK
  <2> QED  BY <1>10, <2>1, GateLeft DEF AdmitReply, Exited
<1>11. ASSUME NEW o \in TabOwners \cup AgentOwners, EnsureBegin(o) PROVE NoStrandedOwner'
  BY <1>11, GatesAndOwnersLeft DEF EnsureBegin, Idle
<1>12. ASSUME NEW o \in TabOwners, ReleaseTab(o) PROVE NoStrandedOwner'
  BY <1>12, Released, IdleParts DEF ReleaseTab, FencedRelease
<1>13. ASSUME DeleteBegin PROVE NoStrandedOwner'
  BY <1>13, GatesAndOwnersLeft DEF DeleteBegin, Idle
<1>14. ASSUME EnsureExhausted PROVE NoStrandedOwner'
  <2>1. Held' = Held
    BY <1>14, FailureRecorded DEF EnsureExhausted, Held
  <2> QED  BY <1>14, <2>1, GateLeft DEF EnsureExhausted, Ensuring, Exited
<1>15. ASSUME EnsureStale PROVE NoStrandedOwner'
  BY <1>15, GatesAndOwnersLeft DEF EnsureStale, Ensuring
<1>16. ASSUME CheckAbsent PROVE NoStrandedOwner'
  BY <1>16, GatesAndOwnersLeft DEF CheckAbsent, Checking, Ensuring
<1>17. ASSUME CheckDead PROVE NoStrandedOwner'
  BY <1>17, Prepared, ObservedParts DEF CheckDead, TypeOK
<1>18. ASSUME CheckReusable PROVE NoStrandedOwner'
  BY <1>18, GatesAndOwnersLeft DEF CheckReusable, Checking, Ensuring
<1>19. ASSUME CheckDrift PROVE NoStrandedOwner'
  <2>1. [op EXCEPT !.clear = TRUE] \in Operation
    BY DEF TypeOK, Operation, OperationRecord
  <2> QED  BY <1>19, <2>1, Prepared DEF CheckDrift
<1>20. ASSUME CheckDraining PROVE NoStrandedOwner'
  BY <1>20, GatesAndOwnersLeft DEF CheckDraining, Checking, Ensuring
<1>21. ASSUME AwaitDrained PROVE NoStrandedOwner'
  <2>1. CASE Held = {} /\ (HasActive \/ HasRecovery)
    BY <1>21, <2>1 DEF AwaitDrained, NoStrandedOwner, Held
  <2>2. CASE ~(Held = {} /\ (HasActive \/ HasRecovery))
    BY <1>21, <2>2, GatesAndOwnersLeft DEF AwaitDrained, Ensuring
  <2> QED  BY <2>1, <2>2
<1>22. ASSUME RetireUnowned PROVE NoStrandedOwner'
  BY <1>22, Finished, OperationFields DEF RetireUnowned, TypeOK
<1>23. ASSUME ReapRetired PROVE NoStrandedOwner'
  BY <1>23, GatesAndOwnersLeft DEF ReapRetired
<1>24. ASSUME ProbeReplaced PROVE NoStrandedOwner'
  BY <1>24, GateLeft, ObservedParts DEF ProbeReplaced, Ensuring, Exited, Held
<1>25. ASSUME ProbeHealthy PROVE NoStrandedOwner'
  <2>1. CASE IsReusable
    <3>1. active'.gen = active.gen /\ active'.state = active.state
      <4>1. active' = [active EXCEPT !.owners = @ \cup {op.owner}]
        BY <1>25, <2>1 DEF ProbeHealthy
      <4> QED  BY <4>1, OwnersParts
    <3>2. active.gen \in accepting
      BY <2>1 DEF IsReusable
    <3>3. op.step = "probe" /\ UNCHANGED <<accepting, proc>>
      BY <1>25 DEF ProbeHealthy, Ensuring
    <3> QED  BY <3>1, <3>2, <3>3, GateLeft DEF Exited
  <2>2. CASE ~IsReusable
    BY <1>25, <2>2, GatesAndOwnersLeft DEF ProbeHealthy, Ensuring
  <2> QED  BY <2>1, <2>2
<1>26. ASSUME ProbeUnhealthy PROVE NoStrandedOwner'
  <2>1. CASE HasActive
    BY <1>26, <2>1, Prepared DEF ProbeUnhealthy, TypeOK
  <2>2. CASE ~HasActive
    BY <1>26, <2>2, GatesAndOwnersLeft DEF ProbeUnhealthy, Ensuring
  <2> QED  BY <2>1, <2>2
<1>27. ASSUME ReplaceDrained PROVE NoStrandedOwner'
  BY <1>27, ReplaceKeeps DEF NoStrandedOwner, HasActive
<1>28. ASSUME CreateRetry PROVE NoStrandedOwner'
  BY <1>28, GatesAndOwnersLeft DEF CreateRetry, Ensuring
<1>29. ASSUME CreateDead PROVE NoStrandedOwner'
  BY <1>29, Prepared, ObservedParts DEF CreateDead, TypeOK
<1>30. ASSUME CreateSpawned PROVE NoStrandedOwner'
  <2>1. active'.gen = lastGen + 1 /\ lastGen + 1 \in accepting'
    BY <1>30 DEF CreateSpawned
  <2> QED  BY <2>1 DEF NoStrandedOwner
<1>31. ASSUME CreateFailed PROVE NoStrandedOwner'
  <2>1. active'.gen = NoGen
    BY <1>31 DEF CreateFailed, Reserve, HasActive
  <2> QED  BY <2>1 DEF NoStrandedOwner, HasActive
<1>32. ASSUME BootReady PROVE NoStrandedOwner'
  <2>1. active.state = "Starting" => active.gen \in accepting \/ Exited(active.gen) \/ Held = {}
    BY <1>32 DEF BootReady, Ensuring, NoStrandedOwner, SafetyInv, StartingIsPrivate
  <2>2. active'.gen = active.gen /\ active'.owners = active.owners
    BY <1>32, EntryParts DEF BootReady, TypeOK
  <2>3. UNCHANGED <<recovering, accepting, proc>> /\ op.step = "boot" /\ op'.step = "commit"
    BY <1>32, StepParts DEF BootReady, Ensuring
  <2>4. active'.state \in {active.state, "Healthy"}
    BY <1>32, EntryParts DEF BootReady, TypeOK
  <2>5. CASE active'.state # "Dead" /\ active.state = "Dead"
    <3>1. HasActive => Exited(active.gen)
      BY <2>5 DEF DeadHasExited
    <3>2. HasActive' => Exited(active.gen)'
      BY <2>2, <2>3, <3>1 DEF HasActive, Exited
    <3> QED  BY <3>2 DEF NoStrandedOwner
  <2>6. CASE active'.state # "Dead" => active.state # "Dead"
    BY <2>2, <2>3, <2>6, GateLeft DEF Exited, Held
  <2> QED  BY <2>5, <2>6
<1>33. ASSUME BootFailed PROVE NoStrandedOwner'
  <2>1. CASE HasActive /\ active.gen = op.gen
    BY <1>33, <2>1, NoOwners DEF BootFailed, NoStrandedOwner, HasActive
  <2>2. CASE ~(HasActive /\ active.gen = op.gen)
    <3>1. HasActive => (active.gen \in accepting' <=> active.gen \in accepting)
      BY <1>33, <2>2 DEF BootFailed
    <3> QED  BY <1>33, <2>2, <3>1, GatesAndOwnersLeft DEF BootFailed, Ensuring,
            NoStrandedOwner,
                   HasActive, Held, Exited
  <2> QED  BY <2>1, <2>2
<1>34. ASSUME BootDiscarded PROVE NoStrandedOwner'
  <2>1. Held' = Held
    BY <1>34, FailureRecorded DEF BootDiscarded, Held
  <2> QED  BY <1>34, <2>1, GateLeft DEF BootDiscarded, Ensuring, Exited
<1>35. ASSUME Commit PROVE NoStrandedOwner'
  <2>1. Held' = Held
    BY <1>35, OwnersParts, NoOwners DEF Commit, Held
  <2>2. active'.gen = active.gen /\ active'.state = active.state
    BY <1>35, EntryParts DEF Commit, TypeOK
  <2>3. HasActive /\ Exited(active.gen) => Exited(active.gen)'
    BY <1>35, <2>2, TypedParts DEF Commit, Exited, HasActive, Killed
  <2> QED  BY <1>35, <2>1, <2>2, <2>3, GateLeft DEF Commit, Ensuring
<1>36. ASSUME CommitReused PROVE NoStrandedOwner'
  BY <1>36, GatesAndOwnersLeft DEF CommitReused, Ensuring
<1>37. ASSUME CommitRejected PROVE NoStrandedOwner'
  <2>1. Held' = Held
    BY <1>37, FailureRecorded DEF CommitRejected, Held
  <2> QED  BY <1>37, <2>1, GateLeft DEF CommitRejected, Ensuring, Exited
<1>38. ASSUME MonitorDispatch PROVE NoStrandedOwner'
  BY <1>38, GatesAndOwnersLeft DEF MonitorDispatch
<1>39. ASSUME DeleteRefused PROVE NoStrandedOwner'
  BY <1>39, GatesAndOwnersLeft DEF DeleteRefused, Deleting
<1>40. ASSUME DeleteActivity PROVE NoStrandedOwner'
  BY <1>40, GatesAndOwnersLeft DEF DeleteActivity, Deleting
<1>41. ASSUME DeleteRecheck PROVE NoStrandedOwner'
  BY <1>41, GatesAndOwnersLeft DEF DeleteRecheck, Deleting
<1>42. ASSUME DeleteClose PROVE NoStrandedOwner'
  <2>1. CASE HasActive
    BY <1>42, <2>1, Prepared DEF DeleteClose, TypeOK
  <2>2. CASE ~HasActive
    BY <1>42, <2>2, GatesAndOwnersLeft DEF DeleteClose, Deleting
  <2> QED  BY <2>1, <2>2
<1>43. ASSUME DeleteKill PROVE NoStrandedOwner'
  <2>1. HasActive /\ Exited(active.gen) => Exited(active.gen)'
    BY <1>43, TypedParts DEF DeleteKill, Exited, HasActive, Killed
  <2> QED  BY <1>43, <2>1, GateLeft DEF DeleteKill, Deleting, Held
<1>44. ASSUME DeleteConfirm PROVE NoStrandedOwner'
  <2>1. CASE Held = {} /\ (HasActive \/ HasRecovery)
    BY <1>44, <2>1 DEF DeleteConfirm, NoStrandedOwner, Held
  <2>2. CASE ~(Held = {} /\ (HasActive \/ HasRecovery))
    BY <1>44, <2>2, GatesAndOwnersLeft DEF DeleteConfirm, Deleting
  <2> QED  BY <2>1, <2>2
<1>45. ASSUME DeleteUnlink PROVE NoStrandedOwner'
  BY <1>45, GatesAndOwnersLeft DEF DeleteUnlink, Deleting
<1>46. ASSUME DeleteReleaseTabs PROVE NoStrandedOwner'
  BY <1>46, Released DEF DeleteReleaseTabs, Deleting, FencedRelease
<1>47. ASSUME MonitorScan PROVE NoStrandedOwner'
  BY <1>47, GateLeft, ObservedParts DEF MonitorScan, Exited, Held
<1>48. ASSUME MonitorBegin PROVE NoStrandedOwner'
  <2>1. [Idle EXCEPT !.kind = "recover"] \in Operation
    BY ConstantRecords, OperationFields DEF Idle, Operation, OperationRecord, OpKinds
  <2>2. CASE HasActive
    BY <1>48, <2>1, <2>2, Prepared DEF MonitorBegin
  <2>3. CASE ~HasActive
    BY <1>48, <2>3, GatesAndOwnersLeft, IdleParts DEF MonitorBegin
  <2> QED  BY <2>2, <2>3
<1>49. ASSUME RetryClock PROVE NoStrandedOwner'
  <2>1. Held' = Held
    BY <1>49, OwnersParts DEF RetryClock, Held
  <2> QED  BY <1>49, <2>1, GateLeft DEF RetryClock, Exited
<1>50. ASSUME BgBind PROVE NoStrandedOwner'
  BY <1>50, GatesAndOwnersLeft DEF BgBind
<1>51. ASSUME BgProbe PROVE NoStrandedOwner'
  BY <1>51, GatesAndOwnersLeft DEF BgProbe
<1>52. ASSUME BgAttach PROVE NoStrandedOwner'
  <2>1. UNCHANGED <<accepting, proc, op>>
    BY <1>52 DEF BgAttach
  <2>2. CASE AttachLogical
    BY <2>1, <2>2, Attached, GateLeft DEF Exited
  <2>3. CASE AttachIfCurrent
    BY <2>1, <2>3, AttachIfCurrentParts, GateLeft DEF AttachIfCurrent, IsReady,
        IsReusable, Exited
  <2>4. CASE UNCHANGED <<active, recovering>>
    BY <2>1, <2>4, GatesAndOwnersLeft
  <2> QED  BY <1>52, <2>2, <2>3, <2>4 DEF BgAttach
<1>53. ASSUME BgHeadless PROVE NoStrandedOwner'
  BY <1>53, Attached, GateLeft DEF BgHeadless, Exited
<1>54. ASSUME BgPoll PROVE NoStrandedOwner'
  <2>1. active' \in {active, Observed} /\ UNCHANGED <<recovering, accepting, proc, op>>
    BY <1>54 DEF BgPoll
  <2> QED  BY <2>1, GateLeft, ObservedParts DEF Exited, Held
<1>55. ASSUME BgSettle PROVE NoStrandedOwner'
  <2>1. active' \in {active, Observed} /\ UNCHANGED <<recovering, accepting, proc, op>>
    BY <1>55 DEF BgSettle
  <2> QED  BY <2>1, GateLeft, ObservedParts DEF Exited, Held
<1>56. ASSUME BgRelease PROVE NoStrandedOwner'
  BY <1>56, Released DEF BgRelease, Release
<1>57. ASSUME BgTimeout PROVE NoStrandedOwner'
  BY <1>57, Released DEF BgTimeout, Release
<1>58. ASSUME ReconcileTab PROVE NoStrandedOwner'
  <2>1. active'.gen = active.gen /\ active'.state = active.state /\ active.gen \in accepting
    BY <1>58, EntryParts DEF ReconcileTab, IsReusable, TypeOK
  <2> QED  BY <1>58, <2>1, GateLeft DEF ReconcileTab, Exited
<1>59. ASSUME UNCHANGED vars PROVE NoStrandedOwner'
  BY <1>59, GatesAndOwnersLeft DEF vars
<1> QED  BY <1>1, <1>2, <1>3, <1>4, <1>5, <1>6, <1>7, <1>8, <1>9, <1>10, <1>11,
         <1>12, <1>13, <1>14, <1>15, <1>16, <1>17, <1>18, <1>19, <1>20, <1>21,
         <1>22, <1>23, <1>24, <1>25, <1>26, <1>27, <1>28, <1>29, <1>30, <1>31,
         <1>32, <1>33, <1>34, <1>35, <1>36, <1>37, <1>38, <1>39, <1>40, <1>41,
         <1>42, <1>43, <1>44, <1>45, <1>46, <1>47, <1>48, <1>49, <1>50, <1>51,
         <1>52, <1>53, <1>54, <1>55, <1>56, <1>57, <1>58, <1>59 DEF Next,
         FencedStep, EnsureStep, DeleteStep, BgStep

(* A Session somebody owns is never left behind a closed gate: for any     *)
(* number of owners, generations, requests and failures.                   *)
THEOREM NoStranded == Spec => []NoStrandedOwner
<1>1. Init => NoStrandedOwner
  BY NoOwners DEF Init, NoStrandedOwner, Held
<1>2. Init => DeadHasExited
  BY NoOwners DEF Init, DeadHasExited, HasActive
<1> QED  BY <1>1, <1>2, TypeCorrect, Safety, DeadStep, StrandedStep, PTL DEF Spec
-----------------------------------------------------------------------------
(* Who holds the Session, and what serves it: the shapes a step may have.  *)

(* Nobody comes or goes, and the entries stay. *)
Still ==
  /\ active'.gen = active.gen /\ active'.owners = active.owners
  /\ recovering'.gen = recovering.gen /\ recovering'.owners = recovering.owners
  /\ generation' \in {generation, NoGen}

(* One owner joins entries that are there; the poller's owner joins a      *)
(* recovery only while the poller has no answer to consume.                *)
Joined ==
  \E o \in Owners :
    /\ active'.gen = active.gen /\ recovering'.gen = recovering.gen
    /\ active'.owners \in {active.owners, active.owners \cup {o}}
    /\ recovering'.owners \in {recovering.owners, recovering.owners \cup {o}}
    /\ active'.owners # active.owners => HasActive
    /\ recovering'.owners # recovering.owners => HasRecovery
    /\ recovering'.owners # recovering.owners /\ bg.step = "settle" => o # Background
    /\ UNCHANGED generation

(* A release. *)
Left ==
  \E S : /\ active'.gen = active.gen /\ active'.owners = active.owners \ S
         /\ recovering'.gen = recovering.gen /\ recovering'.owners = recovering.owners \ S
         /\ \/ \E o \in Owners : S = {o} /\ UNCHANGED proc
            \/ Deleting("releaseTabs") /\ S = TabOwners
         /\ UNCHANGED generation

(* The drained entry becomes the recovery, or joins the one there is. *)
Displaced ==
  /\ HasActive /\ active.gen \notin accepting
  /\ active' = NoEntry /\ recovering'.gen # NoGen
  /\ recovering'.owners = recovering.owners \cup active.owners

(* Entries that nobody owns are taken out. *)
Taken ==
  /\ Held = {}
  /\ active' \in {active, NoEntry} /\ recovering' \in {recovering, NoRecovery}
  /\ active' # active => active.gen \notin accepting
  /\ generation' \in {generation, NoGen}

Spawned ==
  /\ ~HasActive
  /\ active'.gen # NoGen /\ \E o \in Owners : active'.owners = {o}
  /\ recovering'.gen = recovering.gen /\ recovering'.owners = recovering.owners
  /\ generation' = lastGen + 1

NotBooted ==
  /\ op.step = "boot" /\ op'.step = "discard"
  /\ active' = NoEntry
  /\ UNCHANGED <<recovering, generation>>

(* The process takes over the owners of the recovery it ends. *)
TookOver ==
  /\ HasActive
  /\ active'.gen = active.gen /\ active'.owners = active.owners \cup recovering.owners
  /\ recovering' = NoRecovery
  /\ UNCHANGED generation

Move ==
  Still \/ Joined \/ Left \/ Displaced \/ Taken \/ Spawned \/ NotBooted \/ TookOver

LEMMA EntriesLeft ==
  ASSUME UNCHANGED <<active, recovering>>, generation' \in {generation, NoGen}
  PROVE  Move
  BY DEF Move, Still

LEMMA EntryNoticed ==
  ASSUME TypeOK, active' \in {active, Observed}, UNCHANGED <<recovering, generation>>
  PROVE  Move
  BY ObservedParts DEF Move, Still

LEMMA FailureMove ==
  ASSUME TypeOK, RecordFailure, UNCHANGED active, generation' \in {generation, NoGen}
  PROVE  Move
  BY RecordFailureParts, FailureRecorded DEF Move, Still

LEMMA RemovedMove ==
  ASSUME TypeOK, NEW S, RemoveOwners(S), UNCHANGED generation,
         \/ \E o \in Owners : S = {o} /\ UNCHANGED proc
         \/ Deleting("releaseTabs") /\ S = TabOwners
  PROVE  Move
<1>1. /\ active'.owners = active.owners \ S /\ recovering'.owners = recovering.owners \ S
      /\ active'.gen = active.gen /\ recovering'.gen = recovering.gen
  BY OwnersParts DEF RemoveOwners
<1> QED  BY <1>1 DEF Move, Left

LEMMA TakenMove ==
  ASSUME TypeOK, SafetyInv, NEW d \in Drain, FinishUnowned(d), d.active \notin accepting
  PROVE  Move
<1>1. CASE Held = {}
  <2>1. active.gen \in Retired(d) => active.gen = d.active
    BY TypedParts, GenFacts DEF Retired, SafetyInv, Disjoint
  <2>2. CASE active.gen \in Retired(d) => active.gen \notin accepting
    BY <1>1, <2>2 DEF FinishUnowned, Move, Taken
  <2> QED  BY <2>1, <2>2
<1>2. CASE Held # {}
  <2>1. Retired(d) = {}
    BY <1>2 DEF Retired
  <2> QED  BY <1>2, <2>1, EntriesLeft DEF FinishUnowned
<1> QED  BY <1>1, <1>2

(* The background owner is attached, while no answer is to be consumed. *)
LEMMA JoinedMove ==
  ASSUME TypeOK, SafetyInv, UNCHANGED generation, bg.step # "settle",
         AttachIfCurrent \/ AttachLogical
  PROVE  Move
<1>1. Background \in Owners
  BY DEF Owners
<1>2. CASE AttachIfCurrent
  <2>1. /\ active'.gen = active.gen /\ recovering'.gen = recovering.gen
        /\ active'.owners = active.owners \cup {Background}
        /\ recovering'.owners \in {recovering.owners, recovering.owners \cup {Background}}
        /\ recovering'.owners # recovering.owners => HasRecovery
        /\ HasActive
    BY <1>2, OwnersParts DEF AttachIfCurrent, IsReady, IsReusable
  <2> QED  BY <1>1, <2>1 DEF Move, Joined
<1>3. CASE AttachLogical /\ ~AttachIfCurrent
  <2>1. /\ active'.gen = active.gen /\ recovering'.gen = recovering.gen
        /\ active'.owners \in {active.owners, active.owners \cup {Background}}
        /\ recovering'.owners \in {recovering.owners, recovering.owners \cup {Background}}
        /\ active'.owners # active.owners => HasActive
        /\ recovering'.owners # recovering.owners => HasRecovery
    <3>1. CASE UNCHANGED <<active, recovering>>
      BY <3>1
    <3>2. CASE /\ IsDead /\ ~HasRecovery /\ UNCHANGED recovering
               /\ active' = [Observed EXCEPT !.owners = @ \cup {Background}]
      BY <3>2, OwnersParts DEF IsDead
    <3>3. CASE /\ UNCHANGED active
               /\ recovering' = IF RecoveryAdmits
                                  THEN [recovering EXCEPT !.owners = @ \cup {Background}]
                                  ELSE recovering
      BY <3>3, OwnersParts DEF RecoveryAdmits
    <3> QED  BY <1>3, <3>1, <3>2, <3>3 DEF AttachLogical
  <2> QED  BY <1>1, <2>1 DEF Move, Joined
<1> QED  BY <1>2, <1>3

LEMMA MoveStep ==
  ASSUME TypeOK, SafetyInv, OwnersHaveEntries, Next
  PROVE  Move
<1> USE DEF entryVars, gateVars, procVars
<1>1. CASE \/ AcquireDispatch \/ EndTurn \/ DeleteBegin \/ BgBind \/ BgProbe
           \/ \E g \in Gens : DropLease(g) \/ BeginTurn(g) \/ Crash(g) \/ DropDetached(g)
           \/ \E o \in TabOwners \cup AgentOwners : EnsureBegin(o)
  BY <1>1, EntriesLeft DEF AcquireDispatch, EndTurn, DeleteBegin, BgBind, BgProbe, DropLease,
     BeginTurn, Crash, DropDetached, EnsureBegin
<1>2. CASE \/ EnsureStale \/ CheckAbsent \/ CheckReusable \/ CheckDrift \/ CheckDraining
           \/ AwaitDrained \/ ReapRetired \/ ProbeUnhealthy \/ CreateRetry \/ CommitReused
           \/ MonitorDispatch \/ MonitorBegin
  BY <1>2, EntriesLeft DEF EnsureStale, CheckAbsent, CheckReusable, CheckDrift, CheckDraining,
     AwaitDrained, ReapRetired, ProbeUnhealthy, CreateRetry, CommitReused, MonitorDispatch,
     MonitorBegin
<1>3. CASE \/ DeleteRefused \/ DeleteActivity \/ DeleteRecheck \/ DeleteClose
           \/ DeleteKill \/ DeleteConfirm \/ DeleteUnlink
  BY <1>3, EntriesLeft DEF DeleteRefused, DeleteActivity, DeleteRecheck, DeleteClose,
     DeleteKill, DeleteConfirm, DeleteUnlink
<1>4. CASE NoticeDeath \/ MonitorScan \/ BgPoll \/ BgSettle
  BY <1>4, EntryNoticed DEF NoticeDeath, MonitorScan, BgPoll, BgSettle
<1>5. CASE CheckDead \/ CreateDead \/ ProbeReplaced
  BY <1>5, EntryNoticed DEF CheckDead, CreateDead, ProbeReplaced
<1>6. CASE EnsureExhausted \/ BootDiscarded \/ CommitRejected
  BY <1>6, FailureMove DEF EnsureExhausted, BootDiscarded, CommitRejected
<1>7. CASE \E o \in Owners : ReleaseOwner(o)
  BY <1>7, RemovedMove DEF ReleaseOwner, Release
<1>8. CASE \E d \in drains : FinishOwnerRelease(d)
  <2>1. PICK d \in drains : FinishOwnerRelease(d)
    BY <1>8
  <2>2. d \in Drain /\ d.active \notin accepting
    BY DEF TypeOK, SafetyInv, DrainsClosed
  <2> QED  BY <2>1, <2>2, TakenMove DEF FinishOwnerRelease
<1>9. CASE \E o \in ReplyOwners : AdmitReply(o)
  <2>1. PICK o \in ReplyOwners : AdmitReply(o)
    BY <1>9
  <2>2. o \in Owners /\ o # Background
    BY OwnersAssumption DEF Owners
  <2>3. /\ active'.gen = active.gen /\ recovering'.gen = recovering.gen
        /\ active'.owners = active.owners \cup {o}
        /\ recovering'.owners \in {recovering.owners, recovering.owners \cup {o}}
        /\ HasActive /\ (recovering'.owners # recovering.owners => HasRecovery)
    BY <2>1, OwnersParts DEF AdmitReply, RecoveryAdmits
  <2> QED  BY <2>1, <2>2, <2>3 DEF Move, Joined, AdmitReply
<1>10. CASE \E o \in TabOwners : ReleaseTab(o)
  <2>1. TabOwners \subseteq Owners
    BY DEF Owners
  <2> QED  BY <1>10, <2>1, RemovedMove DEF ReleaseTab, FencedRelease
<1>11. CASE RetireUnowned
  <2>1. op.drain \in Drain /\ op.drain.active \notin accepting
    BY <1>11, OperationFields DEF RetireUnowned, TypeOK, SafetyInv, DrainsClosed
  <2> QED  BY <1>11, <2>1, TakenMove DEF RetireUnowned
<1>12. CASE ProbeHealthy
  <2>1. CASE IsReusable
    <3>1. /\ active'.gen = active.gen /\ active'.owners = active.owners \cup {op.owner}
          /\ HasActive /\ UNCHANGED <<recovering, generation>>
      <4>1. active' = [active EXCEPT !.owners = @ \cup {op.owner}]
        BY <1>12, <2>1 DEF ProbeHealthy
      <4> QED  BY <1>12, <2>1, <4>1, OwnersParts DEF ProbeHealthy, IsReusable
    <3>2. op.owner \in Owners
      BY <1>12, AuthorizedOwner DEF ProbeHealthy, Ensuring
    <3> QED  BY <3>1, <3>2 DEF Move, Joined
  <2>2. CASE ~IsReusable
    BY <1>12, <2>2, EntriesLeft DEF ProbeHealthy
  <2> QED  BY <2>1, <2>2
<1>13. CASE ReplaceDrained
  <2>1. CASE HasActive /\ active.gen = op.drain.active
    <3>1. active.gen \notin accepting
      BY <1>13, <2>1 DEF ReplaceDrained, SafetyInv, DrainsClosed
    <3>2. /\ active' = NoEntry /\ recovering'.gen # NoGen
          /\ recovering'.owners = recovering.owners \cup active.owners
      <4>1. CASE HasRecovery
        <5>1. /\ active' = NoEntry
              /\ recovering' = [recovering EXCEPT !.owners = @ \cup active.owners]
          BY <1>13, <2>1, <4>1 DEF ReplaceDrained, FinishReplacement
        <5>2. /\ recovering'.gen = recovering.gen
              /\ recovering'.owners = recovering.owners \cup active.owners
          BY <5>1, OwnersParts
        <5> QED  BY <4>1, <5>1, <5>2 DEF HasRecovery
      <4>2. CASE ~HasRecovery
        <5>1. recovering' = [gen |-> active.gen, candidate |-> NoGen, due |-> TRUE,
                             owners |-> active.owners]
          BY <1>13, <2>1, <4>2 DEF ReplaceDrained, FinishReplacement
        <5>2. active' = NoEntry
          BY <1>13, <2>1, <4>2 DEF ReplaceDrained, FinishReplacement
        <5>3. recovering.owners = {}
          BY <4>2 DEF OwnersHaveEntries
        <5> QED  BY <2>1, <5>1, <5>2, <5>3 DEF HasActive
      <4> QED  BY <4>1, <4>2
    <3> QED  BY <2>1, <3>1, <3>2 DEF Move, Displaced
  <2>2. CASE ~(HasActive /\ active.gen = op.drain.active)
    BY <1>13, <2>2, EntriesLeft DEF ReplaceDrained, FinishReplacement
  <2> QED  BY <2>1, <2>2
<1>14. CASE CreateSpawned
  <2>1. op.owner \in Owners
    BY <1>14, AuthorizedOwner DEF CreateSpawned, Reserve, Ensuring
  <2>2. recovering'.gen = recovering.gen /\ recovering'.owners = recovering.owners
    BY <1>14 DEF CreateSpawned, Candidate, TypeOK, Recovery
  <2>3. lastGen + 1 # NoGen
    BY <1>14 DEF NoGen, TypeOK
  <2> QED  BY <1>14, <2>1, <2>2, <2>3 DEF CreateSpawned, Reserve, Move, Spawned
<1>15. CASE CreateFailed
  <2>1. recovering'.gen = recovering.gen /\ recovering'.owners = recovering.owners
    BY <1>15 DEF CreateFailed, Candidate, TypeOK, Recovery
  <2> QED  BY <1>15, <2>1 DEF CreateFailed, Move, Still
<1>16. CASE BootReady
  <2>1. active'.gen = active.gen /\ active'.owners = active.owners
    BY <1>16, EntryParts DEF BootReady, TypeOK
  <2> QED  BY <1>16, <2>1 DEF BootReady, Move, Still
<1>17. CASE BootFailed
  <2>1. CASE HasActive /\ active.gen = op.gen
    BY <1>17, <2>1, StepParts DEF BootFailed, Ensuring, Move, NotBooted
  <2>2. CASE ~(HasActive /\ active.gen = op.gen)
    BY <1>17, <2>2, EntriesLeft DEF BootFailed
  <2> QED  BY <2>1, <2>2
<1>18. CASE Commit
  <2>1. active'.gen = active.gen /\ active'.owners = active.owners \cup recovering.owners
    BY <1>18, OwnersParts DEF Commit
  <2> QED  BY <1>18, <2>1 DEF Commit, CanCommit, Move, TookOver
<1>19. CASE DeleteReleaseTabs
  BY <1>19, RemovedMove DEF DeleteReleaseTabs, FencedRelease
<1>20. CASE RetryClock
  <2>1. recovering'.gen = recovering.gen /\ recovering'.owners = recovering.owners
    BY <1>20, OwnersParts, RecoveryParts DEF RetryClock, TypeOK
  <2> QED  BY <1>20, <2>1 DEF RetryClock, Move, Still
<1>21. CASE BgAttach
  <2>1. CASE UNCHANGED <<active, recovering>>
    BY <1>21, <2>1, EntriesLeft DEF BgAttach
  <2> QED  BY <1>21, <2>1, JoinedMove DEF BgAttach
<1>22. CASE BgHeadless
  BY <1>22, JoinedMove DEF BgHeadless, NoBg
<1>23. CASE BgRelease \/ BgTimeout
  <2>1. Background \in Owners
    BY DEF Owners
  <2> QED  BY <1>23, <2>1, RemovedMove DEF BgRelease, BgTimeout, Release
<1>24. CASE ReconcileTab
  <2>1. /\ active'.gen = active.gen /\ active'.owners = active.owners \ {Background}
        /\ recovering'.gen = recovering.gen
        /\ recovering'.owners = recovering.owners \ {Background}
    BY <1>24, OwnersParts DEF ReconcileTab
  <2>2. Background \in Owners
    BY DEF Owners
  <2> QED  BY <1>24, <2>1, <2>2 DEF ReconcileTab, Move, Left
<1> QED
  BY <1>1, <1>2, <1>3, <1>4, <1>5, <1>6, <1>7, <1>8, <1>9, <1>10, <1>11, <1>12, <1>13,
     <1>14, <1>15, <1>16, <1>17, <1>18, <1>19, <1>20, <1>21, <1>22, <1>23, <1>24
  DEF Next, FencedStep, EnsureStep, DeleteStep, BgStep

LEMMA EntriesOwnedStep ==
  ASSUME OwnersHaveEntries, SafetyInv, TypeOK, [Next]_vars
  PROVE  OwnersHaveEntries'
<1>1. CASE UNCHANGED vars
  BY <1>1 DEF vars, entryVars, OwnersHaveEntries, HasActive, HasRecovery
<1>2. CASE Next
  <2>1. Move
    BY <1>2, MoveStep
  <2>2. CASE Still \/ Joined
    BY <2>2 DEF Still, Joined, OwnersHaveEntries, HasActive, HasRecovery
  <2>3. CASE Left
    BY <2>3 DEF Left, OwnersHaveEntries, HasActive, HasRecovery
  <2>4. CASE Displaced \/ Taken
    BY <2>4, NoOwners DEF Displaced, Taken, OwnersHaveEntries, HasActive, HasRecovery
  <2>5. CASE Spawned \/ NotBooted \/ TookOver
    BY <2>5, NoOwners
       DEF Spawned, NotBooted, TookOver, OwnersHaveEntries, HasActive, HasRecovery
  <2> QED  BY <2>1, <2>2, <2>3, <2>4, <2>5 DEF Move
<1> QED  BY <1>1, <1>2

LEMMA EntriesOwned == Spec => []OwnersHaveEntries
<1>1. Init => OwnersHaveEntries
  BY NoOwners DEF Init, OwnersHaveEntries
<1> QED  BY <1>1, TypeCorrect, Safety, EntriesOwnedStep, PTL DEF Spec

LEMMA AtMostOne ==
  ASSUME NEW S, NEW o, S \subseteq {o}
  PROVE  Cardinality(S) <= 1 /\ (S # {} => Cardinality(S) = 1)
<1>1. CASE S = {}
  BY <1>1, FS_EmptySet
<1>2. CASE S = {o}
  <2>1. Cardinality({o}) = 1
    BY FS_Singleton
  <2> QED  BY <1>2, <2>1
<1> QED  BY <1>1, <1>2

(* What a step may do to the owners. *)
OwnersMove ==
  LET gone == Held \ Held'
      come == Held' \ Held
  IN  /\ Cardinality(come) <= 1
      /\ gone # {} =>
           \/ Cardinality(gone) = 1 /\ UNCHANGED <<generation, proc>>
           \/ op.step = "boot" /\ op'.step = "discard" /\ gone \subseteq active.owners
           \/ Deleting("releaseTabs") /\ gone \subseteq TabOwners

LEMMA OwnersStay ==
  ASSUME Held' = Held
  PROVE  OwnersMove
<1>1. Held \ Held' = {} /\ Held' \ Held = {}
  OBVIOUS
<1> QED  BY <1>1, FS_EmptySet DEF OwnersMove

(* Owners are conserved, for any number of owners and generations: no      *)
(* displacement, recovery, commit or retirement loses one or brings one    *)
(* back (OwnersConserved).                                                 *)
THEOREM Conserved == Spec => OwnersConserved
<1>1. ASSUME OwnersHaveEntries, TypeOK, SafetyInv, [Next]_vars
      PROVE  [OwnersMove]_vars
  <2> SUFFICES ASSUME Next PROVE OwnersMove
    BY <1>1
  <2>1. Move
    BY <1>1, MoveStep
  <2>2. CASE Still
    BY <2>2, OwnersStay DEF Still, Held
  <2>3. CASE Joined
    <3>1. PICK o \in Owners : Held' \ Held \subseteq {o} /\ Held \ Held' = {}
      BY <2>3 DEF Joined, Held
    <3> QED  BY <3>1, AtMostOne DEF OwnersMove
  <2>4. CASE Left
    <3>1. PICK S : /\ Held' = Held \ S
                   /\ \/ \E o \in Owners : S = {o} /\ UNCHANGED proc
                      \/ Deleting("releaseTabs") /\ S = TabOwners
                   /\ UNCHANGED generation
      BY <2>4 DEF Left, Held
    <3>2. Cardinality(Held' \ Held) <= 1
      BY <3>1, AtMostOne
    <3>3. CASE \E o \in Owners : S = {o} /\ UNCHANGED proc
      <4>1. PICK o \in Owners : S = {o} /\ UNCHANGED proc
        BY <3>3
      <4>2. Held \ Held' # {} => Cardinality(Held \ Held') = 1
        BY <3>1, <4>1, AtMostOne
      <4> QED  BY <3>1, <3>2, <4>1, <4>2 DEF OwnersMove
    <3>4. CASE Deleting("releaseTabs") /\ S = TabOwners
      BY <3>1, <3>2, <3>4 DEF OwnersMove
    <3> QED  BY <3>1, <3>3, <3>4
  <2>5. CASE Displaced
    BY <2>5, NoOwners, OwnersStay DEF Displaced, Held
  <2>6. CASE Taken
    BY <2>6, NoOwners, OwnersStay DEF Taken, Held
  <2>7. CASE Spawned
    <3>1. active.owners = {}
      BY <1>1, <2>7 DEF Spawned, OwnersHaveEntries
    <3>2. PICK o \in Owners : Held' \ Held \subseteq {o} /\ Held \ Held' = {}
      BY <2>7, <3>1 DEF Spawned, Held
    <3> QED  BY <3>2, AtMostOne DEF OwnersMove
  <2>8. CASE NotBooted
    <3>1. Held' \ Held = {} /\ Held \ Held' \subseteq active.owners
      BY <2>8, NoOwners DEF NotBooted, Held
    <3> QED  BY <2>8, <3>1, AtMostOne DEF OwnersMove, NotBooted
  <2>9. CASE TookOver
    BY <2>9, NoOwners, OwnersStay DEF TookOver, Held
  <2> QED  BY <2>1, <2>2, <2>3, <2>4, <2>5, <2>6, <2>7, <2>8, <2>9 DEF Move
<1>2. OwnersConserved <=> [][OwnersMove]_vars
  BY PTL DEF OwnersConserved, OwnersMove
<1> QED  BY <1>1, <1>2, EntriesOwned, TypeCorrect, Safety, PTL DEF Spec

(* A process that serves is never displaced or retired by a drain that     *)
(* began before it, whichever release thread, recovery, delete or retry    *)
(* finishes late: only its own failed boot takes it out.                   *)
THEOREM StaleDrains == Spec => StaleDrainHarmless
<1>1. ASSUME OwnersHaveEntries, TypeOK, SafetyInv, [Next]_vars
      PROVE  [active.gen \in accepting /\ active'.gen # active.gen =>
                op.step = "boot" /\ op'.step = "discard"]_vars
  <2> SUFFICES ASSUME Next, active.gen \in accepting, active'.gen # active.gen
               PROVE  op.step = "boot" /\ op'.step = "discard"
    BY <1>1
  <2>1. Move
    BY <1>1, MoveStep
  <2>2. HasActive
    BY <1>1, GenFacts DEF TypeOK, HasActive
  <2> QED  BY <2>1, <2>2
     DEF Move, Still, Joined, Left, Displaced, Taken, Spawned, NotBooted, TookOver
<1> QED  BY <1>1, EntriesOwned, TypeCorrect, Safety, PTL DEF Spec, StaleDrainHarmless

(* Only the poller changes what the poller remembers, and a generation is  *)
(* reserved one at a time.                                                 *)
LEMMA BgLeft ==
  ASSUME Next
  PROVE  bg' = bg \/ BgPoll \/ BgBind \/ BgProbe \/ BgAttach \/ BgHeadless \/ BgSettle
           \/ BgRelease \/ BgTimeout
<1>1. CASE \/ AcquireDispatch \/ NoticeDeath \/ EndTurn \/ DeleteBegin \/ MonitorScan
           \/ MonitorBegin \/ RetryClock \/ ReconcileTab
           \/ \E g \in Gens : DropLease(g) \/ BeginTurn(g) \/ Crash(g) \/ DropDetached(g)
  BY <1>1 DEF AcquireDispatch, NoticeDeath, EndTurn, DeleteBegin, MonitorScan, MonitorBegin,
     RetryClock, ReconcileTab, DropLease, BeginTurn, Crash, DropDetached
<1>2. CASE \/ \E o \in Owners : ReleaseOwner(o)
           \/ \E d \in drains : FinishOwnerRelease(d)
           \/ \E o \in ReplyOwners : AdmitReply(o)
           \/ \E o \in TabOwners \cup AgentOwners : EnsureBegin(o)
           \/ \E o \in TabOwners : ReleaseTab(o)
  BY <1>2 DEF ReleaseOwner, FinishOwnerRelease, AdmitReply, EnsureBegin, ReleaseTab
<1>3. CASE \/ RetireUnowned \/ ReapRetired \/ ReplaceDrained \/ MonitorDispatch \/ DeleteStep
  BY <1>3 DEF RetireUnowned, ReapRetired, ReplaceDrained, MonitorDispatch, DeleteStep,
     DeleteRefused, DeleteActivity, DeleteRecheck, DeleteClose, DeleteKill, DeleteConfirm,
     DeleteUnlink, DeleteReleaseTabs
<1>4. CASE EnsureStep
  BY <1>4 DEF EnsureStep, EnsureExhausted, EnsureStale, CheckAbsent, CheckDead, CheckReusable,
     CheckDrift, CheckDraining, AwaitDrained, ProbeReplaced, ProbeHealthy, ProbeUnhealthy,
     CreateRetry, CreateDead, CreateSpawned, CreateFailed, BootReady, BootFailed,
     BootDiscarded, Commit, CommitReused, CommitRejected
<1> QED  BY <1>1, <1>2, <1>3, <1>4 DEF Next, FencedStep, BgStep

LEMMA LastGenStep ==
  ASSUME Next
  PROVE  lastGen' \in {lastGen, lastGen + 1}
<1> USE DEF entryVars
<1>1. CASE \/ AcquireDispatch \/ NoticeDeath \/ EndTurn \/ DeleteBegin \/ MonitorScan
           \/ MonitorBegin \/ RetryClock \/ ReconcileTab
           \/ \E g \in Gens : DropLease(g) \/ BeginTurn(g) \/ Crash(g) \/ DropDetached(g)
  BY <1>1 DEF AcquireDispatch, NoticeDeath, EndTurn, DeleteBegin, MonitorScan, MonitorBegin,
     RetryClock, ReconcileTab, DropLease, BeginTurn, Crash, DropDetached
<1>2. CASE \/ \E o \in Owners : ReleaseOwner(o)
           \/ \E d \in drains : FinishOwnerRelease(d)
           \/ \E o \in ReplyOwners : AdmitReply(o)
           \/ \E o \in TabOwners \cup AgentOwners : EnsureBegin(o)
           \/ \E o \in TabOwners : ReleaseTab(o)
  BY <1>2 DEF ReleaseOwner, FinishOwnerRelease, AdmitReply, EnsureBegin, ReleaseTab
<1>3. CASE \/ RetireUnowned \/ ReapRetired \/ ReplaceDrained \/ MonitorDispatch \/ DeleteStep
  BY <1>3 DEF RetireUnowned, ReapRetired, ReplaceDrained, MonitorDispatch, DeleteStep,
     DeleteRefused, DeleteActivity, DeleteRecheck, DeleteClose, DeleteKill, DeleteConfirm,
     DeleteUnlink, DeleteReleaseTabs
<1>4. CASE EnsureStep
  BY <1>4 DEF EnsureStep, EnsureExhausted, EnsureStale, CheckAbsent, CheckDead, CheckReusable,
     CheckDrift, CheckDraining, AwaitDrained, ProbeReplaced, ProbeHealthy, ProbeUnhealthy,
     CreateRetry, CreateDead, CreateSpawned, CreateFailed, Reserve, BootReady, BootFailed,
     BootDiscarded, Commit, CommitReused, CommitRejected
<1>5. CASE BgStep \/ BgBind \/ BgHeadless \/ BgTimeout
  BY <1>5 DEF BgStep, BgBind, BgHeadless, BgTimeout, BgProbe, BgAttach, BgPoll, BgSettle,
     BgRelease
<1> QED  BY <1>1, <1>2, <1>3, <1>4, <1>5 DEF Next, FencedStep

(* The poller's answer. *)
LEMMA SettleStep ==
  ASSUME TypeOK, SafetyInv, OwnersHaveEntries, SettlesOutsideRecovery, [Next]_vars
  PROVE  SettlesOutsideRecovery'
<1> USE DEF entryVars, gateVars, procVars
<1>1. CASE UNCHANGED vars
  BY <1>1 DEF vars, SettlesOutsideRecovery, HasActive
<1>2. CASE BgPoll
  <2>1. CASE bg'.step = "settle" /\ bg' # bg
    <3>1. /\ Background \notin recovering.owners /\ Background \in active.owners
          /\ bg'.gen = generation
      BY <1>2, <2>1 DEF BgPoll, NoBg
    <3>2. HasActive
      BY <3>1 DEF OwnersHaveEntries
    <3>3. generation \in 1 .. lastGen
      BY <3>2 DEF SafetyInv, OneAdmitting, HasActive
    <3> QED  BY <1>2, <3>1, <3>3 DEF BgPoll, SettlesOutsideRecovery
  <2>2. CASE ~(bg'.step = "settle" /\ bg' # bg)
    BY <1>2, <2>2 DEF BgPoll, SettlesOutsideRecovery
  <2> QED  BY <2>1, <2>2
<1>3. CASE BgBind \/ BgProbe \/ BgAttach \/ BgHeadless \/ BgSettle \/ BgRelease \/ BgTimeout
  <2>1. bg'.step # "settle"
    <3>1. NoBg.step # "settle" /\ \A s : [NoBg EXCEPT !.step = s].step = s
      BY DEF NoBg
    <3>2. [bg EXCEPT !.step = "attach"].step = "attach"
      BY DEF TypeOK, BgThread
    <3>3. CASE BgBind
      BY <3>3, <3>1 DEF BgBind, NoBg
    <3>4. CASE BgProbe \/ BgAttach
      BY <3>4, <3>1, <3>2 DEF BgProbe, BgAttach
    <3>5. CASE BgHeadless \/ BgSettle \/ BgRelease \/ BgTimeout
      BY <3>5, <3>1 DEF BgHeadless, BgSettle, BgRelease, BgTimeout
    <3> QED  BY <1>3, <3>3, <3>4, <3>5
  <2> QED  BY <2>1 DEF SettlesOutsideRecovery
<1>4. CASE Next /\ bg' = bg
  <2> SUFFICES ASSUME bg.step = "settle"
               PROVE  /\ bg.gen \in 1 .. lastGen'
                      /\ HasActive' /\ generation' = bg.gen
                           => Background \notin recovering'.owners
    BY <1>4 DEF SettlesOutsideRecovery
  <2>1. bg.gen \in 1 .. lastGen /\ lastGen \in Nat
    BY DEF SettlesOutsideRecovery, TypeOK
  <2>2. lastGen' \in {lastGen, lastGen + 1}
    BY <1>4, LastGenStep
  <2>3. bg.gen \in 1 .. lastGen' /\ bg.gen # NoGen /\ bg.gen # lastGen + 1
    BY <2>1, <2>2 DEF NoGen
  <2>4. ASSUME HasActive', generation' = bg.gen PROVE Background \notin recovering'.owners
    <3>1. Move
      BY <1>4, MoveStep
    <3>2. CASE Still \/ Joined \/ Left
      BY <2>3, <2>4, <3>2 DEF Still, Joined, Left, SettlesOutsideRecovery, HasActive
    <3>3. CASE Displaced \/ Spawned \/ NotBooted
      BY <2>3, <2>4, <3>3, NoOwners DEF Displaced, Spawned, NotBooted, HasActive
    <3>4. CASE Taken \/ TookOver
      BY <3>4, NoOwners DEF Taken, TookOver, Held
    <3> QED  BY <3>1, <3>2, <3>3, <3>4 DEF Move
  <2> QED  BY <2>3, <2>4
<1>5. Next => bg' = bg \/ BgPoll \/ BgBind \/ BgProbe \/ BgAttach \/ BgHeadless \/ BgSettle
                \/ BgRelease \/ BgTimeout
  BY BgLeft
<1> QED  BY <1>1, <1>2, <1>3, <1>4, <1>5

LEMMA SettleFacts == Spec => [](OwnersHaveEntries /\ SettlesOutsideRecovery)
<1>1. Init => SettlesOutsideRecovery
  BY DEF Init, SettlesOutsideRecovery
<1> QED  BY <1>1, EntriesOwned, TypeCorrect, Safety, SettleStep, PTL DEF Spec

(* The poller gives its owner back on an answer only while the process     *)
(* that gave it is the current one and no recovery retains the owner,      *)
(* whatever was displaced, spawned or committed since it was asked.        *)
THEOREM ReleaseCurrent == Spec => BgReleaseCurrent
<1>1. ASSUME TypeOK, SafetyInv, OwnersHaveEntries, SettlesOutsideRecovery, [Next]_vars
      PROVE  [bg.step = "settle" /\ bg' = NoBg
                => active.gen = bg.gen /\ Background \notin recovering.owners]_vars
  <2> SUFFICES ASSUME Next, bg.step = "settle", bg' = NoBg
               PROVE  active.gen = bg.gen /\ Background \notin recovering.owners
    BY <1>1
  <2>1. BgRelease
    <3>1. bg' # bg
      BY DEF NoBg
    <3> QED  BY <3>1, BgLeft
       DEF BgPoll, BgBind, BgProbe, BgAttach, BgHeadless, BgSettle, BgTimeout, NoBg
  <2>2. generation = bg.gen /\ Background \in active.owners
    BY <2>1 DEF BgRelease, BindingIsCurrent
  <2>3. HasActive
    BY <1>1, <2>2 DEF OwnersHaveEntries
  <2> QED  BY <1>1, <2>2, <2>3
     DEF SettlesOutsideRecovery, SafetyInv, OneAdmitting, HasActive
<1> QED  BY <1>1, SettleFacts, TypeCorrect, Safety, PTL DEF Spec, BgReleaseCurrent
=============================================================================
