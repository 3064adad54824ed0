------------------------------ MODULE FileLock ------------------------------
(***************************************************************************)
(* The lock directory that processes take before they write a shared file  *)
(* (src/server/utils/file-lock.ts): mkdir is the lock, an owner file names *)
(* the process, waiters judge a lock by its owner or its age and rename it *)
(* away, and a holder removes the directory if it still finds its token.   *)
(*                                                                         *)
(* An action is one file system call.  Calls of one process run one after  *)
(* another until it polls or works; calls of different processes           *)
(* interleave.  A process that ends is replaced by one with another pid.   *)
(* A pid that is used again keeps a lock (it only delays), and is left     *)
(* out, as are the owners written by the renderer.                         *)
(*                                                                         *)
(* A definition Bug_D is a faulty variant of D, a mistake somebody could   *)
(* make; nothing uses it but the checks that a property notices it.        *)
(***************************************************************************)
EXTENDS Naturals, FiniteSets

CONSTANTS
  Callers,       \* the callers of withFileLock
  Processes,
  Home,          \* the process of each caller
  MaxLocks,      \* bound: lock directories that are made
  MaxCrashes,    \* bound: processes that end
  MaxFaults      \* bound: owner files that cannot be written

ASSUME HomeAssumption == Home \in [Callers -> Processes]
ASSUME BoundsAssumption ==
  MaxLocks \in Nat /\ MaxCrashes \in Nat /\ MaxFaults \in Nat

VARIABLES
  lock,      \* the directory at lockPath
  run,       \* how often each process has been started
  pc,        \* where each caller is
  stat,      \* the directory each caller last looked at (statSync, readFileSync)
  judged,    \* history: the directory its verdict to break is about
  made,      \* history: the lock directory each caller made last
  locks,     \* history: how many were made
  raced,     \* history: a directory was renamed away that was not the one judged
  crashes, faults

lookVars == <<stat, judged>>
hist     == <<made, locks, raced>>
env      == <<crashes, faults>>
vars     == <<lock, run, pc, stat, judged, made, locks, raced, crashes, faults>>

(* An owner token: node:<pid>:<startTime>. *)
NoOwner == [proc |-> "none", run |-> 0]

Token(c) == [proc |-> Home[c], run |-> run[Home[c]]]

Bug_Dead(t) == t # NoOwner        \* every foreign owner is taken for dead

(* process.kill(pid, 0) says ESRCH. *)
Dead(t) == t # NoOwner /\ t.run # run[t.proc]

(* id tells the directories made at the path apart; by is who made one. *)
Dir(id, by) == [id |-> id, by |-> by, owner |-> NoOwner, aged |-> FALSE]

NoDir == Dir(0, NoOwner)

(* idle and working are awaited; between them a process is not interrupted *)
(* by another caller of its own, except while it polls.                    *)
Awaited == {"idle", "poll", "working"}
Calls   == {"mkdir", "owner", "stat", "read", "probe", "break",
            "check", "unlink", "rmdir"}

MayRun(c) == \A d \in Callers : d # c /\ Home[d] = Home[c] => pc[d] \in Awaited

Goto(c, place) == pc' = [pc EXCEPT ![c] = place]

Init ==
  /\ lock = NoDir
  /\ run = [p \in Processes |-> 1]
  /\ pc = [c \in Callers |-> "idle"]
  /\ stat = [c \in Callers |-> NoDir] /\ judged = [c \in Callers |-> 0]
  /\ made = [c \in Callers |-> 0] /\ locks = 0 /\ raced = FALSE
  /\ crashes = 0 /\ faults = 0

-----------------------------------------------------------------------------
(* Acquiring.                                                              *)

Want(c) ==
  /\ pc[c] = "idle" /\ MayRun(c)
  /\ Goto(c, "mkdir")
  /\ UNCHANGED <<lock, run, lookVars, hist, env>>

MakeDir(c) ==
  /\ pc[c] = "mkdir"
  /\ IF lock = NoDir
     THEN /\ locks < MaxLocks
          /\ locks' = locks + 1
          /\ lock' = Dir(locks', Token(c))
          /\ made' = [made EXCEPT ![c] = locks']
          /\ Goto(c, "owner")
     ELSE Goto(c, "stat") /\ UNCHANGED <<lock, made, locks>>
  /\ UNCHANGED <<run, lookVars, raced, env>>

(* The file is written into whatever directory is at the path; that it     *)
(* cannot be written is no reason to stop.                                 *)
WriteOwner(c) ==
  /\ pc[c] = "owner"
  /\ \/ /\ lock # NoDir
        /\ lock' = [lock EXCEPT !.owner = Token(c)]
        /\ UNCHANGED faults
     \/ /\ lock = NoDir
        /\ UNCHANGED <<lock, faults>>
     \/ /\ faults < MaxFaults
        /\ faults' = faults + 1
        /\ UNCHANGED lock
  /\ Goto(c, "working")
  /\ UNCHANGED <<run, lookVars, hist, crashes>>

(* tryBreakStaleLock: its age, then its owner, then whether that lives. *)
Look(c) ==
  /\ pc[c] = "stat"
  /\ stat' = [stat EXCEPT ![c] = lock]
  /\ Goto(c, IF lock = NoDir THEN "mkdir" ELSE "read")
  /\ UNCHANGED <<lock, run, judged, hist, env>>

Bug_Condemned(c) == FALSE         \* a lock without an owner file is kept for ever

Condemned(c) == stat[c].aged

(* The verdict is about what is read, or without an owner file about what  *)
(* was looked at before.                                                   *)
ReadOwner(c) ==
  /\ pc[c] = "read"
  /\ IF lock.owner # NoOwner
     THEN /\ Goto(c, "probe")
          /\ stat' = [stat EXCEPT ![c] = lock]
          /\ judged' = [judged EXCEPT ![c] = lock.id]
     ELSE /\ stat' = [stat EXCEPT ![c] = NoDir]
          /\ IF Condemned(c)
             THEN Goto(c, "break") /\ judged' = [judged EXCEPT ![c] = stat[c].id]
             ELSE Goto(c, "poll") /\ UNCHANGED judged
  /\ UNCHANGED <<lock, run, hist, env>>

Probe(c) ==
  /\ pc[c] = "probe"
  /\ stat' = [stat EXCEPT ![c] = NoDir]
  /\ IF Dead(stat[c].owner)
     THEN Goto(c, "break") /\ UNCHANGED judged
     ELSE Goto(c, "poll") /\ judged' = [judged EXCEPT ![c] = 0]
  /\ UNCHANGED <<lock, run, hist, env>>

(* breakLockSafely: the directory at the path goes to a name of its own. *)
Break(c) ==
  /\ pc[c] = "break"
  /\ lock' = NoDir
  /\ raced' = (raced \/ lock.id \notin {0, judged[c]})
  /\ judged' = [judged EXCEPT ![c] = 0]
  /\ Goto(c, "mkdir")
  /\ UNCHANGED <<run, stat, made, locks, env>>

Poll(c) ==
  /\ pc[c] = "poll" /\ MayRun(c)
  /\ Goto(c, "mkdir")
  /\ UNCHANGED <<lock, run, lookVars, hist, env>>

(* FileBusyError. *)
GiveUp(c) ==
  /\ pc[c] = "poll" /\ MayRun(c)
  /\ Goto(c, "idle")
  /\ UNCHANGED <<lock, run, lookVars, hist, env>>

-----------------------------------------------------------------------------
(* Releasing: the operation has ended, well or not.                        *)

Release(c) ==
  /\ pc[c] = "working" /\ MayRun(c)
  /\ Goto(c, IF lock = NoDir THEN "idle" ELSE "check")
  /\ UNCHANGED <<lock, run, lookVars, hist, env>>

(* A missing owner file counts as ours. *)
Ours(c) == lock.owner \in {NoOwner, Token(c)}

CheckOwner(c) ==
  /\ pc[c] = "check"
  /\ Goto(c, IF Ours(c) THEN "unlink" ELSE "idle")
  /\ UNCHANGED <<lock, run, lookVars, hist, env>>

(* rmSync removes the owner file first, then the directory. *)
Unlink(c) ==
  /\ pc[c] = "unlink"
  /\ lock' = IF lock = NoDir THEN NoDir ELSE [lock EXCEPT !.owner = NoOwner]
  /\ Goto(c, "rmdir")
  /\ UNCHANGED <<run, lookVars, hist, env>>

RemoveDir(c) ==
  /\ pc[c] = "rmdir"
  /\ lock' = NoDir
  /\ Goto(c, "idle")
  /\ UNCHANGED <<run, lookVars, hist, env>>

-----------------------------------------------------------------------------
(* The environment.                                                        *)

(* A process ends, with all its callers, and another is started. *)
Crash(p) ==
  /\ crashes < MaxCrashes
  /\ crashes' = crashes + 1
  /\ run' = [run EXCEPT ![p] = @ + 1]
  /\ pc' = [c \in Callers |-> IF Home[c] = p THEN "idle" ELSE pc[c]]
  /\ stat' = [c \in Callers |-> IF Home[c] = p THEN NoDir ELSE stat[c]]
  /\ judged' = [c \in Callers |-> IF Home[c] = p THEN 0 ELSE judged[c]]
  /\ UNCHANGED <<lock, hist, faults>>

(* staleMs pass.  A holder that lives is assumed to be done before, if its *)
(* owner file could not be written: nothing else protects such a lock.     *)
Age ==
  /\ Dead(lock.by) /\ ~lock.aged
  /\ lock' = [lock EXCEPT !.aged = TRUE]
  /\ UNCHANGED <<run, pc, lookVars, hist, env>>

Call(c) ==
  \/ MakeDir(c) \/ WriteOwner(c) \/ Look(c) \/ ReadOwner(c) \/ Probe(c)
  \/ Break(c) \/ CheckOwner(c) \/ Unlink(c) \/ RemoveDir(c)

Next ==
  \/ \E c \in Callers : Want(c) \/ Call(c) \/ Poll(c) \/ GiveUp(c) \/ Release(c)
  \/ \E p \in Processes : Crash(p)
  \/ Age

Spec == Init /\ [][Next]_vars

(* A process runs its calls, its polls and its operations to their end,    *)
(* and a release gets its turn of the event loop also while other callers  *)
(* of the process keep polling; time passes.                               *)
FairSpec ==
  /\ Spec /\ WF_vars(Age)
  /\ \A c \in Callers :
       WF_vars(Call(c)) /\ WF_vars(Poll(c) \/ GiveUp(c)) /\ SF_vars(Release(c))

-----------------------------------------------------------------------------
(* Properties.                                                             *)

Tokens == {NoOwner} \cup [proc : Processes, run : 1 .. MaxCrashes + 1]

Dirs == [id : 0 .. MaxLocks, by : Tokens, owner : Tokens, aged : BOOLEAN]

TypeOK ==
  /\ lock \in Dirs
  /\ run \in [Processes -> 1 .. crashes + 1]
  /\ pc \in [Callers -> Awaited \cup Calls]
  /\ stat \in [Callers -> Dirs] /\ judged \in [Callers -> 0 .. MaxLocks]
  /\ made \in [Callers -> 0 .. MaxLocks] /\ locks \in 0 .. MaxLocks
  /\ raced \in BOOLEAN /\ crashes \in 0 .. MaxCrashes /\ faults \in 0 .. MaxFaults

(* The callers between a successful mkdir and the end of their release. *)
Holders == {c \in Callers : pc[c] \in {"owner", "working", "check", "unlink", "rmdir"}}

(* Two waiters that find the lock stale do not both succeed: a fresh lock  *)
(* that one of them has taken under the path stays untouched.              *)
OneHolder == \A c, d \in Holders : c = d

(* At most one caller holds the lock and the directory at the path is its  *)
(* own, through crashes, reclaims, half removed directories and owner      *)
(* files that could not be written, unless a waiter renamed away another   *)
(* directory than the one it had judged.                                   *)
ExclusiveUnlessRaced ==
  ~raced => OneHolder /\ \A c \in Holders : lock.id = made[c]

(* The lock of a process that has ended does not stay in the way of those  *)
(* who wait for it.                                                        *)
OrphanIsReclaimed ==
  [](Dead(lock.by) => <>(~Dead(lock.by) \/ \A c \in Callers : pc[c] \in {"idle", "working"}))
=============================================================================
