--------------------------- MODULE FileLock_proofs ---------------------------
(***************************************************************************)
(* Proofs about FileLock, for any callers, processes and bounds: its types *)
(* and that exclusion can only be lost to the race of two waiters.         *)
(*                                                                         *)
(* A holder is safe because its directory is never condemned: age condemns *)
(* only what a dead process made, an owner file names who made the         *)
(* directory, and a process that ended does not come back.  LockInv says   *)
(* so of the directory at the path, of what each waiter saw, and of the    *)
(* verdicts that have not been executed yet.                               *)
(***************************************************************************)
EXTENDS FileLock, TLAPS

-----------------------------------------------------------------------------
LEMMA InitTypes == Init => TypeOK
<1> SUFFICES ASSUME Init PROVE TypeOK
  OBVIOUS
<1>1. NoDir \in Dirs
  BY BoundsAssumption DEF NoDir, Dir, NoOwner, Dirs, Tokens
<1>2. crashes = 0 /\ run \in [Processes -> 1 .. crashes + 1]
  BY DEF Init
<1>3. pc \in [Callers -> Awaited \cup Calls]
  BY DEF Init, Awaited
<1>4. /\ stat \in [Callers -> Dirs] /\ judged \in [Callers -> 0 .. MaxLocks]
      /\ made \in [Callers -> 0 .. MaxLocks]
  BY <1>1, BoundsAssumption DEF Init
<1>5. lock = NoDir /\ raced \in BOOLEAN
  BY DEF Init
<1>6. locks \in 0 .. MaxLocks /\ crashes \in 0 .. MaxCrashes /\ faults \in 0 .. MaxFaults
  BY BoundsAssumption DEF Init
<1> QED
  BY <1>1, <1>2, <1>3, <1>4, <1>5, <1>6 DEF TypeOK

LEMMA NextTypes == TypeOK /\ [Next]_vars => TypeOK'
<1> SUFFICES ASSUME TypeOK, [Next]_vars PROVE TypeOK'
  OBVIOUS
<1> USE HomeAssumption, BoundsAssumption
<1>d. NoDir \in Dirs /\ NoOwner \in Tokens
  BY DEF NoDir, Dir, NoOwner, Dirs, Tokens
<1>t. \A c \in Callers : Token(c) \in Tokens
  <2> SUFFICES ASSUME NEW c \in Callers PROVE Token(c) \in Tokens
    OBVIOUS
  <2>1. Home[c] \in Processes /\ run[Home[c]] \in 1 .. MaxCrashes + 1
    BY DEF TypeOK
  <2> QED BY <2>1 DEF Token, Tokens
<1>1. ASSUME NEW c \in Callers, Want(c) PROVE TypeOK'
  BY <1>1 DEF TypeOK, Want, Goto, lookVars, hist, env, Awaited, Calls
<1>2. ASSUME NEW c \in Callers, MakeDir(c) PROVE TypeOK'
  <2>1. CASE lock = NoDir
    <3>1. /\ locks' = locks + 1 /\ locks' \in 0 .. MaxLocks
          /\ lock' = Dir(locks', Token(c))
      BY <1>2, <2>1 DEF MakeDir, TypeOK
    <3>2. lock' \in Dirs
      BY <3>1, <1>t, <1>d DEF Dir, Dirs
    <3> QED BY <1>2, <2>1, <3>1, <3>2 DEF TypeOK, MakeDir, Goto, lookVars, env, Awaited, Calls
  <2>2. CASE lock # NoDir
    BY <1>2, <2>2 DEF TypeOK, MakeDir, Goto, lookVars, env, Awaited, Calls
  <2> QED BY <2>1, <2>2
<1>3. ASSUME NEW c \in Callers, WriteOwner(c) PROVE TypeOK'
  <2>1. lock' \in Dirs
    BY <1>3, <1>t DEF TypeOK, WriteOwner, Dirs
  <2> QED BY <1>3, <2>1 DEF TypeOK, WriteOwner, Goto, lookVars, hist, Awaited, Calls
<1>4. ASSUME NEW c \in Callers, Look(c) PROVE TypeOK'
  BY <1>4 DEF TypeOK, Look, Goto, hist, env, Awaited, Calls
<1>5. ASSUME NEW c \in Callers, ReadOwner(c) \/ Probe(c) PROVE TypeOK'
  <2>1. stat[c].id \in 0 .. MaxLocks /\ lock.id \in 0 .. MaxLocks
    BY DEF TypeOK, Dirs
  <2>2. CASE ReadOwner(c)
    BY <2>2, <1>d, <2>1 DEF TypeOK, ReadOwner, Goto, hist, env, Awaited, Calls
  <2>3. CASE Probe(c)
    BY <2>3, <1>d, <2>1 DEF TypeOK, Probe, Goto, hist, env, Awaited, Calls
  <2> QED BY <1>5, <2>2, <2>3
<1>6. ASSUME NEW c \in Callers, Break(c) PROVE TypeOK'
  BY <1>6, <1>d DEF TypeOK, Break, Goto, env, Awaited, Calls
<1>7. ASSUME NEW c \in Callers, Poll(c) PROVE TypeOK'
  BY <1>7 DEF TypeOK, Poll, Goto, lookVars, hist, env, Awaited, Calls
<1>8. ASSUME NEW c \in Callers, GiveUp(c) PROVE TypeOK'
  BY <1>8 DEF TypeOK, GiveUp, Goto, lookVars, hist, env, Awaited, Calls
<1>9. ASSUME NEW c \in Callers, Release(c) PROVE TypeOK'
  BY <1>9 DEF TypeOK, Release, Goto, lookVars, hist, env, Awaited, Calls
<1>10. ASSUME NEW c \in Callers, CheckOwner(c) PROVE TypeOK'
  BY <1>10 DEF TypeOK, CheckOwner, Goto, lookVars, hist, env, Awaited, Calls
<1>11. ASSUME NEW c \in Callers, Unlink(c) PROVE TypeOK'
  <2>1. lock' \in Dirs
    BY <1>11, <1>d DEF TypeOK, Unlink, Dirs
  <2> QED BY <1>11, <2>1 DEF TypeOK, Unlink, Goto, lookVars, hist, env, Awaited, Calls
<1>12. ASSUME NEW c \in Callers, RemoveDir(c) PROVE TypeOK'
  BY <1>12, <1>d DEF TypeOK, RemoveDir, Goto, lookVars, hist, env, Awaited, Calls
<1>13. ASSUME NEW p \in Processes, Crash(p) PROVE TypeOK'
  <2>1. crashes' = crashes + 1 /\ crashes' \in 0 .. MaxCrashes
    BY <1>13 DEF TypeOK, Crash
  <2>2. run' \in [Processes -> 1 .. crashes' + 1]
    BY <1>13, <2>1 DEF TypeOK, Crash
  <2>3. /\ pc' \in [Callers -> Awaited \cup Calls]
        /\ stat' \in [Callers -> Dirs] /\ judged' \in [Callers -> 0 .. MaxLocks]
    BY <1>13, <1>d DEF TypeOK, Crash, Awaited
  <2> QED BY <1>13, <2>1, <2>2, <2>3 DEF TypeOK, Crash, hist
<1>14. CASE Age
  <2>1. lock' \in Dirs
    BY <1>14 DEF TypeOK, Age, Dirs
  <2> QED BY <1>14, <2>1 DEF TypeOK, Age, lookVars, hist, env
<1>15. CASE UNCHANGED vars
  BY <1>15 DEF TypeOK, vars
<1> QED
  BY <1>1, <1>2, <1>3, <1>4, <1>5, <1>6, <1>7, <1>8, <1>9, <1>10, <1>11, <1>12, <1>13,
     <1>14, <1>15 DEF Next, Call

(* Every reachable state of the lock protocol has the types TypeOK gives.  *)
THEOREM TypeCorrect == Spec => []TypeOK
BY InitTypes, NextTypes, PTL DEF Spec

-----------------------------------------------------------------------------
(* The inductive invariant.                                                *)

(* A token was issued by a run of its process that has begun. *)
Issued(t) == t # NoOwner => t.run <= run[t.proc]

(* Numbers tell directories apart, and what a waiter saw it saw right. *)
SightInv ==
  /\ lock.id <= locks /\ Issued(lock.by)
  /\ lock.id = 0 => lock = NoDir
  /\ lock.id # 0 => lock.by # NoOwner
  /\ lock.aged => Dead(lock.by)
  /\ \A c \in Callers :
       /\ stat[c].id <= locks /\ judged[c] <= locks /\ Issued(stat[c].by)
       /\ stat[c].aged => Dead(stat[c].by)
       /\ stat[c].id = lock.id /\ lock.id # 0 => stat[c].by = lock.by

(* Only the dead are condemned, and the directory is the holder's. *)
HoldInv ==
  ~raced =>
    /\ lock.owner \in {NoOwner, lock.by}
    /\ \A c \in Callers :
         pc[c] = "break" /\ judged[c] = lock.id /\ lock.id # 0 => Dead(lock.by)
    /\ \A c \in Callers :
         pc[c] = "probe" => judged[c] = stat[c].id /\ stat[c].owner = stat[c].by
    /\ \A c \in Holders :
         lock.id = made[c] /\ made[c] # 0 /\ lock.by = Token(c)
    /\ OneHolder

LockInv == TypeOK /\ SightInv /\ HoldInv

LEMMA InitLock == Init => LockInv
<1> SUFFICES ASSUME Init PROVE LockInv
  OBVIOUS
<1>1. TypeOK
  BY InitTypes
<1>2. NoDir.id = 0 /\ NoDir.by = NoOwner /\ NoDir.owner = NoOwner /\ NoDir.aged = FALSE
  BY DEF NoDir, Dir
<1>3. SightInv
  BY <1>2 DEF Init, SightInv, Issued
<1>4. Holders = {}
  BY DEF Init, Holders
<1>5. HoldInv
  BY <1>2, <1>4 DEF Init, HoldInv, OneHolder
<1> QED
  BY <1>1, <1>3, <1>5 DEF LockInv

(* Steps that leave the directory and what is known of it alone. *)
LEMMA Quiet ==
  ASSUME LockInv, UNCHANGED <<lock, run, lookVars, hist>>,
         Holders' \subseteq Holders,
         \A c \in Callers : pc'[c] \in {"break", "probe"} => pc'[c] = pc[c]
  PROVE  SightInv' /\ HoldInv'
<1>1. SightInv'
  BY DEF LockInv, SightInv, Issued, Dead, lookVars, hist
<1>2. HoldInv'
  <2>1. \A c : Token(c)' = Token(c)
    BY DEF Token
  <2> QED
    BY <2>1 DEF LockInv, HoldInv, OneHolder, Dead, lookVars, hist
<1> QED
  BY <1>1, <1>2

(* A holder that has not been raced lives, and so does who made its lock. *)
LEMMA NoHolderOfTheDead ==
  ASSUME LockInv, ~raced, Dead(lock.by) \/ lock.id = 0
  PROVE  Holders = {}
<1> SUFFICES ASSUME NEW c \in Holders PROVE FALSE
  OBVIOUS
<1>1. lock.by = Token(c) /\ lock.id # 0
  BY DEF LockInv, HoldInv
<1>2. Token(c).run = run[Token(c).proc]
  BY DEF Token
<1> QED
  BY <1>1, <1>2 DEF Dead

LEMMA MakeDirKeeps ==
  ASSUME LockInv, NEW c \in Callers, MakeDir(c)
  PROVE  SightInv' /\ HoldInv'
<1> USE HomeAssumption
<1>1. CASE lock # NoDir
  <2>1. pc' = [pc EXCEPT ![c] = "stat"] /\ pc \in [Callers -> Awaited \cup Calls]
    BY <1>1 DEF MakeDir, Goto, LockInv, TypeOK
  <2>2. Holders' \subseteq Holders /\ \A d \in Callers : pc'[d] \in {"break", "probe"} => pc'[d] = pc[d]
    BY <2>1 DEF Holders
  <2>3. UNCHANGED <<lock, run, lookVars, hist>>
    BY <1>1 DEF MakeDir, hist
  <2> QED BY <2>2, <2>3, Quiet
<1>2. CASE lock = NoDir
  <2>1. /\ lock' = Dir(locks + 1, Token(c)) /\ locks' = locks + 1 /\ run' = run
        /\ made' = [made EXCEPT ![c] = locks + 1] /\ raced' = raced
        /\ stat' = stat /\ judged' = judged /\ pc' = [pc EXCEPT ![c] = "owner"]
    BY <1>2 DEF MakeDir, Goto, lookVars
  <2>2. /\ lock'.id = locks + 1 /\ lock'.by = Token(c) /\ lock'.owner = NoOwner
        /\ lock'.aged = FALSE
    BY <2>1 DEF Dir
  <2>3. /\ locks \in Nat /\ Home[c] \in Processes /\ run[Home[c]] \in Nat \ {0}
        /\ \A d \in Callers : stat[d].id \in Nat /\ judged[d] \in Nat
    BY DEF LockInv, TypeOK, Dirs
  <2>4. Token(c) # NoOwner /\ Issued(Token(c)) /\ Token(c)' = Token(c)
    BY <2>1, <2>3 DEF Token, NoOwner, Issued
  <2>5. SightInv'
    <3>1. lock'.id <= locks' /\ Issued(lock.by)' /\ lock'.id # 0
      BY <2>1, <2>2, <2>3, <2>4 DEF Issued
    <3>2. ASSUME NEW d \in Callers
          PROVE  /\ stat'[d].id <= locks' /\ judged'[d] <= locks' /\ Issued(stat[d].by)'
                 /\ stat'[d].aged => Dead(stat[d].by)'
                 /\ stat'[d].id # lock'.id
      BY <2>1, <2>2, <2>3 DEF LockInv, SightInv, Issued, Dead
    <3> QED BY <2>2, <2>4, <3>1, <3>2 DEF SightInv
  <2>6. HoldInv'
    <3> SUFFICES ASSUME ~raced' PROVE HoldInv'
      BY DEF HoldInv
    <3>1. Holders = {}
      <4>1. lock.id = 0
        BY <1>2 DEF NoDir, Dir
      <4> QED BY <2>1, <4>1, NoHolderOfTheDead
    <3>2. Holders' = {c}
      <4>1. pc \in [Callers -> Awaited \cup Calls]
        BY DEF LockInv, TypeOK
      <4> QED BY <2>1, <3>1, <4>1 DEF Holders
    <3>3. lock'.id = made'[c] /\ made'[c] # 0 /\ lock'.by = Token(c)'
      BY <2>1, <2>2, <2>3, <2>4 DEF LockInv, TypeOK
    <3>4. \A d \in Callers : judged'[d] # lock'.id
      BY <2>1, <2>2, <2>3 DEF LockInv, SightInv
    <3>5. \A d \in Callers :
            pc'[d] = "probe" => judged'[d] = stat'[d].id /\ stat'[d].owner = stat'[d].by
      BY <2>1 DEF LockInv, HoldInv, TypeOK
    <3> QED BY <2>2, <3>2, <3>3, <3>4, <3>5 DEF OneHolder, HoldInv
  <2> QED BY <2>5, <2>6
<1> QED BY <1>1, <1>2

LEMMA WriteOwnerKeeps ==
  ASSUME LockInv, NEW c \in Callers, WriteOwner(c)
  PROVE  SightInv' /\ HoldInv'
<1>1. /\ UNCHANGED <<run, stat, judged, made, locks, raced>>
      /\ pc' = [pc EXCEPT ![c] = "working"] /\ pc[c] = "owner"
  BY DEF WriteOwner, Goto, lookVars, hist
<1>2. lock \in Dirs /\ pc \in [Callers -> Awaited \cup Calls]
  BY DEF LockInv, TypeOK
<1>3. /\ lock'.id = lock.id /\ lock'.by = lock.by /\ lock'.aged = lock.aged
      /\ lock'.owner \in {lock.owner, Token(c)}
      /\ lock = NoDir => lock' = NoDir
  BY <1>2 DEF WriteOwner, Dirs
<1>4. SightInv'
  BY <1>1, <1>3 DEF LockInv, SightInv, Issued, Dead
<1>5. Holders' = Holders /\ c \in Holders
      /\ \A d \in Callers : pc'[d] \in {"break", "probe"} => pc'[d] = pc[d]
  BY <1>1, <1>2 DEF Holders
<1>6. HoldInv'
  <2>1. \A d : Token(d)' = Token(d)
    BY <1>1 DEF Token
  <2> QED BY <1>1, <1>3, <1>5, <2>1 DEF LockInv, HoldInv, OneHolder, Dead
<1> QED BY <1>4, <1>6

LEMMA LookKeeps ==
  ASSUME LockInv, NEW c \in Callers, Look(c)
  PROVE  SightInv' /\ HoldInv'
<1>1. /\ UNCHANGED <<lock, run, judged, made, locks, raced>>
      /\ stat' = [stat EXCEPT ![c] = lock]
      /\ pc[c] = "stat" /\ \E x \in {"mkdir", "read"} : pc' = [pc EXCEPT ![c] = x]
  BY DEF Look, Goto, hist
<1>2. stat \in [Callers -> Dirs] /\ pc \in [Callers -> Awaited \cup Calls]
  BY DEF LockInv, TypeOK
<1>3. SightInv'
  <2>1. \A d \in Callers : stat'[d] = IF d = c THEN lock ELSE stat[d]
    BY <1>1, <1>2
  <2> QED BY <1>1, <2>1 DEF LockInv, SightInv, Issued, Dead
<1>4. /\ Holders' = Holders
      /\ \A d \in Callers : pc'[d] \in {"break", "probe"} => pc'[d] = pc[d]
  BY <1>1, <1>2 DEF Holders
<1>5. HoldInv'
  <2>1. \A d : Token(d)' = Token(d)
    BY <1>1 DEF Token
  <2>2. stat'[c].id = lock.id /\ \A d \in Callers : d # c => stat'[d] = stat[d]
    BY <1>1, <1>2
  <2>3. pc'[c] # "probe"
    BY <1>1, <1>2
  <2> QED BY <1>1, <1>4, <2>1, <2>2, <2>3 DEF LockInv, HoldInv, OneHolder, Dead
<1> QED BY <1>3, <1>5

(* The verdict: an owner that is dead made the directory it is found in,   *)
(* and only the directory of a dead process grows old.                     *)
LEMMA ReadOwnerKeeps ==
  ASSUME LockInv, NEW c \in Callers, ReadOwner(c)
  PROVE  SightInv' /\ HoldInv'
<1>1. UNCHANGED <<lock, run, made, locks, raced>> /\ pc[c] = "read"
  BY DEF ReadOwner, hist
<1>2. /\ stat \in [Callers -> Dirs] /\ judged \in [Callers -> 0 .. MaxLocks]
      /\ pc \in [Callers -> Awaited \cup Calls] /\ locks \in Nat
  BY DEF LockInv, TypeOK
<1>3. NoDir.id = 0 /\ NoDir.by = NoOwner /\ NoDir.aged = FALSE
  BY DEF NoDir, Dir
<1>4. /\ \A d \in Callers : d # c => stat'[d] = stat[d] /\ judged'[d] = judged[d]
      /\ \A d \in Callers : d # c => pc'[d] = pc[d]
      /\ stat'[c] \in {lock, NoDir} /\ judged'[c] \in {lock.id, stat[c].id, judged[c]}
  BY <1>2 DEF ReadOwner, Goto
<1>5. SightInv'
  <2>1. Issued(NoOwner)'
    BY DEF Issued
  <2> QED BY <1>1, <1>2, <1>3, <1>4, <2>1 DEF LockInv, SightInv, Issued, Dead
<1>6. Holders' = Holders
  BY <1>1, <1>2 DEF ReadOwner, Goto, Holders
<1>7. ASSUME ~raced PROVE HoldInv'
  <2>1. pc'[c] = "break" /\ judged'[c] = lock.id /\ lock.id # 0 => Dead(lock.by)
    <3> SUFFICES ASSUME pc'[c] = "break", judged'[c] = lock.id, lock.id # 0
                 PROVE  Dead(lock.by)
      OBVIOUS
    <3>1. stat[c].aged /\ judged'[c] = stat[c].id
      BY <1>2 DEF ReadOwner, Goto, Condemned
    <3> QED BY <3>1 DEF LockInv, SightInv
  <2>2. pc'[c] = "probe" => judged'[c] = stat'[c].id /\ stat'[c].owner = stat'[c].by
    <3> SUFFICES ASSUME pc'[c] = "probe"
                 PROVE  judged'[c] = stat'[c].id /\ stat'[c].owner = stat'[c].by
      OBVIOUS
    <3>1. lock.owner # NoOwner /\ stat'[c] = lock /\ judged'[c] = lock.id
      BY <1>2 DEF ReadOwner, Goto
    <3> QED BY <1>7, <3>1 DEF LockInv, HoldInv
  <2>3. \A d : Token(d)' = Token(d)
    BY <1>1 DEF Token
  <2> QED
    BY <1>1, <1>4, <1>6, <1>7, <2>1, <2>2, <2>3 DEF LockInv, HoldInv, OneHolder, Dead
<1> QED BY <1>1, <1>5, <1>7 DEF HoldInv

LEMMA ProbeKeeps ==
  ASSUME LockInv, NEW c \in Callers, Probe(c)
  PROVE  SightInv' /\ HoldInv'
<1>1. UNCHANGED <<lock, run, made, locks, raced>> /\ pc[c] = "probe"
  BY DEF Probe, hist
<1>2. /\ stat \in [Callers -> Dirs] /\ judged \in [Callers -> 0 .. MaxLocks]
      /\ pc \in [Callers -> Awaited \cup Calls] /\ locks \in Nat
  BY DEF LockInv, TypeOK
<1>3. NoDir.id = 0 /\ NoDir.by = NoOwner /\ NoDir.aged = FALSE
  BY DEF NoDir, Dir
<1>4. /\ \A d \in Callers : d # c => stat'[d] = stat[d] /\ judged'[d] = judged[d]
      /\ \A d \in Callers : d # c => pc'[d] = pc[d]
      /\ stat'[c] = NoDir /\ judged'[c] \in {judged[c], 0}
  BY <1>2 DEF Probe, Goto
<1>5. SightInv'
  <2>1. Issued(NoOwner)'
    BY DEF Issued
  <2> QED BY <1>1, <1>2, <1>3, <1>4, <2>1 DEF LockInv, SightInv, Issued, Dead
<1>6. Holders' = Holders /\ pc'[c] # "probe"
  BY <1>1, <1>2 DEF Probe, Goto, Holders
<1>7. ASSUME ~raced PROVE HoldInv'
  <2>1. pc'[c] = "break" /\ judged'[c] = lock.id /\ lock.id # 0 => Dead(lock.by)
    <3> SUFFICES ASSUME pc'[c] = "break", judged'[c] = lock.id, lock.id # 0
                 PROVE  Dead(lock.by)
      OBVIOUS
    <3>1. Dead(stat[c].owner) /\ judged'[c] = judged[c]
      BY <1>2 DEF Probe, Goto
    <3>2. judged[c] = stat[c].id /\ stat[c].owner = stat[c].by
      BY <1>1, <1>7 DEF LockInv, HoldInv
    <3> QED BY <3>1, <3>2 DEF LockInv, SightInv
  <2>2. \A d : Token(d)' = Token(d)
    BY <1>1 DEF Token
  <2> QED BY <1>1, <1>4, <1>6, <1>7, <2>1, <2>2 DEF LockInv, HoldInv, OneHolder, Dead
<1> QED BY <1>1, <1>5, <1>7 DEF HoldInv

(* The path is free after a step, and nobody it could have belonged to is  *)
(* left.                                                                   *)
LEMMA Freed ==
  ASSUME LockInv, lock' = NoDir, UNCHANGED <<run, stat, made, locks>>,
         \A c \in Callers : judged'[c] <= locks,
         \A c \in Callers : pc'[c] = "probe" => pc[c] = "probe" /\ judged'[c] = judged[c],
         ~raced' => (~raced /\ Holders' = {})
  PROVE  SightInv' /\ HoldInv'
<1>1. NoDir.id = 0 /\ NoDir.by = NoOwner /\ NoDir.owner = NoOwner /\ NoDir.aged = FALSE
  BY DEF NoDir, Dir
<1>2. locks \in Nat
  BY DEF LockInv, TypeOK
<1>3. SightInv'
  BY <1>1, <1>2 DEF LockInv, SightInv, Issued, Dead
<1>4. HoldInv'
  BY <1>1 DEF LockInv, HoldInv, OneHolder
<1> QED BY <1>3, <1>4

LEMMA BreakKeeps ==
  ASSUME LockInv, NEW c \in Callers, Break(c)
  PROVE  SightInv' /\ HoldInv'
<1>1. /\ lock' = NoDir /\ UNCHANGED <<run, stat, made, locks>> /\ pc[c] = "break"
      /\ judged' = [judged EXCEPT ![c] = 0] /\ pc' = [pc EXCEPT ![c] = "mkdir"]
      /\ raced' = (raced \/ lock.id \notin {0, judged[c]})
  BY DEF Break, Goto
<1>2. /\ judged \in [Callers -> 0 .. MaxLocks] /\ locks \in Nat
      /\ pc \in [Callers -> Awaited \cup Calls]
  BY DEF LockInv, TypeOK
<1>3. \A d \in Callers : judged'[d] <= locks
  BY <1>1, <1>2 DEF LockInv, SightInv
<1>4. ASSUME ~raced' PROVE ~raced /\ Holders' = {}
  <2>1. ~raced /\ lock.id \in {0, judged[c]}
    BY <1>1, <1>4
  <2>2. Dead(lock.by) \/ lock.id = 0
    BY <1>1, <2>1 DEF LockInv, HoldInv
  <2>3. Holders' = Holders
    BY <1>1, <1>2 DEF Holders
  <2> QED BY <2>1, <2>2, <2>3, NoHolderOfTheDead
<1>5. \A d \in Callers : pc'[d] = "probe" => pc[d] = "probe" /\ judged'[d] = judged[d]
  BY <1>1, <1>2
<1> QED BY <1>1, <1>3, <1>4, <1>5, Freed

LEMMA RemoveDirKeeps ==
  ASSUME LockInv, NEW c \in Callers, RemoveDir(c)
  PROVE  SightInv' /\ HoldInv'
<1>1. /\ lock' = NoDir /\ UNCHANGED <<run, stat, judged, made, locks, raced>>
      /\ pc' = [pc EXCEPT ![c] = "idle"] /\ pc[c] = "rmdir"
  BY DEF RemoveDir, Goto, lookVars, hist
<1>2. pc \in [Callers -> Awaited \cup Calls]
  BY DEF LockInv, TypeOK
<1>3. Holders' = Holders \ {c} /\ c \in Holders
  BY <1>1, <1>2 DEF Holders
<1>4. ~raced => Holders' = {}
  BY <1>3 DEF LockInv, HoldInv, OneHolder, Holders
<1>5. \A d \in Callers : judged'[d] <= locks
  BY <1>1 DEF LockInv, SightInv
<1>6. \A d \in Callers : pc'[d] = "probe" => pc[d] = "probe" /\ judged'[d] = judged[d]
  BY <1>1, <1>2
<1> QED BY <1>1, <1>4, <1>5, <1>6, Freed

LEMMA UnlinkKeeps ==
  ASSUME LockInv, NEW c \in Callers, Unlink(c)
  PROVE  SightInv' /\ HoldInv'
<1>1. /\ UNCHANGED <<run, stat, judged, made, locks, raced>>
      /\ pc' = [pc EXCEPT ![c] = "rmdir"] /\ pc[c] = "unlink"
  BY DEF Unlink, Goto, lookVars, hist
<1>2. lock \in Dirs /\ pc \in [Callers -> Awaited \cup Calls]
  BY DEF LockInv, TypeOK
<1>3. /\ lock'.id = lock.id /\ lock'.by = lock.by /\ lock'.aged = lock.aged
      /\ lock'.owner = NoOwner \/ lock' = lock
      /\ lock = NoDir => lock' = NoDir
  BY <1>2 DEF Unlink, Dirs
<1>4. SightInv'
  BY <1>1, <1>3 DEF LockInv, SightInv, Issued, Dead
<1>5. Holders' = Holders
      /\ \A d \in Callers : pc'[d] \in {"break", "probe"} => pc'[d] = pc[d]
  BY <1>1, <1>2 DEF Holders
<1>6. HoldInv'
  <2>1. \A d : Token(d)' = Token(d)
    BY <1>1 DEF Token
  <2> QED BY <1>1, <1>3, <1>5, <2>1 DEF LockInv, HoldInv, OneHolder, Dead
<1> QED BY <1>4, <1>6

(* A process that ended does not come back under its old token. *)
LEMMA CrashKeeps ==
  ASSUME LockInv, NEW p \in Processes, Crash(p)
  PROVE  SightInv' /\ HoldInv'
<1> USE HomeAssumption
<1>1. /\ UNCHANGED <<lock, made, locks, raced>> /\ run' = [run EXCEPT ![p] = @ + 1]
      /\ \A c \in Callers : pc'[c] = IF Home[c] = p THEN "idle" ELSE pc[c]
      /\ \A c \in Callers : stat'[c] = IF Home[c] = p THEN NoDir ELSE stat[c]
      /\ \A c \in Callers : judged'[c] = IF Home[c] = p THEN 0 ELSE judged[c]
  BY DEF Crash, hist
<1>2. /\ run \in [Processes -> Nat] /\ lock \in Dirs /\ locks \in Nat
      /\ stat \in [Callers -> Dirs] /\ judged \in [Callers -> 0 .. MaxLocks]
  BY DEF LockInv, TypeOK
<1>3. NoDir.id = 0 /\ NoDir.by = NoOwner /\ NoDir.aged = FALSE
  BY DEF NoDir, Dir
<1>4. ASSUME NEW t \in Tokens, Issued(t)
      PROVE  Issued(t)' /\ (Dead(t) => Dead(t)')
  <2>1. CASE t = NoOwner
    BY <2>1 DEF Issued, Dead
  <2>2. CASE t # NoOwner
    <3>1. t.proc \in Processes /\ t.run \in Nat /\ t.run <= run[t.proc]
      BY <1>4, <2>2 DEF Tokens, Issued
    <3>2. run'[t.proc] \in {run[t.proc], run[t.proc] + 1} /\ run[t.proc] \in Nat
      BY <1>1, <1>2, <3>1
    <3>3. run'[t.proc] = run[t.proc] \/ t.run # run'[t.proc]
      BY <3>1, <3>2
    <3> QED BY <2>2, <3>1, <3>2, <3>3 DEF Issued, Dead
  <2> QED BY <2>1, <2>2
<1>5. /\ lock.by \in Tokens /\ Issued(lock.by)
      /\ \A c \in Callers : stat[c].by \in Tokens /\ Issued(stat[c].by)
  BY <1>2 DEF Dirs, LockInv, SightInv
<1>6. Issued(lock.by)' /\ (Dead(lock.by) => Dead(lock.by)')
  BY <1>1, <1>4, <1>5
<1>7. SightInv'
  <2>1. ASSUME NEW c \in Callers
        PROVE  /\ stat'[c].id <= locks' /\ judged'[c] <= locks' /\ Issued(stat[c].by)'
               /\ stat'[c].aged => Dead(stat[c].by)'
               /\ stat'[c].id = lock'.id /\ lock'.id # 0 => stat'[c].by = lock'.by
    <3>1. CASE Home[c] = p
      <4>1. Issued(stat[c].by)'
        BY <1>1, <1>3, <3>1 DEF Issued
      <4> QED BY <1>1, <1>2, <1>3, <3>1, <4>1
    <3>2. CASE Home[c] # p
      <4>1. stat'[c] = stat[c] /\ judged'[c] = judged[c]
        BY <1>1, <3>2
      <4>2. Issued(stat[c].by)' /\ (Dead(stat[c].by) => Dead(stat[c].by)')
        BY <1>4, <1>5, <4>1 DEF Issued, Dead
      <4> QED BY <1>1, <4>1, <4>2 DEF LockInv, SightInv
    <3> QED BY <3>1, <3>2
  <2> QED BY <1>1, <1>6, <2>1 DEF LockInv, SightInv
<1>8. HoldInv'
  <2> SUFFICES ASSUME ~raced PROVE HoldInv'
    BY <1>1 DEF HoldInv
  <2>1. \A c \in Callers : pc'[c] = "break" /\ judged'[c] = lock.id /\ lock.id # 0
          => Dead(lock.by)
    BY <1>1 DEF LockInv, HoldInv
  <2>2. \A c \in Callers :
          pc'[c] = "probe" => judged'[c] = stat'[c].id /\ stat'[c].owner = stat'[c].by
    BY <1>1 DEF LockInv, HoldInv
  <2>3. Holders' \subseteq {c \in Holders : Home[c] # p}
    BY <1>1 DEF Holders
  <2>4. \A c \in Holders' : Token(c)' = Token(c)
    <3>1. ASSUME NEW c \in Holders' PROVE run'[Home[c]] = run[Home[c]]
      BY <1>1, <1>2, <2>3, <3>1 DEF Holders
    <3> QED BY <3>1 DEF Token
  <2> QED BY <1>1, <1>6, <2>1, <2>2, <2>3, <2>4 DEF LockInv, HoldInv, OneHolder
<1> QED BY <1>7, <1>8

LEMMA AgeKeeps ==
  ASSUME LockInv, Age
  PROVE  SightInv' /\ HoldInv'
<1>1. /\ UNCHANGED <<run, pc, stat, judged, made, locks, raced>>
      /\ lock' = [lock EXCEPT !.aged = TRUE] /\ Dead(lock.by)
  BY DEF Age, lookVars, hist
<1>2. /\ lock'.id = lock.id /\ lock'.by = lock.by /\ lock'.owner = lock.owner
      /\ lock \in Dirs
  BY <1>1 DEF LockInv, TypeOK, Dirs
<1>3. lock.id # 0
  <2>1. NoDir.by = NoOwner
    BY DEF NoDir, Dir
  <2> QED BY <1>1, <2>1 DEF LockInv, SightInv, Dead
<1>4. SightInv'
  BY <1>1, <1>2, <1>3 DEF LockInv, SightInv, Issued, Dead
<1>5. HoldInv'
  <2>1. \A d : Token(d)' = Token(d)
    BY <1>1 DEF Token
  <2>2. Holders' = Holders
    BY <1>1 DEF Holders
  <2> QED BY <1>1, <1>2, <2>1, <2>2 DEF LockInv, HoldInv, OneHolder, Dead
<1> QED BY <1>4, <1>5

LEMMA NextLock == LockInv /\ [Next]_vars => LockInv'
<1> SUFFICES ASSUME LockInv, [Next]_vars PROVE LockInv'
  OBVIOUS
<1>t. TypeOK'
  BY NextTypes DEF LockInv
<1>p. pc \in [Callers -> Awaited \cup Calls]
  BY DEF LockInv, TypeOK
<1>1. ASSUME NEW c \in Callers, Want(c) \/ Poll(c) \/ GiveUp(c) \/ Release(c) \/ CheckOwner(c)
      PROVE  SightInv' /\ HoldInv'
  <2>1. UNCHANGED <<lock, run, lookVars, hist>>
    BY <1>1 DEF Want, Poll, GiveUp, Release, CheckOwner
  <2>2. /\ Holders' \subseteq Holders
        /\ \A d \in Callers : pc'[d] \in {"break", "probe"} => pc'[d] = pc[d]
    BY <1>1, <1>p DEF Want, Poll, GiveUp, Release, CheckOwner, Goto, Holders
  <2> QED BY <2>1, <2>2, Quiet
<1>2. ASSUME NEW c \in Callers, Call(c) PROVE SightInv' /\ HoldInv'
  BY <1>1, <1>2, MakeDirKeeps, WriteOwnerKeeps, LookKeeps, ReadOwnerKeeps, ProbeKeeps, BreakKeeps,
     UnlinkKeeps, RemoveDirKeeps DEF Call
<1>3. ASSUME NEW p \in Processes, Crash(p) PROVE SightInv' /\ HoldInv'
  BY <1>3, CrashKeeps
<1>4. ASSUME Age PROVE SightInv' /\ HoldInv'
  BY <1>4, AgeKeeps
<1>5. ASSUME UNCHANGED vars PROVE SightInv' /\ HoldInv'
  <2>1. UNCHANGED <<lock, run, lookVars, hist>> /\ Holders' = Holders /\ pc' = pc
    BY <1>5 DEF vars, lookVars, hist, Holders
  <2> QED BY <2>1, Quiet
<1> QED BY <1>t, <1>1, <1>2, <1>3, <1>4, <1>5 DEF LockInv, Next

(* At most one caller holds the lock, and the directory is its own, as     *)
(* long as no waiter renames away a directory it has not judged.           *)
THEOREM Exclusive == Spec => []ExclusiveUnlessRaced
<1>1. LockInv => ExclusiveUnlessRaced
  BY DEF LockInv, HoldInv, ExclusiveUnlessRaced
<1> QED BY <1>1, InitLock, NextLock, PTL DEF Spec
=============================================================================
