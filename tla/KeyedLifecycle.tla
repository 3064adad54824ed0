--------------------------- MODULE KeyedLifecycle ---------------------------
(***************************************************************************)
(* The registry of keyed lifecycle fences (src-tauri/src/keyed_lifecycle.rs*)
(* and its instance for Sessions): one asynchronous mutex per key, made on *)
(* demand, found again through a weak reference, forgotten with its last   *)
(* user.  An operation asks for several keys and takes them in sorted      *)
(* order; a task may be dropped while it waits.                            *)
(*                                                                         *)
(* A mutex object is a key and an incarnation, that is, the address the    *)
(* allocator gave it, which may be used again once no reference is left.   *)
(* tokio's mutex is a fair semaphore of one permit: a permit that is given *)
(* back goes to the first waiter, not to whoever comes next.               *)
(*                                                                         *)
(* A definition Bug_D is a faulty variant of D, a mistake somebody could   *)
(* make; nothing uses it but the checks that a property notices it.        *)
(***************************************************************************)
EXTENDS Naturals, SequencesExt

CONSTANTS
  Callers,   \* concurrent operations
  Keys,      \* identities, ranked as sort() ranks them
  Objects    \* addresses of mutex objects

ASSUME KeysAssumption == Keys \subseteq Nat
ASSUME ObjectsAssumption == Objects \subseteq Nat \ {0}

VARIABLES
  registry,  \* locks: the object the weak entry of a key names, 0 without entry
  pc,        \* where the operation is
  keys,      \* the identities it asked for
  arc,       \* the object it has a strong reference to, by key, 0 without one
  held,      \* keys whose mutex it has locked: _guards
  queue      \* waiters of each object

vars == <<registry, pc, keys, arc, held, queue>>

None == 0

TypeOK ==
  /\ registry \in [Keys -> Objects \cup {None}]
  /\ pc \in [Callers -> {"idle", "acquire", "wait", "try", "guard", "drop"}]
  /\ keys \in [Callers -> SUBSET Keys]
  /\ arc \in [Callers -> [Keys -> Objects \cup {None}]]
  /\ held \in [Callers -> SUBSET Keys]
  /\ queue \in [Keys \X Objects -> Seq(Callers)]

Init ==
  /\ registry = [k \in Keys |-> None]
  /\ pc = [c \in Callers |-> "idle"]
  /\ keys = [c \in Callers |-> {}]
  /\ arc = [c \in Callers |-> [k \in Keys |-> None]]
  /\ held = [c \in Callers |-> {}]
  /\ queue = [l \in Keys \X Objects |-> <<>>]
-----------------------------------------------------------------------------
(* Weak::upgrade succeeds, and strong_count() > 0. *)
Referenced(k, n) == \E c \in Callers : arc[c][k] = n
Live(k) == registry[k] # None /\ Referenced(k, registry[k])

Locked(k, n) == \E c \in Callers : k \in held[c] /\ arc[c][k] = n

(* The next mutex of an operation: the guards are taken in sorted order. *)
Bug_IsNext(c, k) == k \in keys[c] \ held[c]
IsNext(c, k) ==
  /\ k \in keys[c] \ held[c]
  /\ \A j \in keys[c] \ held[c] : k <= j

(* locks_for, which runs under the registry's own mutex and awaits nothing *)
(* once it has that: prune what is dead, upgrade what lives, make the rest.*)
Bug_Found(S) == {f \in [S -> Objects] : \A k \in S : ~Referenced(k, f[k])}
Found(S) ==
  {f \in [S -> Objects] :
     \A k \in S : IF Live(k) THEN f[k] = registry[k] ELSE ~Referenced(k, f[k])}

LocksFor(c, S, f) ==
  /\ registry' = [k \in Keys |-> IF k \in S THEN f[k]
                                 ELSE IF Live(k) THEN registry[k] ELSE None]
  /\ keys' = [keys EXCEPT ![c] = S]
  /\ arc' = [arc EXCEPT ![c] = [k \in Keys |-> IF k \in S THEN f[k] ELSE None]]

(* acquire: without a key it is granted nothing, and at once. *)
Acquire(c, S) ==
  /\ pc[c] = "idle"
  /\ \E f \in Found(S) : LocksFor(c, S, f)
  /\ pc' = [pc EXCEPT ![c] = IF S = {} THEN "guard" ELSE "acquire"]
  /\ UNCHANGED <<held, queue>>

(* try_acquire_many, which refuses to be asked for nothing. *)
TryAcquire(c, S) ==
  /\ pc[c] = "idle" /\ S # {}
  /\ \E f \in Found(S) : LocksFor(c, S, f)
  /\ pc' = [pc EXCEPT ![c] = "try"]
  /\ UNCHANGED <<held, queue>>

(* lock_owned and try_lock_owned on a free mutex. *)
Lock(c, k) ==
  /\ pc[c] \in {"acquire", "try"}
  /\ IsNext(c, k)
  /\ ~Locked(k, arc[c][k])
  /\ held' = [held EXCEPT ![c] = @ \cup {k}]
  /\ pc' = [pc EXCEPT ![c] = IF held'[c] = keys[c] THEN "guard" ELSE @]
  /\ UNCHANGED <<registry, keys, arc, queue>>

(* lock_owned on a locked one queues the task ... *)
Wait(c, k) ==
  /\ pc[c] = "acquire"
  /\ IsNext(c, k)
  /\ Locked(k, arc[c][k])
  /\ pc' = [pc EXCEPT ![c] = "wait"]
  /\ queue' = [queue EXCEPT ![<<k, arc[c][k]>>] = Append(@, c)]
  /\ UNCHANGED <<registry, keys, arc, held>>

(* References an operation still has when it gives up: those of its guards.*)
Kept(c) == [k \in Keys |-> IF k \in held[c] THEN arc[c][k] ELSE None]

(* ... and try_lock_owned on a locked one gives up. *)
TryFails(c, k) ==
  /\ pc[c] = "try"
  /\ IsNext(c, k)
  /\ Locked(k, arc[c][k])
  /\ pc' = [pc EXCEPT ![c] = "drop"]
  /\ arc' = [arc EXCEPT ![c] = Kept(c)]
  /\ UNCHANGED <<registry, keys, held, queue>>

(* The task that acquires is dropped: a waiter leaves its queue. *)
Bug_LeaveQueue(c) == queue
LeaveQueue(c) == [l \in Keys \X Objects |-> RemoveFirst(queue[l], c)]
Cancel(c) ==
  /\ pc[c] \in {"acquire", "wait"}
  /\ pc' = [pc EXCEPT ![c] = "drop"]
  /\ arc' = [arc EXCEPT ![c] = Kept(c)]
  /\ queue' = LeaveQueue(c)
  /\ UNCHANGED <<registry, keys, held>>

(* The operation is over: KeyedLifecycleGuard is dropped ... *)
Release(c) ==
  /\ pc[c] = "guard"
  /\ pc' = [pc EXCEPT ![c] = "drop"]
  /\ UNCHANGED <<registry, keys, arc, held, queue>>

(* ... guard by guard, in the order of the vector.  Each hands its mutex   *)
(* to the first waiter and lets go of the object.                          *)
Bug_Unlock(c, k) ==
  /\ held' = [held EXCEPT ![c] = @ \ {k}]
  /\ UNCHANGED <<pc, queue>>
Unlock(c, k) ==
  LET l == <<k, arc[c][k]>>
      d == Head(queue[l])
  IN IF queue[l] = <<>>
       THEN /\ held' = [held EXCEPT ![c] = @ \ {k}]
            /\ UNCHANGED <<pc, queue>>
       ELSE /\ held' = [held EXCEPT ![c] = @ \ {k}, ![d] = @ \cup {k}]
            /\ pc' = [pc EXCEPT ![d] = IF held[d] \cup {k} = keys[d] THEN "guard" ELSE "acquire"]
            /\ queue' = [queue EXCEPT ![l] = Tail(@)]

DropGuard(c, k) ==
  /\ pc[c] = "drop"
  /\ k \in held[c] /\ \A j \in held[c] : k <= j
  /\ Unlock(c, k)
  /\ arc' = [arc EXCEPT ![c][k] = None]
  /\ UNCHANGED <<registry, keys>>

Dropped(c) ==
  /\ pc[c] = "drop" /\ held[c] = {}
  /\ pc' = [pc EXCEPT ![c] = "idle"]
  /\ keys' = [keys EXCEPT ![c] = {}]
  /\ UNCHANGED <<registry, arc, held, queue>>

Step(c) ==
  \/ \E k \in Keys : Lock(c, k) \/ Wait(c, k) \/ TryFails(c, k) \/ DropGuard(c, k)
  \/ Release(c) \/ Dropped(c)

Next ==
  \E c \in Callers :
    \/ \E S \in SUBSET Keys : Acquire(c, S) \/ TryAcquire(c, S)
    \/ Step(c)
    \/ Cancel(c)

Spec == Init /\ [][Next]_vars

(* Tasks are polled, and the operation under a fence ends (FenceReleased   *)
(* of SessionSidecar).  Nobody has to ask, or to give up.                  *)
FairSpec == Spec /\ \A c \in Callers : WF_vars(Step(c))
-----------------------------------------------------------------------------
(* Properties *)

(* Two operations that hold a fence on the same key never run together,    *)
(* whatever objects the registry made, pruned and found again for it.      *)
MutualExclusion ==
  \A c, d \in Callers :
    c # d /\ pc[c] = "guard" /\ pc[d] = "guard" => keys[c] \cap keys[d] = {}

(* Whoever refers to a key's mutex refers to the one the registry names:   *)
(* pruning never forgets a mutex that somebody holds or waits for.         *)
OneObjectPerKey ==
  \A c \in Callers, k \in Keys : arc[c][k] # None => arc[c][k] = registry[k]

(* A waiter waits for somebody: no mutex is free with a queue, and nobody  *)
(* who has gone stands in one.                                             *)
Waits(c, k, n) == pc[c] = "wait" /\ arc[c][k] = n /\ IsNext(c, k)
NoIdleLock ==
  \A k \in Keys, n \in Objects :
    /\ queue[<<k, n>>] # <<>> => Locked(k, n)
    /\ \A c \in Range(queue[<<k, n>>]) : Waits(c, k, n)

(* Operations that overlap in several keys neither deadlock nor starve one *)
(* another: who asks is served, unless its task is dropped.                *)
EveryoneServed ==
  \A c \in Callers : pc[c] \in {"acquire", "wait"} ~> pc[c] \in {"guard", "drop"}
=============================================================================
