----------------------- MODULE KeyedLifecycle_proofs -----------------------
(***************************************************************************)
(* Mutual exclusion of the keyed fences, for any number of operations and  *)
(* keys.  The invariant says who refers to which mutex object (Refs), that *)
(* a key is locked once (HeldOnce), that a guard has what it asked for     *)
(* (Granted), and that queues are honest (NoIdleLock, QueuedOnce).         *)
(***************************************************************************)
EXTENDS KeyedLifecycle, SequenceTheorems, TLAPS

(* An operation refers to the mutexes it asked for, and, once it gives up, *)
(* to those it has locked.                                                 *)
Refs ==
  \A c \in Callers :
    /\ held[c] \subseteq keys[c]
    /\ pc[c] = "idle" => keys[c] = {}
    /\ \A k \in Keys :
         arc[c][k] # None <=> k \in (IF pc[c] = "drop" THEN held[c] ELSE keys[c])

HeldOnce == \A c, d \in Callers : c # d => held[c] \cap held[d] = {}

Granted == \A c \in Callers : pc[c] = "guard" => held[c] = keys[c]

QueuedOnce ==
  \A l \in Keys \X Objects : \A i, j \in DOMAIN queue[l] :
    queue[l][i] = queue[l][j] => i = j

Inv == OneObjectPerKey /\ Refs /\ HeldOnce /\ Granted /\ NoIdleLock /\ QueuedOnce

-----------------------------------------------------------------------------
(* A task that leaves a queue is in it no more; the others keep their      *)
(* places.                                                                 *)
LEMMA Removed ==
  ASSUME NEW S, NEW s \in Seq(S), NEW e,
         \A i, j \in DOMAIN s : s[i] = s[j] => i = j
  PROVE  /\ RemoveFirst(s, e) \in Seq(S)
         /\ \A i \in DOMAIN RemoveFirst(s, e) :
              /\ RemoveFirst(s, e)[i] # e
              /\ \E j \in DOMAIN s : RemoveFirst(s, e)[i] = s[j]
         /\ \A i, j \in DOMAIN RemoveFirst(s, e) :
              RemoveFirst(s, e)[i] = RemoveFirst(s, e)[j] => i = j
<1>1. CASE ~\E i \in 1 .. Len(s) : s[i] = e
  BY <1>1 DEF RemoveFirst
<1>2. CASE \E i \in 1 .. Len(s) : s[i] = e
  <2>1. PICK n \in 1 .. Len(s) : s[n] = e
    BY <1>2
  <2>2. {i \in 1 .. Len(s) : s[i] = e} = {n}
    BY <2>1
  <2>3. Min({n}) = n
    BY <2>1 DEF Min
  <2>4. SelectInSeq(s, LAMBDA v : v = e) = n
    BY <2>2, <2>3 DEF SelectInSeq
  <2>5. RemoveFirst(s, e) = SubSeq(s, 1, n - 1) \o SubSeq(s, n + 1, Len(s))
    BY <1>2, <2>4 DEF RemoveFirst, RemoveAt
  <2>6. PICK r : r = RemoveFirst(s, e)
    OBVIOUS
  <2>7. /\ r \in Seq(S) /\ Len(r) = Len(s) - 1
        /\ \A i \in 1 .. Len(r) : r[i] = IF i < n THEN s[i] ELSE s[i + 1]
    <3>1. /\ SubSeq(s, 1, n - 1) \in Seq(S) /\ Len(SubSeq(s, 1, n - 1)) = n - 1
          /\ \A i \in 1 .. n - 1 : SubSeq(s, 1, n - 1)[i] = s[i]
      BY <2>1, SubSeqProperties
    <3>2. /\ SubSeq(s, n + 1, Len(s)) \in Seq(S) /\ Len(SubSeq(s, n + 1, Len(s))) = Len(s) - n
          /\ \A i \in 1 .. Len(s) - n : SubSeq(s, n + 1, Len(s))[i] = s[n + i]
      BY <2>1, SubSeqProperties
    <3> DEFINE a == SubSeq(s, 1, n - 1)
               b == SubSeq(s, n + 1, Len(s))
    <3>3. /\ a \o b \in Seq(S) /\ Len(a \o b) = Len(a) + Len(b)
          /\ \A i \in 1 .. Len(a) + Len(b) :
               (a \o b)[i] = IF i <= Len(a) THEN a[i] ELSE b[i - Len(a)]
      BY <3>1, <3>2, ConcatProperties
    <3>4. r = a \o b
      BY <2>5, <2>6
    <3>5. /\ Len(a) = n - 1 /\ \A i \in 1 .. n - 1 : a[i] = s[i]
          /\ Len(b) = Len(s) - n /\ \A i \in 1 .. Len(s) - n : b[i] = s[n + i]
          /\ Len(s) \in Nat /\ n \in 1 .. Len(s)
      BY <3>1, <3>2
    <3> HIDE DEF a, b
    <3>6. Len(r) = Len(s) - 1
      BY <3>3, <3>4, <3>5
    <3>7. \A i \in 1 .. Len(r) : r[i] = IF i < n THEN s[i] ELSE s[i + 1]
      <4> SUFFICES ASSUME NEW i \in 1 .. Len(r)
                   PROVE  r[i] = IF i < n THEN s[i] ELSE s[i + 1]
        OBVIOUS
      <4>1. CASE i < n
        BY <3>3, <3>4, <3>6, <3>5, <4>1
      <4>2. CASE i >= n
        <5>1. r[i] = b[i - Len(a)] /\ i - Len(a) \in 1 .. Len(s) - n
          BY <3>3, <3>4, <3>6, <3>5, <4>2
        <5>2. n + (i - Len(a)) = i + 1
          BY <3>5
        <5> QED  BY <3>5, <4>2, <5>1, <5>2
      <4> QED  BY <3>5, <4>1, <4>2
    <3> QED  BY <3>3, <3>4, <3>6, <3>7
  <2>8. \A i \in DOMAIN r : r[i] # e /\ \E j \in DOMAIN s : r[i] = s[j]
    BY <2>1, <2>7
  <2>9. \A i, j \in DOMAIN r : r[i] = r[j] => i = j
    <3> SUFFICES ASSUME NEW i \in DOMAIN r, NEW j \in DOMAIN r, r[i] = r[j]
                 PROVE  i = j
      OBVIOUS
    <3> DEFINE p == IF i < n THEN i ELSE i + 1
               q == IF j < n THEN j ELSE j + 1
    <3>1. /\ i \in 1 .. Len(s) - 1 /\ j \in 1 .. Len(s) - 1
          /\ Len(s) \in Nat /\ n \in 1 .. Len(s) /\ DOMAIN s = 1 .. Len(s)
      BY <2>7
    <3>2. r[i] = s[p] /\ r[j] = s[q]
      BY <2>7, <3>1
    <3>3. p \in DOMAIN s /\ q \in DOMAIN s
      BY <3>1
    <3>4. p = q
      <4> HIDE DEF p, q
      <4> QED  BY <3>2, <3>3
    <3> QED  BY <3>1, <3>4
  <2> QED  BY <2>6, <2>7, <2>8, <2>9
<1> QED  BY <1>1, <1>2

(* ... and one that comes is the last. *)
LEMMA Appended ==
  ASSUME NEW S, NEW s \in Seq(S), NEW e \in S, e \notin Range(s),
         \A i, j \in DOMAIN s : s[i] = s[j] => i = j
  PROVE  /\ Range(Append(s, e)) = Range(s) \cup {e}
         /\ \A i, j \in DOMAIN Append(s, e) : Append(s, e)[i] = Append(s, e)[j] => i = j
<1>1. PICK r : r = Append(s, e)
  OBVIOUS
<1>2. /\ DOMAIN r = 1 .. Len(s) + 1 /\ DOMAIN s = 1 .. Len(s) /\ Len(s) \in Nat
      /\ \A i \in 1 .. Len(s) : r[i] = s[i]
      /\ r[Len(s) + 1] = e
  BY <1>1, AppendProperties
<1>3. Range(r) = Range(s) \cup {e}
  BY <1>2 DEF Range
<1>4. \A i \in 1 .. Len(s) : s[i] # e
  BY <1>2 DEF Range
<1>5. ASSUME NEW i \in DOMAIN r, NEW j \in DOMAIN r, r[i] = r[j] PROVE i = j
  <2>1. CASE i \in 1 .. Len(s) /\ j \in 1 .. Len(s)
    BY <1>2, <1>5, <2>1
  <2>2. CASE i = Len(s) + 1 \/ j = Len(s) + 1
    <3>1. r[i] = e /\ r[j] = e
      BY <1>2, <1>5, <2>2
    <3>2. i \notin 1 .. Len(s) /\ j \notin 1 .. Len(s)
      BY <1>2, <1>4, <3>1
    <3> QED  BY <1>2, <3>2
  <2> QED  BY <1>2, <2>1, <2>2
<1> QED  BY <1>1, <1>3, <1>5

LEMMA EmptyRange ==
  ASSUME NEW S, NEW s \in Seq(S)
  PROVE  s = <<>> <=> Range(s) = {}
<1>1. s # <<>> => 1 \in DOMAIN s
  BY EmptySeq, LenProperties
<1>2. Range(<<>>) = {}
  BY DEF Range
<1> QED  BY <1>1, <1>2 DEF Range

-----------------------------------------------------------------------------
(* Type correctness *)

LEMMA TypeInit == Init => TypeOK
  BY DEF Init, TypeOK, None

LEMMA QueueTyped ==
  ASSUME TypeOK, NEW l, NEW q, l \in Keys \X Objects => q \in Seq(Callers)
  PROVE  [queue EXCEPT ![l] = q] \in [Keys \X Objects -> Seq(Callers)]
  BY DEF TypeOK

LEMMA TypeStep ==
  ASSUME TypeOK, QueuedOnce, [Next]_vars
  PROVE  TypeOK'
<1> USE DEF TypeOK
<1>1. ASSUME NEW c \in Callers, NEW S \in SUBSET Keys, Acquire(c, S) \/ TryAcquire(c, S)
      PROVE  TypeOK'
  <2>1. PICK f \in Found(S) : LocksFor(c, S, f)
    BY <1>1 DEF Acquire, TryAcquire
  <2>2. f \in [S -> Objects]
    BY DEF Found
  <2>3. registry' \in [Keys -> Objects \cup {None}]
    BY <2>1, <2>2 DEF LocksFor
  <2>4. [k \in Keys |-> IF k \in S THEN f[k] ELSE None] \in [Keys -> Objects \cup {None}]
    BY <2>2
  <2>5. arc' \in [Callers -> [Keys -> Objects \cup {None}]]
    BY <2>1, <2>4 DEF LocksFor
  <2>6. keys' \in [Callers -> SUBSET Keys]
    BY <2>1 DEF LocksFor
  <2> QED  BY <1>1, <2>3, <2>5, <2>6 DEF Acquire, TryAcquire
<1>2. ASSUME NEW c \in Callers, NEW k \in Keys, Lock(c, k) PROVE TypeOK'
  BY <1>2 DEF Lock
<1>3. ASSUME NEW c \in Callers, NEW k \in Keys, Wait(c, k) PROVE TypeOK'
  <2>1. queue' \in [Keys \X Objects -> Seq(Callers)]
    <3>1. \A l \in Keys \X Objects : Append(queue[l], c) \in Seq(Callers)
      BY AppendProperties
    <3> QED  BY <1>3, <3>1, QueueTyped DEF Wait
  <2> QED  BY <1>3, <2>1 DEF Wait
<1>4. ASSUME NEW c \in Callers PROVE Kept(c) \in [Keys -> Objects \cup {None}]
  BY DEF Kept
<1>5. ASSUME NEW c \in Callers, NEW k \in Keys, TryFails(c, k) PROVE TypeOK'
  BY <1>4, <1>5 DEF TryFails
<1>6. ASSUME NEW c \in Callers, Cancel(c) PROVE TypeOK'
  <2>1. \A l \in Keys \X Objects : RemoveFirst(queue[l], c) \in Seq(Callers)
    BY Removed DEF QueuedOnce
  <2>2. queue' \in [Keys \X Objects -> Seq(Callers)]
    BY <1>6, <2>1 DEF Cancel, LeaveQueue
  <2> QED  BY <1>4, <1>6, <2>2 DEF Cancel
<1>7. ASSUME NEW c \in Callers, NEW k \in Keys, DropGuard(c, k) PROVE TypeOK'
  <2>1. arc' \in [Callers -> [Keys -> Objects \cup {None}]]
    BY <1>7 DEF DropGuard
  <2>2. Unlock(c, k)
    BY <1>7 DEF DropGuard
  <2> DEFINE l == <<k, arc[c][k]>>
  <2>3. CASE queue[l] = <<>>
    BY <1>7, <2>1, <2>2, <2>3 DEF DropGuard, Unlock
  <2>4. CASE queue[l] # <<>>
    <3>1. /\ held' = [held EXCEPT ![c] = @ \ {k}, ![Head(queue[l])] = @ \cup {k}]
          /\ queue' = [queue EXCEPT ![l] = Tail(@)]
          /\ \E p \in {"guard", "acquire"} : pc' = [pc EXCEPT ![Head(queue[l])] = p]
      BY <2>2, <2>4 DEF Unlock
    <3>2. held' \in [Callers -> SUBSET Keys]
      BY <3>1
    <3>3. l \in Keys \X Objects => Tail(queue[l]) \in Seq(Callers)
      BY <2>4, HeadTailProperties
    <3>4. queue' \in [Keys \X Objects -> Seq(Callers)]
      BY <3>1, <3>3, QueueTyped
    <3> QED  BY <1>7, <2>1, <3>1, <3>2, <3>4 DEF DropGuard
  <2> QED  BY <2>3, <2>4
<1>8. ASSUME NEW c \in Callers, Release(c) PROVE TypeOK'
  BY <1>8 DEF Release
<1>9. ASSUME NEW c \in Callers, Dropped(c) PROVE TypeOK'
  BY <1>9 DEF Dropped
<1>10. ASSUME UNCHANGED vars PROVE TypeOK'
  BY <1>10 DEF vars
<1> QED  BY <1>1, <1>2, <1>3, <1>5, <1>6, <1>7, <1>8, <1>9, <1>10 DEF Next, Step

-----------------------------------------------------------------------------
(* The invariant *)

LEMMA InvInit == Init => Inv
<1> SUFFICES ASSUME Init PROVE Inv
  OBVIOUS
<1>1. OneObjectPerKey /\ Refs /\ HeldOnce /\ Granted /\ QueuedOnce
  BY DEF Init, OneObjectPerKey, Refs, HeldOnce, Granted, QueuedOnce, None
<1>2. \A k \in Keys, n \in Objects : queue[<<k, n>>] = <<>>
  BY DEF Init
<1>3. Range(<<>>) = {}
  BY DEF Range
<1>4. NoIdleLock
  BY <1>2, <1>3 DEF NoIdleLock
<1> QED  BY <1>1, <1>4 DEF Inv

(* Only callers wait. *)
LEMMA Waiters ==
  ASSUME TypeOK, NEW k \in Keys, NEW n \in Objects
  PROVE  Range(queue[<<k, n>>]) \subseteq Callers
<1>1. queue[<<k, n>>] \in Seq(Callers)
  BY DEF TypeOK
<1> QED  BY <1>1 DEF Range

(* A lookup leaves what others refer to as it is: it is what the registry  *)
(* names, and it is live.                                                  *)
LEMMA LookupKeeps ==
  ASSUME TypeOK, Inv, NEW c \in Callers, NEW S \in SUBSET Keys, NEW f \in Found(S),
         LocksFor(c, S, f), pc[c] = "idle", UNCHANGED <<held, queue>>,
         NEW p \in {"guard", "acquire", "try"}, pc' = [pc EXCEPT ![c] = p],
         p = "guard" => S = {}
  PROVE  Inv'
<1> USE DEF TypeOK, Inv
<1>1. f \in [S -> Objects] /\ \A k \in S : Live(k) => f[k] = registry[k]
  BY DEF Found
<1>2. /\ keys[c] = {} /\ held[c] = {} /\ keys'[c] = S /\ pc'[c] = p
      /\ \A k \in Keys : arc'[c][k] = IF k \in S THEN f[k] ELSE None
      /\ \A d \in Callers \ {c} : keys'[d] = keys[d] /\ arc'[d] = arc[d] /\ pc'[d] = pc[d]
  BY DEF Refs, LocksFor
<1>3. \A k \in Keys : registry'[k] = IF k \in S THEN f[k]
                                     ELSE IF Live(k) THEN registry[k] ELSE None
  BY DEF LocksFor
<1>4. \A k \in S : f[k] # None
  BY <1>1, ObjectsAssumption DEF None
<1>5. OneObjectPerKey'
  <2> SUFFICES ASSUME NEW d \in Callers, NEW k \in Keys, arc'[d][k] # None
               PROVE  arc'[d][k] = registry'[k]
    BY DEF OneObjectPerKey
  <2>1. CASE d = c
    BY <1>2, <1>3, <2>1
  <2>2. CASE d # c
    <3>1. arc[d][k] = registry[k] /\ arc[d][k] # None /\ arc'[d][k] = arc[d][k]
      BY <1>2, <2>2 DEF OneObjectPerKey
    <3>2. Live(k)
      BY <3>1 DEF Live, Referenced
    <3> QED  BY <1>1, <1>3, <3>1, <3>2
  <2> QED  BY <2>1, <2>2
<1>6. Refs'
  <2> SUFFICES ASSUME NEW d \in Callers
               PROVE  /\ held'[d] \subseteq keys'[d]
                      /\ pc'[d] = "idle" => keys'[d] = {}
                      /\ \A k \in Keys : arc'[d][k] # None <=>
                             k \in (IF pc'[d] = "drop" THEN held'[d] ELSE keys'[d])
    BY DEF Refs
  <2>1. CASE d = c
    BY <1>2, <1>4, <2>1
  <2>2. CASE d # c
    BY <1>2, <2>2 DEF Refs
  <2> QED  BY <2>1, <2>2
<1>7. HeldOnce' /\ QueuedOnce'
  BY DEF HeldOnce, QueuedOnce
<1>8. Granted'
  BY <1>2 DEF Granted
<1>9. NoIdleLock'
  <2>1. ASSUME NEW k \in Keys, NEW n \in Objects, queue[<<k, n>>] # <<>>
        PROVE  Locked(k, n)'
    <3>1. PICK d \in Callers : k \in held[d] /\ arc[d][k] = n
      BY <2>1 DEF NoIdleLock, Locked
    <3> QED  BY <1>2, <3>1 DEF Locked
  <2>2. ASSUME NEW k \in Keys, NEW n \in Objects, NEW d \in Range(queue[<<k, n>>])
        PROVE  Waits(d, k, n)'
    <3>1. d \in Callers /\ Waits(d, k, n)
      BY <2>2, Waiters DEF NoIdleLock
    <3> QED  BY <1>2, <3>1 DEF Waits, IsNext
  <2> QED  BY <2>1, <2>2 DEF NoIdleLock
<1> QED  BY <1>5, <1>6, <1>7, <1>8, <1>9

(* One more mutex locked by its only referee's turn.                       *)
LEMMA LockKeeps ==
  ASSUME TypeOK, Inv, NEW c \in Callers, NEW k \in Keys, Lock(c, k)
  PROVE  Inv'
<1> USE DEF TypeOK, Inv
<1>1. /\ held'[c] = held[c] \cup {k} /\ k \in keys[c] \ held[c]
      /\ pc'[c] \in {"acquire", "try", "guard"} /\ pc[c] \in {"acquire", "try"}
      /\ pc'[c] = "guard" => held'[c] = keys[c]
      /\ \A d \in Callers \ {c} : held'[d] = held[d] /\ pc'[d] = pc[d]
      /\ UNCHANGED <<registry, keys, arc, queue>>
  BY DEF Lock, IsNext
<1>2. OneObjectPerKey'
  BY <1>1 DEF OneObjectPerKey
<1>3. Refs'
  BY <1>1 DEF Refs
<1>4. HeldOnce'
  <2>1. ASSUME NEW d \in Callers, d # c, k \in held[d] PROVE FALSE
    <3>1. arc[d][k] # None /\ arc[c][k] # None
      BY <1>1, <2>1 DEF Refs
    <3>2. arc[d][k] = arc[c][k]
      BY <3>1 DEF OneObjectPerKey
    <3> QED  BY <2>1, <3>2 DEF Lock, Locked
  <2> QED  BY <1>1, <2>1 DEF HeldOnce
<1>5. Granted'
  BY <1>1 DEF Granted
<1>6. QueuedOnce'
  BY <1>1 DEF QueuedOnce
<1>7. NoIdleLock'
  <2>1. ASSUME NEW j \in Keys, NEW n \in Objects, queue[<<j, n>>] # <<>>
        PROVE  Locked(j, n)'
    <3>1. PICK d \in Callers : j \in held[d] /\ arc[d][j] = n
      BY <2>1 DEF NoIdleLock, Locked
    <3> QED  BY <1>1, <3>1 DEF Locked
  <2>2. ASSUME NEW j \in Keys, NEW n \in Objects, NEW d \in Range(queue[<<j, n>>])
        PROVE  Waits(d, j, n)'
    <3>1. d \in Callers /\ Waits(d, j, n)
      BY <2>2, Waiters DEF NoIdleLock
    <3> QED  BY <1>1, <3>1 DEF Waits, IsNext
  <2> QED  BY <1>1, <2>1, <2>2 DEF NoIdleLock
<1> QED  BY <1>2, <1>3, <1>4, <1>5, <1>6, <1>7

(* A task goes to the end of the queue of a mutex that is locked. *)
LEMMA WaitKeeps ==
  ASSUME TypeOK, Inv, NEW c \in Callers, NEW k \in Keys, Wait(c, k)
  PROVE  Inv'
<1> USE DEF TypeOK, Inv
<1>1. /\ pc[c] = "acquire" /\ pc'[c] = "wait" /\ IsNext(c, k) /\ Locked(k, arc[c][k])
      /\ \A d \in Callers \ {c} : pc'[d] = pc[d]
      /\ UNCHANGED <<registry, keys, arc, held>>
  BY DEF Wait
<1>2. OneObjectPerKey' /\ HeldOnce'
  BY <1>1 DEF OneObjectPerKey, HeldOnce
<1>3. Refs'
  BY <1>1 DEF Refs
<1>4. Granted'
  BY <1>1 DEF Granted
<1>5. \A j \in Keys, n \in Objects : c \notin Range(queue[<<j, n>>])
  BY <1>1 DEF NoIdleLock, Waits
<1>6. ASSUME NEW l \in Keys \X Objects
      PROVE  /\ Range(Append(queue[l], c)) = Range(queue[l]) \cup {c}
             /\ \A x, y \in DOMAIN Append(queue[l], c) :
                  Append(queue[l], c)[x] = Append(queue[l], c)[y] => x = y
  <2>1. queue[l] \in Seq(Callers) /\ c \notin Range(queue[l])
    BY <1>5
  <2>2. \A x, y \in DOMAIN queue[l] : queue[l][x] = queue[l][y] => x = y
    BY DEF QueuedOnce
  <2> QED  BY <2>1, <2>2, Appended
<1>7. \A l \in Keys \X Objects : queue'[l] = IF l = <<k, arc[c][k]>> THEN Append(queue[l], c)
                                                                  ELSE queue[l]
  BY DEF Wait
<1>8. QueuedOnce'
  <2> SUFFICES ASSUME NEW l \in Keys \X Objects
               PROVE  \A x, y \in DOMAIN queue'[l] : queue'[l][x] = queue'[l][y] => x = y
    BY DEF QueuedOnce
  <2>1. \A x, y \in DOMAIN queue[l] : queue[l][x] = queue[l][y] => x = y
    BY DEF QueuedOnce
  <2>2. CASE l = <<k, arc[c][k]>>
    <3>1. queue'[l] = Append(queue[l], c)
      BY <1>7, <2>2
    <3>2. \A x, y \in DOMAIN Append(queue[l], c) :
            Append(queue[l], c)[x] = Append(queue[l], c)[y] => x = y
      BY <1>6
    <3> QED  BY ONLY <3>1, <3>2
  <2>3. CASE l # <<k, arc[c][k]>>
    BY <1>7, <2>1, <2>3
  <2> QED  BY <2>2, <2>3
<1>9. NoIdleLock'
  <2>1. ASSUME NEW j \in Keys, NEW n \in Objects, queue'[<<j, n>>] # <<>>
        PROVE  Locked(j, n)'
    <3>1. Locked(j, n)
      BY <1>1, <1>7, <2>1 DEF NoIdleLock
    <3> QED  BY <1>1, <3>1 DEF Locked
  <2>2. ASSUME NEW j \in Keys, NEW n \in Objects, NEW d \in Range(queue'[<<j, n>>])
        PROVE  Waits(d, j, n)'
    <3>1. queue[<<j, n>>] \in Seq(Callers) /\ c \notin Range(queue[<<j, n>>])
      BY <1>5
    <3>2. CASE d \in Range(queue[<<j, n>>])
      <4>1. d \in Callers /\ d # c /\ Waits(d, j, n)
        BY <3>1, <3>2, Waiters DEF NoIdleLock
      <4> QED  BY <1>1, <4>1 DEF Waits, IsNext
    <3>3. CASE d \notin Range(queue[<<j, n>>])
      <4>1. <<j, n>> = <<k, arc[c][k]>>
        BY <1>7, <2>2, <3>3
      <4>2. j = k /\ n = arc[c][k] /\ d = c
        BY <1>6, <1>7, <2>2, <3>3, <4>1
      <4> QED  BY <1>1, <4>2 DEF Waits, IsNext
    <3> QED  BY <3>2, <3>3
  <2> QED  BY <2>1, <2>2 DEF NoIdleLock
<1> QED  BY <1>2, <1>3, <1>4, <1>8, <1>9

(* An operation gives up: it is in no queue, and keeps what it has locked. *)
LEMMA GiveUpKeeps ==
  ASSUME TypeOK, Inv, NEW c \in Callers, pc[c] \in {"acquire", "wait", "try"},
         pc' = [pc EXCEPT ![c] = "drop"], arc' = [arc EXCEPT ![c] = Kept(c)],
         UNCHANGED <<registry, keys, held>>,
         \/ queue' = LeaveQueue(c)
         \/ pc[c] = "try" /\ queue' = queue
  PROVE  Inv'
<1> USE DEF TypeOK, Inv
<1>1. /\ pc'[c] = "drop"
      /\ \A j \in Keys : arc'[c][j] = IF j \in held[c] THEN arc[c][j] ELSE None
      /\ \A d \in Callers \ {c} : pc'[d] = pc[d] /\ arc'[d] = arc[d]
  BY DEF Kept
<1>2. OneObjectPerKey'
  BY <1>1 DEF OneObjectPerKey
<1>3. Refs'
  <2>1. \A j \in held[c] : arc[c][j] # None
    BY DEF Refs
  <2>2. ASSUME NEW d \in Callers
        PROVE  /\ held'[d] \subseteq keys'[d]
               /\ pc'[d] = "idle" => keys'[d] = {}
               /\ \A k \in Keys : arc'[d][k] # None <=>
                      k \in (IF pc'[d] = "drop" THEN held'[d] ELSE keys'[d])
    <3>1. CASE d = c
      BY <1>1, <2>1, <3>1 DEF Refs
    <3>2. CASE d # c
      BY <1>1, <3>2 DEF Refs
    <3> QED  BY <3>1, <3>2
  <2> QED  BY <2>2 DEF Refs
<1>4. HeldOnce' /\ Granted'
  BY <1>1 DEF HeldOnce, Granted
<1>5. ASSUME NEW l \in Keys \X Objects
      PROVE  /\ queue'[l] \in Seq(Callers)
             /\ Range(queue'[l]) \subseteq Range(queue[l]) \ {c}
             /\ \A x, y \in DOMAIN queue'[l] : queue'[l][x] = queue'[l][y] => x = y
  <2>1. \A x, y \in DOMAIN queue[l] : queue[l][x] = queue[l][y] => x = y
    BY DEF QueuedOnce
  <2>2. CASE queue' = LeaveQueue(c)
    <3>1. queue'[l] = RemoveFirst(queue[l], c)
      BY <2>2 DEF LeaveQueue
    <3>2. queue[l] \in Seq(Callers)
      OBVIOUS
    <3> QED  BY <2>1, <3>1, <3>2, Removed DEF Range
  <2>3. CASE pc[c] = "try" /\ queue' = queue
    <3>1. PICK k \in Keys, n \in Objects : l = <<k, n>>
      OBVIOUS
    <3>2. c \notin Range(queue[l])
      BY <2>3, <3>1 DEF NoIdleLock, Waits
    <3> QED  BY <2>1, <2>3, <3>2
  <2> QED  BY <2>2, <2>3
<1>6. QueuedOnce'
  BY <1>5 DEF QueuedOnce
<1>7. NoIdleLock'
  <2>1. ASSUME NEW j \in Keys, NEW n \in Objects, queue'[<<j, n>>] # <<>>
        PROVE  Locked(j, n)'
    <3>1. queue[<<j, n>>] # <<>>
      <4>1. queue'[<<j, n>>] \in Seq(Callers) /\ queue[<<j, n>>] \in Seq(Callers)
        BY <1>5
      <4>2. Range(queue'[<<j, n>>]) # {}
        BY <2>1, <4>1, EmptyRange
      <4>3. Range(queue[<<j, n>>]) # {}
        BY <1>5, <4>2
      <4> QED  BY <4>1, <4>3, EmptyRange
    <3>2. PICK d \in Callers : j \in held[d] /\ arc[d][j] = n
      BY <3>1 DEF NoIdleLock, Locked
    <3> QED  BY <1>1, <3>2 DEF Locked
  <2>2. ASSUME NEW j \in Keys, NEW n \in Objects, NEW d \in Range(queue'[<<j, n>>])
        PROVE  Waits(d, j, n)'
    <3>1. d \in Range(queue[<<j, n>>]) /\ d # c
      BY <1>5, <2>2
    <3>2. d \in Callers /\ Waits(d, j, n)
      BY <3>1, Waiters DEF NoIdleLock
    <3> QED  BY <1>1, <3>1, <3>2 DEF Waits, IsNext
  <2> QED  BY <2>1, <2>2 DEF NoIdleLock
<1> QED  BY <1>2, <1>3, <1>4, <1>6, <1>7

(* A guard is dropped: its mutex is free, or it is the first waiter's.     *)
LEMMA DropKeeps ==
  ASSUME TypeOK, Inv, NEW c \in Callers, NEW k \in Keys, DropGuard(c, k)
  PROVE  Inv'
<1> USE DEF TypeOK, Inv
<1> DEFINE l == <<k, arc[c][k]>>
<1>1. /\ pc[c] = "drop" /\ k \in held[c] /\ Unlock(c, k)
      /\ \A j \in Keys : arc'[c][j] = IF j = k THEN None ELSE arc[c][j]
      /\ \A d \in Callers \ {c} : arc'[d] = arc[d]
      /\ UNCHANGED <<registry, keys>>
  BY DEF DropGuard
<1>2. arc[c][k] # None /\ l \in Keys \X Objects
  BY <1>1 DEF Refs
<1>3. OneObjectPerKey'
  BY <1>1 DEF OneObjectPerKey
<1>4. CASE queue[l] = <<>>
  <2>1. /\ held' = [held EXCEPT ![c] = @ \ {k}]
        /\ UNCHANGED <<pc, queue>>
    BY <1>1, <1>4 DEF Unlock
  <2>2. Refs'
    BY <1>1, <2>1 DEF Refs
  <2>3. HeldOnce' /\ Granted' /\ QueuedOnce'
    BY <1>1, <2>1 DEF HeldOnce, Granted, QueuedOnce
  <2>4. NoIdleLock'
    <3>1. ASSUME NEW j \in Keys, NEW n \in Objects, queue[<<j, n>>] # <<>>
          PROVE  Locked(j, n)'
      <4>1. PICK d \in Callers : j \in held[d] /\ arc[d][j] = n
        BY <3>1 DEF NoIdleLock, Locked
      <4>2. d # c \/ j # k
        BY <1>4, <3>1, <4>1
      <4> QED  BY <1>1, <2>1, <4>1, <4>2 DEF Locked
    <3>2. ASSUME NEW j \in Keys, NEW n \in Objects, NEW d \in Range(queue[<<j, n>>])
          PROVE  Waits(d, j, n)'
      <4>1. d \in Callers /\ Waits(d, j, n)
        BY <3>2, Waiters DEF NoIdleLock
      <4>2. d # c
        BY <1>1, <4>1 DEF Waits
      <4> QED  BY <1>1, <2>1, <4>1, <4>2 DEF Waits, IsNext
    <3> QED  BY <2>1, <3>1, <3>2 DEF NoIdleLock
  <2> QED  BY <1>3, <2>2, <2>3, <2>4
<1>5. CASE queue[l] # <<>>
  <2>1. PICK e : e = Head(queue[l])
    OBVIOUS
  <2>2. /\ held' = [held EXCEPT ![c] = @ \ {k}, ![e] = @ \cup {k}]
        /\ pc' = [pc EXCEPT ![e] = IF held[e] \cup {k} = keys[e] THEN "guard" ELSE "acquire"]
        /\ queue' = [queue EXCEPT ![l] = Tail(@)]
    BY <1>1, <1>5, <2>1 DEF Unlock
  <2>3. e \in Range(queue[l]) /\ e \in Callers
    <3>1. PICK q \in Seq(Callers) : q = queue[l]
      BY <1>2
    <3>2. Len(q) \in Nat \ {0} /\ DOMAIN q = 1 .. Len(q) /\ e = q[1]
      BY <1>5, <2>1, <3>1, EmptySeq, LenProperties
    <3>3. 1 \in DOMAIN q /\ q[1] \in Callers
      BY <3>2, ElementOfSeq
    <3> QED  BY <3>1, <3>2, <3>3 DEF Range
  <2>4. Waits(e, k, arc[c][k]) /\ e # c
    BY <1>1, <1>2, <2>3 DEF NoIdleLock, Waits
  <2>5. /\ held'[c] = held[c] \ {k} /\ held'[e] = held[e] \cup {k}
        /\ pc'[e] = (IF held'[e] = keys[e] THEN "guard" ELSE "acquire")
        /\ pc'[c] = "drop"
        /\ \A d \in Callers \ {c, e} : held'[d] = held[d]
        /\ \A d \in Callers \ {e} : pc'[d] = pc[d]
    BY <1>1, <2>2, <2>3, <2>4
  <2>6. Refs'
    <3>1. ASSUME NEW d \in Callers
          PROVE  /\ held'[d] \subseteq keys'[d]
                 /\ pc'[d] = "idle" => keys'[d] = {}
                 /\ \A j \in Keys : arc'[d][j] # None <=>
                        j \in (IF pc'[d] = "drop" THEN held'[d] ELSE keys'[d])
      <4>1. CASE d = c
        BY <1>1, <2>5, <4>1 DEF Refs
      <4>2. CASE d = e
        BY <1>1, <2>4, <2>5, <4>2 DEF Refs, Waits, IsNext
      <4>3. CASE d \notin {c, e}
        BY <1>1, <2>5, <4>3 DEF Refs
      <4> QED  BY <4>1, <4>2, <4>3
    <3> QED  BY <3>1 DEF Refs
  <2>7. HeldOnce'
    <3>1. \A d \in Callers \ {c} : k \notin held[d]
      BY <1>1 DEF HeldOnce
    <3> QED  BY <2>5, <3>1 DEF HeldOnce
  <2>8. Granted'
    BY <1>1, <2>5 DEF Granted
  <2>9. /\ queue'[l] \in Seq(Callers)
        /\ Range(queue'[l]) \subseteq Range(queue[l]) \ {e}
        /\ \A x, y \in DOMAIN queue'[l] : queue'[l][x] = queue'[l][y] => x = y
        /\ \A m \in Keys \X Objects : m # l => queue'[m] = queue[m]
    <3>1. PICK q \in Seq(Callers) : q = queue[l]
      BY <1>2
    <3>2. \A x, y \in DOMAIN q : q[x] = q[y] => x = y
      BY <1>2, <3>1 DEF QueuedOnce
    <3>3. /\ Len(q) \in Nat /\ DOMAIN q = 1 .. Len(q) /\ e = q[1] /\ Len(q) > 0
          /\ Tail(q) \in Seq(Callers) /\ Len(Tail(q)) = Len(q) - 1
          /\ DOMAIN Tail(q) = 1 .. Len(q) - 1
          /\ \A i \in 1 .. Len(q) - 1 : Tail(q)[i] = q[i + 1]
      BY <1>5, <2>1, <3>1, EmptySeq, LenProperties, HeadTailProperties
    <3>4. PICK r : r = Tail(q)
      OBVIOUS
    <3>5. Range(r) \subseteq Range(q) \ {e}
      <4>1. \A i \in DOMAIN r : i + 1 \in DOMAIN q /\ r[i] = q[i + 1] /\ q[i + 1] # e
        <5> SUFFICES ASSUME NEW i \in DOMAIN r
                     PROVE  i + 1 \in DOMAIN q /\ r[i] = q[i + 1] /\ q[i + 1] # e
          OBVIOUS
        <5>1. i \in 1 .. Len(q) - 1
          BY <3>3, <3>4
        <5>2. i + 1 \in DOMAIN q /\ 1 \in DOMAIN q /\ i + 1 # 1
          BY <3>3, <5>1
        <5>3. r[i] = q[i + 1]
          BY <3>3, <3>4, <5>1
        <5> QED  BY <3>2, <3>3, <5>2, <5>3
      <4> QED  BY <4>1 DEF Range
    <3>6. \A x, y \in DOMAIN r : r[x] = r[y] => x = y
      BY <3>2, <3>3, <3>4
    <3> QED  BY <1>2, <2>2, <3>1, <3>3, <3>4, <3>5, <3>6
  <2>10. QueuedOnce'
    BY <2>9 DEF QueuedOnce
  <2>11. NoIdleLock'
    <3>1. ASSUME NEW j \in Keys, NEW n \in Objects, queue'[<<j, n>>] # <<>>
          PROVE  Locked(j, n)'
      <4>1. CASE j = k /\ n = arc[c][k]
        BY <1>1, <2>3, <2>4, <2>5, <4>1 DEF Locked, Waits
      <4>2. CASE ~(j = k /\ n = arc[c][k])
        <5>1. PICK d \in Callers : j \in held[d] /\ arc[d][j] = n
          BY <2>9, <3>1, <4>2 DEF NoIdleLock, Locked
        <5>2. d # c \/ j # k
          BY <4>2, <5>1
        <5> QED  BY <1>1, <2>5, <5>1, <5>2 DEF Locked
      <4> QED  BY <4>1, <4>2
    <3>2. ASSUME NEW j \in Keys, NEW n \in Objects, NEW d \in Range(queue'[<<j, n>>])
          PROVE  Waits(d, j, n)'
      <4>1. d \in Range(queue[<<j, n>>])
        BY <2>9, <3>2
      <4>2. d \in Callers /\ Waits(d, j, n) /\ d # c
        BY <1>1, <4>1, Waiters DEF NoIdleLock, Waits
      <4>3. d # e
        <5>1. ASSUME d = e PROVE j = k /\ n = arc[c][k]
          BY <2>4, <4>2, <5>1, KeysAssumption DEF Waits, IsNext
        <5> QED  BY <2>9, <3>2, <5>1
      <4> QED  BY <1>1, <2>5, <4>2, <4>3 DEF Waits, IsNext
    <3> QED  BY <3>1, <3>2 DEF NoIdleLock
  <2> QED  BY <1>3, <2>6, <2>7, <2>8, <2>10, <2>11
<1> QED  BY <1>4, <1>5

(* Steps that touch neither mutexes nor queues. *)
LEMMA QuietKeeps ==
  ASSUME TypeOK, Inv, UNCHANGED <<registry, arc, held, queue>>,
         \/ \E c \in Callers : Release(c) \/ Dropped(c)
         \/ UNCHANGED <<pc, keys>>
  PROVE  Inv'
<1> USE DEF TypeOK, Inv
<1>1. OneObjectPerKey' /\ HeldOnce' /\ QueuedOnce'
  BY DEF OneObjectPerKey, HeldOnce, QueuedOnce
<1>2. Refs' /\ Granted'
  <2>1. ASSUME NEW c \in Callers, Release(c) PROVE Refs' /\ Granted'
    BY <2>1 DEF Release, Refs, Granted
  <2>2. ASSUME NEW c \in Callers, Dropped(c) PROVE Refs' /\ Granted'
    BY <2>2 DEF Dropped, Refs, Granted
  <2>3. CASE UNCHANGED <<pc, keys>>
    BY <2>3 DEF Refs, Granted
  <2> QED  BY <2>1, <2>2, <2>3
<1>3. \A d \in Callers : pc[d] = "wait" => pc'[d] = "wait" /\ keys'[d] = keys[d]
  BY DEF Release, Dropped
<1>4. NoIdleLock'
  <2>1. ASSUME NEW j \in Keys, NEW n \in Objects, queue[<<j, n>>] # <<>> PROVE Locked(j, n)'
    BY <2>1 DEF NoIdleLock, Locked
  <2>2. ASSUME NEW j \in Keys, NEW n \in Objects, NEW d \in Range(queue[<<j, n>>])
        PROVE  Waits(d, j, n)'
    <3>1. d \in Callers /\ Waits(d, j, n)
      BY <2>2, Waiters DEF NoIdleLock
    <3> QED  BY <1>3, <3>1 DEF Waits, IsNext
  <2> QED  BY <2>1, <2>2 DEF NoIdleLock
<1> QED  BY <1>1, <1>2, <1>4

LEMMA InvStep ==
  ASSUME TypeOK, Inv, [Next]_vars
  PROVE  Inv'
<1>1. ASSUME NEW c \in Callers, NEW S \in SUBSET Keys, Acquire(c, S) \/ TryAcquire(c, S)
      PROVE  Inv'
  <2>1. PICK f \in Found(S) : LocksFor(c, S, f)
    BY <1>1 DEF Acquire, TryAcquire
  <2>2. /\ pc[c] = "idle" /\ UNCHANGED <<held, queue>>
        /\ \E p \in {"guard", "acquire", "try"} :
             pc' = [pc EXCEPT ![c] = p] /\ (p = "guard" => S = {})
    BY <1>1 DEF Acquire, TryAcquire
  <2> QED  BY <2>1, <2>2, LookupKeeps
<1>2. ASSUME NEW c \in Callers, NEW k \in Keys, Lock(c, k) PROVE Inv'
  BY <1>2, LockKeeps
<1>3. ASSUME NEW c \in Callers, NEW k \in Keys, Wait(c, k) PROVE Inv'
  BY <1>3, WaitKeeps
<1>4. ASSUME NEW c \in Callers, NEW k \in Keys, TryFails(c, k) PROVE Inv'
  BY <1>4, GiveUpKeeps DEF TryFails
<1>5. ASSUME NEW c \in Callers, Cancel(c) PROVE Inv'
  BY <1>5, GiveUpKeeps DEF Cancel
<1>6. ASSUME NEW c \in Callers, NEW k \in Keys, DropGuard(c, k) PROVE Inv'
  BY <1>6, DropKeeps
<1>7. ASSUME NEW c \in Callers, Release(c) \/ Dropped(c) PROVE Inv'
  BY <1>7, QuietKeeps DEF Release, Dropped
<1>8. ASSUME UNCHANGED vars PROVE Inv'
  BY <1>8, QuietKeeps DEF vars
<1> QED  BY <1>1, <1>2, <1>3, <1>4, <1>5, <1>6, <1>7, <1>8 DEF Next, Step

LEMMA Invariance == Spec => [](TypeOK /\ Inv)
<1>1. TypeOK /\ Inv /\ [Next]_vars => TypeOK' /\ Inv'
  BY TypeStep, InvStep DEF Inv
<1> QED  BY <1>1, TypeInit, InvInit, PTL DEF Spec

(* The state keeps its types. *)
THEOREM TypeCorrect == Spec => []TypeOK
  BY Invariance, PTL

(* No two operations hold a fence on the same key: what every operation on *)
(* a Session, a task or an agent relies on.                                *)
THEOREM Exclusion == Spec => []MutualExclusion
<1>1. Inv => MutualExclusion
  BY DEF Inv, HeldOnce, Granted, MutualExclusion
<1> QED  BY <1>1, Invariance, PTL

(* The registry never forgets, and never doubles, a mutex in use. *)
THEOREM OneObject == Spec => []OneObjectPerKey
<1>1. Inv => OneObjectPerKey
  BY DEF Inv
<1> QED  BY <1>1, Invariance, PTL

(* Nobody waits for a mutex that is free, and no queue holds a place for a *)
(* task that has gone.                                                     *)
THEOREM NoLostWaiter == Spec => []NoIdleLock
<1>1. Inv => NoIdleLock
  BY DEF Inv
<1> QED  BY <1>1, Invariance, PTL
=============================================================================
