--------------------- MODULE SessionTranscriptRow_proofs ---------------------
(***************************************************************************)
(* The row of a Session in the index, for every bound and every history:   *)
(* when all is saved it says what the owner believes, and the native       *)
(* binding in it, or the one an interrupted rewind resolves to, has seen   *)
(* exactly the rewinds the file has. From how far the numbers of file,     *)
(* owner and row go, the type of every part of the state follows.          *)
(***************************************************************************)
EXTENDS SessionTranscriptFile_proofs, FiniteSetTheorems

-----------------------------------------------------------------------------
(* What the helpers of the writer leave alone. *)

SameFate(x, y) ==
  SameCore(x, y) /\ y.state = x.state /\ y.recovery = x.recovery

LEMMA FateHelpers ==
  ASSUME NEW x, IsWriter(x), NEW a, NEW b
  PROVE  SameFate(x, Schedule(x, a, b)) /\ SameFate(x, WatchHealth(x))
<1>1. SameCore(x, Schedule(x, a, b)) /\ SameCore(x, WatchHealth(x))
  BY CoreHelpers
<1>2. /\ Schedule(x, a, b).state = x.state
      /\ Schedule(x, a, b).recovery = x.recovery
  BY DEF Schedule, IsWriter
<1>3. WatchHealth(x).state = x.state /\ WatchHealth(x).recovery = x.recovery
  BY DEF WatchHealth, IsWriter
<1> QED  BY <1>1, <1>2, <1>3 DEF SameFate

LEMMA FateTrans ==
  ASSUME NEW x, NEW y, NEW z, SameFate(x, y), SameFate(y, z)
  PROVE  SameFate(x, z)
BY CoreTrans DEF SameFate

LEMMA FateSelf ==
  ASSUME NEW x, IsWriter(x)
  PROVE  SameFate(x, x)
BY DEF SameFate, SameCore

LEMMA FateWatched ==
  ASSUME NEW x, IsWriter(x), NEW a, NEW b
  PROVE  SameFate(x, Schedule(WatchHealth(x), a, b))
<1>1. SameFate(x, WatchHealth(x)) /\ IsWriter(WatchHealth(x))
  BY FateHelpers DEF SameFate, SameCore
<1>2. SameFate(WatchHealth(x), Schedule(WatchHealth(x), a, b))
  BY <1>1, FateHelpers
<1> QED  BY <1>1, <1>2, FateTrans

LEMMA FateFinally ==
  ASSUME NEW x, IsWriter(x), Finally(x)
  PROVE  io' = Idle /\ SameFate(x, w')
BY FateWatched DEF Finally

(* The writer has one revision more. *)
Grew(x, y) ==
  /\ IsWriter(y)
  /\ y.phase = x.phase /\ y.gen = x.gen /\ y.durable = x.durable /\ y.live = x.live + 1
  /\ y.baseline = x.baseline /\ y.complete = x.complete /\ y.blocked = x.blocked
  /\ y.retryBatch = x.retryBatch /\ y.state = x.state /\ y.recovery = x.recovery

LEMMA GrewThenSame ==
  ASSUME NEW x, NEW y, NEW z, Grew(x, y), SameFate(y, z)
  PROVE  Grew(x, z) /\ z.proj = y.proj
BY DEF Grew, SameFate, SameCore

LEMMA RequestGrows ==
  ASSUME NEW x, IsWriter(x)
  PROVE  Grew(x, RequestCommit(x)) /\ RequestCommit(x).proj = x.proj
<1>1. PICK z : z = [x EXCEPT !.live = @ + 1,
                     !.queue = IF x.baseline THEN @ ELSE Barrier(@, x.live + 1)]
  OBVIOUS
<1>2. Grew(x, z) /\ z.proj = x.proj /\ IsWriter(z)
  BY <1>1 DEF IsWriter, Grew
<1>3. RequestCommit(x) = Schedule(WatchHealth(z), FALSE, Busy)
  BY <1>1 DEF RequestCommit
<1>4. SameFate(z, RequestCommit(x))
  BY <1>2, <1>3, FateWatched
<1> QED  BY <1>2, <1>4, GrewThenSame

LEMMA FailFate ==
  ASSUME NEW x, IsWriter(x), NEW s, x.live \in Nat, x.recovery \in Nat,
         x.recovery <= x.live
  PROVE  /\ SameCore(x, Fail(x, s)) /\ Fail(x, s).state = s
         /\ Fail(x, s).recovery = x.live
<1>1. SameCore(x, Fail(x, s))
  BY CoreHelpers
<1>2. Highest(x.recovery, x.live) = x.live
  BY DEF Highest
<1>3. Fail(x, s) = [x EXCEPT !.recovery = Highest(x.recovery, x.live), !.state = s]
  BY DEF Fail, IsWriter
<1> QED  BY <1>1, <1>2, <1>3 DEF IsWriter

-----------------------------------------------------------------------------
(* Quiet, action after action.  First the steps that leave what the owner  *)
(* believes and what it has to save alone.                                 *)

SameRow(s, t) ==
  t.cur = s.cur /\ t.pend = s.pend /\ t.mut = s.mut /\ t.pending = s.pending

Tamer(x, y) ==
  /\ y.phase = "cold" <=> x.phase = "cold"
  /\ y.live = x.live /\ y.durable = x.durable /\ y.proj = x.proj
  /\ y.baseline = x.baseline /\ y.retryBatch = x.retryBatch
  /\ x.recovery <= x.live => y.recovery <= y.live
  /\ (y.phase = "active" /\ ~y.blocked) =>
       /\ x.phase = "active" /\ ~x.blocked /\ y.complete = x.complete
       /\ y.state # "healthy" => x.state # "healthy" \/ x.durable < x.live

LEMMA FateIsTame ==
  ASSUME NEW x, NEW y, SameFate(x, y)
  PROVE  Tamer(x, y)
BY DEF SameFate, SameCore, Tamer

LEMMA RowFrame ==
  ASSUME NEW f, NEW f2, NEW x, NEW y, NEW s, NEW t, NEW j, NEW k, NEW m,
         RowInv(f, x, s, j, m), Tamer(x, y), SameRow(s, t),
         k.job = j.job, k.rev = j.rev, k = j \/ k.step # "indexed",
         (s.mut.open /\ s.pending # NoPending /\ (f2.gen = s.pending.gen \/ k.step = "rename"))
            => f.gen = s.pending.gen \/ j.step = "rename"
  PROVE  RowInv(f2, y, t, k, m)
<1>1. RowSeen(y, t, m, k)
  BY DEF RowInv, RowSeen, Tamer, SameRow
<1>2. MutationOk(f2, y, t, k)
  BY DEF RowInv, MutationOk, Tamer, SameRow
<1>3. ReplaceNeeded(y, k, t.pending)
  BY DEF RowInv, ReplaceNeeded, Tamer, SameRow
<1>4. SnapshotOk(x, s, j) => SnapshotOk(y, t, k)
  BY DEF SnapshotOk, Committing, Tamer, SameRow
<1>5. Calm(y, t, k)
  BY <1>4 DEF RowInv, Calm, Tamer, SameRow
<1> QED  BY <1>1, <1>2, <1>3, <1>5 DEF RowInv

LEMMA QuietFrame ==
  ASSUME Quiet, Tamer(w, w'), SameRow(st, st'), meta' = meta,
         io'.job = io.job, io'.rev = io.rev, io' = io \/ io'.step # "indexed",
         (st.mut.open /\ st.pending # NoPending
            /\ (file'.gen = st.pending.gen \/ io'.step = "rename"))
            => file.gen = st.pending.gen \/ io.step = "rename"
  PROVE  Quiet'
<1> DEFINE f2 == file'
           y == w'
           t == st'
           k == io'
<1>1. Tamer(w, y) /\ SameRow(st, t) /\ k.job = io.job /\ k.rev = io.rev
      /\ (k = io \/ k.step # "indexed")
  OBVIOUS
<1>2. (st.mut.open /\ st.pending # NoPending
         /\ (f2.gen = st.pending.gen \/ k.step = "rename"))
            => file.gen = st.pending.gen \/ io.step = "rename"
  OBVIOUS
<1>3. RowInv(file, w, st, io, meta)
  BY DEF Quiet
<1> HIDE DEF f2, y, t, k
<1>4. RowInv(f2, y, t, k, meta)
  BY <1>1, <1>2, <1>3, RowFrame
<1> QED  BY <1>4 DEF Quiet, f2, y, t, k

LEMMA TameSelf ==
  ASSUME NEW x
  PROVE  Tamer(x, x)
BY DEF Tamer

LEMMA QuietTimeouts ==
  ASSUME Sure, Quiet, HealthTimeout \/ Retire \/ RetireTimeout \/ Revoke
  PROVE  Quiet'
<1>1. IsWriter(w) /\ w.live \in Nat /\ w.durable \in Nat
  BY SureFacts
<1>2. w.recovery \in Nat /\ w.recovery <= w.live
  BY DEF Sure, Inv, Shape, Writer, Quiet, RowInv, ReplaceNeeded
<1>3. file' = file /\ meta' = meta /\ st' = st /\ io' = io
  BY DEF HealthTimeout, Retire, RetireTimeout, Revoke, disk
<1>4. Tamer(w, w')
  <2>1. CASE HealthTimeout
    <3>1. PICK z : z = [w EXCEPT !.watch = FALSE]
      OBVIOUS
    <3>2. IsWriter(z) /\ Tamer(w, z) /\ z.recovery = w.recovery /\ z.live = w.live
      BY <1>1, <3>1 DEF IsWriter, Tamer
    <3>3. w' = Fail(z, "degraded") /\ w.durable < w.live
      BY <1>1, <2>1, <3>1 DEF HealthTimeout
    <3>4. SameCore(z, w') /\ w'.recovery = z.live
      BY <1>1, <1>2, <3>2, <3>3, FailFate
    <3> QED  BY <1>1, <3>2, <3>3, <3>4 DEF SameCore, Tamer
  <2>2. CASE Retire
    BY <1>1, <2>2 DEF Retire, Tamer, IsWriter
  <2>3. CASE RetireTimeout
    <3>1. PICK z : z = [w EXCEPT !.retiring = FALSE]
      OBVIOUS
    <3>2. IsWriter(z) /\ SameFate(w, z)
      BY <1>1, <3>1 DEF IsWriter, SameFate, SameCore
    <3>3. w' = Schedule(z, FALSE, Busy)
      BY <2>3, <3>1 DEF RetireTimeout
    <3>4. SameFate(z, w')
      BY <3>2, <3>3, FateHelpers
    <3> QED  BY <3>2, <3>4, FateTrans, FateIsTame
  <2>4. CASE Revoke
    BY <1>1, <2>4 DEF Revoke, Active, Tamer, IsWriter
  <2> QED  BY <2>1, <2>2, <2>3, <2>4
<1> QED
  BY <1>3, <1>4, QuietFrame DEF SameRow

LEMMA QuietForeignEdit ==
  ASSUME Sure, Quiet, ForeignEdit
  PROVE  Quiet'
<1>1. meta # NoRow /\ meta' = [meta EXCEPT !.favorite = edits'] /\ w' = w /\ st' = st
      /\ io' = io /\ file' = file
  BY DEF ForeignEdit
<1>2. \A k \in Others : meta'[k] = meta[k]
  <2>1. meta \in RowT
    BY <1>1, NowFacts DEF Stored, RowOk
  <2> QED  BY <1>1, <2>1 DEF Others, Keys, RowT
<1>3. RowSeen(w, st, meta, io) => RowSeen(w, st, meta', io)
  BY <1>2 DEF RowSeen
<1> QED
  BY <1>1, <1>3 DEF Quiet, RowInv

-----------------------------------------------------------------------------
(* The steps of a write. *)

LEMMA BusyIsBehind ==
  ASSUME Sure, Quiet, io # Idle
  PROVE  w.durable < w.live
<1>1. io.job \in {"append", "replace"} /\ io.rev \in Nat /\ w.durable \in Nat /\ w.live \in Nat
  BY JobFlow, SureFacts
<1>2. io.rev <= w.live
  BY <1>1 DEF Sure, Inv, WriterInv, Flow, AppendAhead, ReplaceAhead
<1>3. w.durable < io.rev
  BY <1>1 DEF Sure, Inv, WriterInv, Flow, AppendAhead, Quiet, RowInv, ReplaceNeeded
<1> QED  BY <1>1, <1>2, <1>3

LEMMA QuietAppends ==
  ASSUME Sure, Quiet, io.job = "append",
         AppendCreate \/ AppendHeader \/ AppendPart \/ AppendRow
           \/ (AppendCheck /\ MayAppend(file, st.cursor, io.expected, io.batch, st.coldTail))
  PROVE  Quiet'
<1>1. io # Idle /\ StoreShape(st)
  BY SureFacts
<1>2. st.pending = NoPending
  BY <1>1, JobFlow
<1>3. w' = w /\ meta' = meta
  BY DEF AppendCreate, AppendHeader, AppendPart, AppendRow, AppendCheck
<1>4. SameRow(st, st')
  <2>1. st' = st \/ st' = [st EXCEPT !.created = TRUE] \/ \E c : st' = [st EXCEPT !.cursor = c]
    BY DEF AppendCreate, AppendHeader, AppendPart, AppendRow, AppendCheck
  <2> QED  BY <1>1, <2>1 DEF StoreShape, SameRow
<1>5. io' = io \/ Goto("header") \/ Goto("check") \/ Goto("sync") \/ Goto("write")
  BY DEF AppendCreate, AppendHeader, AppendPart, AppendRow, AppendCheck
<1>6. io'.job = io.job /\ io'.rev = io.rev /\ (io' = io \/ io'.step # "indexed")
  BY <1>5, GotoIs
<1>7. Tamer(w, w')
  BY <1>3, TameSelf
<1> QED  BY <1>2, <1>3, <1>4, <1>6, <1>7, QuietFrame

LEMMA RowEnds ==
  ASSUME NEW f, NEW x, NEW y, NEW s, NEW j, NEW m, RowInv(f, x, s, j, m), x.durable < x.live,
         y.phase = x.phase, y.live = x.live, y.durable = x.durable, y.proj = x.proj,
         y.complete = x.complete, y.recovery <= y.live,
         ~y.blocked => ~x.blocked /\ (x.baseline \/ j.job = "replace" => y.baseline),
         y.retryBatch = NoBatch \/ y.retryBatch = x.retryBatch \/ j.job = "append"
  PROVE  RowInv(f, y, s, Idle, m)
<1>1. Idle.job = "none" /\ Idle.step = "none"
  BY DEF Idle
<1>2. RowSeen(y, s, m, Idle)
  BY <1>1 DEF RowInv, RowSeen
<1>3. MutationOk(f, y, s, Idle)
  BY <1>1 DEF RowInv, MutationOk
<1>4. ReplaceNeeded(y, Idle, s.pending)
  BY <1>1 DEF RowInv, ReplaceNeeded
<1>5. SnapshotOk(y, s, Idle)
  BY <1>1 DEF SnapshotOk
<1>6. Calm(y, s, Idle)
  BY <1>1, <1>5 DEF RowInv, Calm
<1> QED  BY <1>2, <1>3, <1>4, <1>6 DEF RowInv

LEMMA EndRecovery ==
  ASSUME Sure, Quiet, NEW y, y = Failed(w) \/ y = Refused(w)
  PROVE  y.recovery <= w.live
<1>1. IsWriter(w) /\ w.recovery \in Nat /\ w.live \in Nat /\ w.recovery <= w.live
  BY SureFacts DEF Sure, Inv, Shape, Writer, Quiet, RowInv, ReplaceNeeded
<1>2. ASSUME NEW z, IsWriter(z), z.recovery = w.recovery, z.live = w.live, NEW s
      PROVE  Fail(z, s).recovery <= w.live
  BY <1>1, <1>2, FailFate
<1>3. CASE y = Failed(w)
  <2>1. PICK z : z = [w EXCEPT !.blocked = TRUE, !.retrying = TRUE]
    OBVIOUS
  <2>2. PICK v : v = [w EXCEPT !.retryBatch = IF io.job = "append" THEN io.batch ELSE @,
                          !.baseline = @ \/ io.job = "replace", !.retrying = TRUE]
    OBVIOUS
  <2>3. IsWriter(z) /\ z.recovery = w.recovery /\ z.live = w.live
    BY <1>1, <2>1 DEF IsWriter
  <2>4. IsWriter(v) /\ v.recovery = w.recovery /\ v.live = w.live
    BY <1>1, <2>2 DEF IsWriter
  <2>5. y = Fail(z, "degraded") \/ \E s : y = Fail(v, s)
    BY <1>3, <2>1, <2>2 DEF Failed
  <2> QED  BY <1>2, <2>3, <2>4, <2>5
<1>4. CASE y = Refused(w)
  <2>1. PICK z : z = [w EXCEPT !.attempted = TRUE, !.emptyPending = TRUE, !.baseline = TRUE,
                      !.retryBatch = NoBatch, !.queue = <<>>, !.retrying = FALSE]
    OBVIOUS
  <2>2. PICK v : v = [w EXCEPT !.blocked = TRUE, !.retrying = TRUE]
    OBVIOUS
  <2>3. IsWriter(z) /\ z.recovery = w.recovery /\ z.live = w.live
    BY <1>1, <2>1 DEF IsWriter
  <2>4. IsWriter(v) /\ v.recovery = w.recovery /\ v.live = w.live
    BY <1>1, <2>2 DEF IsWriter
  <2>5. y = Fail(z, "degraded") \/ y = Fail(v, "degraded")
    BY <1>4, <2>1, <2>2 DEF Refused
  <2> QED  BY <1>2, <2>3, <2>4, <2>5
<1> QED  BY <1>3, <1>4

(* A write that failed or was refused. *)
LEMMA QuietEnds ==
  ASSUME Sure, Quiet, io # Idle, NEW s, RowInv(file, w, s, io, meta),
         NEW y, y = Failed(w) \/ y = Refused(w), Finally(y),
         st' = s, file' = file, meta' = meta
  PROVE  Quiet'
<1>1. w.durable < w.live
  BY BusyIsBehind
<1>2. y.recovery <= w.live
  BY EndRecovery
<1>3. io.job \in {"append", "replace"}
  BY JobFlow
<1>4. /\ IsWriter(y) /\ y.phase = w.phase /\ y.durable = w.durable
      /\ y.live = w.live /\ y.proj = w.proj /\ y.complete = w.complete
      /\ y.retryBatch = NoBatch \/ y.retryBatch = w.retryBatch \/ io.job = "append"
      /\ ~y.blocked => (w.baseline \/ io.job = "replace" => y.baseline)
  <2>1. CASE y = Failed(w)
    BY <2>1, FailedIs
  <2>2. CASE y = Refused(w)
    BY <2>2, RefusedIs
  <2> QED  BY <2>1, <2>2
<1>5. ~y.blocked => ~w.blocked
  BY SureFacts DEF Failed, Refused, Fail, IsWriter
<1>6. RowInv(file, y, s, Idle, meta)
  BY <1>1, <1>2, <1>4, <1>5, RowEnds
<1>7. io' = Idle /\ SameFate(y, w')
  BY <1>4, FateFinally
<1> DEFINE v == w'
<1>8. Tamer(y, v)
  BY <1>7, FateIsTame
<1> HIDE DEF v
<1>9. SameRow(s, s) /\ Idle.step # "rename"
  BY DEF SameRow, Idle
<1>10. RowInv(file, v, s, Idle, meta)
  BY <1>6, <1>8, <1>9, RowFrame
<1> QED  BY <1>7, <1>10 DEF Quiet, v

LEMMA QuietIoFail ==
  ASSUME Sure, Quiet, IoFail
  PROVE  Quiet'
<1>1. /\ io # Idle /\ Finally(Failed(w)) /\ st' = st /\ file' = file /\ meta' = meta
  BY DEF IoFail, Busy, disk
<1>2. PICK y : y = Failed(w)
  OBVIOUS
<1>3. Finally(y)
  BY <1>1, <1>2
<1> QED  BY <1>1, <1>2, <1>3, QuietEnds DEF Quiet

LEMMA QuietAppendCheck ==
  ASSUME Sure, Quiet, AppendCheck
  PROVE  Quiet'
<1>1. io.job = "append" /\ meta' = meta
  BY DEF AppendCheck, At
<1>2. CASE MayAppend(file, st.cursor, io.expected, io.batch, st.coldTail)
  BY <1>1, <1>2, QuietAppends
<1>3. CASE ~MayAppend(file, st.cursor, io.expected, io.batch, st.coldTail)
  <2>1. Finally(Refused(w)) /\ file' = file /\ st' = st
    BY <1>3 DEF AppendCheck
  <2>2. PICK y : y = Refused(w)
    OBVIOUS
  <2>3. Finally(y) /\ io # Idle
    BY <1>1, <2>1, <2>2, SureFacts
  <2> QED  BY <1>1, <2>1, <2>2, <2>3, QuietEnds DEF Quiet
<1> QED  BY <1>2, <1>3

-----------------------------------------------------------------------------
(* Replacing the file. *)

LEMMA RowCandidate ==
  ASSUME Sure, Quiet, io.job = "replace", io.step = "candidate", NEW c, c = Candidate,
         NEW t, t = [st EXCEPT !.pending = c]
  PROVE  RowInv(file, w, t, io, meta)
<1>1. StoreShape(st) /\ c # NoPending /\ gens \in Nat /\ file.gen \in 0 .. gens
  BY SureFacts, NowFacts, CandidateIs DEF Stored, FileOk
<1>2. /\ t.cur = st.cur /\ t.pend = st.pend /\ t.mut = st.mut /\ t.pending = c
  BY <1>1 DEF StoreShape
<1>3. w.durable < c.rev
  BY DEF Candidate, Quiet, RowInv, ReplaceNeeded
<1>4. st.pending # NoPending => c = st.pending
  BY DEF Candidate
<1>5. st.pending = NoPending => c.gen = gens + 1
  BY DEF Candidate
<1>6. MutationOk(file, w, t, io)
  BY <1>1, <1>2, <1>4, <1>5 DEF Quiet, RowInv, MutationOk
<1>7. RowSeen(w, t, meta, io) /\ ReplaceNeeded(w, io, t.pending)
  BY <1>2, <1>3 DEF Quiet, RowInv, RowSeen, ReplaceNeeded
<1>8. SnapshotOk(w, t, io)
  BY DEF SnapshotOk
<1>9. Calm(w, t, io)
  BY <1>2, <1>8 DEF Quiet, RowInv, Calm
<1> QED  BY <1>6, <1>7, <1>9 DEF RowInv

LEMMA QuietReplaceCheck ==
  ASSUME Sure, Quiet, ReplaceCheck
  PROVE  Quiet'
<1>1. io.job = "replace" /\ io.step = "candidate" /\ meta' = meta
  BY DEF ReplaceCheck, At
<1>2. PICK c : c = Candidate
  OBVIOUS
<1>3. PICK t : t = [st EXCEPT !.pending = c]
  OBVIOUS
<1>4. st' = t
  BY <1>2, <1>3 DEF ReplaceCheck
<1>5. RowInv(file, w, t, io, meta)
  BY <1>1, <1>2, <1>3, RowCandidate
<1>6. io # Idle /\ StoreShape(t) /\ t.pending = c /\ t.mut = st.mut
  BY <1>1, <1>2, <1>3, CandidateIs, CandidateStored
<1>7. ASSUME NEW f2, file' = f2, w' = w, f2.gen = file.gen, NEW n, Goto(n),
             n # "indexed", n = "rename" => ~st.mut.open
      PROVE  Quiet'
  <2> DEFINE k == io'
  <2>1. k.job = io.job /\ k.rev = io.rev /\ k.step = n
    BY <1>7, GotoIs
  <2> HIDE DEF k
  <2>2. RowInv(f2, w, t, k, meta)
    BY <1>5, <1>6, <1>7, <2>1, TameSelf, RowFrame DEF SameRow
  <2> QED  BY <1>1, <1>4, <1>7, <2>2 DEF Quiet, k
<1>8. CASE Published(file, c)
  <2>1. Goto("sync") /\ file' = file /\ w' = w
    BY <1>2, <1>8 DEF ReplaceCheck
  <2> QED  BY <1>7, <2>1
<1>9. CASE ~Published(file, c) /\ MayReplace(file, c, st.coldTail, st.allowCreate)
  <2>1. /\ file' = [file EXCEPT !.tail = NoBatch] /\ w' = w
        /\ Goto(IF st.mut.open THEN "intent" ELSE "rename")
    BY <1>2, <1>9 DEF ReplaceCheck
  <2>2. PICK f2 : f2 = [file EXCEPT !.tail = NoBatch]
    OBVIOUS
  <2>3. f2.gen = file.gen
    BY <2>2, NowFacts DEF Stored, FileOk
  <2>4. CASE st.mut.open
    BY <1>7, <2>1, <2>2, <2>3, <2>4
  <2>5. CASE ~st.mut.open
    BY <1>7, <2>1, <2>2, <2>3, <2>5
  <2> QED  BY <2>4, <2>5
<1>10. CASE ~Published(file, c) /\ ~MayReplace(file, c, st.coldTail, st.allowCreate)
  <2>1. Finally(Refused(w)) /\ file' = file
    BY <1>2, <1>10 DEF ReplaceCheck
  <2>2. PICK y : y = Refused(w)
    OBVIOUS
  <2>3. Finally(y)
    BY <2>1, <2>2
  <2> QED  BY <1>1, <1>4, <1>5, <1>6, <2>1, <2>2, <2>3, QuietEnds
<1> QED  BY <1>8, <1>9, <1>10

LEMMA QuietReplaceIntent ==
  ASSUME Certain, Quiet, ReplaceIntent
  PROVE  Quiet'
<1>1. /\ io.job = "replace" /\ io.step = "intent" /\ file' = file /\ w' = w
      /\ Goto("rename") /\ Sure
  BY DEF ReplaceIntent, At, Certain
<1>2. st.mut.open /\ st.mut \in MutationT /\ StoreShape(st)
  BY <1>1, SureFacts, NowFacts DEF Certain, Founded, BirthOk
<1>3. PICK a : a = [st.mut EXCEPT !.target = Point(st.pending.gen, st.pending.rev)]
  OBVIOUS
<1>4. st' = [st EXCEPT !.mut = a]
  <2>1. st' = [st EXCEPT !.mut.target = Point(st.pending.gen, st.pending.rev)]
    BY DEF ReplaceIntent
  <2> QED  BY <1>2, <1>3, <2>1 DEF StoreShape
<1>5. a.open /\ a.target = Point(st.pending.gen, st.pending.rev)
  BY <1>2, <1>3 DEF MutationT
<1>6. PICK t : t = st'
  OBVIOUS
<1>7. /\ t.cur = st.cur /\ t.pend = st.pend /\ t.mut = a /\ t.pending = st.pending
  BY <1>2, <1>4, <1>6 DEF StoreShape
<1>8. PICK k : k = io'
  OBVIOUS
<1>9. k.job = io.job /\ k.rev = io.rev /\ k.step = "rename"
  BY <1>1, <1>8, GotoIs
<1>10. st.pend = Keys /\ w.retryBatch = NoBatch
  BY <1>2 DEF Quiet, RowInv, MutationOk
<1>11. ASSUME NEW m PROVE RowInv(file, w, t, k, m)
  <2>1. RowSeen(w, t, m, k)
    BY <1>7, <1>9, <1>10 DEF Quiet, RowInv, RowSeen, Others
  <2>2. MutationOk(file, w, t, k)
    BY <1>1, <1>5, <1>7, <1>9, <1>10 DEF MutationOk
  <2>3. ReplaceNeeded(w, k, t.pending)
    BY <1>7, <1>9 DEF Quiet, RowInv, ReplaceNeeded
  <2>4. SnapshotOk(w, t, k)
    BY <1>9 DEF SnapshotOk
  <2>5. Calm(w, t, k)
    BY <1>1, <1>2, <1>5, <1>7, <1>9, <2>4 DEF Quiet, RowInv, Calm
  <2> QED  BY <2>1, <2>2, <2>3, <2>5 DEF RowInv
<1> QED  BY <1>1, <1>6, <1>8, <1>11 DEF Quiet

LEMMA QuietReplaceRename ==
  ASSUME Sure, Quiet, ReplaceRename
  PROVE  Quiet'
<1>1. io.step = "rename" /\ w' = w /\ st' = st /\ meta' = meta /\ Goto("sync")
  BY DEF ReplaceRename, At
<1>2. io'.job = io.job /\ io'.rev = io.rev /\ io'.step = "sync"
  BY <1>1, GotoIs
<1>3. Tamer(w, w') /\ SameRow(st, st')
  BY <1>1, TameSelf DEF SameRow
<1> QED  BY <1>1, <1>2, <1>3, QuietFrame

-----------------------------------------------------------------------------
(* A write starts. *)

LEMMA RowStarts ==
  ASSUME NEW f, NEW x, NEW y, NEW s, NEW j, NEW k, NEW m, RowInv(f, x, s, j, m),
         j.job = "none", x.phase = "active", ~x.blocked,
         y.phase = x.phase, y.live = x.live, y.durable = x.durable, y.proj = x.proj,
         y.complete = x.complete, y.blocked = x.blocked, y.state = x.state,
         y.recovery = x.recovery, y.retryBatch = x.retryBatch,
         k.step \notin {"indexed", "rename"},
         \/ /\ k.job = "append" /\ y.baseline = x.baseline
            /\ x.retryBatch # NoBatch \/ ~x.baseline
         \/ k.job = "replace" /\ x.baseline /\ ~y.baseline /\ k.rev = x.live
  PROVE  RowInv(f, y, s, k, m)
<1>1. RowSeen(y, s, m, k)
  BY DEF RowInv, RowSeen
<1>2. k.job = "append" => ~s.mut.open
  BY DEF RowInv, MutationOk, Calm
<1>3. MutationOk(f, y, s, k)
  BY <1>2 DEF RowInv, MutationOk
<1>4. ReplaceNeeded(y, k, s.pending)
  BY DEF RowInv, ReplaceNeeded
<1>5. SnapshotOk(y, s, k)
  BY DEF SnapshotOk
<1>6. Calm(y, s, k)
  BY <1>2, <1>5 DEF RowInv, Calm
<1> QED  BY <1>1, <1>3, <1>4, <1>6 DEF RowInv

LEMMA QuietStart ==
  ASSUME Sure, Quiet, TimerFire \/ Flush
  PROVE  Quiet'
<1>1. StartWrite([w EXCEPT !.timer = "off"]) /\ st' = st /\ file' = file /\ meta' = meta
  BY DEF TimerFire, Flush, disk
<1>2. PICK x : x = [w EXCEPT !.timer = "off"]
  OBVIOUS
<1>3. SameFate(w, x) /\ IsWriter(x)
  BY <1>2, SureFacts DEF IsWriter, SameCore, SameFate
<1>4. CASE w' = x /\ io' = io
  BY <1>1, <1>3, <1>4, FateIsTame, QuietFrame DEF SameRow
<1>5. CASE /\ io = Idle /\ x.phase = "active" /\ ~x.blocked
           /\ \/ x.retryBatch # NoBatch /\ w' = x /\ io' = AppendJob(x, x.retryBatch)
              \/ /\ x.retryBatch = NoBatch /\ x.baseline
                 /\ w' = [x EXCEPT !.queue = <<>>, !.baseline = FALSE, !.emptyPending = FALSE]
                 /\ io' = ReplaceJob(x)
              \/ /\ x.retryBatch = NoBatch /\ ~x.baseline
                 /\ \E n \in 1 .. Len(x.queue) :
                      /\ w' = [x EXCEPT !.queue = SubSeq(@, n + 1, Len(@))]
                      /\ io' = AppendJob(x, Batched(x.queue, n))
  <2>1. PICK y : y = w'
    OBVIOUS
  <2>2. PICK k : k = io'
    OBVIOUS
  <2>3. io.job = "none"
    BY <1>5, IdleIs
  <2>4. RowInv(file, x, st, io, meta)
    BY <1>3, FateIsTame, RowFrame DEF Quiet, SameRow
  <2>5. /\ y.phase = x.phase /\ y.live = x.live /\ y.durable = x.durable /\ y.proj = x.proj
        /\ y.complete = x.complete /\ y.blocked = x.blocked /\ y.state = x.state
        /\ y.recovery = x.recovery /\ y.retryBatch = x.retryBatch
        /\ ~(x.retryBatch = NoBatch /\ x.baseline) => y.baseline = x.baseline
        /\ x.retryBatch = NoBatch /\ x.baseline => ~y.baseline
    BY <1>3, <1>5, <2>1 DEF IsWriter
  <2>6. \A b : AppendJob(x, b).job = "append" /\ AppendJob(x, b).step = "open"
    BY DEF AppendJob, Idle
  <2>7. /\ ReplaceJob(x).job = "replace" /\ ReplaceJob(x).step = "candidate"
        /\ ReplaceJob(x).rev = x.live
    BY DEF ReplaceJob, Idle
  <2>8. /\ k.step \notin {"indexed", "rename"}
        /\ \/ k.job = "append" /\ (x.retryBatch # NoBatch \/ ~x.baseline)
           \/ k.job = "replace" /\ x.retryBatch = NoBatch /\ x.baseline /\ k.rev = x.live
    BY <1>5, <2>2, <2>6, <2>7
  <2>9. RowInv(file, y, st, k, meta)
    BY <1>5, <2>3, <2>4, <2>5, <2>8, RowStarts
  <2> QED  BY <1>1, <2>1, <2>2, <2>9 DEF Quiet
<1> QED
  BY <1>1, <1>2, <1>3, <1>4, <1>5 DEF StartWrite, Busy, Active, SameFate, SameCore

-----------------------------------------------------------------------------
(* The conversation and the metadata go on. *)

(* More is to be published, and with it a revision of its own. *)
LEMMA RowGrows ==
  ASSUME NEW f, NEW x, NEW y, NEW s, NEW t, NEW j, NEW m, RowInv(f, x, s, j, m),
         x.live \in Nat, x.durable \in Nat, x.durable <= x.live, x.recovery \in Nat,
         y.live \in {x.live, x.live + 1}, y.recovery <= y.live,
         y.phase = x.phase, y.durable = x.durable, y.baseline = x.baseline,
         y.retryBatch = x.retryBatch, x.phase = "active",
         j.step = "indexed" => /\ Committing(j, s.pending).rev \in Nat
                               /\ Committing(j, s.pending).rev <= x.live,
         ~y.blocked => /\ ~x.blocked /\ y.live = x.live + 1 /\ y.complete = x.complete
                       /\ t.cur.stats = Len(y.proj),
         t.mut = s.mut, t.pending = s.pending, s.pend \subseteq t.pend, t.pend \subseteq Keys,
         t.cur.intent = s.cur.intent,
         \A k \in Others : k \in t.pend \/ t.cur[k] = s.cur[k]
  PROVE  RowInv(f, y, t, j, m)
<1>1. RowSeen(y, t, m, j)
  BY DEF RowInv, RowSeen
<1>2. MutationOk(f, y, t, j)
  BY DEF RowInv, MutationOk
<1>3. ReplaceNeeded(y, j, t.pending)
  BY DEF RowInv, ReplaceNeeded
<1>4. ~y.blocked => SnapshotOk(y, t, j)
  BY DEF SnapshotOk, Committing
<1>5. Calm(y, t, j)
  BY <1>4 DEF RowInv, Calm
<1> QED  BY <1>1, <1>2, <1>3, <1>5 DEF RowInv

LEMMA CommitInReach ==
  ASSUME Sure, io.step \in {"sync", "indexed"}
  PROVE  /\ Committing(io, st.pending).rev \in Nat
         /\ Committing(io, st.pending).rev <= w.live
<1>1. Committing(io, st.pending) = Committed
  BY DEF Committing, Committed
<1>2. Committed.rev = Revision(file) /\ io # Idle /\ io.job \in {"append", "replace"}
  BY SyncFacts
<1>3. io.rev \in Nat /\ w.live \in Nat /\ io.rev <= w.live
  BY <1>2, SureFacts DEF Sure, Inv, WriterInv, Flow, AppendAhead, ReplaceAhead
<1>4. CASE io.job = "append"
  BY <1>2, <1>3, <1>4, JobFlow DEF Committing, Point
<1>5. CASE io.job = "replace"
  BY <1>2, <1>3, <1>5, JobFlow, SyncFacts, SureFacts DEF Committing, Point
<1> QED  BY <1>2, <1>4, <1>5

LEMMA QuietGrows ==
  ASSUME Sure, Quiet, w.phase = "active", w'.phase = w.phase,
         w'.live \in {w.live, w.live + 1}, w'.recovery <= w'.live,
         w'.durable = w.durable, w'.baseline = w.baseline, w'.retryBatch = w.retryBatch,
         ~w'.blocked => /\ ~w.blocked /\ w'.live = w.live + 1 /\ w'.complete = w.complete
                        /\ st'.cur.stats = Len(w'.proj),
         NEW c, NEW key \in {"stats", "title"},
         st' = [st EXCEPT !.cur = c, !.pend = st.pend \cup {key}],
         \A k \in Keys \ {key} : c[k] = st.cur[k],
         file' = file, meta' = meta, io' = io
  PROVE  Quiet'
<1>1. PICK y : y = w'
  OBVIOUS
<1>2. PICK t : t = st'
  OBVIOUS
<1>3. StoreShape(st) /\ w.live \in Nat /\ w.durable \in Nat /\ w.durable <= w.live
      /\ w.recovery \in Nat
  BY SureFacts DEF Sure, Inv, Shape, Writer
<1>4. /\ t.mut = st.mut /\ t.pending = st.pending /\ t.pend = st.pend \cup {key}
      /\ t.cur = c
  BY <1>2, <1>3 DEF StoreShape
<1>5. /\ st.pend \subseteq t.pend /\ t.pend \subseteq Keys /\ t.cur.intent = st.cur.intent
      /\ \A k \in Others : k \in t.pend \/ t.cur[k] = st.cur[k]
  BY <1>4 DEF Quiet, RowInv, RowSeen, Keys, Others
<1>6. /\ y.phase = w.phase /\ y.live \in {w.live, w.live + 1} /\ y.recovery <= y.live
      /\ y.durable = w.durable /\ y.baseline = w.baseline /\ y.retryBatch = w.retryBatch
      /\ ~y.blocked => /\ ~w.blocked /\ y.live = w.live + 1 /\ y.complete = w.complete
                       /\ t.cur.stats = Len(y.proj)
  BY <1>1, <1>2
<1>7. RowInv(file, w, st, io, meta)
  BY DEF Quiet
<1>8. RowInv(file, y, t, io, meta)
  BY <1>3, <1>4, <1>5, <1>6, <1>7, CommitInReach, RowGrows
<1> QED  BY <1>1, <1>2, <1>8 DEF Quiet

LEMMA DerivedParts ==
  ASSUME Sure, NEW m
  PROVE  /\ Derived(st, m) = [st EXCEPT !.cur = [st.cur EXCEPT !.stats = Len(m)],
                                        !.pend = st.pend \cup {"stats"}]
         /\ \A k \in Keys \ {"stats"} : [st.cur EXCEPT !.stats = Len(m)][k] = st.cur[k]
         /\ Derived(st, m).cur.stats = Len(m)
<1>1. StoreShape(st) /\ st.cur \in RowT
  BY SureFacts, NowFacts
<1>2. Derived(st, m) = [st EXCEPT !.cur = [st.cur EXCEPT !.stats = Len(m)],
                                  !.pend = st.pend \cup {"stats"}]
  BY <1>1 DEF Derived, StoreShape
<1>3. \A k \in Keys \ {"stats"} : [st.cur EXCEPT !.stats = Len(m)][k] = st.cur[k]
  BY <1>1 DEF RowT, Keys
<1>4. [st.cur EXCEPT !.stats = Len(m)].stats = Len(m)
  BY <1>1 DEF RowT
<1>5. Derived(st, m).cur = [st.cur EXCEPT !.stats = Len(m)]
  BY <1>1, <1>2 DEF StoreShape
<1> QED  BY <1>2, <1>3, <1>4, <1>5

LEMMA RecoveryIs ==
  ASSUME Sure, Quiet
  PROVE  w.recovery \in Nat /\ w.recovery <= w.live /\ w.live \in Nat
BY SureFacts DEF Sure, Inv, Shape, Writer, Quiet, RowInv, ReplaceNeeded

LEMMA QuietObserve ==
  ASSUME Sure, Quiet, Observe
  PROVE  Quiet'
<1>1. w.phase = "active" /\ file' = file /\ meta' = meta /\ io' = io
  BY DEF Observe, Active
<1>2. PICK q \in Queued(w.queue, w.live + 1, ops'), boundary \in BOOLEAN :
        w' = Schedule(WatchHealth([w EXCEPT !.live = @ + 1, !.proj = Append(@, ops'),
                 !.queue = IF w.baseline THEN @ ELSE q]), boundary, Busy)
  BY DEF Observe
<1>3. PICK z : z = [w EXCEPT !.live = @ + 1, !.proj = Append(@, ops'),
                             !.queue = IF w.baseline THEN @ ELSE q]
  OBVIOUS
<1>4. Grew(w, z)
  BY <1>3, SureFacts DEF IsWriter, Grew
<1>5. SameFate(z, w')
  BY <1>2, <1>3, <1>4, FateWatched DEF Grew
<1>6. Grew(w, w')
  BY <1>4, <1>5, GrewThenSame
<1>7. PICK m : m = w'.proj
  OBVIOUS
<1>8. st' = Derived(st, m)
  BY <1>7 DEF Observe
<1>9. st'.cur.stats = Len(w'.proj)
  BY <1>7, <1>8, DerivedParts
<1>10. PICK c : c = [st.cur EXCEPT !.stats = Len(m)]
  OBVIOUS
<1>11. /\ st' = [st EXCEPT !.cur = c, !.pend = st.pend \cup {"stats"}]
       /\ \A k \in Keys \ {"stats"} : c[k] = st.cur[k]
  BY <1>8, <1>10, DerivedParts
<1>12. /\ w'.phase = w.phase /\ w'.live \in {w.live, w.live + 1} /\ w'.recovery <= w'.live
       /\ w'.durable = w.durable /\ w'.baseline = w.baseline
       /\ w'.retryBatch = w.retryBatch
       /\ ~w'.blocked => ~w.blocked /\ w'.live = w.live + 1 /\ w'.complete = w.complete
  BY <1>6, RecoveryIs DEF Grew
<1> QED
  BY <1>1, <1>9, <1>11, <1>12, QuietGrows

LEMMA QuietObserveFault ==
  ASSUME Sure, Quiet, ObserveFault
  PROVE  Quiet'
<1>1. /\ w.phase = "active" /\ file' = file /\ meta' = meta /\ io' = io /\ IsWriter(w)
      /\ w.recovery \in Nat /\ w.recovery <= w.live /\ w.live \in Nat
  BY SureFacts, RecoveryIs DEF ObserveFault, Active
<1>2. CASE /\ w' = Fail([w EXCEPT !.complete = FALSE, !.blocked = TRUE], "degraded")
           /\ UNCHANGED <<st, history, ops>>
  <2>1. PICK z : z = [w EXCEPT !.complete = FALSE, !.blocked = TRUE]
    OBVIOUS
  <2>2. /\ IsWriter(z) /\ z.phase = w.phase /\ z.durable = w.durable /\ z.blocked
        /\ z.retryBatch = w.retryBatch /\ z.baseline = w.baseline
        /\ z.live = w.live /\ z.proj = w.proj /\ z.recovery = w.recovery
    BY <2>1, <1>1 DEF IsWriter
  <2>3. SameCore(z, w') /\ w'.recovery = z.live
    BY <1>1, <1>2, <2>1, <2>2, FailFate
  <2>4. Tamer(w, w')
    BY <1>1, <2>2, <2>3 DEF SameCore, Tamer
  <2> QED  BY <1>1, <1>2, <2>4, QuietFrame DEF SameRow
<1>3. CASE /\ w' = Fail([w EXCEPT !.complete = FALSE, !.blocked = TRUE,
                            !.live = @ + 1, !.proj = Append(@, ops')], "degraded")
           /\ st' = Derived(st, w'.proj)
  <2>1. PICK z : z = [w EXCEPT !.complete = FALSE, !.blocked = TRUE, !.live = @ + 1,
                               !.proj = Append(@, ops')]
    OBVIOUS
  <2>2. /\ IsWriter(z) /\ z.phase = w.phase /\ z.durable = w.durable /\ z.blocked
        /\ z.retryBatch = w.retryBatch /\ z.baseline = w.baseline
        /\ z.live = w.live + 1 /\ z.recovery = w.recovery
    BY <2>1, <1>1 DEF IsWriter
  <2>3. z.live \in Nat /\ z.recovery \in Nat /\ z.recovery <= z.live
    BY <1>1, <2>2
  <2>4. SameCore(z, w') /\ w'.recovery = z.live
    BY <1>3, <2>1, <2>2, <2>3, FailFate
  <2>5. PICK m : m = w'.proj
    OBVIOUS
  <2>6. PICK c : c = [st.cur EXCEPT !.stats = Len(m)]
    OBVIOUS
  <2>6a. st' = Derived(st, m)
    BY <1>3, <2>5
  <2>7. /\ st' = [st EXCEPT !.cur = c, !.pend = st.pend \cup {"stats"}]
        /\ \A k \in Keys \ {"stats"} : c[k] = st.cur[k]
    BY <2>6, <2>6a, DerivedParts
  <2>8. /\ w'.phase = w.phase /\ w'.live \in {w.live, w.live + 1} /\ w'.recovery <= w'.live
        /\ w'.durable = w.durable /\ w'.baseline = w.baseline
        /\ w'.retryBatch = w.retryBatch /\ w'.blocked
    BY <1>1, <2>2, <2>3, <2>4 DEF SameCore
  <2> QED  BY <1>1, <2>7, <2>8, QuietGrows
<1> QED
  BY <1>2, <1>3 DEF ObserveFault

LEMMA TitleParts ==
  ASSUME Sure, PatchMetadata, NEW c, c = [st.cur EXCEPT !.title = @ + 1]
  PROVE  /\ st' = [st EXCEPT !.cur = c, !.pend = st.pend \cup {"title"}]
         /\ \A k \in Keys \ {"title"} : c[k] = st.cur[k]
         /\ c.stats = st.cur.stats
<1>1. StoreShape(st) /\ st.cur \in RowT
  BY SureFacts, NowFacts
<1>2. st' = [st EXCEPT !.cur = [st.cur EXCEPT !.title = @ + 1], !.pend = st.pend \cup {"title"}]
  BY <1>1 DEF PatchMetadata, StoreShape
<1>3. \A k \in Keys \ {"title"} : c[k] = st.cur[k]
  BY <1>1 DEF RowT, Keys
<1>4. c.stats = st.cur.stats
  BY <1>1 DEF RowT
<1> QED  BY <1>2, <1>3, <1>4

LEMMA QuietPatch ==
  ASSUME Sure, Quiet, PatchMetadata
  PROVE  Quiet'
<1>1. /\ w.phase = "active" /\ file' = file /\ meta' = meta /\ io' = io /\ IsWriter(w)
      /\ w.recovery \in Nat /\ w.recovery <= w.live /\ w.live \in Nat
  BY SureFacts, RecoveryIs DEF PatchMetadata, Active
<1>2. PICK c : c = [st.cur EXCEPT !.title = @ + 1]
  OBVIOUS
<1>3. /\ st' = [st EXCEPT !.cur = c, !.pend = st.pend \cup {"title"}]
      /\ \A k \in Keys \ {"title"} : c[k] = st.cur[k]
      /\ c.stats = st.cur.stats
  BY <1>2, TitleParts
<1>4. CASE w.blocked
  <2>1. w' = w
    BY <1>4 DEF PatchMetadata
  <2> QED  BY <1>1, <1>3, <1>4, <2>1, QuietGrows
<1>5. CASE ~w.blocked
  <2>1. w' = RequestCommit(w)
    BY <1>5 DEF PatchMetadata
  <2>2. Grew(w, w') /\ w'.proj = w.proj
    BY <1>1, <2>1, RequestGrows
  <2>3. w.phase = "active" /\ ~w.blocked => w.complete /\ st.cur.stats = Len(w.proj)
    BY DEF Quiet, RowInv, Calm
  <2>4. st'.cur = c
    BY <1>3, SureFacts DEF StoreShape
  <2>5. st'.cur.stats = Len(w'.proj)
    BY <1>1, <1>3, <1>5, <2>2, <2>3, <2>4
  <2>6. /\ w'.phase = w.phase /\ w'.live \in {w.live, w.live + 1} /\ w'.recovery <= w'.live
        /\ w'.durable = w.durable /\ w'.baseline = w.baseline
        /\ w'.retryBatch = w.retryBatch
        /\ ~w'.blocked => ~w.blocked /\ w'.live = w.live + 1 /\ w'.complete = w.complete
    BY <1>1, <2>2 DEF Grew
  <2>7. w.phase = "active" /\ file' = file /\ meta' = meta /\ io' = io
    BY <1>1
  <2>8. /\ st' = [st EXCEPT !.cur = c, !.pend = st.pend \cup {"title"}]
        /\ \A k \in Keys \ {"title"} : c[k] = st.cur[k]
    BY <1>3
  <2>9. ~w'.blocked => /\ ~w.blocked /\ w'.live = w.live + 1 /\ w'.complete = w.complete
                       /\ st'.cur.stats = Len(w'.proj)
    BY <2>5, <2>6
  <2> QED  BY <2>6, <2>7, <2>8, <2>9, QuietGrows
<1> QED  BY <1>4, <1>5

(* What an owner has that may rewind: nothing waits, nothing is left over. *)
LEMMA RewindFacts ==
  ASSUME Sure, Quiet, NEW n \in 0 .. MaxRevision, Rewind(n)
  PROVE  /\ w.phase = "active" /\ ~w.blocked /\ w.complete /\ io = Idle
         /\ w.durable = w.live /\ w.durable > 0 /\ ~st.mut.open
         /\ n \in Nat /\ w.retryBatch = NoBatch /\ ~w.baseline /\ st.pending = NoPending
         /\ file' = file /\ meta' = meta /\ io' = io /\ excuses' = excuses /\ meta # NoRow
<1>1. /\ w.phase = "active" /\ ~w.blocked /\ w.complete /\ io = Idle /\ w.durable = w.live
      /\ n < Len(w.proj) /\ ~st.mut.open
      /\ file' = file /\ meta' = meta /\ io' = io /\ excuses' = excuses
  BY DEF Rewind, Active, Busy
<1>2. /\ IsWriter(w) /\ w.proj = Said(history, w.live) /\ w.proj \in Seq(Nat)
      /\ w.live \in Nat /\ w.durable \in Nat
  BY <1>1, SureFacts, NowFacts
<1>3. n \in Nat /\ Len(w.proj) \in Nat
  BY <1>2, LenProperties, BoundsAssumption
<1>4. w.live # 0
  <2> SUFFICES ASSUME w.live = 0 PROVE FALSE
    OBVIOUS
  <2>1. Len(w.proj) = 0
    BY <1>2, EmptySeq DEF Said
  <2> QED  BY <2>1, <1>1, <1>3
<1>5. w.retryBatch = NoBatch
  <2>1. RetryAhead(w, io)
    BY DEF Sure, Inv, WriterInv, Flow
  <2>2. w.retryBatch.to \in Nat
    BY DEF Sure, Inv, Shape
  <2> QED  BY <1>1, <1>2, <2>1, <2>2 DEF RetryAhead
<1>6. ~w.baseline
  BY <1>1, <1>2 DEF Quiet, RowInv, ReplaceNeeded
<1>7. st.pending = NoPending
  <2>1. st.pending # NoPending => w.durable < st.pending.rev /\ st.pending.rev <= w.live
    BY DEF Sure, Inv, WriterInv, Flow, PendingAhead, Quiet, RowInv, ReplaceNeeded
  <2> QED  BY <1>1, <1>2, <2>1, SureFacts, SMTT(30)
<1>8. meta # NoRow
  BY <1>1, <1>2, <1>4, NowFacts DEF Stored, RowOk
<1> QED  BY <1>1, <1>2, <1>3, <1>4, <1>5, <1>6, <1>7, <1>8

LEMMA RewindIs ==
  ASSUME Sure, Quiet, NEW n \in 0 .. MaxRevision, Rewind(n)
  PROVE  /\ IsWriter(w') /\ w'.phase = w.phase /\ w'.gen = w.gen /\ w'.durable = w.durable
         /\ w'.live = w.live + 2 /\ w'.baseline /\ w'.retryBatch = NoBatch
         /\ w'.recovery = w.recovery /\ w'.complete /\ Len(w'.proj) = n
         /\ st'.cur = [st.cur EXCEPT !.bind = @ + 1, !.stats = n, !.intent = NoIntent]
         /\ st'.pend = Keys /\ st'.mut.open /\ st'.pending = st.pending
         /\ history' \in Seq(Seq(Nat)) /\ Len(history') = Len(history) + 2
         /\ cuts' = cuts \cup {w.durable + 1}
<1>1. /\ n < Len(w.proj) /\ w.complete /\ w.durable = w.live /\ w.phase = "active"
      /\ n \in Nat /\ w.retryBatch = NoBatch
  BY RewindFacts DEF Rewind
<1>2. IsWriter(w) /\ w.proj \in Seq(Nat) /\ history \in Seq(Seq(Nat)) /\ w.live \in Nat
  BY <1>1, SureFacts, NowFacts
<1> DEFINE m == SubSeq(w.proj, 1, n)
<1>3. m \in Seq(Nat) /\ Len(m) = n
  <2>1. Len(w.proj) \in Nat
    BY <1>2, LenProperties
  <2>2. \A i \in 1 .. n : w.proj[i] \in Nat
    <3> TAKE i \in 1 .. n
    <3>1. i \in 1 .. Len(w.proj)
      BY <1>1, <2>1
    <3> QED  BY <1>2, <3>1, ElementOfSeq
  <2> QED  BY <1>1, <2>2, SubSeqProperties
<1> HIDE DEF m
<1>4. PICK z : z = [w EXCEPT !.proj = m, !.live = @ + 1, !.queue = <<>>, !.baseline = TRUE]
  OBVIOUS
<1>5. /\ IsWriter(z) /\ z.phase = w.phase /\ z.gen = w.gen /\ z.durable = w.durable
      /\ z.retryBatch = w.retryBatch /\ z.baseline /\ z.recovery = w.recovery
      /\ z.complete = w.complete /\ z.live = w.live + 1 /\ z.proj = m
  BY <1>2, <1>4 DEF IsWriter
<1>6. PICK x : x = Schedule(WatchHealth(z), TRUE, FALSE)
  OBVIOUS
<1>7. SameFate(z, x) /\ IsWriter(x)
  <2>1. SameFate(z, x)
    BY <1>5, <1>6, FateWatched
  <2> QED  BY <2>1 DEF SameFate, SameCore
<1>8. x.proj = m /\ x.live = w.live + 1
  BY <1>5, <1>7 DEF SameFate, SameCore
<1>9. w' = RequestCommit(x) /\ history' = history \o <<m, m>> /\ cuts' = cuts \cup {x.live}
  <2>1. x = Schedule(WatchHealth([w EXCEPT !.proj = SubSeq(@, 1, n), !.live = @ + 1,
                                !.queue = <<>>, !.baseline = TRUE]), TRUE, FALSE)
    BY <1>4, <1>6 DEF m
  <2>2. /\ w' = RequestCommit(x) /\ history' = history \o <<x.proj, x.proj>>
        /\ cuts' = cuts \cup {x.live}
    BY <2>1 DEF Rewind
  <2> QED  BY <2>2, <1>8
<1>10. Grew(x, w') /\ w'.proj = x.proj
  BY <1>7, <1>9, RequestGrows
<1>11. /\ IsWriter(w') /\ w'.phase = w.phase /\ w'.gen = w.gen /\ w'.durable = w.durable
       /\ w'.live = w.live + 2 /\ w'.baseline /\ w'.retryBatch = NoBatch
       /\ w'.recovery = w.recovery /\ w'.complete /\ Len(w'.proj) = n
  BY <1>1, <1>2, <1>3, <1>5, <1>7, <1>8, <1>10 DEF Grew, SameFate, SameCore
<1>12. history' \in Seq(Seq(Nat)) /\ Len(history') = Len(history) + 2
  <2>1. history' = Append(Append(history, m), m)
    BY <1>2, <1>3, <1>9, AppendTwice
  <2>2. Append(history, m) \in Seq(Seq(Nat)) /\ Len(Append(history, m)) = Len(history) + 1
    BY <1>2, <1>3, AppendProperties
  <2>3. PICK h : h = Append(history, m)
    OBVIOUS
  <2>4. Append(h, m) \in Seq(Seq(Nat)) /\ Len(Append(h, m)) = Len(h) + 1
    BY <1>3, <2>2, <2>3, AppendProperties
  <2>5. Len(history) \in Nat
    BY <1>2, LenProperties
  <2> QED  BY <2>1, <2>2, <2>3, <2>4, <2>5
<1>13. cuts' = cuts \cup {w.durable + 1}
  BY <1>1, <1>8, <1>9
<1>14. /\ st'.cur = [st.cur EXCEPT !.bind = @ + 1, !.stats = n, !.intent = NoIntent]
       /\ st'.pend = Keys /\ st'.mut.open /\ st'.pending = st.pending
  <2>1. StoreShape(st)
    BY SureFacts
  <2>2. PICK u : u = [NoMutation EXCEPT !.open = TRUE]
    OBVIOUS
  <2>3. PICK c : c = [st.cur EXCEPT !.bind = @ + 1, !.stats = n, !.intent = NoIntent]
    OBVIOUS
  <2>4. st' = [st EXCEPT !.cur = c, !.pend = Keys, !.mut = u]
    BY <2>1, <2>2, <2>3 DEF Rewind, StoreShape
  <2>5. u.open
    BY <2>2 DEF NoMutation
  <2> QED  BY <2>1, <2>3, <2>4, <2>5 DEF StoreShape
<1> QED  BY <1>11, <1>12, <1>13, <1>14

LEMMA QuietRewind ==
  ASSUME Sure, Quiet, NEW n \in 0 .. MaxRevision, Rewind(n)
  PROVE  Quiet'
<1>1. PICK y : y = w'
  OBVIOUS
<1>2. PICK t : t = st'
  OBVIOUS
<1>3. /\ y.phase = w.phase /\ y.durable = w.durable /\ y.live = w.live + 2
      /\ y.retryBatch = NoBatch /\ y.recovery = w.recovery /\ y.complete /\ y.baseline
      /\ Len(y.proj) = n
  BY <1>1, RewindIs
<1>4. t.pend = Keys /\ t.mut.open /\ t.pending = NoPending
  BY <1>2, RewindIs, RewindFacts
<1>5. t.cur.stats = n /\ t.cur.intent = NoIntent
  <2>1. st.cur \in RowT
    BY NowFacts
  <2>2. t.cur = [st.cur EXCEPT !.bind = @ + 1, !.stats = n, !.intent = NoIntent]
    BY <1>2, RewindIs
  <2> QED  BY <2>1, <2>2 DEF RowT
<1>6. /\ io = Idle /\ io.job = "none" /\ io.step = "none" /\ w.durable = w.live
      /\ w.live \in Nat /\ w.recovery <= w.live /\ w.recovery \in Nat
      /\ file' = file /\ meta' = meta /\ io' = io
  BY RewindFacts, RecoveryIs, IdleIs
<1>7. RowSeen(y, t, meta, io)
  BY <1>4, <1>5, <1>6 DEF RowSeen, Others
<1>8. MutationOk(file, y, t, io)
  BY <1>3, <1>4, <1>6 DEF MutationOk
<1>9. ReplaceNeeded(y, io, t.pending)
  BY <1>3, <1>4, <1>6 DEF ReplaceNeeded
<1>10. SnapshotOk(y, t, io)
  BY <1>6 DEF SnapshotOk
<1>11. Calm(y, t, io)
  BY <1>3, <1>4, <1>5, <1>6, <1>10 DEF Calm
<1> QED  BY <1>1, <1>2, <1>6, <1>7, <1>8, <1>9, <1>11 DEF Quiet, RowInv

-----------------------------------------------------------------------------
(* The row is published, and the writer hears of it. *)

LEMMA PublishedRow ==
  ASSUME Sure, Quiet, Publish
  PROVE  /\ io # Idle /\ w.phase # "cold" /\ io.step = "sync"
         /\ file' = file /\ w' = w /\ st' = st
         /\ meta' \in RowT /\ \A k \in Others : meta'[k] = st.cur[k]
         /\ \A k \in st.pend : k \in Keys /\ meta'[k] = st.cur[k]
         /\ io'.step = "indexed" /\ io'.patch = meta' /\ io'.keys = st.pend
         /\ io'.job = io.job /\ io'.rev = io.rev /\ io'.expected = io.expected
         /\ io'.batch = io.batch
<1>1. /\ io.step = "sync" /\ file' = file /\ w' = w /\ st' = st
      /\ io' = [io EXCEPT !.step = "indexed", !.patch = meta', !.keys = st.pend]
      /\ meta' = IF meta = NoRow THEN st.cur ELSE Overlay(meta, st.cur, st.pend)
  BY DEF Publish
<1>2. io # Idle /\ w.phase # "cold"
  BY <1>1, SyncFacts
<1>3. st.cur \in RowT /\ (meta # NoRow => meta \in RowT)
  BY NowFacts DEF Stored, RowOk
<1>4. meta' \in RowT
  BY <1>1, <1>3, OverlayType
<1>5. st.pend \subseteq Keys /\ \A k \in Others : k \in st.pend \/ meta[k] = st.cur[k]
  BY <1>2 DEF Quiet, RowInv, RowSeen
<1>6. \A k \in Others : meta'[k] = st.cur[k]
  BY <1>1, <1>5 DEF Overlay, Others
<1>7. \A k \in st.pend : k \in Keys /\ meta'[k] = st.cur[k]
  BY <1>1, <1>5 DEF Overlay
<1>8. /\ io'.step = "indexed" /\ io'.patch = meta' /\ io'.keys = st.pend
      /\ io'.job = io.job /\ io'.rev = io.rev /\ io'.expected = io.expected
      /\ io'.batch = io.batch
  <2>1. JobShape(io)
    BY DEF Sure, Inv
  <2> QED  BY <1>1, <2>1 DEF JobShape
<1> QED  BY <1>1, <1>2, <1>4, <1>6, <1>7, <1>8

LEMMA QuietPublish ==
  ASSUME Sure, Quiet, Publish
  PROVE  Quiet'
<1>1. PICK k : k = io'
  OBVIOUS
<1>2. PICK m : m = meta'
  OBVIOUS
<1>3. /\ w.phase # "cold" /\ file' = file /\ w' = w /\ st' = st /\ m \in RowT
      /\ \A a \in Others : m[a] = st.cur[a]
      /\ \A a \in st.pend : m[a] = st.cur[a]
      /\ k.step = "indexed" /\ k.patch = m /\ k.keys = st.pend
      /\ k.job = io.job /\ k.rev = io.rev
  BY <1>1, <1>2, PublishedRow
<1>4. m.intent = st.cur.intent
  <2>1. m["intent"] = st.cur["intent"]
    BY <1>3 DEF Others, Keys
  <2> QED  BY <2>1
<1>5. RowSeen(w, st, m, k)
  BY <1>3, <1>4 DEF Quiet, RowInv, RowSeen
<1>6. MutationOk(file, w, st, k)
  BY <1>3 DEF Quiet, RowInv, MutationOk
<1>7. ReplaceNeeded(w, k, st.pending)
  BY <1>3 DEF Quiet, RowInv, ReplaceNeeded
<1>8. SnapshotOk(w, st, k)
  BY <1>3 DEF SnapshotOk
<1>9. Calm(w, st, k)
  BY <1>3, <1>8 DEF Quiet, RowInv, Calm
<1> QED  BY <1>1, <1>2, <1>3, <1>5, <1>6, <1>7, <1>9 DEF Quiet, RowInv

(* The storage has heard of a commit: what the owner believes of the row   *)
(* is what it was, no rewind is open, and what is pending is what the      *)
(* snapshot did not have.                                                  *)
LEMMA AdoptedRow ==
  ASSUME Sure, Quiet,
         NEW a,
         \/ io.step = "indexed" /\ a = Adopted
         \/ io.step = "sync" /\ st.published /\ st.pend = {} /\ a = st
  PROVE  /\ \A k \in Others : a.cur[k] = st.cur[k]
         /\ \A k \in Others : k \in a.pend \/ meta[k] = a.cur[k]
         /\ a.pend \subseteq st.pend /\ a.mut = NoMutation
         /\ (w.phase = "active" /\ ~w.blocked /\ Committed.rev >= w.live) => a.pend = {}
<1>1. /\ io.step \in {"sync", "indexed"} /\ io # Idle /\ w.phase # "cold"
      /\ io.job \in {"append", "replace"}
  BY SyncFacts
<1>2. /\ \A k \in Others : k \in st.pend \/ meta[k] = st.cur[k]
      /\ st.pend \subseteq Keys
  BY <1>1 DEF Quiet, RowInv, RowSeen
<1>3. CASE io.step = "sync" /\ st.published /\ st.pend = {} /\ a = st
  <2>1. ~st.mut.open
    BY <1>3 DEF Quiet, RowInv, MutationOk, Keys
  <2>2. st.mut = NoMutation
    BY <2>1 DEF Quiet, RowInv, MutationOk
  <2> QED  BY <1>2, <1>3, <2>2
<1>4. CASE io.step = "indexed" /\ a = Adopted
  <2>1. PICK left : left = Remaining(io.patch)
    OBVIOUS
  <2>2. PICK mu : mu = IF /\ st.mut.target.gen = Committed.gen
                          /\ Committed.rev >= st.mut.target.rev
                       THEN NoMutation ELSE st.mut
    OBVIOUS
  <2>3. a = [st EXCEPT !.published = TRUE, !.pend = left,
                       !.cur = Overlay(io.patch, st.cur, left), !.mut = mu]
    BY <1>4, <2>1, <2>2 DEF Adopted
  <2>4. StoreShape(st)
    BY SureFacts
  <2>5. a.pend = left /\ a.mut = mu /\ a.cur = Overlay(io.patch, st.cur, left)
    BY <2>3, <2>4 DEF StoreShape
  <2>6. left = {k \in st.pend : k \notin io.keys \/ st.cur[k] # io.patch[k]}
    BY <2>1 DEF Remaining
  <2>7. \A k \in Others : meta[k] = io.patch[k]
    BY <1>4 DEF Quiet, RowInv, RowSeen
  <2>8. \A k \in Others : a.cur[k] = st.cur[k]
    BY <1>2, <2>5, <2>6, <2>7 DEF Overlay, Others
  <2>9. \A k \in Others : k \in a.pend \/ meta[k] = a.cur[k]
    BY <2>5, <2>7 DEF Overlay, Others
  <2>10. mu = NoMutation
    <3>1. CASE ~st.mut.open
      BY <2>2, <3>1 DEF Quiet, RowInv, MutationOk
    <3>2. CASE st.mut.open
      <4>1. io.job # "append"
        BY <3>2 DEF Quiet, RowInv, MutationOk
      <4>2. io.job = "replace" /\ st.pending # NoPending /\ file.gen = st.pending.gen
        BY <1>1, <4>1, SyncFacts
      <4>3. st.mut.target = Point(st.pending.gen, st.pending.rev)
        BY <3>2, <4>2 DEF Quiet, RowInv, MutationOk
      <4>4. st.pending.rev \in Nat
        BY SureFacts
      <4>5. Committed.gen = st.pending.gen /\ Committed.rev = st.pending.rev
        BY <4>2 DEF Committed, Point
      <4>6. st.mut.target.gen = st.pending.gen /\ st.mut.target.rev = st.pending.rev
        BY <4>3 DEF Point
      <4> QED  BY <2>2, <4>4, <4>5, <4>6
    <3> QED  BY <3>1, <3>2
  <2>11. (w.phase = "active" /\ ~w.blocked /\ Committed.rev >= w.live) => left = {}
    <3> SUFFICES ASSUME w.phase = "active", ~w.blocked, Committed.rev >= w.live
                 PROVE  left = {}
      OBVIOUS
    <3>1. Committing(io, st.pending) = Committed
      BY DEF Committing, Committed
    <3>2. ~(Committed.rev < w.live)
      BY <1>1, <3>1, CommitInReach, SureFacts
    <3>3. st.pend = io.keys /\ \A k \in io.keys : st.cur[k] = io.patch[k]
      BY <1>4, <3>1, <3>2 DEF Quiet, RowInv, Calm, SnapshotOk
    <3> QED  BY <2>6, <3>3
  <2> QED  BY <2>5, <2>6, <2>8, <2>9, <2>10, <2>11
<1> QED  BY <1>3, <1>4

LEMMA RowLands ==
  ASSUME NEW f, NEW x, NEW y, NEW s, NEW t, NEW j, NEW m, RowInv(f, x, s, j, m),
         x.phase # "cold", y.phase = x.phase, y.live = x.live, y.proj = x.proj,
         y.complete = x.complete, y.recovery <= y.live, y.baseline => y.durable < y.live,
         \A k \in Others : t.cur[k] = s.cur[k],
         \A k \in Others : k \in t.pend \/ m[k] = t.cur[k],
         t.pend \subseteq s.pend, t.mut = NoMutation, t.pending = NoPending,
         (y.phase = "active" /\ ~y.blocked) =>
            /\ ~x.blocked /\ (y.state # "healthy" => y.durable < y.live)
            /\ y.durable = y.live => t.pend = {}
  PROVE  RowInv(f, y, t, Idle, m)
<1>1. Idle.job = "none" /\ Idle.step = "none" /\ ~NoMutation.open
  BY DEF Idle, NoMutation
<1>2. t.cur.intent = s.cur.intent /\ t.cur.stats = s.cur.stats
  <2>1. t.cur["intent"] = s.cur["intent"] /\ t.cur["stats"] = s.cur["stats"]
    BY DEF Others, Keys
  <2> QED  BY <2>1
<1>3. RowSeen(y, t, m, Idle)
  BY <1>1, <1>2 DEF RowInv, RowSeen
<1>4. MutationOk(f, y, t, Idle)
  BY <1>1 DEF MutationOk
<1>5. ReplaceNeeded(y, Idle, t.pending)
  BY <1>1 DEF ReplaceNeeded
<1>6. SnapshotOk(y, t, Idle)
  BY <1>1 DEF SnapshotOk
<1>7. Calm(y, t, Idle)
  BY <1>1, <1>2, <1>6 DEF RowInv, Calm
<1> QED  BY <1>3, <1>4, <1>5, <1>7 DEF RowInv

LEMMA SucceededFate ==
  ASSUME Sure, NEW c, NEW y, y = Succeeded(w, c)
  PROVE  /\ y.recovery = w.recovery
         /\ (~y.baseline /\ y.complete /\ y.durable >= y.recovery) => y.state = "healthy"
<1>1. IsWriter(w)
  BY SureFacts
<1>2. PICK z : z = [w EXCEPT
              !.gen = c.gen, !.durable = c.rev,
              !.baseline = @ \/ (io.job = "replace" /\ c.rev < io.rev),
              !.retryBatch = NoBatch, !.retrying = FALSE, !.watch = FALSE]
  OBVIOUS
<1>3. IsWriter(z) /\ z.recovery = w.recovery
  BY <1>1, <1>2 DEF IsWriter
<1>4. y = [z EXCEPT !.state =
             IF ~z.baseline /\ z.complete /\ z.durable >= z.recovery THEN "healthy" ELSE @]
  BY <1>2 DEF Succeeded
<1> QED  BY <1>3, <1>4 DEF IsWriter

LEMMA LandedParts ==
  ASSUME Sure, NEW a,
         \/ io.step = "indexed" /\ a = Adopted
         \/ io.step = "sync" /\ st.published /\ a = st,
         NEW t, t = Landed(a)
  PROVE  t.cur = a.cur /\ t.pend = a.pend /\ t.mut = a.mut /\ t.pending = NoPending
<1>1. StoreShape(st)
  BY SureFacts
<1>2. \E p, c, l, u : a = [st EXCEPT !.published = p, !.pend = l, !.cur = c, !.mut = u]
  <2>1. CASE a = Adopted
    BY <2>1 DEF Adopted
  <2>2. CASE a = st
    <3>1. a = [st EXCEPT !.published = st.published, !.pend = st.pend, !.cur = st.cur,
                         !.mut = st.mut]
      BY <1>1, <2>2 DEF StoreShape
    <3> QED  BY <3>1
  <2> QED  BY <2>1, <2>2
<1>3. PICK p, c, l, u : a = [st EXCEPT !.published = p, !.pend = l, !.cur = c, !.mut = u]
  BY <1>2
<1> QED  BY <1>1, <1>3 DEF Landed, StoreShape

LEMMA QuietCommit ==
  ASSUME Sure, Quiet, Commit
  PROVE  Quiet'
<1>1. PICK a : /\ \/ io.step = "indexed" /\ a = Adopted
                  \/ io.step = "sync" /\ st.published /\ st.pend = {} /\ a = st
               /\ Settle(a)
  BY DEF Commit
<1>2. file' = file /\ meta' = meta
  BY DEF Commit, disk
<1>3. PICK t : t = Landed(a)
  OBVIOUS
<1>4. st' = t
  BY <1>1, <1>3 DEF Settle
<1>5. t.cur = a.cur /\ t.pend = a.pend /\ t.mut = a.mut /\ t.pending = NoPending
  BY <1>1, <1>3, LandedParts
<1>6. /\ \A k \in Others : t.cur[k] = st.cur[k]
      /\ \A k \in Others : k \in t.pend \/ meta[k] = t.cur[k]
      /\ t.pend \subseteq st.pend /\ t.mut = NoMutation
      /\ (w.phase = "active" /\ ~w.blocked /\ Committed.rev >= w.live) => t.pend = {}
  BY <1>1, <1>5, AdoptedRow
<1>7. /\ w.phase # "cold" /\ io # Idle /\ io.job \in {"append", "replace"}
      /\ Committed.rev \in Nat /\ Committed.rev <= w.live /\ w.live \in Nat
      /\ w.recovery \in Nat /\ w.recovery <= w.live /\ ~w.baseline /\ io.rev <= w.live
      /\ io.rev \in Nat /\ w.durable \in Nat /\ w.durable < w.live
  <2>1. w.phase # "cold" /\ io # Idle /\ io.job \in {"append", "replace"}
    BY <1>1, SyncFacts
  <2>2. Committing(io, st.pending) = Committed
    BY DEF Committing, Committed
  <2>3. Committed.rev \in Nat /\ Committed.rev <= w.live
    BY <1>1, <2>2, CommitInReach
  <2>4. ~w.baseline
    BY <2>1, JobFlow
  <2>5. io.rev <= w.live
    BY <2>1, SureFacts DEF Sure, Inv, WriterInv, Flow, AppendAhead, ReplaceAhead
  <2> QED  BY <2>1, <2>3, <2>4, <2>5, RecoveryIs, SureFacts, BusyIsBehind
<1>8. ASSUME NEW y, RowInv(file, y, t, Idle, meta), IsWriter(y), Finally(y)
      PROVE  Quiet'
  <2>1. io' = Idle /\ SameFate(y, w')
    BY <1>8, FateFinally
  <2>2. PICK v : v = w'
    OBVIOUS
  <2>3. Tamer(y, v)
    BY <2>1, <2>2, FateIsTame
  <2>4. SameRow(t, t) /\ Idle.step # "rename"
    BY DEF SameRow, Idle
  <2>5. RowInv(file, v, t, Idle, meta)
    BY <1>8, <2>3, <2>4, RowFrame
  <2> QED  BY <1>2, <1>4, <2>1, <2>2, <2>5 DEF Quiet
<1>9. CASE Finally(Succeeded(w, Committed))
  <2>1. PICK c : c = Committed
    OBVIOUS
  <2>2. PICK y : y = Succeeded(w, c)
    OBVIOUS
  <2>3. /\ IsWriter(y) /\ y.phase = w.phase /\ y.durable = c.rev /\ y.live = w.live
        /\ y.proj = w.proj /\ y.complete = w.complete /\ y.blocked = w.blocked
        /\ y.baseline = (w.baseline \/ (io.job = "replace" /\ c.rev < io.rev))
    BY <2>2, SucceededIs
  <2>4. /\ y.recovery = w.recovery
        /\ (~y.baseline /\ y.complete /\ y.durable >= y.recovery) => y.state = "healthy"
    BY <2>2, SucceededFate
  <2>9. y.baseline => c.rev < io.rev
    <3>1. ~w.baseline
      BY <1>7
    <3> QED  BY <2>3, <3>1, Zenon
  <2>10. c.rev \in Nat /\ c.rev <= w.live /\ (c.rev < io.rev => c.rev < w.live)
    BY <1>7, <2>1
  <2>5. y.recovery <= y.live /\ (y.baseline => y.durable < y.live)
    BY <1>7, <2>3, <2>4, <2>9, <2>10
  <2>6. (y.phase = "active" /\ ~y.blocked) =>
            /\ ~w.blocked /\ (y.state # "healthy" => y.durable < y.live)
            /\ y.durable = y.live => t.pend = {}
    <3> SUFFICES ASSUME y.phase = "active", ~y.blocked
                 PROVE  /\ ~w.blocked /\ (y.state # "healthy" => y.durable < y.live)
                        /\ y.durable = y.live => t.pend = {}
      OBVIOUS
    <3>1. w.phase = "active" /\ ~w.blocked
      BY <2>3
    <3>2. w.complete
      BY <3>1 DEF Quiet, RowInv, Calm
    <3>3. y.durable = y.live => ~y.baseline /\ y.durable >= y.recovery
      BY <1>7, <2>3, <2>4, <2>9, <2>10
    <3>4. y.durable = y.live => y.state = "healthy"
      BY <2>3, <2>4, <3>2, <3>3
    <3>5. y.durable = y.live => t.pend = {}
      BY <1>6, <1>7, <2>1, <2>3, <3>1
    <3> QED  BY <1>7, <2>1, <2>3, <3>1, <3>4, <3>5
  <2>7. RowInv(file, w, st, io, meta)
    BY DEF Quiet
  <2>8. RowInv(file, y, t, Idle, meta)
    BY <1>5, <1>6, <1>7, <2>3, <2>5, <2>6, <2>7, RowLands
  <2> QED  BY <1>8, <1>9, <2>1, <2>2, <2>3, <2>8
<1>10. CASE io.job = "append" /\ Finally(Failed(w))
  <2>1. PICK y : y = Failed(w)
    OBVIOUS
  <2>2. y.recovery <= w.live /\ ~io.recover
    BY <1>7, <1>10, <2>1, EndRecovery, JobFlow
  <2>3. /\ IsWriter(y) /\ y.phase = w.phase /\ y.durable = w.durable /\ y.live = w.live
        /\ y.proj = w.proj /\ y.complete = w.complete /\ y.blocked = w.blocked
    BY <1>7, <2>1, <2>2, FailedIs
  <2>4. y.durable < y.live /\ y.durable # y.live
    BY <1>7, <2>3
  <2>5. RowInv(file, w, st, io, meta)
    BY DEF Quiet
  <2>6. RowInv(file, y, t, Idle, meta)
    BY <1>5, <1>6, <1>7, <2>2, <2>3, <2>4, <2>5, RowLands
  <2> QED  BY <1>8, <1>10, <2>1, <2>3, <2>6
<1> QED  BY <1>1, <1>9, <1>10 DEF Settle

-----------------------------------------------------------------------------
(* Owners come and go, and others get between. *)

LEMMA RowBegins ==
  ASSUME NEW f, NEW x, NEW s, NEW m, x.recovery <= x.live, ~x.baseline,
         s.pending = NoPending, s.mut = NoMutation,
         x.phase # "cold" =>
           /\ s.pend \subseteq Keys /\ s.cur.intent = NoIntent
           /\ \A k \in Others : k \in s.pend \/ m[k] = s.cur[k],
         (x.phase # "cold" /\ ~x.blocked) =>
           /\ x.complete /\ (x.state = "healthy" \/ x.durable < x.live)
           /\ x.durable = x.live => s.pend \subseteq {"stats"}
           /\ s.cur.stats = Len(x.proj)
  PROVE  RowInv(f, x, s, Idle, m)
<1>1. Idle.job = "none" /\ Idle.step = "none" /\ ~NoMutation.open
  BY DEF Idle, NoMutation
<1>2. RowSeen(x, s, m, Idle)
  BY <1>1 DEF RowSeen
<1>3. MutationOk(f, x, s, Idle)
  BY <1>1 DEF MutationOk
<1>4. ReplaceNeeded(x, Idle, s.pending)
  BY <1>1 DEF ReplaceNeeded
<1>5. SnapshotOk(x, s, Idle)
  BY <1>1 DEF SnapshotOk
<1>6. Calm(x, s, Idle)
  BY <1>1, <1>5 DEF Calm
<1> QED  BY <1>2, <1>3, <1>4, <1>6 DEF RowInv

LEMMA NewWriter ==
  ASSUME NEW gen, NEW rev \in Nat, NEW messages, NEW x, x = Instance(gen, rev, messages)
  PROVE  /\ IsWriter(x) /\ x.phase = "active" /\ x.live = rev /\ x.durable = rev
         /\ x.proj = messages /\ ~x.baseline /\ x.complete /\ ~x.blocked
         /\ x.recovery = 0 /\ x.state = "healthy" /\ x.gen = gen
<1>1. /\ IsWriter(x) /\ x.phase = "active" /\ x.live = rev /\ x.durable = rev
      /\ x.proj = messages /\ ~x.baseline /\ x.complete /\ ~x.blocked /\ x.gen = gen
  BY InstanceIs
<1>2. x.recovery = 0 /\ x.state = "healthy"
  BY DEF Instance, Cold
<1> QED  BY <1>1, <1>2

LEMMA QuietCreate ==
  ASSUME Certain, Create
  PROVE  Quiet'
<1>1. /\ w.phase = "cold" /\ meta = NoRow
      /\ w' = RequestCommit(Instance(gens + 1, 0, <<>>))
      /\ st' = [NoStorage EXCEPT !.allowCreate = TRUE, !.pend = {"stats"}]
      /\ meta' = meta /\ io' = io
  BY DEF Create
<1>2. io = Idle
  BY <1>1, NewOwner
<1>3. PICK q : q = <<>>
  OBVIOUS
<1>4. PICK x : x = Instance(gens + 1, 0, q)
  OBVIOUS
<1>5. /\ IsWriter(x) /\ x.phase = "active" /\ x.live = 0 /\ x.durable = 0
      /\ x.proj = q /\ ~x.baseline /\ x.complete /\ x.recovery = 0 /\ x.state = "healthy"
  BY <1>4, NewWriter
<1>6. PICK y : y = w'
  OBVIOUS
<1>7. y = RequestCommit(x)
  BY <1>1, <1>3, <1>4, <1>6
<1>8. Grew(x, y) /\ y.proj = q
  BY <1>5, <1>7, RequestGrows
<1>9. /\ y.phase = "active" /\ y.live = 1 /\ y.durable = 0 /\ ~y.baseline /\ y.complete
      /\ y.recovery = 0
  BY <1>5, <1>8 DEF Grew
<1>10. PICK t : t = st'
  OBVIOUS
<1>11. /\ t.pending = NoPending /\ t.mut = NoMutation /\ t.pend = {"stats"} /\ t.cur = Birth
  BY <1>1, <1>10, NoStorageIs DEF NoStorage
<1>12. \A k \in Others : NoRow[k] = Birth[k]
  BY DEF Others, Keys, NoRow, Birth, Row
<1>13. Birth.intent = NoIntent /\ Birth.stats = 0 /\ Len(q) = 0
  BY <1>3, EmptySeq DEF Birth, Row
<1>14. t.pend \subseteq Keys
  BY <1>11 DEF Keys
<1>15. RowInv(file', y, t, Idle, NoRow)
  <2>1. PICK f : f = file'
    OBVIOUS
  <2>2. RowInv(f, y, t, Idle, NoRow)
    BY <1>8, <1>9, <1>11, <1>12, <1>13, <1>14, RowBegins
  <2> QED  BY <2>1, <2>2
<1> QED  BY <1>1, <1>2, <1>6, <1>10, <1>15 DEF Quiet

LEMMA ResolvedDecides ==
  ASSUME NEW row, NEW f, Resolved(row, f) \in RowT
  PROVE  Resolved(row, f).intent = NoIntent
BY DEF Resolved, RowT

LEMMA QuietActivate ==
  ASSUME Certain, Activate
  PROVE  Quiet'
<1>1. PICK r, m, x, row :
        /\ r = Revision(file) /\ m = Content(file)
        /\ x = Instance(file.gen, r, m) /\ row = Resolved(meta, file)
  OBVIOUS
<1>2. PICK s : s = [NoStorage EXCEPT !.coldTail = (TailState(file) = "incomplete"),
                                     !.published = TRUE,
                                     !.cur = [row EXCEPT !.stats = Len(m)]]
  OBVIOUS
<1>3. /\ w.phase = "cold" /\ meta # NoRow
      /\ \/ row = meta /\ w' = x /\ st' = [s EXCEPT !.pend = {"stats"}]
         \/ w' = RequestCommit(x) /\ st' = [s EXCEPT !.pend = Keys]
      /\ file' = file /\ meta' = meta /\ io' = io
  BY <1>1, <1>2 DEF Activate
<1>4. /\ io = Idle /\ FileOk(file, gens, excuses) /\ meta \in RowT
  BY <1>3, NewOwner DEF Stored, RowOk
<1>5. r \in Nat
  BY <1>1, <1>4, RevisionReach
<1>6. PICK c : c = [row EXCEPT !.stats = Len(m)]
  OBVIOUS
<1>7. /\ c.intent = NoIntent /\ c.stats = Len(m)
      /\ row = meta => \A k \in Keys \ {"stats"} : c[k] = meta[k]
  <2>1. PICK n : n = Len(m)
    OBVIOUS
  <2>2. row \in RowT
    BY <1>1, <1>4, ResolvedType
  <2>4. c = [row EXCEPT !.stats = n]
    BY <1>6, <2>1
  <2>5. row.intent = NoIntent
    BY <1>1, <2>2, ResolvedDecides
  <2>3. /\ c.intent = NoIntent /\ c.stats = n /\ c.bind = row.bind
        /\ \A k \in Keys \ {"stats"} : c[k] = row[k]
    BY <2>2, <2>4, <2>5 DEF RowT, Keys
  <2> QED  BY <2>1, <2>3
<1>8. PICK t : t = st'
  OBVIOUS
<1>9. /\ t.pending = NoPending /\ t.mut = NoMutation /\ t.cur = c
      /\ t.pend = {"stats"} \/ t.pend = Keys
  <2>1. s = [NoStorage EXCEPT !.coldTail = (TailState(file) = "incomplete"),
                              !.published = TRUE, !.cur = c]
    BY <1>2, <1>6
  <2>2. \A p : [s EXCEPT !.pend = p].pending = NoPending /\ [s EXCEPT !.pend = p].mut = NoMutation
               /\ [s EXCEPT !.pend = p].cur = c /\ [s EXCEPT !.pend = p].pend = p
    BY <2>1 DEF NoStorage
  <2> QED  BY <1>3, <1>8, <2>2
<1>10. /\ IsWriter(x) /\ x.phase = "active" /\ x.live = r /\ x.durable = r
       /\ x.proj = m /\ ~x.baseline /\ x.complete /\ x.recovery = 0 /\ x.state = "healthy"
  BY <1>1, <1>5, NewWriter
<1>11. {"stats"} \subseteq Keys
  BY DEF Keys
<1>12. CASE row = meta /\ w' = x /\ st' = [s EXCEPT !.pend = {"stats"}]
  <2>1. t.pend = {"stats"}
    BY <1>8, <1>12, <1>2 DEF NoStorage
  <2>2. x.recovery <= x.live
    BY <1>5, <1>10
  <2>3. \A k \in Others : k \in t.pend \/ meta[k] = t.cur[k]
    BY <1>7, <1>9, <1>12, <2>1 DEF Others
  <2>4. RowInv(file, x, t, Idle, meta)
    BY <1>7, <1>9, <1>10, <1>11, <2>1, <2>2, <2>3, RowBegins
  <2> QED  BY <1>3, <1>4, <1>8, <1>12, <2>4 DEF Quiet
<1>13. CASE w' = RequestCommit(x) /\ st' = [s EXCEPT !.pend = Keys]
  <2>1. t.pend = Keys
    BY <1>8, <1>13, <1>2 DEF NoStorage
  <2>2. PICK y : y = RequestCommit(x)
    OBVIOUS
  <2>3. Grew(x, y) /\ y.proj = m
    BY <1>10, <2>2, RequestGrows
  <2>4. /\ y.recovery <= y.live /\ y.durable < y.live /\ y.durable # y.live
        /\ ~y.baseline /\ y.complete
    BY <1>5, <1>10, <2>3 DEF Grew
  <2>5. \A k \in Others : k \in t.pend
    BY <2>1 DEF Others
  <2>6. RowInv(file, y, t, Idle, meta)
    BY <1>7, <1>9, <2>1, <2>3, <2>4, <2>5, RowBegins
  <2> QED  BY <1>3, <1>4, <1>8, <1>13, <2>2, <2>6 DEF Quiet
<1> QED  BY <1>3, <1>12, <1>13

LEMMA QuietDamaged ==
  ASSUME Certain, ActivateDamaged
  PROVE  Quiet'
<1>1. /\ w.phase = "cold" /\ meta # NoRow /\ meta.intent = NoIntent
      /\ w' = Fail([Instance(gens + 1, 0, <<>>) EXCEPT !.complete = FALSE, !.blocked = TRUE],
                   "degraded")
      /\ st' = [NoStorage EXCEPT !.published = TRUE, !.cur = meta]
      /\ file' = file /\ meta' = meta /\ io' = io
  BY DEF ActivateDamaged
<1>2. io = Idle
  BY <1>1, NewOwner
<1>3. PICK x : x = Instance(gens + 1, 0, <<>>)
  OBVIOUS
<1>4. IsWriter(x) /\ x.phase = "active" /\ x.live = 0 /\ ~x.baseline /\ x.recovery = 0
  BY <1>3, NewWriter
<1>5. PICK z : z = [x EXCEPT !.complete = FALSE, !.blocked = TRUE]
  OBVIOUS
<1>6. /\ IsWriter(z) /\ z.phase = "active" /\ z.live = 0 /\ ~z.baseline /\ z.recovery = 0
      /\ z.blocked
  BY <1>4, <1>5 DEF IsWriter
<1>7. PICK y : y = w'
  OBVIOUS
<1>8. y = Fail(z, "degraded")
  BY <1>1, <1>3, <1>5, <1>7
<1>9. SameCore(z, y) /\ y.recovery = z.live
  BY <1>6, <1>8, FailFate
<1>10. y.recovery <= y.live /\ ~y.baseline /\ y.blocked
  BY <1>6, <1>9 DEF SameCore
<1>11. PICK t : t = st'
  OBVIOUS
<1>12. t.pending = NoPending /\ t.mut = NoMutation /\ t.pend = {} /\ t.cur = meta
  BY <1>1, <1>11 DEF NoStorage
<1>13. RowInv(file, y, t, Idle, meta)
  BY <1>1, <1>10, <1>12, RowBegins
<1> QED  BY <1>1, <1>2, <1>7, <1>11, <1>13 DEF Quiet

LEMMA QuietEnd ==
  ASSUME Certain, RetireSettled \/ Exit
  PROVE  Quiet'
<1>1. w' = Ended /\ st' = NoStorage /\ io' = Idle /\ file' = file /\ meta' = meta
  BY DEF RetireSettled, Exit, Busy, disk
<1>2. PICK x : x = Ended
  OBVIOUS
<1>3. w.live \in Nat
  BY SureFacts DEF Certain
<1>4. x.phase = "cold" /\ ~x.baseline /\ x.recovery <= x.live
  BY <1>2, <1>3 DEF Ended, Cold
<1>5. PICK s : s = NoStorage
  OBVIOUS
<1>6. s.pending = NoPending /\ s.mut = NoMutation
  BY <1>5, NoStorageIs
<1>7. RowInv(file, x, s, Idle, meta)
  BY <1>4, <1>6, RowBegins
<1> QED  BY <1>1, <1>2, <1>5, <1>7 DEF Quiet

LEMMA QuietIntrude ==
  ASSUME Certain, Quiet, NEW kind \in Intrusions, Intrude(kind)
  PROVE  Quiet'
<1>1. /\ w' = w /\ st' = st /\ io' = io /\ meta' = meta
      /\ st.pending # NoPending => st.pending.gen # 0
      /\ kind \in {"empty", "header", "row"} /\ FileOk(file, gens, excuses)
  BY IntrusionFacts
<1>2. file'.gen \in {0, file.gen}
  BY <1>1 DEF Intrude, Transcript, FileOk
<1> QED  BY <1>1, <1>2, TameSelf, QuietFrame DEF SameRow

LEMMA InitQuiet ==
  ASSUME Init
  PROVE  Quiet
<1>1. w = Cold /\ st = NoStorage /\ io = Idle
  BY DEF Init
<1>2. PICK x : x = Cold
  OBVIOUS
<1>3. PICK s : s = NoStorage
  OBVIOUS
<1>4. x.phase = "cold" /\ ~x.baseline /\ x.recovery <= x.live
  BY <1>2 DEF Cold
<1>5. s.pending = NoPending /\ s.mut = NoMutation
  BY <1>3, NoStorageIs
<1>6. RowInv(file, x, s, Idle, meta)
  BY <1>4, <1>5, RowBegins
<1> QED  BY <1>1, <1>2, <1>3, <1>6 DEF Quiet

LEMMA NextQuiet ==
  ASSUME Certain, Quiet, [Next]_vars
  PROVE  Quiet'
<1>1. Sure
  BY DEF Certain
<1>2. CASE Observe
  BY <1>1, <1>2, QuietObserve
<1>3. CASE ObserveFault
  BY <1>1, <1>3, QuietObserveFault
<1>4. CASE PatchMetadata
  BY <1>1, <1>4, QuietPatch
<1>5. CASE \E n \in 0 .. MaxRevision : Rewind(n)
  BY <1>1, <1>5, QuietRewind
<1>6. CASE TimerFire \/ Flush
  BY <1>1, <1>6, QuietStart
<1>7. CASE HealthTimeout \/ Retire \/ RetireTimeout \/ Revoke
  BY <1>1, <1>7, QuietTimeouts
<1>8. CASE AppendCreate \/ AppendPart \/ AppendRow
  <2>1. io.job = "append"
    BY <1>8 DEF AppendCreate, AppendPart, AppendRow, At
  <2> QED  BY <1>1, <1>8, <2>1, QuietAppends
<1>9. CASE AppendHeader
  <2>1. io.job = "append"
    BY <1>9 DEF AppendHeader, At
  <2> QED  BY <1>1, <1>9, <2>1, QuietAppends
<1>10. CASE AppendCheck
  BY <1>1, <1>10, QuietAppendCheck
<1>11. CASE ReplaceCheck \/ ReplaceIntent \/ ReplaceRename
  BY <1>1, <1>11, QuietReplaceCheck, QuietReplaceIntent, QuietReplaceRename
<1>12. CASE Publish \/ Commit
  BY <1>1, <1>12, QuietPublish, QuietCommit
<1>13. CASE IoFail
  BY <1>1, <1>13, QuietIoFail
<1>14. CASE Create \/ Activate \/ ActivateDamaged
  BY <1>14, QuietCreate, QuietActivate, QuietDamaged
<1>15. CASE RetireSettled \/ Exit
  BY <1>15, QuietEnd
<1>16. CASE ForeignEdit
  BY <1>1, <1>16, QuietForeignEdit
<1>17. CASE \E kind \in Intrusions : Intrude(kind)
  BY <1>17, QuietIntrude
<1>18. CASE UNCHANGED vars
  BY <1>18 DEF vars, Quiet
<1> QED
  BY <1>2, <1>3, <1>4, <1>5, <1>6, <1>7, <1>8, <1>9, <1>10, <1>11, <1>12, <1>13, <1>14,
     <1>15, <1>16, <1>17, <1>18 DEF Next, IoStep

LEMMA AlwaysQuiet == Spec => [](Certain /\ Quiet)
<1>1. Init => Certain /\ Quiet
  BY InitCertain, InitQuiet
<1>2. (Certain /\ Quiet) /\ [Next]_vars => (Certain /\ Quiet)'
  BY NextCertain, NextQuiet
<1> QED  BY <1>1, <1>2, PTL DEF Spec

(* When everything is saved the incident is over, nothing but the derived  *)
(* statistics waits to be published, no rewind is open, and the row in the *)
(* index is what the owner believes: however writes failed, were tried     *)
(* again or overtaken by edits on the way.                                 *)
THEOREM QuietIsPublished == Spec => []QuietMeansPublished
<1>1. Certain /\ Quiet => QuietMeansPublished
  <2> SUFFICES ASSUME Certain, Quiet, w.phase = "active", ~w.blocked, w.live = w.durable
               PROVE  /\ w.state = "healthy" /\ ~st.mut.open /\ st.pend \subseteq {"stats"}
                      /\ \A k \in Keys \ {"favorite"} : k \in st.pend \/ meta[k] = st.cur[k]
                      /\ "stats" \in st.pend \/ meta.stats = Len(w.proj)
    BY DEF QuietMeansPublished, Active
  <2>1. Sure /\ w.live \in Nat /\ w.durable \in Nat
    BY SureFacts DEF Certain
  <2>2. /\ w.state = "healthy" /\ (st.mut.open => w.baseline \/ io.job = "replace")
        /\ st.pend \subseteq {"stats"} /\ st.cur.stats = Len(w.proj)
    BY <2>1 DEF Quiet, RowInv, Calm
  <2>3. ~w.baseline
    BY <2>1 DEF Quiet, RowInv, ReplaceNeeded
  <2>4. io.job # "replace"
    BY <2>1, BusyIsBehind, SureFacts
  <2>5. \A k \in Others : k \in st.pend \/ meta[k] = st.cur[k]
    BY DEF Quiet, RowInv, RowSeen
  <2>6. "stats" \in st.pend \/ meta["stats"] = st.cur["stats"]
    BY <2>5 DEF Others, Keys
  <2> QED  BY <2>2, <2>3, <2>4, <2>5, <2>6 DEF Others
<1> QED  BY <1>1, AlwaysQuiet, PTL

-----------------------------------------------------------------------------
(* Followed, action after action: the binding in the row has seen exactly  *)
(* the rewinds the file has.                                               *)

LEMMA FewCuts ==
  ASSUME NEW n \in Nat, NEW c, c \subseteq 1 .. n
  PROVE  /\ IsFiniteSet(c) /\ Cardinality(c) \in Nat
         /\ \A r : Cuts(c, r) \subseteq c /\ IsFiniteSet(Cuts(c, r))
                   /\ Cardinality(Cuts(c, r)) \in Nat
         /\ \A i \in Nat : i \notin c => Cardinality(c \cup {i}) = Cardinality(c) + 1
<1>1. IsFiniteSet(1 .. n)
  BY FS_Interval
<1>2. \A a : a \subseteq 1 .. n => IsFiniteSet(a) /\ Cardinality(a) \in Nat
  BY <1>1, FS_Subset, FS_CardinalityType
<1>3. \A r : Cuts(c, r) \subseteq c
  BY DEF Cuts
<1>4. \A i \in Nat : i \notin c => Cardinality(c \cup {i}) = Cardinality(c) + 1
  BY <1>2, FS_AddElement
<1> QED  BY <1>2, <1>3, <1>4

LEMMA AllCuts ==
  ASSUME NEW c, NEW d, NEW r, \A k \in c : k \in Nat, d \in Nat, r \in Nat, d <= r,
         \A k \in c : k <= d
  PROVE  Cuts(c, r) = c /\ Cuts(c, d) = c
BY DEF Cuts

(* Another program had its hands in the file: only the rewinds still have  *)
(* to be revisions of the history.                                         *)
LEMMA FollowLost ==
  ASSUME NEW f, NEW x, NEW s, NEW j, NEW m, NEW h, NEW c, NEW e, "foreign" \in e,
         c \subseteq 1 .. Len(h), m = NoRow => c = {}
  PROVE  BindingInv(f, x, s, j, m, h, c, e)
BY DEF BindingInv, Bound, CutsOk, IntentOk

(* The file keeps the rewinds a row is bound to. *)
Stays(f, f2, m, c, e) ==
  (m # NoRow /\ "foreign" \notin e) =>
    /\ Readable(f) /\ f2.gen = f.gen
    /\ Revision(f) \in Nat /\ Revision(f2) \in Nat /\ Revision(f) <= Revision(f2)
    /\ Cuts(c, Revision(f2)) = Cuts(c, Revision(f))

LEMMA BoundStays ==
  ASSUME NEW f, NEW f2, NEW m, NEW m2, NEW c, NEW e, NEW e2, Bound(f, m, c, e),
         Stays(f, f2, m, c, e), m2.intent = m.intent, m2.bind = m.bind,
         m2 # NoRow => m \in RowT, "foreign" \in e => "foreign" \in e2
  PROVE  Bound(f2, m2, c, e2)
<1> SUFFICES ASSUME m2 # NoRow, "foreign" \notin e2
             PROVE  Decided(f2.gen, Revision(f2), m2, c)
  BY DEF Bound
<1>1. m \in RowT /\ m # NoRow /\ "foreign" \notin e
  BY NotNoRow
<1>2. /\ Readable(f) /\ f2.gen = f.gen
      /\ Revision(f) \in Nat /\ Revision(f2) \in Nat /\ Revision(f) <= Revision(f2)
      /\ Cuts(c, Revision(f2)) = Cuts(c, Revision(f))
  BY <1>1 DEF Stays
<1>3. Decided(f.gen, Revision(f), m, c)
  BY <1>1, <1>2 DEF Bound
<1>4. m.intent.rev \in Nat
  BY <1>1 DEF RowT
<1> QED  BY <1>2, <1>3, <1>4 DEF Decided

(* The owner still has to publish what it had to. *)
SameAnnounced(x, y, s, t, j, k, m, e) ==
  /\ s.pend = Keys => t.pend = Keys
  /\ t.pending = s.pending \/ (s.pending = NoPending /\ j.job = "replace")
  /\ k.step = "rename" /\ t.mut.open => j.step = "rename" /\ t.pending = s.pending
  /\ (m.intent # NoIntent /\ ~s.mut.open /\ "foreign" \notin e /\ x.phase # "cold")
       => (y.baseline \/ k.job = "replace" => x.baseline \/ j.job = "replace")

SameSaved(x, y, s, t) ==
  /\ y.phase = "cold" <=> x.phase = "cold"
  /\ y.gen = x.gen /\ y.durable = x.durable
  /\ x.durable \in Nat /\ x.live \in Nat /\ y.live \in Nat /\ x.live <= y.live
  /\ t.cur.bind = s.cur.bind /\ t.mut.open = s.mut.open

SameExcuse(e, e2) ==
  ("foreign" \in e <=> "foreign" \in e2) /\ ("leftover" \in e2 => "leftover" \in e)

Aimed(f, f2, x, j, k, m, e) ==
  (k.step \in {"intent", "rename"} /\ m # NoRow /\ "foreign" \notin e) =>
    \/ j.step \in {"intent", "rename"} /\ f2 = f
    \/ f2.gen = x.gen /\ Revision(f2) = x.durable

LEMMA FollowFrame ==
  ASSUME NEW f, NEW f2, NEW x, NEW y, NEW s, NEW t, NEW j, NEW k, NEW m, NEW m2,
         NEW h, NEW h2, NEW c, NEW e, NEW e2, BindingInv(f, x, s, j, m, h, c, e),
         Stays(f, f2, m, c, e), m2.intent = m.intent, m2.bind = m.bind,
         m2 = NoRow <=> m = NoRow, m # NoRow => m \in RowT, SameExcuse(e, e2),
         Len(h) \in Nat, Len(h2) \in Nat, Len(h) <= Len(h2), SameSaved(x, y, s, t),
         SameAnnounced(x, y, s, t, j, k, m, e), Aimed(f, f2, x, j, k, m, e)
  PROVE  BindingInv(f2, y, t, k, m2, h2, c, e2)
<1>1. Bound(f2, m2, c, e2)
  BY BoundStays DEF BindingInv, SameExcuse
<1>2. CutsOk(y, t, m2, h2, c, e2)
  <2>1. c \subseteq 1 .. Len(h2)
    BY DEF BindingInv, CutsOk
  <2> QED  BY <2>1 DEF BindingInv, CutsOk, SameExcuse, SameSaved
<1>3. IntentOk(f2, y, t, k, m2, e2)
  <2> SUFFICES ASSUME y.phase # "cold", "foreign" \notin e2
               PROVE  /\ k.step \in {"intent", "rename"} /\ Readable(f2) /\ m2 # NoRow =>
                           f2.gen = y.gen /\ Revision(f2) = y.durable
                      /\ t.mut.open /\ k.step = "rename" => m2.intent = Announced(y, t.pending)
                      /\ m2.intent # NoIntent =>
                           IF t.mut.open
                           THEN t.pending # NoPending /\ m2.intent = Announced(y, t.pending)
                           ELSE Undecided(f2, y, t, k, m2, e2)
    BY DEF IntentOk
  <2>1. x.phase # "cold" /\ "foreign" \notin e
    BY DEF SameSaved, SameExcuse
  <2>2. /\ j.step \in {"intent", "rename"} /\ Readable(f) /\ m # NoRow =>
             f.gen = x.gen /\ Revision(f) = x.durable
        /\ s.mut.open /\ j.step = "rename" => m.intent = Announced(x, s.pending)
        /\ m.intent # NoIntent =>
             IF s.mut.open THEN s.pending # NoPending /\ m.intent = Announced(x, s.pending)
             ELSE Undecided(f, x, s, j, m, e)
    BY <2>1 DEF BindingInv, IntentOk
  <2>3. \A p : Announced(y, p) = Announced(x, p)
    BY DEF Announced, SameSaved
  <2>4. k.step \in {"intent", "rename"} /\ Readable(f2) /\ m2 # NoRow =>
          f2.gen = y.gen /\ Revision(f2) = y.durable
    BY <2>1, <2>2 DEF Aimed, SameSaved
  <2>5. t.mut.open /\ k.step = "rename" => m2.intent = Announced(y, t.pending)
    BY <2>2, <2>3 DEF SameAnnounced, SameSaved
  <2>6. ASSUME m2.intent # NoIntent, t.mut.open
        PROVE  t.pending # NoPending /\ m2.intent = Announced(y, t.pending)
    BY <2>2, <2>3, <2>6 DEF SameAnnounced, SameSaved
  <2>7. ASSUME m2.intent # NoIntent, ~t.mut.open
        PROVE  Undecided(f2, y, t, k, m2, e2)
    <3>1. Undecided(f, x, s, j, m, e)
      BY <2>2, <2>7 DEF SameSaved
    <3>2. m # NoRow
      BY <2>7 DEF NoRow, Row
    <3>3. f2.gen = f.gen
      BY <2>1, <3>2 DEF Stays
    <3>4. t.pend = Keys /\ t.pending = NoPending
      BY <3>1 DEF Undecided, SameAnnounced
    <3>5. ~y.baseline /\ k.job # "replace"
      BY <2>1, <2>7, <3>1 DEF Undecided, SameAnnounced, SameSaved
    <3>6. y.durable < y.live /\ "leftover" \notin e2
      BY <3>1 DEF Undecided, SameSaved, SameExcuse
    <3> QED  BY <3>1, <3>3, <3>4, <3>5, <3>6 DEF Undecided, SameSaved
  <2> QED  BY <2>4, <2>5, <2>6, <2>7
<1> QED  BY <1>1, <1>2, <1>3 DEF BindingInv

LEMMA FollowNow ==
  ASSUME Sure, Followed, Stays(file, file', meta, cuts, excuses), meta' = meta,
         cuts' = cuts, SameExcuse(excuses, excuses'),
         Len(history') \in Nat, Len(history) <= Len(history'), SameSaved(w, w', st, st'),
         SameAnnounced(w, w', st, st', io, io', meta, excuses),
         Aimed(file, file', w, io, io', meta, excuses)
  PROVE  Followed'
<1>1. PICK f2, y, t, k, h2, e2 :
        f2 = file' /\ y = w' /\ t = st' /\ k = io' /\ h2 = history' /\ e2 = excuses'
  OBVIOUS
<1>2. /\ Stays(file, f2, meta, cuts, excuses) /\ SameExcuse(excuses, e2)
      /\ Len(h2) \in Nat /\ Len(history) <= Len(h2) /\ SameSaved(w, y, st, t)
      /\ SameAnnounced(w, y, st, t, io, k, meta, excuses)
      /\ Aimed(file, f2, w, io, k, meta, excuses)
  BY <1>1
<1>3. Len(history) \in Nat /\ (meta # NoRow => meta \in RowT)
  BY SureFacts, NowFacts DEF Stored, RowOk
<1>4. BindingInv(file, w, st, io, meta, history, cuts, excuses)
  BY DEF Followed
<1>5. BindingInv(f2, y, t, k, meta, h2, cuts, e2)
  BY <1>2, <1>3, <1>4, FollowFrame
<1> QED  BY <1>1, <1>5 DEF Followed

(* What a row without an excuse is about is there. *)
LEMMA RowHasFile ==
  ASSUME Sure, meta # NoRow, "foreign" \notin excuses
  PROVE  Readable(file) /\ meta \in RowT /\ Trusted(excuses) /\ FileOk(file, gens, excuses)
BY NowFacts DEF Stored, RowOk, ExcusesOk, Trusted

LEMMA StaysSame ==
  ASSUME Sure
  PROVE  Stays(file, file, meta, cuts, excuses)
<1> SUFFICES ASSUME meta # NoRow, "foreign" \notin excuses
             PROVE  Readable(file) /\ Revision(file) \in Nat
  BY DEF Stays
<1>1. Readable(file) /\ FileOk(file, gens, excuses)
  BY RowHasFile
<1>2. Revision(file) \in Nat
  BY <1>1, RevisionReach
<1> QED  BY <1>1, <1>2

(* Steps of the writer that leave the disk alone. *)
LEMMA FollowWriter ==
  ASSUME Sure, Followed, file' = file, meta' = meta, cuts' = cuts,
         SameExcuse(excuses, excuses'),
         Len(history') \in Nat, Len(history) <= Len(history'), SameSaved(w, w', st, st'),
         st'.pending = st.pending, st.pend = Keys => st'.pend = Keys,
         io' = io \/ io'.step \notin {"intent", "rename"},
         (meta.intent # NoIntent /\ ~st.mut.open /\ "foreign" \notin excuses /\ w.phase # "cold")
           => (w'.baseline \/ io'.job = "replace" => w.baseline \/ io.job = "replace")
  PROVE  Followed'
<1>1. Stays(file, file', meta, cuts, excuses)
  BY StaysSame
<1>2. SameAnnounced(w, w', st, st', io, io', meta, excuses)
  BY DEF SameAnnounced
<1>3. Aimed(file, file', w, io, io', meta, excuses)
  BY DEF Aimed
<1> QED  BY <1>1, <1>2, <1>3, FollowNow

LEMMA FollowTimeouts ==
  ASSUME Sure, Followed, HealthTimeout \/ Retire \/ RetireTimeout \/ Revoke
  PROVE  Followed'
<1>1. IsWriter(w) /\ w.live \in Nat /\ w.durable \in Nat /\ Len(history) \in Nat
  BY SureFacts
<1>2. /\ file' = file /\ meta' = meta /\ st' = st /\ io' = io /\ history' = history
      /\ cuts' = cuts /\ excuses' = excuses
  BY DEF HealthTimeout, Retire, RetireTimeout, Revoke, disk, ghosts
<1>3. /\ w'.phase = "cold" <=> w.phase = "cold"
      /\ w'.gen = w.gen /\ w'.live = w.live /\ w'.durable = w.durable
      /\ w'.baseline = w.baseline
  <2>1. CASE HealthTimeout
    <3>1. PICK z : z = [w EXCEPT !.watch = FALSE]
      OBVIOUS
    <3>2. SameCore(w, z)
      BY <1>1, <3>1 DEF IsWriter, SameCore
    <3>3. w' = Fail(z, "degraded")
      BY <2>1, <3>1 DEF HealthTimeout
    <3>4. SameCore(z, w')
      BY <3>2, <3>3, CoreHelpers DEF SameCore
    <3> QED  BY <3>2, <3>4 DEF SameCore
  <2>2. CASE Retire
    BY <1>1, <2>2 DEF Retire, IsWriter
  <2>3. CASE RetireTimeout
    <3>1. PICK z : z = [w EXCEPT !.retiring = FALSE]
      OBVIOUS
    <3>2. IsWriter(z) /\ SameCore(w, z)
      BY <1>1, <3>1 DEF IsWriter, SameCore
    <3>3. w' = Schedule(z, FALSE, Busy)
      BY <2>3, <3>1 DEF RetireTimeout
    <3>4. SameCore(z, w')
      BY <3>2, <3>3, CoreHelpers
    <3> QED  BY <3>2, <3>4 DEF SameCore
  <2>4. CASE Revoke
    BY <1>1, <2>4 DEF Revoke, Active, IsWriter
  <2> QED  BY <2>1, <2>2, <2>3, <2>4
<1>4. SameSaved(w, w', st, st')
  BY <1>1, <1>2, <1>3 DEF SameSaved
<1>5. SameExcuse(excuses, excuses')
  BY <1>2 DEF SameExcuse
<1>6. Len(history') \in Nat /\ Len(history) <= Len(history')
  BY <1>1, <1>2
<1>7. w'.baseline \/ io'.job = "replace" => w.baseline \/ io.job = "replace"
  BY <1>2, <1>3
<1> QED  BY <1>2, <1>4, <1>5, <1>6, <1>7, FollowWriter

LEMMA FollowEdits ==
  ASSUME Sure, Quiet, Followed, ForeignEdit
  PROVE  Followed'
<1>1. /\ meta # NoRow /\ meta' = [meta EXCEPT !.favorite = edits'] /\ w' = w /\ st' = st
      /\ io' = io /\ file' = file /\ history' = history /\ cuts' = cuts /\ excuses' = excuses
      /\ edits' \in 0 .. MaxEdits
  BY NowFacts, BoundsAssumption DEF ForeignEdit, ghosts
<1>2. meta \in RowT
  BY <1>1, NowFacts DEF Stored, RowOk
<1>3. PICK m : m = meta'
  OBVIOUS
<1>4. m.intent = meta.intent /\ m.bind = meta.bind /\ m \in RowT
  BY <1>1, <1>2, <1>3 DEF RowT
<1>5. m # NoRow
  BY <1>4, NotNoRow
<1>6. /\ SameSaved(w, w, st, st) /\ SameExcuse(excuses, excuses)
      /\ SameAnnounced(w, w, st, st, io, io, meta, excuses)
      /\ Aimed(file, file, w, io, io, meta, excuses)
  BY SureFacts DEF SameSaved, SameExcuse, SameAnnounced, Aimed
<1>7. BindingInv(file, w, st, io, m, history, cuts, excuses)
  BY <1>1, <1>2, <1>4, <1>5, <1>6, StaysSame, SureFacts, FollowFrame, SMTT(30) DEF Followed
<1> QED  BY <1>1, <1>3, <1>7 DEF Followed

(* More is said, or becomes pending. *)
LEMMA FollowGrows ==
  ASSUME Sure, Followed, w.phase = "active", w'.phase = w.phase, w'.gen = w.gen,
         w'.durable = w.durable, w'.baseline = w.baseline,
         w'.live \in {w.live, w.live + 1},
         NEW cc, NEW key, key \in {"stats", "title"},
         st' = st \/ (/\ st' = [st EXCEPT !.cur = cc, !.pend = st.pend \cup {key}]
                      /\ cc.bind = st.cur.bind),
         st.pend \subseteq Keys,
         file' = file, meta' = meta, io' = io, cuts' = cuts,
         excuses' \in {excuses, excuses \cup {"fault"}},
         history' = history \/ \E m \in Seq(Nat) : history' = Append(history, m)
  PROVE  Followed'
<1>1. /\ StoreShape(st) /\ w.live \in Nat /\ w.durable \in Nat
      /\ history \in Seq(Seq(Nat)) /\ Len(history) \in Nat
  BY SureFacts
<1>2. PICK t : t = st'
  OBVIOUS
<1>3. /\ t.cur.bind = st.cur.bind /\ t.mut = st.mut /\ t.pending = st.pending
      /\ st.pend = Keys => t.pend = Keys
  <2>1. CASE t = st
    BY <2>1
  <2>2. CASE t = [st EXCEPT !.cur = cc, !.pend = st.pend \cup {key}] /\ cc.bind = st.cur.bind
    <3>1. key \in Keys
      BY DEF Keys
    <3> QED  BY <1>1, <2>2, <3>1 DEF StoreShape
  <2> QED  BY <1>2, <2>1, <2>2
<1>4. Len(history') \in Nat /\ Len(history) <= Len(history')
  <2>1. CASE history' = history
    BY <1>1, <2>1
  <2>2. CASE \E m \in Seq(Nat) : history' = Append(history, m)
    <3>1. PICK m \in Seq(Nat) : history' = Append(history, m)
      BY <2>2
    <3>2. Len(Append(history, m)) = Len(history) + 1
      BY <1>1, <3>1, AppendProperties
    <3> QED  BY <1>1, <3>1, <3>2
  <2> QED  BY <2>1, <2>2
<1>5. SameSaved(w, w', st, st')
  BY <1>1, <1>2, <1>3 DEF SameSaved
<1>6. SameExcuse(excuses, excuses')
  BY DEF SameExcuse
<1>7. st'.pending = st.pending /\ (st.pend = Keys => st'.pend = Keys)
  BY <1>2, <1>3
<1> QED  BY <1>4, <1>5, <1>6, <1>7, FollowWriter

LEMMA ObserveGrows ==
  ASSUME Sure, Observe
  PROVE  Grew(w, w') /\ w'.proj \in Seq(Nat)
<1>1. PICK q \in Queued(w.queue, w.live + 1, ops'), boundary \in BOOLEAN :
        w' = Schedule(WatchHealth([w EXCEPT !.live = @ + 1, !.proj = Append(@, ops'),
                 !.queue = IF w.baseline THEN @ ELSE q]), boundary, Busy)
  BY DEF Observe
<1>2. PICK z : z = [w EXCEPT !.live = @ + 1, !.proj = Append(@, ops'),
                             !.queue = IF w.baseline THEN @ ELSE q]
  OBVIOUS
<1>3. Grew(w, z) /\ z.proj = Append(w.proj, ops')
  BY <1>2, SureFacts DEF IsWriter, Grew
<1>4. SameFate(z, w')
  BY <1>1, <1>2, <1>3, FateWatched DEF Grew
<1>5. w.proj \in Seq(Nat) /\ ops' \in Nat
  BY NowFacts DEF Observe, Active
<1>6. Append(w.proj, ops') \in Seq(Nat)
  BY <1>5, AppendProperties
<1> QED  BY <1>3, <1>4, <1>6, GrewThenSame

LEMMA FollowObserve ==
  ASSUME Sure, Quiet, Followed, Observe
  PROVE  Followed'
<1>1. /\ w.phase = "active" /\ file' = file /\ meta' = meta /\ io' = io /\ cuts' = cuts
      /\ excuses' = excuses /\ w.live \in Nat
  BY SureFacts DEF Observe, Active
<1>2. Grew(w, w') /\ w'.proj \in Seq(Nat)
  BY ObserveGrows
<1>3. PICK m \in Seq(Nat) : m = w'.proj
  BY <1>2
<1>4. st' = Derived(st, m) /\ history' = Append(history, m)
  BY <1>3 DEF Observe
<1>5. PICK c : c = [st.cur EXCEPT !.stats = Len(m)]
  OBVIOUS
<1>6. /\ st' = [st EXCEPT !.cur = c, !.pend = st.pend \cup {"stats"}]
      /\ c["bind"] = st.cur["bind"]
  BY <1>4, <1>5, DerivedParts DEF Keys
<1>7. st.pend \subseteq Keys
  BY <1>1 DEF Quiet, RowInv, RowSeen
<1>8. /\ w'.phase = w.phase /\ w'.gen = w.gen /\ w'.durable = w.durable
      /\ w'.baseline = w.baseline /\ w'.live \in {w.live, w.live + 1}
  BY <1>2 DEF Grew
<1> QED  BY <1>1, <1>4, <1>6, <1>7, <1>8, FollowGrows

LEMMA FollowObserveFault ==
  ASSUME Sure, Quiet, Followed, ObserveFault
  PROVE  Followed'
<1>1. /\ w.phase = "active" /\ file' = file /\ meta' = meta /\ io' = io /\ cuts' = cuts
      /\ excuses' = excuses \cup {"fault"} /\ w.live \in Nat /\ IsWriter(w)
  BY SureFacts DEF ObserveFault, Active
<1>2. st.pend \subseteq Keys
  BY <1>1 DEF Quiet, RowInv, RowSeen
<1>3. CASE /\ w' = Fail([w EXCEPT !.complete = FALSE, !.blocked = TRUE], "degraded")
           /\ UNCHANGED <<st, history, ops>>
  <2>1. PICK z : z = [w EXCEPT !.complete = FALSE, !.blocked = TRUE]
    OBVIOUS
  <2>2. /\ IsWriter(z) /\ z.phase = w.phase /\ z.durable = w.durable /\ z.gen = w.gen
        /\ z.baseline = w.baseline /\ z.live = w.live
    BY <2>1, <1>1 DEF IsWriter
  <2>3. SameCore(z, w')
    BY <1>3, <2>1, <2>2, CoreFails
  <2>4. /\ w'.phase = w.phase /\ w'.gen = w.gen /\ w'.durable = w.durable
        /\ w'.baseline = w.baseline /\ w'.live \in {w.live, w.live + 1}
    BY <2>2, <2>3 DEF SameCore
  <2> QED  BY <1>1, <1>2, <1>3, <2>4, FollowGrows
<1>4. CASE /\ w' = Fail([w EXCEPT !.complete = FALSE, !.blocked = TRUE,
                            !.live = @ + 1, !.proj = Append(@, ops')], "degraded")
           /\ st' = Derived(st, w'.proj) /\ ops' = ops + 1
           /\ history' = Append(history, w'.proj)
  <2>1. PICK z : z = [w EXCEPT !.complete = FALSE, !.blocked = TRUE, !.live = @ + 1,
                               !.proj = Append(@, ops')]
    OBVIOUS
  <2>2. /\ IsWriter(z) /\ z.phase = w.phase /\ z.durable = w.durable /\ z.gen = w.gen
        /\ z.baseline = w.baseline /\ z.live = w.live + 1 /\ z.proj = Append(w.proj, ops')
    BY <2>1, <1>1 DEF IsWriter
  <2>3. SameCore(z, w')
    BY <1>4, <2>1, <2>2, CoreFails
  <2>4. w.proj \in Seq(Nat) /\ ops' \in Nat
    BY <1>1, <1>4, NowFacts
  <2>5. Append(w.proj, ops') \in Seq(Nat)
    BY <2>4, AppendProperties
  <2>6. PICK m \in Seq(Nat) : m = w'.proj
    BY <2>2, <2>3, <2>5 DEF SameCore
  <2>7. PICK c : c = [st.cur EXCEPT !.stats = Len(m)]
    OBVIOUS
  <2>8. st' = Derived(st, m) /\ history' = Append(history, m)
    BY <1>4, <2>6
  <2>9. /\ st' = [st EXCEPT !.cur = c, !.pend = st.pend \cup {"stats"}]
        /\ c["bind"] = st.cur["bind"]
    BY <2>7, <2>8, DerivedParts DEF Keys
  <2>10. /\ w'.phase = w.phase /\ w'.gen = w.gen /\ w'.durable = w.durable
         /\ w'.baseline = w.baseline /\ w'.live \in {w.live, w.live + 1}
    BY <2>2, <2>3 DEF SameCore
  <2> QED  BY <1>1, <1>2, <2>8, <2>9, <2>10, FollowGrows
<1> QED  BY <1>3, <1>4 DEF ObserveFault

LEMMA FollowPatch ==
  ASSUME Sure, Quiet, Followed, PatchMetadata
  PROVE  Followed'
<1>1. /\ w.phase = "active" /\ file' = file /\ meta' = meta /\ io' = io /\ cuts' = cuts
      /\ excuses' = excuses /\ w.live \in Nat /\ IsWriter(w)
  BY SureFacts DEF PatchMetadata, Active
<1>2. PICK c : c = [st.cur EXCEPT !.title = @ + 1]
  OBVIOUS
<1>3. /\ st' = [st EXCEPT !.cur = c, !.pend = st.pend \cup {"title"}]
      /\ c["bind"] = st.cur["bind"]
  BY <1>2, TitleParts DEF Keys
<1>4. st.pend \subseteq Keys
  BY <1>1 DEF Quiet, RowInv, RowSeen
<1>5. /\ w'.phase = w.phase /\ w'.gen = w.gen /\ w'.durable = w.durable
      /\ w'.baseline = w.baseline /\ w'.live \in {w.live, w.live + 1}
      /\ history' = history \/ \E m \in Seq(Nat) : history' = Append(history, m)
  <2>1. CASE w.blocked
    BY <1>1, <2>1 DEF PatchMetadata
  <2>2. CASE ~w.blocked
    <3>1. w' = RequestCommit(w) /\ history' = Append(history, w.proj)
      BY <2>2 DEF PatchMetadata
    <3>2. Grew(w, w')
      BY <1>1, <3>1, RequestGrows
    <3>3. w.proj \in Seq(Nat)
      BY <1>1, NowFacts
    <3> QED  BY <3>1, <3>2, <3>3 DEF Grew
  <2> QED  BY <2>1, <2>2
<1> QED  BY <1>1, <1>3, <1>4, <1>5, FollowGrows

(* The file work begins, or ends without a commit. *)
LEMMA FollowJob ==
  ASSUME Sure, Followed, w'.phase = w.phase, w'.gen = w.gen, w'.durable = w.durable,
         w'.live = w.live, st' = st, file' = file, meta' = meta, cuts' = cuts,
         history' = history, excuses' = excuses,
         io' = io \/ io'.step \notin {"intent", "rename"},
         (meta.intent # NoIntent /\ ~st.mut.open /\ "foreign" \notin excuses /\ w.phase # "cold")
           => (w'.baseline \/ io'.job = "replace" => w.baseline \/ io.job = "replace")
  PROVE  Followed'
<1>1. w.live \in Nat /\ w.durable \in Nat /\ Len(history) \in Nat
  BY SureFacts
<1>2. SameSaved(w, w', st, st')
  BY <1>1 DEF SameSaved
<1>3. SameExcuse(excuses, excuses')
  BY DEF SameExcuse
<1>4. Len(history') \in Nat /\ Len(history) <= Len(history')
  BY <1>1
<1> QED  BY <1>2, <1>3, <1>4, FollowWriter

LEMMA FollowStart ==
  ASSUME Sure, Followed, TimerFire \/ Flush
  PROVE  Followed'
<1>1. /\ StartWrite([w EXCEPT !.timer = "off"]) /\ st' = st /\ file' = file
      /\ meta' = meta /\ cuts' = cuts /\ history' = history /\ excuses' = excuses
  BY DEF TimerFire, Flush, disk, ghosts
<1>2. PICK x : x = [w EXCEPT !.timer = "off"]
  OBVIOUS
<1>3. SameCore(w, x) /\ IsWriter(x)
  BY <1>2, SureFacts DEF IsWriter, SameCore
<1>4. CASE w' = x /\ io' = io
  <2>1. /\ w'.phase = w.phase /\ w'.gen = w.gen /\ w'.durable = w.durable
        /\ w'.live = w.live
        /\ w'.baseline \/ io'.job = "replace" => w.baseline \/ io.job = "replace"
    BY <1>3, <1>4 DEF SameCore
  <2> QED  BY <1>1, <1>4, <2>1, FollowJob
<1>5. CASE \/ w' = x /\ io' = AppendJob(x, x.retryBatch)
           \/ /\ x.baseline /\ io' = ReplaceJob(x)
              /\ w' = [x EXCEPT !.queue = <<>>, !.baseline = FALSE, !.emptyPending = FALSE]
           \/ /\ ~x.baseline
              /\ \E n \in 1 .. Len(x.queue) :
                   /\ w' = [x EXCEPT !.queue = SubSeq(@, n + 1, Len(@))]
                   /\ io' = AppendJob(x, Batched(x.queue, n))
  <2>1. \A b : AppendJob(x, b).job = "append" /\ AppendJob(x, b).step = "open"
    BY DEF AppendJob, Idle
  <2>2. ReplaceJob(x).job = "replace" /\ ReplaceJob(x).step = "candidate"
    BY DEF ReplaceJob, Idle
  <2>3. io'.step \notin {"intent", "rename"}
    BY <1>5, <2>1, <2>2
  <2>4. /\ w'.phase = w.phase /\ w'.gen = w.gen /\ w'.durable = w.durable
        /\ w'.live = w.live
    BY <1>3, <1>5 DEF SameCore, IsWriter
  <2>5. w'.baseline \/ io'.job = "replace" => w.baseline \/ io.job = "replace"
    BY <1>3, <1>5, <2>1 DEF SameCore, IsWriter
  <2> QED  BY <1>1, <2>3, <2>4, <2>5, FollowJob
<1> QED
  BY <1>1, <1>2, <1>4, <1>5 DEF StartWrite

LEMMA FollowIoFail ==
  ASSUME Sure, Followed, IoFail
  PROVE  Followed'
<1>1. /\ io # Idle /\ Finally(Failed(w)) /\ st' = st /\ file' = file /\ meta' = meta
      /\ cuts' = cuts /\ history' = history /\ excuses' = excuses
  BY DEF IoFail, Busy, disk, ghosts
<1>2. PICK y : y = Failed(w)
  OBVIOUS
<1>3. /\ IsWriter(y) /\ y.phase = w.phase /\ y.gen = w.gen /\ y.durable = w.durable
      /\ y.live = w.live /\ (y.baseline => w.baseline \/ io.job = "replace")
  BY <1>1, <1>2, FailedIs
<1>4. io' = Idle /\ SameCore(y, w')
  BY <1>1, <1>2, <1>3, FinallySame
<1>5. io'.step \notin {"intent", "rename"} /\ io'.job # "replace"
  BY <1>4, IdleIs
<1>6. /\ w'.phase = w.phase /\ w'.gen = w.gen /\ w'.durable = w.durable
      /\ w'.live = w.live
      /\ w'.baseline \/ io'.job = "replace" => w.baseline \/ io.job = "replace"
  BY <1>3, <1>4, <1>5 DEF SameCore
<1> QED  BY <1>1, <1>5, <1>6, FollowJob

(* An owner that has an interrupted rewind to publish is not refused. *)
LEMMA UndecidedAppends ==
  ASSUME Certain, Followed, io.job = "append", io # Idle, w.phase # "cold",
         io.step = "check" \/ (io.step = "open" /\ file # NoFile /\ ~OwnHeader),
         ~MayAppend(file, st.cursor, io.expected, io.batch, st.coldTail),
         meta.intent # NoIntent, ~st.mut.open, "foreign" \notin excuses
  PROVE  ~w.complete
<1>1. Undecided(file, w, st, io, meta, excuses)
  BY DEF Followed, BindingInv, IntentOk
<1>2. "leftover" \notin excuses
  BY <1>1 DEF Undecided
<1>3. excuses # {}
  BY CheckRefuses
<1>4. ExcusesOk(file, excuses)
  BY NowFacts DEF Stored, Certain
<1>5. "fault" \in excuses
  BY <1>2, <1>3, <1>4 DEF ExcusesOk
<1> QED  BY <1>5 DEF Certain, Founded, BirthOk

LEMMA FollowAppendRefused ==
  ASSUME Certain, Followed, AppendCheck,
         ~MayAppend(file, st.cursor, io.expected, io.batch, st.coldTail)
  PROVE  Followed'
<1>1. /\ io.job = "append" /\ Finally(Refused(w)) /\ file' = file /\ st' = st
      /\ meta' = meta /\ cuts' = cuts /\ history' = history /\ excuses' = excuses
      /\ io.step = "check" \/ (io.step = "open" /\ file # NoFile /\ ~OwnHeader)
  BY DEF AppendCheck, At, ghosts
<1>2. Sure /\ io # Idle
  BY <1>1, SureFacts DEF Certain
<1>3. PICK y : y = Refused(w)
  OBVIOUS
<1>4. /\ IsWriter(y) /\ y.phase = w.phase /\ y.gen = w.gen /\ y.durable = w.durable
      /\ y.live = w.live /\ (y.baseline => w.baseline \/ w.complete)
  BY <1>2, <1>3, RefusedIs
<1>5. io' = Idle /\ SameCore(y, w')
  BY <1>1, <1>3, <1>4, FinallySame
<1>6. io'.step \notin {"intent", "rename"} /\ io'.job # "replace"
  BY <1>5, IdleIs
<1>7. /\ w'.phase = w.phase /\ w'.gen = w.gen /\ w'.durable = w.durable
      /\ w'.live = w.live /\ (w'.baseline => w.baseline \/ w.complete)
  BY <1>4, <1>5 DEF SameCore
<1>8. (meta.intent # NoIntent /\ ~st.mut.open /\ "foreign" \notin excuses /\ w.phase # "cold")
        => ~w.complete
  BY <1>1, <1>2, UndecidedAppends
<1>9. (meta.intent # NoIntent /\ ~st.mut.open /\ "foreign" \notin excuses /\ w.phase # "cold")
        => (w'.baseline \/ io'.job = "replace" => w.baseline \/ io.job = "replace")
  BY <1>6, <1>7, <1>8
<1>10. io' = io \/ io'.step \notin {"intent", "rename"}
  BY <1>6
<1> QED  BY <1>1, <1>2, <1>7, <1>9, <1>10, FollowJob

(* A step of a write. *)
LEMMA FollowWrite ==
  ASSUME Sure, Followed, Stays(file, file', meta, cuts, excuses), w' = w, SameRow(st, st'),
         meta' = meta, cuts' = cuts, history' = history, SameExcuse(excuses, excuses'),
         io'.job = io.job, io'.step \notin {"intent", "rename"}
  PROVE  Followed'
<1>1. w.live \in Nat /\ w.durable \in Nat /\ Len(history) \in Nat
  BY SureFacts
<1>2. SameSaved(w, w', st, st')
  BY <1>1 DEF SameSaved, SameRow
<1>3. SameAnnounced(w, w', st, st', io, io', meta, excuses)
  BY DEF SameAnnounced, SameRow
<1>4. Len(history') \in Nat /\ Len(history) <= Len(history')
  BY <1>1
<1>5. Aimed(file, file', w, io, io', meta, excuses)
  BY DEF Aimed
<1> QED  BY <1>2, <1>3, <1>4, <1>5, FollowNow

LEMMA FollowAppendOpen ==
  ASSUME Sure, Followed, AppendCreate \/ AppendHeader
  PROVE  Followed'
<1>1. /\ ~Readable(file) /\ w' = w /\ meta' = meta /\ cuts' = cuts /\ history' = history
      /\ excuses' \in {excuses, excuses \ {"emptied"}}
  <2>1. CASE AppendCreate
    BY <2>1 DEF AppendCreate, NoFile, Transcript, Readable, ghosts
  <2>2. CASE AppendHeader
    <3>1. file.kind \in {"empty", "header"}
      BY <2>2, NowFacts DEF AppendHeader, At, OwnHeader, Stored, StepsOk
    <3> QED  BY <2>2, <3>1 DEF AppendHeader, Readable
  <2> QED  BY <2>1, <2>2
<1>2. Stays(file, file', meta, cuts, excuses)
  BY <1>1, RowHasFile DEF Stays
<1>3. SameRow(st, st')
  <2>1. StoreShape(st)
    BY SureFacts
  <2>2. st' = st \/ st' = [st EXCEPT !.created = TRUE]
    BY DEF AppendCreate, AppendHeader
  <2> QED  BY <2>1, <2>2 DEF StoreShape, SameRow
<1>4. Goto("header") \/ Goto("check")
  BY DEF AppendCreate, AppendHeader
<1>5. io'.job = io.job /\ io'.step \notin {"intent", "rename"}
  BY <1>4, GotoIs
<1>6. SameExcuse(excuses, excuses')
  BY <1>1 DEF SameExcuse
<1> QED  BY <1>1, <1>2, <1>3, <1>5, <1>6, FollowWrite

(* The tail of a file is no row. *)
LEMMA StaysTail ==
  ASSUME Sure, NEW b \in BatchT, NEW f, f = [file EXCEPT !.tail = b]
  PROVE  Stays(file, f, meta, cuts, excuses)
<1> SUFFICES ASSUME meta # NoRow, "foreign" \notin excuses
             PROVE  /\ Readable(file) /\ f.gen = file.gen /\ Revision(file) \in Nat
                    /\ Revision(f) = Revision(file)
  BY DEF Stays
<1>1. Readable(file) /\ FileOk(file, gens, excuses)
  BY RowHasFile
<1>2. f.gen = file.gen /\ Revision(f) = Revision(file)
  BY <1>1, TailFile
<1> QED  BY <1>1, <1>2, RevisionReach

LEMMA FollowAppendPart ==
  ASSUME Sure, Followed, AppendPart
  PROVE  Followed'
<1>1. /\ io.job = "append" /\ io.step = "write" /\ file' = [file EXCEPT !.tail = io.batch]
      /\ w' = w /\ st' = st /\ io' = io /\ meta' = meta
      /\ cuts' = cuts /\ history' = history /\ excuses' = excuses
  BY DEF AppendPart, At, ghosts
<1>2. io.batch \in BatchT
  BY <1>1, WriteFacts
<1>3. Stays(file, file', meta, cuts, excuses)
  BY <1>1, <1>2, StaysTail
<1>4. SameRow(st, st') /\ SameExcuse(excuses, excuses')
  BY <1>1 DEF SameRow, SameExcuse
<1>5. io'.job = io.job /\ io'.step \notin {"intent", "rename"}
  BY <1>1
<1> QED  BY <1>1, <1>3, <1>4, <1>5, FollowWrite

LEMMA FollowAppendRow ==
  ASSUME Sure, Quiet, Followed, AppendRow
  PROVE  Followed'
<1>1. /\ io.job = "append" /\ io.step = "write" /\ Grown(file', file, io.batch)
      /\ Goto("sync") /\ w' = w /\ st' = st /\ meta' = meta
      /\ cuts' = cuts /\ history' = history /\ excuses' = excuses
  BY DEF AppendRow, At, ghosts, Grown
<1>2. /\ w.phase # "cold" /\ io.batch \in BatchT /\ io.batch.from = w.durable + 1
      /\ io.batch.from \in 1 .. io.batch.to /\ io.batch.to \in Nat /\ w.durable \in Nat
      /\ Readable(file) /\ Revision(file) = w.durable /\ FileOk(file, gens, excuses)
  BY <1>1, WriteFacts
<1>3. PICK f : f = file'
  OBVIOUS
<1>4. f.gen = file.gen /\ Revision(f) = io.batch.to
  BY <1>1, <1>2, <1>3, GrownContent
<1>5. ~st.mut.open
  BY <1>1 DEF Quiet, RowInv, MutationOk
<1>6. ASSUME "foreign" \notin excuses
      PROVE  Cuts(cuts, io.batch.to) = Cuts(cuts, w.durable)
  <2>1. /\ cuts \subseteq 1 .. Len(history) /\ \A k \in cuts : k <= w.durable
    BY <1>2, <1>5, <1>6 DEF Followed, BindingInv, CutsOk
  <2>2. \A k \in cuts : k \in Nat
    BY <2>1, SureFacts
  <2>3. w.durable <= io.batch.to
    BY <1>2
  <2>4. Cuts(cuts, io.batch.to) = cuts /\ Cuts(cuts, w.durable) = cuts
    BY <1>2, <2>1, <2>2, <2>3, AllCuts
  <2> QED  BY <2>4
<1>7. Stays(file, f, meta, cuts, excuses)
  BY <1>2, <1>4, <1>6 DEF Stays
<1>8. SameRow(st, st') /\ SameExcuse(excuses, excuses')
  BY <1>1 DEF SameRow, SameExcuse
<1>9. io'.job = io.job /\ io'.step \notin {"intent", "rename"}
  BY <1>1, GotoIs
<1> QED  BY <1>1, <1>3, <1>7, <1>8, <1>9, FollowWrite

LEMMA FollowAppendCheck ==
  ASSUME Certain, Followed, AppendCheck
  PROVE  Followed'
<1>1. CASE ~MayAppend(file, st.cursor, io.expected, io.batch, st.coldTail)
  BY <1>1, FollowAppendRefused
<1>2. CASE MayAppend(file, st.cursor, io.expected, io.batch, st.coldTail)
  <2>1. PICK already \in BOOLEAN :
          already <=> AlreadyWritten(file, st.cursor, io.expected, io.batch)
    OBVIOUS
  <2>2. PICK at : at = IF already /\ ~Known(file, st.cursor, io.expected)
                       THEN Valid(file) - 1 ELSE Offset(file, st.cursor, io.expected)
    OBVIOUS
  <2>3. /\ io.job = "append" /\ file' = (IF already THEN file ELSE CutAt(file, at))
        /\ st' = [st EXCEPT !.cursor = [gen |-> io.expected.gen, rev |-> io.expected.rev,
                                        size |-> at]]
        /\ Goto(IF already THEN "sync" ELSE "write") /\ w' = w /\ meta' = meta
        /\ cuts' = cuts /\ history' = history /\ excuses' = excuses
    BY <1>2, <2>1, <2>2 DEF AppendCheck, At, ghosts
  <2>4. Sure /\ io # Idle
    BY <2>3, SureFacts DEF Certain
  <2>5. Stays(file, file', meta, cuts, excuses)
    <3>1. CASE already
      BY <2>3, <2>4, <3>1, StaysSame
    <3>2. CASE ~already
      <4>1. /\ io.batch \in BatchT /\ io.batch.from = w.durable + 1 /\ io.batch # NoBatch
            /\ io.expected = Point(w.gen, w.durable) /\ w.durable \in Nat
        BY <2>3, <2>4, JobFlow, SureFacts DEF NextBatch
      <4>2. FileOk(file, gens, excuses) /\ CursorOk(file, st.cursor)
        BY <2>4, NowFacts DEF Stored
      <4>3. at = Len(file.rows)
        BY <1>2, <2>1, <2>2, <3>2, <4>1, <4>2, Admitted
      <4>4. file' = [file EXCEPT !.tail = NoBatch]
        BY <2>3, <3>2, <4>2, <4>3, CutWhole
      <4> QED  BY <2>4, <4>4, NoBatchType, StaysTail
    <3> QED  BY <3>1, <3>2
  <2>6. SameRow(st, st') /\ SameExcuse(excuses, excuses')
    <3>1. StoreShape(st)
      BY <2>4, SureFacts
    <3> QED  BY <2>3, <3>1 DEF SameRow, SameExcuse, StoreShape
  <2>7. io'.job = io.job /\ io'.step \notin {"intent", "rename"}
    <3>1. Goto("sync") \/ Goto("write")
      BY <2>3
    <3> QED  BY <2>4, <3>1, GotoIs
  <2> QED  BY <2>3, <2>4, <2>5, <2>6, <2>7, FollowWrite
<1> QED  BY <1>1, <1>2

(* What a replacement is published over is what the owner has saved.       *)
LEMMA ReplacesOwn ==
  ASSUME Sure, Quiet, io.job = "replace", io.step = "candidate", NEW c, c = Candidate,
         ~Published(file, c), MayReplace(file, c, st.coldTail, st.allowCreate),
         meta # NoRow, "foreign" \notin excuses
  PROVE  file.gen = w.gen /\ Revision(file) = w.durable
<1>1. Readable(file) /\ Trusted(excuses) /\ FileOk(file, gens, excuses)
  BY RowHasFile
<1>2. PICK t : t = [st EXCEPT !.pending = c]
  OBVIOUS
<1>3. PICK g : g = IF st.pending = NoPending THEN gens + 1 ELSE gens
  OBVIOUS
<1>4. Stored(file, w, t, io, meta, history, excuses, g) /\ t.pending = c
  BY <1>2, <1>3, CandidateStored
<1>5. /\ c # NoPending /\ c.rev \in Nat /\ c.expected = Point(w.gen, w.durable)
      /\ w.phase # "cold" /\ w.durable \in Nat
  BY <1>3, CandidateIs, SureFacts
<1>6. w.durable < c.rev
  <2>1. RowInv(file, w, t, io, meta)
    BY <1>2, RowCandidate
  <2> QED  BY <1>4, <1>5, <2>1 DEF RowInv, ReplaceNeeded
<1>7. Mine(file, w, c) /\ Revision(file) \in w.durable .. Len(history)
  BY <1>1, <1>4, <1>5 DEF Stored, ContentOk, FileSays
<1>8. CASE EmptySource(file)
  <2>1. file.base = 0 /\ file.rows = <<>>
    BY <1>1, <1>8 DEF EmptySource, Readable
  <2>2. Revision(file) = 0
    BY <1>1, <2>1, WholeFile DEF Reach
  <2>3. w.durable = 0
    BY <1>5, <1>7, <2>2, SureFacts
  <2>4. file.gen # c.gen
    BY <1>4, <1>5, <1>6, <2>1, <2>3 DEF Stored, RenamedOk
  <2> QED  BY <1>7, <2>2, <2>3, <2>4 DEF Mine
<1>9. CASE [gen |-> file.gen, rev |-> Revision(file)] = c.expected
  BY <1>5, <1>9 DEF Point
<1> QED  BY <1>1, <1>8, <1>9 DEF MayReplace, Readable

LEMMA FollowReplaceCheck ==
  ASSUME Sure, Quiet, Followed, ReplaceCheck
  PROVE  Followed'
<1>1. /\ io.job = "replace" /\ io.step = "candidate" /\ meta' = meta /\ cuts' = cuts
      /\ history' = history /\ excuses' = excuses
  BY DEF ReplaceCheck, At, ghosts
<1>2. PICK c : c = Candidate
  OBVIOUS
<1>3. PICK t : t = st'
  OBVIOUS
<1>4. t = [st EXCEPT !.pending = c]
  BY <1>2, <1>3 DEF ReplaceCheck
<1>5. /\ StoreShape(st) /\ w.live \in Nat /\ w.durable \in Nat /\ Len(history) \in Nat
      /\ io # Idle /\ FileOk(file, gens, excuses)
  BY <1>1, SureFacts, NowFacts DEF Stored
<1>6. /\ t.cur = st.cur /\ t.mut = st.mut /\ t.pend = st.pend
      /\ t.pending = st.pending \/ st.pending = NoPending
  BY <1>2, <1>4, <1>5 DEF StoreShape, Candidate
<1>7. ASSUME Stays(file, file', meta, cuts, excuses),
             w'.phase = w.phase, w'.gen = w.gen, w'.durable = w.durable, w'.live = w.live,
             io'.step = "rename" => ~st.mut.open,
             Aimed(file, file', w, io, io', meta, excuses)
      PROVE  Followed'
  <2>1. SameSaved(w, w', st, t)
    BY <1>5, <1>6, <1>7 DEF SameSaved
  <2>2. SameAnnounced(w, w', st, t, io, io', meta, excuses)
    BY <1>1, <1>6, <1>7 DEF SameAnnounced
  <2>3. SameExcuse(excuses, excuses')
    BY <1>1 DEF SameExcuse
  <2>4. Len(history') \in Nat /\ Len(history) <= Len(history')
    BY <1>1, <1>5
  <2> QED  BY <1>1, <1>3, <1>7, <2>1, <2>2, <2>3, <2>4, FollowNow
<1>8. CASE Published(file, c)
  <2>1. Goto("sync") /\ file' = file /\ w' = w
    BY <1>2, <1>8 DEF ReplaceCheck
  <2>2. io'.step = "sync"
    BY <2>1, GotoIs
  <2>3. Aimed(file, file', w, io, io', meta, excuses)
    BY <2>2 DEF Aimed
  <2> QED  BY <1>7, <2>1, <2>2, <2>3, StaysSame
<1>9. CASE ~Published(file, c) /\ MayReplace(file, c, st.coldTail, st.allowCreate)
  <2>1. /\ file' = [file EXCEPT !.tail = NoBatch] /\ w' = w
        /\ Goto(IF st.mut.open THEN "intent" ELSE "rename")
    BY <1>2, <1>9 DEF ReplaceCheck
  <2>2. PICK f : f = file'
    OBVIOUS
  <2>3. Stays(file, f, meta, cuts, excuses)
    BY <2>1, <2>2, NoBatchType, StaysTail
  <2>4. io'.step = "rename" => ~st.mut.open
    <3>1. CASE st.mut.open
      <4>1. Goto("intent")
        BY <2>1, <3>1
      <4> QED  BY <4>1, GotoIs
    <3> QED  BY <3>1
  <2>5. ASSUME meta # NoRow, "foreign" \notin excuses
        PROVE  f.gen = w.gen /\ Revision(f) = w.durable
    <3>1. file.gen = w.gen /\ Revision(file) = w.durable
      BY <1>1, <1>2, <1>9, <2>5, ReplacesOwn
    <3>2. Readable(file)
      BY <2>5, RowHasFile
    <3>3. f = [file EXCEPT !.tail = NoBatch]
      BY <2>1, <2>2
    <3>4. f.gen = file.gen /\ Revision(f) = Revision(file)
      BY <1>5, <3>2, <3>3, NoBatchType, TailFile
    <3> QED  BY <3>1, <3>4
  <2>6. Aimed(file, f, w, io, io', meta, excuses)
    BY <2>5 DEF Aimed
  <2> QED  BY <1>7, <2>1, <2>2, <2>3, <2>4, <2>6
<1>10. CASE ~Published(file, c) /\ ~MayReplace(file, c, st.coldTail, st.allowCreate)
  <2>1. Finally(Refused(w)) /\ file' = file
    BY <1>2, <1>10 DEF ReplaceCheck
  <2>2. PICK y : y = Refused(w)
    OBVIOUS
  <2>3. /\ IsWriter(y) /\ y.phase = w.phase /\ y.gen = w.gen /\ y.durable = w.durable
        /\ y.live = w.live
    BY <2>2, RefusedIs
  <2>4. io' = Idle /\ SameCore(y, w')
    BY <2>1, <2>2, <2>3, FinallySame
  <2>5. io'.step = "none"
    BY <2>4, IdleIs
  <2>6. Aimed(file, file', w, io, io', meta, excuses)
    BY <2>5 DEF Aimed
  <2>7. /\ w'.phase = w.phase /\ w'.gen = w.gen /\ w'.durable = w.durable /\ w'.live = w.live
    BY <2>3, <2>4 DEF SameCore
  <2> QED  BY <1>7, <2>1, <2>5, <2>6, <2>7, StaysSame
<1> QED  BY <1>8, <1>9, <1>10

LEMMA FollowReplaceIntent ==
  ASSUME Certain, Quiet, Followed, ReplaceIntent
  PROVE  Followed'
<1>1. /\ io.job = "replace" /\ io.step = "intent" /\ file' = file /\ w' = w
      /\ Goto("rename") /\ Sure /\ cuts' = cuts /\ history' = history /\ excuses' = excuses
      /\ meta' = [meta EXCEPT !.intent = [src |-> st.pending.expected.gen,
                               dst |-> st.pending.gen, rev |-> st.pending.rev]]
  BY DEF ReplaceIntent, At, Certain, ghosts
<1>2. st.mut.open /\ st.mut \in MutationT /\ StoreShape(st)
  BY <1>1, SureFacts, NowFacts DEF Certain, Founded, BirthOk
<1>3. PICK a : a = [st.mut EXCEPT !.target = Point(st.pending.gen, st.pending.rev)]
  OBVIOUS
<1>4. st' = [st EXCEPT !.mut = a]
  <2>1. st' = [st EXCEPT !.mut.target = Point(st.pending.gen, st.pending.rev)]
    BY DEF ReplaceIntent
  <2> QED  BY <1>2, <1>3, <2>1 DEF StoreShape
<1>5. PICK t : t = st'
  OBVIOUS
<1>6. t.cur = st.cur /\ t.mut.open /\ t.pending = st.pending
  BY <1>2, <1>3, <1>4, <1>5 DEF StoreShape, MutationT
<1>7. PICK k : k = io'
  OBVIOUS
<1>8. k.step = "rename"
  BY <1>1, <1>7, GotoIs
<1>9. /\ st.pending # NoPending /\ w.phase # "cold" /\ st.pending.rev \in Nat
      /\ st.pending.gen \in 1 .. gens /\ st.pending.gen # w.gen
      /\ st.pending.expected = Point(w.gen, w.durable)
      /\ w.gen \in Nat /\ gens \in Nat
  BY <1>1, ReplaceFacts
<1>10. meta # NoRow /\ meta \in RowT
  BY <1>2, NowFacts, <1>1 DEF Stored, RowOk
<1>11. PICK m : m = meta'
  OBVIOUS
<1>12. /\ m.intent = Announced(w, st.pending) /\ m.bind = meta.bind /\ m \in RowT
  <2>1. PICK i : i = [src |-> st.pending.expected.gen, dst |-> st.pending.gen,
                      rev |-> st.pending.rev]
    OBVIOUS
  <2>2. i = Announced(w, st.pending) /\ i \in [src : Nat, dst : Nat, rev : Nat]
    BY <1>9, <2>1 DEF Announced, Point
  <2>3. m = [meta EXCEPT !.intent = i]
    BY <1>1, <1>11, <2>1
  <2> QED  BY <1>10, <2>2, <2>3 DEF RowT
<1>13. m # NoRow
  BY <1>12, NotNoRow
<1>14. ASSUME "foreign" \notin excuses
       PROVE  /\ file.gen = w.gen /\ Revision(file) = w.durable
              /\ Decided(file.gen, Revision(file), m, cuts)
  <2>1. Readable(file)
    BY <1>1, <1>10, <1>14, RowHasFile
  <2>2. /\ file.gen = w.gen /\ Revision(file) = w.durable
        /\ meta.intent # NoIntent => meta.intent = Announced(w, st.pending)
    BY <1>1, <1>2, <1>9, <1>10, <1>14, <2>1 DEF Followed, BindingInv, IntentOk
  <2>3. Decided(file.gen, Revision(file), meta, cuts)
    BY <1>10, <1>14, <2>1 DEF Followed, BindingInv, Bound
  <2>4. meta.bind = Cardinality(Cuts(cuts, Revision(file)))
    BY <1>9, <2>2, <2>3 DEF Decided, Announced
  <2>5. m.intent # NoIntent /\ m.intent.dst # w.gen /\ m.intent.src = w.gen
    BY <1>9, <1>12 DEF Announced, NoIntent
  <2> QED  BY <1>12, <2>2, <2>4, <2>5 DEF Decided
<1>15. Bound(file, m, cuts, excuses)
  BY <1>14 DEF Bound
<1>16. CutsOk(w, t, m, history, cuts, excuses)
  BY <1>2, <1>6, <1>13 DEF Followed, BindingInv, CutsOk
<1>17. IntentOk(file, w, t, k, m, excuses)
  BY <1>6, <1>9, <1>12, <1>14 DEF IntentOk
<1> QED  BY <1>1, <1>5, <1>7, <1>11, <1>15, <1>16, <1>17 DEF Followed, BindingInv

LEMMA FollowReplaceRename ==
  ASSUME Sure, Quiet, Followed, ReplaceRename
  PROVE  Followed'
<1>1. /\ io.job = "replace" /\ io.step = "rename" /\ w' = w /\ st' = st /\ meta' = meta
      /\ Goto("sync") /\ cuts' = cuts /\ history' = history
      /\ excuses' = excuses \ {"emptied"}
      /\ file' = Transcript("v2", st.pending.gen, st.pending.rev, st.pending.ops)
  BY DEF ReplaceRename, At
<1>2. PICK f : f = file'
  OBVIOUS
<1>3. PICK k : k = io'
  OBVIOUS
<1>4. PICK e2 : e2 = excuses'
  OBVIOUS
<1>5. k.step = "sync" /\ k.job = "replace"
  BY <1>1, <1>3, GotoIs
<1>6. /\ st.pending # NoPending /\ w.phase # "cold" /\ st.pending.rev \in Nat
      /\ st.pending.gen \in Nat /\ st.pending.gen # w.gen
      /\ st.pending.ops = Said(history, st.pending.rev)
      /\ st.pending.rev \in 0 .. Len(history)
      /\ w.gen \in Nat /\ w.durable \in Nat /\ history \in Seq(Seq(Nat))
      /\ Len(history) \in Nat
  BY <1>1, ReplaceFacts, SureFacts
<1>7. w.durable < st.pending.rev
  BY <1>6 DEF Quiet, RowInv, ReplaceNeeded
<1>8. f.gen = st.pending.gen /\ Revision(f) = st.pending.rev
  <2>1. PICK n, rev, text :
          n = st.pending.gen /\ rev = st.pending.rev /\ text = st.pending.ops
    OBVIOUS
  <2>2. text \in Seq(Nat) /\ n \in Nat /\ rev \in Nat
    BY <1>6, <2>1, SaidType
  <2>3. rev # 0
    BY <1>6, <1>7, <2>1
  <2>4. Fresh(f, n, rev, text)
    BY <1>1, <1>2, <2>1 DEF Fresh
  <2>5. f.gen = n /\ Revision(f) = rev
    BY <2>2, <2>3, <2>4, NewFile
  <2> QED  BY <2>1, <2>5
<1>9. ASSUME "foreign" \notin excuses
      PROVE  /\ st.mut.open => meta.intent = Announced(w, st.pending)
             /\ ~st.mut.open => meta.intent = NoIntent
             /\ meta # NoRow => file.gen = w.gen /\ Revision(file) = w.durable
  <2>1. meta # NoRow => Readable(file)
    BY <1>9, RowHasFile
  <2>2. Undecided(file, w, st, io, meta, excuses) => FALSE
    BY <1>1 DEF Undecided
  <2> QED  BY <1>1, <1>6, <1>9, <2>1, <2>2 DEF Followed, BindingInv, IntentOk
<1>10. ASSUME "foreign" \notin excuses, meta # NoRow
       PROVE  Decided(f.gen, Revision(f), meta, cuts)
  <2>1. Readable(file)
    BY <1>10, RowHasFile
  <2>2. Decided(w.gen, w.durable, meta, cuts)
    BY <1>9, <1>10, <2>1 DEF Followed, BindingInv, Bound
  <2>3. /\ cuts \subseteq 1 .. Len(history)
        /\ ~st.mut.open => \A n \in cuts : n <= w.durable
        /\ st.mut.open => w.durable + 1 \in cuts /\ \A n \in cuts : n <= w.durable + 1
    BY <1>6, <1>10 DEF Followed, BindingInv, CutsOk
  <2>4. \A n \in cuts : n \in Nat
    BY <1>6, <2>3
  <2>5. CASE ~st.mut.open
    <3>1. Cuts(cuts, st.pending.rev) = cuts /\ Cuts(cuts, w.durable) = cuts
      <4>1. w.durable <= st.pending.rev /\ \A n \in cuts : n <= w.durable
        BY <1>6, <1>7, <2>3, <2>5
      <4> QED  BY <1>6, <2>4, <4>1, AllCuts
    <3>2. meta.intent = NoIntent
      BY <1>9, <1>10, <2>5
    <3> QED  BY <1>8, <2>2, <3>1, <3>2 DEF Decided
  <2>6. CASE st.mut.open
    <3>1. meta.intent = Announced(w, st.pending)
      BY <1>9, <1>10, <2>6
    <3>2. /\ meta.intent # NoIntent /\ meta.intent.dst = st.pending.gen
          /\ meta.intent.rev = st.pending.rev
      <4>1. st.pending.gen # 0
        BY <1>1, ReplaceFacts, SureFacts
      <4> QED  BY <3>1, <4>1 DEF Announced, NoIntent
    <3>3. meta.bind = Cardinality(Cuts(cuts, w.durable))
      BY <1>6, <2>2, <3>2 DEF Decided
    <3>4. Cuts(cuts, st.pending.rev) = Cuts(cuts, w.durable) \cup {w.durable + 1}
      <4>1. PICK d, r : d = w.durable /\ r = st.pending.rev
        OBVIOUS
      <4>2. d \in Nat /\ r \in Nat /\ d + 1 <= r /\ d + 1 \in cuts
        BY <1>6, <1>7, <2>3, <2>6, <4>1
      <4>3. \A n \in cuts : n \in Nat /\ n <= d + 1
        BY <2>3, <2>4, <2>6, <4>1
      <4>4. \A n \in cuts : n <= r /\ (n <= d \/ n = d + 1)
        BY <4>2, <4>3
      <4>5. Cuts(cuts, r) = Cuts(cuts, d) \cup {d + 1}
        BY <4>2, <4>4 DEF Cuts
      <4> QED  BY <4>1, <4>5
    <3>5. w.durable + 1 \notin Cuts(cuts, w.durable)
      BY <1>6 DEF Cuts
    <3>6. Cuts(cuts, w.durable) \subseteq 1 .. Len(history)
      BY <2>3 DEF Cuts
    <3>7. PICK a : a = Cuts(cuts, w.durable)
      OBVIOUS
    <3>8. Cardinality(a \cup {w.durable + 1}) = Cardinality(a) + 1
      <4>1. PICK i, n : i = w.durable + 1 /\ n = Len(history)
        OBVIOUS
      <4>2. i \in Nat /\ n \in Nat /\ a \subseteq 1 .. n /\ i \notin a
        BY <1>6, <3>5, <3>6, <3>7, <4>1
      <4>3. Cardinality(a \cup {i}) = Cardinality(a) + 1
        BY <4>2, FewCuts
      <4> QED  BY <4>1, <4>3
    <3>9. meta.bind + 1 = Cardinality(Cuts(cuts, st.pending.rev))
      BY <3>3, <3>4, <3>7, <3>8
    <3> QED  BY <1>6, <1>8, <3>2, <3>9 DEF Decided
  <2> QED  BY <2>5, <2>6
<1>11. "foreign" \in e2 <=> "foreign" \in excuses
  BY <1>1, <1>4
<1>12. Bound(f, meta, cuts, e2)
  BY <1>10, <1>11 DEF Bound
<1>13. CutsOk(w, st, meta, history, cuts, e2)
  BY <1>11 DEF Followed, BindingInv, CutsOk
<1>14. IntentOk(f, w, st, k, meta, e2)
  BY <1>5, <1>6, <1>9, <1>11 DEF IntentOk
<1> QED  BY <1>1, <1>2, <1>3, <1>4, <1>12, <1>13, <1>14 DEF Followed, BindingInv

(* The file behind a commit has every rewind. *)
LEMMA CommitHasCuts ==
  ASSUME Sure, Quiet, Followed, io.step \in {"sync", "indexed"}, "foreign" \notin excuses
  PROVE  /\ \A n \in cuts : n \in Nat /\ n <= Revision(file)
         /\ Cuts(cuts, Revision(file)) = cuts
         /\ st.cur.bind = Cardinality(cuts) /\ Revision(file) \in Nat
<1>1. /\ io # Idle /\ w.phase # "cold" /\ Readable(file) /\ Mine(file, w, st.pending)
      /\ io.job = "replace" => st.pending # NoPending /\ Revision(file) = st.pending.rev
      /\ FileOk(file, gens, excuses) /\ ContentOk(file, w, st.pending, meta, history, excuses)
      /\ ExcusesOk(file, excuses) /\ io.job \in {"append", "replace"}
  BY SyncFacts DEF Stored
<1>2. w.durable \in Nat /\ Len(history) \in Nat
  BY SureFacts
<1>3. /\ cuts \subseteq 1 .. Len(history) /\ st.cur.bind = Cardinality(cuts)
      /\ ~st.mut.open => \A n \in cuts : n <= w.durable
      /\ st.mut.open => \A n \in cuts : n <= w.durable + 1
  BY <1>1 DEF Followed, BindingInv, CutsOk
<1>4. \A n \in cuts : n \in Nat
  BY <1>2, <1>3
<1>5. Revision(file) \in w.durable .. Len(history)
  BY <1>1 DEF ContentOk, FileSays, Trusted, ExcusesOk
<1>6. st.mut.open => w.durable < Revision(file)
  BY <1>1 DEF Quiet, RowInv, MutationOk, ReplaceNeeded
<1>7. Revision(file) \in Nat
  BY <1>1, RevisionReach
<1>8. \A n \in cuts : n <= Revision(file)
  BY <1>2, <1>3, <1>4, <1>5, <1>6, <1>7
<1> QED  BY <1>3, <1>4, <1>7, <1>8 DEF Cuts

LEMMA FollowPublish ==
  ASSUME Sure, Quiet, Followed, Publish
  PROVE  Followed'
<1>1. PICK k : k = io'
  OBVIOUS
<1>2. PICK m : m = meta'
  OBVIOUS
<1>3. /\ w.phase # "cold" /\ file' = file /\ w' = w /\ st' = st /\ m \in RowT
      /\ \A a \in Others : m[a] = st.cur[a]
  BY <1>1, <1>2, PublishedRow
<1>4. k.step = "indexed" /\ io.step = "sync"
  BY <1>1, PublishedRow
<1>5. cuts' = cuts /\ history' = history /\ excuses' = excuses
  BY DEF Publish, ghosts
<1>6. m.intent = st.cur.intent /\ m.bind = st.cur.bind
  <2>1. m["intent"] = st.cur["intent"] /\ m["bind"] = st.cur["bind"]
    BY <1>3 DEF Others, Keys
  <2> QED  BY <2>1
<1>7. m.intent = NoIntent
  BY <1>3, <1>6 DEF Quiet, RowInv, RowSeen
<1>8. m # NoRow
  BY <1>3, NotNoRow
<1>9. Bound(file, m, cuts, excuses)
  BY <1>4, <1>6, <1>7, CommitHasCuts DEF Bound, Decided
<1>10. CutsOk(w, st, m, history, cuts, excuses)
  BY <1>8 DEF Followed, BindingInv, CutsOk
<1>11. IntentOk(file, w, st, k, m, excuses)
  BY <1>4, <1>7 DEF IntentOk
<1> QED  BY <1>1, <1>2, <1>3, <1>5, <1>9, <1>10, <1>11 DEF Followed, BindingInv

LEMMA FollowCommit ==
  ASSUME Sure, Quiet, Followed, Commit
  PROVE  Followed'
<1>1. PICK a : /\ \/ io.step = "indexed" /\ a = Adopted
                  \/ io.step = "sync" /\ st.published /\ st.pend = {} /\ a = st
               /\ Settle(a)
  BY DEF Commit
<1>2. /\ file' = file /\ meta' = meta /\ cuts' = cuts /\ history' = history
      /\ excuses' = excuses
  BY DEF Commit, disk, ghosts
<1>3. PICK t : t = Landed(a)
  OBVIOUS
<1>4. st' = t
  BY <1>1, <1>3 DEF Settle
<1>5. /\ t.cur = a.cur /\ t.mut = a.mut
      /\ \A k \in Others : a.cur[k] = st.cur[k]
      /\ a.mut = NoMutation
  BY <1>1, <1>3, LandedParts, AdoptedRow
<1>6. t.cur.bind = st.cur.bind /\ ~t.mut.open
  <2>1. t.cur["bind"] = st.cur["bind"]
    BY <1>5 DEF Others, Keys
  <2> QED  BY <1>5, <2>1 DEF NoMutation
<1>7. /\ w.phase # "cold" /\ io # Idle /\ io.job \in {"append", "replace"}
      /\ w.durable \in Nat /\ Committed.rev = Revision(file)
      /\ io.step \in {"sync", "indexed"}
  BY <1>1, SyncFacts, SureFacts
<1>8. PICK y : y = w'
  OBVIOUS
<1>9. /\ io' = Idle /\ y.phase = w.phase
      /\ \/ y.durable = Committed.rev
         \/ io.job = "append" /\ y.durable = w.durable
  <2>1. CASE Finally(Succeeded(w, Committed))
    <3>1. PICK c, z : c = Committed /\ z = Succeeded(w, c)
      OBVIOUS
    <3>2. IsWriter(z) /\ z.phase = w.phase /\ z.durable = c.rev
      BY <3>1, SucceededIs
    <3>3. io' = Idle /\ SameCore(z, y)
      BY <1>8, <2>1, <3>1, <3>2, FinallySame
    <3> QED  BY <3>1, <3>2, <3>3 DEF SameCore
  <2>2. CASE io.job = "append" /\ Finally(Failed(w))
    <3>1. PICK z : z = Failed(w)
      OBVIOUS
    <3>2. IsWriter(z) /\ z.phase = w.phase /\ z.durable = w.durable
      BY <1>7, <3>1, FailedIs
    <3>3. io' = Idle /\ SameCore(z, y)
      BY <1>8, <2>2, <3>1, <3>2, FinallySame
    <3> QED  BY <2>2, <3>2, <3>3 DEF SameCore
  <2> QED  BY <1>1, <2>1, <2>2 DEF Settle
<1>10. meta.intent = NoIntent
  <2>1. st.cur.intent = NoIntent /\ \A k \in Others : k \in st.pend \/ meta[k] = st.cur[k]
    BY <1>7 DEF Quiet, RowInv, RowSeen
  <2>2. CASE io.step = "indexed"
    <3>1. meta["intent"] = io.patch["intent"] /\ io.patch.intent = NoIntent
      BY <2>2 DEF Quiet, RowInv, RowSeen, Others, Keys
    <3> QED  BY <3>1
  <2>3. CASE st.pend = {}
    <3>1. meta["intent"] = st.cur["intent"]
      BY <2>1, <2>3 DEF Others, Keys
    <3> QED  BY <2>1, <3>1
  <2> QED  BY <1>1, <2>2, <2>3
<1>11. CutsOk(y, t, meta, history, cuts, excuses)
  <2>1. cuts \subseteq 1 .. Len(history) /\ (meta = NoRow => cuts = {})
    BY DEF Followed, BindingInv, CutsOk
  <2>2. ASSUME "foreign" \notin excuses
        PROVE  t.cur.bind = Cardinality(cuts) /\ \A n \in cuts : n <= y.durable
    <3>1. /\ \A n \in cuts : n <= Revision(file)
          /\ st.cur.bind = Cardinality(cuts)
      BY <1>7, <2>2, CommitHasCuts
    <3>2. io.job = "append" => ~st.mut.open
      BY DEF Quiet, RowInv, MutationOk
    <3>3. io.job = "append" => \A n \in cuts : n <= w.durable
      BY <1>7, <2>2, <3>2 DEF Followed, BindingInv, CutsOk
    <3> QED  BY <1>6, <1>7, <1>9, <3>1, <3>3
  <2> QED  BY <1>6, <2>1, <2>2 DEF CutsOk
<1>12. IntentOk(file, y, t, Idle, meta, excuses)
  <2>1. Idle.step = "none"
    BY IdleIs
  <2> QED  BY <1>10, <2>1 DEF IntentOk
<1>13. Bound(file, meta, cuts, excuses)
  BY DEF Followed, BindingInv
<1> QED  BY <1>2, <1>4, <1>8, <1>9, <1>11, <1>12, <1>13 DEF Followed, BindingInv

LEMMA FollowRewind ==
  ASSUME Sure, Quiet, Followed, NEW n \in 0 .. MaxRevision, Rewind(n)
  PROVE  Followed'
<1>1. /\ w.phase = "active" /\ io = Idle /\ w.durable = w.live /\ w.durable > 0
      /\ ~st.mut.open /\ file' = file /\ meta' = meta /\ io' = io /\ excuses' = excuses
      /\ meta # NoRow
  BY RewindFacts
<1>2. PICK y, t, c, h : y = w' /\ t = st' /\ c = cuts' /\ h = history'
  OBVIOUS
<1>3. /\ y.durable = w.durable /\ t.mut.open /\ Len(h) = Len(history) + 2
      /\ c = cuts \cup {w.durable + 1}
      /\ t.cur = [st.cur EXCEPT !.bind = @ + 1, !.stats = n, !.intent = NoIntent]
  BY <1>2, RewindIs
<1>4. PICK d : d = w.durable
  OBVIOUS
<1>5. d \in Nat /\ d > 0 /\ d = Len(history) /\ w.live = d /\ w.durable = d /\ st.cur \in RowT
  BY <1>1, <1>4, SureFacts, NowFacts
<1>6. t.cur.bind = st.cur.bind + 1
  BY <1>3, <1>5 DEF RowT
<1>7. /\ cuts \subseteq 1 .. d
      /\ "foreign" \notin excuses => st.cur.bind = Cardinality(cuts)
  BY <1>1, <1>5 DEF Followed, BindingInv, CutsOk
<1>8. c = cuts \cup {d + 1} /\ d + 1 \in c /\ \A k \in c : k <= d + 1
  <2>1. \A k \in cuts : k <= d
    BY <1>5, <1>7
  <2> QED  BY <1>3, <1>5, <1>7, <2>1
<1>9. Cardinality(c) = Cardinality(cuts) + 1
  <2>1. PICK i : i = d + 1
    OBVIOUS
  <2>2. i \in Nat /\ i \notin cuts
    BY <1>5, <1>7, <2>1
  <2>3. Cardinality(cuts \cup {i}) = Cardinality(cuts) + 1
    BY <1>5, <1>7, <2>2, FewCuts
  <2> QED  BY <1>8, <2>1, <2>3
<1>10. CutsOk(y, t, meta, h, c, excuses)
  <2>1. c \subseteq 1 .. Len(h)
    <3>1. Len(h) = d + 2
      BY <1>3, <1>5
    <3>2. d + 1 \in 1 .. Len(h) /\ cuts \subseteq 1 .. Len(h)
      BY <1>5, <1>7, <3>1
    <3> QED  BY <1>8, <3>2
  <2>2. "foreign" \notin excuses => t.cur.bind = Cardinality(c)
    BY <1>6, <1>7, <1>9
  <2> QED  BY <1>1, <1>3, <1>5, <1>8, <2>1, <2>2 DEF CutsOk
<1>11. Bound(file, meta, c, excuses)
  <2> SUFFICES ASSUME "foreign" \notin excuses
               PROVE  Decided(file.gen, Revision(file), meta, c)
    BY DEF Bound
  <2>1. Readable(file) /\ Trusted(excuses)
    BY <1>1, RowHasFile
  <2>2. Decided(file.gen, Revision(file), meta, cuts)
    BY <1>1, <2>1 DEF Followed, BindingInv, Bound
  <2>3. Revision(file) \in w.durable .. Len(history)
    BY <1>1, <2>1, NowFacts DEF Stored, ContentOk, FileSays
  <2>4. Revision(file) = d
    BY <1>5, <2>3
  <2>5. Cuts(c, d) = Cuts(cuts, d)
    BY <1>5, <1>7, <1>8 DEF Cuts
  <2> QED  BY <2>2, <2>4, <2>5 DEF Decided
<1>12. IntentOk(file, y, t, io, meta, excuses)
  <2>1. io.step = "none"
    BY <1>1, IdleIs
  <2>2. ASSUME "foreign" \notin excuses
        PROVE  meta.intent = NoIntent
    <3>1. Undecided(file, w, st, io, meta, excuses) => FALSE
      BY <1>5 DEF Undecided
    <3> QED  BY <1>1, <2>2, <3>1 DEF Followed, BindingInv, IntentOk
  <2> QED  BY <2>1, <2>2 DEF IntentOk
<1> QED  BY <1>1, <1>2, <1>10, <1>11, <1>12 DEF Followed, BindingInv

LEMMA FollowCreate ==
  ASSUME Certain, Followed, Create
  PROVE  Followed'
<1>1. /\ w.phase = "cold" /\ meta = NoRow /\ meta' = meta /\ io' = io /\ cuts' = cuts
      /\ st' = [NoStorage EXCEPT !.allowCreate = TRUE, !.pend = {"stats"}]
      /\ history' = <<<<>>>>
  BY DEF Create
<1>2. io = Idle
  BY <1>1, NewOwner
<1>3. PICK f, x, t, h, e : f = file' /\ x = w' /\ t = st' /\ h = history' /\ e = excuses'
  OBVIOUS
<1>4. t.cur = Birth /\ ~t.mut.open
  BY <1>1, <1>3, NoStorageIs DEF NoStorage
<1>5. PICK c : c = {}
  OBVIOUS
<1>6. cuts = c
  BY <1>1, <1>5 DEF Followed, BindingInv, CutsOk
<1>7. Bound(f, NoRow, c, e)
  BY DEF Bound
<1>8. CutsOk(x, t, NoRow, h, c, e)
  <2>1. Birth.bind = 0 /\ Cardinality(c) = 0
    BY <1>5, FS_EmptySet DEF Birth, Row
  <2>2. c \subseteq 1 .. Len(h) /\ \A k \in c : k <= x.durable
    BY <1>5
  <2> QED  BY <1>4, <1>5, <2>1, <2>2 DEF CutsOk
<1>9. IntentOk(f, x, t, Idle, NoRow, e)
  <2>1. Idle.step = "none" /\ NoRow.intent = NoIntent
    BY IdleIs DEF NoRow, Row
  <2> QED  BY <2>1 DEF IntentOk
<1>10. BindingInv(f, x, t, Idle, NoRow, h, c, e)
  BY <1>7, <1>8, <1>9 DEF BindingInv
<1>11. io' = Idle /\ meta' = NoRow /\ cuts' = c
  BY <1>1, <1>2, <1>6
<1> QED  BY <1>3, <1>10, <1>11 DEF Followed

(* What a new owner makes of the row has seen the rewinds the file has. *)
LEMMA ResolvedBinds ==
  ASSUME NEW f, NEW m \in RowT, NEW c, Decided(f.gen, Revision(f), m, c)
  PROVE  Resolved(m, f).bind = Cardinality(Cuts(c, Revision(f)))
BY DEF Resolved, Decided, RowT

LEMMA FollowActivate ==
  ASSUME Certain, Followed, Activate
  PROVE  Followed'
<1>1. PICK r, mm, x, row :
        /\ r = Revision(file) /\ mm = Content(file)
        /\ x = Instance(file.gen, r, mm) /\ row = Resolved(meta, file)
  OBVIOUS
<1>2. PICK s : s = [NoStorage EXCEPT !.coldTail = (TailState(file) = "incomplete"),
                                     !.published = TRUE,
                                     !.cur = [row EXCEPT !.stats = Len(mm)]]
  OBVIOUS
<1>3. /\ w.phase = "cold" /\ meta # NoRow /\ Readable(file)
      /\ \/ row = meta /\ w' = x /\ st' = [s EXCEPT !.pend = {"stats"}]
            /\ history' = Kept(r, mm)
         \/ w' = RequestCommit(x) /\ st' = [s EXCEPT !.pend = Keys]
            /\ history' = Append(Kept(r, mm), mm)
      /\ file' = file /\ meta' = meta /\ io' = io /\ cuts' = {c \in cuts : c <= r}
      /\ excuses' = excuses \cap {"foreign"}
  BY <1>1, <1>2 DEF Activate
<1>4. /\ io = Idle /\ FileOk(file, gens, excuses) /\ meta \in RowT /\ Sure
  BY <1>3, NewOwner DEF Stored, RowOk
<1>5. /\ r \in Nat /\ Kept(r, mm) \in Seq(Seq(Nat)) /\ Len(Kept(r, mm)) = r /\ mm \in Seq(Nat)
  BY <1>1, <1>3, KeptIs
<1>6. PICK y, t, h, c, e : y = w' /\ t = st' /\ h = history' /\ c = cuts' /\ e = excuses'
  OBVIOUS
<1>7. PICK u : u = [row EXCEPT !.stats = Len(mm)]
  OBVIOUS
<1>8. u.bind = row.bind
  <2>1. PICK n : n = Len(mm)
    OBVIOUS
  <2>2. row \in RowT
    BY <1>1, <1>4, ResolvedType
  <2>3. u = [row EXCEPT !.stats = n]
    BY <1>7, <2>1
  <2> QED  BY <2>2, <2>3 DEF RowT
<1>9. t.cur = u /\ ~t.mut.open /\ t.pending = NoPending
  <2>1. s = [NoStorage EXCEPT !.coldTail = (TailState(file) = "incomplete"),
                              !.published = TRUE, !.cur = u]
    BY <1>2, <1>7
  <2>2. \A p : /\ [s EXCEPT !.pend = p].cur = u /\ [s EXCEPT !.pend = p].mut = NoMutation
               /\ [s EXCEPT !.pend = p].pending = NoPending
    BY <2>1 DEF NoStorage
  <2>3. \E p : t = [s EXCEPT !.pend = p]
    BY <1>3, <1>6
  <2>4. PICK p : t = [s EXCEPT !.pend = p]
    BY <2>3
  <2>5. t.cur = u /\ t.mut = NoMutation /\ t.pending = NoPending
    BY <2>2, <2>4
  <2>6. ~NoMutation.open
    BY DEF NoMutation
  <2> QED  BY <2>5, <2>6
<1>10. IsWriter(x) /\ x.live = r /\ x.durable = r /\ ~x.baseline
  BY <1>1, <1>5, NewWriter
<1>11. /\ y.durable = r /\ r <= Len(h) /\ Len(h) \in Nat
       /\ row # meta => t.pend = Keys /\ r < y.live /\ ~y.baseline
  <2>1. CASE row = meta /\ w' = x /\ history' = Kept(r, mm)
    BY <1>5, <1>6, <1>10, <2>1
  <2>2. CASE /\ w' = RequestCommit(x) /\ st' = [s EXCEPT !.pend = Keys]
             /\ history' = Append(Kept(r, mm), mm)
    <3>1. Grew(x, y)
      BY <1>6, <1>10, <2>2, RequestGrows
    <3>2. y.durable = r /\ r < y.live /\ ~y.baseline
      BY <1>5, <1>10, <3>1 DEF Grew
    <3>3. PICK a : a = Kept(r, mm)
      OBVIOUS
    <3>4. Len(Append(a, mm)) = Len(a) + 1
      BY <1>5, <3>3, AppendProperties
    <3>5. Len(h) = r + 1
      BY <1>5, <1>6, <2>2, <3>3, <3>4
    <3>6. t.pend = Keys
      BY <1>2, <1>6, <2>2 DEF NoStorage
    <3> QED  BY <1>5, <3>2, <3>5, <3>6
  <2> QED  BY <1>3, <2>1, <2>2
<1>12. /\ cuts \subseteq 1 .. Len(history) /\ c = Cuts(cuts, r)
       /\ \A k \in c : k \in Nat /\ 1 <= k /\ k <= r
  <2>1. cuts \subseteq 1 .. Len(history) /\ Len(history) \in Nat
    BY <1>4, SureFacts DEF Followed, BindingInv, CutsOk
  <2>2. c = Cuts(cuts, r)
    BY <1>3, <1>6 DEF Cuts
  <2>3. \A k \in c : k \in Nat /\ 1 <= k /\ k <= r
    BY <2>1, <2>2 DEF Cuts
  <2> QED  BY <2>1, <2>2, <2>3
<1>13. Cuts(c, r) = c
  BY <1>12 DEF Cuts
<1>14. "foreign" \in e <=> "foreign" \in excuses
  BY <1>3, <1>6
<1>15. ASSUME "foreign" \notin excuses
       PROVE  Decided(file.gen, Revision(file), meta, cuts) /\ u.bind = Cardinality(c)
  <2>1. Decided(file.gen, Revision(file), meta, cuts)
    BY <1>3, <1>15 DEF Followed, BindingInv, Bound
  <2> QED  BY <1>1, <1>4, <1>8, <1>12, <2>1, ResolvedBinds
<1>16. Bound(file, meta, c, e)
  <2> SUFFICES ASSUME "foreign" \notin excuses
               PROVE  Decided(file.gen, r, meta, c)
    BY <1>1, <1>14 DEF Bound
  <2> QED  BY <1>1, <1>12, <1>13, <1>15 DEF Decided
<1>17. CutsOk(y, t, meta, h, c, e)
  <2>1. c \subseteq 1 .. Len(h)
    BY <1>5, <1>11, <1>12
  <2> QED  BY <1>3, <1>9, <1>11, <1>12, <1>14, <1>15, <2>1 DEF CutsOk
<1>18. IntentOk(file, y, t, Idle, meta, e)
  <2> SUFFICES ASSUME "foreign" \notin excuses, meta.intent # NoIntent
               PROVE  Undecided(file, y, t, Idle, meta, e)
    BY <1>9, <1>14, IdleIs DEF IntentOk
  <2>1. row # meta
    <3>1. row.intent = NoIntent
      BY <1>1, <1>4, ResolvedType, ResolvedDecides
    <3> QED  BY <3>1
  <2>2. file.gen = meta.intent.dst => meta.intent.rev <= r
    <3>1. meta.intent.rev \in Nat
      BY <1>4 DEF RowT
    <3> QED  BY <1>1, <1>5, <1>15, <3>1 DEF Decided
  <2>3. "leftover" \notin e
    BY <1>3, <1>6
  <2>4. Idle.job # "replace"
    BY IdleIs
  <2> QED  BY <1>9, <1>11, <2>1, <2>2, <2>3, <2>4 DEF Undecided
<1>19. BindingInv(file, y, t, Idle, meta, h, c, e)
  BY <1>16, <1>17, <1>18 DEF BindingInv
<1> QED  BY <1>3, <1>4, <1>6, <1>19 DEF Followed

LEMMA FollowDamaged ==
  ASSUME Certain, Followed, ActivateDamaged
  PROVE  Followed'
<1>1. w.phase = "cold" /\ meta # NoRow /\ ~Readable(file) /\ cuts' = {} /\ excuses' = excuses
  BY DEF ActivateDamaged
<1>2. "foreign" \in excuses
  BY <1>1, RowHasFile DEF Certain
<1>3. PICK f, x, s, j, m, h :
        f = file' /\ x = w' /\ s = st' /\ j = io' /\ m = meta' /\ h = history'
  OBVIOUS
<1>4. PICK c : c = {}
  OBVIOUS
<1>5. c \subseteq 1 .. Len(h)
  BY <1>4
<1>6. BindingInv(f, x, s, j, m, h, c, excuses)
  BY <1>2, <1>4, <1>5, FollowLost
<1> QED  BY <1>1, <1>3, <1>4, <1>6 DEF Followed

LEMMA FollowEnd ==
  ASSUME Certain, Followed, RetireSettled \/ Exit
  PROVE  Followed'
<1>1. /\ w' = Ended /\ st' = NoStorage /\ io' = Idle /\ file' = file /\ meta' = meta
      /\ cuts' = cuts /\ history' = history /\ excuses' = excuses
  BY DEF RetireSettled, Exit, Busy, disk, ghosts
<1>2. PICK x : x = w'
  OBVIOUS
<1>3. x.phase = "cold"
  BY <1>1, <1>2 DEF Ended, Cold
<1>4. ASSUME NEW s PROVE BindingInv(file, x, s, Idle, meta, history, cuts, excuses)
  BY <1>3 DEF Followed, BindingInv, CutsOk, IntentOk
<1> QED  BY <1>1, <1>2, <1>4 DEF Followed

LEMMA FollowIntrude ==
  ASSUME Certain, Followed, NEW kind \in Intrusions, Intrude(kind)
  PROVE  Followed'
<1>1. /\ w' = w /\ st' = st /\ io' = io /\ meta' = meta /\ history' = history /\ cuts' = cuts
      /\ "foreign" \in excuses'
  BY DEF Intrude
<1>2. PICK f, e : f = file' /\ e = excuses'
  OBVIOUS
<1>3. cuts \subseteq 1 .. Len(history) /\ (meta = NoRow => cuts = {})
  BY DEF Followed, BindingInv, CutsOk
<1>4. BindingInv(f, w, st, io, meta, history, cuts, e)
  BY <1>1, <1>2, <1>3, FollowLost
<1> QED  BY <1>1, <1>2, <1>4 DEF Followed

LEMMA InitFollowed ==
  ASSUME Init
  PROVE  Followed
<1>1. meta = NoRow /\ w = Cold /\ cuts = {} /\ history = <<>>
  BY DEF Init
<1>2. w.phase = "cold"
  BY <1>1 DEF Cold
<1>3. Bound(file, meta, cuts, excuses) /\ IntentOk(file, w, st, io, meta, excuses)
  BY <1>1, <1>2 DEF Bound, IntentOk
<1>4. CutsOk(w, st, meta, history, cuts, excuses)
  BY <1>1, <1>2 DEF CutsOk
<1> QED  BY <1>3, <1>4 DEF Followed, BindingInv

LEMMA NextFollowed ==
  ASSUME Certain, Quiet, Followed, [Next]_vars
  PROVE  Followed'
<1>1. Sure
  BY DEF Certain
<1>2. CASE Observe
  BY <1>1, <1>2, FollowObserve
<1>3. CASE ObserveFault
  BY <1>1, <1>3, FollowObserveFault
<1>4. CASE PatchMetadata
  BY <1>1, <1>4, FollowPatch
<1>5. CASE \E n \in 0 .. MaxRevision : Rewind(n)
  BY <1>1, <1>5, FollowRewind
<1>6. CASE TimerFire \/ Flush
  BY <1>1, <1>6, FollowStart
<1>7. CASE HealthTimeout \/ Retire \/ RetireTimeout \/ Revoke
  BY <1>1, <1>7, FollowTimeouts
<1>8. CASE AppendCreate \/ AppendHeader
  BY <1>1, <1>8, FollowAppendOpen
<1>9. CASE AppendCheck
  BY <1>9, FollowAppendCheck
<1>10. CASE AppendPart
  BY <1>1, <1>10, FollowAppendPart
<1>11. CASE AppendRow
  BY <1>1, <1>11, FollowAppendRow
<1>12. CASE ReplaceCheck \/ ReplaceRename
  BY <1>1, <1>12, FollowReplaceCheck, FollowReplaceRename
<1>13. CASE ReplaceIntent
  BY <1>13, FollowReplaceIntent
<1>14. CASE Publish \/ Commit
  BY <1>1, <1>14, FollowPublish, FollowCommit
<1>15. CASE IoFail
  BY <1>1, <1>15, FollowIoFail
<1>16. CASE Create \/ Activate \/ ActivateDamaged
  BY <1>16, FollowCreate, FollowActivate, FollowDamaged
<1>17. CASE RetireSettled \/ Exit
  BY <1>17, FollowEnd
<1>18. CASE ForeignEdit
  BY <1>1, <1>18, FollowEdits
<1>19. CASE \E kind \in Intrusions : Intrude(kind)
  BY <1>19, FollowIntrude
<1>20. CASE UNCHANGED vars
  BY <1>20 DEF vars, Followed
<1> QED
  BY <1>2, <1>3, <1>4, <1>5, <1>6, <1>7, <1>8, <1>9, <1>10, <1>11, <1>12, <1>13, <1>14,
     <1>15, <1>16, <1>17, <1>18, <1>19, <1>20 DEF Next, IoStep

LEMMA AlwaysFollowed == Spec => [](Certain /\ Quiet /\ Followed)
<1>1. Init => Certain /\ Quiet /\ Followed
  BY InitCertain, InitQuiet, InitFollowed
<1>2. (Certain /\ Quiet /\ Followed) /\ [Next]_vars => (Certain /\ Quiet /\ Followed)'
  BY NextCertain, NextQuiet, NextFollowed
<1> QED  BY <1>1, <1>2, PTL DEF Spec

(* Whenever the owner ends, between any two steps of a rewind, the next    *)
(* owner can tell from the row and the file whether the rewind happened,   *)
(* and the native binding it adopts has seen exactly the rewinds the file  *)
(* has: history and binding move as one.                                   *)
THEOREM BindingFollows == Spec => []BindingFollowsHistory
<1>1. Certain /\ Quiet /\ Followed => BindingFollowsHistory
  <2> SUFFICES ASSUME Certain, Followed, w.durable > 0, "foreign" \notin excuses
               PROVE  /\ Resolvable(meta, file)
                      /\ Resolved(meta, file).bind = Cardinality({c \in cuts : c <= Revision(file)})
    BY DEF BindingFollowsHistory
  <2>1. Sure /\ meta # NoRow
    BY NowFacts DEF Certain, Stored, RowOk
  <2>2. Readable(file) /\ meta \in RowT /\ FileOk(file, gens, excuses)
    BY <2>1, RowHasFile
  <2>3. Decided(file.gen, Revision(file), meta, cuts)
    BY <2>1, <2>2 DEF Followed, BindingInv, Bound
  <2>4. TailState(file) # "invalid"
    BY <2>2, WholeFile
  <2>5. Resolvable(meta, file)
    BY <2>2, <2>3, <2>4 DEF Resolvable, Decided
  <2>6. Resolved(meta, file).bind = Cardinality(Cuts(cuts, Revision(file)))
    BY <2>2, <2>3, ResolvedBinds
  <2> QED  BY <2>5, <2>6 DEF Cuts
<1> QED  BY <1>1, AlwaysFollowed, PTL

-----------------------------------------------------------------------------
(* How far the numbers go.  First the bounds and what lies within them.    *)

LEMMA TopIs ==
  ASSUME NEW o \in Nat, NEW e
  PROVE  /\ Top(o, e) \in Nat /\ MaxRevision - 1 + o <= Top(o, e)
         /\ Top(o, e) <= MaxRevision + o /\ Top(o + 1, e) = Top(o, e) + 1
         /\ o # 0 => MaxRevision <= Top(o, e)
         /\ \A e2 : ("foreign" \in e <=> "foreign" \in e2) => Top(o, e2) = Top(o, e)
         /\ \A e2 : "foreign" \notin e /\ "foreign" \in e2 => Top(o, e2) = Top(o, e) + 1
BY BoundsAssumption DEF Top

LEMMA WiderBatches ==
  ASSUME NEW r \in Nat, NEW r2 \in Nat, r <= r2, NEW n \in Nat, NEW n2 \in Nat, n <= n2
  PROVE  /\ Seq(0 .. n) \subseteq Seq(0 .. n2)
         /\ Seq(Seq(0 .. n)) \subseteq Seq(Seq(0 .. n2))
         /\ BatchesTo(r, n) \subseteq BatchesTo(r2, n2)
         /\ Seq(BatchesTo(r, n)) \subseteq Seq(BatchesTo(r2, n2))
<1>1. 0 .. n \subseteq 0 .. n2 /\ 0 .. r \subseteq 0 .. r2
  OBVIOUS
<1>2. Seq(0 .. n) \subseteq Seq(0 .. n2)
  BY <1>1, SeqMonotonic
<1>3. BatchesTo(r, n) \subseteq BatchesTo(r2, n2)
  BY <1>1, <1>2 DEF BatchesTo
<1> QED  BY <1>2, <1>3, SeqMonotonic

LEMMA WiderParts ==
  ASSUME NEW r \in Nat, NEW r2 \in Nat, r <= r2, NEW n \in Nat, NEW n2 \in Nat, n <= n2,
         NEW g \in Nat, NEW g2 \in Nat, g <= g2
  PROVE  /\ \A f : FileFits(f, r, n) => FileFits(f, r2, n2)
         /\ \A x : x.live \in Nat /\ WriterFits(x, r, n) => WriterFits(x, r2, n2)
         /\ \A s : StoreFits(s, r, g) => StoreFits(s, r2, g2)
         /\ PointsTo(g, r) \subseteq PointsTo(g2, r2)
<1>1. /\ Seq(0 .. n) \subseteq Seq(0 .. n2) /\ BatchesTo(r, n) \subseteq BatchesTo(r2, n2)
      /\ Seq(BatchesTo(r, n)) \subseteq Seq(BatchesTo(r2, n2))
  BY WiderBatches
<1>2. 0 .. r \subseteq 0 .. r2 /\ 0 .. g \subseteq 0 .. g2
  OBVIOUS
<1>3. PointsTo(g, r) \subseteq PointsTo(g2, r2)
  BY <1>2 DEF PointsTo
<1>4. ASSUME NEW f, FileFits(f, r, n) PROVE FileFits(f, r2, n2)
  BY <1>1, <1>2, <1>4 DEF FileFits
<1>5. ASSUME NEW x, x.live \in Nat, WriterFits(x, r, n) PROVE WriterFits(x, r2, n2)
  BY <1>1, <1>5 DEF WriterFits
<1>6. ASSUME NEW s, StoreFits(s, r, g) PROVE StoreFits(s, r2, g2)
  BY <1>3, <1>6 DEF StoreFits
<1> QED  BY <1>3, <1>4, <1>5, <1>6

LEMMA NoBatchFits ==
  ASSUME NEW r \in Nat, NEW n \in Nat
  PROVE  /\ NoBatch \in BatchesTo(r, n) /\ <<>> \in Seq(BatchesTo(r, n)) /\ <<>> \in Seq(0 .. n)
         /\ <<>> \in Seq(Seq(0 .. n))
<1>1. <<>> \in Seq(BatchesTo(r, n)) /\ <<>> \in Seq(0 .. n) /\ <<>> \in Seq(Seq(0 .. n))
  BY EmptySeq
<1>2. 0 \in 0 .. MaxOpens + 1
  BY BoundsAssumption
<1> QED  BY <1>1, <1>2 DEF NoBatch, Batch, BatchesTo

LEMMA SaidFits ==
  ASSUME NEW n \in Nat, NEW h \in Seq(Seq(0 .. n)), NEW k \in 0 .. Len(h)
  PROVE  Said(h, k) \in Seq(0 .. n)
<1>1. Len(h) \in Nat /\ <<>> \in Seq(0 .. n)
  BY LenProperties, EmptySeq
<1>2. k # 0 => h[k] \in Seq(0 .. n)
  BY <1>1, ElementOfSeq
<1> QED  BY <1>1, <1>2 DEF Said

LEMMA ContentFits ==
  ASSUME NEW f, NEW g, NEW e, FileOk(f, g, e), NEW r \in Nat, NEW n \in Nat, FileFits(f, r, n)
  PROVE  Content(f) \in Seq(0 .. n) /\ Revision(f) \in 0 .. r
<1>1. /\ Len(f.rows) \in Nat /\ Valid(f) = Len(f.rows)
      /\ Revision(f) = Reach(f, Len(f.rows))
  BY WholeFile
<1>2. \A i \in 1 .. Len(f.rows) : f.rows[i] \in BatchesTo(r, n)
  BY ElementOfSeq DEF FileFits
<1>3. \A i \in 1 .. Len(f.rows) : f.rows[i].ops \in Seq(0 .. n) /\ f.rows[i].to \in 0 .. r
  BY <1>2 DEF BatchesTo
<1>4. PICK t : t = [i \in 1 .. Len(f.rows) |-> f.rows[i].ops]
  OBVIOUS
<1>5. \A i \in 1 .. Len(f.rows) : t[i] = f.rows[i].ops
  BY <1>4
<1>6. FlattenSeq([i \in 1 .. Len(f.rows) |-> t[i]]) \in Seq(0 .. n)
  BY <1>1, <1>3, <1>5, FlattenType
<1>7. t = [i \in 1 .. Len(f.rows) |-> t[i]]
  BY <1>4
<1>8. Content(f) = f.ops \o FlattenSeq(t)
  BY <1>1, <1>4 DEF Content
<1>9. f.ops \in Seq(0 .. n) /\ f.base \in 0 .. r
  BY DEF FileFits
<1>10. FlattenSeq(t) \in Seq(0 .. n)
  BY <1>6, <1>7
<1>11. Content(f) \in Seq(0 .. n)
  BY <1>8, <1>9, <1>10, ConcatProperties
<1> QED  BY <1>1, <1>3, <1>9, <1>11 DEF Reach

(* What Measured says of the present state. *)
LEMMA MeasureNow ==
  ASSUME Sure, Measured
  PROVE  /\ Top(opens, excuses) \in Nat /\ ops \in Nat /\ gens \in Nat
         /\ FileFits(file, Top(opens, excuses), ops)
         /\ WriterFits(w, Top(opens, excuses), ops)
         /\ io.batch \in BatchesTo(Top(opens, excuses), ops)
         /\ StoreFits(st, Top(opens, excuses), gens)
         /\ history \in Seq(Seq(0 .. ops))
         /\ w.live \in Nat /\ w.live <= Top(opens, excuses) /\ w.live = Len(history)
         /\ w.phase # "cold" => MaxRevision <= Top(opens, excuses)
         /\ w.phase # "cold" => w.proj \in Seq(0 .. ops)
<1>1. /\ w.live \in Nat /\ opens \in Nat /\ gens \in Nat /\ w.live = Len(history)
      /\ ops \in Nat /\ (w.phase # "cold" => opens # 0)
      /\ (w.phase # "cold" => w.proj = Said(history, w.live))
  BY SureFacts, NowFacts DEF Carried
<1>2. Top(opens, excuses) \in Nat /\ (opens # 0 => MaxRevision <= Top(opens, excuses))
  BY <1>1, TopIs
<1>3. /\ FileFits(file, Top(opens, excuses), ops)
      /\ WriterFits(w, Top(opens, excuses), ops)
      /\ io.batch \in BatchesTo(Top(opens, excuses), ops)
      /\ StoreFits(st, Top(opens, excuses), gens)
      /\ history \in Seq(Seq(0 .. ops))
  BY DEF Measured, Fits
<1>4. w.live <= Top(opens, excuses)
  BY <1>3 DEF WriterFits
<1>5. w.phase # "cold" => w.proj \in Seq(0 .. ops)
  BY <1>1, <1>3, SaidFits
<1> QED  BY <1>1, <1>2, <1>3, <1>4, <1>5

(* A step of the present owner: nothing is opened and nobody intrudes. *)
LEMMA MeasureStep ==
  ASSUME Sure, opens' = opens, "foreign" \in excuses <=> "foreign" \in excuses',
         FileFits(file', Top(opens, excuses), ops'), WriterFits(w', Top(opens, excuses), ops'),
         io'.batch \in BatchesTo(Top(opens, excuses), ops'),
         StoreFits(st', Top(opens, excuses), gens'), history' \in Seq(Seq(0 .. ops'))
  PROVE  Measured'
<1>1. opens \in Nat
  BY SureFacts
<1>2. PICK e : e = excuses'
  OBVIOUS
<1>3. "foreign" \in excuses <=> "foreign" \in e
  BY <1>2
<1>5. Top(opens, e) = Top(opens, excuses)
  BY <1>3 DEF Top
<1>4. Top(opens', excuses') = Top(opens, excuses)
  BY <1>2, <1>5
<1> QED  BY <1>4 DEF Measured, Fits

LEMMA QueueFits ==
  ASSUME NEW r \in Nat, NEW n \in Nat, NEW q \in Seq(BatchesTo(r, n)), NEW v \in 0 .. r,
         NEW op \in 0 .. n
  PROVE  /\ Queued(q, v, op) \subseteq Seq(BatchesTo(r, n))
         /\ Barrier(q, v) \in Seq(BatchesTo(r, n))
<1>1. q # <<>> => /\ Len(q) \in 1 .. Len(q) /\ q[Len(q)] \in BatchesTo(r, n)
  BY LenProperties, EmptySeq, ElementOfSeq
<1>2. ASSUME NEW b \in BatchesTo(r, n)
      PROVE  /\ Append(q, b) \in Seq(BatchesTo(r, n))
             /\ q # <<>> => [q EXCEPT ![Len(q)] = b] \in Seq(BatchesTo(r, n))
  BY <1>1, AppendProperties, ExceptSeq
<1>3. <<op>> \in Seq(0 .. n) /\ <<>> \in Seq(0 .. n)
  BY EmptySeq
<1>4. 0 \in 0 .. MaxOpens + 1
  BY BoundsAssumption
<1>5. Batch(0, v, v, <<op>>) \in BatchesTo(r, n) /\ Batch(0, v, v, <<>>) \in BatchesTo(r, n)
  BY <1>3, <1>4 DEF Batch, BatchesTo
<1>6. q # <<>> => Merged(q, v, op) \in Seq(BatchesTo(r, n))
  <2> SUFFICES ASSUME q # <<>> PROVE Merged(q, v, op) \in Seq(BatchesTo(r, n))
    OBVIOUS
  <2> DEFINE l == q[Len(q)]
  <2>1. l.ops \in Seq(0 .. n) /\ l.inst \in 0 .. MaxOpens + 1 /\ l.from \in 0 .. r
    BY <1>1 DEF BatchesTo
  <2>2. Append(l.ops, op) \in Seq(0 .. n)
    BY <2>1, AppendProperties
  <2>3. Batch(l.inst, l.from, v, Append(l.ops, op)) \in BatchesTo(r, n)
    BY <2>1, <2>2 DEF Batch, BatchesTo
  <2> HIDE DEF l
  <2>4. [q EXCEPT ![Len(q)] = Batch(l.inst, l.from, v, Append(l.ops, op))]
          \in Seq(BatchesTo(r, n))
    BY <1>2, <2>3
  <2> QED  BY <2>4 DEF Merged, l
<1>7. q # <<>> => [q EXCEPT ![Len(q)].to = v] \in Seq(BatchesTo(r, n))
  <2>1. q # <<>> => [q[Len(q)] EXCEPT !.to = v] \in BatchesTo(r, n)
    BY <1>1 DEF BatchesTo
  <2> QED  BY <1>2, <2>1
<1>8. Append(q, Batch(0, v, v, <<op>>)) \in Seq(BatchesTo(r, n))
  BY <1>2, <1>5
<1>9. Append(q, Batch(0, v, v, <<>>)) \in Seq(BatchesTo(r, n))
  BY <1>2, <1>5
<1> QED  BY <1>6, <1>7, <1>8, <1>9 DEF Queued, Barrier

LEMMA CoreFits ==
  ASSUME NEW r, NEW n, NEW x, NEW y, SameCore(x, y), WriterFits(x, r, n)
  PROVE  WriterFits(y, r, n)
BY DEF SameCore, WriterFits

LEMMA RequestFits ==
  ASSUME NEW r \in Nat, NEW n \in Nat, NEW x, IsWriter(x), WriterFits(x, r, n),
         x.live \in Nat, x.live < r
  PROVE  WriterFits(RequestCommit(x), r, n)
<1>1. PICK z : z = [x EXCEPT !.live = @ + 1,
                     !.queue = IF x.baseline THEN @ ELSE Barrier(@, x.live + 1)]
  OBVIOUS
<1>2. /\ IsWriter(z) /\ z.live = x.live + 1 /\ z.retryBatch = x.retryBatch
      /\ z.queue = IF x.baseline THEN x.queue ELSE Barrier(x.queue, x.live + 1)
  BY <1>1 DEF IsWriter
<1>3. x.live + 1 \in 0 .. r /\ 0 \in 0 .. n
  OBVIOUS
<1>4. Barrier(x.queue, x.live + 1) \in Seq(BatchesTo(r, n))
  BY <1>3, QueueFits DEF WriterFits
<1>5. WriterFits(z, r, n)
  BY <1>2, <1>3, <1>4 DEF WriterFits
<1>6. SameCore(z, Schedule(WatchHealth(z), FALSE, Busy))
  BY <1>2, CoreWatched
<1>7. RequestCommit(x) = Schedule(WatchHealth(z), FALSE, Busy)
  BY <1>1 DEF RequestCommit
<1>8. SameCore(z, RequestCommit(x))
  BY <1>6, <1>7
<1> QED  BY <1>5, <1>8, CoreFits

(* One more operation. *)
LEMMA MeasureMore ==
  ASSUME Sure, Measured, ops' = ops + 1, w.phase # "cold", w.live < MaxRevision
  PROVE  /\ ops' \in Nat /\ ops' \in 0 .. ops' /\ w.live + 1 \in 0 .. Top(opens, excuses)
         /\ Append(w.proj, ops') \in Seq(0 .. ops')
         /\ Append(history, Append(w.proj, ops')) \in Seq(Seq(0 .. ops'))
         /\ FileFits(file, Top(opens, excuses), ops')
         /\ WriterFits(w, Top(opens, excuses), ops')
         /\ io.batch \in BatchesTo(Top(opens, excuses), ops')
<1>1. PICK r, n : r = Top(opens, excuses) /\ n = ops'
  OBVIOUS
<1>2. /\ r \in Nat /\ ops \in Nat /\ gens \in Nat /\ FileFits(file, r, ops)
      /\ WriterFits(w, r, ops) /\ io.batch \in BatchesTo(r, ops)
      /\ history \in Seq(Seq(0 .. ops)) /\ w.live \in Nat /\ MaxRevision <= r
      /\ w.proj \in Seq(0 .. ops)
  BY <1>1, MeasureNow
<1>3. n \in Nat /\ ops <= n /\ n \in 0 .. n /\ r <= r /\ gens <= gens
  BY <1>1, <1>2
<1>4. /\ Seq(0 .. ops) \subseteq Seq(0 .. n) /\ Seq(Seq(0 .. ops)) \subseteq Seq(Seq(0 .. n))
      /\ BatchesTo(r, ops) \subseteq BatchesTo(r, n)
  BY <1>2, <1>3, WiderBatches
<1>5. FileFits(file, r, n) /\ WriterFits(w, r, n)
  BY <1>2, <1>3, WiderParts
<1>6. Append(w.proj, n) \in Seq(0 .. n)
  BY <1>2, <1>3, <1>4, AppendProperties
<1>7. Append(history, Append(w.proj, n)) \in Seq(Seq(0 .. n))
  BY <1>2, <1>4, <1>6, AppendProperties
<1>8. w.live + 1 \in 0 .. r
  BY <1>2, BoundsAssumption
<1> QED  BY <1>1, <1>2, <1>3, <1>4, <1>5, <1>6, <1>7, <1>8

LEMMA DerivedFits ==
  ASSUME Sure, NEW r, NEW g, StoreFits(st, r, g), NEW m
  PROVE  StoreFits(Derived(st, m), r, g)
<1>1. PICK c : c = [st.cur EXCEPT !.stats = Len(m)]
  OBVIOUS
<1>2. Derived(st, m) = [st EXCEPT !.cur = c, !.pend = st.pend \cup {"stats"}]
  BY <1>1, DerivedParts
<1>3. StoreShape(st)
  BY SureFacts
<1>4. Derived(st, m).pend = st.pend \cup {"stats"} /\ Derived(st, m).mut = st.mut
  BY <1>2, <1>3 DEF StoreShape
<1> QED  BY <1>4 DEF StoreFits, Keys

LEMMA MeasureObserve ==
  ASSUME Sure, Measured, Observe
  PROVE  Measured'
<1>1. PICK r, n : r = Top(opens, excuses) /\ n = ops'
  OBVIOUS
<1>2. /\ w.phase # "cold" /\ w.live < MaxRevision /\ ops' = ops + 1 /\ file' = file /\ io' = io
      /\ excuses' = excuses /\ opens' = opens /\ gens' = gens
      /\ st' = Derived(st, w'.proj) /\ history' = Append(history, w'.proj)
  BY DEF Observe, Active
<1>3. /\ n \in Nat /\ n \in 0 .. n /\ w.live + 1 \in 0 .. r /\ FileFits(file, r, n)
      /\ WriterFits(w, r, n) /\ io.batch \in BatchesTo(r, n)
      /\ Append(history, Append(w.proj, n)) \in Seq(Seq(0 .. n))
  BY <1>1, <1>2, MeasureMore
<1>4. IsWriter(w) /\ r \in Nat /\ StoreFits(st, r, gens)
  BY <1>1, SureFacts, MeasureNow
<1>5. PICK q \in Queued(w.queue, w.live + 1, ops'), boundary \in BOOLEAN :
         w' = Schedule(WatchHealth([w EXCEPT
                !.live = @ + 1, !.proj = Append(@, ops'),
                !.queue = IF w.baseline THEN @ ELSE q]), boundary, Busy)
  BY DEF Observe
<1>6. PICK z : z = [w EXCEPT !.live = @ + 1, !.proj = Append(@, ops'),
                             !.queue = IF w.baseline THEN @ ELSE q]
  OBVIOUS
<1>7. /\ IsWriter(z) /\ z.live = w.live + 1 /\ z.proj = Append(w.proj, n)
      /\ z.queue = (IF w.baseline THEN w.queue ELSE q) /\ z.retryBatch = w.retryBatch
  BY <1>1, <1>4, <1>6 DEF IsWriter
<1>8. Queued(w.queue, w.live + 1, n) \subseteq Seq(BatchesTo(r, n))
  BY <1>3, <1>4, QueueFits DEF WriterFits
<1>9. q \in Seq(BatchesTo(r, n))
  BY <1>1, <1>5, <1>8
<1>10. WriterFits(z, r, n)
  BY <1>3, <1>4, <1>7, <1>9 DEF WriterFits
<1>11. SameCore(z, w')
  BY <1>5, <1>6, <1>7, CoreWatched
<1>12. WriterFits(w', r, n) /\ w'.proj = Append(w.proj, n)
  BY <1>7, <1>10, <1>11, CoreFits DEF SameCore
<1>13. history' \in Seq(Seq(0 .. n))
  BY <1>2, <1>3, <1>12
<1>14. StoreFits(st', r, gens')
  BY <1>2, <1>4, DerivedFits
<1> QED  BY <1>1, <1>2, <1>3, <1>12, <1>13, <1>14, MeasureStep

LEMMA MeasureObserveFault ==
  ASSUME Sure, Measured, ObserveFault
  PROVE  Measured'
<1>1. PICK r : r = Top(opens, excuses)
  OBVIOUS
<1>2. /\ w.phase # "cold" /\ file' = file /\ io' = io /\ opens' = opens /\ gens' = gens
      /\ IsWriter(w)
      /\ "foreign" \in excuses <=> "foreign" \in excuses'
  BY SureFacts DEF ObserveFault, Active
<1>3. /\ FileFits(file, r, ops) /\ WriterFits(w, r, ops) /\ io.batch \in BatchesTo(r, ops)
      /\ StoreFits(st, r, gens) /\ history \in Seq(Seq(0 .. ops)) /\ r \in Nat
  BY <1>1, MeasureNow
<1>4. CASE /\ w' = Fail([w EXCEPT !.complete = FALSE, !.blocked = TRUE], "degraded")
           /\ UNCHANGED <<st, history, ops>>
  <2>1. PICK z : z = [w EXCEPT !.complete = FALSE, !.blocked = TRUE]
    OBVIOUS
  <2>2. IsWriter(z) /\ z.live = w.live /\ z.queue = w.queue /\ z.retryBatch = w.retryBatch
    BY <1>2, <2>1 DEF IsWriter
  <2>3. SameCore(z, w')
    BY <1>4, <2>1, <2>2, CoreFails
  <2>4. WriterFits(z, r, ops)
    BY <1>3, <2>2 DEF WriterFits
  <2>5. WriterFits(w', r, ops)
    BY <2>3, <2>4, CoreFits
  <2> QED  BY <1>1, <1>2, <1>3, <1>4, <2>5, MeasureStep
<1>5. CASE /\ w' = Fail([w EXCEPT !.complete = FALSE, !.blocked = TRUE,
                            !.live = @ + 1, !.proj = Append(@, ops')], "degraded")
           /\ st' = Derived(st, w'.proj) /\ ops' = ops + 1 /\ w.live < MaxRevision
           /\ history' = Append(history, w'.proj)
  <2>1. PICK z, n : z = [w EXCEPT !.complete = FALSE, !.blocked = TRUE, !.live = @ + 1,
                                  !.proj = Append(@, ops')] /\ n = ops'
    OBVIOUS
  <2>2. /\ n \in Nat /\ w.live + 1 \in 0 .. r /\ FileFits(file, r, n)
        /\ WriterFits(w, r, n) /\ io.batch \in BatchesTo(r, n)
        /\ Append(history, Append(w.proj, n)) \in Seq(Seq(0 .. n))
    BY <1>1, <1>2, <1>5, <2>1, MeasureMore
  <2>3. /\ IsWriter(z) /\ z.live = w.live + 1 /\ z.queue = w.queue
        /\ z.retryBatch = w.retryBatch /\ z.proj = Append(w.proj, n)
    BY <1>2, <2>1 DEF IsWriter
  <2>4. SameCore(z, w')
    BY <1>5, <2>1, <2>3, CoreFails
  <2>5. WriterFits(z, r, n)
    BY <1>3, <2>2, <2>3 DEF WriterFits
  <2>6. WriterFits(w', r, n) /\ w'.proj = Append(w.proj, n)
    BY <2>3, <2>4, <2>5, CoreFits DEF SameCore
  <2>7. StoreFits(st', r, gens')
    BY <1>2, <1>3, <1>5, DerivedFits
  <2>8. history' \in Seq(Seq(0 .. n))
    BY <1>5, <2>2, <2>6
  <2> QED  BY <1>1, <1>2, <2>1, <2>2, <2>6, <2>7, <2>8, MeasureStep
<1> QED  BY <1>4, <1>5 DEF ObserveFault

LEMMA MeasurePatch ==
  ASSUME Sure, Measured, PatchMetadata
  PROVE  Measured'
<1>1. PICK r : r = Top(opens, excuses)
  OBVIOUS
<1>2. /\ w.phase # "cold" /\ file' = file /\ io' = io /\ opens' = opens /\ gens' = gens
      /\ excuses' = excuses /\ ops' = ops /\ w.live < MaxRevision
      /\ IsWriter(w) /\ StoreShape(st)
  BY SureFacts DEF PatchMetadata, Active
<1>3. /\ FileFits(file, r, ops) /\ WriterFits(w, r, ops) /\ io.batch \in BatchesTo(r, ops)
      /\ StoreFits(st, r, gens) /\ history \in Seq(Seq(0 .. ops)) /\ r \in Nat /\ ops \in Nat
      /\ w.live \in Nat /\ MaxRevision <= r /\ w.proj \in Seq(0 .. ops)
  BY <1>1, <1>2, MeasureNow
<1>4. PICK c : c = [st.cur EXCEPT !.title = @ + 1]
  OBVIOUS
<1>5. st' = [st EXCEPT !.cur = c, !.pend = st.pend \cup {"title"}]
  BY <1>4, TitleParts
<1>6. st'.pend = st.pend \cup {"title"} /\ st'.mut = st.mut
  BY <1>2, <1>5 DEF StoreShape
<1>7. StoreFits(st', r, gens)
  BY <1>3, <1>6 DEF StoreFits, Keys
<1>8. CASE w' = w /\ history' = history
  BY <1>1, <1>2, <1>3, <1>7, <1>8, MeasureStep
<1>9. CASE w' = RequestCommit(w) /\ history' = Append(history, w.proj)
  <2>1. w.live < r
    BY <1>2, <1>3, BoundsAssumption
  <2>2. WriterFits(w', r, ops)
    BY <1>2, <1>3, <1>9, <2>1, RequestFits
  <2>3. history' \in Seq(Seq(0 .. ops))
    BY <1>3, <1>9, AppendProperties
  <2> QED  BY <1>1, <1>2, <1>3, <1>7, <2>2, <2>3, MeasureStep
<1> QED  BY <1>8, <1>9 DEF PatchMetadata

LEMMA FirstOnes ==
  ASSUME NEW T, NEW s \in Seq(T), NEW n \in Nat, n < Len(s)
  PROVE  SubSeq(s, 1, n) \in Seq(T)
<1>1. Len(s) \in Nat
  BY LenProperties
<1>2. ASSUME NEW i \in 1 .. n PROVE s[i] \in T
  BY <1>1, ElementOfSeq
<1> QED  BY <1>2, SubSeqProperties

LEMMA MeasureRewind ==
  ASSUME Sure, Quiet, Measured, NEW n \in 0 .. MaxRevision, Rewind(n)
  PROVE  Measured'
<1>1. PICK r : r = Top(opens, excuses)
  OBVIOUS
<1>2. /\ w.phase # "cold" /\ file' = file /\ io' = io /\ opens' = opens /\ gens' = gens
      /\ excuses' = excuses /\ ops' = ops /\ w.live + 2 <= MaxRevision /\ n < Len(w.proj)
      /\ IsWriter(w) /\ StoreShape(st) /\ n \in Nat
  BY SureFacts, RewindFacts DEF Rewind, Active
<1>3. /\ FileFits(file, r, ops) /\ WriterFits(w, r, ops) /\ io.batch \in BatchesTo(r, ops)
      /\ StoreFits(st, r, gens) /\ history \in Seq(Seq(0 .. ops)) /\ r \in Nat /\ ops \in Nat
      /\ w.live \in Nat /\ MaxRevision <= r /\ w.proj \in Seq(0 .. ops)
      /\ history \in Seq(Seq(Nat)) /\ w.proj \in Seq(Nat) /\ gens \in Nat
  BY <1>1, <1>2, MeasureNow, SureFacts, NowFacts
<1>4. PICK m : m = SubSeq(w.proj, 1, n)
  OBVIOUS
<1>5. m \in Seq(0 .. ops) /\ m \in Seq(Nat)
  BY <1>2, <1>3, <1>4, FirstOnes
<1>6. PICK z : z = [w EXCEPT !.proj = m, !.live = @ + 1, !.queue = <<>>, !.baseline = TRUE]
  OBVIOUS
<1>7. /\ IsWriter(z) /\ z.live = w.live + 1 /\ z.retryBatch = w.retryBatch
      /\ z.queue = <<>> /\ z.proj = m
  <2>1. PICK q : q = <<>>
    OBVIOUS
  <2>2. z = [w EXCEPT !.proj = m, !.live = @ + 1, !.queue = q, !.baseline = TRUE]
    BY <1>6, <2>1
  <2>3. z.queue = q
    BY <1>2, <2>2 DEF IsWriter
  <2> QED  BY <1>2, <2>1, <2>2, <2>3 DEF IsWriter
<1>8. w.live + 1 < r /\ MaxRevision \in Nat
  BY <1>2, <1>3, BoundsAssumption
<1>9. <<>> \in Seq(BatchesTo(r, ops))
  BY <1>3, NoBatchFits
<1>10. WriterFits(z, r, ops)
  BY <1>3, <1>7, <1>8, <1>9 DEF WriterFits
<1>11. PICK x : x = Schedule(WatchHealth(z), TRUE, FALSE)
  OBVIOUS
<1>12. SameCore(z, x)
  BY <1>7, <1>11, CoreWatched
<1>13. WriterFits(x, r, ops) /\ IsWriter(x) /\ x.live = w.live + 1 /\ x.proj = m
  BY <1>7, <1>10, <1>12, CoreFits DEF SameCore
<1>14. w' = RequestCommit(x) /\ history' = history \o <<m, m>>
  <2>1. x = Schedule(WatchHealth([w EXCEPT !.proj = SubSeq(@, 1, n), !.live = @ + 1,
                                !.queue = <<>>, !.baseline = TRUE]), TRUE, FALSE)
    BY <1>4, <1>6, <1>11
  <2>2. w' = RequestCommit(x) /\ history' = history \o <<x.proj, x.proj>>
    BY <2>1 DEF Rewind
  <2> QED  BY <2>2, <1>13
<1>15. WriterFits(w', r, ops)
  <2>1. x.live \in Nat /\ x.live < r
    BY <1>3, <1>8, <1>13
  <2>2. WriterFits(RequestCommit(x), r, ops)
    BY <1>3, <1>13, <2>1, RequestFits
  <2> QED  BY <1>14, <2>2
<1>16. history' \in Seq(Seq(0 .. ops))
  <2>1. history' = Append(Append(history, m), m)
    BY <1>3, <1>5, <1>14, AppendTwice
  <2>2. PICK h : h = Append(history, m)
    OBVIOUS
  <2>3. h \in Seq(Seq(0 .. ops))
    BY <1>3, <1>5, <2>2, AppendProperties
  <2>4. Append(h, m) \in Seq(Seq(0 .. ops))
    BY <1>5, <2>3, AppendProperties
  <2> QED  BY <2>1, <2>2, <2>4
<1>17. StoreFits(st', r, gens')
  <2>1. PICK u : u = [NoMutation EXCEPT !.open = TRUE]
    OBVIOUS
  <2>2. PICK c : c = [st.cur EXCEPT !.bind = @ + 1, !.stats = n, !.intent = NoIntent]
    OBVIOUS
  <2>3. st' = [st EXCEPT !.cur = c, !.pend = Keys, !.mut = u]
    BY <1>2, <2>1, <2>2 DEF Rewind, StoreShape
  <2>4. u.target = Point(0, 0)
    BY <2>1 DEF NoMutation
  <2>5. st'.mut = u /\ st'.pend = Keys
    BY <1>2, <2>3 DEF StoreShape
  <2>6. Point(0, 0) \in PointsTo(gens, r)
    BY <1>3 DEF Point, PointsTo
  <2> QED  BY <1>2, <2>4, <2>5, <2>6 DEF StoreFits
<1> QED  BY <1>1, <1>2, <1>3, <1>15, <1>16, <1>17, MeasureStep

LEMMA MeasureTimeouts ==
  ASSUME Sure, Measured, HealthTimeout \/ Retire \/ RetireTimeout \/ Revoke
  PROVE  Measured'
<1>1. PICK r : r = Top(opens, excuses)
  OBVIOUS
<1>2. /\ file' = file /\ io' = io /\ st' = st /\ opens' = opens /\ gens' = gens
      /\ excuses' = excuses /\ ops' = ops /\ history' = history /\ IsWriter(w)
  BY SureFacts DEF HealthTimeout, Retire, RetireTimeout, Revoke, disk, ghosts, counts
<1>3. /\ FileFits(file, r, ops) /\ WriterFits(w, r, ops) /\ io.batch \in BatchesTo(r, ops)
      /\ StoreFits(st, r, gens) /\ history \in Seq(Seq(0 .. ops)) /\ r \in Nat /\ ops \in Nat
  BY <1>1, MeasureNow
<1>4. WriterFits(w', r, ops)
  <2>1. CASE HealthTimeout
    <3>1. PICK z : z = [w EXCEPT !.watch = FALSE]
      OBVIOUS
    <3>2. SameCore(w, z) /\ IsWriter(z)
      BY <1>2, <3>1 DEF IsWriter, SameCore
    <3>3. SameCore(z, w')
      BY <2>1, <3>1, <3>2, CoreFails DEF HealthTimeout
    <3> QED  BY <1>3, <3>2, <3>3, CoreFits
  <2>2. CASE Retire
    <3>1. SameCore(w, w')
      BY <1>2, <2>2 DEF Retire, IsWriter, SameCore
    <3> QED  BY <1>3, <3>1, CoreFits
  <2>3. CASE RetireTimeout
    <3>1. PICK z : z = [w EXCEPT !.retiring = FALSE]
      OBVIOUS
    <3>2. SameCore(w, z) /\ IsWriter(z)
      BY <1>2, <3>1 DEF IsWriter, SameCore
    <3>3. w' = Schedule(z, FALSE, Busy)
      BY <2>3, <3>1 DEF RetireTimeout
    <3>4. SameCore(z, w')
      BY <3>2, <3>3, CoreHelpers
    <3> QED  BY <1>3, <3>2, <3>4, CoreFits
  <2>4. CASE Revoke
    <3>1. PICK q : q = <<>>
      OBVIOUS
    <3>2. w' = [w EXCEPT !.phase = "closed", !.timer = "off", !.watch = FALSE, !.queue = q]
      BY <2>4, <3>1 DEF Revoke
    <3>3. w'.queue = q /\ w'.live = w.live /\ w'.retryBatch = w.retryBatch
      BY <1>2, <3>2 DEF IsWriter
    <3>4. q \in Seq(BatchesTo(r, ops))
      BY <1>3, <3>1, NoBatchFits
    <3> QED  BY <1>3, <3>3, <3>4 DEF WriterFits
  <2> QED  BY <2>1, <2>2, <2>3, <2>4
<1> QED  BY <1>1, <1>2, <1>3, <1>4, MeasureStep

LEMMA BatchedFits ==
  ASSUME NEW r \in Nat, NEW n \in Nat, NEW q \in Seq(BatchesTo(r, n)), NEW k \in 1 .. Len(q),
         opens \in 0 .. MaxOpens
  PROVE  Batched(q, k) \in BatchesTo(r, n)
<1>1. Len(q) \in Nat
  BY LenProperties
<1>2. ASSUME NEW i \in 1 .. k
      PROVE  q[i].ops \in Seq(0 .. n) /\ q[i].from \in 0 .. r /\ q[i].to \in 0 .. r
  <2>1. i \in 1 .. Len(q)
    BY <1>1
  <2>2. q[i] \in BatchesTo(r, n)
    BY <2>1, ElementOfSeq
  <2> QED  BY <2>2 DEF BatchesTo
<1>3. PICK t : t = [i \in 1 .. k |-> q[i].ops]
  OBVIOUS
<1>4. \A i \in 1 .. k : t[i] \in Seq(0 .. n)
  BY <1>2, <1>3
<1>5. FlattenSeq([i \in 1 .. k |-> t[i]]) \in Seq(0 .. n)
  <2>1. k \in Nat
    BY <1>1
  <2> DEFINE T == 0 .. n
  <2>2. \A i \in 1 .. k : t[i] \in Seq(T)
    BY <1>4
  <2> HIDE DEF T
  <2>3. FlattenSeq([i \in 1 .. k |-> t[i]]) \in Seq(T)
    BY <2>1, <2>2, FlattenType
  <2> QED  BY <2>3 DEF T
<1>6. t = [i \in 1 .. k |-> t[i]]
  BY <1>3
<1>7. FlattenSeq(t) \in Seq(0 .. n)
  BY <1>5, <1>6
<1>8. Batched(q, k) = Batch(opens, q[1].from, q[k].to, FlattenSeq(t))
  BY <1>3 DEF Batched
<1>9. q[1].from \in 0 .. r /\ q[k].to \in 0 .. r
  BY <1>1, <1>2
<1>10. opens \in 0 .. MaxOpens + 1
  BY BoundsAssumption
<1>11. ASSUME NEW o \in 0 .. MaxOpens + 1, NEW a \in 0 .. r, NEW b \in 0 .. r,
              NEW text \in Seq(0 .. n)
       PROVE  Batch(o, a, b, text) \in BatchesTo(r, n)
  BY DEF Batch, BatchesTo
<1>12. Batch(opens, q[1].from, q[k].to, FlattenSeq(t)) \in BatchesTo(r, n)
  BY <1>7, <1>9, <1>10, <1>11, Zenon
<1> QED  BY <1>8, <1>12, Zenon

LEMMA RestFits ==
  ASSUME NEW T, NEW q \in Seq(T), NEW n \in 1 .. Len(q)
  PROVE  SubSeq(q, n + 1, Len(q)) \in Seq(T)
<1>1. Len(q) \in Nat
  BY LenProperties
<1>2. ASSUME NEW i \in n + 1 .. Len(q) PROVE q[i] \in T
  BY <1>1, ElementOfSeq
<1> QED  BY <1>1, <1>2, SubSeqProperties

LEMMA MeasureStart ==
  ASSUME Sure, Measured, TimerFire \/ Flush
  PROVE  Measured'
<1>1. PICK r : r = Top(opens, excuses)
  OBVIOUS
<1>2. /\ file' = file /\ st' = st /\ opens' = opens /\ gens' = gens
      /\ excuses' = excuses /\ ops' = ops /\ history' = history /\ IsWriter(w)
      /\ StartWrite([w EXCEPT !.timer = "off"]) /\ opens \in 0 .. MaxOpens
  BY SureFacts DEF TimerFire, Flush, disk, ghosts, counts
<1>3. /\ FileFits(file, r, ops) /\ WriterFits(w, r, ops) /\ io.batch \in BatchesTo(r, ops)
      /\ StoreFits(st, r, gens) /\ history \in Seq(Seq(0 .. ops)) /\ r \in Nat /\ ops \in Nat
  BY <1>1, MeasureNow
<1>4. PICK x : x = [w EXCEPT !.timer = "off"]
  OBVIOUS
<1>5. SameCore(w, x) /\ IsWriter(x)
  BY <1>2, <1>4 DEF IsWriter, SameCore
<1>6. WriterFits(x, r, ops)
  BY <1>3, <1>5, CoreFits
<1>7. \A b : AppendJob(x, b).batch = b
  BY DEF AppendJob, Idle
<1>8. WriterFits(w', r, ops) /\ io'.batch \in BatchesTo(r, ops)
  <2>1. CASE w' = x /\ io' = io
    BY <1>3, <1>6, <2>1
  <2>2. CASE w' = x /\ io' = AppendJob(x, x.retryBatch)
    BY <1>6, <1>7, <2>2 DEF WriterFits
  <2>3. CASE /\ w' = [x EXCEPT !.queue = <<>>, !.baseline = FALSE, !.emptyPending = FALSE]
             /\ io' = ReplaceJob(x)
    <3>1. PICK q : q = <<>>
      OBVIOUS
    <3>2. w'.queue = q /\ w'.live = x.live /\ w'.retryBatch = x.retryBatch
      BY <1>5, <2>3, <3>1 DEF IsWriter
    <3>3. io'.batch = NoBatch
      BY <2>3 DEF ReplaceJob, Idle
    <3> QED  BY <1>3, <1>6, <3>1, <3>2, <3>3, NoBatchFits DEF WriterFits
  <2>4. CASE \E n \in 1 .. Len(x.queue) :
               /\ w' = [x EXCEPT !.queue = SubSeq(@, n + 1, Len(@))]
               /\ io' = AppendJob(x, Batched(x.queue, n))
    <3>1. PICK n \in 1 .. Len(x.queue) :
               /\ w' = [x EXCEPT !.queue = SubSeq(@, n + 1, Len(@))]
               /\ io' = AppendJob(x, Batched(x.queue, n))
      BY <2>4
    <3>2. x.queue \in Seq(BatchesTo(r, ops))
      BY <1>6 DEF WriterFits
    <3>3. PICK q : q = SubSeq(x.queue, n + 1, Len(x.queue))
      OBVIOUS
    <3>4. q \in Seq(BatchesTo(r, ops))
      BY <3>2, <3>3, RestFits
    <3>5. w' = [x EXCEPT !.queue = q]
      BY <1>5, <3>1, <3>3
    <3>6. w'.queue = q /\ w'.live = x.live /\ w'.retryBatch = x.retryBatch
      BY <1>5, <3>5 DEF IsWriter
    <3>7. Batched(x.queue, n) \in BatchesTo(r, ops)
      BY <1>2, <1>3, <3>2, BatchedFits
    <3>8. io'.batch = Batched(x.queue, n)
      BY <1>7, <3>1
    <3> QED  BY <1>6, <3>4, <3>6, <3>7, <3>8 DEF WriterFits
  <2> QED  BY <1>2, <1>4, <2>1, <2>2, <2>3, <2>4 DEF StartWrite
<1> QED  BY <1>1, <1>2, <1>3, <1>8, MeasureStep

(* A write that ends: what was in flight waits to be tried again, or it is *)
(* dropped with the queue. *)
LEMMA EndFits ==
  ASSUME Sure, NEW r \in Nat, NEW n \in Nat, WriterFits(w, r, n),
         io.batch \in BatchesTo(r, n), io # Idle
  PROVE  WriterFits(Failed(w), r, n) /\ WriterFits(Refused(w), r, n)
<1>1. PICK y : y = Failed(w)
  OBVIOUS
<1>2. /\ y.live = w.live /\ y.queue = w.queue
      /\ y.retryBatch \in {w.retryBatch, io.batch}
  BY <1>1, FailedIs
<1>3. WriterFits(y, r, n)
  BY <1>2 DEF WriterFits
<1>4. WriterFits(Refused(w), r, n)
  <2>1. IsWriter(w)
    BY SureFacts
  <2>2. CASE ~io.recover /\ ~w.attempted /\ w.complete
    <3>1. PICK q : q = <<>>
      OBVIOUS
    <3>2. PICK z : z = [w EXCEPT !.attempted = TRUE, !.emptyPending = TRUE, !.baseline = TRUE,
                        !.retryBatch = NoBatch, !.queue = q, !.retrying = FALSE]
      OBVIOUS
    <3>3. IsWriter(z) /\ z.live = w.live /\ z.queue = q /\ z.retryBatch = NoBatch
      BY <2>1, <3>2 DEF IsWriter
    <3>4. Refused(w) = Fail(z, "degraded")
      BY <2>2, <3>1, <3>2 DEF Refused
    <3>5. SameCore(z, Refused(w))
      BY <3>3, <3>4, CoreFails
    <3>6. q \in Seq(BatchesTo(r, n)) /\ NoBatch \in BatchesTo(r, n)
      BY <3>1, NoBatchFits
    <3>7. WriterFits(z, r, n)
      BY <3>3, <3>6 DEF WriterFits
    <3> QED  BY <3>5, <3>7, CoreFits
  <2>3. CASE ~(~io.recover /\ ~w.attempted /\ w.complete)
    <3>1. PICK z : z = [w EXCEPT !.blocked = TRUE, !.retrying = TRUE]
      OBVIOUS
    <3>2. /\ IsWriter(z) /\ z.live = w.live /\ z.queue = w.queue
          /\ z.retryBatch = w.retryBatch
      BY <2>1, <3>1 DEF IsWriter
    <3>3. Refused(w) = Fail(z, "degraded")
      BY <2>3, <3>1 DEF Refused
    <3>4. SameCore(z, Refused(w))
      BY <3>2, <3>3, CoreFails
    <3>5. WriterFits(z, r, n)
      BY <3>2 DEF WriterFits
    <3> QED  BY <3>4, <3>5, CoreFits
  <2> QED  BY <2>2, <2>3
<1> QED  BY <1>1, <1>3, <1>4

LEMMA FinalFits ==
  ASSUME NEW r \in Nat, NEW n \in Nat, NEW y, IsWriter(y), WriterFits(y, r, n), Finally(y)
  PROVE  WriterFits(w', r, n) /\ io'.batch \in BatchesTo(r, n)
<1>1. io' = Idle /\ SameCore(y, w')
  BY FinallySame
<1>2. WriterFits(w', r, n)
  BY <1>1, CoreFits
<1>3. io'.batch = NoBatch
  BY <1>1 DEF Idle
<1> QED  BY <1>2, <1>3, NoBatchFits

LEMMA MeasureIoFail ==
  ASSUME Sure, Measured, IoFail
  PROVE  Measured'
<1>1. PICK r : r = Top(opens, excuses)
  OBVIOUS
<1>2. /\ file' = file /\ st' = st /\ opens' = opens /\ gens' = gens
      /\ excuses' = excuses /\ ops' = ops /\ history' = history /\ io # Idle
      /\ Finally(Failed(w))
  BY DEF IoFail, Busy, disk, ghosts
<1>3. /\ FileFits(file, r, ops) /\ WriterFits(w, r, ops) /\ io.batch \in BatchesTo(r, ops)
      /\ StoreFits(st, r, gens) /\ history \in Seq(Seq(0 .. ops)) /\ r \in Nat /\ ops \in Nat
  BY <1>1, MeasureNow
<1>4. PICK y : y = Failed(w)
  OBVIOUS
<1>5. IsWriter(y) /\ WriterFits(y, r, ops) /\ Finally(y)
  BY <1>2, <1>3, <1>4, FailedIs, EndFits
<1>6. WriterFits(w', r, ops) /\ io'.batch \in BatchesTo(r, ops)
  BY <1>3, <1>5, FinalFits
<1> QED  BY <1>1, <1>2, <1>3, <1>6, MeasureStep

LEMMA FreshFits ==
  ASSUME NEW r \in Nat, NEW n \in Nat, NEW k, NEW g, NEW b \in 0 .. r, NEW t \in Seq(0 .. n)
  PROVE  FileFits(Transcript(k, g, b, t), r, n)
BY NoBatchFits DEF FileFits, Transcript

LEMMA TailFits ==
  ASSUME NEW r, NEW n, NEW f, NEW g, NEW e, FileOk(f, g, e), FileFits(f, r, n),
         NEW b \in BatchesTo(r, n)
  PROVE  FileFits([f EXCEPT !.tail = b], r, n)
BY DEF FileFits, FileOk

LEMMA RowFits ==
  ASSUME NEW r \in Nat, NEW n \in Nat, NEW f, NEW g, NEW e, FileOk(f, g, e),
         FileFits(f, r, n), NEW b \in BatchesTo(r, n)
  PROVE  /\ FileFits([f EXCEPT !.rows = Append(@, b), !.tail = NoBatch], r, n)
         /\ FileFits([f EXCEPT !.rows = Append(@, b)], r, n)
<1>1. PICK q : q = Append(f.rows, b)
  OBVIOUS
<1>2. q \in Seq(BatchesTo(r, n)) /\ NoBatch \in BatchesTo(r, n)
  BY <1>1, AppendProperties, NoBatchFits DEF FileFits
<1>3. /\ FileFits([f EXCEPT !.rows = q, !.tail = NoBatch], r, n)
      /\ FileFits([f EXCEPT !.rows = q], r, n)
  BY <1>2 DEF FileFits, FileOk
<1> QED  BY <1>1, <1>3

(* What a check before an append does: it passes, and at most an unfinished *)
(* row is cut off, or it refuses.                                          *)
LEMMA AppendCheckIs ==
  ASSUME Sure, AppendCheck
  PROVE  /\ io.job = "append" /\ io # Idle /\ w.phase # "cold" /\ meta' = meta
         /\ excuses' = excuses /\ history' = history /\ opens' = opens /\ gens' = gens
         /\ ops' = ops /\ cuts' = cuts
         /\ st'.cur = st.cur /\ st'.pend = st.pend /\ st'.mut = st.mut
         /\ st'.pending = st.pending /\ st'.allowCreate = st.allowCreate
         /\ \/ /\ w' = w /\ io'.job = io.job /\ io'.batch = io.batch
               /\ io'.step \in {"sync", "write"} /\ io'.rev = io.rev
               /\ file' = file \/ file' = [file EXCEPT !.tail = NoBatch]
               /\ Readable(file)
            \/ Finally(Refused(w)) /\ file' = file
<1>1. /\ io.job = "append" /\ meta' = meta /\ excuses' = excuses /\ history' = history
      /\ opens' = opens /\ gens' = gens /\ ops' = ops /\ cuts' = cuts
  BY DEF AppendCheck, At, ghosts, counts
<1>2. io # Idle /\ w.phase # "cold"
  BY <1>1, SureFacts, JobFlow
<1>3. CASE ~MayAppend(file, st.cursor, io.expected, io.batch, st.coldTail)
  BY <1>1, <1>2, <1>3 DEF AppendCheck
<1>4. CASE MayAppend(file, st.cursor, io.expected, io.batch, st.coldTail)
  <2>1. PICK already \in BOOLEAN :
          already <=> AlreadyWritten(file, st.cursor, io.expected, io.batch)
    OBVIOUS
  <2>2. PICK at : at = IF already /\ ~Known(file, st.cursor, io.expected)
                       THEN Valid(file) - 1 ELSE Offset(file, st.cursor, io.expected)
    OBVIOUS
  <2>3. /\ file' = (IF already THEN file ELSE CutAt(file, at))
        /\ st' = [st EXCEPT !.cursor = [gen |-> io.expected.gen, rev |-> io.expected.rev,
                                        size |-> at]]
        /\ Goto(IF already THEN "sync" ELSE "write") /\ w' = w
    BY <1>4, <2>1, <2>2 DEF AppendCheck
  <2>4. /\ io.batch \in BatchT /\ io.batch.from = w.durable + 1 /\ io.batch # NoBatch
        /\ io.expected = Point(w.gen, w.durable) /\ w.durable \in Nat
    BY <1>1, <1>2, JobFlow, SureFacts DEF NextBatch
  <2>5. FileOk(file, gens, excuses) /\ CursorOk(file, st.cursor)
    BY NowFacts DEF Stored
  <2>6. Readable(file) /\ (~already => at = Len(file.rows))
    BY <1>4, <2>1, <2>2, <2>4, <2>5, Admitted
  <2>7. file' = file \/ file' = [file EXCEPT !.tail = NoBatch]
    BY <2>3, <2>5, <2>6, CutWhole
  <2>8. PICK c : c = [gen |-> io.expected.gen, rev |-> io.expected.rev, size |-> at]
    OBVIOUS
  <2>9. st' = [st EXCEPT !.cursor = c] /\ StoreShape(st)
    BY <2>3, <2>8, SureFacts
  <2>10. /\ st'.cur = st.cur /\ st'.pend = st.pend /\ st'.mut = st.mut
         /\ st'.pending = st.pending /\ st'.allowCreate = st.allowCreate
    BY <2>9 DEF StoreShape
  <2>11. Goto("sync") \/ Goto("write")
    BY <2>3
  <2>12. /\ io'.job = io.job /\ io'.batch = io.batch /\ io'.rev = io.rev
         /\ io'.step \in {"sync", "write"}
    BY <2>11, GotoIs
  <2> QED  BY <1>1, <1>2, <2>3, <2>6, <2>7, <2>10, <2>12
<1> QED  BY <1>3, <1>4

LEMMA MeasureAppend ==
  ASSUME Sure, Measured, AppendCreate \/ AppendHeader \/ AppendPart \/ AppendRow
  PROVE  Measured'
<1>1. PICK r : r = Top(opens, excuses)
  OBVIOUS
<1>2. /\ w' = w /\ opens' = opens /\ gens' = gens
      /\ ops' = ops /\ history' = history /\ st'.pend = st.pend /\ st'.mut = st.mut
      /\ "foreign" \in excuses <=> "foreign" \in excuses'
  <2>1. StoreShape(st)
    BY SureFacts
  <2> QED  BY <2>1 DEF AppendCreate, AppendHeader, AppendPart, AppendRow, ghosts, counts,
                       StoreShape
<1>3. /\ FileFits(file, r, ops) /\ WriterFits(w, r, ops) /\ io.batch \in BatchesTo(r, ops)
      /\ StoreFits(st, r, gens) /\ history \in Seq(Seq(0 .. ops)) /\ r \in Nat /\ ops \in Nat
      /\ FileOk(file, gens, excuses)
  BY <1>1, MeasureNow, NowFacts DEF Stored
<1>4. io'.batch = io.batch
  <2>1. io' = io \/ \E n : Goto(n)
    BY DEF AppendCreate, AppendHeader, AppendPart, AppendRow
  <2> QED  BY <2>1, GotoIs
<1>5. FileFits(file', r, ops)
  <2>1. 0 \in 0 .. r /\ <<>> \in Seq(0 .. ops)
    BY <1>3, NoBatchFits
  <2>2. CASE AppendCreate \/ AppendHeader
    <3>1. PICK b, t : b = 0 /\ t = <<>>
      OBVIOUS
    <3>2. PICK k : file' = Transcript(k, io.expected.gen, b, t)
      BY <2>2, <3>1 DEF AppendCreate, AppendHeader
    <3>3. FileFits(Transcript(k, io.expected.gen, b, t), r, ops)
      BY <1>3, <2>1, <3>1, FreshFits
    <3> QED  BY <3>2, <3>3
  <2>3. CASE AppendPart
    BY <1>3, <2>3, TailFits DEF AppendPart
  <2>4. CASE AppendRow
    BY <1>3, <2>4, RowFits DEF AppendRow
  <2> QED  BY <2>2, <2>3, <2>4
<1>6. StoreFits(st', r, gens')
  BY <1>2, <1>3 DEF StoreFits
<1> QED  BY <1>1, <1>2, <1>3, <1>4, <1>5, <1>6, MeasureStep

LEMMA MeasureAppendCheck ==
  ASSUME Sure, Measured, AppendCheck
  PROVE  Measured'
<1>1. PICK r : r = Top(opens, excuses)
  OBVIOUS
<1>2. /\ io # Idle /\ excuses' = excuses /\ history' = history /\ opens' = opens
      /\ gens' = gens /\ ops' = ops /\ st'.pend = st.pend /\ st'.mut = st.mut
      /\ \/ /\ w' = w /\ io'.batch = io.batch
            /\ file' = file \/ file' = [file EXCEPT !.tail = NoBatch]
         \/ Finally(Refused(w)) /\ file' = file
  BY AppendCheckIs
<1>3. /\ FileFits(file, r, ops) /\ WriterFits(w, r, ops) /\ io.batch \in BatchesTo(r, ops)
      /\ StoreFits(st, r, gens) /\ history \in Seq(Seq(0 .. ops)) /\ r \in Nat /\ ops \in Nat
      /\ FileOk(file, gens, excuses)
  BY <1>1, MeasureNow, NowFacts DEF Stored
<1>4. StoreFits(st', r, gens')
  BY <1>2, <1>3 DEF StoreFits
<1>5. /\ FileFits(file', r, ops) /\ WriterFits(w', r, ops)
      /\ io'.batch \in BatchesTo(r, ops)
  <2>1. NoBatch \in BatchesTo(r, ops)
    BY <1>3, NoBatchFits
  <2>2. FileFits([file EXCEPT !.tail = NoBatch], r, ops)
    BY <1>3, <2>1, TailFits
  <2>3. CASE Finally(Refused(w)) /\ file' = file
    <3>1. PICK y : y = Refused(w)
      OBVIOUS
    <3>2. IsWriter(y) /\ WriterFits(y, r, ops) /\ Finally(y)
      BY <1>2, <1>3, <2>3, <3>1, RefusedIs, EndFits
    <3> QED  BY <1>3, <2>3, <3>2, FinalFits
  <2>4. CASE /\ w' = w /\ io'.batch = io.batch
             /\ file' = file \/ file' = [file EXCEPT !.tail = NoBatch]
    BY <1>3, <2>2, <2>4
  <2> QED  BY <1>2, <2>3, <2>4
<1> QED  BY <1>1, <1>2, <1>3, <1>4, <1>5, MeasureStep

(* What a check before a replacement does: the candidate is there already, *)
(* it may take the place of the file, or it is refused.                    *)
LEMMA ReplaceCheckIs ==
  ASSUME Sure, ReplaceCheck
  PROVE  /\ io.job = "replace" /\ io.step = "candidate" /\ io # Idle /\ w.phase # "cold"
         /\ meta' = meta /\ excuses' = excuses /\ history' = history /\ opens' = opens
         /\ ops' = ops /\ cuts' = cuts
         /\ gens' = IF st.pending = NoPending THEN gens + 1 ELSE gens
         /\ st'.cur = st.cur /\ st'.pend = st.pend /\ st'.mut = st.mut
         /\ st'.allowCreate = st.allowCreate /\ st'.pending = Candidate
         /\ \/ /\ w' = w /\ file' = file /\ Published(file, Candidate)
               /\ io'.step = "sync" /\ io'.job = io.job /\ io'.batch = io.batch
               /\ io'.rev = io.rev /\ io'.recover = io.recover
            \/ /\ w' = w /\ file' = [file EXCEPT !.tail = NoBatch]
               /\ ~Published(file, Candidate)
               /\ MayReplace(file, Candidate, st.coldTail, st.allowCreate)
               /\ io'.step = (IF st.mut.open THEN "intent" ELSE "rename")
               /\ io'.job = io.job /\ io'.batch = io.batch
               /\ io'.rev = io.rev /\ io'.recover = io.recover
            \/ Finally(Refused(w)) /\ file' = file /\ ~Published(file, Candidate)
<1>1. /\ io.job = "replace" /\ io.step = "candidate" /\ meta' = meta /\ cuts' = cuts
      /\ history' = history /\ excuses' = excuses /\ opens' = opens /\ ops' = ops
      /\ gens' = IF st.pending = NoPending THEN gens + 1 ELSE gens
  BY DEF ReplaceCheck, At, ghosts
<1>2. PICK c : c = Candidate
  OBVIOUS
<1>3. PICK t : t = st'
  OBVIOUS
<1>4. t = [st EXCEPT !.pending = c]
  BY <1>2, <1>3 DEF ReplaceCheck
<1>5. StoreShape(st) /\ io # Idle /\ w.phase # "cold"
  BY <1>1, SureFacts, JobFlow
<1>6. /\ t.cur = st.cur /\ t.mut = st.mut /\ t.pend = st.pend /\ t.pending = c
      /\ t.allowCreate = st.allowCreate
  BY <1>4, <1>5 DEF StoreShape
<1>7. CASE Published(file, c)
  <2>1. Goto("sync") /\ file' = file /\ w' = w
    BY <1>2, <1>7 DEF ReplaceCheck
  <2>2. /\ io'.step = "sync" /\ io'.job = io.job /\ io'.batch = io.batch
        /\ io'.rev = io.rev /\ io'.recover = io.recover
    BY <2>1, GotoIs
  <2> QED  BY <1>1, <1>2, <1>3, <1>5, <1>6, <1>7, <2>1, <2>2
<1>8. CASE ~Published(file, c) /\ MayReplace(file, c, st.coldTail, st.allowCreate)
  <2>1. /\ file' = [file EXCEPT !.tail = NoBatch] /\ w' = w
        /\ Goto(IF st.mut.open THEN "intent" ELSE "rename")
    BY <1>2, <1>8 DEF ReplaceCheck
  <2>2. PICK n : n = IF st.mut.open THEN "intent" ELSE "rename"
    OBVIOUS
  <2>3. Goto(n)
    BY <2>1, <2>2
  <2>4. /\ io'.step = n /\ io'.job = io.job /\ io'.batch = io.batch
        /\ io'.rev = io.rev /\ io'.recover = io.recover
    BY <2>3, GotoIs
  <2> QED  BY <1>1, <1>2, <1>3, <1>5, <1>6, <1>8, <2>1, <2>2, <2>4
<1>9. CASE ~Published(file, c) /\ ~MayReplace(file, c, st.coldTail, st.allowCreate)
  <2>1. Finally(Refused(w)) /\ file' = file
    BY <1>2, <1>9 DEF ReplaceCheck
  <2> QED  BY <1>1, <1>2, <1>3, <1>5, <1>6, <1>9, <2>1
<1> QED  BY <1>7, <1>8, <1>9

LEMMA MeasureReplaceCheck ==
  ASSUME Sure, Measured, ReplaceCheck
  PROVE  Measured'
<1>1. PICK r : r = Top(opens, excuses)
  OBVIOUS
<1>2. /\ io # Idle /\ excuses' = excuses /\ history' = history /\ opens' = opens
      /\ ops' = ops /\ st'.pend = st.pend /\ st'.mut = st.mut
      /\ gens' = IF st.pending = NoPending THEN gens + 1 ELSE gens
      /\ \/ /\ w' = w /\ io'.batch = io.batch
            /\ file' = file \/ file' = [file EXCEPT !.tail = NoBatch]
         \/ Finally(Refused(w)) /\ file' = file
  BY ReplaceCheckIs
<1>3. /\ FileFits(file, r, ops) /\ WriterFits(w, r, ops) /\ io.batch \in BatchesTo(r, ops)
      /\ StoreFits(st, r, gens) /\ history \in Seq(Seq(0 .. ops)) /\ r \in Nat /\ ops \in Nat
      /\ FileOk(file, gens, excuses) /\ gens \in Nat
  BY <1>1, MeasureNow, NowFacts DEF Stored
<1>4. StoreFits(st', r, gens')
  <2>1. PICK g : g = gens'
    OBVIOUS
  <2>2. g \in Nat /\ gens <= g
    BY <1>2, <1>3, <2>1
  <2>3. StoreFits(st, r, g)
    BY <1>3, <2>2, WiderParts
  <2> QED  BY <1>2, <2>1, <2>3 DEF StoreFits
<1>5. /\ FileFits(file', r, ops) /\ WriterFits(w', r, ops)
      /\ io'.batch \in BatchesTo(r, ops)
  <2>1. NoBatch \in BatchesTo(r, ops)
    BY <1>3, NoBatchFits
  <2>2. FileFits([file EXCEPT !.tail = NoBatch], r, ops)
    BY <1>3, <2>1, TailFits
  <2>3. CASE Finally(Refused(w)) /\ file' = file
    <3>1. PICK y : y = Refused(w)
      OBVIOUS
    <3>2. IsWriter(y) /\ WriterFits(y, r, ops) /\ Finally(y)
      BY <1>2, <1>3, <2>3, <3>1, RefusedIs, EndFits
    <3> QED  BY <1>3, <2>3, <3>2, FinalFits
  <2>4. CASE /\ w' = w /\ io'.batch = io.batch
             /\ file' = file \/ file' = [file EXCEPT !.tail = NoBatch]
    BY <1>3, <2>2, <2>4
  <2> QED  BY <1>2, <2>3, <2>4
<1> QED  BY <1>1, <1>2, <1>3, <1>4, <1>5, MeasureStep

LEMMA IntentIs ==
  ASSUME Certain, ReplaceIntent
  PROVE  /\ io.job = "replace" /\ io.step = "intent" /\ file' = file /\ w' = w
         /\ st.mut.open /\ meta # NoRow /\ meta \in RowT /\ meta' \in RowT
         /\ meta'.bind = meta.bind /\ meta'.intent = Announced(w, st.pending)
         /\ st'.mut = [open |-> TRUE, target |-> Point(st.pending.gen, st.pending.rev)]
         /\ st'.cur = st.cur /\ st'.pend = st.pend /\ st'.pending = st.pending
         /\ st'.allowCreate = st.allowCreate
         /\ io'.step = "rename" /\ io'.job = io.job /\ io'.batch = io.batch
         /\ io'.rev = io.rev /\ io'.recover = io.recover
         /\ cuts' = cuts /\ history' = history /\ excuses' = excuses
         /\ opens' = opens /\ gens' = gens /\ ops' = ops
<1>1. /\ io.job = "replace" /\ io.step = "intent" /\ file' = file /\ w' = w
      /\ Goto("rename") /\ Sure /\ cuts' = cuts /\ history' = history /\ excuses' = excuses
      /\ opens' = opens /\ gens' = gens /\ ops' = ops
      /\ meta' = [meta EXCEPT !.intent = [src |-> st.pending.expected.gen,
                               dst |-> st.pending.gen, rev |-> st.pending.rev]]
  BY DEF ReplaceIntent, At, Certain, ghosts, counts
<1>2. st.mut.open /\ st.mut \in MutationT /\ StoreShape(st)
  BY <1>1, SureFacts, NowFacts DEF Certain, Founded, BirthOk
<1>3. PICK a : a = [st.mut EXCEPT !.target = Point(st.pending.gen, st.pending.rev)]
  OBVIOUS
<1>4. st' = [st EXCEPT !.mut = a]
  <2>1. st' = [st EXCEPT !.mut.target = Point(st.pending.gen, st.pending.rev)]
    BY DEF ReplaceIntent
  <2> QED  BY <1>2, <1>3, <2>1 DEF StoreShape
<1>5. /\ st'.mut = a /\ st'.cur = st.cur /\ st'.pend = st.pend /\ st'.pending = st.pending
      /\ st'.allowCreate = st.allowCreate
  BY <1>2, <1>4 DEF StoreShape
<1>6. a = [open |-> TRUE, target |-> Point(st.pending.gen, st.pending.rev)]
  BY <1>2, <1>3 DEF MutationT
<1>7. /\ io'.step = "rename" /\ io'.job = io.job /\ io'.batch = io.batch
      /\ io'.rev = io.rev /\ io'.recover = io.recover
  BY <1>1, GotoIs
<1>8. meta # NoRow /\ meta \in RowT
  BY <1>2, NowFacts, <1>1 DEF Stored, RowOk
<1>9. /\ st.pending.rev \in Nat /\ st.pending.gen \in Nat
      /\ st.pending.expected = Point(w.gen, w.durable) /\ w.gen \in Nat
  BY <1>1, ReplaceFacts
<1>10. /\ meta' \in RowT /\ meta'.bind = meta.bind
       /\ meta'.intent = Announced(w, st.pending)
  <2>1. PICK i : i = [src |-> st.pending.expected.gen, dst |-> st.pending.gen,
                      rev |-> st.pending.rev]
    OBVIOUS
  <2>2. i = Announced(w, st.pending) /\ i \in [src : Nat, dst : Nat, rev : Nat]
    BY <1>9, <2>1 DEF Announced, Point
  <2>3. meta' = [meta EXCEPT !.intent = i]
    BY <1>1, <2>1
  <2> QED  BY <1>8, <2>2, <2>3 DEF RowT
<1> QED  BY <1>1, <1>2, <1>5, <1>6, <1>7, <1>8, <1>10

LEMMA MeasureReplace ==
  ASSUME Certain, Measured, ReplaceIntent \/ ReplaceRename
  PROVE  Measured'
<1>1. PICK r : r = Top(opens, excuses)
  OBVIOUS
<1>2. Sure
  BY DEF Certain
<1>3. /\ FileFits(file, r, ops) /\ WriterFits(w, r, ops) /\ io.batch \in BatchesTo(r, ops)
      /\ StoreFits(st, r, gens) /\ history \in Seq(Seq(0 .. ops)) /\ r \in Nat /\ ops \in Nat
      /\ gens \in Nat /\ w.live <= r /\ w.live = Len(history) /\ w.live \in Nat
  BY <1>1, <1>2, MeasureNow
<1>4. /\ st.pending.rev \in 0 .. Len(history) /\ st.pending.rev \in 0 .. r
      /\ st.pending.gen \in 0 .. gens /\ st.pending.ops = Said(history, st.pending.rev)
  <2>1. io.job = "replace" /\ io.step # "candidate"
    BY DEF ReplaceIntent, ReplaceRename, At
  <2> QED  BY <1>2, <1>3, <2>1, ReplaceFacts
<1>5. CASE ReplaceIntent
  <2>1. /\ file' = file /\ w' = w /\ io'.batch = io.batch /\ st'.pend = st.pend
        /\ st'.mut = [open |-> TRUE, target |-> Point(st.pending.gen, st.pending.rev)]
        /\ history' = history /\ excuses' = excuses /\ opens' = opens /\ gens' = gens
        /\ ops' = ops
    BY <1>5, IntentIs
  <2>2. Point(st.pending.gen, st.pending.rev) \in PointsTo(gens, r)
    BY <1>4 DEF Point, PointsTo
  <2>3. StoreFits(st', r, gens')
    BY <1>3, <2>1, <2>2 DEF StoreFits
  <2> QED  BY <1>1, <1>2, <1>3, <2>1, <2>3, MeasureStep
<1>6. CASE ReplaceRename
  <2>1. /\ file' = Transcript("v2", st.pending.gen, st.pending.rev, st.pending.ops)
        /\ Goto("sync") /\ w' = w /\ st' = st /\ history' = history
        /\ opens' = opens /\ gens' = gens /\ ops' = ops
        /\ "foreign" \in excuses <=> "foreign" \in excuses'
    BY <1>6 DEF ReplaceRename, counts
  <2>2. io'.batch = io.batch
    BY <1>2, <2>1, GotoIs
  <2>3. st.pending.ops \in Seq(0 .. ops)
    BY <1>3, <1>4, SaidFits
  <2>4. FileFits(file', r, ops)
    BY <1>3, <1>4, <2>1, <2>3, FreshFits
  <2> QED  BY <1>1, <1>2, <1>3, <2>1, <2>2, <2>4, MeasureStep
<1> QED  BY <1>5, <1>6

LEMMA MeasurePublish ==
  ASSUME Sure, Quiet, Measured, Publish
  PROVE  Measured'
<1>1. /\ file' = file /\ w' = w /\ st' = st /\ io'.batch = io.batch
  BY PublishedRow
<1>2. /\ history' = history /\ excuses' = excuses /\ opens' = opens /\ gens' = gens
      /\ ops' = ops
  BY DEF Publish, ghosts, counts
<1> QED  BY <1>1, <1>2, MeasureNow, MeasureStep

(* What a commit leaves behind.                                            *)
LEMMA CommitIs ==
  ASSUME Sure, Quiet, Commit
  PROVE  /\ io.step \in {"sync", "indexed"} /\ io # Idle /\ w.phase # "cold"
         /\ file' = file /\ meta' = meta /\ history' = history /\ excuses' = excuses
         /\ cuts' = cuts /\ opens' = opens /\ gens' = gens /\ ops' = ops
         /\ \A k \in Others : st'.cur[k] = st.cur[k]
         /\ \A k \in Others : k \in st'.pend \/ meta[k] = st'.cur[k]
         /\ st'.pend \subseteq st.pend /\ st'.mut = NoMutation /\ st'.pending = NoPending
         /\ st'.allowCreate = st.allowCreate
         /\ \/ Finally(Succeeded(w, Committed))
            \/ io.job = "append" /\ Finally(Failed(w))
<1>1. PICK a : /\ \/ io.step = "indexed" /\ a = Adopted
                  \/ io.step = "sync" /\ st.published /\ st.pend = {} /\ a = st
               /\ Settle(a)
  BY DEF Commit
<1>2. /\ file' = file /\ meta' = meta /\ history' = history /\ excuses' = excuses
      /\ cuts' = cuts /\ opens' = opens /\ gens' = gens /\ ops' = ops
  BY DEF Commit, disk, ghosts
<1>3. PICK t : t = Landed(a)
  OBVIOUS
<1>4. st' = t
  BY <1>1, <1>3 DEF Settle
<1>5. t.cur = a.cur /\ t.pend = a.pend /\ t.mut = a.mut /\ t.pending = NoPending
  BY <1>1, <1>3, LandedParts
<1>6. /\ \A k \in Others : t.cur[k] = st.cur[k]
      /\ \A k \in Others : k \in t.pend \/ meta[k] = t.cur[k]
      /\ t.pend \subseteq st.pend /\ t.mut = NoMutation
  BY <1>1, <1>5, AdoptedRow
<1>7. t.allowCreate = st.allowCreate
  BY <1>1, <1>3, LandedIs
<1>8. io.step \in {"sync", "indexed"} /\ io # Idle /\ w.phase # "cold"
  BY <1>1, SyncFacts
<1>9. Finally(Succeeded(w, Committed)) \/ (io.job = "append" /\ Finally(Failed(w)))
  BY <1>1 DEF Settle
<1> QED  BY <1>2, <1>4, <1>5, <1>6, <1>7, <1>8, <1>9

LEMMA MeasureCommit ==
  ASSUME Sure, Quiet, Measured, Commit
  PROVE  Measured'
<1>1. PICK r : r = Top(opens, excuses)
  OBVIOUS
<1>2. /\ io # Idle /\ file' = file /\ history' = history /\ excuses' = excuses
      /\ opens' = opens /\ gens' = gens /\ ops' = ops
      /\ st'.pend \subseteq st.pend /\ st'.mut = NoMutation
      /\ Finally(Succeeded(w, Committed)) \/ (io.job = "append" /\ Finally(Failed(w)))
  BY CommitIs
<1>3. /\ FileFits(file, r, ops) /\ WriterFits(w, r, ops) /\ io.batch \in BatchesTo(r, ops)
      /\ StoreFits(st, r, gens) /\ history \in Seq(Seq(0 .. ops)) /\ r \in Nat /\ ops \in Nat
      /\ gens \in Nat
  BY <1>1, MeasureNow
<1>4. StoreFits(st', r, gens')
  <2>1. NoMutation.target \in PointsTo(gens, r)
    BY <1>3 DEF NoMutation, Point, PointsTo
  <2> QED  BY <1>2, <1>3, <2>1 DEF StoreFits
<1>5. \E y : IsWriter(y) /\ WriterFits(y, r, ops) /\ Finally(y)
  <2>1. CASE Finally(Succeeded(w, Committed))
    <3>1. PICK c : c = Committed
      OBVIOUS
    <3>2. PICK y : y = Succeeded(w, c)
      OBVIOUS
    <3>3. IsWriter(y) /\ y.live = w.live /\ y.queue = w.queue /\ y.retryBatch = NoBatch
      BY <3>2, SucceededIs
    <3>4. WriterFits(y, r, ops)
      BY <1>3, <3>3, NoBatchFits DEF WriterFits
    <3> QED  BY <2>1, <3>1, <3>2, <3>3, <3>4
  <2>2. CASE Finally(Failed(w))
    <3>1. PICK y : y = Failed(w)
      OBVIOUS
    <3>2. IsWriter(y) /\ WriterFits(y, r, ops)
      BY <1>2, <1>3, <3>1, FailedIs, EndFits
    <3> QED  BY <2>2, <3>1, <3>2
  <2> QED  BY <1>2, <2>1, <2>2
<1>6. WriterFits(w', r, ops) /\ io'.batch \in BatchesTo(r, ops)
  BY <1>3, <1>5, FinalFits
<1> QED  BY <1>1, <1>2, <1>3, <1>4, <1>6, MeasureStep

(* A new owner: whatever it decides has one revision more. *)
LEMMA MeasureOpens ==
  ASSUME Sure, Measured, opens' = opens + 1, "foreign" \in excuses <=> "foreign" \in excuses',
         file' = file, io' = io, ops' = ops, NEW r, r = Top(opens, excuses) + 1,
         WriterFits(w', r, ops), StoreFits(st', r, gens'), history' \in Seq(Seq(0 .. ops))
  PROVE  Measured'
<1>1. PICK p, e : p = Top(opens, excuses) /\ e = excuses'
  OBVIOUS
<1>2. /\ FileFits(file, p, ops) /\ io.batch \in BatchesTo(p, ops) /\ p \in Nat /\ ops \in Nat
      /\ opens \in Nat /\ gens \in Nat
  BY <1>1, MeasureNow, SureFacts
<1>3. "foreign" \in excuses <=> "foreign" \in e
  BY <1>1
<1>4. Top(opens + 1, e) = p + 1
  <2>1. Top(opens, e) = p
    BY <1>1, <1>3 DEF Top
  <2> QED  BY <1>2, <2>1, TopIs
<1>5. Top(opens', excuses') = r
  BY <1>1, <1>4
<1>6. r \in Nat /\ p <= r /\ ops <= ops /\ gens <= gens
  BY <1>1, <1>2
<1>7. FileFits(file, r, ops) /\ BatchesTo(p, ops) \subseteq BatchesTo(r, ops)
  BY <1>2, <1>6, WiderParts, WiderBatches
<1> QED  BY <1>2, <1>5, <1>7 DEF Measured, Fits

LEMMA NewFits ==
  ASSUME NEW r \in Nat, NEW n \in Nat, NEW gen, NEW rev \in 0 .. r, NEW messages, NEW x,
         x = Instance(gen, rev, messages)
  PROVE  WriterFits(x, r, n)
<1>1. x.live = rev /\ x.queue = <<>> /\ x.retryBatch = NoBatch
  BY InstanceIs
<1> QED  BY <1>1, NoBatchFits DEF WriterFits

LEMMA MeasureCreate ==
  ASSUME Certain, Measured, Create
  PROVE  Measured'
<1>1. /\ w.phase = "cold" /\ opens' = opens + 1 /\ gens' = gens + 1
      /\ w' = RequestCommit(Instance(gens + 1, 0, <<>>))
      /\ st' = [NoStorage EXCEPT !.allowCreate = TRUE, !.pend = {"stats"}]
      /\ history' = <<<<>>>> /\ file' = file /\ io' = io /\ ops' = ops
      /\ "foreign" \in excuses <=> "foreign" \in excuses'
  BY DEF Create
<1>2. Sure /\ gens \in Nat /\ ops \in Nat
  BY <1>1, NewOwner
<1>3. PICK r : r = Top(opens, excuses) + 1
  OBVIOUS
<1>4. r \in Nat /\ 0 < r
  BY <1>2, <1>3, MeasureNow
<1>5. PICK q, z : q = <<>> /\ z = 0
  OBVIOUS
<1>6. PICK x : x = Instance(gens + 1, z, q)
  OBVIOUS
<1>7. IsWriter(x) /\ x.live = z
  BY <1>5, <1>6, NewWriter
<1>8. z \in 0 .. r
  BY <1>4, <1>5
<1>9. WriterFits(x, r, ops)
  BY <1>2, <1>4, <1>6, <1>8, NewFits
<1>10. x.live \in Nat /\ x.live < r
  BY <1>4, <1>5, <1>7
<1>11. WriterFits(RequestCommit(x), r, ops)
  BY <1>2, <1>4, <1>7, <1>9, <1>10, RequestFits
<1>12. w' = RequestCommit(x)
  BY <1>1, <1>5, <1>6
<1>13. history' \in Seq(Seq(0 .. ops))
  <2>1. q \in Seq(0 .. ops)
    BY <1>2, <1>5, NoBatchFits
  <2>2. <<q>> \in Seq(Seq(0 .. ops))
    BY <2>1
  <2> QED  BY <1>1, <1>5, <2>2
<1>14. StoreFits(st', r, gens')
  <2>1. PICK p : p = {"stats"}
    OBVIOUS
  <2>2. st' = [NoStorage EXCEPT !.allowCreate = TRUE, !.pend = p]
    BY <1>1, <2>1
  <2>3. st'.pend = p /\ st'.mut = NoMutation
    BY <2>2 DEF NoStorage
  <2>4. gens' \in Nat
    BY <1>1, <1>2
  <2>5. NoMutation.target \in PointsTo(gens', r)
    BY <1>4, <2>4 DEF NoMutation, Point, PointsTo
  <2> QED  BY <2>1, <2>3, <2>5 DEF StoreFits, Keys
<1> QED  BY <1>1, <1>2, <1>3, <1>11, <1>12, <1>13, <1>14, MeasureOpens

LEMMA KeptFits ==
  ASSUME NEW n \in Nat, NEW r \in Nat, NEW m \in Seq(0 .. n), history \in Seq(Seq(0 .. n))
  PROVE  Kept(r, m) \in Seq(Seq(0 .. n))
<1>1. PICK S : S = Seq(0 .. n)
  OBVIOUS
<1>2. Len(history) \in Nat /\ \A i \in 1 .. Len(history) : history[i] \in S
  BY <1>1, LenProperties, ElementOfSeq
<1>3. \A i \in 1 .. r :
        (IF "foreign" \in excuses \/ i > Len(history) THEN m ELSE history[i]) \in S
  BY <1>1, <1>2
<1>4. Kept(r, m) \in [1 .. r -> S]
  BY <1>3 DEF Kept
<1> QED  BY <1>1, <1>4, SeqDef

LEMMA MeasureActivate ==
  ASSUME Certain, Measured, Activate
  PROVE  Measured'
<1>1. PICK v, m, x, row :
        /\ v = Revision(file) /\ m = Content(file)
        /\ x = Instance(file.gen, v, m) /\ row = Resolved(meta, file)
  OBVIOUS
<1>2. PICK s : s = [NoStorage EXCEPT !.coldTail = (TailState(file) = "incomplete"),
                                     !.published = TRUE,
                                     !.cur = [row EXCEPT !.stats = Len(m)]]
  OBVIOUS
<1>3. /\ w.phase = "cold" /\ opens' = opens + 1 /\ file' = file /\ io' = io /\ ops' = ops
      /\ gens' = gens
      /\ "foreign" \in excuses <=> "foreign" \in excuses'
      /\ \/ w' = x /\ st' = [s EXCEPT !.pend = {"stats"}] /\ history' = Kept(v, m)
         \/ w' = RequestCommit(x) /\ st' = [s EXCEPT !.pend = Keys]
            /\ history' = Append(Kept(v, m), m)
  BY <1>1, <1>2 DEF Activate
<1>4. /\ Sure /\ gens \in Nat /\ ops \in Nat /\ FileOk(file, gens, excuses)
  BY <1>3, NewOwner
<1>5. PICK r : r = Top(opens, excuses) + 1
  OBVIOUS
<1>6. /\ r \in Nat /\ Top(opens, excuses) \in Nat /\ FileFits(file, Top(opens, excuses), ops)
      /\ history \in Seq(Seq(0 .. ops))
  BY <1>4, <1>5, MeasureNow
<1>7. m \in Seq(0 .. ops) /\ v \in 0 .. Top(opens, excuses)
  BY <1>1, <1>4, <1>6, ContentFits
<1>8. v \in Nat /\ v \in 0 .. r /\ v < r
  BY <1>5, <1>6, <1>7
<1>9. WriterFits(x, r, ops)
  BY <1>1, <1>4, <1>6, <1>8, NewFits
<1>10. IsWriter(x) /\ x.live \in Nat /\ x.live < r
  BY <1>1, <1>8, NewWriter
<1>11. WriterFits(RequestCommit(x), r, ops)
  BY <1>4, <1>6, <1>9, <1>10, RequestFits
<1>12. Kept(v, m) \in Seq(Seq(0 .. ops))
  BY <1>4, <1>6, <1>7, <1>8, KeptFits
<1>13. Append(Kept(v, m), m) \in Seq(Seq(0 .. ops))
  BY <1>7, <1>12, AppendProperties
<1>14. StoreFits(st', r, gens')
  <2>1. \A p : [s EXCEPT !.pend = p].pend = p /\ [s EXCEPT !.pend = p].mut = NoMutation
    BY <1>2 DEF NoStorage
  <2>2. PICK p : p \subseteq Keys /\ st' = [s EXCEPT !.pend = p]
    BY <1>3 DEF Keys
  <2>3. NoMutation.target \in PointsTo(gens, r)
    BY <1>4, <1>6 DEF NoMutation, Point, PointsTo
  <2> QED  BY <1>3, <2>1, <2>2, <2>3 DEF StoreFits
<1>15. WriterFits(w', r, ops) /\ history' \in Seq(Seq(0 .. ops))
  BY <1>3, <1>9, <1>11, <1>12, <1>13
<1>16. /\ opens' = opens + 1 /\ file' = file /\ io' = io /\ ops' = ops
       /\ "foreign" \in excuses <=> "foreign" \in excuses'
  BY <1>3
<1> QED  BY <1>4, <1>5, <1>14, <1>15, <1>16, MeasureOpens

LEMMA MeasureDamaged ==
  ASSUME Certain, Measured, ActivateDamaged
  PROVE  Measured'
<1>1. /\ w.phase = "cold" /\ opens' = opens + 1 /\ gens' = gens + 1
      /\ w' = Fail([Instance(gens + 1, 0, <<>>) EXCEPT !.complete = FALSE, !.blocked = TRUE],
                   "degraded")
      /\ st' = [NoStorage EXCEPT !.published = TRUE, !.cur = meta]
      /\ history' = <<>> /\ file' = file /\ io' = io /\ ops' = ops /\ excuses' = excuses
  BY DEF ActivateDamaged
<1>2. Sure /\ gens \in Nat /\ ops \in Nat
  BY <1>1, NewOwner
<1>3. PICK r : r = Top(opens, excuses) + 1
  OBVIOUS
<1>4. r \in Nat
  BY <1>2, <1>3, MeasureNow
<1>5. PICK q, z : q = <<>> /\ z = 0
  OBVIOUS
<1>6. PICK x : x = Instance(gens + 1, z, q)
  OBVIOUS
<1>7. IsWriter(x)
  BY <1>5, <1>6, NewWriter
<1>8. WriterFits(x, r, ops)
  BY <1>2, <1>4, <1>5, <1>6, NewFits
<1>9. PICK y : y = [x EXCEPT !.complete = FALSE, !.blocked = TRUE]
  OBVIOUS
<1>10. /\ IsWriter(y) /\ y.live = x.live /\ y.queue = x.queue /\ y.retryBatch = x.retryBatch
  BY <1>7, <1>9 DEF IsWriter
<1>11. WriterFits(y, r, ops)
  BY <1>8, <1>10 DEF WriterFits
<1>12. w' = Fail(y, "degraded")
  BY <1>1, <1>5, <1>6, <1>9
<1>13. SameCore(y, w')
  BY <1>10, <1>12, CoreFails
<1>14. WriterFits(w', r, ops)
  BY <1>11, <1>13, CoreFits
<1>15. history' \in Seq(Seq(0 .. ops))
  BY <1>1, <1>2, NoBatchFits
<1>16. StoreFits(st', r, gens')
  <2>1. st'.pend = {} /\ st'.mut = NoMutation
    BY <1>1 DEF NoStorage
  <2>2. gens' \in Nat
    BY <1>1, <1>2
  <2>3. NoMutation.target \in PointsTo(gens', r)
    BY <1>4, <2>2 DEF NoMutation, Point, PointsTo
  <2> QED  BY <2>1, <2>3 DEF StoreFits
<1> QED  BY <1>1, <1>2, <1>3, <1>14, <1>15, <1>16, MeasureOpens

LEMMA MeasureEnd ==
  ASSUME Certain, Measured, RetireSettled \/ Exit
  PROVE  Measured'
<1>1. /\ w' = Ended /\ st' = NoStorage /\ io' = Idle /\ file' = file /\ history' = history
      /\ excuses' = excuses /\ opens' = opens /\ gens' = gens /\ ops' = ops
  BY DEF RetireSettled, Exit, Busy, disk, ghosts, counts
<1>2. Sure
  BY DEF Certain
<1>3. PICK r : r = Top(opens, excuses)
  OBVIOUS
<1>4. /\ FileFits(file, r, ops) /\ r \in Nat /\ ops \in Nat /\ gens \in Nat
      /\ history \in Seq(Seq(0 .. ops)) /\ w.live <= r
  BY <1>2, <1>3, MeasureNow
<1>5. PICK x, q : x = Ended /\ q = <<>>
  OBVIOUS
<1>6. x.live = w.live /\ x.queue = q /\ x.retryBatch = NoBatch
  BY <1>5 DEF Ended, Cold
<1>7. WriterFits(x, r, ops)
  BY <1>4, <1>5, <1>6, NoBatchFits DEF WriterFits
<1>8. Idle.batch \in BatchesTo(r, ops)
  BY <1>4, NoBatchFits DEF Idle
<1>9. StoreFits(NoStorage, r, gens)
  <2>1. NoStorage.pend = {} /\ NoStorage.mut = NoMutation
    BY DEF NoStorage
  <2>2. NoMutation.target \in PointsTo(gens, r)
    BY <1>4 DEF NoMutation, Point, PointsTo
  <2> QED  BY <2>1, <2>2 DEF StoreFits
<1> QED  BY <1>1, <1>2, <1>3, <1>4, <1>5, <1>7, <1>8, <1>9, MeasureStep

(* The row or the beginning another program writes has one revision more.  *)
LEMMA MeasureIntrude ==
  ASSUME Certain, Measured, NEW kind \in Intrusions, Intrude(kind)
  PROVE  Measured'
<1>1. /\ Sure /\ FileOk(file, gens, excuses) /\ "foreign" \notin excuses
      /\ w' = w /\ st' = st /\ io' = io /\ history' = history
      /\ opens' = opens /\ gens' = gens /\ ops' = ops
      /\ "foreign" \in excuses' /\ kind \in {"empty", "header", "row"}
  BY IntrusionFacts
<1>2. PICK p, r, e : p = Top(opens, excuses) /\ r = p + 1 /\ e = excuses'
  OBVIOUS
<1>3. /\ FileFits(file, p, ops) /\ WriterFits(w, p, ops) /\ io.batch \in BatchesTo(p, ops)
      /\ StoreFits(st, p, gens) /\ history \in Seq(Seq(0 .. ops)) /\ p \in Nat /\ ops \in Nat
      /\ gens \in Nat /\ w.live \in Nat
  BY <1>1, <1>2, MeasureNow
<1>4. Top(opens', excuses') = r
  <2>1. "foreign" \in e /\ opens \in Nat
    BY <1>1, <1>2, SureFacts
  <2>2. Top(opens, e) = Top(opens, excuses) + 1
    BY <1>1, <2>1, TopIs
  <2> QED  BY <1>1, <1>2, <2>2
<1>5. r \in Nat /\ p <= r /\ ops <= ops /\ gens <= gens
  BY <1>2, <1>3
<1>6. /\ FileFits(file, r, ops) /\ WriterFits(w, r, ops) /\ StoreFits(st, r, gens)
      /\ BatchesTo(p, ops) \subseteq BatchesTo(r, ops)
  BY <1>3, <1>5, WiderParts, WiderBatches
<1>7. FileFits(file', r, ops)
  <2>1. CASE kind \in {"empty", "header"}
    <3>1. PICK b, t : b = 0 /\ t = <<>>
      OBVIOUS
    <3>2. PICK k, g : file' = Transcript(k, g, b, t)
      <4>1. CASE kind = "empty"
        BY <3>1, <4>1 DEF Intrude
      <4>2. CASE kind = "header"
        BY <3>1, <4>2 DEF Intrude
      <4> QED  BY <2>1, <4>1, <4>2
    <3>3. b \in 0 .. r /\ t \in Seq(0 .. ops)
      BY <1>3, <1>5, <3>1, NoBatchFits
    <3> QED  BY <1>3, <1>5, <3>2, <3>3, FreshFits
  <2>2. CASE kind = "row"
    <3>1. file' = [file EXCEPT !.rows = Append(@, ForeignBatch(file))]
      BY <2>2 DEF Intrude
    <3>2. Revision(file) \in 0 .. p
      BY <1>1, <1>3, ContentFits
    <3>3. PICK v : v = Revision(file) + 1
      OBVIOUS
    <3>4. v \in 0 .. r /\ MaxOpens + 1 \in 0 .. MaxOpens + 1
      BY <1>2, <1>3, <3>2, <3>3, BoundsAssumption
    <3>5. <<0>> \in Seq(0 .. ops)
      <4>1. 0 \in 0 .. ops
        BY <1>3
      <4> QED  BY <4>1
    <3>6. ForeignBatch(file) = Batch(MaxOpens + 1, v, v, <<0>>)
      BY <3>3 DEF ForeignBatch
    <3>7. ForeignBatch(file) \in BatchesTo(r, ops)
      BY <3>4, <3>5, <3>6 DEF Batch, BatchesTo
    <3> QED  BY <1>1, <1>3, <1>5, <1>6, <3>1, <3>7, RowFits
  <2> QED  BY <1>1, <2>1, <2>2
<1> QED  BY <1>1, <1>3, <1>4, <1>6, <1>7 DEF Measured, Fits

LEMMA InitMeasured ==
  ASSUME Init
  PROVE  Measured
<1>1. /\ file = NoFile /\ w = Cold /\ st = NoStorage /\ io = Idle
      /\ history = <<>> /\ opens = 0 /\ excuses = {} /\ ops = 0 /\ gens = 0
  BY DEF Init
<1>2. PICK r, q, z : r = Top(opens, excuses) /\ q = <<>> /\ z = 0
  OBVIOUS
<1>3. r \in Nat /\ 0 \in 0 .. r /\ ops \in Nat /\ gens \in Nat
  BY <1>1, <1>2, TopIs
<1>4. /\ NoBatch \in BatchesTo(r, ops) /\ q \in Seq(BatchesTo(r, ops))
      /\ q \in Seq(0 .. ops) /\ q \in Seq(Seq(0 .. ops))
  BY <1>2, <1>3, NoBatchFits
<1>5. FileFits(file, r, ops)
  <2>1. file = Transcript("none", z, z, q)
    BY <1>1, <1>2 DEF NoFile
  <2>2. z \in 0 .. r
    BY <1>2, <1>3
  <2> QED  BY <1>3, <1>4, <2>1, <2>2, FreshFits
<1>6. WriterFits(w, r, ops)
  <2>1. w.live = z /\ w.queue = q /\ w.retryBatch = NoBatch
    BY <1>1, <1>2 DEF Cold
  <2> QED  BY <1>2, <1>3, <1>4, <2>1 DEF WriterFits
<1>7. io.batch \in BatchesTo(r, ops)
  BY <1>1, <1>4 DEF Idle
<1>8. StoreFits(st, r, gens)
  <2>1. st.pend = {} /\ st.mut = NoMutation
    BY <1>1 DEF NoStorage
  <2>2. NoMutation.target \in PointsTo(gens, r)
    BY <1>3 DEF NoMutation, Point, PointsTo
  <2> QED  BY <2>1, <2>2 DEF StoreFits
<1>9. history \in Seq(Seq(0 .. ops))
  BY <1>1, <1>2, <1>4
<1> QED  BY <1>2, <1>5, <1>6, <1>7, <1>8, <1>9 DEF Measured, Fits

LEMMA NextMeasured ==
  ASSUME Certain, Quiet, Measured, [Next]_vars
  PROVE  Measured'
<1>1. Sure
  BY DEF Certain
<1>2. CASE Observe \/ ObserveFault \/ PatchMetadata
  BY <1>1, <1>2, MeasureObserve, MeasureObserveFault, MeasurePatch
<1>3. CASE \E n \in 0 .. MaxRevision : Rewind(n)
  BY <1>1, <1>3, MeasureRewind
<1>4. CASE TimerFire \/ Flush
  BY <1>1, <1>4, MeasureStart
<1>5. CASE HealthTimeout \/ Retire \/ RetireTimeout \/ Revoke
  BY <1>1, <1>5, MeasureTimeouts
<1>6. CASE AppendCreate \/ AppendHeader \/ AppendPart \/ AppendRow
  BY <1>1, <1>6, MeasureAppend
<1>7. CASE AppendCheck
  BY <1>1, <1>7, MeasureAppendCheck
<1>8. CASE ReplaceCheck
  BY <1>1, <1>8, MeasureReplaceCheck
<1>9. CASE ReplaceIntent \/ ReplaceRename
  BY <1>9, MeasureReplace
<1>10. CASE Publish \/ Commit
  BY <1>1, <1>10, MeasurePublish, MeasureCommit
<1>11. CASE IoFail
  BY <1>1, <1>11, MeasureIoFail
<1>12. CASE Create \/ Activate \/ ActivateDamaged
  BY <1>12, MeasureCreate, MeasureActivate, MeasureDamaged
<1>13. CASE RetireSettled \/ Exit
  BY <1>13, MeasureEnd
<1>14. CASE ForeignEdit
  BY <1>14 DEF ForeignEdit, ghosts, Measured
<1>15. CASE \E kind \in Intrusions : Intrude(kind)
  BY <1>15, MeasureIntrude
<1>16. CASE UNCHANGED vars
  BY <1>16 DEF vars, Measured
<1> QED
  BY <1>2, <1>3, <1>4, <1>5, <1>6, <1>7, <1>8, <1>9, <1>10, <1>11, <1>12, <1>13, <1>14,
     <1>15, <1>16 DEF Next, IoStep

-----------------------------------------------------------------------------
(* The rewinds a row has seen are paid for by the revisions of the file.   *)

LEMMA CountNow ==
  ASSUME Sure, Counted
  PROVE  /\ RowWorth(file, meta, excuses, gens) /\ OwnerWorth(w, st, io, excuses)
         /\ TriedOnce(w, st.pending, io) /\ OnceTold(file, w, st, io, meta)
         /\ meta # NoRow => meta \in RowT /\ meta.bind \in Nat /\ meta.intent.dst \in Nat
         /\ st.cur.bind \in Nat /\ Revision(file) \in Nat /\ gens \in Nat
         /\ FileOk(file, gens, excuses) /\ w.durable \in Nat /\ w.live \in Nat
         /\ w.durable <= w.live /\ io.rev \in Nat /\ st.pending.rev \in Nat
         /\ IsWriter(w) /\ StoreShape(st) /\ MaxRevision \in Nat
<1>1. /\ RowWorth(file, meta, excuses, gens) /\ OwnerWorth(w, st, io, excuses)
      /\ TriedOnce(w, st.pending, io) /\ OnceTold(file, w, st, io, meta)
  BY DEF Counted
<1>2. /\ gens \in Nat /\ w.durable \in Nat /\ w.live \in Nat /\ w.durable <= w.live
      /\ io.rev \in Nat /\ st.pending.rev \in Nat /\ IsWriter(w) /\ StoreShape(st)
  BY SureFacts
<1>3. FileOk(file, gens, excuses) /\ st.cur \in RowT /\ (meta # NoRow => meta \in RowT)
  BY NowFacts DEF Stored, RowOk
<1>4. st.cur.bind \in Nat
  BY <1>3 DEF RowT
<1>5. meta # NoRow => meta.bind \in Nat /\ meta.intent.dst \in Nat
  BY <1>3 DEF RowT
<1>6. Revision(file) \in Nat
  BY <1>3, RevisionReach
<1> QED  BY <1>1, <1>2, <1>3, <1>4, <1>5, <1>6, BoundsAssumption

LEMMA WorthGrows ==
  ASSUME NEW b \in Nat, NEW b2 \in Nat, b2 <= b, NEW r \in Nat, NEW r2 \in Nat, r <= r2,
         NEW e, NEW e2, "foreign" \in e => "foreign" \in e2, Worth(b, r, e)
  PROVE  Worth(b2, r2, e2)
BY BoundsAssumption DEF Worth

LEMMA RowWorthStays ==
  ASSUME NEW f, NEW f2, NEW m, NEW m2, NEW e, NEW e2, NEW g \in Nat, NEW g2 \in Nat, g <= g2,
         RowWorth(f, m, e, g), m # NoRow => m.bind \in Nat,
         m2 # NoRow => m # NoRow /\ m2.bind = m.bind /\ m2.intent = m.intent,
         f2.gen = f.gen, Revision(f) \in Nat, Revision(f2) \in Nat,
         Revision(f) <= Revision(f2), "foreign" \in e => "foreign" \in e2
  PROVE  RowWorth(f2, m2, e2, g2)
<1> SUFFICES ASSUME m2 # NoRow
             PROVE  /\ Worth(Happened(f2, m2), Revision(f2), e2)
                    /\ Worth(AtMost(m2), MaxRevision, e2)
                    /\ m2.intent # NoIntent => m2.intent.dst \in 1 .. g2
  BY DEF RowWorth
<1>1. m # NoRow /\ m2.bind = m.bind /\ m2.intent = m.intent /\ m.bind \in Nat
  OBVIOUS
<1>2. /\ Worth(Happened(f, m), Revision(f), e) /\ Worth(AtMost(m), MaxRevision, e)
      /\ m.intent # NoIntent => m.intent.dst \in 1 .. g
  BY <1>1 DEF RowWorth
<1>3. /\ Happened(f2, m2) = Happened(f, m) /\ AtMost(m2) = AtMost(m)
      /\ Happened(f, m) \in Nat /\ AtMost(m) \in Nat
  BY <1>1 DEF Happened, AtMost
<1>4. MaxRevision \in Nat
  BY BoundsAssumption
<1>5. PICK a, b : a = Happened(f, m) /\ b = AtMost(m)
  OBVIOUS
<1>6. Worth(a, Revision(f2), e2) /\ Worth(b, MaxRevision, e2)
  BY <1>2, <1>3, <1>4, <1>5, WorthGrows, SMTT(30)
<1> QED  BY <1>1, <1>2, <1>3, <1>5, <1>6

LEMMA OwnerFrame ==
  ASSUME NEW x, NEW y, NEW s, NEW t, NEW j, NEW k, NEW e, NEW e2, OwnerWorth(x, s, j, e),
         y.phase # "cold" => x.phase # "cold", y.gen = x.gen, y.durable = x.durable,
         x.live \in Nat, y.live \in Nat, x.durable \in Nat, x.live <= y.live,
         s.cur.bind \in Nat, t.cur.bind = s.cur.bind, t.mut.open = s.mut.open,
         t.pending = s.pending \/ (j.job = "replace" /\ t.pending.rev = j.rev)
           \/ t.pending = NoPending,
         k.job = "replace" => (j.job = "replace" /\ k.rev = j.rev) \/ k.rev = x.live,
         "foreign" \in e => "foreign" \in e2
  PROVE  OwnerWorth(y, t, k, e2)
<1> SUFFICES ASSUME y.phase # "cold"
             PROVE  /\ Worth(t.cur.bind, MaxRevision, e2)
                    /\ ~t.mut.open => Worth(t.cur.bind, y.durable, e2)
                    /\ t.mut.open =>
                         /\ y.durable > 0 /\ Worth(t.cur.bind, y.durable + 2, e2)
                         /\ y.durable + 2 <= y.live
                         /\ t.pending # NoPending => y.durable + 2 <= t.pending.rev
                         /\ k.job = "replace" => y.durable + 2 <= k.rev
                    /\ y.gen = 0 => "foreign" \in e2
  BY DEF OwnerWorth
<1>1. x.phase # "cold"
  OBVIOUS
<1>2. \A r : r \in Nat /\ Worth(s.cur.bind, r, e) => Worth(s.cur.bind, r, e2)
  BY BoundsAssumption DEF Worth
<1>3. MaxRevision \in Nat /\ x.durable + 2 \in Nat
  BY BoundsAssumption
<1>4. /\ Worth(t.cur.bind, MaxRevision, e2)
      /\ ~t.mut.open => Worth(t.cur.bind, y.durable, e2)
      /\ y.gen = 0 => "foreign" \in e2
  BY <1>1, <1>2, <1>3 DEF OwnerWorth
<1>5. ASSUME t.mut.open
      PROVE  /\ y.durable > 0 /\ Worth(t.cur.bind, y.durable + 2, e2)
             /\ y.durable + 2 <= y.live
             /\ t.pending # NoPending => y.durable + 2 <= t.pending.rev
             /\ k.job = "replace" => y.durable + 2 <= k.rev
  <2>1. /\ x.durable > 0 /\ Worth(s.cur.bind, x.durable + 2, e)
        /\ x.durable + 2 <= x.live
        /\ s.pending # NoPending => x.durable + 2 <= s.pending.rev
        /\ j.job = "replace" => x.durable + 2 <= j.rev
    BY <1>1, <1>5 DEF OwnerWorth
  <2>2. Worth(t.cur.bind, y.durable + 2, e2)
    BY <1>2, <1>3, <2>1
  <2>3. y.durable > 0 /\ y.durable + 2 <= y.live
    BY <2>1
  <2>4. t.pending # NoPending => y.durable + 2 <= t.pending.rev
    BY <2>1
  <2>5. k.job = "replace" => y.durable + 2 <= k.rev
    BY <2>1
  <2> QED  BY <2>2, <2>3, <2>4, <2>5
<1> QED  BY <1>4, <1>5

LEMMA ToldFrame ==
  ASSUME NEW f, NEW f2, NEW x, NEW y, NEW s, NEW t, NEW j, NEW k, NEW m, NEW m2,
         OnceTold(f, x, s, j, m), y.phase # "cold" => x.phase # "cold",
         m2 # NoRow => m # NoRow /\ m2.bind = m.bind /\ m2.intent = m.intent,
         t.cur.bind = s.cur.bind, t.mut.open => s.mut.open,
         t.pending = s.pending \/ t.pending = NoPending \/ m.intent.dst # t.pending.gen,
         t.allowCreate = s.allowCreate, y.durable = 0 => x.durable = 0,
         (t.mut.open /\ NotAgain(f, x, s, j)) => NotAgain(f2, y, t, k) \/ m.bind < s.cur.bind
  PROVE  OnceTold(f2, y, t, k, m2)
BY DEF OnceTold

(* A step that leaves the file, the row and the job alone. *)
LEMMA CountSame ==
  ASSUME Sure, Counted, file' = file, io' = io, gens' = gens,
         meta' # NoRow => meta # NoRow /\ meta'.bind = meta.bind /\ meta'.intent = meta.intent,
         "foreign" \in excuses => "foreign" \in excuses',
         w'.phase = "active" => w.phase = "active", w'.phase # "cold" => w.phase # "cold",
         w'.gen = w.gen, w'.durable = w.durable, w'.live \in Nat, w.live <= w'.live,
         w.blocked => w'.blocked,
         st'.cur.bind = st.cur.bind, st'.mut = st.mut, st'.pending = st.pending,
         st'.allowCreate = st.allowCreate
  PROVE  Counted'
<1>1. PICK y, t, m, e : y = w' /\ t = st' /\ m = meta' /\ e = excuses'
  OBVIOUS
<1>2. /\ RowWorth(file, meta, excuses, gens) /\ OwnerWorth(w, st, io, excuses)
      /\ TriedOnce(w, st.pending, io) /\ OnceTold(file, w, st, io, meta)
      /\ meta # NoRow => meta.bind \in Nat
      /\ st.cur.bind \in Nat /\ Revision(file) \in Nat /\ gens \in Nat
      /\ w.durable \in Nat /\ w.live \in Nat
  BY CountNow
<1>3. RowWorth(file, m, e, gens)
  BY <1>1, <1>2, RowWorthStays
<1>4. OwnerWorth(y, t, io, e)
  BY <1>1, <1>2, OwnerFrame
<1>5. TriedOnce(y, t.pending, io)
  BY <1>1, <1>2 DEF TriedOnce
<1>6. NotAgain(file, w, st, io) => NotAgain(file, y, t, io)
  BY <1>1 DEF NotAgain
<1>7. OnceTold(file, y, t, io, m)
  BY <1>1, <1>2, <1>6, ToldFrame
<1> QED  BY <1>1, <1>3, <1>4, <1>5, <1>7 DEF Counted

LEMMA CountGrows ==
  ASSUME Sure, Quiet, Counted, Observe \/ ObserveFault \/ PatchMetadata
  PROVE  Counted'
<1>1. /\ IsWriter(w) /\ w.live \in Nat /\ StoreShape(st) /\ st.cur \in RowT
  BY SureFacts, NowFacts
<1>2. \A m : /\ Derived(st, m).cur.bind = st.cur.bind /\ Derived(st, m).mut = st.mut
             /\ Derived(st, m).pending = st.pending
             /\ Derived(st, m).allowCreate = st.allowCreate
  BY <1>1 DEF Derived, StoreShape, RowT
<1>3. CASE Observe
  <2>1. Grew(w, w')
    BY <1>3, ObserveGrows
  <2>2. /\ file' = file /\ io' = io /\ gens' = gens /\ meta' = meta /\ excuses' = excuses
        /\ st' = Derived(st, w'.proj)
    BY <1>3 DEF Observe
  <2> QED  BY <1>1, <1>2, <2>1, <2>2, CountSame DEF Grew
<1>4. CASE ObserveFault
  <2>1. /\ file' = file /\ io' = io /\ gens' = gens /\ meta' = meta
        /\ excuses' = excuses \cup {"fault"}
    BY <1>4 DEF ObserveFault
  <2>2. /\ w'.phase = w.phase /\ w'.gen = w.gen /\ w'.durable = w.durable
        /\ w'.live \in {w.live, w.live + 1} /\ w'.blocked
        /\ st' = st \/ \E m : st' = Derived(st, m)
    <3>1. CASE w' = Fail([w EXCEPT !.complete = FALSE, !.blocked = TRUE], "degraded")
               /\ st' = st
      <4> DEFINE y == [w EXCEPT !.complete = FALSE, !.blocked = TRUE]
      <4>1. /\ IsWriter(y) /\ y.phase = w.phase /\ y.gen = w.gen /\ y.durable = w.durable
            /\ y.live = w.live /\ y.blocked
        BY <1>1 DEF IsWriter
      <4>2. SameCore(y, w')
        BY <3>1, <4>1, CoreFails
      <4> HIDE DEF y
      <4> QED  BY <3>1, <4>1, <4>2 DEF SameCore
    <3>2. CASE /\ w' = Fail([w EXCEPT !.complete = FALSE, !.blocked = TRUE,
                               !.live = @ + 1, !.proj = Append(@, ops')], "degraded")
               /\ st' = Derived(st, w'.proj)
      <4> DEFINE y == [w EXCEPT !.complete = FALSE, !.blocked = TRUE,
                         !.live = w.live + 1, !.proj = Append(w.proj, ops')]
      <4>1. /\ IsWriter(y) /\ y.phase = w.phase /\ y.gen = w.gen /\ y.durable = w.durable
            /\ y.live = w.live + 1 /\ y.blocked
        BY <1>1 DEF IsWriter
      <4>2. SameCore(y, w')
        BY <3>2, <4>1, CoreFails
      <4>3. \E m : st' = Derived(st, m)
        BY <3>2
      <4> HIDE DEF y
      <4> QED  BY <4>1, <4>2, <4>3 DEF SameCore
    <3> QED  BY <1>4, <3>1, <3>2 DEF ObserveFault
  <2>3. /\ st'.cur.bind = st.cur.bind /\ st'.mut = st.mut /\ st'.pending = st.pending
        /\ st'.allowCreate = st.allowCreate
    BY <1>2, <2>2
  <2>4. w'.live \in Nat /\ w.live <= w'.live
    BY <1>1, <2>2
  <2> QED  BY <2>1, <2>2, <2>3, <2>4, CountSame
<1>5. CASE PatchMetadata
  <2>1. PICK c : c = [st.cur EXCEPT !.title = @ + 1]
    OBVIOUS
  <2>2. st' = [st EXCEPT !.cur = c, !.pend = st.pend \cup {"title"}] /\ c.bind = st.cur.bind
    BY <1>5, <2>1, TitleParts DEF Keys
  <2>3. /\ st'.cur.bind = st.cur.bind /\ st'.mut = st.mut /\ st'.pending = st.pending
        /\ st'.allowCreate = st.allowCreate
    BY <1>1, <2>2 DEF StoreShape
  <2>4. /\ file' = file /\ io' = io /\ gens' = gens /\ meta' = meta /\ excuses' = excuses
        /\ w' = w \/ w' = RequestCommit(w)
    BY <1>5 DEF PatchMetadata
  <2>5. Grew(w, RequestCommit(w))
    BY <1>1, RequestGrows
  <2>6. /\ w'.phase = w.phase /\ w'.gen = w.gen /\ w'.durable = w.durable
        /\ w'.live \in {w.live, w.live + 1} /\ w'.blocked = w.blocked
    BY <2>4, <2>5 DEF Grew
  <2>7. w'.live \in Nat /\ w.live <= w'.live
    BY <1>1, <2>6
  <2> QED  BY <2>3, <2>4, <2>6, <2>7, CountSame
<1> QED  BY <1>3, <1>4, <1>5

LEMMA CountTimeouts ==
  ASSUME Sure, Quiet, Counted, HealthTimeout \/ Retire \/ RetireTimeout \/ Revoke \/ ForeignEdit
  PROVE  Counted'
<1>1. /\ IsWriter(w) /\ w.live \in Nat /\ (meta # NoRow => meta \in RowT)
  BY SureFacts, CountNow
<1>2. /\ file' = file /\ io' = io /\ gens' = gens /\ excuses' = excuses /\ st' = st
  BY DEF HealthTimeout, Retire, RetireTimeout, Revoke, ForeignEdit, disk, ghosts, counts
<1>3. meta' # NoRow => meta # NoRow /\ meta'.bind = meta.bind /\ meta'.intent = meta.intent
  <2>1. CASE ForeignEdit
    BY <1>1, <2>1 DEF ForeignEdit, RowT
  <2>2. CASE HealthTimeout \/ Retire \/ RetireTimeout \/ Revoke
    BY <2>2 DEF HealthTimeout, Retire, RetireTimeout, Revoke, disk
  <2> QED  BY <2>1, <2>2
<1>4. /\ w'.phase = "active" => w.phase = "active"
      /\ w'.phase # "cold" => w.phase # "cold"
      /\ w'.gen = w.gen /\ w'.durable = w.durable /\ w'.live = w.live
      /\ w.blocked => w'.blocked
  <2>1. CASE HealthTimeout
    <3> DEFINE y == [w EXCEPT !.watch = FALSE]
    <3>1. /\ IsWriter(y) /\ y.phase = w.phase /\ y.gen = w.gen /\ y.durable = w.durable
          /\ y.live = w.live /\ y.blocked = w.blocked
      BY <1>1 DEF IsWriter
    <3>2. SameCore(y, w')
      BY <2>1, <3>1, CoreFails DEF HealthTimeout
    <3> HIDE DEF y
    <3> QED  BY <3>1, <3>2 DEF SameCore
  <2>2. CASE Retire
    BY <1>1, <2>2 DEF Retire, IsWriter
  <2>3. CASE RetireTimeout
    <3> DEFINE y == [w EXCEPT !.retiring = FALSE]
    <3>1. /\ IsWriter(y) /\ y.phase = w.phase /\ y.gen = w.gen /\ y.durable = w.durable
          /\ y.live = w.live /\ y.blocked = w.blocked
      BY <1>1 DEF IsWriter
    <3>2. SameCore(y, w')
      BY <2>3, <3>1, CoreHelpers DEF RetireTimeout
    <3> HIDE DEF y
    <3> QED  BY <3>1, <3>2 DEF SameCore
  <2>4. CASE Revoke
    BY <1>1, <2>4 DEF Revoke, IsWriter, Active
  <2>5. CASE ForeignEdit
    BY <2>5 DEF ForeignEdit
  <2> QED  BY <2>1, <2>2, <2>3, <2>4, <2>5
<1> QED  BY <1>1, <1>2, <1>3, <1>4, CountSame

(* An append is not about a rewind. *)
LEMMA CountWrite ==
  ASSUME Sure, Quiet, Counted, io.job = "append", w' = w, gens' = gens, meta' = meta,
         io'.job = "append", st'.cur = st.cur, st'.mut = st.mut, st'.pending = st.pending,
         st'.allowCreate = st.allowCreate, "foreign" \in excuses => "foreign" \in excuses',
         RowWorth(file', meta, excuses', gens)
  PROVE  Counted'
<1>1. PICK t, j, e, f : t = st' /\ j = io' /\ e = excuses' /\ f = file'
  OBVIOUS
<1>2. /\ OwnerWorth(w, st, io, excuses) /\ OnceTold(file, w, st, io, meta)
      /\ st.cur.bind \in Nat /\ w.durable \in Nat /\ w.live \in Nat
  BY CountNow
<1>3. io # Idle
  BY IdleIs
<1>4. ~st.mut.open /\ st.pending = NoPending
  BY <1>3, JobFlow DEF Quiet, RowInv, MutationOk
<1>5. OwnerWorth(w, t, j, e)
  BY <1>1, <1>2, OwnerFrame
<1>6. TriedOnce(w, t.pending, j)
  BY <1>1, <1>4 DEF TriedOnce
<1>7. OnceTold(f, w, t, j, meta)
  BY <1>1, <1>2, <1>4, ToldFrame
<1> QED  BY <1>1, <1>5, <1>6, <1>7 DEF Counted

LEMMA Unread ==
  ASSUME NEW f, NEW g, NEW e, FileOk(f, g, e), ~Readable(f)
  PROVE  Revision(f) = 0
<1>1. f = Transcript(f.kind, f.gen, 0, <<>>)
  BY DEF FileOk, Readable
<1>2. f.base = 0 /\ f.rows = <<>>
  BY <1>1 DEF Transcript
<1> QED  BY <1>2, WholeFile DEF Reach

LEMMA CountAppend ==
  ASSUME Sure, Quiet, Counted, AppendCreate \/ AppendHeader \/ AppendPart \/ AppendRow
  PROVE  Counted'
<1>1. /\ RowWorth(file, meta, excuses, gens) /\ OnceTold(file, w, st, io, meta)
      /\ meta # NoRow => meta \in RowT /\ meta.bind \in Nat
      /\ Revision(file) \in Nat /\ gens \in Nat /\ FileOk(file, gens, excuses)
      /\ StoreShape(st) /\ w.durable \in Nat
  BY CountNow
<1>2. /\ io.job = "append" /\ w' = w /\ gens' = gens /\ meta' = meta
      /\ "foreign" \in excuses => "foreign" \in excuses'
      /\ st' = st \/ st' = [st EXCEPT !.created = TRUE]
  BY DEF AppendCreate, AppendHeader, AppendPart, AppendRow, At, ghosts, counts
<1>3. io # Idle
  BY <1>2, IdleIs
<1>4. io'.job = "append"
  <2>1. CASE AppendPart
    BY <1>2, <2>1 DEF AppendPart
  <2>2. CASE AppendCreate \/ AppendHeader \/ AppendRow
    BY <1>2, <2>2, GotoIs DEF AppendCreate, AppendHeader, AppendRow
  <2> QED  BY <2>1, <2>2
<1>5. /\ st'.cur = st.cur /\ st'.mut = st.mut /\ st'.pending = st.pending
      /\ st'.allowCreate = st.allowCreate
  BY <1>1, <1>2 DEF StoreShape
<1>6. RowWorth(file', meta, excuses', gens)
  <2>1. CASE AppendCreate
    <3>1. meta = NoRow
      <4>1. file = NoFile
        BY <2>1 DEF AppendCreate
      <4>2. RowOk(file, w, st, io, meta, excuses) /\ ExcusesOk(file, excuses)
        BY NowFacts DEF Stored
      <4>3. ~Readable(file) /\ "emptied" \notin excuses
        BY <4>1, <4>2 DEF ExcusesOk, NoFile, Transcript, Readable
      <4> QED  BY <4>2, <4>3 DEF RowOk
    <3> QED  BY <3>1 DEF RowWorth
  <2>2. CASE AppendHeader
    <3>1. /\ io.step = "header" \/ (io.step = "open" /\ OwnHeader)
          /\ file' = Transcript("v2", io.expected.gen, 0, <<>>)
          /\ excuses' = excuses \ {"emptied"}
      BY <2>2 DEF AppendHeader, At
    <3>2. st.created /\ file.kind \in {"empty", "header"}
      BY <3>1, NowFacts DEF OwnHeader, Stored, StepsOk
    <3>3. ~Readable(file)
      BY <3>2 DEF Readable
    <3>4. st.allowCreate /\ w.durable = 0 /\ w.phase # "cold"
      BY <3>2, <3>3, NowFacts DEF Stored, CreatedOk
    <3>5. Revision(file) = 0
      BY <1>1, <3>3, Unread
    <3>6. PICK n : n = io.expected.gen
      OBVIOUS
    <3>7. n \in Nat
      <4>1. io.expected = Point(w.gen, w.durable)
        BY <1>3, JobFlow
      <4> QED  BY <3>6, <4>1, SureFacts DEF Point
    <3>8. Fresh(file', n, 0, <<>>)
      BY <3>1, <3>6 DEF Fresh
    <3>9. Revision(file') = 0
      <4>1. PICK z, s : z = 0 /\ s = <<>>
        OBVIOUS
      <4>2. z \in Nat /\ s \in Seq(Nat) /\ Fresh(file', n, z, s)
        BY <3>8, <4>1, SeqDef
      <4> QED  BY <3>7, <4>1, <4>2, NewFile
    <3>10. SUFFICES ASSUME meta # NoRow
                    PROVE  RowWorth(file', meta, excuses', gens)
      BY DEF RowWorth
    <3>11. meta.intent = NoIntent
      BY <1>1, <3>4, <3>10 DEF OnceTold
    <3>12. PICK f, e : f = file' /\ e = excuses'
      OBVIOUS
    <3>13. Happened(f, meta) = meta.bind /\ Happened(file, meta) = meta.bind
           /\ AtMost(meta) = meta.bind
      BY <3>11 DEF Happened, AtMost
    <3>14. Worth(meta.bind, 0, excuses) /\ Worth(meta.bind, MaxRevision, excuses)
      BY <1>1, <3>5, <3>10, <3>13 DEF RowWorth
    <3>15. \A r : Worth(meta.bind, r, e) <=> Worth(meta.bind, r, excuses)
      BY <3>1, <3>12 DEF Worth
    <3>16. RowWorth(f, meta, e, gens)
      BY <3>9, <3>11, <3>12, <3>13, <3>14, <3>15 DEF RowWorth
    <3> QED  BY <3>12, <3>16
  <2>3. CASE AppendPart \/ AppendRow
    <3>1. /\ Readable(file) /\ io.batch \in BatchT /\ io.batch.from = Revision(file) + 1
          /\ io.batch.to >= io.batch.from /\ io.batch.from \in Nat /\ io.batch.to \in Nat
      <4>1. io.step = "write"
        BY <2>3 DEF AppendPart, AppendRow, At
      <4> QED  BY <1>2, <4>1, WriteFacts
    <3>2. file'.gen = file.gen /\ Revision(file') \in Nat /\ Revision(file) <= Revision(file')
      <4>1. CASE AppendPart
        <5>1. file' = [file EXCEPT !.tail = io.batch]
          BY <4>1 DEF AppendPart
        <5> QED  BY <1>1, <3>1, <5>1, TailFile
      <4>2. CASE AppendRow
        <5>1. Grown(file', file, io.batch)
          BY <4>2 DEF AppendRow, Grown
        <5>2. file'.gen = file.gen /\ Revision(file') = io.batch.to
          BY <1>1, <3>1, <5>1, GrownContent
        <5> QED  BY <1>1, <3>1, <5>2
      <4> QED  BY <2>3, <4>1, <4>2
    <3>3. PICK f : f = file'
      OBVIOUS
    <3>4. excuses' = excuses
      BY <2>3 DEF AppendPart, AppendRow, ghosts
    <3> QED  BY <1>1, <3>2, <3>3, <3>4, RowWorthStays
  <2> QED  BY <2>1, <2>2, <2>3
<1> QED  BY <1>2, <1>4, <1>5, <1>6, CountWrite

(* A step of a job that leaves the row alone. *)
LEMMA CountJob ==
  ASSUME Sure, Counted, meta' = meta, excuses' = excuses, gens' \in Nat, gens <= gens',
         w'.phase = w.phase, w'.gen = w.gen, w'.durable = w.durable, w'.live = w.live,
         file'.gen = file.gen, Revision(file') \in Nat, Revision(file) <= Revision(file'),
         st'.cur = st.cur, st'.mut = st.mut, st'.allowCreate = st.allowCreate,
         \/ st'.pending = st.pending
         \/ /\ io.job = "replace" /\ st'.pending.rev = io.rev
            /\ st'.pending.gen = gens + 1,
         io'.job = "replace" => io.job = "replace" /\ io'.rev = io.rev,
         TriedOnce(w', st'.pending, io'),
         st.mut.open => NotAgain(file', w', st', io') \/ meta.bind < st.cur.bind
  PROVE  Counted'
<1>1. PICK y, t, j, f, g : y = w' /\ t = st' /\ j = io' /\ f = file' /\ g = gens'
  OBVIOUS
<1>2. /\ RowWorth(file, meta, excuses, gens) /\ OwnerWorth(w, st, io, excuses)
      /\ OnceTold(file, w, st, io, meta)
      /\ meta # NoRow => meta.bind \in Nat
      /\ st.cur.bind \in Nat /\ w.durable \in Nat /\ w.live \in Nat
      /\ Revision(file) \in Nat /\ gens \in Nat
  BY CountNow
<1>3. RowWorth(f, meta, excuses, g)
  BY <1>1, <1>2, RowWorthStays
<1>4. OwnerWorth(y, t, j, excuses)
  BY <1>1, <1>2, OwnerFrame
<1>5. meta.intent.dst # gens + 1
  <2>1. CASE meta.intent = NoIntent
    BY <1>2, <2>1 DEF NoIntent
  <2>2. CASE meta.intent # NoIntent
    <3>1. meta # NoRow
      BY <2>2 DEF NoRow, Row
    <3> QED  BY <1>2, <2>2, <3>1 DEF RowWorth
  <2> QED  BY <2>1, <2>2
<1>6. t.pending = st.pending \/ t.pending = NoPending \/ meta.intent.dst # t.pending.gen
  BY <1>1, <1>5
<1>7. OnceTold(f, y, t, j, meta)
  BY <1>1, <1>2, <1>6, ToldFrame
<1> QED  BY <1>1, <1>3, <1>4, <1>7 DEF Counted

LEMMA RefusedStops ==
  ASSUME Sure
  PROVE  io.recover \/ w.blocked => Refused(w).blocked
<1>1. IsWriter(w)
  BY SureFacts
<1>2. CASE ~io.recover /\ ~w.attempted /\ w.complete
  <2> DEFINE y == [w EXCEPT !.attempted = TRUE, !.emptyPending = TRUE, !.baseline = TRUE,
                            !.retryBatch = NoBatch, !.queue = <<>>, !.retrying = FALSE]
  <2>1. IsWriter(y) /\ y.blocked = w.blocked
    BY <1>1 DEF IsWriter
  <2>2. Refused(w) = Fail(y, "degraded")
    BY <1>2 DEF Refused
  <2>3. SameCore(y, Fail(y, "degraded"))
    BY <2>1, CoreFails
  <2> HIDE DEF y
  <2> QED  BY <1>2, <2>1, <2>2, <2>3 DEF SameCore
<1>3. CASE ~(~io.recover /\ ~w.attempted /\ w.complete)
  <2> DEFINE y == [w EXCEPT !.blocked = TRUE, !.retrying = TRUE]
  <2>1. IsWriter(y) /\ y.blocked
    BY <1>1 DEF IsWriter
  <2>2. Refused(w) = Fail(y, "degraded")
    BY <1>3 DEF Refused
  <2>3. SameCore(y, Fail(y, "degraded"))
    BY <2>1, CoreFails
  <2> HIDE DEF y
  <2> QED  BY <2>1, <2>2, <2>3 DEF SameCore
<1> QED  BY <1>2, <1>3

LEMMA CountIoFail ==
  ASSUME Sure, Quiet, Counted, IoFail
  PROVE  Counted'
<1>1. /\ io # Idle /\ Finally(Failed(w)) /\ file' = file /\ meta' = meta /\ st' = st
      /\ excuses' = excuses /\ gens' = gens
  BY DEF IoFail, Busy, disk, ghosts
<1>2. PICK y : y = Failed(w)
  OBVIOUS
<1>3. /\ IsWriter(y) /\ y.phase = w.phase /\ y.gen = w.gen /\ y.durable = w.durable
      /\ y.live = w.live
      /\ io.recover => y.blocked
      /\ w.blocked => y.blocked
  BY <1>1, <1>2, FailedIs
<1>4. io' = Idle /\ SameCore(y, w')
  BY <1>1, <1>2, <1>3, FinallySame
<1>5. /\ w'.phase = w.phase /\ w'.gen = w.gen /\ w'.durable = w.durable /\ w'.live = w.live
      /\ w'.blocked = y.blocked
  BY <1>3, <1>4 DEF SameCore
<1>6. /\ OnceTold(file, w, st, io, meta) /\ TriedOnce(w, st.pending, io)
      /\ Revision(file) \in Nat /\ gens \in Nat
  BY CountNow
<1>7. TriedOnce(w', st.pending, Idle)
  BY <1>3, <1>5, <1>6 DEF TriedOnce
<1>8. ASSUME st.mut.open, ~(meta.bind < st.cur.bind)
      PROVE  NotAgain(file, w', st, Idle)
  <2>1. w.phase # "cold" /\ io.job = "replace"
    BY <1>1, <1>8, JobFlow DEF Quiet, RowInv, MutationOk
  <2>2. meta # NoRow
    BY <1>8, NowFacts DEF Stored, RowOk
  <2>3. NotAgain(file, w, st, io)
    BY <1>6, <1>8, <2>1, <2>2 DEF OnceTold
  <2>4. st.pending # NoPending /\ (st.pending.empty \/ file.gen # w.gen)
    <3>1. CASE io.step \in {"sync", "indexed"}
      <4>1. st.pending # NoPending /\ file.gen = st.pending.gen
        BY <2>1, <3>1, SyncFacts
      <4>2. st.pending.gen # w.gen
        BY <4>1, NowFacts DEF Carried, PendingOk
      <4> QED  BY <4>1, <4>2
    <3>2. CASE io.step \notin {"sync", "indexed"}
      BY <2>1, <2>3, <3>2 DEF NotAgain
    <3> QED  BY <3>1, <3>2
  <2> QED  BY <1>5, <1>7, <2>4, IdleIs DEF NotAgain, TriedOnce
<1>9. io'.job # "replace"
  BY <1>4, IdleIs
<1> QED  BY <1>1, <1>4, <1>5, <1>6, <1>7, <1>8, <1>9, CountJob

(* A file whose unfinished row is cut off. *)
LEMMA SameReach ==
  ASSUME Sure, NEW f, f = file \/ (Readable(file) /\ f = [file EXCEPT !.tail = NoBatch])
  PROVE  f.gen = file.gen /\ Revision(f) = Revision(file) /\ Revision(f) \in Nat
<1>1. FileOk(file, gens, excuses) /\ Revision(file) \in Nat
  BY NowFacts, RevisionReach DEF Stored
<1> QED  BY <1>1, Shortened

LEMMA CountAppendCheck ==
  ASSUME Sure, Quiet, Counted, AppendCheck
  PROVE  Counted'
<1>1. /\ io.job = "append" /\ io # Idle /\ w.phase # "cold" /\ meta' = meta
      /\ excuses' = excuses /\ gens' = gens
      /\ st'.cur = st.cur /\ st'.mut = st.mut /\ st'.pending = st.pending
      /\ st'.allowCreate = st.allowCreate
      /\ \/ /\ w' = w /\ io'.job = io.job
            /\ file' = file \/ file' = [file EXCEPT !.tail = NoBatch]
            /\ Readable(file)
         \/ Finally(Refused(w)) /\ file' = file
  BY AppendCheckIs
<1>2. /\ RowWorth(file, meta, excuses, gens) /\ gens \in Nat /\ Revision(file) \in Nat
      /\ meta # NoRow => meta.bind \in Nat
  BY CountNow
<1>3. file'.gen = file.gen /\ Revision(file') = Revision(file) /\ Revision(file') \in Nat
  BY <1>1, SameReach
<1>4. CASE w' = w /\ io'.job = io.job
  <2>1. PICK f : f = file'
    OBVIOUS
  <2>2. RowWorth(f, meta, excuses, gens)
    <3>1. /\ Revision(f) \in Nat /\ Revision(file) <= Revision(f) /\ f.gen = file.gen
          /\ gens <= gens
      BY <1>2, <1>3, <2>1
    <3> QED  BY <1>2, <3>1, RowWorthStays
  <2>3. RowWorth(file', meta, excuses', gens)
    BY <1>1, <2>1, <2>2
  <2>4. io'.job = "append" /\ w' = w
    BY <1>1, <1>4
  <2> QED  BY <1>1, <2>3, <2>4, CountWrite
<1>5. CASE Finally(Refused(w)) /\ file' = file
  <2>1. PICK y : y = Refused(w)
    OBVIOUS
  <2>2. /\ IsWriter(y) /\ y.phase = w.phase /\ y.gen = w.gen /\ y.durable = w.durable
        /\ y.live = w.live
    BY <2>1, RefusedIs
  <2>3. io' = Idle /\ SameCore(y, w')
    BY <1>5, <2>1, <2>2, FinallySame
  <2>4. w'.phase = w.phase /\ w'.gen = w.gen /\ w'.durable = w.durable /\ w'.live = w.live
    BY <2>2, <2>3 DEF SameCore
  <2>5. st.pending = NoPending /\ ~st.mut.open
    BY <1>1, JobFlow DEF Quiet, RowInv, MutationOk
  <2>6. TriedOnce(w', st'.pending, io')
    BY <1>1, <2>5 DEF TriedOnce
  <2>7. io'.job # "replace"
    BY <2>3, IdleIs
  <2> QED  BY <1>1, <1>2, <1>3, <2>4, <2>5, <2>6, <2>7, CountJob
<1> QED  BY <1>1, <1>4, <1>5

LEMMA CountReplaceCheck ==
  ASSUME Sure, Quiet, Counted, ReplaceCheck
  PROVE  Counted'
<1>1. PICK c : c = Candidate
  OBVIOUS
<1>2. /\ io.job = "replace" /\ io.step = "candidate" /\ io # Idle /\ w.phase # "cold"
      /\ meta' = meta /\ excuses' = excuses
      /\ gens' = IF st.pending = NoPending THEN gens + 1 ELSE gens
      /\ st'.cur = st.cur /\ st'.mut = st.mut
      /\ st'.allowCreate = st.allowCreate /\ st'.pending = c
  BY <1>1, ReplaceCheckIs
<1>3. \/ /\ w' = w /\ file' = file
         /\ io'.step = "sync" /\ io'.job = io.job
         /\ io'.rev = io.rev /\ io'.recover = io.recover
      \/ /\ w' = w /\ file' = [file EXCEPT !.tail = NoBatch] /\ ~Published(file, c)
         /\ MayReplace(file, c, st.coldTail, st.allowCreate)
         /\ io'.step = (IF st.mut.open THEN "intent" ELSE "rename")
         /\ io'.job = io.job /\ io'.rev = io.rev /\ io'.recover = io.recover
      \/ Finally(Refused(w)) /\ file' = file
  BY <1>1, ReplaceCheckIs
<1>4. PICK g : g = IF st.pending = NoPending THEN gens + 1 ELSE gens
  OBVIOUS
<1>5. /\ c # NoPending /\ c.expected = Point(w.gen, w.durable)
      /\ g \in Nat /\ gens <= g
      /\ st.pending = NoPending => c.gen = gens + 1 /\ c.empty = io.recover
      /\ st.pending # NoPending => c = st.pending
  BY <1>1, <1>2, <1>4, CandidateIs
<1>6. st.pending = NoPending => c.rev = io.rev
  BY <1>1 DEF Candidate
<1>7. /\ OwnerWorth(w, st, io, excuses) /\ TriedOnce(w, st.pending, io)
      /\ OnceTold(file, w, st, io, meta) /\ Revision(file) \in Nat
  BY CountNow
<1>8. \/ st'.pending = st.pending
      \/ /\ io.job = "replace" /\ st'.pending.rev = io.rev
         /\ st'.pending.gen = gens + 1
  BY <1>2, <1>5, <1>6
<1>9. gens' \in Nat /\ gens <= gens'
  BY <1>2, <1>4, <1>5
<1>10. (st.mut.open /\ ~(meta.bind < st.cur.bind)) =>
         st.pending # NoPending /\ c = st.pending /\ ~c.empty /\ file.gen # w.gen
  <2> SUFFICES ASSUME st.mut.open, ~(meta.bind < st.cur.bind)
               PROVE  st.pending # NoPending /\ ~st.pending.empty /\ file.gen # w.gen
    BY <1>5
  <2>1. meta # NoRow
    BY NowFacts DEF Stored, RowOk
  <2>2. NotAgain(file, w, st, io)
    BY <1>2, <1>7, <2>1 DEF OnceTold
  <2> QED  BY <1>2, <2>2 DEF NotAgain
<1>11. CASE /\ w' = w /\ file' = file
            /\ io'.step = "sync" /\ io'.job = io.job
            /\ io'.rev = io.rev /\ io'.recover = io.recover
  <2>1. TriedOnce(w', st'.pending, io')
    BY <1>2, <1>5, <1>7, <1>11 DEF TriedOnce
  <2>2. NotAgain(file', w', st', io')
    BY <1>11 DEF NotAgain
  <2> QED  BY <1>2, <1>7, <1>8, <1>9, <1>11, <2>1, <2>2, CountJob
<1>12. CASE /\ w' = w /\ file' = [file EXCEPT !.tail = NoBatch] /\ ~Published(file, c)
            /\ MayReplace(file, c, st.coldTail, st.allowCreate)
            /\ io'.step = (IF st.mut.open THEN "intent" ELSE "rename")
            /\ io'.job = io.job /\ io'.rev = io.rev /\ io'.recover = io.recover
  <2>1. TriedOnce(w', st'.pending, io')
    BY <1>2, <1>5, <1>7, <1>12 DEF TriedOnce
  <2>2. st.mut.open => meta.bind < st.cur.bind
    <3> SUFFICES ASSUME st.mut.open, ~(meta.bind < st.cur.bind)  PROVE  FALSE
      OBVIOUS
    <3>1. ~c.empty /\ file.gen # w.gen
      BY <1>10
    <3>2. w.durable > 0
      BY <1>2, <1>7 DEF OwnerWorth
    <3>3. c.expected.rev > 0 /\ c.expected.gen = w.gen
      BY <1>5, <3>2 DEF Point
    <3>4. c.expected.rev # 0
      BY <3>3, SureFacts, <1>5 DEF Point
    <3>5. [gen |-> file.gen, rev |-> Revision(file)] = c.expected
      BY <1>12, <3>1, <3>4 DEF MayReplace
    <3>6. file.gen = c.expected.gen
      BY <3>5
    <3> QED  BY <3>1, <3>3, <3>6
  <2>3. Readable(file) \/ file' = file
    <3>1. CASE Readable(file)
      BY <3>1
    <3>2. CASE ~Readable(file)
      <4>1. FileOk(file, gens, excuses)
        BY CountNow
      <4>2. file = Transcript(file.kind, file.gen, 0, <<>>)
        BY <3>2, <4>1 DEF FileOk, Readable
      <4>3. [Transcript(file.kind, file.gen, 0, <<>>) EXCEPT !.tail = NoBatch]
              = Transcript(file.kind, file.gen, 0, <<>>)
        BY DEF Transcript
      <4> QED  BY <1>12, <4>2, <4>3
    <3> QED  BY <3>1, <3>2
  <2>4. file'.gen = file.gen /\ Revision(file') = Revision(file) /\ Revision(file') \in Nat
    BY <1>12, <2>3, SameReach
  <2> QED  BY <1>2, <1>7, <1>8, <1>9, <1>12, <2>1, <2>2, <2>4, CountJob
<1>13. CASE Finally(Refused(w)) /\ file' = file
  <2>1. PICK y : y = Refused(w)
    OBVIOUS
  <2>2. /\ IsWriter(y) /\ y.phase = w.phase /\ y.gen = w.gen /\ y.durable = w.durable
        /\ y.live = w.live
    BY <2>1, RefusedIs
  <2>3. io' = Idle /\ SameCore(y, w')
    BY <1>13, <2>1, <2>2, FinallySame
  <2>4. /\ w'.phase = w.phase /\ w'.gen = w.gen /\ w'.durable = w.durable /\ w'.live = w.live
        /\ w'.blocked = y.blocked
    BY <2>2, <2>3 DEF SameCore
  <2>5. io.recover \/ w.blocked => w'.blocked
    BY <2>1, <2>4, RefusedStops
  <2>6. TriedOnce(w', st'.pending, io')
    BY <1>2, <1>5, <1>7, <2>4, <2>5 DEF TriedOnce
  <2>7. io'.job # "replace" /\ io'.job = "none" /\ io'.step = "none"
    BY <2>3, IdleIs
  <2>8. st.mut.open => NotAgain(file', w', st', io') \/ meta.bind < st.cur.bind
    BY <1>2, <1>5, <1>10, <1>13, <2>4, <2>7 DEF NotAgain
  <2> QED  BY <1>2, <1>7, <1>8, <1>9, <1>13, <2>4, <2>6, <2>7, <2>8, CountJob
<1> QED  BY <1>3, <1>11, <1>12, <1>13

LEMMA CountReplaceIntent ==
  ASSUME Certain, Quiet, Counted, ReplaceIntent
  PROVE  Counted'
<1>1. Sure
  BY DEF Certain
<1>2. /\ io.job = "replace" /\ io.step = "intent" /\ file' = file /\ w' = w
      /\ st.mut.open /\ meta # NoRow /\ meta \in RowT
      /\ meta'.bind = meta.bind /\ meta'.intent = Announced(w, st.pending)
      /\ st'.mut.open /\ st'.cur = st.cur /\ st'.pending = st.pending
      /\ st'.allowCreate = st.allowCreate
      /\ io'.step = "rename" /\ io'.job = io.job
      /\ io'.rev = io.rev /\ io'.recover = io.recover
      /\ excuses' = excuses /\ gens' = gens
  BY IntentIs
<1>3. /\ RowWorth(file, meta, excuses, gens) /\ OwnerWorth(w, st, io, excuses)
      /\ TriedOnce(w, st.pending, io) /\ OnceTold(file, w, st, io, meta)
      /\ st.cur.bind \in Nat /\ w.durable \in Nat /\ w.live \in Nat
      /\ Revision(file) \in Nat /\ gens \in Nat /\ MaxRevision \in Nat
      /\ FileOk(file, gens, excuses) /\ meta.bind \in Nat
  BY <1>1, <1>2, CountNow
<1>4. /\ io # Idle /\ st.pending # NoPending /\ w.phase # "cold"
      /\ st.pending.rev \in Nat /\ st.pending.gen \in 1 .. gens
  BY <1>1, <1>2, ReplaceFacts
<1>5. meta.bind < st.cur.bind
  <2>1. ~NotAgain(file, w, st, io)
    BY <1>2 DEF NotAgain
  <2> QED  BY <1>2, <1>3, <1>4, <2>1 DEF OnceTold
<1>6. PICK m, t, j : m = meta' /\ t = st' /\ j = io'
  OBVIOUS
<1>7. /\ m.bind = meta.bind /\ m.intent.dst = st.pending.gen
      /\ Happened(file, m) \in Nat /\ AtMost(m) \in Nat /\ AtMost(m) <= st.cur.bind
      /\ file.gen # st.pending.gen => Happened(file, m) = meta.bind
      /\ Happened(file, m) <= st.cur.bind
  BY <1>2, <1>3, <1>5, <1>6 DEF Happened, AtMost, Announced
<1>8. Worth(AtMost(m), MaxRevision, excuses)
  <2>1. Worth(st.cur.bind, MaxRevision, excuses)
    BY <1>3, <1>4 DEF OwnerWorth
  <2> QED  BY <1>3, <1>7, <2>1 DEF Worth
<1>9. Worth(Happened(file, m), Revision(file), excuses)
  <2>1. CASE file.gen = st.pending.gen
    <3>1. st.pending.rev <= Revision(file)
      <4>1. file.base = st.pending.rev
        BY <1>1, <1>4, <2>1, NowFacts DEF Stored, RenamedOk
      <4> QED  BY <1>3, <4>1, RevisionReach
    <3>2. /\ Worth(st.cur.bind, w.durable + 2, excuses)
          /\ w.durable + 2 <= st.pending.rev
      BY <1>2, <1>3, <1>4 DEF OwnerWorth
    <3>3. w.durable + 2 \in Nat /\ w.durable + 2 <= Revision(file)
      BY <1>3, <1>4, <3>1, <3>2
    <3>4. PICK d : d = w.durable + 2
      OBVIOUS
    <3>5. Worth(st.cur.bind, d, excuses) /\ d \in Nat /\ d <= Revision(file)
      BY <3>2, <3>3, <3>4
    <3> QED  BY <1>3, <1>7, <3>5 DEF Worth
  <2>2. CASE file.gen # st.pending.gen
    <3>1. Happened(file, m) <= Happened(file, meta) /\ Happened(file, meta) \in Nat
      BY <1>3, <1>7, <2>2 DEF Happened
    <3>2. Worth(Happened(file, meta), Revision(file), excuses)
      BY <1>2, <1>3 DEF RowWorth
    <3> QED  BY <1>3, <1>7, <3>1, <3>2, WorthGrows
  <2> QED  BY <2>1, <2>2
<1>10. RowWorth(file, m, excuses, gens)
  BY <1>4, <1>7, <1>8, <1>9 DEF RowWorth
<1>11. OwnerWorth(w, t, j, excuses)
  <2>1. t.mut.open = st.mut.open
    <3>1. st.mut.open = TRUE
      BY <1>1, <1>2, NowFacts DEF MutationT
    <3>2. st'.mut.open = TRUE
      BY IntentIs
    <3> QED  BY <1>6, <3>1, <3>2
  <2>2. w.live <= w.live /\ t.cur.bind = st.cur.bind /\ t.pending = st.pending
    BY <1>2, <1>3, <1>6
  <2> QED  BY <1>2, <1>3, <1>6, <2>1, <2>2, OwnerFrame
<1>12. TriedOnce(w, t.pending, j)
  BY <1>2, <1>3, <1>6 DEF TriedOnce
<1>13. w.durable > 0
  BY <1>2, <1>3, <1>4 DEF OwnerWorth
<1>14. OnceTold(file, w, t, j, m)
  BY <1>2, <1>3, <1>5, <1>6, <1>7, <1>13 DEF OnceTold
<1> QED  BY <1>2, <1>6, <1>10, <1>11, <1>12, <1>14 DEF Counted

LEMMA CountReplaceRename ==
  ASSUME Sure, Quiet, Counted, ReplaceRename
  PROVE  Counted'
<1>1. /\ io.job = "replace" /\ io.step = "rename" /\ w' = w /\ st' = st /\ meta' = meta
      /\ file' = Transcript("v2", st.pending.gen, st.pending.rev, st.pending.ops)
      /\ Goto("sync") /\ excuses' = excuses \ {"emptied"} /\ gens' = gens
  BY DEF ReplaceRename, At, counts
<1>2. /\ RowWorth(file, meta, excuses, gens) /\ OwnerWorth(w, st, io, excuses)
      /\ TriedOnce(w, st.pending, io) /\ OnceTold(file, w, st, io, meta)
      /\ st.cur.bind \in Nat /\ w.durable \in Nat /\ w.live \in Nat
      /\ gens \in Nat /\ MaxRevision \in Nat
  BY CountNow
<1>3. meta # NoRow => meta.bind \in Nat
  BY CountNow
<1>4. /\ st.pending # NoPending /\ w.phase # "cold" /\ st.pending.rev \in Nat
      /\ st.pending.rev \in w.durable .. Len(history) /\ st.pending.gen \in Nat
      /\ st.pending.ops = Said(history, st.pending.rev)
      /\ history \in Seq(Seq(Nat)) /\ Len(history) \in Nat
  BY <1>1, ReplaceFacts, SureFacts
<1>5. Readable(file') /\ file'.gen = st.pending.gen /\ Revision(file') = st.pending.rev
  <2>1. PICK n, r, s, f : /\ n = st.pending.gen /\ r = st.pending.rev
                          /\ s = st.pending.ops /\ f = file'
    OBVIOUS
  <2>2. s \in Seq(Nat) /\ (r = 0 => s = <<>>)
    <3>1. r \in 0 .. Len(history)
      BY <1>2, <1>4, <2>1
    <3> QED  BY <1>4, <2>1, <3>1, SaidType DEF Said
  <2>3. Fresh(f, n, r, s)
    BY <1>1, <2>1 DEF Fresh
  <2>4. n \in Nat /\ r \in Nat
    BY <1>4, <2>1
  <2>5. Readable(f) /\ f.gen = n /\ Revision(f) = r
    BY <2>2, <2>3, <2>4, NewFile
  <2> QED  BY <2>1, <2>5
<1>6. /\ io'.job = io.job /\ io'.step = "sync" /\ io'.rev = io.rev /\ io'.recover = io.recover
  BY <1>1, GotoIs
<1>7. PICK f, j, e : f = file' /\ j = io' /\ e = excuses'
  OBVIOUS
<1>8. "foreign" \in e <=> "foreign" \in excuses
  BY <1>1, <1>7
<1>9. RowWorth(f, meta, e, gens)
  <2> SUFFICES ASSUME meta # NoRow
               PROVE  /\ Worth(Happened(f, meta), st.pending.rev, e)
                      /\ Worth(AtMost(meta), MaxRevision, e)
                      /\ meta.intent # NoIntent => meta.intent.dst \in 1 .. gens
    BY <1>5, <1>7 DEF RowWorth
  <2>1. /\ Worth(AtMost(meta), MaxRevision, excuses)
        /\ meta.intent # NoIntent => meta.intent.dst \in 1 .. gens
    BY <1>2 DEF RowWorth
  <2>2. Worth(AtMost(meta), MaxRevision, e)
    BY <1>8, <2>1 DEF Worth
  <2>3. Happened(f, meta) \in Nat /\ Happened(f, meta) <= st.cur.bind
    <3>1. meta.bind <= st.cur.bind
      BY <1>2, <1>4 DEF OnceTold
    <3>2. f.gen = meta.intent.dst => meta.bind < st.cur.bind
      BY <1>2, <1>4, <1>5, <1>7 DEF OnceTold
    <3> QED  BY <1>2, <1>3, <3>1, <3>2 DEF Happened
  <2>4. PICK d : d = IF st.mut.open THEN w.durable + 2 ELSE w.durable
    OBVIOUS
  <2>5. d \in Nat /\ d <= st.pending.rev /\ Worth(st.cur.bind, d, excuses)
    BY <1>2, <1>4, <2>4 DEF OwnerWorth
  <2>6. Worth(Happened(f, meta), st.pending.rev, e)
    BY <1>2, <1>4, <1>8, <2>3, <2>5, WorthGrows
  <2> QED  BY <2>1, <2>2, <2>6
<1>10. OwnerWorth(w, st, j, e)
  BY <1>2, <1>6, <1>7, <1>8, OwnerFrame
<1>11. TriedOnce(w, st.pending, j)
  BY <1>2, <1>6, <1>7 DEF TriedOnce
<1>12. NotAgain(f, w, st, j)
  BY <1>6, <1>7 DEF NotAgain
<1>13. OnceTold(f, w, st, j, meta)
  BY <1>2, <1>12, ToldFrame
<1> QED  BY <1>1, <1>7, <1>9, <1>10, <1>11, <1>13 DEF Counted

(* What is saved pays for the rewinds the owner believes in. *)
LEMMA CommitWorth ==
  ASSUME Sure, Quiet, Counted, io.step \in {"sync", "indexed"}
  PROVE  /\ Worth(st.cur.bind, Committed.rev, excuses) /\ Committed.rev = Revision(file)
         /\ Committed.rev \in Nat /\ w.durable <= Committed.rev
         /\ Committed.gen = 0 => "foreign" \in excuses
<1>1. /\ io # Idle /\ w.phase # "cold" /\ io.job \in {"append", "replace"}
      /\ Committed.gen = file.gen /\ Committed.rev = Revision(file)
  BY SyncFacts
<1>2. /\ OwnerWorth(w, st, io, excuses) /\ st.cur.bind \in Nat /\ w.durable \in Nat
      /\ Revision(file) \in Nat
  BY CountNow
<1>3. CASE io.job = "append"
  <2>1. ~st.mut.open
    BY <1>3 DEF Quiet, RowInv, MutationOk
  <2>2. io.batch.from = w.durable + 1 /\ io.batch.from \in 1 .. io.batch.to
    BY <1>1, <1>3, JobFlow DEF NextBatch, Says
  <2>3. Committed.rev = io.batch.to
    BY <1>3 DEF Committed, Point
  <2>4. w.durable <= Committed.rev
    BY <1>1, <1>2, <2>2, <2>3
  <2>5. Worth(st.cur.bind, w.durable, excuses) /\ (w.gen = 0 => "foreign" \in excuses)
    BY <1>1, <1>2, <2>1 DEF OwnerWorth
  <2>6. file.gen = w.gen
    BY <1>3, SyncFacts
  <2> QED  BY <1>1, <1>2, <2>4, <2>5, <2>6, WorthGrows, SMTT(30)
<1>4. CASE io.job = "replace"
  <2>1. /\ st.pending # NoPending /\ file.gen = st.pending.gen
        /\ Revision(file) = st.pending.rev
    BY <1>4, SyncFacts
  <2>2. w.durable <= st.pending.rev /\ st.pending.gen # 0
    <3>1. w.durable <= st.pending.rev
      BY <1>1, <2>1, JobFlow
    <3>2. st.pending.gen \in 1 .. gens
      BY <2>1, NowFacts DEF Carried, PendingOk
    <3> QED  BY <3>1, <3>2
  <2>3. PICK d : d = IF st.mut.open THEN w.durable + 2 ELSE w.durable
    OBVIOUS
  <2>4. d \in Nat /\ d <= Revision(file) /\ Worth(st.cur.bind, d, excuses)
    BY <1>1, <1>2, <2>1, <2>2, <2>3 DEF OwnerWorth
  <2>5. Worth(st.cur.bind, Revision(file), excuses)
    BY <1>2, <2>4, WorthGrows
  <2> QED  BY <1>1, <1>2, <2>1, <2>2, <2>5
<1> QED  BY <1>1, <1>3, <1>4

LEMMA CountPublish ==
  ASSUME Sure, Quiet, Counted, Publish
  PROVE  Counted'
<1>1. /\ io # Idle /\ w.phase # "cold" /\ io.step = "sync"
      /\ file' = file /\ w' = w /\ st' = st /\ meta' \in RowT
      /\ \A k \in Others : meta'[k] = st.cur[k]
      /\ io'.step = "indexed" /\ io'.job = io.job /\ io'.rev = io.rev
  BY PublishedRow
<1>2. io'.recover = io.recover /\ excuses' = excuses /\ gens' = gens
  <2>1. JobShape(io)
    BY DEF Sure, Inv
  <2> QED  BY <2>1 DEF Publish, JobShape, ghosts, counts
<1>3. /\ OwnerWorth(w, st, io, excuses) /\ TriedOnce(w, st.pending, io)
      /\ st.cur.bind \in Nat /\ w.durable \in Nat /\ w.live \in Nat /\ gens \in Nat
  BY CountNow
<1>4. PICK m, j : m = meta' /\ j = io'
  OBVIOUS
<1>5. m.bind = st.cur.bind /\ m.intent = NoIntent
  <2>1. m["bind"] = st.cur["bind"] /\ m["intent"] = st.cur["intent"]
    BY <1>1, <1>4 DEF Others, Keys
  <2>2. st.cur.intent = NoIntent
    BY <1>1 DEF Quiet, RowInv, RowSeen
  <2> QED  BY <2>1, <2>2
<1>6. RowWorth(file, m, excuses, gens)
  <2>1. Worth(st.cur.bind, Revision(file), excuses)
    BY <1>1, CommitWorth
  <2>2. Worth(st.cur.bind, MaxRevision, excuses)
    BY <1>1, <1>3 DEF OwnerWorth
  <2> QED  BY <1>5, <2>1, <2>2 DEF RowWorth, Happened, AtMost
<1>7. OwnerWorth(w, st, j, excuses)
  BY <1>1, <1>3, <1>4, OwnerFrame
<1>8. TriedOnce(w, st.pending, j)
  BY <1>1, <1>2, <1>3, <1>4 DEF TriedOnce
<1>9. st.pending # NoPending => m.intent.dst # st.pending.gen
  <2>1. st.pending # NoPending => st.pending.gen \in 1 .. gens
    BY NowFacts DEF Carried, PendingOk
  <2> QED  BY <1>3, <1>5, <2>1 DEF NoIntent
<1>10. NotAgain(file, w, st, j)
  BY <1>1, <1>4 DEF NotAgain
<1>11. OnceTold(file, w, st, j, m)
  BY <1>3, <1>5, <1>9, <1>10 DEF OnceTold
<1> QED  BY <1>1, <1>2, <1>4, <1>6, <1>7, <1>8, <1>11 DEF Counted

LEMMA CountCommit ==
  ASSUME Sure, Quiet, Counted, Commit
  PROVE  Counted'
<1>1. /\ io.step \in {"sync", "indexed"} /\ io # Idle /\ w.phase # "cold"
      /\ file' = file /\ meta' = meta /\ excuses' = excuses /\ gens' = gens
      /\ \A k \in Others : st'.cur[k] = st.cur[k]
      /\ st'.mut = NoMutation /\ st'.pending = NoPending
      /\ st'.allowCreate = st.allowCreate
      /\ \/ Finally(Succeeded(w, Committed))
         \/ io.job = "append" /\ Finally(Failed(w))
  BY CommitIs
<1>2. /\ RowWorth(file, meta, excuses, gens) /\ OwnerWorth(w, st, io, excuses)
      /\ OnceTold(file, w, st, io, meta)
      /\ st.cur.bind \in Nat /\ w.durable \in Nat
  BY CountNow
<1>3. st'.cur["bind"] = st.cur["bind"]
  BY <1>1 DEF Others, Keys
<1>4. /\ Worth(st.cur.bind, Committed.rev, excuses) /\ Committed.rev \in Nat
      /\ w.durable <= Committed.rev
      /\ Committed.gen = 0 => "foreign" \in excuses
  BY <1>1, CommitWorth
<1>5. /\ io' = Idle /\ w'.phase = w.phase
      /\ Worth(st.cur.bind, w'.durable, excuses)
      /\ w'.durable = 0 => w.durable = 0
      /\ w'.gen = 0 => "foreign" \in excuses
  <2>1. CASE Finally(Succeeded(w, Committed))
    <3>1. PICK y : y = Succeeded(w, Committed)
      OBVIOUS
    <3>2. PICK c : c = Committed
      OBVIOUS
    <3>3. IsWriter(y) /\ y.phase = w.phase /\ y.gen = c.gen /\ y.durable = c.rev
      BY <3>1, <3>2, SucceededIs
    <3>4. io' = Idle /\ SameCore(y, w')
      BY <2>1, <3>1, <3>3, FinallySame
    <3>5. w'.phase = w.phase /\ w'.gen = Committed.gen /\ w'.durable = Committed.rev
      BY <3>2, <3>3, <3>4 DEF SameCore
    <3> QED  BY <1>2, <1>4, <3>4, <3>5
  <2>2. CASE io.job = "append" /\ Finally(Failed(w))
    <3>1. PICK y : y = Failed(w)
      OBVIOUS
    <3>2. IsWriter(y) /\ y.phase = w.phase /\ y.gen = w.gen /\ y.durable = w.durable
      BY <1>1, <3>1, FailedIs
    <3>3. io' = Idle /\ SameCore(y, w')
      BY <2>2, <3>1, <3>2, FinallySame
    <3>4. w'.phase = w.phase /\ w'.gen = w.gen /\ w'.durable = w.durable
      BY <3>2, <3>3 DEF SameCore
    <3>5. ~st.mut.open
      BY <2>2 DEF Quiet, RowInv, MutationOk
    <3>6. Worth(st.cur.bind, w.durable, excuses) /\ (w.gen = 0 => "foreign" \in excuses)
      BY <1>1, <1>2, <3>5 DEF OwnerWorth
    <3> QED  BY <3>3, <3>4, <3>6
  <2> QED  BY <1>1, <2>1, <2>2
<1>6. PICK y, t : y = w' /\ t = st'
  OBVIOUS
<1>7. t.cur.bind = st.cur.bind /\ ~t.mut.open /\ t.pending = NoPending
  BY <1>1, <1>3, <1>6 DEF NoMutation
<1>8. OwnerWorth(y, t, Idle, excuses)
  <2>1. Worth(st.cur.bind, MaxRevision, excuses)
    BY <1>1, <1>2 DEF OwnerWorth
  <2> QED  BY <1>5, <1>6, <1>7, <2>1 DEF OwnerWorth
<1>9. TriedOnce(y, t.pending, Idle)
  BY <1>7 DEF TriedOnce
<1>10. OnceTold(file, y, t, Idle, meta)
  BY <1>1, <1>2, <1>5, <1>6, <1>7 DEF OnceTold
<1> QED  BY <1>1, <1>2, <1>5, <1>6, <1>8, <1>9, <1>10 DEF Counted

LEMMA StartIs ==
  ASSUME Sure, NEW x, x = [w EXCEPT !.timer = "off"], StartWrite(x)
  PROVE  /\ w'.phase = w.phase /\ w'.gen = w.gen /\ w'.durable = w.durable
         /\ w'.live = w.live /\ w'.blocked = w.blocked
         /\ \/ io' = io
            \/ /\ io = Idle /\ w.phase = "active" /\ ~w.blocked
               /\ io'.job \in {"append", "replace"} /\ io'.step \in {"open", "candidate"}
               /\ io'.job = "replace" => io'.rev = w.live
<1>1. /\ IsWriter(x) /\ x.phase = w.phase /\ x.gen = w.gen /\ x.durable = w.durable
      /\ x.live = w.live /\ x.blocked = w.blocked
  <2>1. IsWriter(w)
    BY SureFacts
  <2> QED  BY <2>1 DEF IsWriter
<1>2. \A b : AppendJob(x, b).job = "append" /\ AppendJob(x, b).step = "open"
  BY DEF AppendJob, Idle
<1>3. /\ ReplaceJob(x).job = "replace" /\ ReplaceJob(x).step = "candidate"
      /\ ReplaceJob(x).rev = x.live
  BY DEF ReplaceJob, Idle
<1>4. CASE Busy \/ ~Active \/ x.retiring \/ x.blocked \/ ~HasWork(x)
  BY <1>1, <1>4 DEF StartWrite
<1>5. CASE ~(Busy \/ ~Active \/ x.retiring \/ x.blocked \/ ~HasWork(x))
  <2>1. io = Idle /\ w.phase = "active" /\ ~w.blocked
    BY <1>1, <1>5 DEF Busy, Active
  <2>2. CASE x.retryBatch # NoBatch
    <3>1. w' = x /\ io' = AppendJob(x, x.retryBatch)
      BY <1>5, <2>2 DEF StartWrite
    <3> QED  BY <1>1, <1>2, <2>1, <3>1
  <2>3. CASE x.retryBatch = NoBatch /\ x.baseline
    <3>1. /\ w' = [x EXCEPT !.queue = <<>>, !.baseline = FALSE, !.emptyPending = FALSE]
          /\ io' = ReplaceJob(x)
      BY <1>5, <2>3 DEF StartWrite
    <3>2. /\ w'.phase = x.phase /\ w'.gen = x.gen /\ w'.durable = x.durable
          /\ w'.live = x.live /\ w'.blocked = x.blocked
      BY <1>1, <3>1 DEF IsWriter
    <3> QED  BY <1>1, <1>3, <2>1, <3>1, <3>2
  <2>4. CASE x.retryBatch = NoBatch /\ ~x.baseline
    <3>1. PICK n \in 1 .. Len(x.queue) :
            /\ w' = [x EXCEPT !.queue = SubSeq(@, n + 1, Len(@))]
            /\ io' = AppendJob(x, Batched(x.queue, n))
      BY <1>5, <2>4 DEF StartWrite
    <3>2. /\ w'.phase = x.phase /\ w'.gen = x.gen /\ w'.durable = x.durable
          /\ w'.live = x.live /\ w'.blocked = x.blocked
      BY <1>1, <3>1 DEF IsWriter
    <3> QED  BY <1>1, <1>2, <2>1, <3>1, <3>2
  <2> QED  BY <2>2, <2>3, <2>4
<1> QED  BY <1>4, <1>5

LEMMA CountStart ==
  ASSUME Sure, Quiet, Counted, TimerFire \/ Flush
  PROVE  Counted'
<1>1. /\ StartWrite([w EXCEPT !.timer = "off"]) /\ file' = file /\ meta' = meta /\ st' = st
      /\ excuses' = excuses /\ gens' = gens
  BY DEF TimerFire, Flush, disk, ghosts, counts
<1>2. PICK x : x = [w EXCEPT !.timer = "off"]
  OBVIOUS
<1>3. /\ w'.phase = w.phase /\ w'.gen = w.gen /\ w'.durable = w.durable
      /\ w'.live = w.live /\ w'.blocked = w.blocked
      /\ \/ io' = io
         \/ /\ io = Idle /\ w.phase = "active" /\ ~w.blocked
            /\ io'.job \in {"append", "replace"} /\ io'.step \in {"open", "candidate"}
            /\ io'.job = "replace" => io'.rev = w.live
  BY <1>1, <1>2, StartIs
<1>4. /\ RowWorth(file, meta, excuses, gens) /\ OwnerWorth(w, st, io, excuses)
      /\ TriedOnce(w, st.pending, io) /\ OnceTold(file, w, st, io, meta)
      /\ st.cur.bind \in Nat /\ w.durable \in Nat /\ w.live \in Nat
  BY CountNow
<1>5. CASE io' = io
  BY <1>1, <1>3, <1>4, <1>5, CountSame
<1>6. CASE /\ io = Idle /\ w.phase = "active" /\ ~w.blocked
           /\ io'.job \in {"append", "replace"} /\ io'.step \in {"open", "candidate"}
           /\ io'.job = "replace" => io'.rev = w.live
  <2>1. PICK y, j : y = w' /\ j = io'
    OBVIOUS
  <2>2. OwnerWorth(y, st, j, excuses)
    BY <1>3, <1>4, <1>6, <2>1, OwnerFrame
  <2>3. st.pending # NoPending => ~st.pending.empty
    BY <1>4, <1>6, IdleIs DEF TriedOnce
  <2>4. TriedOnce(y, st.pending, j)
    BY <2>3 DEF TriedOnce
  <2>5. NotAgain(file, w, st, io) => NotAgain(file, y, st, j)
    BY <1>3, <1>6, <2>1, IdleIs DEF NotAgain
  <2>6. OnceTold(file, y, st, j, meta)
    BY <1>3, <1>4, <2>1, <2>5, ToldFrame
  <2> QED  BY <1>1, <1>4, <2>1, <2>2, <2>4, <2>6 DEF Counted
<1> QED  BY <1>3, <1>5, <1>6

LEMMA CountRewind ==
  ASSUME Sure, Quiet, Counted, NEW n \in 0 .. MaxRevision, Rewind(n)
  PROVE  Counted'
<1>1. /\ w.phase = "active" /\ io = Idle
      /\ w.durable = w.live /\ w.durable > 0 /\ ~st.mut.open /\ st.pending = NoPending
      /\ file' = file /\ meta' = meta /\ io' = io /\ excuses' = excuses
  BY RewindFacts
<1>2. /\ w'.phase = w.phase /\ w'.gen = w.gen /\ w'.durable = w.durable
      /\ w'.live = w.live + 2
      /\ st'.cur = [st.cur EXCEPT !.bind = @ + 1, !.stats = n, !.intent = NoIntent]
      /\ st'.mut.open /\ st'.pending = st.pending
  BY RewindIs
<1>3. gens' = gens /\ w.live + 2 <= MaxRevision
  BY DEF Rewind
<1>4. /\ RowWorth(file, meta, excuses, gens) /\ OwnerWorth(w, st, io, excuses)
      /\ OnceTold(file, w, st, io, meta)
      /\ st.cur.bind \in Nat /\ w.durable \in Nat /\ w.live \in Nat /\ MaxRevision \in Nat
  BY CountNow
<1>5. meta # NoRow => meta.bind \in Nat
  BY CountNow
<1>6. st'.cur.bind = st.cur.bind + 1
  <2>1. st.cur \in RowT
    BY NowFacts
  <2>2. \A i : [st.cur EXCEPT !.bind = @ + 1, !.stats = n, !.intent = i].bind = st.cur.bind + 1
    BY <2>1 DEF RowT
  <2> QED  BY <1>2, <2>2
<1>7. PICK y, t : y = w' /\ t = st'
  OBVIOUS
<1>8. Worth(st.cur.bind, w.durable, excuses) /\ (w.gen = 0 => "foreign" \in excuses)
  BY <1>1, <1>4 DEF OwnerWorth
<1>9. /\ Worth(st.cur.bind + 1, w.durable + 2, excuses)
      /\ Worth(st.cur.bind + 1, MaxRevision, excuses)
  BY <1>1, <1>3, <1>4, <1>8 DEF Worth
<1>10. OwnerWorth(y, t, Idle, excuses)
  <2>1. /\ t.mut.open /\ t.pending = NoPending /\ y.durable = w.durable /\ y.gen = w.gen
        /\ y.live = w.durable + 2 /\ t.cur.bind = st.cur.bind + 1
    BY <1>1, <1>2, <1>6, <1>7
  <2>2. /\ y.durable > 0 /\ y.durable + 2 <= y.live
    BY <1>1, <1>4, <2>1
  <2>3. /\ Worth(t.cur.bind, y.durable + 2, excuses)
        /\ Worth(t.cur.bind, MaxRevision, excuses)
    BY <1>9, <2>1
  <2>4. y.gen = 0 => "foreign" \in excuses
    BY <1>8, <2>1
  <2>5. Idle.job # "replace"
    BY IdleIs
  <2> QED  BY <2>1, <2>2, <2>3, <2>4, <2>5 DEF OwnerWorth
<1>11. TriedOnce(y, t.pending, Idle)
  BY <1>1, <1>2, <1>7 DEF TriedOnce
<1>12. OnceTold(file, y, t, Idle, meta)
  <2>1. meta # NoRow => meta.bind < t.cur.bind
    BY <1>1, <1>4, <1>5, <1>6, <1>7 DEF OnceTold
  <2>2. meta # NoRow => meta.bind <= t.cur.bind
    BY <1>4, <1>5, <1>6, <1>7, <2>1
  <2> QED  BY <1>1, <1>2, <1>7, <2>1, <2>2 DEF OnceTold
<1> QED  BY <1>1, <1>3, <1>4, <1>7, <1>10, <1>11, <1>12 DEF Counted

(* A new owner believes the row it has found. *)
LEMMA CountNew ==
  ASSUME Sure, Counted, meta' = meta, io' = Idle,
         RowWorth(file', meta, excuses', gens'), st'.pending = NoPending, ~st'.mut.open,
         w'.gen = 0 => "foreign" \in excuses',
         Worth(st'.cur.bind, MaxRevision, excuses'),
         Worth(st'.cur.bind, w'.durable, excuses'),
         meta # NoRow => /\ meta.bind <= st'.cur.bind
                         /\ ~st'.allowCreate \/ meta.intent = NoIntent
  PROVE  Counted'
<1>1. PICK y, t, e, f, g : y = w' /\ t = st' /\ e = excuses' /\ f = file' /\ g = gens'
  OBVIOUS
<1>2. OwnerWorth(y, t, Idle, e)
  BY <1>1 DEF OwnerWorth
<1>3. TriedOnce(y, t.pending, Idle)
  BY <1>1 DEF TriedOnce
<1>4. OnceTold(f, y, t, Idle, meta)
  BY <1>1 DEF OnceTold
<1> QED  BY <1>1, <1>2, <1>3, <1>4 DEF Counted

LEMMA CountCreate ==
  ASSUME Certain, Counted, Create
  PROVE  Counted'
<1>1. /\ w.phase = "cold" /\ meta = NoRow /\ meta' = meta /\ io' = io /\ file' = file
      /\ w' = RequestCommit(Instance(gens', 0, <<>>)) /\ gens' = gens + 1
      /\ st' = [NoStorage EXCEPT !.allowCreate = TRUE, !.pend = {"stats"}]
  BY DEF Create
<1>2. Sure /\ io = Idle /\ gens \in Nat
  BY <1>1, NewOwner
<1>3. /\ st'.pending = NoPending /\ st'.cur = Birth /\ st'.mut = NoMutation
  BY <1>1 DEF NoStorage
<1>4. ~st'.mut.open /\ st'.cur.bind = 0
  BY <1>3 DEF NoMutation, Birth, Row
<1>5. w'.gen # 0 /\ w'.durable \in Nat
  <2>1. PICK g, z, s : g = gens' /\ z = 0 /\ s = <<>>
    OBVIOUS
  <2>2. PICK x : x = Instance(g, z, s)
    OBVIOUS
  <2>3. IsWriter(x) /\ x.gen = g /\ x.durable = z
    BY <2>1, <2>2, NewWriter
  <2>4. Grew(x, RequestCommit(x))
    BY <2>3, RequestGrows
  <2>5. w' = RequestCommit(x)
    BY <1>1, <2>1, <2>2
  <2>6. w'.gen = g /\ w'.durable = z
    BY <2>3, <2>4, <2>5 DEF Grew
  <2> QED  BY <1>1, <1>2, <2>1, <2>6
<1>6. PICK f, e, g, y, t : f = file' /\ e = excuses' /\ g = gens' /\ y = w' /\ t = st'
  OBVIOUS
<1>7. RowWorth(f, meta, e, g)
  BY <1>1 DEF RowWorth
<1>8. Worth(0, MaxRevision, e) /\ Worth(0, y.durable, e)
  BY <1>5, <1>6, BoundsAssumption DEF Worth
<1>9. Worth(t.cur.bind, MaxRevision, e) /\ Worth(t.cur.bind, y.durable, e)
  BY <1>4, <1>6, <1>8
<1> QED  BY <1>1, <1>2, <1>3, <1>4, <1>5, <1>6, <1>7, <1>9, CountNew

LEMMA CountActivate ==
  ASSUME Certain, Counted, Activate
  PROVE  Counted'
<1> DEFINE row == Resolved(meta, file)
           rev == Revision(file)
           msgs == Content(file)
           s == [NoStorage EXCEPT !.coldTail = TailState(file) = "incomplete",
                                  !.published = TRUE,
                                  !.cur = [row EXCEPT !.stats = Len(msgs)]]
<1>1. /\ w.phase = "cold" /\ meta # NoRow /\ Readable(file) /\ meta' = meta /\ io' = io
      /\ file' = file /\ gens' = gens /\ excuses' = excuses \cap {"foreign"}
      /\ \/ w' = Instance(file.gen, rev, msgs) /\ st' = [s EXCEPT !.pend = {"stats"}]
         \/ /\ w' = RequestCommit(Instance(file.gen, rev, msgs))
            /\ st' = [s EXCEPT !.pend = Keys]
  BY DEF Activate
<1>2. Sure /\ io = Idle /\ FileOk(file, gens, excuses)
  BY <1>1, NewOwner
<1>3. /\ RowWorth(file, meta, excuses, gens) /\ meta \in RowT /\ meta.bind \in Nat
      /\ rev \in Nat /\ gens \in Nat /\ MaxRevision \in Nat
  BY <1>1, <1>2, CountNow
<1>4. row \in RowT /\ row.bind = Happened(file, meta)
  <2>1. row \in RowT
    BY <1>2, <1>3, ResolvedType
  <2>2. row.bind = Happened(file, meta)
    BY <1>3 DEF Resolved, Happened, RowT
  <2> QED  BY <2>1, <2>2
<1>5. /\ st'.pending = NoPending /\ st'.mut = NoMutation /\ st'.allowCreate = FALSE
      /\ st'.cur.bind = row.bind
  <2>1. \A c : [row EXCEPT !.stats = c].bind = row.bind
    BY <1>4 DEF RowT
  <2> HIDE DEF row, msgs, rev
  <2>2. \A p : /\ [s EXCEPT !.pend = p].pending = NoPending
               /\ [s EXCEPT !.pend = p].mut = NoMutation
               /\ [s EXCEPT !.pend = p].allowCreate = FALSE
               /\ [s EXCEPT !.pend = p].cur = [row EXCEPT !.stats = Len(msgs)]
    BY DEF NoStorage
  <2>3. PICK p : st' = [s EXCEPT !.pend = p]
    BY <1>1
  <2> HIDE DEF s
  <2> QED  BY <2>1, <2>2, <2>3
<1> HIDE DEF s, row
<1>6. w'.gen = file.gen /\ w'.durable = rev
  <2>1. PICK x : x = Instance(file.gen, rev, msgs)
    OBVIOUS
  <2>2. IsWriter(x) /\ x.gen = file.gen /\ x.durable = rev
    BY <1>3, <2>1, NewWriter
  <2>3. Grew(x, RequestCommit(x))
    BY <2>2, RequestGrows
  <2>4. w' = x \/ w' = RequestCommit(x)
    BY <1>1, <2>1
  <2> QED  BY <2>2, <2>3, <2>4 DEF Grew
<1> HIDE DEF rev, msgs
<1>7. PICK e, y, t : e = excuses' /\ y = w' /\ t = st'
  OBVIOUS
<1>8. "foreign" \in e <=> "foreign" \in excuses
  BY <1>1, <1>7
<1>9. /\ Worth(Happened(file, meta), rev, excuses)
      /\ Worth(AtMost(meta), MaxRevision, excuses)
      /\ meta.intent # NoIntent => meta.intent.dst \in 1 .. gens
  BY <1>1, <1>3 DEF RowWorth, rev
<1>10. \A b, r : Worth(b, r, e) <=> Worth(b, r, excuses)
  BY <1>8 DEF Worth
<1>11. RowWorth(file, meta, e, gens)
  BY <1>9, <1>10 DEF RowWorth, rev
<1>12. /\ Happened(file, meta) \in Nat /\ AtMost(meta) \in Nat
       /\ meta.bind <= Happened(file, meta) /\ Happened(file, meta) <= AtMost(meta)
  BY <1>3 DEF Happened, AtMost
<1>13. Worth(Happened(file, meta), MaxRevision, excuses)
  BY <1>3, <1>9, <1>12 DEF Worth
<1>14. t.cur.bind = Happened(file, meta) /\ y.durable = rev /\ ~t.mut.open
  BY <1>4, <1>5, <1>6, <1>7 DEF NoMutation
<1>15. Worth(t.cur.bind, MaxRevision, e) /\ Worth(t.cur.bind, y.durable, e)
  BY <1>9, <1>10, <1>13, <1>14
<1>16. y.gen = 0 => "foreign" \in e
  BY <1>1, <1>2, <1>6, <1>7, <1>8 DEF FileOk, Readable
<1> QED  BY <1>1, <1>2, <1>5, <1>7, <1>11, <1>12, <1>14, <1>15, <1>16, CountNew

LEMMA CountDamaged ==
  ASSUME Certain, Counted, ActivateDamaged
  PROVE  Counted'
<1>1. /\ w.phase = "cold" /\ meta # NoRow /\ meta.intent = NoIntent /\ ~Readable(file)
      /\ meta' = meta /\ io' = io /\ file' = file /\ gens' = gens + 1 /\ excuses' = excuses
      /\ w' = Fail([Instance(gens', 0, <<>>) EXCEPT !.complete = FALSE, !.blocked = TRUE],
                   "degraded")
      /\ st' = [NoStorage EXCEPT !.published = TRUE, !.cur = meta]
  BY DEF ActivateDamaged
<1>2. Sure /\ io = Idle /\ FileOk(file, gens, excuses) /\ gens \in Nat
  BY <1>1, NewOwner
<1>3. /\ RowWorth(file, meta, excuses, gens) /\ meta.bind \in Nat /\ Revision(file) = 0
  BY <1>1, <1>2, CountNow, Unread
<1>4. st'.pending = NoPending /\ st'.mut = NoMutation /\ st'.cur = meta
  BY <1>1 DEF NoStorage
<1>5. w'.gen = gens + 1 /\ w'.durable = 0
  <2>1. PICK g, z, s : g = gens' /\ z = 0 /\ s = <<>>
    OBVIOUS
  <2>2. PICK x : x = Instance(g, z, s)
    OBVIOUS
  <2>3. IsWriter(x) /\ x.gen = g /\ x.durable = z
    BY <2>1, <2>2, NewWriter
  <2>4. PICK y : y = [x EXCEPT !.complete = FALSE, !.blocked = TRUE]
    OBVIOUS
  <2>5. IsWriter(y) /\ y.gen = g /\ y.durable = z
    BY <2>3, <2>4 DEF IsWriter
  <2>6. w' = Fail(y, "degraded")
    BY <1>1, <2>1, <2>2, <2>4
  <2>7. SameCore(y, w')
    BY <2>5, <2>6, CoreFails
  <2> QED  BY <1>1, <2>1, <2>5, <2>7 DEF SameCore
<1>6. PICK g, y, t : g = gens' /\ y = w' /\ t = st'
  OBVIOUS
<1>7. Happened(file, meta) = meta.bind /\ AtMost(meta) = meta.bind
  BY <1>1 DEF Happened, AtMost
<1>8. Worth(meta.bind, 0, excuses) /\ Worth(meta.bind, MaxRevision, excuses)
  BY <1>1, <1>3, <1>7 DEF RowWorth
<1>9. RowWorth(file, meta, excuses, g)
  BY <1>1, <1>3, <1>7, <1>8 DEF RowWorth
<1>10. /\ ~t.mut.open /\ t.cur.bind = meta.bind /\ y.gen # 0 /\ y.durable = 0
       /\ meta.bind <= t.cur.bind
  BY <1>2, <1>3, <1>4, <1>5, <1>6 DEF NoMutation
<1>11. Worth(t.cur.bind, MaxRevision, excuses) /\ Worth(t.cur.bind, y.durable, excuses)
  BY <1>8, <1>10
<1> QED  BY <1>1, <1>2, <1>4, <1>6, <1>9, <1>10, <1>11, CountNew

LEMMA CountEnd ==
  ASSUME Certain, Counted, RetireSettled \/ Exit
  PROVE  Counted'
<1>1. /\ w' = Ended /\ st' = NoStorage /\ file' = file /\ meta' = meta
      /\ excuses' = excuses /\ gens' = gens
  BY DEF RetireSettled, Exit, disk, ghosts, counts
<1>2. PICK y, j : y = w' /\ j = io'
  OBVIOUS
<1>3. y.phase = "cold"
  BY <1>1, <1>2 DEF Ended, Cold
<1>4. OwnerWorth(y, NoStorage, j, excuses) /\ OnceTold(file, y, NoStorage, j, meta)
  BY <1>3 DEF OwnerWorth, OnceTold
<1>5. TriedOnce(y, NoStorage.pending, j)
  BY DEF TriedOnce, NoStorage
<1>6. RowWorth(file, meta, excuses, gens)
  BY DEF Counted
<1> QED  BY <1>1, <1>2, <1>4, <1>5, <1>6 DEF Counted

(* What another program throws away was worth at most MaxRevision. *)
LEMMA CountIntrude ==
  ASSUME Certain, Counted, NEW kind \in Intrusions, Intrude(kind)
  PROVE  Counted'
<1>1. /\ Sure /\ "foreign" \notin excuses /\ io.step \in {"none", "open", "candidate"}
      /\ w' = w /\ st' = st /\ io' = io /\ meta' = meta /\ gens' = gens
      /\ excuses' = excuses \cup {"foreign", IF kind = "row" THEN "row" ELSE "emptied"}
      /\ kind \in {"empty", "header", "row"} /\ FileOk(file, gens, excuses)
      /\ Readable(file)
  BY IntrusionFacts
<1>2. /\ RowWorth(file, meta, excuses, gens) /\ OwnerWorth(w, st, io, excuses)
      /\ TriedOnce(w, st.pending, io) /\ OnceTold(file, w, st, io, meta)
      /\ st.cur.bind \in Nat /\ w.durable \in Nat /\ w.live \in Nat /\ MaxRevision \in Nat
  BY <1>1, CountNow
<1>3. meta # NoRow => meta.bind \in Nat
  BY <1>1, CountNow
<1>4. PICK f, e : f = file' /\ e = excuses'
  OBVIOUS
<1>5. "foreign" \in e
  BY <1>1, <1>4
<1>6. f.gen = file.gen \/ f.gen = 0
  <2>1. CASE kind = "row"
    <3>1. f = [file EXCEPT !.rows = Append(@, ForeignBatch(file))]
      BY <1>4, <2>1 DEF Intrude
    <3>2. \A r : [file EXCEPT !.rows = r].gen = file.gen
      BY <1>1 DEF FileOk
    <3> QED  BY <3>1, <3>2
  <2>2. CASE kind = "empty"
    BY <1>4, <2>2 DEF Intrude, Transcript
  <2>3. CASE kind = "header"
    BY <1>4, <2>3 DEF Intrude, Transcript
  <2> QED  BY <1>1, <2>1, <2>2, <2>3
<1>7. Revision(f) \in Nat
  <2>1. CASE kind # "row"
    <3>1. Stored(f, w, st, io, meta, history, e, gens)
      BY <1>4, <2>1, IntrudeEmpties
    <3> QED  BY <3>1, RevisionReach DEF Stored
  <2>2. CASE kind = "row"
    <3>1. Stored(f, w, st, io, meta, history, e, gens)
      BY <1>4, <2>2, IntrudeAdds
    <3> QED  BY <3>1, RevisionReach DEF Stored
  <2> QED  BY <2>1, <2>2
<1>8. RowWorth(f, meta, e, gens)
  <2> SUFFICES ASSUME meta # NoRow
               PROVE  /\ Worth(Happened(f, meta), Revision(f), e)
                      /\ Worth(AtMost(meta), MaxRevision, e)
                      /\ meta.intent # NoIntent => meta.intent.dst \in 1 .. gens
    BY DEF RowWorth
  <2>1. /\ Worth(AtMost(meta), MaxRevision, excuses)
        /\ meta.intent # NoIntent => meta.intent.dst \in 1 .. gens
    BY <1>2 DEF RowWorth
  <2>2. /\ Happened(f, meta) \in Nat /\ AtMost(meta) \in Nat
        /\ Happened(f, meta) <= AtMost(meta)
    BY <1>3 DEF Happened, AtMost
  <2>3. 2 * AtMost(meta) <= MaxRevision
    BY <1>1, <1>2, <2>1 DEF Worth
  <2>4. 2 * Happened(f, meta) <= MaxRevision
    BY <1>2, <2>2, <2>3
  <2> QED  BY <1>2, <1>5, <1>7, <2>1, <2>2, <2>3, <2>4 DEF Worth
<1>9. OwnerWorth(w, st, io, e)
  <2>1. w.live <= w.live
    BY <1>2
  <2> QED  BY <1>2, <1>5, <2>1, OwnerFrame
<1>10. OnceTold(f, w, st, io, meta)
  <2> SUFFICES ASSUME w.phase # "cold", meta # NoRow, st.mut.open,
                      ~(meta.bind < st.cur.bind)
               PROVE  NotAgain(f, w, st, io)
    BY <1>2 DEF OnceTold
  <2>1. NotAgain(file, w, st, io)
    BY <1>2 DEF OnceTold
  <2>2. w.gen # 0
    BY <1>1, <1>2 DEF OwnerWorth
  <2> QED  BY <1>1, <1>6, <2>1, <2>2 DEF NotAgain
<1> QED  BY <1>1, <1>2, <1>4, <1>8, <1>9, <1>10 DEF Counted

LEMMA InitCounted ==
  ASSUME Init
  PROVE  Counted
<1>1. meta = NoRow /\ w.phase = "cold" /\ st.pending = NoPending
  BY DEF Init, Cold, NoStorage
<1> QED  BY <1>1 DEF Counted, RowWorth, OwnerWorth, TriedOnce, OnceTold

LEMMA NextCounted ==
  ASSUME Certain, Quiet, Counted, [Next]_vars
  PROVE  Counted'
<1>1. Sure
  BY DEF Certain
<1>2. CASE Observe \/ ObserveFault \/ PatchMetadata
  BY <1>1, <1>2, CountGrows
<1>3. CASE \E n \in 0 .. MaxRevision : Rewind(n)
  BY <1>1, <1>3, CountRewind
<1>4. CASE TimerFire \/ Flush
  BY <1>1, <1>4, CountStart
<1>5. CASE HealthTimeout \/ Retire \/ RetireTimeout \/ Revoke \/ ForeignEdit
  BY <1>1, <1>5, CountTimeouts
<1>6. CASE AppendCreate \/ AppendHeader \/ AppendPart \/ AppendRow
  BY <1>1, <1>6, CountAppend
<1>7. CASE AppendCheck \/ ReplaceCheck
  BY <1>1, <1>7, CountAppendCheck, CountReplaceCheck
<1>8. CASE ReplaceIntent \/ ReplaceRename
  BY <1>1, <1>8, CountReplaceIntent, CountReplaceRename
<1>9. CASE Publish \/ Commit
  BY <1>1, <1>9, CountPublish, CountCommit
<1>10. CASE IoFail
  BY <1>1, <1>10, CountIoFail
<1>11. CASE Create \/ Activate \/ ActivateDamaged
  BY <1>11, CountCreate, CountActivate, CountDamaged
<1>12. CASE RetireSettled \/ Exit
  BY <1>12, CountEnd
<1>13. CASE \E kind \in Intrusions : Intrude(kind)
  BY <1>13, CountIntrude
<1>14. CASE UNCHANGED vars
  BY <1>14 DEF vars, Counted
<1> QED
  BY <1>2, <1>3, <1>4, <1>5, <1>6, <1>7, <1>8, <1>9, <1>10, <1>11, <1>12, <1>13, <1>14
     DEF Next, IoStep

-----------------------------------------------------------------------------
LEMMA AlwaysCounted == Spec => [](Certain /\ Followed /\ Measured /\ Counted)
<1> DEFINE I == Certain /\ Quiet /\ Followed /\ Measured /\ Counted
<1>1. Init => I
  BY InitCertain, InitQuiet, InitFollowed, InitMeasured, InitCounted
<1>2. I /\ [Next]_vars => I'
  BY NextCertain, NextQuiet, NextFollowed, NextMeasured, NextCounted
<1>3. I => Certain /\ Followed /\ Measured /\ Counted
  OBVIOUS
<1> QED  BY <1>1, <1>2, <1>3, PTL DEF Spec

LEMMA InRevisions ==
  ASSUME Sure
  PROVE  /\ 0 .. Top(opens, excuses) \subseteq Revisions
         /\ BatchesTo(Top(opens, excuses), ops) \subseteq Batches
         /\ PointsTo(gens, Top(opens, excuses)) \subseteq Points
<1>1. PICK r : r = Top(opens, excuses)
  OBVIOUS
<1>2. opens \in 0 .. MaxOpens /\ opens \in Nat
  BY SureFacts
<1>3. r \in Nat /\ r <= MaxRevision + opens
  BY <1>1, <1>2, TopIs
<1>4. 0 .. r \subseteq Revisions
  BY <1>2, <1>3, BoundsAssumption DEF Revisions
<1>5. BatchesTo(r, ops) \subseteq Batches
  BY <1>4 DEF BatchesTo, Batches
<1>6. PointsTo(gens, r) \subseteq Points
  BY <1>4 DEF PointsTo, Points
<1> QED  BY <1>1, <1>4, <1>5, <1>6

LEMMA FileTyped ==
  ASSUME Sure, Measured
  PROVE  file \in [kind : {"none", "empty", "header", "v2"}, gen : 0 .. gens,
                   base : Revisions, ops : Seq(0 .. ops), rows : Seq(Batches),
                   tail : Batches]
<1>1. PICK r : r = Top(opens, excuses)
  OBVIOUS
<1>2. FileFits(file, r, ops) /\ FileOk(file, gens, excuses)
  BY <1>1, MeasureNow, NowFacts DEF Stored
<1>3. 0 .. r \subseteq Revisions /\ BatchesTo(r, ops) \subseteq Batches
  BY <1>1, InRevisions
<1>4. Seq(BatchesTo(r, ops)) \subseteq Seq(Batches)
  BY <1>3, SeqDef
<1>5. /\ file.base \in Revisions /\ file.ops \in Seq(0 .. ops)
      /\ file.rows \in Seq(Batches) /\ file.tail \in Batches
  BY <1>2, <1>3, <1>4 DEF FileFits
<1>6. file \in [kind : {"none", "empty", "header", "v2"}, gen : 0 .. gens, base : Nat,
                ops : Seq(Nat), rows : Seq(BatchT), tail : BatchT]
  BY <1>2 DEF FileOk
<1> QED  BY <1>5, <1>6

LEMMA RowTyped ==
  ASSUME Sure, Counted
  PROVE  DOMAIN meta = Keys /\ meta.bind \in 0 .. MaxRevision
<1>1. /\ MaxRevision \in Nat /\ RowWorth(file, meta, excuses, gens)
      /\ meta # NoRow => meta \in RowT /\ meta.bind \in Nat
  BY CountNow
<1>2. CASE meta = NoRow
  <2>1. DOMAIN meta = Keys /\ meta.bind = 0
    BY <1>2 DEF NoRow, Row, Keys
  <2> QED  BY <1>1, <2>1
<1>3. CASE meta # NoRow
  <2>1. DOMAIN meta = Keys
    BY <1>1, <1>3 DEF RowT, Keys
  <2>2. Worth(AtMost(meta), MaxRevision, excuses)
    BY <1>1, <1>3 DEF RowWorth
  <2>3. meta.bind <= AtMost(meta) /\ AtMost(meta) \in Nat /\ meta.bind \in Nat
    BY <1>1, <1>3 DEF AtMost
  <2>4. 2 * AtMost(meta) <= MaxRevision + MaxRevision
    BY <1>1, <2>2, <2>3 DEF Worth
  <2> QED  BY <1>1, <2>1, <2>3, <2>4
<1> QED  BY <1>2, <1>3

LEMMA JobTyped ==
  ASSUME Sure, Measured
  PROVE  /\ io.job \in {"none", "append", "replace"} /\ io.batch \in Batches
         /\ io.expected \in Points
<1>1. PICK r : r = Top(opens, excuses)
  OBVIOUS
<1>2. /\ r \in Nat /\ gens \in Nat /\ io.batch \in BatchesTo(r, ops)
      /\ w.live \in Nat /\ w.live <= r
  BY <1>1, MeasureNow
<1>3. BatchesTo(r, ops) \subseteq Batches /\ PointsTo(gens, r) \subseteq Points
  BY <1>1, InRevisions
<1>4. io.job \in {"none", "append", "replace"} /\ (io # Idle <=> io.job # "none")
  BY SureFacts
<1>5. io.expected \in PointsTo(gens, r)
  <2>1. CASE io = Idle
    BY <1>2, <2>1 DEF Idle, Point, PointsTo
  <2>2. CASE io # Idle
    <3>1. io.expected = Point(w.gen, w.durable)
      BY <2>2, JobFlow
    <3>2. w.gen \in 0 .. gens /\ w.durable \in 0 .. r
      BY <1>2, SureFacts
    <3> QED  BY <3>1, <3>2 DEF Point, PointsTo
  <2> QED  BY <2>1, <2>2
<1> QED  BY <1>2, <1>3, <1>4, <1>5

(* However the owners, their crashes and another program's writes follow   *)
(* one another, every part of the state stays what it is meant to be: a    *)
(* file of batches, a row that has seen no more rewinds than revisions     *)
(* were there to pay for them, a queue and a job of numbered batches, and  *)
(* a reopened history that the owners have lengthened by no more than one  *)
(* revision each (TranscriptWriter, TranscriptFile, sessions.json).        *)
THEOREM TranscriptTyped == Spec => []TypeOK
<1>1. Certain /\ Followed /\ Measured /\ Counted => TypeOK
  <2> SUFFICES ASSUME Certain, Followed, Measured, Counted
               PROVE  TypeOK
    OBVIOUS
  <2>1. Sure
    BY DEF Certain
  <2>2. PICK r : r = Top(opens, excuses)
    OBVIOUS
  <2>3. /\ WriterFits(w, r, ops) /\ StoreFits(st, r, gens)
        /\ history \in Seq(Seq(0 .. ops))
    BY <2>1, <2>2, MeasureNow
  <2>4. /\ BatchesTo(r, ops) \subseteq Batches /\ PointsTo(gens, r) \subseteq Points
    BY <2>1, <2>2, InRevisions
  <2>5. w.queue \in Seq(Batches)
    BY <2>3, <2>4, SeqDef DEF WriterFits
  <2>6. /\ w.phase \in {"active", "closed", "cold"} /\ w.timer \in {"off", "armed"}
        /\ w.state \in {"healthy", "retrying", "degraded"}
    BY <2>1 DEF Sure, Inv, Shape, Writer
  <2>7. w.durable <= w.live
    BY <2>1, SureFacts
  <2>8. st.pend \subseteq Keys /\ st.mut.target \in Points
    BY <2>3, <2>4 DEF StoreFits
  <2>9. cuts \subseteq 1 .. Len(history)
    BY DEF Followed, BindingInv, CutsOk
  <2>10. file \in [kind : {"none", "empty", "header", "v2"}, gen : 0 .. gens,
                   base : Revisions, ops : Seq(0 .. ops), rows : Seq(Batches),
                   tail : Batches]
    BY <2>1, FileTyped
  <2>11. DOMAIN meta = Keys /\ meta.bind \in 0 .. MaxRevision
    BY <2>1, RowTyped
  <2>12. /\ io.job \in {"none", "append", "replace"} /\ io.batch \in Batches
         /\ io.expected \in Points
    BY <2>1, JobTyped
  <2> QED  BY <2>3, <2>5, <2>6, <2>7, <2>8, <2>9, <2>10, <2>11, <2>12 DEF TypeOK
<1> QED  BY <1>1, AlwaysCounted, PTL
=============================================================================
