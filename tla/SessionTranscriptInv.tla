------------------------ MODULE SessionTranscriptInv ------------------------
(***************************************************************************)
(* Inductive invariants of SessionTranscript.  Inv is about the order in   *)
(* which revisions travel from the queue to the file; Sure adds what they  *)
(* contain: every batch, candidate and row holds exactly what the history  *)
(* says of its revisions, and the file is never in a condition in which    *)
(* the owner would refuse it unless a cause is on record; Certain adds     *)
(* what an owner who found the file may believe of it; Quiet and Followed  *)
(* are about the row in the index, what waits to be published to it and    *)
(* the binding it names; Measured and Counted bound the numbers of the     *)
(* state: how far revisions go, and that the rewinds a row has seen were   *)
(* paid for by revisions.                                                  *)
(***************************************************************************)
EXTENDS SessionTranscript

-----------------------------------------------------------------------------
(* Records and sequences, with the content of the conversation left        *)
(* untyped: its batches are joined by a fold.                              *)

Tidy(s) == s \in Seq(Range(s))

Writer(x) ==
  [phase : {"active", "closed", "cold"}, gen : {x.gen}, recovery : Nat,
   proj : {x.proj}, queue : {x.queue}, baseline : BOOLEAN, complete : BOOLEAN,
   retiring : BOOLEAN, blocked : BOOLEAN, attempted : BOOLEAN,
   emptyPending : BOOLEAN, retryBatch : {x.retryBatch}, retrying : BOOLEAN,
   timer : {"off", "armed"}, watch : BOOLEAN,
   state : {"healthy", "retrying", "degraded"}, live : Nat, durable : Nat]

Shape(x) ==
  /\ x \in Writer(x)
  /\ Tidy(x.queue)
  /\ \A i \in 1 .. Len(x.queue) : x.queue[i].to \in Nat
  /\ x.retryBatch.to \in Nat

JobShape(j) ==
  /\ j \in [job : {"none", "append", "replace"}, step : {j.step}, expected : {j.expected},
            batch : {j.batch}, rev : Nat, ops : {j.ops}, recover : BOOLEAN,
            patch : {j.patch}, keys : {j.keys}]
  /\ j.batch.to \in Nat
  /\ j.job = "none" => j = Idle

StorageShape(s) ==
  /\ s \in [cursor : [gen : {s.cursor.gen}, rev : {s.cursor.rev}, size : Nat],
            created : {s.created},
            pending : [gen : {s.pending.gen}, rev : Nat, ops : {s.pending.ops},
                       empty : {s.pending.empty}, expected : {s.pending.expected}],
            coldTail : {s.coldTail}, allowCreate : {s.allowCreate}, cur : {s.cur},
            pend : {s.pend}, published : {s.published}, mut : {s.mut}]

FileShape(f) ==
  /\ f \in [kind : {f.kind}, gen : {f.gen}, base : Nat, ops : {f.ops},
            rows : {f.rows}, tail : {f.tail}]
  /\ Tidy(f.rows)
  /\ \A i \in 1 .. Len(f.rows) : f.rows[i].to \in Nat

(* Whatever waits, is in flight or has to be tried again lies beyond what  *)
(* is saved, in the order of the revisions, and a candidate that is left   *)
(* over is the next to be published.                                       *)
QueueAhead(x) ==
  /\ x.durable <= x.live
  /\ \A i \in 1 .. Len(x.queue) : x.durable < x.queue[i].to /\ x.queue[i].to <= x.live
  /\ \A i, k \in 1 .. Len(x.queue) : i < k => x.queue[i].to < x.queue[k].to

Precedes(x, rev) == \A i \in 1 .. Len(x.queue) : rev < x.queue[i].to

RetryAhead(x, j) ==
  x.retryBatch # NoBatch =>
    /\ x.durable < x.retryBatch.to /\ x.retryBatch.to <= x.live
    /\ Precedes(x, x.retryBatch.to)
    /\ j.job # "replace"

AppendAhead(x, j) ==
  j.job = "append" =>
    /\ j.rev = j.batch.to /\ ~j.recover
    /\ x.durable < j.rev /\ j.rev <= x.live
    /\ Precedes(x, j.rev)
    /\ x.retryBatch \in {NoBatch, j.batch}

ReplaceAhead(x, j, p) ==
  j.job = "replace" =>
    /\ x.durable <= j.rev /\ j.rev <= x.live
    /\ Precedes(x, j.rev)
    /\ j.step = "candidate" \/ p # NoPending
    /\ p # NoPending => p.rev <= j.rev

PendingAhead(x, j, p) ==
  p # NoPending =>
    /\ x.retryBatch = NoBatch
    /\ x.durable <= p.rev /\ p.rev <= x.live
    /\ \/ j.job = "replace"
       \/ j.job = "none" /\ (x.baseline \/ x.blocked \/ x.phase # "active")

Flow(x, j, p) ==
  QueueAhead(x) /\ RetryAhead(x, j) /\ AppendAhead(x, j) /\ ReplaceAhead(x, j, p)
    /\ PendingAhead(x, j, p)

(* The newest revision is the last of what waits, or what is in flight, or *)
(* to be tried again, or saved.                                            *)
Covered(x, j) ==
  (x.phase = "active" /\ ~x.blocked) =>
    \/ x.baseline
    \/ x.queue # <<>> /\ x.queue[Len(x.queue)].to = x.live
    \/ /\ x.queue = <<>>
       /\ \/ x.durable = x.live
          \/ j.job # "none" /\ j.rev = x.live
          \/ j.job = "none" /\ x.retryBatch # NoBatch /\ x.retryBatch.to = x.live

Recovered(x) ==
  (x.phase = "active" /\ x.state = "healthy") => x.durable >= x.recovery

Told(x) ==
  (x.phase = "active" /\ ~x.blocked /\ x.durable < x.live) =>
    x.watch \/ x.state = "degraded"

Free(x, j) == x.phase = "active" /\ ~x.retiring /\ j.job = "none"

TimerHonest(x, j) == x.timer = "armed" => Free(x, j) /\ HasWork(x)

TimerArmed(x, j) == (Free(x, j) /\ ~x.blocked /\ HasWork(x)) => x.timer = "armed"

Cleared(x, j, p) == x.phase = "cold" => j = Idle /\ p = NoPending

WriterInv(x, j, p) ==
  /\ Flow(x, j, p) /\ Covered(x, j) /\ Recovered(x) /\ Told(x)
  /\ TimerHonest(x, j) /\ TimerArmed(x, j) /\ Cleared(x, j, p)

Inv ==
  /\ Shape(w) /\ JobShape(io) /\ StorageShape(st) /\ FileShape(file) /\ gens \in Nat
  /\ WriterInv(w, io, st.pending)

-----------------------------------------------------------------------------
(* What the queue, a write, a batch to be tried again and a candidate      *)
(* contain.                                                                *)

BatchT == [inst : Nat, from : Nat, to : Nat, ops : Seq(Nat)]

(* The conversation after the first n revisions. *)
Said(h, n) == IF n = 0 THEN <<>> ELSE h[n]

Says(b, h) ==
  /\ b \in BatchT /\ b.from \in 1 .. b.to /\ b.to <= Len(h)
  /\ Said(h, b.to) = Said(h, b.from - 1) \o b.ops

HistoryOk(x, h) ==
  /\ h \in Seq(Seq(Nat)) /\ x.live = Len(h)
  /\ x.phase # "cold" => x.proj = Said(h, x.live)

(* The revision the queue starts behind. *)
Begin(x, j) ==
  IF j.job # "none" THEN j.rev
  ELSE IF x.retryBatch # NoBatch THEN x.retryBatch.to
  ELSE x.durable

(* Entries that lead from one revision to another. *)
Chain(q, start, last, h) ==
  /\ q \in Seq(BatchT)
  /\ \A i \in 1 .. Len(q) :
       q[i].from = (IF i = 1 THEN start ELSE q[i - 1].to) + 1 /\ Says(q[i], h)
  /\ (IF q = <<>> THEN start ELSE q[Len(q)].to) = last

Recording(x) == x.phase = "active" /\ ~x.blocked /\ ~x.baseline

QueueOk(x, j, h) ==
  /\ x.queue \in Seq(BatchT)
  /\ Recording(x) => Chain(x.queue, Begin(x, j), x.live, h)

NextBatch(b, x, h, o) == Says(b, h) /\ b.inst = o /\ b.from = x.durable + 1

JobOk(x, j, h, o) ==
  /\ x.retryBatch # NoBatch => NextBatch(x.retryBatch, x, h, o) /\ ~x.baseline
  /\ j.job = "append" => NextBatch(j.batch, x, h, o) /\ ~x.baseline
  /\ j.job = "replace" => j.ops = Said(h, j.rev) /\ ~x.baseline
  /\ j.job # "none" => j.expected = Point(x.gen, x.durable)

PendingOk(x, p, h, g) ==
  p # NoPending =>
    /\ p.rev <= Len(h) /\ p.ops = Said(h, p.rev)
    /\ p.gen \in 1 .. g /\ p.gen # x.gen
    /\ p.expected = Point(x.gen, x.durable)

(* The writer x, the job j and the candidate p carry the history h. *)
Carried(x, j, p, h, g, o) ==
  /\ HistoryOk(x, h) /\ QueueOk(x, j, h) /\ JobOk(x, j, h, o) /\ PendingOk(x, p, h, g)
  /\ x.gen \in 0 .. g /\ (x.phase # "cold" => o # 0)

Written ==
  /\ opens \in 0 .. MaxOpens /\ edits \in 0 .. MaxEdits /\ ops \in Nat
  /\ Carried(w, io, st.pending, history, gens, opens)

-----------------------------------------------------------------------------
(* What the file contains, and what its owner knows of it.                 *)

FileOk(f, g, e) ==
  /\ f \in [kind : {"none", "empty", "header", "v2"}, gen : 0 .. g, base : Nat,
            ops : Seq(Nat), rows : Seq(BatchT), tail : BatchT]
  /\ \A i \in 1 .. Len(f.rows) : Contiguous(f, i)
  /\ f.kind # "v2" => f = Transcript(f.kind, f.gen, 0, <<>>)
  /\ f.kind = "none" => f = NoFile
  /\ f.base = 0 => f.ops = <<>>
  /\ f.gen = 0 => f.kind = "none" \/ "foreign" \in e

(* The revision the first n rows of a file reach. *)
Reach(f, n) == IF n = 0 THEN f.base ELSE f.rows[n].to

CursorOk(f, c) ==
  (Readable(f) /\ f.gen = c.gen) => c.size \in 0 .. Len(f.rows) /\ Reach(f, c.size) = c.rev

CreatedOk(f, x, s, e) ==
  s.created =>
    /\ x.phase # "cold" /\ s.allowCreate
    /\ x.durable = 0 \/ ("foreign" \in e /\ Readable(f))
    /\ ~Readable(f) => f.gen = x.gen \/ "emptied" \in e

ExcusesOk(f, e) ==
  /\ e \subseteq {"fault", "leftover", "foreign", "row", "emptied"}
  /\ "emptied" \in e \/ "row" \in e => "foreign" \in e
  /\ ~("emptied" \in e /\ "row" \in e)
  /\ f = NoFile => "foreign" \notin e

Trusted(e) == "emptied" \notin e /\ "row" \notin e

Mine(f, x, p) ==
  x.phase # "cold" /\ (f.gen = x.gen \/ (p # NoPending /\ f.gen = p.gen))

FileSays(f, x, h) ==
  /\ Revision(f) \in x.durable .. Len(h)
  /\ Content(f) = Said(h, Revision(f))

ContentOk(f, x, p, m, h, e) ==
  (Trusted(e) /\ Readable(f) /\ (m # NoRow \/ Mine(f, x, p))) =>
    (x.phase # "cold" => Mine(f, x, p)) /\ FileSays(f, x, h)

RowT ==
  [bind : Nat, stats : Nat, title : Nat, favorite : 0 .. MaxEdits,
   intent : [src : Nat, dst : Nat, rev : Nat]]

MutationT == [open : BOOLEAN, target : [gen : Nat, rev : Nat]]

(* What is saved is in the index, and what is in the index has a file. *)
RowOk(f, x, s, j, m, e) ==
  /\ x.durable > 0 => m # NoRow
  /\ m # NoRow => (Readable(f) \/ "emptied" \in e) /\ m \in RowT
  /\ s.published \/ s.mut.open \/ j.step = "indexed" => m # NoRow
  /\ s.cur \in RowT /\ j.patch \in RowT /\ s.mut \in MutationT

RenamedOk(f, p) ==
  (p # NoPending /\ f.gen = p.gen) => Readable(f) /\ f.base = p.rev

Committing(j, p) ==
  IF j.job = "append" THEN Point(j.expected.gen, j.batch.to) ELSE Point(p.gen, p.rev)

StepsOk(f, x, s, j) ==
  /\ j.job = "append" => j.step \in {"open", "header", "check", "write", "sync", "indexed"}
  /\ j.job = "replace" => j.step \in {"candidate", "intent", "rename", "sync", "indexed"}
  /\ j.step = "header" => s.created /\ x.durable = 0 /\ f.kind \in {"empty", "header"}
                            /\ f.gen = x.gen
  /\ j.step = "check" => Readable(f)
  /\ j.step = "write" =>
       /\ Readable(f) /\ f.gen = x.gen /\ Revision(f) = x.durable
       /\ s.cursor = [gen |-> x.gen, rev |-> x.durable, size |-> Len(f.rows)]
  /\ j.step \in {"sync", "indexed"} =>
       /\ Readable(f) /\ f.tail = NoBatch
       /\ Point(f.gen, Revision(f)) = Committing(j, s.pending)
       /\ j.job = "append" => LastBatch(f) = j.batch

(* A row of another program is in the way of everything the owner does. *)
RowStays(f, x, p, j, e) ==
  "row" \in e =>
    /\ Readable(f) /\ f.tail = NoBatch
    /\ f.rows # <<>> /\ f.rows[Len(f.rows)].inst = MaxOpens + 1
    /\ x.phase # "cold" /\ f.gen = x.gen => Revision(f) > x.durable
    /\ p # NoPending /\ f.gen = p.gen => Revision(f) > p.rev
    /\ j.step \in {"none", "open", "candidate"}

CauseOk(x, p, j, e) ==
  (x.blocked \/ x.attempted \/ x.emptyPending \/ ~x.complete \/ j.recover \/ p.empty)
    => e # {}

Open0(x, j) == IF j.job = "append" THEN j.batch ELSE x.retryBatch

(* What an owner without an excuse may find: nothing, the beginning of a   *)
(* file of its own, its own file with or without the batch it is writing,  *)
(* or its own candidate in the place of the file.                          *)
NothingYet(f, x, s) ==
  f = NoFile /\ s.allowCreate /\ x.durable = 0 /\ s.cursor.gen = 0

HeaderBegun(f, x, s, j) ==
  f.kind \in {"empty", "header"} /\ s.created /\ x.durable = 0 /\ Open0(x, j) # NoBatch

UpToDate(f, x, s, j) ==
  /\ Readable(f) /\ f.gen = x.gen /\ Revision(f) = x.durable
  /\ f.tail \in {NoBatch, Open0(x, j)} \/ (s.coldTail /\ s.cursor.gen = 0)

OneAhead(f, x, j) ==
  /\ Readable(f) /\ f.gen = x.gen /\ f.tail = NoBatch
  /\ Open0(x, j) # NoBatch /\ LastBatch(f) = Open0(x, j)

Replaced(f, p) == p # NoPending /\ f = Transcript("v2", p.gen, p.rev, p.ops)

AsLeft(f, x, s, j, e) ==
  (e = {} /\ x.phase # "cold") =>
    \/ NothingYet(f, x, s) \/ HeaderBegun(f, x, s, j)
    \/ UpToDate(f, x, s, j) \/ OneAhead(f, x, j) \/ Replaced(f, s.pending)

(* The file f, the row m and what their owner keeps store the history h. *)
Stored(f, x, s, j, m, h, e, g) ==
  /\ FileOk(f, g, e) /\ CursorOk(f, s.cursor) /\ CreatedOk(f, x, s, e) /\ ExcusesOk(f, e)
  /\ ContentOk(f, x, s.pending, m, h, e) /\ RowOk(f, x, s, j, m, e)
  /\ RenamedOk(f, s.pending) /\ StepsOk(f, x, s, j)
  /\ RowStays(f, x, s.pending, j, e) /\ CauseOk(x, s.pending, j, e)
  /\ AsLeft(f, x, s, j, e)

OnDisk == Stored(file, w, st, io, meta, history, excuses, gens)

Sure == Inv /\ Written /\ OnDisk

(* What TranscriptFile remembers of the file: nothing while there is none, *)
(* and afterwards the generation the writer has.                           *)
SeenOk(f, x, s, e) ==
  /\ f.gen = 0 => f.base = 0
  /\ f = NoFile => s.cursor.gen = 0 /\ e \subseteq {"fault"}
  /\ s.cursor.gen \in {0, x.gen}
  /\ s.cursor.gen = 0 => "foreign" \in e \/ (s.cursor.rev = 0 /\ s.cursor.size = 0)

(* An owner that makes the file itself has nothing to replace, unless      *)
(* another program got between.                                            *)
BirthOk(f, x, s, j, e) ==
  /\ s.allowCreate => x.gen # 0
  /\ x.phase # "cold" /\ "fault" \in e => ~x.complete
  /\ s.created =>
       /\ "leftover" \notin e
       /\ x.baseline \/ j.job = "replace" => "foreign" \in e
       /\ s.cursor.gen = x.gen =>
            \/ s.cursor.rev = 0 /\ s.cursor.size = 0
            \/ "foreign" \in e /\ Readable(f)
  /\ j.step = "intent" => s.mut.open

Founded == SeenOk(file, w, st, excuses) /\ BirthOk(file, w, st, io, excuses)

Certain == Sure /\ Founded

-----------------------------------------------------------------------------
(* The row of the Session in the index, and the rewinds it has seen.       *)

Others == Keys \ {"favorite"}

(* What the owner believes of the row and has not to publish is true.      *)
RowSeen(x, s, m, j) ==
  /\ x.phase # "cold" => \A k \in Others : k \in s.pend \/ m[k] = s.cur[k]
  /\ x.phase # "cold" => s.cur.intent = NoIntent /\ s.pend \subseteq Keys
  /\ j.step = "indexed" =>
       /\ \A k \in Others : m[k] = j.patch[k]
       /\ j.patch.intent = NoIntent

(* A rewind that is open has the whole row to publish, and a candidate     *)
(* that may be in the place of the file is the one it has in mind.         *)
MutationOk(f, x, s, j) ==
  /\ ~s.mut.open => s.mut = NoMutation
  /\ s.mut.open => s.pend = Keys /\ x.retryBatch = NoBatch /\ j.job # "append"
  /\ (s.mut.open /\ s.pending # NoPending /\ (f.gen = s.pending.gen \/ j.step = "rename"))
       => s.mut.target = Point(s.pending.gen, s.pending.rev)

(* A replacement is about more than what is saved. *)
ReplaceNeeded(x, j, p) ==
  /\ x.recovery <= x.live
  /\ x.baseline => x.durable < x.live
  /\ j.job = "replace" => x.durable < j.rev
  /\ p # NoPending => x.durable < p.rev

(* The snapshot a commit was published with is of all that it saves, or    *)
(* more has been said since.                                               *)
SnapshotOk(x, s, j) ==
  j.step = "indexed" =>
    \/ Committing(j, s.pending).rev < x.live
    \/ s.pend = j.keys /\ \A k \in j.keys : s.cur[k] = j.patch[k]

(* What is left to do as long as the owner records. *)
Calm(x, s, j) ==
  (x.phase = "active" /\ ~x.blocked) =>
    /\ x.complete /\ (x.state # "healthy" => x.durable < x.live)
    /\ s.mut.open => x.baseline \/ j.job = "replace"
    /\ x.durable = x.live => s.pend \subseteq {"stats"}
    /\ SnapshotOk(x, s, j)
    /\ s.cur.stats = Len(x.proj)

RowInv(f, x, s, j, m) ==
  /\ RowSeen(x, s, m, j) /\ MutationOk(f, x, s, j) /\ ReplaceNeeded(x, j, s.pending)
  /\ Calm(x, s, j)

Quiet == RowInv(file, w, st, io, meta)

(* The rewinds up to revision n. *)
Cuts(c, n) == {k \in c : k <= n}

(* The row m has seen the rewinds a file of generation n at revision r has, *)
(* or has when the rewind it announces is decided.                         *)
Decided(n, r, m, c) ==
  IF m.intent = NoIntent THEN m.bind = Cardinality(Cuts(c, r))
  ELSE IF n = m.intent.dst
  THEN r >= m.intent.rev /\ m.bind + 1 = Cardinality(Cuts(c, r))
  ELSE n = m.intent.src /\ m.bind = Cardinality(Cuts(c, r))

Bound(f, m, c, e) ==
  (m # NoRow /\ Readable(f) /\ "foreign" \notin e) => Decided(f.gen, Revision(f), m, c)

(* All rewinds are saved but the one that is open, which comes first of    *)
(* what is not.                                                            *)
CutsOk(x, s, m, h, c, e) ==
  /\ c \subseteq 1 .. Len(h)
  /\ m = NoRow => c = {}
  /\ x.phase # "cold" /\ "foreign" \notin e =>
       /\ s.cur.bind = Cardinality(c)
       /\ ~s.mut.open => \A k \in c : k <= x.durable
       /\ s.mut.open =>
            x.durable > 0 /\ x.durable + 1 \in c /\ \A k \in c : k <= x.durable + 1

(* The row says how the replacement of a rewind is told from the file. *)
Announced(x, p) == [src |-> x.gen, dst |-> p.gen, rev |-> p.rev]

(* An interrupted rewind the new owner has decided and not yet published:  *)
(* until it has, it appends and never replaces the file.                   *)
Undecided(f, x, s, j, m, e) ==
  /\ s.pend = Keys /\ s.pending = NoPending /\ ~x.baseline /\ j.job # "replace"
  /\ "leftover" \notin e /\ x.durable < x.live
  /\ f.gen = m.intent.dst => m.intent.rev <= x.durable

IntentOk(f, x, s, j, m, e) ==
  (x.phase # "cold" /\ "foreign" \notin e) =>
    /\ j.step \in {"intent", "rename"} /\ Readable(f) /\ m # NoRow =>
         f.gen = x.gen /\ Revision(f) = x.durable
    /\ s.mut.open /\ j.step = "rename" => m.intent = Announced(x, s.pending)
    /\ m.intent # NoIntent =>
         IF s.mut.open THEN s.pending # NoPending /\ m.intent = Announced(x, s.pending)
         ELSE Undecided(f, x, s, j, m, e)

BindingInv(f, x, s, j, m, h, c, e) ==
  Bound(f, m, c, e) /\ CutsOk(x, s, m, h, c, e) /\ IntentOk(f, x, s, j, m, e)

Followed == BindingInv(file, w, st, io, meta, history, cuts, excuses)

-----------------------------------------------------------------------------
(* How far the numbers go.                                                 *)

(* Whoever decides a rewind adds a revision, and so does, once, another    *)
(* program.                                                                *)
Top(o, e) == (MaxRevision - 1) + o + (IF "foreign" \in e THEN 1 ELSE 0)

BatchesTo(r, n) == [inst : 0 .. MaxOpens + 1, from : 0 .. r, to : 0 .. r, ops : Seq(0 .. n)]

PointsTo(g, r) == [gen : 0 .. g, rev : 0 .. r]

FileFits(f, r, n) ==
  /\ f.base \in 0 .. r /\ f.ops \in Seq(0 .. n)
  /\ f.rows \in Seq(BatchesTo(r, n)) /\ f.tail \in BatchesTo(r, n)

WriterFits(x, r, n) ==
  x.live <= r /\ x.queue \in Seq(BatchesTo(r, n)) /\ x.retryBatch \in BatchesTo(r, n)

StoreFits(s, r, g) == s.pend \subseteq Keys /\ s.mut.target \in PointsTo(g, r)

Fits(f, x, j, s, h, r, n, g) ==
  /\ FileFits(f, r, n) /\ WriterFits(x, r, n) /\ j.batch \in BatchesTo(r, n)
  /\ StoreFits(s, r, g) /\ h \in Seq(Seq(0 .. n))

Measured == Fits(file, w, io, st, history, Top(opens, excuses), ops, gens)

(* Each rewind costs two revisions, so a binding that has seen b of them   *)
(* belongs to a history of at least 2 b; another program may, once, throw  *)
(* the history away and leave the binding.                                 *)
Worth(b, r, e) == 2 * b <= r + (IF "foreign" \in e THEN MaxRevision ELSE 0)

(* The rewinds the row has seen when its announcement is decided, and when *)
(* it is decided for the rewind.                                           *)
Happened(f, m) == IF m.intent # NoIntent /\ f.gen = m.intent.dst THEN m.bind + 1 ELSE m.bind
AtMost(m) == IF m.intent # NoIntent THEN m.bind + 1 ELSE m.bind

RowWorth(f, m, e, g) ==
  m # NoRow =>
    /\ Worth(Happened(f, m), Revision(f), e) /\ Worth(AtMost(m), MaxRevision, e)
    /\ m.intent # NoIntent => m.intent.dst \in 1 .. g

OwnerWorth(x, s, j, e) ==
  x.phase # "cold" =>
    /\ Worth(s.cur.bind, MaxRevision, e)
    /\ ~s.mut.open => Worth(s.cur.bind, x.durable, e)
    /\ s.mut.open =>
         /\ x.durable > 0 /\ Worth(s.cur.bind, x.durable + 2, e)
         /\ x.durable + 2 <= x.live
         /\ s.pending # NoPending => x.durable + 2 <= s.pending.rev
         /\ j.job = "replace" => x.durable + 2 <= j.rev
    /\ x.gen = 0 => "foreign" \in e

(* A candidate that may be put in the place of an empty file is not tried  *)
(* twice.                                                                  *)
TriedOnce(x, p, j) ==
  p # NoPending /\ p.empty =>
    (j.job = "replace" /\ j.recover) \/ x.blocked \/ x.phase # "active"

(* The binding of an open rewind is in the row only when nobody is going   *)
(* to announce the rewind again.                                           *)
NotAgain(f, x, s, j) ==
  \/ j.step \in {"sync", "indexed"}
  \/ /\ s.pending # NoPending /\ j.step # "intent"
     /\ \/ j.job = "none" /\ (x.blocked \/ x.phase # "active")
        \/ ~s.pending.empty /\ f.gen # x.gen

OnceTold(f, x, s, j, m) ==
  (x.phase # "cold" /\ m # NoRow) =>
    /\ m.bind <= s.cur.bind
    /\ s.mut.open => m.bind < s.cur.bind \/ NotAgain(f, x, s, j)
    /\ s.pending # NoPending /\ m.intent.dst = s.pending.gen => m.bind < s.cur.bind
    /\ s.allowCreate /\ x.durable = 0 => m.intent = NoIntent

Counted ==
  /\ RowWorth(file, meta, excuses, gens) /\ OwnerWorth(w, st, io, excuses)
  /\ TriedOnce(w, st.pending, io) /\ OnceTold(file, w, st, io, meta)
=============================================================================
