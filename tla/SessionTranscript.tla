-------------------------- MODULE SessionTranscript --------------------------
(***************************************************************************)
(* The V2 history of ONE Session: the write-behind queue of its Sidecar    *)
(* (src/server/session-transcript/writer.ts), the file protocol under it   *)
(* (file.ts), the metadata it publishes with every commit (session.ts,     *)
(* publishV2Metadata of SessionStore.ts), and its cold adoption by the     *)
(* next Sidecar (activateSessionTranscript).                               *)
(*                                                                         *)
(* An action is what runs between two awaits, or one step of the           *)
(* asynchronous file work.  A process may end at any step; what it wrote   *)
(* stays written (the code promises nothing for a loss of power).  Delays  *)
(* are not modelled: a timer that is armed may fire at any time, and a     *)
(* batch that is full at once is one whose timer fires at once.            *)
(*                                                                         *)
(* The content of the conversation is the sequence of its messages, each   *)
(* one operation.  Sessions of the dsh runtime, whose execution journal    *)
(* shares the metadata row, are left out.                                  *)
(*                                                                         *)
(* A definition Bug_D is a faulty variant of D, a mistake somebody could   *)
(* make; nothing uses it but the checks that a property notices it.        *)
(***************************************************************************)
EXTENDS TranscriptFile

CONSTANTS
  MaxRevision,   \* bound: revisions a history reaches
  MaxOpens,      \* bound: processes that own the Session, one after another
  MaxFaults,     \* bound: IO that fails or takes too long, and
                 \* observations that cannot be represented
  MaxRewinds,    \* bound: rewinds of the conversation
  MaxPatches,    \* bound: edits of the metadata by the owner
  Intrusions,    \* what another program may do to the file, once
  MaxEdits       \* bound: edits of the metadata row by another owner

ASSUME BoundsAssumption ==
  /\ MaxRevision \in Nat \ {0, 1} /\ MaxOpens \in Nat \ {0}
  /\ MaxFaults \in Nat /\ MaxRewinds \in Nat /\ MaxPatches \in Nat
  /\ Intrusions \subseteq {"empty", "header", "row"} /\ MaxEdits \in Nat

VARIABLES
  file,      \* the transcript on disk
  meta,      \* the Session's row in sessions.json
  w,         \* TranscriptWriter
  st,        \* TranscriptFile and SessionTranscript of the same instance
  io,        \* the file work in flight
  history,   \* history: the conversation after each revision
  cuts,      \* history: the revisions that were rewinds
  excuses,   \* history: why recording may stop for good
  opens, gens, ops, faults, edits   \* counters

disk    == <<file, meta>>
ghosts  == <<history, cuts, excuses>>
counts  == <<opens, gens, ops, faults, edits>>
vars    == <<file, meta, w, st, io, history, cuts, excuses,
             opens, gens, ops, faults, edits>>

-----------------------------------------------------------------------------
(* The metadata row: bind counts the rewinds the native conversation it    *)
(* points at has seen, stats is derived from the messages, title is edited *)
(* by this Session's owner and favorite by others, intent is               *)
(* pendingConversationMutation.                                            *)

NoIntent == [src |-> 0, dst |-> 0, rev |-> 0]

Keys == {"bind", "stats", "title", "favorite", "intent"}

Row(bind, stats, title, favorite, intent) ==
  [bind |-> bind, stats |-> stats, title |-> title, favorite |-> favorite,
   intent |-> intent]

NoRow == Row(0, 0, 0, MaxEdits + 1, NoIntent)     \* not in sessions.json

Birth == Row(0, 0, 0, 0, NoIntent)

Overlay(row, patch, keys) == [k \in Keys |-> IF k \in keys THEN patch[k] ELSE row[k]]

Point(gen, rev) == [gen |-> gen, rev |-> rev]

NoPending == [gen |-> 0, rev |-> 0, ops |-> <<>>, empty |-> FALSE,
              expected |-> Point(0, 0)]

NoMutation == [open |-> FALSE, target |-> Point(0, 0)]

Idle == [job |-> "none", step |-> "none", expected |-> Point(0, 0), batch |-> NoBatch,
         rev |-> 0, ops |-> <<>>, recover |-> FALSE, patch |-> Birth, keys |-> {}]

Cold == [phase |-> "cold", gen |-> 0, recovery |-> 0, proj |-> <<>>, queue |-> <<>>,
         baseline |-> FALSE, complete |-> TRUE, retiring |-> FALSE, blocked |-> FALSE,
         attempted |-> FALSE, emptyPending |-> FALSE, retryBatch |-> NoBatch,
         retrying |-> FALSE, timer |-> "off", watch |-> FALSE, state |-> "healthy",
         live |-> 0, durable |-> 0]

NoStorage == [cursor |-> [gen |-> 0, rev |-> 0, size |-> 0], created |-> FALSE,
              pending |-> NoPending, coldTail |-> FALSE, allowCreate |-> FALSE,
              cur |-> Birth, pend |-> {}, published |-> FALSE, mut |-> NoMutation]

Init ==
  /\ file = NoFile /\ meta = NoRow
  /\ w = Cold /\ st = NoStorage /\ io = Idle
  /\ history = <<>> /\ cuts = {} /\ excuses = {}
  /\ opens = 0 /\ gens = 0 /\ ops = 0 /\ faults = 0 /\ edits = 0

-----------------------------------------------------------------------------
(* The writer's helpers.                                                   *)

Active == w.phase = "active"

Busy == io # Idle

HasWork(x) == x.baseline \/ x.retryBatch # NoBatch \/ x.queue # <<>>

(* schedule: "dead" is a handle of a timer that was cleared and kept. *)
Schedule(x, now, busy) ==
  IF x.phase # "active" \/ x.retiring \/ x.blocked \/ busy THEN x
  ELSE IF x.timer # "off" /\ (~now \/ x.retrying) THEN x
  ELSE IF HasWork(x) THEN [x EXCEPT !.timer = "armed"]
  ELSE [x EXCEPT !.timer = IF @ = "off" THEN "off" ELSE "dead"]

WatchHealth(x) ==
  [x EXCEPT !.watch = @ \/ (x.phase = "active" /\ ~x.blocked /\ x.live # x.durable)]

Highest(a, b) == IF a > b THEN a ELSE b

(* recoveryRevision: what must be saved before the incident is over. *)
Fail(x, state) ==
  [x EXCEPT !.recovery = Highest(@, x.live), !.state = state]

Bug_Merged(q, rev, op) ==     \* the merged entry forgets its first revision
  [q EXCEPT ![Len(q)] = Batch(0, rev, rev, Append(@.ops, op))]

(* mergeAdjacentTextAppends: the merged entry keeps its first revision. *)
Merged(q, rev, op) ==
  LET last == q[Len(q)]
  IN  [q EXCEPT ![Len(q)] = Batch(last.inst, last.from, rev, Append(last.ops, op))]

(* requestCommit: adjacent barriers need only one. *)
Barrier(q, rev) ==
  IF q # <<>> /\ q[Len(q)].ops = <<>>
  THEN [q EXCEPT ![Len(q)].to = rev]
  ELSE Append(q, Batch(0, rev, rev, <<>>))

RequestCommit(x) ==
  LET y == [x EXCEPT !.live = @ + 1,
                     !.queue = IF x.baseline THEN @ ELSE Barrier(@, x.live + 1)]
  IN  Schedule(WatchHealth(y), FALSE, Busy)

Fault == faults < MaxFaults /\ faults' = faults + 1
NoFault == UNCHANGED faults

-----------------------------------------------------------------------------
(* Content producers.                                                      *)

(* The queue after an operation: entries of their own, or text appended to *)
(* the last one.                                                           *)
Queued(q, rev, op) ==
  {Append(q, Batch(0, rev, rev, <<op>>))} \cup
  (IF q # <<>> /\ q[Len(q)].ops # <<>> THEN {Merged(q, rev, op)} ELSE {})

(* The metadata derived from the messages is published with the next commit. *)
Derived(s, messages) ==
  [s EXCEPT !.cur.stats = Len(messages), !.pend = @ \cup {"stats"}]

Observe ==
  /\ Active /\ w.live < MaxRevision
  /\ ops' = ops + 1
  /\ \E q \in Queued(w.queue, w.live + 1, ops'), boundary \in BOOLEAN :
       w' = Schedule(WatchHealth([w EXCEPT
                !.live = @ + 1, !.proj = Append(@, ops'),
                !.queue = IF w.baseline THEN @ ELSE q]), boundary, Busy)
  /\ st' = Derived(st, w'.proj)
  /\ history' = Append(history, w'.proj)
  /\ UNCHANGED <<file, meta, io, cuts, excuses, opens, gens, faults, edits>>

(* An observation that cannot be represented, found before or after it was *)
(* applied: recording stops, the conversation goes on.                     *)
ObserveFault ==
  /\ Active /\ Fault
  /\ \/ /\ w' = Fail([w EXCEPT !.complete = FALSE, !.blocked = TRUE], "degraded")
        /\ UNCHANGED <<st, history, ops>>
     \/ /\ w.live < MaxRevision
        /\ ops' = ops + 1
        /\ w' = Fail([w EXCEPT !.complete = FALSE, !.blocked = TRUE,
                         !.live = @ + 1, !.proj = Append(@, ops')], "degraded")
        /\ st' = Derived(st, w'.proj)
        /\ history' = Append(history, w'.proj)
  /\ excuses' = excuses \cup {"fault"}
  /\ UNCHANGED <<file, meta, io, cuts, opens, gens, edits>>

(* SessionTranscript.patchMetadata: the owner edits its Session. *)
PatchMetadata ==
  /\ Active /\ w.live < MaxRevision /\ st.cur.title < MaxPatches
  /\ st' = [st EXCEPT !.cur.title = @ + 1, !.pend = @ \cup {"title"}]
  /\ IF w.blocked THEN UNCHANGED <<w, history>>
     ELSE w' = RequestCommit(w) /\ history' = Append(history, w.proj)
  /\ UNCHANGED <<file, meta, io, cuts, excuses, opens, gens, ops, faults, edits>>

(* commitV2ConversationMutation after flushForMutation has returned true:  *)
(* the conversation becomes its first n messages, the native binding that  *)
(* of the rewound conversation, and the whole row is pending.              *)
Rewind(n) ==
  /\ Active /\ ~w.blocked /\ w.complete /\ ~w.retiring /\ ~Busy
  /\ w.durable = w.live /\ ~st.mut.open
  /\ Cardinality(cuts) < MaxRewinds /\ w.live + 2 <= MaxRevision
  /\ n < Len(w.proj)
  /\ LET x == Schedule(WatchHealth([w EXCEPT !.proj = SubSeq(@, 1, n), !.live = @ + 1,
                                   !.queue = <<>>, !.baseline = TRUE]), TRUE, FALSE)
     IN  /\ w' = RequestCommit(x)
         /\ history' = history \o <<x.proj, x.proj>>
         /\ cuts' = cuts \cup {x.live}
  /\ st' = [st EXCEPT !.cur.bind = @ + 1, !.cur.stats = n, !.cur.intent = NoIntent,
                      !.pend = Keys, !.mut = [NoMutation EXCEPT !.open = TRUE]]
  /\ UNCHANGED <<file, meta, io, excuses, opens, gens, ops, faults, edits>>

-----------------------------------------------------------------------------
(* Starting a write.                                                       *)

AppendJob(x, b) ==
  [Idle EXCEPT !.job = "append", !.step = "open", !.expected = Point(x.gen, x.durable),
               !.batch = b, !.rev = b.to]

Bug_ReplaceJob(x) ==          \* the target is one revision ahead
  [Idle EXCEPT !.job = "replace", !.step = "candidate",
               !.expected = Point(x.gen, x.durable),
               !.rev = x.live + 1, !.ops = x.proj, !.recover = x.emptyPending]

ReplaceJob(x) ==
  [Idle EXCEPT !.job = "replace", !.step = "candidate",
               !.expected = Point(x.gen, x.durable),
               !.rev = x.live, !.ops = x.proj, !.recover = x.emptyPending]

(* The first n entries become one batch; how many fit is a matter of bytes. *)
Batched(q, n) ==
  Batch(opens, q[1].from, q[n].to, FlattenSeq([i \in 1 .. n |-> q[i].ops]))

StartWrite(x) ==
  IF Busy \/ ~Active \/ x.retiring \/ x.blocked \/ ~HasWork(x)
  THEN w' = x /\ UNCHANGED io
  ELSE IF x.retryBatch # NoBatch
  THEN w' = x /\ io' = AppendJob(x, x.retryBatch)
  ELSE IF x.baseline
  THEN /\ w' = [x EXCEPT !.queue = <<>>, !.baseline = FALSE, !.emptyPending = FALSE]
       /\ io' = ReplaceJob(x)
  ELSE \E n \in 1 .. Len(x.queue) :
         /\ w' = [x EXCEPT !.queue = SubSeq(@, n + 1, Len(@))]
         /\ io' = AppendJob(x, Batched(x.queue, n))

TimerFire ==
  /\ w.timer = "armed"
  /\ StartWrite([w EXCEPT !.timer = "off"])
  /\ UNCHANGED <<disk, st, ghosts, counts>>

(* flush, flushForMutation: a caller who needs the history on disk does    *)
(* not wait for the timer.                                                 *)
Flush ==
  /\ Active /\ ~w.blocked /\ ~Busy /\ w.durable < w.live
  /\ StartWrite([w EXCEPT !.timer = "off"])
  /\ UNCHANGED <<disk, st, ghosts, counts>>

HealthTimeout ==
  /\ w.watch /\ w.live > w.durable /\ Fault
  /\ w' = Fail([w EXCEPT !.watch = FALSE], "degraded")
  /\ UNCHANGED <<disk, st, io, ghosts, opens, gens, ops, edits>>

-----------------------------------------------------------------------------
(* The end of a write.                                                     *)

Bug_Finally(x) ==             \* what arrived during the write waits for the next event
  io' = Idle /\ w' = WatchHealth(x)

Finally(x) ==
  /\ io' = Idle
  /\ w' = Schedule(WatchHealth(x), ~x.retrying, FALSE)

Bug_Succeeded(x, committed) ==    \* one successful write ends the incident
  [x EXCEPT
     !.gen = committed.gen, !.durable = committed.rev,
     !.baseline = @ \/ (io.job = "replace" /\ committed.rev < io.rev),
     !.retryBatch = NoBatch, !.retrying = FALSE, !.watch = FALSE, !.state = "healthy"]

Succeeded(x, committed) ==
  LET y == [x EXCEPT
              !.gen = committed.gen, !.durable = committed.rev,
              !.baseline = @ \/ (io.job = "replace" /\ committed.rev < io.rev),
              !.retryBatch = NoBatch, !.retrying = FALSE, !.watch = FALSE]
  IN  [y EXCEPT !.state =
         IF ~y.baseline /\ y.complete /\ y.durable >= y.recovery THEN "healthy" ELSE @]

Refused(x) ==
  IF ~io.recover /\ ~x.attempted /\ x.complete
  THEN Fail([x EXCEPT !.attempted = TRUE, !.emptyPending = TRUE, !.baseline = TRUE,
                      !.retryBatch = NoBatch, !.queue = <<>>, !.retrying = FALSE],
            "degraded")
  ELSE Fail([x EXCEPT !.blocked = TRUE, !.retrying = TRUE], "degraded")

Failed(x) ==
  IF io.recover
  THEN Fail([x EXCEPT !.blocked = TRUE, !.retrying = TRUE], "degraded")
  ELSE LET y == [x EXCEPT !.retryBatch = IF io.job = "append" THEN io.batch ELSE @,
                          !.baseline = @ \/ io.job = "replace", !.retrying = TRUE]
       IN  Fail(y, IF y.baseline THEN "degraded" ELSE "retrying")

(* Any file operation of any step may fail; what it did stays done. *)
IoFail ==
  /\ Busy /\ Fault
  /\ Finally(Failed(w))
  /\ UNCHANGED <<disk, st, ghosts, opens, gens, ops, edits>>

At(job, step) == io.job = job /\ io.step = step

Goto(step) == io' = [io EXCEPT !.step = step]

-----------------------------------------------------------------------------
(* TranscriptFile.append.                                                  *)

(* The header of a file this instance creates: any part of it may be there *)
(* when the process ends.                                                  *)
AppendCreate ==
  /\ At("append", "open") /\ file = NoFile /\ st.allowCreate
  /\ \E kind \in {"empty", "header"} : file' = Transcript(kind, io.expected.gen, 0, <<>>)
  /\ st' = [st EXCEPT !.created = TRUE]
  /\ Goto("header")
  /\ UNCHANGED <<meta, w, ghosts, counts>>

(* Only this instance's own unfinished header is repaired. *)
OwnHeader == st.created /\ file.kind \in {"empty", "header"}

AppendHeader ==
  /\ At("append", "header") \/ (At("append", "open") /\ OwnHeader)
  /\ file' = Transcript("v2", io.expected.gen, 0, <<>>)
  /\ Goto("check")
  /\ excuses' = excuses \ {"emptied"}
  /\ UNCHANGED <<meta, w, st, history, cuts, counts>>

AppendCheck ==
  /\ At("append", "check") \/ (At("append", "open") /\ file # NoFile /\ ~OwnHeader)
  /\ LET known   == Known(file, st.cursor, io.expected)
         already == AlreadyWritten(file, st.cursor, io.expected, io.batch)
         offset  == IF already /\ ~known THEN Valid(file) - 1
                    ELSE Offset(file, st.cursor, io.expected)
     IN  IF MayAppend(file, st.cursor, io.expected, io.batch, st.coldTail)
         THEN /\ file' = IF already THEN file ELSE CutAt(file, offset)
              /\ st' = [st EXCEPT !.cursor = [gen |-> io.expected.gen,
                                              rev |-> io.expected.rev, size |-> offset]]
              /\ Goto(IF already THEN "sync" ELSE "write")
              /\ UNCHANGED w
         ELSE Finally(Refused(w)) /\ UNCHANGED <<file, st>>
  /\ UNCHANGED <<meta, ghosts, counts>>

AppendPart ==
  /\ At("append", "write") /\ file.tail = NoBatch
  /\ file' = [file EXCEPT !.tail = io.batch]
  /\ UNCHANGED <<meta, w, st, io, ghosts, counts>>

AppendRow ==
  /\ At("append", "write")
  /\ file' = [file EXCEPT !.rows = Append(@, io.batch), !.tail = NoBatch]
  /\ Goto("sync")
  /\ UNCHANGED <<meta, w, st, ghosts, counts>>

-----------------------------------------------------------------------------
(* TranscriptFile.replace and recoverEmptySource.                          *)

Bug_Candidate ==              \* every try makes a candidate of its own
  [gen |-> gens + 1, rev |-> io.rev, ops |-> io.ops, empty |-> io.recover,
   expected |-> io.expected]

(* A candidate that is left from an earlier try is published first. *)
Candidate ==
  IF st.pending # NoPending THEN st.pending
  ELSE [gen |-> gens + 1, rev |-> io.rev, ops |-> io.ops, empty |-> io.recover,
        expected |-> io.expected]

ReplaceCheck ==
  /\ At("replace", "candidate")
  /\ st' = [st EXCEPT !.pending = Candidate]
  /\ gens' = IF st.pending = NoPending THEN gens + 1 ELSE gens
  /\ IF Published(file, Candidate)
     THEN Goto("sync") /\ UNCHANGED <<file, w>>
     ELSE IF MayReplace(file, Candidate, st.coldTail, st.allowCreate)
     THEN /\ file' = [file EXCEPT !.tail = NoBatch]
          /\ Goto(IF st.mut.open THEN "intent" ELSE "rename")
          /\ UNCHANGED w
     ELSE Finally(Refused(w)) /\ UNCHANGED file
  /\ UNCHANGED <<meta, ghosts, opens, ops, faults, edits>>

(* prepareReplacement of a rewind: how its outcome is told from the file. *)
ReplaceIntent ==
  /\ At("replace", "intent")
  /\ st' = [st EXCEPT !.mut.target = Point(st.pending.gen, st.pending.rev)]
  /\ meta' = [meta EXCEPT !.intent =
       [src |-> st.pending.expected.gen, dst |-> st.pending.gen, rev |-> st.pending.rev]]
  /\ Goto("rename")
  /\ UNCHANGED <<file, w, ghosts, counts>>

ReplaceRename ==
  /\ At("replace", "rename")
  /\ file' = Transcript("v2", st.pending.gen, st.pending.rev, st.pending.ops)
  /\ Goto("sync")
  /\ excuses' = excuses \ {"emptied"}
  /\ UNCHANGED <<meta, w, st, history, cuts, counts>>

-----------------------------------------------------------------------------
(* publishBirth: the metadata goes with every commit.                      *)

Bug_Committed ==              \* what was observed during the write is counted in
  Point(IF io.job = "append" THEN io.expected.gen ELSE st.pending.gen, w.live)

Committed ==
  IF io.job = "append" THEN Point(io.expected.gen, io.batch.to)
  ELSE Point(st.pending.gen, st.pending.rev)

(* What TranscriptFile keeps of a commit. *)
Landed(s) ==
  [s EXCEPT !.cursor = [gen |-> Committed.gen, rev |-> Committed.rev,
                        size |-> Len(file.rows)],
            !.created = IF io.job = "append" THEN FALSE ELSE @,
            !.pending = NoPending]

(* The promise of the write settles.  The handle of an append is closed    *)
(* last, and when that fails the commit is landed and still reported as    *)
(* failed.                                                                 *)
Settle(s) ==
  /\ st' = Landed(s)
  /\ \/ NoFault /\ Finally(Succeeded(w, Committed))
     \/ io.job = "append" /\ Fault /\ Finally(Failed(w))

(* publishV2Metadata under the lock of sessions.json: the patch is a       *)
(* snapshot, and more may become pending before its writer hears of it.    *)
Publish ==
  /\ io.step = "sync" /\ (~st.published \/ st.pend # {})
  /\ meta' = IF meta = NoRow THEN st.cur ELSE Overlay(meta, st.cur, st.pend)
  /\ io' = [io EXCEPT !.step = "indexed", !.patch = meta', !.keys = st.pend]
  /\ UNCHANGED <<file, w, st, ghosts, counts>>

Bug_Remaining(updated) == {}  \* the snapshot settles all that is pending

(* What became pending in the meantime stays pending. *)
Remaining(updated) ==
  {k \in st.pend : k \notin io.keys \/ st.cur[k] # updated[k]}

Adopted ==
  LET left == Remaining(io.patch)
  IN  [st EXCEPT !.published = TRUE, !.pend = left,
                 !.cur = Overlay(io.patch, @, left),
                 !.mut = IF /\ @.target.gen = Committed.gen
                            /\ Committed.rev >= @.target.rev
                         THEN NoMutation ELSE @]

Commit ==
  /\ \/ io.step = "indexed" /\ Settle(Adopted)
     \/ io.step = "sync" /\ st.published /\ st.pend = {} /\ Settle(st)
  /\ UNCHANGED <<disk, ghosts, opens, gens, ops, edits>>

-----------------------------------------------------------------------------
(* The owner comes and goes.                                               *)

Instance(gen, rev, messages) ==
  [Cold EXCEPT !.phase = "active", !.gen = gen, !.live = rev, !.durable = rev,
               !.proj = messages]

(* saveSessionMetadata of an identity that was issued and never published. *)
Create ==
  /\ w.phase = "cold" /\ meta = NoRow /\ opens < MaxOpens
  /\ opens' = opens + 1 /\ gens' = gens + 1
  /\ w' = RequestCommit(Instance(gens', 0, <<>>))
  /\ st' = [NoStorage EXCEPT !.allowCreate = TRUE, !.pend = {"stats"}]
  /\ history' = <<<<>>>>
  /\ excuses' = (excuses \cap {"foreign"}) \cup (IF file = NoFile THEN {} ELSE {"leftover"})
  /\ UNCHANGED <<file, meta, io, cuts, ops, faults, edits>>

Bug_Resolved(row, f) ==       \* an interrupted rewind is taken as one that failed
  [row EXCEPT !.intent = NoIntent]

(* A rewind that was interrupted is told by the generation of the file. *)
Resolved(row, f) ==
  IF row.intent = NoIntent THEN row
  ELSE IF f.gen = row.intent.dst
  THEN [row EXCEPT !.bind = @ + 1, !.stats = Len(Content(f)), !.intent = NoIntent]
  ELSE [row EXCEPT !.intent = NoIntent]

Resolvable(row, f) ==
  \/ row.intent = NoIntent
  \/ /\ Readable(f) /\ TailState(f) # "invalid"
     /\ \/ f.gen = row.intent.dst /\ Revision(f) >= row.intent.rev
        \/ f.gen = row.intent.src

(* What the new owner takes over of the history. *)
Kept(rev, messages) ==
  [i \in 1 .. rev |->
     IF "foreign" \in excuses \/ i > Len(history) THEN messages ELSE history[i]]

(* activateSessionTranscript of a readable file; a decided rewind is       *)
(* published with the first commit, as a whole row.                        *)
Activate ==
  /\ w.phase = "cold" /\ meta # NoRow /\ opens < MaxOpens
  /\ Readable(file) /\ TailState(file) # "invalid" /\ Resolvable(meta, file)
  /\ opens' = opens + 1
  /\ LET row  == Resolved(meta, file)
         rev  == Revision(file)
         msgs == Content(file)
         x    == Instance(file.gen, rev, msgs)
         s    == [NoStorage EXCEPT !.coldTail = TailState(file) = "incomplete",
                                   !.published = TRUE,
                                   !.cur = [row EXCEPT !.stats = Len(msgs)]]
     IN  /\ IF row = meta
            THEN /\ w' = x /\ st' = [s EXCEPT !.pend = {"stats"}]
                 /\ history' = Kept(rev, msgs)
            ELSE /\ w' = RequestCommit(x) /\ st' = [s EXCEPT !.pend = Keys]
                 /\ history' = Append(Kept(rev, msgs), msgs)
         /\ cuts' = {c \in cuts : c <= rev}
  /\ excuses' = excuses \cap {"foreign"}
  /\ UNCHANGED <<file, meta, io, gens, ops, faults, edits>>

(* A file that cannot be read is shown as it is and never written again. *)
ActivateDamaged ==
  /\ w.phase = "cold" /\ meta # NoRow /\ meta.intent = NoIntent /\ opens < MaxOpens
  /\ ~Readable(file)
  /\ opens' = opens + 1 /\ gens' = gens + 1
  /\ w' = Fail([Instance(gens', 0, <<>>) EXCEPT !.complete = FALSE, !.blocked = TRUE],
               "degraded")
  /\ st' = [NoStorage EXCEPT !.published = TRUE, !.cur = meta]
  /\ history' = <<>> /\ cuts' = {}
  /\ UNCHANGED <<file, meta, io, excuses, ops, faults, edits>>

(* retire: no write may start, and the one in flight is awaited. *)
Retire ==
  /\ Active /\ ~w.retiring
  /\ w' = [w EXCEPT !.retiring = TRUE, !.timer = "off"]
  /\ UNCHANGED <<disk, st, io, ghosts, counts>>

Ended == [Cold EXCEPT !.live = w.live, !.durable = w.durable]

RetireSettled ==
  /\ Active /\ w.retiring /\ ~Busy
  /\ w' = Ended /\ st' = NoStorage
  /\ UNCHANGED <<disk, io, ghosts, counts>>

Bug_RetireTimeout ==          \* the timer is not armed again
  /\ Active /\ w.retiring
  /\ w' = [w EXCEPT !.retiring = FALSE]
  /\ UNCHANGED <<disk, st, io, ghosts, counts>>

(* The deadline passes, and the old binding stays in use. *)
RetireTimeout ==
  /\ Active /\ w.retiring
  /\ w' = Schedule([w EXCEPT !.retiring = FALSE], FALSE, Busy)
  /\ UNCHANGED <<disk, st, io, ghosts, counts>>

(* close at shutdown: the queue is dropped and a write in flight goes on   *)
(* until the process has exited.                                           *)
Revoke ==
  /\ Active
  /\ w' = [w EXCEPT !.phase = "closed", !.timer = "off", !.watch = FALSE, !.queue = <<>>]
  /\ UNCHANGED <<disk, st, io, ghosts, counts>>

(* The process exits or crashes. *)
Exit ==
  /\ w.phase # "cold"
  /\ w' = Ended /\ st' = NoStorage /\ io' = Idle
  /\ UNCHANGED <<disk, ghosts, counts>>

-----------------------------------------------------------------------------
(* Others.                                                                 *)

(* Another owner edits the row under the lock of sessions.json. *)
ForeignEdit ==
  /\ meta # NoRow /\ edits < MaxEdits
  /\ edits' = edits + 1
  /\ meta' = [meta EXCEPT !.favorite = edits']
  /\ UNCHANGED <<file, w, st, io, ghosts, opens, gens, ops, faults>>

ForeignBatch(f) == Batch(MaxOpens + 1, Revision(f) + 1, Revision(f) + 1, <<0>>)

(* Another program writes into the file while this owner does not hold its *)
(* lock: it truncates it, starts it over or adds a row.                    *)
Intrude(kind) ==
  /\ "foreign" \notin excuses /\ Readable(file) /\ file.tail = NoBatch
  /\ ~Busy \/ io.step \in {"open", "candidate"}
  /\ file' = CASE kind = "empty"  -> Transcript("empty", 0, 0, <<>>)
               [] kind = "header" -> Transcript("v2", 0, 0, <<>>)
               [] kind = "row"    -> [file EXCEPT !.rows = Append(@, ForeignBatch(file))]
  /\ excuses' = excuses \cup {"foreign", IF kind = "row" THEN "row" ELSE "emptied"}
  /\ UNCHANGED <<meta, w, st, io, history, cuts, counts>>

-----------------------------------------------------------------------------
IoStep ==
  \/ AppendCreate \/ AppendHeader \/ AppendCheck \/ AppendPart \/ AppendRow
  \/ ReplaceCheck \/ ReplaceIntent \/ ReplaceRename
  \/ Publish \/ Commit

Next ==
  \/ Observe \/ ObserveFault \/ PatchMetadata
  \/ \E n \in 0 .. MaxRevision : Rewind(n)
  \/ TimerFire \/ Flush \/ HealthTimeout
  \/ IoStep \/ IoFail
  \/ Create \/ Activate \/ ActivateDamaged
  \/ Retire \/ RetireSettled \/ RetireTimeout \/ Revoke \/ Exit
  \/ ForeignEdit \/ \E kind \in Intrusions : Intrude(kind)

Spec == Init /\ [][Next]_vars

(* Timers fire, file work goes on to its end and a retirement ends: the    *)
(* event loop of a living process.  Nobody is obliged to flush, to talk or *)
(* to open the Session again.                                              *)
FairSpec ==
  Spec /\ WF_vars(TimerFire) /\ WF_vars(IoStep) /\ WF_vars(RetireSettled \/ RetireTimeout)

-----------------------------------------------------------------------------
(* Properties.                                                             *)

(* A rewind that is decided on reopening takes a revision of its own. *)
Revisions == 0 .. MaxRevision + MaxOpens

Batches ==
  [inst : 0 .. MaxOpens + 1, from : Revisions, to : Revisions, ops : Seq(0 .. ops)]

Points == [gen : 0 .. gens, rev : Revisions]

TypeOK ==
  /\ file \in [kind : {"none", "empty", "header", "v2"}, gen : 0 .. gens,
               base : Revisions, ops : Seq(0 .. ops), rows : Seq(Batches),
               tail : Batches]
  /\ DOMAIN meta = Keys /\ meta.bind \in 0 .. MaxRevision
  /\ w.phase \in {"active", "closed", "cold"}
  /\ w.timer \in {"off", "armed"} /\ w.state \in {"healthy", "retrying", "degraded"}
  /\ w.queue \in Seq(Batches) /\ w.durable <= w.live
  /\ io.job \in {"none", "append", "replace"} /\ io.batch \in Batches
  /\ st.pend \subseteq Keys /\ st.mut.target \in Points /\ io.expected \in Points
  /\ history \in Seq(Seq(0 .. ops)) /\ cuts \subseteq 1 .. Len(history)

(* What was reported as saved is what the file decodes to, message for     *)
(* message, at every step of every write, retry and replacement, and after *)
(* the process has gone: a process crash leaves a valid prefix that        *)
(* contains it.                                                            *)
SavedIsOnDisk ==
  (w.durable > 0 /\ excuses \cap {"emptied", "row"} = {}) =>
    /\ Readable(file) /\ TailState(file) # "invalid"
    /\ Revision(file) \in w.durable .. Len(history)
    /\ Content(file) = history[Revision(file)]

(* Once everything is saved the incident is over, nothing waits to be      *)
(* published, no rewind is open, and the row in the index says what the    *)
(* owner believes.                                                         *)
QuietMeansPublished ==
  (Active /\ ~w.blocked /\ w.live = w.durable /\ opens > 0) =>
    /\ w.state = "healthy" /\ ~st.mut.open /\ st.pend \subseteq {"stats"}
    /\ \A k \in Keys \ {"favorite"} : k \in st.pend \/ meta[k] = st.cur[k]
    /\ "stats" \in st.pend \/ meta.stats = Len(w.proj)

(* One write that succeeds does not end an incident: what it left unsaved  *)
(* must be covered first.                                                  *)
RecoveryCoversTheGap ==
  (Active /\ w.state = "healthy") => w.durable >= w.recovery

(* Unsaved work of a usable writer always has a timer or a write in flight *)
(* that will save it, and the user is told, or is going to be, that it is  *)
(* late.                                                                   *)
UnsavedIsScheduled ==
  (Active /\ ~w.retiring /\ ~w.blocked /\ ~Busy /\ w.durable < w.live) =>
    /\ w.timer = "armed" /\ HasWork(w)
    /\ w.watch \/ w.state = "degraded"

(* Failed IO, lost acknowledgements, unfinished rows and crashes never end *)
(* recording for good: only a foreign write, an observation that cannot be *)
(* represented, or the file of a birth nobody published does.              *)
BlockedForCause == w.blocked => excuses # {}

(* A rewind changes the native binding and the history as one: whenever    *)
(* the process ends, what the next owner finds is decidable, and the       *)
(* binding it adopts has seen exactly the rewinds the file has.            *)
BindingFollowsHistory ==
  (w.durable > 0 /\ "foreign" \notin excuses) =>
    /\ Resolvable(meta, file)
    /\ Resolved(meta, file).bind = Cardinality({c \in cuts : c <= Revision(file)})

(* A row that another program committed is never cut off or replaced by an *)
(* owner that did not read it.                                             *)
ForeignRowIsKept ==
  "row" \in excuses => \E i \in 1 .. Len(file.rows) : file.rows[i].inst = MaxOpens + 1

(* An edit another owner made to the row is not undone by a save. *)
ForeignEditSurvives == meta # NoRow => meta.favorite = edits

(* What is unsaved is saved in the end, unless recording stopped or the    *)
(* owner went away.                                                        *)
SavingCatchesUp ==
  [](w.durable < w.live => <>(w.durable = w.live \/ w.blocked \/ ~Active \/ w.retiring))

Promise == INSTANCE TranscriptPromise WITH
  saved <- w.durable, foreign <- "foreign" \in excuses

HistoryPromise == Promise!Spec
=============================================================================
