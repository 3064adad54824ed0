----------------------- MODULE SessionTranscript_proofs -----------------------
(***************************************************************************)
(* The write-behind queue, for every bound and every history: unsaved work *)
(* is never left without a timer or a write in flight, and an incident is  *)
(* over only when what it endangered is saved.                             *)
(*                                                                         *)
(* Both rest on the order in which revisions travel from the queue to the  *)
(* file (Flow) and on the newest one being somewhere on that way           *)
(* (Covered).                                                              *)
(***************************************************************************)
EXTENDS SessionTranscriptInv, SequenceTheorems, WellFoundedInduction, TLAPS

-----------------------------------------------------------------------------
(* Sequences.                                                              *)

LEMMA TidyBasics ==
  ASSUME NEW s, Tidy(s)
  PROVE  /\ Len(s) \in Nat /\ DOMAIN s = 1 .. Len(s)
         /\ s = <<>> <=> Len(s) = 0
<1>1. Len(s) \in Nat /\ DOMAIN s = 1 .. Len(s)
  BY LenProperties DEF Tidy
<1>2. s = <<>> <=> Len(s) = 0
  BY EmptySeq DEF Tidy
<1> QED
  BY <1>1, <1>2

LEMMA EmptyTidy == Tidy(<<>>) /\ Len(<<>>) = 0
BY EmptySeq DEF Tidy

LEMMA AppendTidy ==
  ASSUME NEW s, Tidy(s), NEW e
  PROVE  /\ Tidy(Append(s, e)) /\ Len(Append(s, e)) = Len(s) + 1
         /\ \A i \in 1 .. Len(s) : Append(s, e)[i] = s[i]
         /\ Append(s, e)[Len(s) + 1] = e
<1> DEFINE T == Range(s) \cup {e}
<1>1. s \in Seq(T)
  BY SeqMonotonic DEF Tidy
<1>2. /\ Append(s, e) \in Seq(T) /\ Len(Append(s, e)) = Len(s) + 1
      /\ \A i \in 1 .. Len(s) : Append(s, e)[i] = s[i]
      /\ Append(s, e)[Len(s) + 1] = e
  BY <1>1, AppendProperties
<1>3. Append(s, e) \in Seq(Range(Append(s, e)))
  BY <1>2, SeqOfRange
<1> QED
  BY <1>2, <1>3 DEF Tidy

LEMMA SubTidy ==
  ASSUME NEW s, Tidy(s), NEW m \in Nat, NEW n \in Nat, m >= 1, n <= Len(s)
  PROVE  /\ Tidy(SubSeq(s, m, n))
         /\ Len(SubSeq(s, m, n)) = IF m <= n THEN n - m + 1 ELSE 0
         /\ \A i \in 1 .. n - m + 1 : SubSeq(s, m, n)[i] = s[m + i - 1]
<1>1. \A i \in m .. n : s[i] \in Range(s)
  BY TidyBasics, ElementOfSeq DEF Tidy
<1>2. /\ SubSeq(s, m, n) \in Seq(Range(s))
      /\ Len(SubSeq(s, m, n)) = IF m <= n THEN n - m + 1 ELSE 0
      /\ \A i \in 1 .. n - m + 1 : SubSeq(s, m, n)[i] = s[m + i - 1]
  BY <1>1, SubSeqProperties
<1> QED
  BY <1>2, SeqOfRange DEF Tidy

LEMMA LastTidy ==
  ASSUME NEW s, Tidy(s), s # <<>>, NEW e
  PROVE  /\ Tidy([s EXCEPT ![Len(s)] = e]) /\ Len([s EXCEPT ![Len(s)] = e]) = Len(s)
         /\ \A i \in 1 .. Len(s) :
              [s EXCEPT ![Len(s)] = e][i] = IF i = Len(s) THEN e ELSE s[i]
<1> DEFINE T == Range(s) \cup {e}
<1>1. s \in Seq(T)
  BY SeqMonotonic DEF Tidy
<1>2. Len(s) \in 1 .. Len(s)
  BY TidyBasics
<1>3. /\ [s EXCEPT ![Len(s)] = e] \in Seq(T)
      /\ Len([s EXCEPT ![Len(s)] = e]) = Len(s)
      /\ \A i \in 1 .. Len(s) :
           [s EXCEPT ![Len(s)] = e][i] = IF i = Len(s) THEN e ELSE s[i]
  BY <1>1, <1>2, ExceptSeq
<1> QED
  BY <1>3, SeqOfRange DEF Tidy

(* The rows of a file that follow one another are a prefix of its rows. *)
LEMMA ValidBound ==
  ASSUME NEW f, FileShape(f)
  PROVE  Valid(f) \in 0 .. Len(f.rows)
<1> DEFINE L == Len(f.rows)
           P(n) == \A i \in 1 .. n : Contiguous(f, i)
           S == {n \in 0 .. L : P(n)}
           T == {k \in 0 .. L : P(L - k)}
<1>1. L \in Nat
  BY TidyBasics DEF FileShape
<1>2. L \in T
  BY <1>1
<1>3. T \subseteq Nat /\ T # {}
  BY <1>1, <1>2
<1>4. PICK k \in T : \A j \in T : ~(<<j, k>> \in OpToRel(<, Nat))
  <2> HIDE DEF T
  <2> QED
    BY <1>3, NatLessThanWellFounded, WFMin
<1>5. \A j \in T : k <= j
  <2> HIDE DEF T
  <2> TAKE j \in T
  <2>1. j \in Nat /\ k \in Nat
    BY <1>3
  <2>2. ~(<<j, k>> \in OpToRel(<, Nat))
    BY <1>4
  <2>3. ~(j < k)
    BY <2>1, <2>2 DEF OpToRel
  <2> QED
    BY <2>1, <2>3
<1>6. L - k \in S
  BY <1>1
<1>7. \A n \in S : L - k >= n
  <2> TAKE n \in S
  <2>1. L - n \in T
    BY <1>1
  <2>2. k <= L - n
    BY <2>1, <1>5
  <2> QED
    BY <2>2, <1>1, <1>3
<1>8. \E x \in S : \A y \in S : x >= y
  BY <1>6, <1>7
<1>9. Max(S) \in S
  <2> HIDE DEF S
  <2> QED
    BY <1>8 DEF Max
<1> QED
  BY <1>9, <1>1 DEF Valid

LEMMA RevisionShape ==
  ASSUME NEW f, FileShape(f)
  PROVE  Revision(f) \in Nat
<1>1. Valid(f) \in 0 .. Len(f.rows) /\ Len(f.rows) \in Nat /\ f.base \in Nat
  BY ValidBound, TidyBasics DEF FileShape
<1> QED
  BY <1>1 DEF Revision, FileShape
-----------------------------------------------------------------------------
(* The helpers of the writer.  What a state says of the queue does not     *)
(* depend on its timers.                                                   *)

Sound(x, j, p) ==
  /\ Shape(x) /\ Flow(x, j, p) /\ Covered(x, j) /\ Recovered(x)
  /\ TimerHonest(x, j) /\ Cleared(x, j, p)

LEMMA ScheduleKeeps ==
  ASSUME NEW x, NEW j, NEW p, NEW now \in BOOLEAN, JobShape(j),
         Sound(x, j, p), Told(x)
  PROVE  LET y == Schedule(x, now, j # Idle)
         IN  Shape(y) /\ WriterInv(y, j, p)
<1> DEFINE y == Schedule(x, now, j # Idle)
<1>1. (j # Idle) <=> j.job # "none"
  BY DEF JobShape, Idle
<1>2. x \in Writer(x) /\ x.timer \in {"off", "armed"}
  BY DEF Sound, Shape, Writer
<1>3. CASE y = x /\ TimerArmed(x, j)
  BY <1>3 DEF Sound, WriterInv
<1>4. CASE /\ y = [x EXCEPT !.timer = "armed"]
           /\ Free(x, j) /\ HasWork(x)
  <2>1. Shape(y)
    BY <1>2, <1>4 DEF Sound, Shape, Writer
  <2>2. /\ y.queue = x.queue /\ y.retryBatch = x.retryBatch /\ y.live = x.live
        /\ y.durable = x.durable /\ y.baseline = x.baseline /\ y.blocked = x.blocked
        /\ y.phase = x.phase /\ y.state = x.state /\ y.recovery = x.recovery
        /\ y.watch = x.watch /\ y.retiring = x.retiring /\ y.timer = "armed"
    BY <1>2, <1>4 DEF Writer
  <2>3. Flow(y, j, p) /\ Covered(y, j) /\ Recovered(y) /\ Told(y) /\ Cleared(y, j, p)
    BY <2>2 DEF Sound, Flow, QueueAhead, RetryAhead, AppendAhead, ReplaceAhead,
                PendingAhead, Precedes, Covered, Recovered, Told, Cleared
  <2>4. TimerHonest(y, j) /\ TimerArmed(y, j)
    BY <2>2, <1>4 DEF TimerHonest, TimerArmed, Free, HasWork
  <2> QED
    BY <2>1, <2>3, <2>4 DEF WriterInv
<1>5. \/ y = x /\ TimerArmed(x, j)
      \/ y = [x EXCEPT !.timer = "armed"] /\ Free(x, j) /\ HasWork(x)
  <2>1. CASE x.phase # "active" \/ x.retiring \/ x.blocked \/ j # Idle
    BY <2>1, <1>1 DEF Schedule, TimerArmed, Free
  <2>2. CASE ~(x.phase # "active" \/ x.retiring \/ x.blocked \/ j # Idle)
    <3>1. Free(x, j)
      BY <2>2, <1>1 DEF Free
    <3>2. CASE x.timer # "off"
      <4>1. HasWork(x) /\ x.timer = "armed"
        BY <3>2, <1>2 DEF Sound, TimerHonest
      <4> QED
        BY <4>1, <3>1, <2>2 DEF Schedule, TimerArmed
    <3>3. CASE x.timer = "off" /\ HasWork(x)
      BY <3>1, <3>3, <2>2 DEF Schedule
    <3>4. CASE x.timer = "off" /\ ~HasWork(x)
      <4>1. y = [x EXCEPT !.timer = "off"]
        BY <3>4, <2>2 DEF Schedule
      <4>2. y = x
        BY <4>1, <3>4, <1>2 DEF Writer
      <4> QED
        BY <4>2, <3>4 DEF TimerArmed
    <3> QED
      BY <3>2, <3>3, <3>4
  <2> QED
    BY <2>1, <2>2
<1> QED
  BY <1>3, <1>4, <1>5

LEMMA WatchKeeps ==
  ASSUME NEW x, NEW j, NEW p, Sound(x, j, p)
  PROVE  LET y == WatchHealth(x)
         IN  Sound(y, j, p) /\ Told(y) /\ (TimerArmed(x, j) => TimerArmed(y, j))
<1> DEFINE y == WatchHealth(x)
<1>1. x \in Writer(x)
  BY DEF Sound, Shape
<1>2. /\ y.queue = x.queue /\ y.retryBatch = x.retryBatch /\ y.live = x.live
      /\ y.durable = x.durable /\ y.baseline = x.baseline /\ y.blocked = x.blocked
      /\ y.phase = x.phase /\ y.state = x.state /\ y.recovery = x.recovery
      /\ y.retiring = x.retiring /\ y.timer = x.timer
      /\ y.watch = (x.watch \/ (x.phase = "active" /\ ~x.blocked /\ x.live # x.durable))
  BY <1>1 DEF Writer, WatchHealth
<1>3. Shape(y)
  BY <1>1 DEF Sound, Shape, Writer, WatchHealth
<1>4. Flow(y, j, p) /\ Covered(y, j) /\ Recovered(y) /\ Cleared(y, j, p)
  BY <1>2 DEF Sound, Flow, QueueAhead, RetryAhead, AppendAhead, ReplaceAhead,
              PendingAhead, Precedes, Covered, Recovered, Cleared
<1>5. TimerHonest(y, j) /\ (TimerArmed(x, j) => TimerArmed(y, j))
  BY <1>2 DEF Sound, TimerHonest, TimerArmed, Free, HasWork
<1>6. x.live \in Nat /\ x.durable \in Nat
  BY <1>1 DEF Writer
<1>7. x.durable < x.live => x.live # x.durable
  BY <1>6
<1>8. Told(y)
  <2>1. SUFFICES ASSUME x.phase = "active", ~x.blocked, x.durable < x.live
                 PROVE  y.watch
    BY <1>2 DEF Told
  <2> QED
    BY <2>1, <1>2, <1>7, Zenon
<1> QED
  BY <1>3, <1>4, <1>5, <1>8 DEF Sound

(* The end of a write: no file work is left, and the timer was off. *)
LEMMA FinallyKeeps ==
  ASSUME NEW x, NEW p, Sound(x, Idle, p), Finally(x)
  PROVE  Shape(w') /\ JobShape(io') /\ WriterInv(w', io', p)
<1>1. JobShape(Idle)
  BY DEF JobShape, Idle, NoBatch, Batch
<1>2. Sound(WatchHealth(x), Idle, p) /\ Told(WatchHealth(x))
  BY WatchKeeps
<1>3. x.retrying \in BOOLEAN
  BY DEF Sound, Shape, Writer
<1>4. PICK y : y = WatchHealth(x)
  OBVIOUS
<1>5. PICK now \in BOOLEAN : now = ~x.retrying
  BY <1>3
<1>6. w' = Schedule(y, now, FALSE) /\ io' = Idle
  BY <1>4, <1>5 DEF Finally
<1>7. w' = Schedule(y, now, Idle # Idle)
  BY <1>6
<1>8. Shape(w') /\ WriterInv(w', Idle, p)
  BY <1>1, <1>2, <1>4, <1>7, ScheduleKeeps
<1> QED
  BY <1>1, <1>6, <1>8
-----------------------------------------------------------------------------
(* A revision is added: it is the last of the queue, or a baseline that is *)
(* still to be written includes it.                                        *)

Extends(q, x) ==
  /\ Tidy(q) /\ q # <<>> /\ q[Len(q)].to = x.live + 1
  /\ \A i \in 1 .. Len(q) :
       i # Len(q) => i \in 1 .. Len(x.queue) /\ q[i].to = x.queue[i].to

LEMMA AppendExtends ==
  ASSUME NEW x, Shape(x), NEW b, b.to = x.live + 1
  PROVE  Extends(Append(x.queue, b), x)
<1>1. Tidy(x.queue) /\ Len(x.queue) \in Nat
  BY TidyBasics DEF Shape
<1>2. /\ Tidy(Append(x.queue, b)) /\ Len(Append(x.queue, b)) = Len(x.queue) + 1
      /\ \A i \in 1 .. Len(x.queue) : Append(x.queue, b)[i] = x.queue[i]
      /\ Append(x.queue, b)[Len(x.queue) + 1] = b
  BY <1>1, AppendTidy
<1>3. PICK q : q = Append(x.queue, b)
  OBVIOUS
<1>4. q # <<>>
  BY <1>1, <1>2, <1>3, TidyBasics
<1> QED
  BY <1>1, <1>2, <1>3, <1>4 DEF Extends

LEMMA LastExtends ==
  ASSUME NEW x, Shape(x), x.queue # <<>>, NEW b, b.to = x.live + 1
  PROVE  Extends([x.queue EXCEPT ![Len(x.queue)] = b], x)
<1> DEFINE q == [x.queue EXCEPT ![Len(x.queue)] = b]
<1>1. Tidy(x.queue) /\ Len(x.queue) \in Nat \ {0}
  BY TidyBasics DEF Shape
<1>2. /\ Tidy(q) /\ Len(q) = Len(x.queue)
      /\ \A i \in 1 .. Len(x.queue) :
           q[i] = IF i = Len(x.queue) THEN b ELSE x.queue[i]
  BY <1>1, LastTidy
<1>3. q # <<>>
  BY <1>1, <1>2, EmptyTidy
<1> QED
  BY <1>1, <1>2, <1>3 DEF Extends

LEMMA GrowKeeps ==
  ASSUME NEW x, NEW y, NEW j, NEW p, JobShape(j), Sound(x, j, p), y \in Writer(y),
         y.live = x.live + 1, y.phase = x.phase, y.durable = x.durable,
         y.baseline = x.baseline, y.blocked = x.blocked, y.retryBatch = x.retryBatch,
         y.state = x.state, y.recovery = x.recovery, y.retiring = x.retiring,
         y.timer = x.timer, p.rev \in Nat,
         (x.baseline /\ y.queue = x.queue) \/ Extends(y.queue, x)
  PROVE  Sound(y, j, p)
<1>1. /\ x.live \in Nat /\ x.durable \in Nat /\ x.baseline \in BOOLEAN
      /\ x.retryBatch.to \in Nat /\ j.rev \in Nat
      /\ Tidy(x.queue) /\ Len(x.queue) \in Nat
      /\ \A i \in 1 .. Len(x.queue) : x.queue[i].to \in Nat
  BY TidyBasics DEF Sound, Shape, Writer, JobShape
<1>2. /\ Tidy(y.queue) /\ Len(y.queue) \in Nat
      /\ \A i \in 1 .. Len(y.queue) :
           \/ y.queue[i].to = x.live + 1 /\ i = Len(y.queue)
           \/ i \in 1 .. Len(x.queue) /\ y.queue[i].to = x.queue[i].to
  <2>1. Tidy(y.queue)
    BY <1>1 DEF Extends
  <2> QED
    BY <2>1, <1>1, TidyBasics DEF Extends
<1>3. Shape(y)
  <2>1. \A i \in 1 .. Len(y.queue) : y.queue[i].to \in Nat
    <3>1. x.live + 1 \in Nat
      BY <1>1
    <3> QED
      BY <3>1, <1>1, <1>2
  <2>2. y.retryBatch.to \in Nat
    BY <1>1
  <2> QED
    BY <2>1, <2>2, <1>2 DEF Shape
<1>4. /\ x.durable <= x.live
      /\ \A i \in 1 .. Len(x.queue) : x.durable < x.queue[i].to /\ x.queue[i].to <= x.live
      /\ \A i, k \in 1 .. Len(x.queue) : i < k => x.queue[i].to < x.queue[k].to
  BY DEF Sound, Flow, QueueAhead
<1>5. QueueAhead(y)
  <2>1. ASSUME NEW i \in 1 .. Len(y.queue)
        PROVE  /\ y.queue[i].to \in Nat /\ y.durable < y.queue[i].to
               /\ y.queue[i].to <= y.live
    <3>1. CASE y.queue[i].to = x.live + 1
      BY <3>1, <1>1, <1>4
    <3>2. CASE i \in 1 .. Len(x.queue) /\ y.queue[i].to = x.queue[i].to
      BY <3>2, <1>1, <1>4
    <3> QED
      BY <3>1, <3>2, <1>2
  <2>2. ASSUME NEW i \in 1 .. Len(y.queue), NEW k \in 1 .. Len(y.queue), i < k
        PROVE  y.queue[i].to < y.queue[k].to
    <3>1. i \in 1 .. Len(x.queue) /\ y.queue[i].to = x.queue[i].to
      BY <1>2, <2>2
    <3>2. CASE y.queue[k].to = x.live + 1
      BY <3>1, <3>2, <1>1, <1>4
    <3>3. CASE k \in 1 .. Len(x.queue) /\ y.queue[k].to = x.queue[k].to
      BY <3>1, <3>3, <1>4, <2>2
    <3> QED
      BY <3>2, <3>3, <1>2
  <2>3. y.durable <= y.live
    BY <1>1, <1>4
  <2> QED
    BY <2>1, <2>2, <2>3 DEF QueueAhead
<1>6. ASSUME NEW rev \in Nat, rev <= x.live, Precedes(x, rev)
      PROVE  Precedes(y, rev)
  <2>1. ASSUME NEW i \in 1 .. Len(y.queue) PROVE rev < y.queue[i].to
    <3>1. CASE y.queue[i].to = x.live + 1
      BY <3>1, <1>1, <1>6
    <3>2. CASE i \in 1 .. Len(x.queue) /\ y.queue[i].to = x.queue[i].to
      BY <3>2, <1>6 DEF Precedes
    <3> QED
      BY <3>1, <3>2, <1>2
  <2> QED
    BY <2>1 DEF Precedes
<1>7. RetryAhead(y, j)
  BY <1>1, <1>6 DEF RetryAhead, Sound, Flow
<1>8. AppendAhead(y, j)
  BY <1>1, <1>6 DEF AppendAhead, Sound, Flow
<1>9. ReplaceAhead(y, j, p)
  BY <1>1, <1>6 DEF ReplaceAhead, Sound, Flow
<1>10. PendingAhead(y, j, p)
  BY <1>1 DEF PendingAhead, Sound, Flow
<1>11. Covered(y, j)
  BY <1>1 DEF Covered, Sound, Extends
<1>12. Recovered(y) /\ Cleared(y, j, p)
  BY DEF Sound, Recovered, Cleared
<1>13. TimerHonest(y, j)
  BY DEF Sound, TimerHonest, Free, HasWork, Extends
<1> QED
  BY <1>3, <1>5, <1>7, <1>8, <1>9, <1>10, <1>11, <1>12, <1>13 DEF Sound, Flow

(* What follows an addition: somebody watches, and a timer is armed. *)
LEMMA AfterGrowth ==
  ASSUME NEW y, NEW j, NEW p, NEW now \in BOOLEAN, JobShape(j), Sound(y, j, p)
  PROVE  LET z == Schedule(WatchHealth(y), now, j # Idle)
         IN  Shape(z) /\ WriterInv(z, j, p)
<1>1. Sound(WatchHealth(y), j, p) /\ Told(WatchHealth(y))
  BY WatchKeeps
<1>2. PICK z : z = WatchHealth(y)
  OBVIOUS
<1> QED
  BY <1>1, <1>2, ScheduleKeeps

LEMMA RequestKeeps ==
  ASSUME NEW x, NEW p, JobShape(io), Sound(x, io, p), p.rev \in Nat
  PROVE  Shape(RequestCommit(x)) /\ WriterInv(RequestCommit(x), io, p)
<1> DEFINE y == [x EXCEPT !.live = @ + 1,
                          !.queue = IF x.baseline THEN @ ELSE Barrier(@, x.live + 1)]
<1>1. x \in Writer(x) /\ Shape(x)
  BY DEF Sound, Shape
<1>2. /\ y.live = x.live + 1 /\ y.phase = x.phase /\ y.durable = x.durable
      /\ y.baseline = x.baseline /\ y.blocked = x.blocked
      /\ y.retryBatch = x.retryBatch /\ y.state = x.state
      /\ y.recovery = x.recovery /\ y.retiring = x.retiring /\ y.timer = x.timer
      /\ y.queue = (IF x.baseline THEN x.queue ELSE Barrier(x.queue, x.live + 1))
  BY <1>1 DEF Writer
<1>3. y \in Writer(y)
  <2>1. PICK q : q = IF x.baseline THEN x.queue ELSE Barrier(x.queue, x.live + 1)
    OBVIOUS
  <2>2. y = [x EXCEPT !.live = x.live + 1, !.queue = q]
    BY <2>1
  <2>3. x.live + 1 \in Nat
    BY <1>1 DEF Writer
  <2> HIDE DEF y
  <2> QED
    BY <1>1, <2>2, <2>3 DEF Writer
<1>4. ASSUME ~x.baseline PROVE Extends(y.queue, x)
  <2> DEFINE b == [x.queue[Len(x.queue)] EXCEPT !.to = x.live + 1]
  <2>1. CASE x.queue # <<>> /\ x.queue[Len(x.queue)].ops = <<>>
    <3>1. y.queue = [x.queue EXCEPT ![Len(x.queue)].to = x.live + 1]
      BY <2>1, <1>2, <1>4 DEF Barrier
    <3>2. y.queue = [x.queue EXCEPT ![Len(x.queue)] = b]
      BY <3>1
    <3>3. b.to = x.live + 1
      OBVIOUS
    <3> HIDE DEF b
    <3> QED
      BY <3>2, <3>3, <2>1, <1>1, LastExtends
  <2>2. CASE ~(x.queue # <<>> /\ x.queue[Len(x.queue)].ops = <<>>)
    <3>1. y.queue = Append(x.queue, Batch(0, x.live + 1, x.live + 1, <<>>))
      BY <2>2, <1>2, <1>4 DEF Barrier
    <3>2. Batch(0, x.live + 1, x.live + 1, <<>>).to = x.live + 1
      BY DEF Batch
    <3> QED
      BY <3>1, <3>2, <1>1, AppendExtends
  <2> QED
    BY <2>1, <2>2
<1>5. (x.baseline /\ y.queue = x.queue) \/ Extends(y.queue, x)
  BY <1>2, <1>4
<1>6. PICK z : z = y
  OBVIOUS
<1>7. Sound(z, io, p)
  <2> HIDE DEF y
  <2> QED
    BY <1>2, <1>3, <1>5, <1>6, GrowKeeps
<1>8. PICK r : r = RequestCommit(x)
  OBVIOUS
<1>9. r = Schedule(WatchHealth(z), FALSE, io # Idle)
  BY <1>6, <1>8 DEF RequestCommit, Busy
<1>10. Shape(r) /\ WriterInv(r, io, p)
  BY <1>7, <1>9, AfterGrowth
<1> QED
  BY <1>8, <1>10
-----------------------------------------------------------------------------
(* What is said, edited, or rewound.                                       *)

LEMMA InvSound == Inv => Sound(w, io, st.pending) /\ Told(w) /\ st.pending.rev \in Nat
BY DEF Inv, WriterInv, Sound, StorageShape

LEMMA ObserveKeeps ==
  ASSUME Inv, Observe
  PROVE  Inv'
<1>1. PICK q \in Queued(w.queue, w.live + 1, ops'), boundary \in BOOLEAN :
        w' = Schedule(WatchHealth([w EXCEPT
               !.live = @ + 1, !.proj = Append(@, ops'),
               !.queue = IF w.baseline THEN @ ELSE q]), boundary, Busy)
  BY DEF Observe
<1>2. Shape(w) /\ w \in Writer(w) /\ JobShape(io)
  BY DEF Inv, Shape
<1>3. Extends(q, w)
  <2>1. CASE q = Append(w.queue, Batch(0, w.live + 1, w.live + 1, <<ops'>>))
    <3>1. Batch(0, w.live + 1, w.live + 1, <<ops'>>).to = w.live + 1
      BY DEF Batch
    <3> QED
      BY <3>1, <2>1, <1>2, AppendExtends
  <2>2. CASE w.queue # <<>> /\ q = Merged(w.queue, w.live + 1, ops')
    <3>1. PICK b : b = Batch(w.queue[Len(w.queue)].inst, w.queue[Len(w.queue)].from,
                             w.live + 1, Append(w.queue[Len(w.queue)].ops, ops'))
      OBVIOUS
    <3>2. b.to = w.live + 1
      BY <3>1 DEF Batch
    <3>3. q = [w.queue EXCEPT ![Len(w.queue)] = b]
      BY <3>1, <2>2 DEF Merged
    <3> QED
      BY <3>2, <3>3, <2>2, <1>2, LastExtends
  <2> QED
    BY <1>1, <2>1, <2>2 DEF Queued
<1>4. PICK r : r = IF w.baseline THEN w.queue ELSE q
  OBVIOUS
<1>5. PICK y : y = [w EXCEPT !.live = w.live + 1, !.proj = Append(w.proj, ops'), !.queue = r]
  OBVIOUS
<1>6. /\ y.live = w.live + 1 /\ y.queue = r /\ y.phase = w.phase
      /\ y.durable = w.durable /\ y.baseline = w.baseline /\ y.blocked = w.blocked
      /\ y.retryBatch = w.retryBatch /\ y.state = w.state /\ y.recovery = w.recovery
      /\ y.retiring = w.retiring /\ y.timer = w.timer
  BY <1>2, <1>5 DEF Writer
<1>7. w.live + 1 \in Nat
  BY <1>2 DEF Writer
<1>8. y \in Writer(y)
  BY <1>2, <1>5, <1>7 DEF Writer
<1>9. (w.baseline /\ y.queue = w.queue) \/ Extends(y.queue, w)
  BY <1>3, <1>4, <1>6
<1>10. Sound(y, io, st.pending)
  BY <1>2, <1>6, <1>8, <1>9, InvSound, GrowKeeps
<1>11. w' = Schedule(WatchHealth(y), boundary, io # Idle)
  BY <1>1, <1>4, <1>5 DEF Busy
<1>12. Shape(w') /\ WriterInv(w', io, st.pending)
  BY <1>2, <1>10, <1>11, AfterGrowth
<1>13. io' = io /\ file' = file /\ gens' = gens /\ st' = Derived(st, w'.proj)
  BY DEF Observe
<1>14. StorageShape(st') /\ st'.pending = st.pending
  BY <1>13 DEF Inv, StorageShape, Derived
<1> QED
  BY <1>2, <1>12, <1>13, <1>14 DEF Inv

(* Recording stops: the queue is as it was. *)
LEMMA BlockedKeeps ==
  ASSUME NEW x, NEW y, NEW j, NEW p, JobShape(j), Shape(x), WriterInv(x, j, p),
         y \in Writer(y), y.live \in {x.live, x.live + 1}, y.durable = x.durable,
         y.queue = x.queue, y.retryBatch = x.retryBatch, y.phase = x.phase,
         y.retiring = x.retiring, y.timer = x.timer, y.baseline = x.baseline,
         y.blocked, y.state = "degraded", p.rev \in Nat
  PROVE  Shape(y) /\ WriterInv(y, j, p)
<1>1. /\ x.live \in Nat /\ x.durable \in Nat /\ y.live \in Nat /\ x.live <= y.live
      /\ x.retryBatch.to \in Nat /\ j.rev \in Nat
      /\ \A i \in 1 .. Len(x.queue) : x.queue[i].to \in Nat
  BY DEF Shape, Writer, JobShape
<1>2. Shape(y)
  BY DEF Shape
<1>3. QueueAhead(y)
  BY <1>1 DEF QueueAhead, WriterInv, Flow
<1>4. RetryAhead(y, j) /\ AppendAhead(y, j)
  BY <1>1 DEF RetryAhead, AppendAhead, Precedes, WriterInv, Flow
<1>5. ReplaceAhead(y, j, p) /\ PendingAhead(y, j, p)
  BY <1>1 DEF ReplaceAhead, PendingAhead, Precedes, WriterInv, Flow
<1>6. Covered(y, j) /\ Recovered(y) /\ Told(y) /\ Cleared(y, j, p) /\ TimerArmed(y, j)
  BY DEF Covered, Recovered, Told, Cleared, TimerArmed, WriterInv
<1>7. TimerHonest(y, j)
  BY DEF TimerHonest, Free, HasWork, WriterInv
<1> QED
  BY <1>2, <1>3, <1>4, <1>5, <1>6, <1>7 DEF WriterInv, Flow

LEMMA ObserveFaultKeeps ==
  ASSUME Inv, ObserveFault
  PROVE  Inv'
<1>1. Shape(w) /\ w \in Writer(w) /\ JobShape(io) /\ WriterInv(w, io, st.pending)
  BY DEF Inv, Shape
<1>2. w.live \in Nat /\ w.recovery \in Nat
  BY <1>1 DEF Writer
<1>3. io' = io /\ file' = file /\ gens' = gens
  BY DEF ObserveFault
<1>4. ASSUME w' = Fail([w EXCEPT !.complete = FALSE, !.blocked = TRUE], "degraded")
      PROVE  Shape(w') /\ WriterInv(w', io, st.pending)
  <2>1. w' = [w EXCEPT !.complete = FALSE, !.blocked = TRUE,
                       !.recovery = Highest(w.recovery, w.live), !.state = "degraded"]
    BY <1>1, <1>4 DEF Fail, Writer
  <2>2. Highest(w.recovery, w.live) \in Nat
    BY <1>2 DEF Highest
  <2>3. w' \in Writer(w')
    BY <1>1, <2>1, <2>2 DEF Writer
  <2>4. /\ w'.live = w.live /\ w'.durable = w.durable /\ w'.queue = w.queue
        /\ w'.retryBatch = w.retryBatch /\ w'.phase = w.phase
        /\ w'.retiring = w.retiring /\ w'.timer = w.timer /\ w'.baseline = w.baseline
        /\ w'.blocked /\ w'.state = "degraded"
    BY <1>1, <2>1 DEF Writer
  <2> QED
    BY <1>1, <2>3, <2>4, InvSound, BlockedKeeps
<1>5. ASSUME w' = Fail([w EXCEPT !.complete = FALSE, !.blocked = TRUE,
                           !.live = @ + 1, !.proj = Append(@, ops')], "degraded")
      PROVE  Shape(w') /\ WriterInv(w', io, st.pending)
  <2>1. w' = [w EXCEPT !.complete = FALSE, !.blocked = TRUE, !.live = w.live + 1,
                       !.proj = Append(w.proj, ops'),
                       !.recovery = Highest(w.recovery, w.live + 1), !.state = "degraded"]
    BY <1>1, <1>5 DEF Fail, Writer
  <2>2. Highest(w.recovery, w.live + 1) \in Nat /\ w.live + 1 \in Nat
    BY <1>2 DEF Highest
  <2>3. w' \in Writer(w')
    BY <1>1, <2>1, <2>2 DEF Writer
  <2>4. /\ w'.live = w.live + 1 /\ w'.durable = w.durable /\ w'.queue = w.queue
        /\ w'.retryBatch = w.retryBatch /\ w'.phase = w.phase
        /\ w'.retiring = w.retiring /\ w'.timer = w.timer /\ w'.baseline = w.baseline
        /\ w'.blocked /\ w'.state = "degraded"
    BY <1>1, <2>1 DEF Writer
  <2> QED
    BY <1>1, <2>3, <2>4, InvSound, BlockedKeeps
<1>6. Shape(w') /\ WriterInv(w', io, st.pending)
  BY <1>4, <1>5 DEF ObserveFault
<1>7. StorageShape(st') /\ st'.pending = st.pending
  BY DEF ObserveFault, Inv, StorageShape, Derived
<1> QED
  BY <1>1, <1>3, <1>6, <1>7 DEF Inv

LEMMA PatchKeeps ==
  ASSUME Inv, PatchMetadata
  PROVE  Inv'
<1>1. io' = io /\ file' = file /\ gens' = gens /\ JobShape(io) /\ FileShape(file)
  BY DEF PatchMetadata, Inv
<1>2. StorageShape(st') /\ st'.pending = st.pending
  BY DEF PatchMetadata, Inv, StorageShape
<1>3. CASE w' = w
  BY <1>1, <1>2, <1>3 DEF Inv
<1>4. CASE w' = RequestCommit(w)
  <2>1. Shape(w') /\ WriterInv(w', io, st.pending)
    BY <1>1, <1>4, InvSound, RequestKeeps
  <2> QED
    BY <1>1, <1>2, <2>1 DEF Inv
<1> QED
  BY <1>3, <1>4 DEF PatchMetadata

LEMMA RewindKeeps ==
  ASSUME Inv, NEW n \in 0 .. MaxRevision, Rewind(n)
  PROVE  Inv'
<1> DEFINE p == st.pending
<1>1. Shape(w) /\ w \in Writer(w) /\ JobShape(io) /\ WriterInv(w, io, p)
  BY DEF Inv, Shape
<1>2. io = Idle /\ w.phase = "active" /\ ~w.retiring /\ w.durable = w.live
  BY DEF Rewind, Active, Busy
<1>3. w.live \in Nat /\ w.durable \in Nat /\ w.retryBatch.to \in Nat /\ p.rev \in Nat
  BY <1>1, InvSound DEF Writer, Shape
<1>4. PICK y : y = [w EXCEPT !.proj = SubSeq(w.proj, 1, n), !.live = w.live + 1,
                             !.queue = <<>>, !.baseline = TRUE]
  OBVIOUS
<1>5. /\ y.live = w.live + 1 /\ y.queue = <<>> /\ y.baseline = TRUE
      /\ y.phase = w.phase /\ y.durable = w.durable /\ y.blocked = w.blocked
      /\ y.retryBatch = w.retryBatch /\ y.state = w.state /\ y.recovery = w.recovery
      /\ y.retiring = w.retiring /\ y.timer = w.timer
  BY <1>1, <1>4 DEF Writer
<1>6. Shape(y)
  <2>1. y \in Writer(y)
    <3>1. PICK m, q, l : m = SubSeq(w.proj, 1, n) /\ q = <<>> /\ l = w.live + 1
      OBVIOUS
    <3>2. y = [w EXCEPT !.proj = m, !.live = l, !.queue = q, !.baseline = TRUE]
      BY <1>4, <3>1
    <3>3. l \in Nat
      BY <1>3, <3>1
    <3> QED
      BY <1>1, <3>2, <3>3 DEF Writer
  <2>2. Tidy(y.queue) /\ Len(y.queue) = 0
    BY <1>5, EmptyTidy
  <2> QED
    BY <2>1, <2>2, <1>3, <1>5 DEF Shape
<1>7. w.retryBatch = NoBatch
  BY <1>1, <1>2, <1>3 DEF WriterInv, Flow, RetryAhead
<1>8. io.job = "none"
  BY <1>2 DEF Idle
<1>9. QueueAhead(y)
  BY <1>2, <1>3, <1>5, EmptyTidy DEF QueueAhead
<1>10. RetryAhead(y, io) /\ AppendAhead(y, io) /\ ReplaceAhead(y, io, p)
  BY <1>5, <1>7, <1>8 DEF RetryAhead, AppendAhead, ReplaceAhead
<1>11. PendingAhead(y, io, p)
  BY <1>1, <1>3, <1>5, <1>8 DEF PendingAhead, WriterInv, Flow
<1>12. Covered(y, io) /\ Recovered(y) /\ Cleared(y, io, p)
  BY <1>1, <1>2, <1>5 DEF Covered, Recovered, Cleared, WriterInv
<1>13. TimerHonest(y, io)
  BY <1>2, <1>5, <1>8 DEF TimerHonest, Free, HasWork
<1>14. Sound(y, io, p)
  BY <1>6, <1>9, <1>10, <1>11, <1>12, <1>13 DEF Sound, Flow
<1>15. PICK x : x = Schedule(WatchHealth(y), TRUE, io # Idle)
  OBVIOUS
<1>16. Sound(x, io, p)
  <2>1. Shape(x) /\ WriterInv(x, io, p)
    BY <1>1, <1>14, <1>15, AfterGrowth
  <2> QED
    BY <2>1 DEF WriterInv, Sound
<1>17. w' = RequestCommit(x)
  <2>1. x = Schedule(WatchHealth(y), TRUE, FALSE)
    BY <1>2, <1>15
  <2> QED
    BY <1>4, <2>1 DEF Rewind
<1>18. Shape(w') /\ WriterInv(w', io, p)
  BY <1>1, <1>3, <1>16, <1>17, RequestKeeps
<1>19. StorageShape(st') /\ st'.pending = p
  BY DEF Rewind, Inv, StorageShape
<1>20. io' = io /\ file' = file /\ gens' = gens
  BY DEF Rewind
<1> QED
  BY <1>1, <1>18, <1>19, <1>20 DEF Inv
-----------------------------------------------------------------------------
(* Writes start.                                                           *)

LEMMA JobFacts ==
  ASSUME NEW j, JobShape(j)
  PROVE  (j # Idle <=> j.job # "none") /\ j.rev \in Nat /\ j.batch.to \in Nat
BY DEF JobShape, Idle

LEMMA AppendJobFacts ==
  ASSUME NEW x, NEW b, b.to \in Nat
  PROVE  /\ JobShape(AppendJob(x, b)) /\ AppendJob(x, b).job = "append"
         /\ AppendJob(x, b).batch = b /\ AppendJob(x, b).rev = b.to
         /\ ~AppendJob(x, b).recover
BY DEF AppendJob, JobShape, Idle

LEMMA ReplaceJobFacts ==
  ASSUME NEW x, x.live \in Nat, x.emptyPending \in BOOLEAN
  PROVE  /\ JobShape(ReplaceJob(x)) /\ ReplaceJob(x).job = "replace"
         /\ ReplaceJob(x).step = "candidate" /\ ReplaceJob(x).rev = x.live
BY DEF ReplaceJob, JobShape, Idle, NoBatch, Batch

(* The batch that is tried again. *)
LEMMA StartRetry ==
  ASSUME NEW x, NEW p, Sound(x, Idle, p), Told(x), x.timer = "off",
         x.phase = "active", x.retryBatch # NoBatch
  PROVE  WriterInv(x, AppendJob(x, x.retryBatch), p)
<1>1. PICK j : j = AppendJob(x, x.retryBatch)
  OBVIOUS
<1>2. x.retryBatch.to \in Nat
  BY DEF Sound, Shape
<1>3. /\ j.job = "append" /\ j.batch = x.retryBatch /\ j.rev = x.retryBatch.to
      /\ ~j.recover
  BY <1>1, <1>2, AppendJobFacts
<1>4. Idle.job = "none"
  BY DEF Idle
<1>5. /\ x.durable < j.rev /\ j.rev <= x.live /\ Precedes(x, j.rev) /\ p = NoPending
  BY <1>3 DEF Sound, Flow, RetryAhead, PendingAhead
<1>6. Flow(x, j, p)
  BY <1>3, <1>5 DEF Sound, Flow, RetryAhead, AppendAhead, ReplaceAhead, PendingAhead
<1>7. Covered(x, j)
  BY <1>3, <1>4 DEF Sound, Covered
<1>8. TimerHonest(x, j) /\ TimerArmed(x, j) /\ Cleared(x, j, p)
  BY <1>3 DEF TimerHonest, TimerArmed, Free, Cleared
<1> QED
  BY <1>1, <1>6, <1>7, <1>8 DEF WriterInv, Sound

(* A baseline takes the place of what waits. *)
LEMMA StartReplace ==
  ASSUME NEW x, NEW p, Sound(x, Idle, p), Told(x), x.timer = "off",
         x.phase = "active", x.retryBatch = NoBatch, p.rev \in Nat,
         NEW y, y = [x EXCEPT !.queue = <<>>, !.baseline = FALSE, !.emptyPending = FALSE]
  PROVE  Shape(y) /\ JobShape(ReplaceJob(x)) /\ WriterInv(y, ReplaceJob(x), p)
<1>1. PICK j : j = ReplaceJob(x)
  OBVIOUS
<1>2. x \in Writer(x) /\ x.live \in Nat /\ x.durable \in Nat /\ x.emptyPending \in BOOLEAN
  BY DEF Sound, Shape, Writer
<1>3. JobShape(j) /\ j.job = "replace" /\ j.step = "candidate" /\ j.rev = x.live
  BY <1>1, <1>2, ReplaceJobFacts
<1>4. /\ y.queue = <<>> /\ y.live = x.live /\ y.durable = x.durable
      /\ y.retryBatch = x.retryBatch /\ y.phase = x.phase /\ y.state = x.state
      /\ y.recovery = x.recovery /\ y.watch = x.watch /\ y.blocked = x.blocked
      /\ y.timer = x.timer
  BY <1>2 DEF Writer
<1>5. Tidy(y.queue) /\ Len(y.queue) = 0
  BY <1>4, EmptyTidy
<1>6. Shape(y)
  <2>1. PICK q : q = <<>>
    OBVIOUS
  <2>2. y = [x EXCEPT !.queue = q, !.baseline = FALSE, !.emptyPending = FALSE]
    BY <2>1
  <2>3. y \in Writer(y)
    BY <1>2, <2>2 DEF Writer
  <2> QED
    BY <2>3, <1>4, <1>5 DEF Sound, Shape
<1>7. x.durable <= x.live
  BY DEF Sound, Flow, QueueAhead
<1>8. QueueAhead(y) /\ Precedes(y, j.rev)
  BY <1>4, <1>5, <1>7 DEF QueueAhead, Precedes
<1>9. RetryAhead(y, j) /\ AppendAhead(y, j)
  BY <1>3, <1>4 DEF RetryAhead, AppendAhead
<1>10. p # NoPending => x.durable <= p.rev /\ p.rev <= x.live
  BY DEF Sound, Flow, PendingAhead
<1>11. ReplaceAhead(y, j, p) /\ PendingAhead(y, j, p)
  <2>1. ReplaceAhead(y, j, p)
    <3>1. y.durable <= j.rev /\ j.rev <= y.live
      BY <1>2, <1>3, <1>4, <1>7
    <3>2. p # NoPending => p.rev <= j.rev
      BY <1>3, <1>10
    <3> QED
      BY <3>1, <3>2, <1>3, <1>8 DEF ReplaceAhead
  <2>2. PendingAhead(y, j, p)
    BY <1>3, <1>4, <1>10 DEF PendingAhead
  <2> QED
    BY <2>1, <2>2
<1>12. Covered(y, j) /\ Recovered(y) /\ Told(y)
  BY <1>3, <1>4 DEF Sound, Covered, Recovered, Told
<1>13. TimerHonest(y, j) /\ TimerArmed(y, j) /\ Cleared(y, j, p)
  BY <1>3, <1>4 DEF TimerHonest, TimerArmed, Free, Cleared
<1> QED
  BY <1>1, <1>3, <1>6, <1>8, <1>9, <1>11, <1>12, <1>13 DEF WriterInv, Flow

(* The first entries become a batch, the rest go on waiting. *)
LEMMA StartAppend ==
  ASSUME NEW x, NEW p, Sound(x, Idle, p), Told(x), x.timer = "off",
         x.phase = "active", ~x.blocked, x.retryBatch = NoBatch, ~x.baseline,
         NEW n \in 1 .. Len(x.queue),
         NEW y, y = [x EXCEPT !.queue = SubSeq(x.queue, n + 1, Len(x.queue))]
  PROVE  /\ Shape(y) /\ JobShape(AppendJob(x, Batched(x.queue, n)))
         /\ WriterInv(y, AppendJob(x, Batched(x.queue, n)), p)
<1>1. PICK j : j = AppendJob(x, Batched(x.queue, n))
  OBVIOUS
<1>2. /\ x \in Writer(x) /\ x.live \in Nat /\ x.durable \in Nat
      /\ Tidy(x.queue) /\ Len(x.queue) \in Nat
      /\ \A i \in 1 .. Len(x.queue) : x.queue[i].to \in Nat
  BY TidyBasics DEF Sound, Shape, Writer
<1>3. Batched(x.queue, n).to = x.queue[n].to
  BY DEF Batched, Batch
<1>4. JobShape(j) /\ j.job = "append" /\ j.rev = x.queue[n].to /\ j.batch.to = j.rev /\ ~j.recover
  BY <1>1, <1>2, <1>3, AppendJobFacts
<1>5. PICK q : q = SubSeq(x.queue, n + 1, Len(x.queue))
  OBVIOUS
<1>6. y = [x EXCEPT !.queue = q]
  BY <1>5
<1>7. /\ y.queue = q /\ y.live = x.live /\ y.durable = x.durable
      /\ y.retryBatch = x.retryBatch /\ y.phase = x.phase /\ y.state = x.state
      /\ y.recovery = x.recovery /\ y.watch = x.watch /\ y.blocked = x.blocked
      /\ y.timer = x.timer
  BY <1>2, <1>6 DEF Writer
<1>8. /\ Tidy(q) /\ Len(q) = Len(x.queue) - n /\ Len(q) \in Nat
      /\ \A i \in 1 .. Len(q) : q[i] = x.queue[n + i]
  <2>1. /\ Tidy(q)
        /\ Len(q) = IF n + 1 <= Len(x.queue) THEN Len(x.queue) - (n + 1) + 1 ELSE 0
        /\ \A i \in 1 .. Len(x.queue) - (n + 1) + 1 : q[i] = x.queue[(n + 1) + i - 1]
    <3>1. n + 1 \in Nat /\ n + 1 >= 1 /\ Len(x.queue) <= Len(x.queue)
      BY <1>2
    <3> QED
      BY <3>1, <1>2, <1>5, SubTidy
  <2>2. Len(q) = Len(x.queue) - n
    BY <2>1, <1>2
  <2>3. ASSUME NEW i \in 1 .. Len(q) PROVE q[i] = x.queue[n + i]
    BY <2>1, <2>2, <1>2
  <2> QED
    BY <2>1, <2>2, <2>3, <1>2
<1>9. \A i \in 1 .. Len(q) : n + i \in 1 .. Len(x.queue) /\ q[i].to = x.queue[n + i].to
  BY <1>2, <1>8
<1>10. Shape(y)
  <2>1. y \in Writer(y)
    BY <1>2, <1>6 DEF Writer
  <2> QED
    BY <2>1, <1>2, <1>7, <1>8, <1>9 DEF Sound, Shape
<1>11. /\ x.durable <= x.live
       /\ \A i \in 1 .. Len(x.queue) : x.durable < x.queue[i].to /\ x.queue[i].to <= x.live
       /\ \A i, k \in 1 .. Len(x.queue) : i < k => x.queue[i].to < x.queue[k].to
  BY DEF Sound, Flow, QueueAhead
<1>12. QueueAhead(y)
  <2>1. \A i \in 1 .. Len(q) : x.durable < q[i].to /\ q[i].to <= x.live
    BY <1>9, <1>11
  <2>2. ASSUME NEW i \in 1 .. Len(q), NEW k \in 1 .. Len(q), i < k
        PROVE  q[i].to < q[k].to
    <3>1. n + i < n + k
      BY <2>2
    <3> QED
      BY <3>1, <1>9, <1>11
  <2> QED
    BY <2>1, <2>2, <1>7, <1>11 DEF QueueAhead
<1>13. Precedes(y, j.rev)
  <2>1. ASSUME NEW i \in 1 .. Len(q) PROVE j.rev < q[i].to
    <3>1. n < n + i
      OBVIOUS
    <3> QED
      BY <3>1, <1>4, <1>9, <1>11
  <2> QED
    BY <2>1, <1>7 DEF Precedes
<1>14. p = NoPending
  <2>1. Idle.job = "none"
    BY DEF Idle
  <2> QED
    BY <2>1 DEF Sound, Flow, PendingAhead
<1>15. RetryAhead(y, j) /\ ReplaceAhead(y, j, p) /\ PendingAhead(y, j, p)
  BY <1>4, <1>7, <1>14 DEF RetryAhead, ReplaceAhead, PendingAhead
<1>16. AppendAhead(y, j)
  BY <1>4, <1>7, <1>11, <1>13 DEF AppendAhead
<1>17. x.queue[Len(x.queue)].to = x.live
  <2>1. x.queue # <<>>
    BY <1>2, TidyBasics
  <2> QED
    BY <2>1 DEF Sound, Covered
<1>18. Covered(y, j)
  <2>1. CASE Len(q) = 0
    <3>1. q = <<>>
      BY <2>1, <1>8, TidyBasics
    <3>2. n = Len(x.queue)
      BY <2>1, <1>2, <1>8
    <3> QED
      BY <3>1, <3>2, <1>4, <1>7, <1>17 DEF Covered
  <2>2. CASE Len(q) # 0
    <3>1. Len(q) \in 1 .. Len(q) /\ n + Len(q) = Len(x.queue)
      BY <2>2, <1>2, <1>8
    <3>2. q[Len(q)].to = x.live
      BY <3>1, <1>9, <1>17
    <3>3. q # <<>>
      BY <2>2, <1>8, TidyBasics
    <3> QED
      BY <3>2, <3>3, <1>7 DEF Covered
  <2> QED
    BY <2>1, <2>2
<1>19. Recovered(y) /\ Told(y)
  BY <1>7 DEF Sound, Recovered, Told
<1>20. TimerHonest(y, j) /\ TimerArmed(y, j) /\ Cleared(y, j, p)
  BY <1>4, <1>7 DEF TimerHonest, TimerArmed, Free, Cleared
<1> QED
  BY <1>1, <1>4, <1>10, <1>12, <1>15, <1>16, <1>18, <1>19, <1>20 DEF WriterInv, Flow

LEMMA StartKeeps ==
  ASSUME Inv, io = Idle, w.phase = "active", StartWrite([w EXCEPT !.timer = "off"])
  PROVE  Shape(w') /\ JobShape(io') /\ WriterInv(w', io', st.pending)
<1> DEFINE p == st.pending
<1>1. PICK x : x = [w EXCEPT !.timer = "off"]
  OBVIOUS
<1>2. Sound(w, Idle, p) /\ Told(w) /\ p.rev \in Nat /\ w \in Writer(w) /\ JobShape(Idle)
  BY InvSound DEF Inv, Shape
<1>3. /\ x.queue = w.queue /\ x.live = w.live /\ x.durable = w.durable
      /\ x.retryBatch = w.retryBatch /\ x.phase = w.phase /\ x.state = w.state
      /\ x.recovery = w.recovery /\ x.watch = w.watch /\ x.blocked = w.blocked
      /\ x.baseline = w.baseline /\ x.retiring = w.retiring /\ x.timer = "off"
  BY <1>1, <1>2 DEF Writer
<1>4. Shape(x)
  <2>1. x \in Writer(x)
    BY <1>1, <1>2 DEF Writer
  <2> QED
    BY <2>1, <1>2, <1>3 DEF Sound, Shape
<1>5. Flow(x, Idle, p) /\ Covered(x, Idle) /\ Recovered(x) /\ Told(x) /\ Cleared(x, Idle, p)
  BY <1>2, <1>3 DEF Sound, Flow, QueueAhead, RetryAhead, AppendAhead, ReplaceAhead,
                    PendingAhead, Precedes, Covered, Recovered, Told, Cleared
<1>6. TimerHonest(x, Idle)
  BY <1>3 DEF TimerHonest
<1>7. Sound(x, Idle, p)
  BY <1>4, <1>5, <1>6 DEF Sound
<1>8. CASE w' = x /\ io' = io /\ (x.retiring \/ x.blocked \/ ~HasWork(x))
  <2>1. TimerArmed(x, Idle)
    BY <1>8 DEF TimerArmed, Free
  <2> QED
    BY <1>8, <2>1, <1>2, <1>5, <1>7 DEF WriterInv, Sound
<1>9. CASE x.retryBatch # NoBatch /\ w' = x /\ io' = AppendJob(x, x.retryBatch)
  <2>1. JobShape(AppendJob(x, x.retryBatch))
    BY <1>4, AppendJobFacts DEF Shape
  <2> QED
    BY <2>1, <1>3, <1>4, <1>5, <1>7, <1>9, StartRetry
<1>10. CASE /\ x.retryBatch = NoBatch /\ x.baseline
            /\ w' = [x EXCEPT !.queue = <<>>, !.baseline = FALSE, !.emptyPending = FALSE]
            /\ io' = ReplaceJob(x)
  BY <1>2, <1>3, <1>5, <1>7, <1>10, StartReplace
<1>11. CASE /\ x.retryBatch = NoBatch /\ ~x.baseline /\ ~x.blocked
            /\ \E n \in 1 .. Len(x.queue) :
                 /\ w' = [x EXCEPT !.queue = SubSeq(@, n + 1, Len(@))]
                 /\ io' = AppendJob(x, Batched(x.queue, n))
  <2>1. PICK n \in 1 .. Len(x.queue) :
          /\ w' = [x EXCEPT !.queue = SubSeq(@, n + 1, Len(@))]
          /\ io' = AppendJob(x, Batched(x.queue, n))
    BY <1>11
  <2>2. w' = [x EXCEPT !.queue = SubSeq(x.queue, n + 1, Len(x.queue))]
    BY <2>1
  <2> QED
    BY <2>1, <2>2, <1>3, <1>5, <1>7, <1>11, StartAppend
<1>12. StartWrite(x)
  BY <1>1
<1>13. \/ w' = x /\ io' = io /\ (x.retiring \/ x.blocked \/ ~HasWork(x))
       \/ x.retryBatch # NoBatch /\ w' = x /\ io' = AppendJob(x, x.retryBatch)
       \/ /\ x.retryBatch = NoBatch /\ x.baseline
          /\ w' = [x EXCEPT !.queue = <<>>, !.baseline = FALSE, !.emptyPending = FALSE]
          /\ io' = ReplaceJob(x)
       \/ /\ x.retryBatch = NoBatch /\ ~x.baseline /\ ~x.blocked
          /\ \E n \in 1 .. Len(x.queue) :
               /\ w' = [x EXCEPT !.queue = SubSeq(@, n + 1, Len(@))]
               /\ io' = AppendJob(x, Batched(x.queue, n))
  BY <1>12, Zenon DEF StartWrite, Busy, Active
<1> QED
  BY <1>8, <1>9, <1>10, <1>11, <1>13
LEMMA TimerFireKeeps ==
  ASSUME Inv, TimerFire \/ Flush
  PROVE  Inv'
<1>1. io = Idle /\ w.phase = "active"
  <2>1. CASE TimerFire
    BY <2>1 DEF TimerFire, Inv, WriterInv, TimerHonest, Free, JobShape
  <2>2. CASE Flush
    BY <2>2 DEF Flush, Active, Busy
  <2> QED
    BY <2>1, <2>2
<1>2. StartWrite([w EXCEPT !.timer = "off"])
  BY DEF TimerFire, Flush
<1>3. st' = st /\ file' = file /\ gens' = gens
  BY DEF TimerFire, Flush, disk, counts
<1>4. Shape(w') /\ JobShape(io') /\ WriterInv(w', io', st.pending)
  BY <1>1, <1>2, StartKeeps
<1> QED
  BY <1>3, <1>4 DEF Inv

LEMMA HealthTimeoutKeeps ==
  ASSUME Inv, HealthTimeout
  PROVE  Inv'
<1> DEFINE p == st.pending
<1>1. w \in Writer(w) /\ Shape(w) /\ WriterInv(w, io, p)
  BY DEF Inv, Shape
<1>2. w' = [w EXCEPT !.watch = FALSE, !.recovery = Highest(w.recovery, w.live),
                     !.state = "degraded"]
  BY <1>1 DEF HealthTimeout, Fail, Writer
<1>3. Highest(w.recovery, w.live) \in Nat
  BY <1>1 DEF Highest, Writer
<1>4. /\ w'.queue = w.queue /\ w'.retryBatch = w.retryBatch /\ w'.live = w.live
      /\ w'.durable = w.durable /\ w'.baseline = w.baseline
      /\ w'.blocked = w.blocked /\ w'.phase = w.phase /\ w'.state = "degraded"
      /\ w'.retiring = w.retiring /\ w'.timer = w.timer
  BY <1>1, <1>2 DEF Writer
<1>5. Shape(w')
  <2>1. w' \in Writer(w')
    BY <1>1, <1>2, <1>3 DEF Writer
  <2> QED
    BY <2>1, <1>1, <1>4 DEF Shape
<1>6. /\ Flow(w', io, p) /\ Covered(w', io) /\ Recovered(w') /\ Told(w')
      /\ Cleared(w', io, p)
  BY <1>1, <1>4 DEF WriterInv, Flow, QueueAhead, RetryAhead, AppendAhead, ReplaceAhead,
                    PendingAhead, Precedes, Covered, Recovered, Told, Cleared
<1>7. TimerHonest(w', io) /\ TimerArmed(w', io)
  BY <1>1, <1>4 DEF WriterInv, TimerHonest, TimerArmed, Free, HasWork
<1>8. st' = st /\ file' = file /\ gens' = gens /\ io' = io
  BY DEF HealthTimeout, disk
<1> QED
  BY <1>5, <1>6, <1>7, <1>8 DEF Inv, WriterInv

-----------------------------------------------------------------------------
(* Writes end.                                                             *)

LEMMA IdleFacts == Idle.job = "none" /\ NoBatch.to = 0
BY DEF Idle, NoBatch, Batch

(* What the writer knows while a write is in flight. *)
LEMMA InFlight ==
  ASSUME NEW x, NEW j, NEW p, JobShape(j), Shape(x), WriterInv(x, j, p), j # Idle
  PROVE  /\ x \in Writer(x) /\ x.live \in Nat /\ x.durable \in Nat /\ x.recovery \in Nat
         /\ j.rev \in Nat /\ j.job \in {"append", "replace"}
         /\ x.timer = "off" /\ x.phase # "cold"
         /\ j.job = "replace" => x.retryBatch = NoBatch
         /\ j.job = "append" => p = NoPending /\ ~j.recover
BY JobFacts DEF Shape, Writer, JobShape, WriterInv, Flow, RetryAhead, AppendAhead,
                PendingAhead, TimerHonest, Free, Cleared

(* Recording stops, with everything where it was. *)
LEMMA StopKeeps ==
  ASSUME NEW x, NEW j, NEW p, JobShape(j), Shape(x), WriterInv(x, j, p), j # Idle,
         j.job = "append" => x.retryBatch = NoBatch \/ x.retryBatch = j.batch,
         NEW y, y = Fail([x EXCEPT !.blocked = TRUE, !.retrying = TRUE], "degraded")
  PROVE  Sound(y, Idle, p)
<1>1. /\ x \in Writer(x) /\ x.live \in Nat /\ x.durable \in Nat /\ x.recovery \in Nat
      /\ j.rev \in Nat /\ j.job \in {"append", "replace"} /\ x.timer = "off"
      /\ x.phase # "cold"
      /\ j.job = "replace" => x.retryBatch = NoBatch
      /\ j.job = "append" => p = NoPending
  BY InFlight
<1>2. y = [x EXCEPT !.blocked = TRUE, !.retrying = TRUE,
                    !.recovery = Highest(x.recovery, x.live), !.state = "degraded"]
  BY <1>1 DEF Fail, Writer
<1>3. Highest(x.recovery, x.live) \in Nat
  BY <1>1 DEF Highest
<1>4. /\ y.queue = x.queue /\ y.retryBatch = x.retryBatch /\ y.live = x.live
      /\ y.durable = x.durable /\ y.blocked = TRUE /\ y.phase = x.phase
      /\ y.state = "degraded" /\ y.timer = x.timer
  BY <1>1, <1>2 DEF Writer
<1>5. Shape(y)
  <2>1. y \in Writer(y)
    BY <1>1, <1>2, <1>3 DEF Writer
  <2> QED
    BY <2>1, <1>4 DEF Shape
<1>6. QueueAhead(y) /\ RetryAhead(y, Idle)
  BY <1>1, <1>4, IdleFacts DEF WriterInv, Flow, QueueAhead, RetryAhead, Precedes
<1>7. AppendAhead(y, Idle) /\ ReplaceAhead(y, Idle, p)
  BY IdleFacts DEF AppendAhead, ReplaceAhead
<1>8. PendingAhead(y, Idle, p)
  BY <1>1, <1>4, IdleFacts DEF WriterInv, Flow, PendingAhead
<1>9. Covered(y, Idle) /\ Recovered(y) /\ TimerHonest(y, Idle) /\ Cleared(y, Idle, p)
  BY <1>1, <1>4 DEF Covered, Recovered, TimerHonest, Cleared
<1> QED
  BY <1>5, <1>6, <1>7, <1>8, <1>9 DEF Sound, Flow

(* A refused write becomes a baseline, or the end of recording. *)
LEMMA RefusedKeeps ==
  ASSUME NEW p, JobShape(io), Shape(w), WriterInv(w, io, p), io # Idle
  PROVE  Sound(Refused(w), Idle, p)
<1>1. /\ w \in Writer(w) /\ w.live \in Nat /\ w.durable \in Nat /\ w.recovery \in Nat
      /\ io.rev \in Nat /\ io.job \in {"append", "replace"} /\ w.timer = "off"
      /\ w.phase # "cold"
      /\ io.job = "replace" => w.retryBatch = NoBatch
      /\ io.job = "append" => p = NoPending
  BY InFlight
<1>2. PICK y : y = Refused(w)
  OBVIOUS
<1>3. CASE y = Fail([w EXCEPT !.blocked = TRUE, !.retrying = TRUE], "degraded")
  <2>1. io.job = "append" => w.retryBatch = NoBatch \/ w.retryBatch = io.batch
    BY DEF WriterInv, Flow, AppendAhead
  <2> QED
    BY <1>2, <1>3, <2>1, StopKeeps
<1>4. CASE y = Fail([w EXCEPT !.attempted = TRUE, !.emptyPending = TRUE, !.baseline = TRUE,
                       !.retryBatch = NoBatch, !.queue = <<>>, !.retrying = FALSE],
                    "degraded")
  <2>1. PICK q : q = <<>>
    OBVIOUS
  <2>2. y = [w EXCEPT !.attempted = TRUE, !.emptyPending = TRUE, !.baseline = TRUE,
                      !.retryBatch = NoBatch, !.queue = q, !.retrying = FALSE,
                      !.recovery = Highest(w.recovery, w.live), !.state = "degraded"]
    BY <1>1, <1>4, <2>1 DEF Fail, Writer
  <2>3. Highest(w.recovery, w.live) \in Nat
    BY <1>1 DEF Highest
  <2>4. /\ y.queue = q /\ y.retryBatch = NoBatch /\ y.live = w.live
        /\ y.durable = w.durable /\ y.baseline = TRUE /\ y.phase = w.phase
        /\ y.state = "degraded" /\ y.timer = w.timer
    BY <1>1, <2>2 DEF Writer
  <2>5. Tidy(y.queue) /\ Len(y.queue) = 0
    BY <2>1, <2>4, EmptyTidy
  <2>6. Shape(y)
    <3>1. y \in Writer(y)
      BY <1>1, <2>2, <2>3 DEF Writer
    <3> QED
      BY <3>1, <2>4, <2>5, IdleFacts DEF Shape
  <2>7. w.durable <= w.live
    BY DEF WriterInv, Flow, QueueAhead
  <2>8. QueueAhead(y) /\ RetryAhead(y, Idle) /\ AppendAhead(y, Idle)
    BY <2>4, <2>5, <2>7, IdleFacts DEF QueueAhead, RetryAhead, AppendAhead
  <2>9. ReplaceAhead(y, Idle, p)
    BY IdleFacts DEF ReplaceAhead
  <2>10. PendingAhead(y, Idle, p)
    BY <1>1, <2>4, IdleFacts DEF WriterInv, Flow, PendingAhead
  <2>11. Covered(y, Idle) /\ Recovered(y) /\ TimerHonest(y, Idle) /\ Cleared(y, Idle, p)
    BY <1>1, <2>4 DEF Covered, Recovered, TimerHonest, Cleared
  <2> QED
    BY <1>2, <2>6, <2>8, <2>9, <2>10, <2>11 DEF Sound, Flow
<1> QED
  BY <1>2, <1>3, <1>4 DEF Refused

(* A write that failed is tried again. *)
LEMMA FailedKeeps ==
  ASSUME NEW p, NEW q, JobShape(io), Shape(w), WriterInv(w, io, p), io # Idle,
         q = p \/ (io.job = "append" /\ q = NoPending)
  PROVE  Sound(Failed(w), Idle, q)
<1>1. /\ w \in Writer(w) /\ w.live \in Nat /\ w.durable \in Nat /\ w.recovery \in Nat
      /\ io.rev \in Nat /\ io.job \in {"append", "replace"} /\ w.timer = "off"
      /\ w.phase # "cold"
      /\ io.job = "replace" => w.retryBatch = NoBatch
      /\ io.job = "append" => p = NoPending /\ ~io.recover
  BY InFlight
<1>2. q = p
  BY <1>1
<1>3. PICK y : y = Failed(w)
  OBVIOUS
<1>4. CASE io.recover
  <2>1. y = Fail([w EXCEPT !.blocked = TRUE, !.retrying = TRUE], "degraded")
    BY <1>3, <1>4 DEF Failed
  <2> QED
    BY <2>1, <1>1, <1>2, <1>3, <1>4, StopKeeps
<1>5. CASE ~io.recover
  <2>1. PICK rb : rb = IF io.job = "append" THEN io.batch ELSE w.retryBatch
    OBVIOUS
  <2>2. PICK bl \in BOOLEAN : bl <=> (w.baseline \/ io.job = "replace")
    OBVIOUS
  <2>3. PICK state \in {"retrying", "degraded"} :
        y = [w EXCEPT !.retryBatch = rb, !.baseline = bl, !.retrying = TRUE,
                      !.recovery = Highest(w.recovery, w.live), !.state = state]
    <3>1. w.baseline \in BOOLEAN
      BY <1>1 DEF Writer
    <3>2. bl = (w.baseline \/ io.job = "replace")
      BY <2>2, <3>1
    <3>3. PICK z : z = [w EXCEPT !.retryBatch = rb, !.baseline = bl, !.retrying = TRUE]
      OBVIOUS
    <3>4. z.recovery = w.recovery /\ z.live = w.live
      BY <1>1, <3>3 DEF Writer
    <3>5. z = [w EXCEPT !.retryBatch = IF io.job = "append" THEN io.batch ELSE @,
                        !.baseline = @ \/ io.job = "replace", !.retrying = TRUE]
      BY <2>1, <3>2, <3>3
    <3>6. y = Fail(z, IF z.baseline THEN "degraded" ELSE "retrying")
      BY <1>3, <1>5, <3>5 DEF Failed
    <3>7. PICK state \in {"retrying", "degraded"} :
            state = IF z.baseline THEN "degraded" ELSE "retrying"
      OBVIOUS
    <3>8. y = [z EXCEPT !.recovery = Highest(w.recovery, w.live), !.state = state]
      BY <3>4, <3>6, <3>7 DEF Fail
    <3> QED
      BY <1>1, <3>3, <3>7, <3>8 DEF Writer
  <2>4. Highest(w.recovery, w.live) \in Nat
    BY <1>1 DEF Highest
  <2>5. /\ y.queue = w.queue /\ y.retryBatch = rb /\ y.live = w.live
        /\ y.durable = w.durable /\ y.baseline = bl /\ y.phase = w.phase
        /\ y.state # "healthy" /\ y.timer = "off" /\ y.blocked = w.blocked
    BY <1>1, <2>3 DEF Writer
  <2>6. rb.to \in Nat
    BY <2>1, JobFacts DEF Shape
  <2>7. Shape(y)
    <3>1. y \in Writer(y)
      BY <1>1, <2>2, <2>3, <2>4 DEF Writer
    <3> QED
      BY <3>1, <2>5, <2>6 DEF Shape
  <2>8. QueueAhead(y)
    BY <2>5 DEF WriterInv, Flow, QueueAhead
  <2>9. RetryAhead(y, Idle)
    <3>1. CASE io.job = "append"
      BY <3>1, <2>1, <2>5, IdleFacts DEF WriterInv, Flow, AppendAhead, RetryAhead, Precedes
    <3>2. CASE io.job = "replace"
      BY <3>2, <1>1, <2>1, <2>5 DEF RetryAhead
    <3> QED
      BY <3>1, <3>2, <1>1
  <2>10. AppendAhead(y, Idle) /\ ReplaceAhead(y, Idle, p)
    BY IdleFacts DEF AppendAhead, ReplaceAhead
  <2>11. PendingAhead(y, Idle, p)
    BY <1>1, <2>1, <2>2, <2>5, IdleFacts DEF WriterInv, Flow, PendingAhead
  <2>12. Covered(y, Idle)
    <3>1. CASE io.job = "append"
      <4>1. rb = io.batch /\ io.rev = io.batch.to /\ w.durable < io.rev
        BY <3>1, <2>1 DEF WriterInv, Flow, AppendAhead
      <4>2. rb # NoBatch
        BY <4>1, <1>1, IdleFacts
      <4> QED
        BY <4>1, <4>2, <3>1, <2>2, <2>5, IdleFacts DEF WriterInv, Covered
    <3>2. CASE io.job = "replace"
      BY <3>2, <2>2, <2>5 DEF Covered
    <3> QED
      BY <3>1, <3>2, <1>1
  <2>13. Recovered(y) /\ TimerHonest(y, Idle) /\ Cleared(y, Idle, p)
    BY <1>1, <2>5 DEF Recovered, TimerHonest, Cleared
  <2> QED
    BY <1>2, <1>3, <2>7, <2>8, <2>9, <2>10, <2>11, <2>12, <2>13 DEF Sound, Flow
<1> QED
  BY <1>4, <1>5

(* A write that succeeded has moved what is saved forward. *)
LEMMA SucceededKeeps ==
  ASSUME NEW p, JobShape(io), Shape(w), WriterInv(w, io, p), io # Idle, p.rev \in Nat,
         NEW c,
         \/ io.job = "append" /\ c.rev = io.batch.to
         \/ io.job = "replace" /\ p # NoPending /\ c.rev = p.rev
  PROVE  Sound(Succeeded(w, c), Idle, NoPending)
<1>1. /\ w \in Writer(w) /\ w.live \in Nat /\ w.durable \in Nat /\ w.recovery \in Nat
      /\ io.rev \in Nat /\ io.job \in {"append", "replace"} /\ w.timer = "off"
      /\ w.phase # "cold"
      /\ \A i \in 1 .. Len(w.queue) : w.queue[i].to \in Nat
  BY InFlight DEF Shape
<1>2. /\ c.rev \in Nat /\ w.durable <= c.rev /\ c.rev <= io.rev /\ io.rev <= w.live
      /\ Precedes(w, io.rev) /\ (io.job = "append" => c.rev = io.rev)
  <2>1. CASE io.job = "append"
    BY <2>1, <1>1 DEF WriterInv, Flow, AppendAhead
  <2>2. CASE io.job = "replace"
    BY <2>2, <1>1 DEF WriterInv, Flow, ReplaceAhead, PendingAhead
  <2> QED
    BY <2>1, <2>2, <1>1
<1>3. PICK y : y = Succeeded(w, c)
  OBVIOUS
<1>4. PICK bl \in BOOLEAN : bl <=> (w.baseline \/ (io.job = "replace" /\ c.rev < io.rev))
  OBVIOUS
<1>5. PICK state \in {"healthy", "retrying", "degraded"} :
        /\ y = [w EXCEPT !.gen = c.gen, !.durable = c.rev, !.baseline = bl,
                         !.retryBatch = NoBatch, !.retrying = FALSE, !.watch = FALSE,
                         !.state = state]
        /\ state = "healthy" => c.rev >= w.recovery \/ w.state = "healthy"
  <2>1. w.baseline \in BOOLEAN
    BY <1>1 DEF Writer
  <2>2. bl = (w.baseline \/ (io.job = "replace" /\ c.rev < io.rev))
    BY <1>4, <2>1
  <2>3. PICK z : z = [w EXCEPT !.gen = c.gen, !.durable = c.rev, !.baseline = bl,
                               !.retryBatch = NoBatch, !.retrying = FALSE,
                               !.watch = FALSE]
    OBVIOUS
  <2>4. z.state = w.state /\ z.durable = c.rev /\ z.recovery = w.recovery
    BY <1>1, <2>3 DEF Writer
  <2>5. PICK state : state = IF ~z.baseline /\ z.complete /\ z.durable >= z.recovery
                             THEN "healthy" ELSE z.state
    OBVIOUS
  <2>6. y = [z EXCEPT !.state = state]
    <3>1. z = [w EXCEPT !.gen = c.gen, !.durable = c.rev,
                        !.baseline = @ \/ (io.job = "replace" /\ c.rev < io.rev),
                        !.retryBatch = NoBatch, !.retrying = FALSE, !.watch = FALSE]
      BY <2>2, <2>3
    <3> QED
      BY <3>1, <2>5, <1>3 DEF Succeeded
  <2>7. state \in {"healthy", "retrying", "degraded"}
    BY <1>1, <2>4, <2>5 DEF Writer
  <2>8. y = [w EXCEPT !.gen = c.gen, !.durable = c.rev, !.baseline = bl,
                      !.retryBatch = NoBatch, !.retrying = FALSE, !.watch = FALSE,
                      !.state = state]
    BY <1>1, <2>3, <2>6 DEF Writer
  <2>9. state = "healthy" => c.rev >= w.recovery \/ w.state = "healthy"
    BY <2>4, <2>5
  <2> QED
    BY <2>7, <2>8, <2>9
<1>6. /\ y.queue = w.queue /\ y.retryBatch = NoBatch /\ y.live = w.live
      /\ y.durable = c.rev /\ y.baseline = bl /\ y.phase = w.phase /\ y.state = state
      /\ y.timer = "off" /\ y.blocked = w.blocked /\ y.recovery = w.recovery
  BY <1>1, <1>5 DEF Writer
<1>7. Shape(y)
  <2>1. y \in Writer(y)
    <3>1. w \in Writer(w) /\ c.rev \in Nat /\ bl \in BOOLEAN
      BY <1>1, <1>2, <1>4
    <3>2. PICK x : x = [w EXCEPT !.gen = c.gen, !.durable = c.rev, !.baseline = bl,
                                 !.retryBatch = NoBatch]
      OBVIOUS
    <3>3. x \in Writer(x)
      BY <3>1, <3>2 DEF Writer
    <3>4. y = [x EXCEPT !.retrying = FALSE, !.watch = FALSE, !.state = state]
      BY <1>5, <3>2
    <3> QED
      BY <3>3, <3>4 DEF Writer
  <2> QED
    BY <2>1, <1>6, IdleFacts DEF Shape
<1>8. QueueAhead(y)
  <2>1. \A i \in 1 .. Len(w.queue) : c.rev < w.queue[i].to
    BY <1>1, <1>2 DEF Precedes
  <2>2. c.rev <= w.live
    BY <1>1, <1>2
  <2> QED
    BY <2>1, <2>2, <1>6 DEF QueueAhead, WriterInv, Flow
<1>9. RetryAhead(y, Idle) /\ AppendAhead(y, Idle) /\ ReplaceAhead(y, Idle, NoPending)
  BY <1>6, IdleFacts DEF RetryAhead, AppendAhead, ReplaceAhead
<1>10. PendingAhead(y, Idle, NoPending)
  BY DEF PendingAhead
<1>11. Covered(y, Idle)
  <2>1. SUFFICES ASSUME w.phase = "active", ~w.blocked, ~bl
                 PROVE  \/ w.queue # <<>> /\ w.queue[Len(w.queue)].to = w.live
                        \/ w.queue = <<>> /\ c.rev = w.live
    BY <1>6 DEF Covered
  <2>2. ~w.baseline /\ c.rev = io.rev
    BY <2>1, <1>1, <1>2, <1>4
  <2>3. \/ w.queue # <<>> /\ w.queue[Len(w.queue)].to = w.live
        \/ w.queue = <<>> /\ (w.durable = w.live \/ io.rev = w.live)
    BY <2>1, <2>2, <1>1 DEF WriterInv, Covered
  <2> QED
    BY <2>2, <2>3, <1>1, <1>2
<1>12. Recovered(y)
  BY <1>1, <1>2, <1>5, <1>6 DEF WriterInv, Recovered
<1>13. TimerHonest(y, Idle) /\ Cleared(y, Idle, NoPending)
  BY <1>1, <1>6 DEF TimerHonest, Cleared
<1> QED
  BY <1>3, <1>7, <1>8, <1>9, <1>10, <1>11, <1>12, <1>13 DEF Sound, Flow

LEMMA IoFailKeeps ==
  ASSUME Inv, IoFail
  PROVE  Inv'
<1>1. io # Idle /\ Finally(Failed(w))
  BY DEF IoFail, Busy
<1>2. Sound(Failed(w), Idle, st.pending)
  BY <1>1, FailedKeeps DEF Inv
<1>3. PICK x : x = Failed(w)
  OBVIOUS
<1>4. Shape(w') /\ JobShape(io') /\ WriterInv(w', io', st.pending)
  BY <1>1, <1>2, <1>3, FinallyKeeps
<1>5. st' = st /\ file' = file /\ gens' = gens
  BY DEF IoFail, disk
<1> QED
  BY <1>4, <1>5 DEF Inv

-----------------------------------------------------------------------------
(* The steps of a write.                                                   *)

(* A step of the file work leaves the writer alone. *)
LEMMA StepKeeps ==
  ASSUME NEW x, NEW j, NEW k, NEW p, NEW q, JobShape(j), j # Idle, Shape(x),
         WriterInv(x, j, p), JobShape(k), k.job = j.job, k.batch = j.batch,
         k.rev = j.rev, k.recover = j.recover,
         \/ q = p
         \/ j.job = "replace" /\ p = NoPending /\ q # NoPending /\ q.rev = j.rev,
         j.job = "append" \/ k.step = "candidate" \/ q # NoPending
  PROVE  WriterInv(x, k, q)
<1>1. /\ x.live \in Nat /\ x.durable \in Nat /\ j.rev \in Nat
      /\ j.job \in {"append", "replace"} /\ x.phase # "cold"
      /\ j.job = "replace" => x.retryBatch = NoBatch
      /\ j.job = "append" => p = NoPending /\ ~j.recover
  BY InFlight
<1>2. QueueAhead(x) /\ RetryAhead(x, k) /\ AppendAhead(x, k)
  BY DEF WriterInv, Flow, RetryAhead, AppendAhead
<1>3. ReplaceAhead(x, k, q) /\ PendingAhead(x, k, q)
  <2>1. CASE q = p
    BY <2>1, <1>1 DEF WriterInv, Flow, ReplaceAhead, PendingAhead
  <2>2. CASE j.job = "replace" /\ q # NoPending /\ q.rev = j.rev
    BY <2>2, <1>1 DEF WriterInv, Flow, ReplaceAhead, PendingAhead
  <2> QED
    BY <2>1, <2>2
<1>4. Covered(x, k) /\ Recovered(x) /\ Told(x)
  BY DEF WriterInv, Covered
<1>5. TimerHonest(x, k) /\ TimerArmed(x, k) /\ Cleared(x, k, q)
  BY <1>1 DEF WriterInv, TimerHonest, TimerArmed, Free, Cleared
<1> QED
  BY <1>2, <1>3, <1>4, <1>5 DEF WriterInv, Flow

LEMMA GotoKeeps ==
  ASSUME NEW p, NEW q, JobShape(io), io # Idle, Shape(w), WriterInv(w, io, p),
         NEW s, Goto(s),
         \/ q = p
         \/ io.job = "replace" /\ p = NoPending /\ q # NoPending /\ q.rev = io.rev,
         io.job = "append" \/ q # NoPending
  PROVE  JobShape(io') /\ WriterInv(w, io', q)
<1>1. io.job # "none"
  BY JobFacts
<1>2. io' = [io EXCEPT !.step = s]
  BY DEF Goto
<1>3. /\ JobShape(io') /\ io'.job = io.job /\ io'.batch = io.batch /\ io'.rev = io.rev
      /\ io'.recover = io.recover
  BY <1>1, <1>2 DEF JobShape
<1> QED
  BY <1>3, StepKeeps

LEMMA FreshFile ==
  ASSUME NEW kind, NEW gen, NEW base \in Nat, NEW content
  PROVE  FileShape(Transcript(kind, gen, base, content))
<1>1. PICK r : r = <<>>
  OBVIOUS
<1>2. Tidy(r) /\ Len(r) = 0
  BY <1>1, EmptyTidy
<1>3. Transcript(kind, gen, base, content) =
        [kind |-> kind, gen |-> gen, base |-> base, ops |-> content, rows |-> r,
         tail |-> NoBatch]
  BY <1>1 DEF Transcript
<1> QED
  BY <1>2, <1>3 DEF FileShape

LEMMA GrownFile ==
  ASSUME NEW f, FileShape(f), NEW b, b.to \in Nat, NEW t
  PROVE  FileShape([f EXCEPT !.rows = Append(f.rows, b), !.tail = t])
<1>1. Tidy(f.rows) /\ Len(f.rows) \in Nat
  BY TidyBasics DEF FileShape
<1>2. /\ Tidy(Append(f.rows, b)) /\ Len(Append(f.rows, b)) = Len(f.rows) + 1
      /\ \A i \in 1 .. Len(f.rows) : Append(f.rows, b)[i] = f.rows[i]
      /\ Append(f.rows, b)[Len(f.rows) + 1] = b
  BY <1>1, AppendTidy
<1>3. PICK r : r = Append(f.rows, b)
  OBVIOUS
<1>4. Tidy(r) /\ \A i \in 1 .. Len(r) : r[i].to \in Nat
  <2>1. ASSUME NEW i \in 1 .. Len(r) PROVE r[i].to \in Nat
    <3>1. CASE i \in 1 .. Len(f.rows)
      BY <3>1, <1>2, <1>3 DEF FileShape
    <3>2. CASE i = Len(f.rows) + 1
      BY <3>2, <1>2, <1>3
    <3> QED
      BY <3>1, <3>2, <1>1, <1>2, <1>3
  <2> QED
    BY <2>1, <1>2, <1>3
<1>5. PICK g : g = [f EXCEPT !.rows = r, !.tail = t]
  OBVIOUS
<1>6. FileShape(g)
  BY <1>4, <1>5 DEF FileShape
<1> QED
  BY <1>3, <1>5, <1>6

LEMMA CutFile ==
  ASSUME NEW f, FileShape(f), NEW n \in 0 .. Len(f.rows)
  PROVE  FileShape(CutAt(f, n))
<1>1. Tidy(f.rows) /\ Len(f.rows) \in Nat
  BY TidyBasics DEF FileShape
<1>2. PICK r : r = SubSeq(f.rows, 1, n)
  OBVIOUS
<1>3. /\ Tidy(r) /\ Len(r) = n
      /\ \A i \in 1 .. n : r[i] = f.rows[i]
  <2>1. /\ Tidy(r) /\ Len(r) = IF 1 <= n THEN n - 1 + 1 ELSE 0
        /\ \A i \in 1 .. n - 1 + 1 : r[i] = f.rows[1 + i - 1]
    BY <1>1, <1>2, SubTidy
  <2> QED
    BY <2>1, <1>1
<1>4. \A i \in 1 .. Len(r) : r[i].to \in Nat
  BY <1>1, <1>3 DEF FileShape
<1>5. PICK g : g = [f EXCEPT !.rows = r, !.tail = NoBatch]
  OBVIOUS
<1>6. FileShape(g)
  BY <1>3, <1>4, <1>5 DEF FileShape
<1> QED
  BY <1>2, <1>5, <1>6 DEF CutAt

LEMMA AppendOpenKeeps ==
  ASSUME Inv, AppendCreate \/ AppendHeader
  PROVE  Inv'
<1>1. /\ JobShape(io) /\ Shape(w) /\ WriterInv(w, io, st.pending) /\ StorageShape(st)
      /\ gens \in Nat
  BY DEF Inv
<1>2. io.job = "append" /\ io # Idle
  BY <1>1, JobFacts DEF AppendCreate, AppendHeader, At
<1>3. w' = w /\ gens' = gens
  BY DEF AppendCreate, AppendHeader, counts
<1>4. JobShape(io') /\ WriterInv(w, io', st.pending)
  <2>1. PICK s \in {"header", "check"} : Goto(s)
    BY DEF AppendCreate, AppendHeader
  <2> QED
    BY <2>1, <1>1, <1>2, GotoKeeps
<1>5. StorageShape(st') /\ st'.pending = st.pending
  <2>1. st' = st \/ st' = [st EXCEPT !.created = TRUE]
    BY DEF AppendCreate, AppendHeader
  <2> QED
    BY <2>1, <1>1 DEF StorageShape
<1>6. FileShape(file')
  <2>1. PICK kind, gen : file' = Transcript(kind, gen, 0, <<>>)
    BY DEF AppendCreate, AppendHeader
  <2> QED
    BY <2>1, FreshFile
<1> QED
  BY <1>1, <1>3, <1>4, <1>5, <1>6 DEF Inv

LEMMA AppendCheckKeeps ==
  ASSUME Inv, AppendCheck
  PROVE  Inv'
<1> DEFINE p       == st.pending
           known   == Known(file, st.cursor, io.expected)
           already == AlreadyWritten(file, st.cursor, io.expected, io.batch)
           offset  == IF already /\ ~known THEN Valid(file) - 1
                      ELSE Offset(file, st.cursor, io.expected)
           may     == MayAppend(file, st.cursor, io.expected, io.batch, st.coldTail)
<1>1. /\ JobShape(io) /\ Shape(w) /\ WriterInv(w, io, p) /\ StorageShape(st)
      /\ FileShape(file) /\ gens \in Nat
  BY DEF Inv
<1>2. io.job = "append" /\ io # Idle
  BY <1>1, JobFacts DEF AppendCheck, At
<1>3. gens' = gens
  BY DEF AppendCheck, counts
<1>4. Valid(file) \in 0 .. Len(file.rows) /\ Len(file.rows) \in Nat /\ st.cursor.size \in Nat
  BY <1>1, ValidBound, TidyBasics DEF FileShape, StorageShape
<1>5. io.batch # NoBatch
  <2>1. w.durable \in Nat /\ w.durable < io.batch.to
    BY <1>1, <1>2, InFlight DEF WriterInv, Flow, AppendAhead
  <2> QED
    BY <2>1, <1>1, JobFacts, IdleFacts
<1>6. offset \in 0 .. Len(file.rows)
  <2>1. CASE already /\ ~known
    <3>1. LastBatch(file) # NoBatch
      BY <2>1, <1>5 DEF AlreadyWritten
    <3>2. Valid(file) # 0
      BY <3>1 DEF LastBatch
    <3> QED
      BY <2>1, <3>2, <1>4
  <2>2. CASE known
    BY <2>2, <1>4 DEF Offset, Known
  <2>3. CASE ~already /\ ~known
    BY <2>3, <1>4 DEF Offset
  <2> QED
    BY <2>1, <2>2, <2>3
<1>7. \/ /\ may
         /\ file' = IF already THEN file ELSE CutAt(file, offset)
         /\ st' = [st EXCEPT !.cursor = [gen |-> io.expected.gen,
                                         rev |-> io.expected.rev, size |-> offset]]
         /\ Goto(IF already THEN "sync" ELSE "write") /\ w' = w
      \/ ~may /\ Finally(Refused(w)) /\ file' = file /\ st' = st
  BY Zenon DEF AppendCheck
<1>8. CASE Goto(IF already THEN "sync" ELSE "write") /\ w' = w
  <2>1. PICK n : n = offset
    OBVIOUS
  <2>2. PICK e : e = io.expected
    OBVIOUS
  <2>3. PICK s : s = IF already THEN "sync" ELSE "write"
    OBVIOUS
  <2>4. JobShape(io') /\ WriterInv(w, io', p)
    <3>1. Goto(s)
      BY <1>8, <2>3
    <3> QED
      BY <3>1, <1>1, <1>2, GotoKeeps
  <2> QED
    <3>1. ASSUME file' = (IF already THEN file ELSE CutAt(file, offset)),
                 st' = [st EXCEPT !.cursor = [gen |-> io.expected.gen,
                                         rev |-> io.expected.rev, size |-> offset]]
          PROVE  Inv'
      <4>1. FileShape(file')
        <5>1. file' = file \/ file' = CutAt(file, n)
          BY <3>1, <2>1
        <5>2. n \in 0 .. Len(file.rows)
          BY <2>1, <1>6
        <5> QED
          BY <5>1, <5>2, <1>1, CutFile
      <4>2. StorageShape(st') /\ st'.pending = p
        <5>1. st' = [st EXCEPT !.cursor = [gen |-> e.gen, rev |-> e.rev, size |-> n]]
          BY <3>1, <2>1, <2>2
        <5>2. n \in Nat
          BY <2>1, <1>6
        <5> QED
          BY <5>1, <5>2, <1>1 DEF StorageShape
      <4> QED
        BY <4>1, <4>2, <2>4, <1>1, <1>3, <1>8 DEF Inv
    <3>2. CASE file' = file /\ st' = st
      BY <3>2, <2>4, <1>1, <1>3, <1>8 DEF Inv
    <3> QED
      BY <3>1, <3>2, <1>7
<1>9. CASE Finally(Refused(w)) /\ file' = file /\ st' = st
  <2>1. PICK x : x = Refused(w)
    OBVIOUS
  <2>2. Sound(x, Idle, p)
    BY <2>1, <1>1, <1>2, RefusedKeeps
  <2>3. Shape(w') /\ JobShape(io') /\ WriterInv(w', io', p)
    BY <2>1, <2>2, <1>9, FinallyKeeps
  <2> QED
    BY <2>3, <1>1, <1>3, <1>9 DEF Inv
<1> QED
  BY <1>7, <1>8, <1>9

LEMMA AppendWriteKeeps ==
  ASSUME Inv, AppendPart \/ AppendRow
  PROVE  Inv'
<1>1. /\ JobShape(io) /\ Shape(w) /\ WriterInv(w, io, st.pending) /\ StorageShape(st)
      /\ FileShape(file) /\ gens \in Nat
  BY DEF Inv
<1>2. io.job = "append" /\ io # Idle
  BY <1>1, JobFacts DEF AppendPart, AppendRow, At
<1>3. w' = w /\ st' = st /\ gens' = gens
  BY DEF AppendPart, AppendRow, counts
<1>4. CASE AppendPart
  <2>1. FileShape(file')
    BY <1>1, <1>4 DEF AppendPart, FileShape
  <2> QED
    BY <2>1, <1>1, <1>3, <1>4 DEF AppendPart, Inv
<1>5. CASE AppendRow
  <2>1. FileShape(file')
    <3>1. file' = [file EXCEPT !.rows = Append(file.rows, io.batch), !.tail = NoBatch]
      BY <1>5 DEF AppendRow
    <3> QED
      BY <3>1, <1>1, JobFacts, GrownFile
  <2>2. JobShape(io') /\ WriterInv(w, io', st.pending)
    <3>1. Goto("sync")
      BY <1>5 DEF AppendRow
    <3> QED
      BY <3>1, <1>1, <1>2, GotoKeeps
  <2> QED
    BY <2>1, <2>2, <1>1, <1>3 DEF Inv
<1> QED
  BY <1>4, <1>5

LEMMA ReplaceCheckKeeps ==
  ASSUME Inv, ReplaceCheck
  PROVE  Inv'
<1> DEFINE p == st.pending
<1>1. /\ JobShape(io) /\ Shape(w) /\ WriterInv(w, io, p) /\ StorageShape(st)
      /\ FileShape(file) /\ gens \in Nat
  BY DEF Inv
<1>2. io.job = "replace" /\ io.step = "candidate" /\ io # Idle
  BY <1>1, JobFacts DEF ReplaceCheck, At
<1>3. gens' \in Nat
  BY <1>1 DEF ReplaceCheck
<1>4. PICK q : q = Candidate
  OBVIOUS
<1>5. (p # NoPending /\ q = p) \/ (p = NoPending /\ q # NoPending /\ q.rev = io.rev)
  <2>1. CASE p # NoPending
    BY <2>1, <1>4 DEF Candidate
  <2>2. CASE p = NoPending
    <3>1. q.gen = gens + 1 /\ q.rev = io.rev
      BY <2>2, <1>4 DEF Candidate
    <3>2. NoPending.gen = 0
      BY DEF NoPending
    <3> QED
      BY <3>1, <3>2, <2>2, <1>1
  <2> QED
    BY <2>1, <2>2
<1>6. st' = [st EXCEPT !.pending = q]
  BY <1>4 DEF ReplaceCheck
<1>7. StorageShape(st') /\ st'.pending = q
  <2>1. q \in [gen : {q.gen}, rev : Nat, ops : {q.ops}, empty : {q.empty},
               expected : {q.expected}]
    <3>1. CASE p # NoPending
      BY <3>1, <1>1, <1>5 DEF StorageShape
    <3>2. CASE p = NoPending
      BY <3>2, <1>1, <1>4, JobFacts DEF Candidate
    <3> QED
      BY <3>1, <3>2
  <2> QED
    BY <2>1, <1>1, <1>6 DEF StorageShape
<1>8. FileShape([file EXCEPT !.tail = NoBatch])
  BY <1>1 DEF FileShape
<1>9. CASE Goto("sync") /\ file' = file /\ w' = w
  <2>1. JobShape(io') /\ WriterInv(w, io', q)
    BY <1>1, <1>2, <1>5, <1>9, GotoKeeps
  <2> QED
    BY <2>1, <1>1, <1>3, <1>7, <1>9 DEF Inv
<1>10. CASE /\ file' = [file EXCEPT !.tail = NoBatch] /\ w' = w
            /\ Goto(IF st.mut.open THEN "intent" ELSE "rename")
  <2>1. PICK s : s = IF st.mut.open THEN "intent" ELSE "rename"
    OBVIOUS
  <2>2. Goto(s)
    BY <2>1, <1>10
  <2>3. JobShape(io') /\ WriterInv(w, io', q)
    BY <2>2, <1>1, <1>2, <1>5, GotoKeeps
  <2> QED
    BY <2>3, <1>1, <1>3, <1>7, <1>8, <1>10 DEF Inv
<1>11. CASE Finally(Refused(w)) /\ file' = file
  <2>1. PICK x : x = Refused(w)
    OBVIOUS
  <2>2. WriterInv(w, io, q)
    BY <1>1, <1>2, <1>5, StepKeeps
  <2>3. Sound(x, Idle, q)
    BY <2>1, <2>2, <1>1, <1>2, RefusedKeeps
  <2>4. Shape(w') /\ JobShape(io') /\ WriterInv(w', io', q)
    BY <2>1, <2>3, <1>11, FinallyKeeps
  <2> QED
    BY <2>4, <1>1, <1>3, <1>7, <1>11 DEF Inv
<1>12. \/ Goto("sync") /\ file' = file /\ w' = w
       \/ /\ file' = [file EXCEPT !.tail = NoBatch] /\ w' = w
          /\ Goto(IF st.mut.open THEN "intent" ELSE "rename")
       \/ Finally(Refused(w)) /\ file' = file
  BY Zenon DEF ReplaceCheck
<1> QED
  BY <1>9, <1>10, <1>11, <1>12

(* Behind the check of a replacement there is a candidate. *)
LEMMA CandidateThere ==
  ASSUME Inv, io.job = "replace", io.step # "candidate"
  PROVE  st.pending # NoPending
BY DEF Inv, WriterInv, Flow, ReplaceAhead

LEMMA ReplaceWriteKeeps ==
  ASSUME Inv, ReplaceIntent \/ ReplaceRename
  PROVE  Inv'
<1>1. /\ JobShape(io) /\ Shape(w) /\ WriterInv(w, io, st.pending) /\ StorageShape(st)
      /\ FileShape(file) /\ gens \in Nat
  BY DEF Inv
<1>2. io.job = "replace" /\ io.step # "candidate" /\ io # Idle
  BY <1>1, JobFacts DEF ReplaceIntent, ReplaceRename, At
<1>3. w' = w /\ gens' = gens
  BY DEF ReplaceIntent, ReplaceRename, counts
<1>4. JobShape(io') /\ WriterInv(w, io', st.pending)
  <2>1. PICK s \in {"rename", "sync"} : Goto(s)
    BY DEF ReplaceIntent, ReplaceRename
  <2> QED
    BY <2>1, <1>1, <1>2, CandidateThere, GotoKeeps
<1>5. StorageShape(st') /\ st'.pending = st.pending
  <2>1. PICK m : st' = st \/ st' = [st EXCEPT !.mut = m]
    <3>1. CASE ReplaceIntent
      <4>1. PICK m : m = [st.mut EXCEPT !.target = Point(st.pending.gen, st.pending.rev)]
        OBVIOUS
      <4>2. st' = [st EXCEPT !.mut = m]
        BY <4>1, <3>1 DEF ReplaceIntent
      <4> QED
        BY <4>2
    <3>2. CASE ReplaceRename
      BY <3>2 DEF ReplaceRename
    <3> QED
      BY <3>1, <3>2
  <2> QED
    BY <2>1, <1>1 DEF StorageShape
<1>6. FileShape(file')
  <2>1. CASE ReplaceIntent
    BY <2>1, <1>1 DEF ReplaceIntent
  <2>2. CASE ReplaceRename
    <3>1. file' = Transcript("v2", st.pending.gen, st.pending.rev, st.pending.ops)
      BY <2>2 DEF ReplaceRename
    <3>2. st.pending.rev \in Nat
      BY InvSound
    <3> QED
      BY <3>1, <3>2, FreshFile
  <2> QED
    BY <2>1, <2>2
<1> QED
  BY <1>1, <1>3, <1>4, <1>5, <1>6 DEF Inv

LEMMA PublishKeeps ==
  ASSUME Inv, Publish
  PROVE  Inv'
<1>1. JobShape(io) /\ Shape(w) /\ WriterInv(w, io, st.pending)
  BY DEF Inv
<1>2. io.step = "sync"
  BY DEF Publish
<1>3. io # Idle /\ io.job # "none" /\ io.job \in {"append", "replace"}
  <2>1. io # Idle
    BY <1>2 DEF Idle
  <2> QED
    BY <2>1, <1>1, JobFacts DEF JobShape
<1>4. PICK m : m = meta'
  OBVIOUS
<1>5. io' = [io EXCEPT !.step = "indexed", !.patch = m, !.keys = st.pend]
  BY <1>4 DEF Publish
<1>6. /\ JobShape(io') /\ io'.job = io.job /\ io'.batch = io.batch /\ io'.rev = io.rev
      /\ io'.recover = io.recover
  BY <1>1, <1>3, <1>5 DEF JobShape
<1>7. io.job = "append" \/ st.pending # NoPending
  BY <1>2, <1>3, CandidateThere
<1>8. WriterInv(w, io', st.pending)
  BY <1>1, <1>3, <1>6, <1>7, StepKeeps
<1>9. w' = w /\ st' = st /\ file' = file /\ gens' = gens
  BY DEF Publish, counts
<1> QED
  BY <1>6, <1>8, <1>9 DEF Inv

LEMMA CommitKeeps ==
  ASSUME Inv, Commit
  PROVE  Inv'
<1> DEFINE p == st.pending
<1>1. /\ JobShape(io) /\ Shape(w) /\ WriterInv(w, io, p) /\ StorageShape(st)
      /\ FileShape(file) /\ gens \in Nat /\ p.rev \in Nat
  BY InvSound DEF Inv
<1>2. io.step \in {"sync", "indexed"}
  BY DEF Commit
<1>3. io # Idle /\ io.job \in {"append", "replace"}
  <2>1. io # Idle
    BY <1>2 DEF Idle
  <2> QED
    BY <2>1, <1>1, JobFacts DEF JobShape
<1>4. io.job = "append" \/ p # NoPending
  BY <1>2, <1>3, CandidateThere
<1>5. PICK c : c = Committed
  OBVIOUS
<1>6. /\ c.rev \in Nat
      /\ \/ io.job = "append" /\ c.rev = io.batch.to
         \/ io.job = "replace" /\ p # NoPending /\ c.rev = p.rev
  BY <1>1, <1>3, <1>4, <1>5, JobFacts DEF Committed, Point
<1>7. PICK s \in {st, Adopted} : Settle(s)
  BY DEF Commit
<1>8. StorageShape(s)
  <2>1. CASE s = Adopted
    <3>1. PICK left, row, mut : s = [st EXCEPT !.published = TRUE, !.pend = left,
                                               !.cur = row, !.mut = mut]
      BY <2>1 DEF Adopted
    <3> QED
      BY <3>1, <1>1 DEF StorageShape
  <2> QED
    BY <2>1, <1>1, <1>7
<1>9. StorageShape(st') /\ st'.pending = NoPending
  <2>1. PICK n : n = Len(file.rows)
    OBVIOUS
  <2>2. n \in Nat
    BY <2>1, <1>1, TidyBasics DEF FileShape
  <2>3. PICK created : created = IF io.job = "append" THEN FALSE ELSE s.created
    OBVIOUS
  <2>4. PICK none : none = NoPending
    OBVIOUS
  <2>5. none \in [gen : {none.gen}, rev : Nat, ops : {none.ops}, empty : {none.empty},
                  expected : {none.expected}]
    <3>1. PICK e : e = <<>>
      OBVIOUS
    <3>2. none = [gen |-> 0, rev |-> 0, ops |-> e, empty |-> FALSE, expected |-> Point(0, 0)]
      BY <3>1, <2>4 DEF NoPending
    <3> QED
      BY <3>2
  <2>6. st' = [s EXCEPT !.cursor = [gen |-> c.gen, rev |-> c.rev, size |-> n],
                        !.created = created, !.pending = none]
    BY <2>1, <2>3, <2>4, <1>5, <1>7 DEF Settle, Landed
  <2> QED
    BY <2>2, <2>4, <2>5, <2>6, <1>8 DEF StorageShape
<1>10. Shape(w') /\ JobShape(io') /\ WriterInv(w', io', NoPending)
  <2>1. CASE Finally(Succeeded(w, Committed))
    <3>1. PICK x : x = Succeeded(w, c)
      OBVIOUS
    <3>2. Sound(x, Idle, NoPending)
      BY <3>1, <1>1, <1>3, <1>6, SucceededKeeps
    <3> QED
      BY <3>1, <3>2, <2>1, <1>5, FinallyKeeps
  <2>2. CASE io.job = "append" /\ Finally(Failed(w))
    <3>1. PICK x : x = Failed(w)
      OBVIOUS
    <3>2. Sound(x, Idle, NoPending)
      BY <3>1, <2>2, <1>1, <1>3, FailedKeeps
    <3> QED
      BY <3>1, <3>2, <2>2, FinallyKeeps
  <2> QED
    BY <2>1, <2>2, <1>7 DEF Settle
<1>11. file' = file /\ gens' = gens
  BY DEF Commit, disk
<1> QED
  BY <1>1, <1>9, <1>10, <1>11 DEF Inv

-----------------------------------------------------------------------------
(* The owner comes and goes.                                               *)

LEMMA InstanceSound ==
  ASSUME NEW gen, NEW rev \in Nat, NEW messages
  PROVE  /\ Sound(Instance(gen, rev, messages), Idle, NoPending)
         /\ WriterInv(Instance(gen, rev, messages), Idle, NoPending)
<1>1. PICK x : x = Instance(gen, rev, messages)
  OBVIOUS
<1>2. PICK e : e = <<>>
  OBVIOUS
<1>3. Tidy(e) /\ Len(e) = 0
  BY <1>2, EmptyTidy
<1>4. x = [phase |-> "active", gen |-> gen, recovery |-> 0, proj |-> messages, queue |-> e,
           baseline |-> FALSE, complete |-> TRUE, retiring |-> FALSE, blocked |-> FALSE,
           attempted |-> FALSE, emptyPending |-> FALSE, retryBatch |-> NoBatch,
           retrying |-> FALSE, timer |-> "off", watch |-> FALSE, state |-> "healthy",
           live |-> rev, durable |-> rev]
  BY <1>1, <1>2 DEF Instance, Cold
<1>5. Shape(x)
  BY <1>3, <1>4, IdleFacts DEF Shape, Writer
<1>6. Flow(x, Idle, NoPending)
  BY <1>3, <1>4, IdleFacts
     DEF Flow, QueueAhead, RetryAhead, AppendAhead, ReplaceAhead, PendingAhead
<1>7. Covered(x, Idle) /\ Recovered(x) /\ Told(x)
  BY <1>2, <1>4 DEF Covered, Recovered, Told
<1>8. TimerHonest(x, Idle) /\ TimerArmed(x, Idle) /\ Cleared(x, Idle, NoPending)
  BY <1>2, <1>4 DEF TimerHonest, TimerArmed, HasWork, Cleared
<1> QED
  BY <1>1, <1>5, <1>6, <1>7, <1>8 DEF Sound, WriterInv

(* What a new instance knows of the file. *)
LEMMA FreshStorage ==
  StorageShape(NoStorage) /\ NoStorage.pending = NoPending /\ NoPending.rev = 0
<1>1. PICK e : e = <<>>
  OBVIOUS
<1>2. PICK none : none = NoPending
  OBVIOUS
<1>3. none = [gen |-> 0, rev |-> 0, ops |-> e, empty |-> FALSE, expected |-> Point(0, 0)]
  BY <1>1, <1>2 DEF NoPending
<1>4. PICK s : s = NoStorage
  OBVIOUS
<1>5. PICK birth, mut : /\ birth = Birth /\ mut = NoMutation
  OBVIOUS
<1>6. s = [cursor |-> [gen |-> 0, rev |-> 0, size |-> 0], created |-> FALSE,
           pending |-> none, coldTail |-> FALSE, allowCreate |-> FALSE,
           cur |-> birth, pend |-> {}, published |-> FALSE, mut |-> mut]
  BY <1>2, <1>4, <1>5 DEF NoStorage
<1>7. StorageShape(s)
  BY <1>3, <1>6 DEF StorageShape
<1> QED
  BY <1>2, <1>3, <1>4, <1>6, <1>7

(* Nothing is in flight and nothing is left over while there is no owner. *)
LEMMA ColdFacts ==
  ASSUME Inv, w.phase = "cold"
  PROVE  io = Idle /\ st.pending = NoPending
BY DEF Inv, WriterInv, Cleared

LEMMA CreateKeeps ==
  ASSUME Inv, Create
  PROVE  Inv'
<1>1. io = Idle /\ JobShape(io) /\ FileShape(file) /\ gens \in Nat
  BY ColdFacts DEF Create, Inv
<1>2. io' = io /\ file' = file /\ gens' \in Nat
  BY <1>1 DEF Create
<1>3. StorageShape(st') /\ st'.pending = NoPending
  BY FreshStorage DEF Create, StorageShape
<1>4. PICK x : x = Instance(gens', 0, <<>>)
  OBVIOUS
<1>5. Sound(x, io, NoPending)
  BY <1>1, <1>4, InstanceSound
<1>6. w' = RequestCommit(x)
  BY <1>4 DEF Create
<1>7. Shape(w') /\ WriterInv(w', io, NoPending)
  BY <1>1, <1>5, <1>6, FreshStorage, RequestKeeps
<1> QED
  BY <1>1, <1>2, <1>3, <1>7 DEF Inv

LEMMA ActivateKeeps ==
  ASSUME Inv, Activate
  PROVE  Inv'
<1>1. io = Idle /\ JobShape(io) /\ FileShape(file) /\ gens \in Nat
  BY ColdFacts DEF Activate, Inv
<1>2. io' = io /\ file' = file /\ gens' = gens
  BY DEF Activate
<1>3. PICK rev, msgs : rev = Revision(file) /\ msgs = Content(file)
  OBVIOUS
<1>4. rev \in Nat
  BY <1>1, <1>3, RevisionShape
<1>5. PICK x : x = Instance(file.gen, rev, msgs)
  OBVIOUS
<1>6. Sound(x, io, NoPending) /\ WriterInv(x, io, NoPending)
  BY <1>1, <1>4, <1>5, InstanceSound
<1>7. StorageShape(st') /\ st'.pending = NoPending
  <2>1. PICK tail, row, keys :
          st' = [NoStorage EXCEPT !.coldTail = tail, !.published = TRUE, !.cur = row,
                                  !.pend = keys]
    <3>1. PICK tail, row : /\ tail = (TailState(file) = "incomplete")
                           /\ row = [Resolved(meta, file) EXCEPT !.stats = Len(Content(file))]
      OBVIOUS
    <3>2. PICK s : s = [NoStorage EXCEPT !.coldTail = tail, !.published = TRUE, !.cur = row]
      OBVIOUS
    <3>3. st' = [s EXCEPT !.pend = {"stats"}] \/ st' = [s EXCEPT !.pend = Keys]
      BY <3>1, <3>2, Zenon DEF Activate
    <3>4. PICK keys : st' = [s EXCEPT !.pend = keys]
      BY <3>3
    <3> QED
      BY <3>2, <3>4 DEF NoStorage
  <2> QED
    BY <2>1, FreshStorage DEF StorageShape
<1>8. Shape(w') /\ WriterInv(w', io, NoPending)
  <2>1. w' = x \/ w' = RequestCommit(x)
    BY <1>3, <1>5, Zenon DEF Activate
  <2>2. CASE w' = x
    BY <2>2, <1>6 DEF Sound
  <2>3. CASE w' = RequestCommit(x)
    BY <2>3, <1>1, <1>6, FreshStorage, RequestKeeps
  <2> QED
    BY <2>1, <2>2, <2>3
<1> QED
  BY <1>1, <1>2, <1>7, <1>8 DEF Inv

LEMMA ActivateDamagedKeeps ==
  ASSUME Inv, ActivateDamaged
  PROVE  Inv'
<1>1. io = Idle /\ JobShape(io) /\ FileShape(file) /\ gens \in Nat
  BY ColdFacts DEF ActivateDamaged, Inv
<1>2. io' = io /\ file' = file /\ gens' \in Nat
  BY <1>1 DEF ActivateDamaged
<1>3. StorageShape(st') /\ st'.pending = NoPending
  BY FreshStorage DEF ActivateDamaged, StorageShape
<1>4. PICK x : x = Instance(gens', 0, <<>>)
  OBVIOUS
<1>5. Sound(x, io, NoPending) /\ WriterInv(x, io, NoPending)
  BY <1>1, <1>4, InstanceSound
<1>6. x \in Writer(x)
  BY <1>5 DEF Sound, Shape
<1>7. w' = [x EXCEPT !.complete = FALSE, !.blocked = TRUE,
                     !.recovery = Highest(x.recovery, x.live), !.state = "degraded"]
  BY <1>4, <1>6 DEF ActivateDamaged, Fail, Writer
<1>8. Highest(x.recovery, x.live) \in Nat
  BY <1>6 DEF Highest, Writer
<1>9. w' \in Writer(w')
  BY <1>6, <1>7, <1>8 DEF Writer
<1>10. /\ w'.live = x.live /\ w'.durable = x.durable /\ w'.queue = x.queue
       /\ w'.retryBatch = x.retryBatch /\ w'.phase = x.phase
       /\ w'.retiring = x.retiring /\ w'.timer = x.timer /\ w'.baseline = x.baseline
       /\ w'.blocked /\ w'.state = "degraded"
  BY <1>6, <1>7 DEF Writer
<1>11. Shape(x) /\ NoPending.rev \in Nat
  BY <1>5, FreshStorage DEF Sound
<1>12. Shape(w') /\ WriterInv(w', io, NoPending)
  BY <1>1, <1>5, <1>9, <1>10, <1>11, BlockedKeeps
<1> QED
  BY <1>1, <1>2, <1>3, <1>12 DEF Inv

LEMMA RetireKeeps ==
  ASSUME Inv, Retire
  PROVE  Inv'
<1> DEFINE p == st.pending
<1>1. w \in Writer(w) /\ Shape(w) /\ WriterInv(w, io, p)
  BY DEF Inv, Shape
<1>2. w' = [w EXCEPT !.retiring = TRUE, !.timer = "off"]
  BY DEF Retire
<1>3. /\ w'.queue = w.queue /\ w'.retryBatch = w.retryBatch /\ w'.live = w.live
      /\ w'.durable = w.durable /\ w'.baseline = w.baseline
      /\ w'.blocked = w.blocked /\ w'.phase = w.phase /\ w'.state = w.state
      /\ w'.recovery = w.recovery /\ w'.watch = w.watch
      /\ w'.retiring = TRUE /\ w'.timer = "off"
  BY <1>1, <1>2 DEF Writer
<1>4. Shape(w')
  <2>1. w' \in Writer(w')
    BY <1>1, <1>2 DEF Writer
  <2> QED
    BY <2>1, <1>1, <1>3 DEF Shape
<1>5. /\ Flow(w', io, p) /\ Covered(w', io) /\ Recovered(w') /\ Told(w')
      /\ Cleared(w', io, p)
  BY <1>1, <1>3 DEF WriterInv, Flow, QueueAhead, RetryAhead, AppendAhead, ReplaceAhead,
                    PendingAhead, Precedes, Covered, Recovered, Told, Cleared
<1>6. TimerHonest(w', io) /\ TimerArmed(w', io)
  BY <1>3 DEF TimerHonest, TimerArmed, Free
<1>7. st' = st /\ file' = file /\ gens' = gens /\ io' = io
  BY DEF Retire, disk, counts
<1> QED
  BY <1>4, <1>5, <1>6, <1>7 DEF Inv, WriterInv

LEMMA RetireTimeoutKeeps ==
  ASSUME Inv, RetireTimeout
  PROVE  Inv'
<1> DEFINE p == st.pending
<1>1. w \in Writer(w) /\ Shape(w) /\ WriterInv(w, io, p) /\ JobShape(io)
  BY DEF Inv, Shape
<1>2. PICK x : x = [w EXCEPT !.retiring = FALSE]
  OBVIOUS
<1>3. /\ x.queue = w.queue /\ x.retryBatch = w.retryBatch /\ x.live = w.live
      /\ x.durable = w.durable /\ x.baseline = w.baseline
      /\ x.blocked = w.blocked /\ x.phase = w.phase /\ x.state = w.state
      /\ x.recovery = w.recovery /\ x.watch = w.watch /\ x.timer = w.timer
  BY <1>1, <1>2 DEF Writer
<1>4. Shape(x)
  <2>1. x \in Writer(x)
    BY <1>1, <1>2 DEF Writer
  <2> QED
    BY <2>1, <1>1, <1>3 DEF Shape
<1>5. /\ Flow(x, io, p) /\ Covered(x, io) /\ Recovered(x) /\ Told(x)
      /\ Cleared(x, io, p)
  BY <1>1, <1>3 DEF WriterInv, Flow, QueueAhead, RetryAhead, AppendAhead, ReplaceAhead,
                    PendingAhead, Precedes, Covered, Recovered, Told, Cleared
<1>6. TimerHonest(x, io)
  <2>1. w.timer # "armed"
    BY <1>1 DEF RetireTimeout, WriterInv, TimerHonest, Free
  <2> QED
    BY <2>1, <1>3 DEF TimerHonest
<1>7. Sound(x, io, p)
  BY <1>4, <1>5, <1>6 DEF Sound
<1>8. w' = Schedule(x, FALSE, io # Idle)
  BY <1>2 DEF RetireTimeout, Busy
<1>9. Shape(w') /\ WriterInv(w', io, p)
  BY <1>1, <1>5, <1>7, <1>8, ScheduleKeeps
<1>10. st' = st /\ file' = file /\ gens' = gens /\ io' = io
  BY DEF RetireTimeout, disk, counts
<1> QED
  BY <1>9, <1>10 DEF Inv

LEMMA RevokeKeeps ==
  ASSUME Inv, Revoke
  PROVE  Inv'
<1> DEFINE p == st.pending
<1>1. w \in Writer(w) /\ Shape(w) /\ WriterInv(w, io, p)
  BY DEF Inv, Shape
<1>2. PICK e : e = <<>>
  OBVIOUS
<1>3. Tidy(e) /\ Len(e) = 0
  BY <1>2, EmptyTidy
<1>4. w' = [w EXCEPT !.phase = "closed", !.timer = "off", !.watch = FALSE, !.queue = e]
  BY <1>2 DEF Revoke
<1>5. /\ w'.queue = e /\ w'.retryBatch = w.retryBatch /\ w'.live = w.live
      /\ w'.durable = w.durable /\ w'.phase = "closed" /\ w'.timer = "off"
  BY <1>1, <1>4 DEF Writer
<1>6. Shape(w')
  <2>1. w' \in Writer(w')
    BY <1>1, <1>4 DEF Writer
  <2> QED
    BY <2>1, <1>1, <1>3, <1>5 DEF Shape
<1>7. Flow(w', io, p)
  BY <1>1, <1>3, <1>5 DEF WriterInv, Flow, QueueAhead, RetryAhead, AppendAhead,
                          ReplaceAhead, PendingAhead, Precedes
<1>8. /\ Covered(w', io) /\ Recovered(w') /\ Told(w') /\ Cleared(w', io, p)
      /\ TimerHonest(w', io) /\ TimerArmed(w', io)
  BY <1>5 DEF Covered, Recovered, Told, Cleared, TimerHonest, TimerArmed, Free
<1>9. st' = st /\ file' = file /\ gens' = gens /\ io' = io
  BY DEF Revoke, disk, counts
<1> QED
  BY <1>6, <1>7, <1>8, <1>9 DEF Inv, WriterInv

LEMMA ColdSound ==
  ASSUME NEW live \in Nat, NEW durable \in Nat, durable <= live
  PROVE  LET x == [Cold EXCEPT !.live = live, !.durable = durable]
         IN  Shape(x) /\ WriterInv(x, Idle, NoPending)
<1>1. PICK x : x = [Cold EXCEPT !.live = live, !.durable = durable]
  OBVIOUS
<1>2. PICK e : e = <<>>
  OBVIOUS
<1>3. Tidy(e) /\ Len(e) = 0
  BY <1>2, EmptyTidy
<1>4. x = [phase |-> "cold", gen |-> 0, recovery |-> 0, proj |-> e, queue |-> e,
           baseline |-> FALSE, complete |-> TRUE, retiring |-> FALSE, blocked |-> FALSE,
           attempted |-> FALSE, emptyPending |-> FALSE, retryBatch |-> NoBatch,
           retrying |-> FALSE, timer |-> "off", watch |-> FALSE, state |-> "healthy",
           live |-> live, durable |-> durable]
  BY <1>1, <1>2 DEF Cold
<1>5. Shape(x)
  BY <1>3, <1>4, IdleFacts DEF Shape, Writer
<1>6. Flow(x, Idle, NoPending)
  BY <1>3, <1>4, IdleFacts
     DEF Flow, QueueAhead, RetryAhead, AppendAhead, ReplaceAhead, PendingAhead
<1>7. /\ Covered(x, Idle) /\ Recovered(x) /\ Told(x) /\ TimerHonest(x, Idle)
      /\ TimerArmed(x, Idle) /\ Cleared(x, Idle, NoPending)
  BY <1>4 DEF Covered, Recovered, Told, TimerHonest, TimerArmed, Free, Cleared
<1> QED
  BY <1>1, <1>5, <1>6, <1>7 DEF WriterInv

LEMMA EndKeeps ==
  ASSUME Inv, RetireSettled \/ Exit
  PROVE  Inv'
<1>1. io' = Idle /\ JobShape(Idle)
  BY DEF RetireSettled, Exit, Busy, JobShape, Idle, NoBatch, Batch
<1>2. w' = [Cold EXCEPT !.live = w.live, !.durable = w.durable] /\ st' = NoStorage
  BY DEF RetireSettled, Exit, Ended
<1>3. w.live \in Nat /\ w.durable \in Nat /\ w.durable <= w.live
  BY DEF Inv, Shape, Writer, WriterInv, Flow, QueueAhead
<1>4. Shape(w') /\ WriterInv(w', Idle, NoPending)
  BY <1>2, <1>3, ColdSound
<1>5. file' = file /\ gens' = gens /\ FileShape(file) /\ gens \in Nat
  BY DEF RetireSettled, Exit, disk, counts, Inv
<1> QED
  BY <1>1, <1>2, <1>4, <1>5, FreshStorage DEF Inv

-----------------------------------------------------------------------------
(* Others.                                                                 *)

LEMMA IntrudeKeeps ==
  ASSUME Inv, NEW kind \in Intrusions, Intrude(kind)
  PROVE  Inv'
<1>1. w' = w /\ st' = st /\ io' = io /\ gens' = gens
  BY DEF Intrude, counts
<1>2. FileShape(file)
  BY DEF Inv
<1>3. FileShape(file')
  <2>1. kind \in {"empty", "header", "row"}
    BY BoundsAssumption
  <2>2. CASE kind = "empty"
    <3>1. file' = Transcript("empty", 0, 0, <<>>)
      BY <2>2 DEF Intrude
    <3> QED
      BY <3>1, FreshFile
  <2>3. CASE kind = "header"
    <3>1. file' = Transcript("v2", 0, 0, <<>>)
      BY <2>3 DEF Intrude
    <3> QED
      BY <3>1, FreshFile
  <2>4. CASE kind = "row"
    <3>1. PICK b : b = ForeignBatch(file)
      OBVIOUS
    <3>2. b.to \in Nat
      BY <3>1, <1>2, RevisionShape DEF ForeignBatch, Batch
    <3>3. file' = [file EXCEPT !.rows = Append(file.rows, b)]
      BY <2>4, <3>1 DEF Intrude
    <3>4. file' = [file EXCEPT !.rows = Append(file.rows, b), !.tail = file.tail]
      BY <3>3, <1>2 DEF FileShape
    <3> QED
      BY <3>2, <3>4, <1>2, GrownFile
  <2> QED
    BY <2>1, <2>2, <2>3, <2>4
<1> QED
  BY <1>1, <1>3 DEF Inv

-----------------------------------------------------------------------------
LEMMA InitInv ==
  ASSUME Init
  PROVE  Inv
<1>1. w = Cold /\ st = NoStorage /\ io = Idle /\ gens = 0 /\ file = NoFile
  BY DEF Init
<1>2. PICK zero \in Nat : zero = 0
  OBVIOUS
<1>3. Shape(w) /\ WriterInv(w, Idle, NoPending)
  <2> DEFINE x == [Cold EXCEPT !.live = zero, !.durable = zero]
  <2>1. Shape(x) /\ WriterInv(x, Idle, NoPending)
    <3>1. zero <= zero
      BY <1>2
    <3> QED
      BY <3>1, ColdSound
  <2>2. PICK e : e = <<>>
    OBVIOUS
  <2>3. PICK none : none = NoBatch
    OBVIOUS
  <2>4. w = x
    <3>1. PICK y : y = x
      OBVIOUS
    <3>2. w = y
      BY <3>1, <1>1, <1>2, <2>2, <2>3 DEF Cold
    <3> QED
      BY <3>1, <3>2
  <2> QED
    BY <2>1, <2>4
<1>4. JobShape(Idle)
  BY DEF JobShape, Idle, NoBatch, Batch
<1>5. FileShape(file)
  BY <1>1, FreshFile DEF NoFile
<1> QED
  BY <1>1, <1>3, <1>4, <1>5, FreshStorage DEF Inv

LEMMA NextInv ==
  ASSUME Inv, [Next]_vars
  PROVE  Inv'
<1>1. CASE Observe \/ ObserveFault \/ PatchMetadata
  BY <1>1, ObserveKeeps, ObserveFaultKeeps, PatchKeeps
<1>2. CASE \E n \in 0 .. MaxRevision : Rewind(n)
  BY <1>2, RewindKeeps
<1>3. CASE TimerFire \/ Flush \/ HealthTimeout
  BY <1>3, TimerFireKeeps, HealthTimeoutKeeps
<1>4. CASE IoStep \/ IoFail
  <2>1. CASE AppendCreate \/ AppendHeader \/ AppendCheck \/ AppendPart \/ AppendRow
    BY <2>1, AppendOpenKeeps, AppendCheckKeeps, AppendWriteKeeps
  <2>2. CASE ReplaceCheck \/ ReplaceIntent \/ ReplaceRename
    BY <2>2, ReplaceCheckKeeps, ReplaceWriteKeeps
  <2>3. CASE Publish \/ Commit \/ IoFail
    BY <2>3, PublishKeeps, CommitKeeps, IoFailKeeps
  <2> QED
    BY <1>4, <2>1, <2>2, <2>3 DEF IoStep
<1>5. CASE Create \/ Activate \/ ActivateDamaged
  BY <1>5, CreateKeeps, ActivateKeeps, ActivateDamagedKeeps
<1>6. CASE Retire \/ RetireSettled \/ RetireTimeout \/ Revoke \/ Exit
  BY <1>6, RetireKeeps, RetireTimeoutKeeps, RevokeKeeps, EndKeeps
<1>7. CASE ForeignEdit
  BY <1>7 DEF ForeignEdit, Inv
<1>8. CASE \E kind \in Intrusions : Intrude(kind)
  BY <1>8, IntrudeKeeps
<1>9. CASE UNCHANGED vars
  BY <1>9 DEF vars, Inv
<1> QED
  BY <1>1, <1>2, <1>3, <1>4, <1>5, <1>6, <1>7, <1>8, <1>9 DEF Next

LEMMA Invariance == Spec => []Inv
<1>1. Init => Inv
  BY InitInv
<1>2. Inv /\ [Next]_vars => Inv'
  BY NextInv
<1> QED
  BY <1>1, <1>2, PTL DEF Spec

-----------------------------------------------------------------------------
(* One write that succeeds does not end an incident: the state of the      *)
(* writer is healthy only when everything that was there when the incident *)
(* began, or arrived before its last failure, has been saved               *)
(* (recoveryRevision of writer.ts).                                        *)
THEOREM RecoveryCovers == Spec => []RecoveryCoversTheGap
<1>1. Inv => RecoveryCoversTheGap
  BY DEF Inv, WriterInv, Recovered, RecoveryCoversTheGap, Active
<1> QED
  BY <1>1, Invariance, PTL

(* Whenever a usable writer is idle with something unsaved, its timer is   *)
(* armed and there is something for it to write, whatever was refused,     *)
(* failed, merged, rewound or retired before; and the user knows, or a     *)
(* watch is going to tell (schedule and watchHealth of writer.ts).         *)
THEOREM UnsavedScheduled == Spec => []UnsavedIsScheduled
<1>1. Inv => UnsavedIsScheduled
  <2>1. SUFFICES ASSUME Inv, w.phase = "active", ~w.retiring, ~w.blocked, io = Idle,
                        w.durable < w.live
                 PROVE  /\ w.timer = "armed" /\ HasWork(w)
                        /\ w.watch \/ w.state = "degraded"
    BY DEF UnsavedIsScheduled, Active, Busy
  <2>2. w.live \in Nat /\ w.durable \in Nat /\ WriterInv(w, io, st.pending)
    BY <2>1 DEF Inv, Shape, Writer
  <2>3. w.baseline \/ w.queue # <<>> \/ w.retryBatch # NoBatch
    BY <2>1, <2>2, IdleFacts DEF WriterInv, Covered
  <2>4. HasWork(w)
    BY <2>3 DEF HasWork
  <2>5. w.timer = "armed"
    BY <2>1, <2>2, <2>4, IdleFacts DEF WriterInv, TimerArmed, Free
  <2>6. w.watch \/ w.state = "degraded"
    BY <2>1, <2>2 DEF WriterInv, Told
  <2> QED
    BY <2>4, <2>5, <2>6
<1> QED
  BY <1>1, Invariance, PTL

(* What is reported as saved never runs ahead of the conversation, and     *)
(* what waits to be saved lies strictly between the two, in the order in   *)
(* which it was said.                                                      *)
THEOREM QueueStaysAhead == Spec => []QueueAhead(w)
<1>1. Inv => QueueAhead(w)
  BY DEF Inv, WriterInv, Flow
<1> QED
  BY <1>1, Invariance, PTL
=============================================================================
