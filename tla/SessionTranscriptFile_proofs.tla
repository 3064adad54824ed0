-------------------- MODULE SessionTranscriptFile_proofs --------------------
(***************************************************************************)
(* What the file of a Session contains, for every bound and every history: *)
(* Certain is inductive, and with it what was reported is saved on disk,  *)
(* a row of another program is never lost, recording only ends for a cause *)
(* and the transcript keeps what TranscriptPromise promises.               *)
(***************************************************************************)
EXTENDS SessionTranscript_proofs

-----------------------------------------------------------------------------
(* FlattenSeq.  The library's induction takes a predicate; here the set of *)
(* the numbers that have the property does.                                *)

LEMMA Counting ==
  ASSUME NEW S, 0 \in S, \A n \in Nat : n \in S => n + 1 \in S
  PROVE  Nat \subseteq S
<1> DEFINE T == {n \in Nat : n \notin S}
<1> SUFFICES ASSUME T # {} PROVE FALSE
  OBVIOUS
<1>1. T \subseteq Nat
  OBVIOUS
<1>2. PICK k \in T : \A j \in T : ~(<<j, k>> \in OpToRel(<, Nat))
  <2> HIDE DEF T
  <2> QED  BY <1>1, NatLessThanWellFounded, WFMin
<1>3. k \in Nat /\ k # 0 /\ k - 1 \in Nat
  OBVIOUS
<1>4. k - 1 \in S
  <2> SUFFICES ASSUME k - 1 \in T PROVE FALSE
    BY <1>3
  <2>1. <<k - 1, k>> \in OpToRel(<, Nat)
    BY <1>3 DEF OpToRel
  <2> QED  BY <1>2, <2>1
<1>5. (k - 1) + 1 = k
  BY <1>3
<1> QED  BY <1>3, <1>4, <1>5

(* f is the fold FlattenSeq makes of the first n members of g. *)
Folds0(f, g, n) ==
  f = [i \in 1 .. n |-> IF i = 1 THEN g[i] ELSE f[i - 1] \o g[i]]

LEMMA FoldExists ==
  ASSUME NEW g
  PROVE  \A n \in Nat : \E f : Folds0(f, g, n)
<1> DEFINE S == {n \in Nat : \E f : Folds0(f, g, n)}
<1>1. 0 \in S
  <2>1. PICK f : f = [i \in 1 .. 0 |-> g[i]]
    OBVIOUS
  <2>2. f = [i \in 1 .. 0 |-> IF i = 1 THEN g[i] ELSE f[i - 1] \o g[i]]
    BY <2>1
  <2>3. Folds0(f, g, 0)
    BY <2>2 DEF Folds0
  <2> QED  BY <2>3
<1>2. ASSUME NEW n \in Nat, n \in S
      PROVE  n + 1 \in S
  <2>1. PICK f : Folds0(f, g, n)
    BY <1>2
  <2>2. PICK h : h = [i \in 1 .. n + 1 |->
                        IF i = n + 1 THEN (IF i = 1 THEN g[i] ELSE f[n] \o g[i]) ELSE f[i]]
    OBVIOUS
  <2>3. \A i \in 1 .. n : f[i] = IF i = 1 THEN g[i] ELSE f[i - 1] \o g[i]
    BY <2>1 DEF Folds0
  <2>4. \A i \in 1 .. n + 1 : h[i] = IF i = 1 THEN g[i] ELSE h[i - 1] \o g[i]
    <3> TAKE i \in 1 .. n + 1
    <3>1. CASE i = n + 1
      BY <3>1, <2>2
    <3>2. CASE i # n + 1
      <4>1. i \in 1 .. n /\ h[i] = f[i]
        BY <3>2, <2>2
      <4>2. i # 1 => i - 1 \in 1 .. n /\ h[i - 1] = f[i - 1]
        BY <4>1, <2>2
      <4> QED  BY <4>1, <4>2, <2>3
    <3> QED  BY <3>1, <3>2
  <2>5. h = [i \in 1 .. n + 1 |-> IF i = 1 THEN g[i] ELSE h[i - 1] \o g[i]]
    <3>1. h = [i \in 1 .. n + 1 |-> h[i]]
      BY <2>2
    <3> QED  BY <3>1, <2>4
  <2>6. Folds0(h, g, n + 1)
    BY <2>5 DEF Folds0
  <2> QED  BY <2>6
<1> HIDE DEF S
<1>3. Nat \subseteq S
  BY <1>1, <1>2, Counting
<1> QED  BY <1>3 DEF S

LEMMA FoldUnique ==
  ASSUME NEW g, NEW f, NEW h, NEW n \in Nat, NEW k \in Nat, n <= k,
         NEW G, \A i \in 1 .. n : G[i] = g[i],
         Folds0(f, g, n), Folds0(h, G, k)
  PROVE  \A i \in 1 .. n : f[i] = h[i]
<1> DEFINE S == {i \in Nat : i \in 1 .. n => f[i] = h[i]}
<1>1. 0 \in S
  OBVIOUS
<1>2. ASSUME NEW i \in Nat, i \in S
      PROVE  i + 1 \in S
  <2> SUFFICES ASSUME i + 1 \in 1 .. n PROVE f[i + 1] = h[i + 1]
    OBVIOUS
  <2> DEFINE j == i + 1
  <2>1. f[j] = IF j = 1 THEN g[j] ELSE f[j - 1] \o g[j]
    BY DEF Folds0
  <2>2. h[j] = IF j = 1 THEN G[j] ELSE h[j - 1] \o G[j]
    <3>1. j \in 1 .. k
      OBVIOUS
    <3> QED  BY <3>1 DEF Folds0
  <2>3. j # 1 => f[j - 1] = h[j - 1]
    BY <1>2
  <2> QED  BY <2>1, <2>2, <2>3
<1> HIDE DEF S
<1>3. Nat \subseteq S
  BY <1>1, <1>2, Counting
<1> QED  BY <1>3 DEF S

LEMMA FlattenIsFold ==
  ASSUME NEW n \in Nat, n # 0, NEW g
  PROVE  \E f : Folds0(f, g, n) /\ FlattenSeq([i \in 1 .. n |-> g[i]]) = f[n]
<1> DEFINE s == [i \in 1 .. n |-> g[i]]
           F == CHOOSE f : f = [i \in 1 .. Len(s) |-> IF i = 1 THEN s[i] ELSE f[i - 1] \o s[i]]
<1>1. Len(s) = n
  OBVIOUS
<1>2. FlattenSeq(s) = F[n]
  BY <1>1 DEF FlattenSeq
<1>3. \E f : f = [i \in 1 .. Len(s) |-> IF i = 1 THEN s[i] ELSE f[i - 1] \o s[i]]
  <2> HIDE DEF s
  <2> QED  BY <1>1, FoldExists DEF Folds0
<1>4. F = [i \in 1 .. Len(s) |-> IF i = 1 THEN s[i] ELSE F[i - 1] \o s[i]]
  <2> HIDE DEF s
  <2> QED  BY <1>3
<1>5. F = [i \in 1 .. n |-> IF i = 1 THEN g[i] ELSE F[i - 1] \o g[i]]
  <2>1. \A i \in 1 .. n : s[i] = g[i]
    OBVIOUS
  <2> HIDE DEF s
  <2>2. F = [i \in 1 .. n |-> IF i = 1 THEN s[i] ELSE F[i - 1] \o s[i]]
    BY <1>1, <1>4
  <2> HIDE DEF F
  <2> QED  BY <2>1, <2>2
<1> HIDE DEF F
<1> QED  BY <1>2, <1>5 DEF Folds0

(* FlattenSeq, one member at a time. *)
LEMMA FlattenNone ==
  ASSUME NEW g
  PROVE  FlattenSeq([i \in 1 .. 0 |-> g[i]]) = <<>>
<1>1. PICK s : s = [i \in 1 .. 0 |-> g[i]]
  OBVIOUS
<1>2. s = <<>> /\ Len(s) = 0
  BY <1>1
<1> QED  BY <1>1, <1>2 DEF FlattenSeq

LEMMA FlattenMore ==
  ASSUME NEW n \in Nat, NEW g, NEW T, g[n + 1] \in Seq(T)
  PROVE  FlattenSeq([i \in 1 .. n + 1 |-> g[i]])
           = FlattenSeq([i \in 1 .. n |-> g[i]]) \o g[n + 1]
<1>1. PICK h : /\ Folds0(h, g, n + 1)
               /\ FlattenSeq([i \in 1 .. n + 1 |-> g[i]]) = h[n + 1]
  <2>1. n + 1 \in Nat /\ n + 1 # 0
    OBVIOUS
  <2> QED  BY <2>1, FlattenIsFold
<1>2. PICK k \in Nat : k = n + 1
  OBVIOUS
<1>3. h[k] = IF k = 1 THEN g[k] ELSE h[k - 1] \o g[k]
  <2>1. k \in 1 .. k
    BY <1>2
  <2>2. Folds0(h, g, k)
    BY <1>1, <1>2
  <2> QED  BY <2>1, <2>2 DEF Folds0
<1>4. k - 1 = n
  BY <1>2
<1>5. FlattenSeq([i \in 1 .. n + 1 |-> g[i]]) = h[k] /\ g[n + 1] = g[k] /\ g[k] \in Seq(T)
  BY <1>1, <1>2
<1>6. CASE n = 0
  <2>1. FlattenSeq([i \in 1 .. n |-> g[i]]) = <<>>
    BY <1>6, FlattenNone
  <2>2. h[k] = g[k]
    BY <1>2, <1>3, <1>6
  <2>3. <<>> \o g[k] = g[k]
    BY <1>5, ConcatEmptySeq
  <2> QED  BY <1>5, <2>1, <2>2, <2>3
<1>7. CASE n # 0
  <2>1. PICK f : Folds0(f, g, n) /\ FlattenSeq([i \in 1 .. n |-> g[i]]) = f[n]
    BY <1>7, FlattenIsFold
  <2>2. f[n] = h[n]
    <3>1. n + 1 \in Nat /\ n <= n + 1 /\ n \in 1 .. n
      BY <1>7
    <3>2. \A i \in 1 .. n : f[i] = h[i]
      BY <1>1, <2>1, <3>1, FoldUnique
    <3> QED  BY <3>1, <3>2
  <2>3. h[k] = h[n] \o g[k]
    <3>1. k # 1
      BY <1>2, <1>7
    <3>2. h[k] = h[k - 1] \o g[k]
      BY <1>3, <3>1
    <3> QED  BY <3>2, <1>4
  <2> QED  BY <1>5, <2>1, <2>2, <2>3
<1> QED  BY <1>6, <1>7

LEMMA FlattenType ==
  ASSUME NEW n \in Nat, NEW T, NEW g, \A i \in 1 .. n : g[i] \in Seq(T)
  PROVE  FlattenSeq([i \in 1 .. n |-> g[i]]) \in Seq(T)
<1> DEFINE S == {m \in Nat : m <= n => FlattenSeq([i \in 1 .. m |-> g[i]]) \in Seq(T)}
<1>1. 0 \in S
  BY FlattenNone, EmptySeq
<1>2. ASSUME NEW m \in Nat, m \in S
      PROVE  m + 1 \in S
  <2> SUFFICES ASSUME m + 1 <= n
               PROVE  FlattenSeq([i \in 1 .. m + 1 |-> g[i]]) \in Seq(T)
    OBVIOUS
  <2>1. FlattenSeq([i \in 1 .. m |-> g[i]]) \in Seq(T)
    BY <1>2
  <2>2. g[m + 1] \in Seq(T)
    OBVIOUS
  <2>3. FlattenSeq([i \in 1 .. m + 1 |-> g[i]])
          = FlattenSeq([i \in 1 .. m |-> g[i]]) \o g[m + 1]
    BY <2>2, FlattenMore
  <2> QED  BY <2>1, <2>2, <2>3, ConcatProperties
<1> HIDE DEF S
<1>3. Nat \subseteq S
  BY <1>1, <1>2, Counting
<1> QED  BY <1>3 DEF S
LEMMA Joined ==
  \A r, s, t \in Seq(Nat) : (r \o s) \o t = r \o (s \o t)
BY ConcatAssociative

-----------------------------------------------------------------------------
(* Files whose rows follow one another. *)

LEMMA WholeFile ==
  ASSUME NEW f, NEW g, NEW e, FileOk(f, g, e)
  PROVE  /\ Len(f.rows) \in Nat /\ f.rows = <<>> <=> Len(f.rows) = 0
         /\ \A i \in 1 .. Len(f.rows) : f.rows[i] \in BatchT
         /\ Valid(f) = Len(f.rows)
         /\ Revision(f) = Reach(f, Len(f.rows))
         /\ LastBatch(f) = IF f.rows = <<>> THEN NoBatch ELSE f.rows[Len(f.rows)]
         /\ TailState(f) = IF f.tail # NoBatch THEN "incomplete" ELSE "clean"
<1> DEFINE L == Len(f.rows)
           S == {n \in 0 .. L : \A i \in 1 .. n : Contiguous(f, i)}
<1>1. f.rows \in Seq(BatchT)
  BY DEF FileOk
<1>2. L \in Nat /\ (f.rows = <<>> <=> L = 0) /\ \A i \in 1 .. L : f.rows[i] \in BatchT
  BY <1>1, LenProperties, EmptySeq, ElementOfSeq
<1>3. L \in S /\ \A n \in S : n \in Nat /\ L >= n
  BY <1>2 DEF FileOk
<1>4. Max(S) = L
  <2> HIDE DEF S
  <2>1. Max(S) \in S /\ \A n \in S : Max(S) >= n
    BY <1>3 DEF Max
  <2> QED  BY <1>2, <1>3, <2>1
<1>5. Valid(f) = L
  BY <1>4 DEF Valid
<1> QED
  BY <1>2, <1>5 DEF Revision, Reach, LastBatch, TailState

LEMMA ReachNat ==
  ASSUME NEW f, NEW g, NEW e, FileOk(f, g, e), NEW n \in 0 .. Len(f.rows)
  PROVE  Reach(f, n) \in Nat
<1>1. n # 0 => f.rows[n] \in BatchT
  BY WholeFile
<1> QED  BY <1>1 DEF Reach, FileOk, BatchT

LEMMA ReachNext ==
  ASSUME NEW f, NEW g, NEW e, FileOk(f, g, e), NEW i \in 1 .. Len(f.rows)
  PROVE  /\ f.rows[i].from = Reach(f, i - 1) + 1 /\ f.rows[i].to = Reach(f, i)
         /\ Reach(f, i - 1) < Reach(f, i)
<1>1. Len(f.rows) \in Nat /\ i \in 0 .. Len(f.rows) /\ i - 1 \in 0 .. Len(f.rows) /\ i # 0
  BY WholeFile
<1>2. Reach(f, i) \in Nat /\ Reach(f, i - 1) \in Nat
  BY <1>1, ReachNat
<1>3. Contiguous(f, i)
  BY DEF FileOk
<1>4. Before(f, i) = Reach(f, i - 1) /\ Reach(f, i) = f.rows[i].to
  BY <1>1 DEF Before, Reach
<1> QED  BY <1>2, <1>3, <1>4 DEF Contiguous

(* The rows reach further and further. *)
LEMMA ReachGrows ==
  ASSUME NEW f, NEW g, NEW e, FileOk(f, g, e),
         NEW i \in 0 .. Len(f.rows), NEW k \in 0 .. Len(f.rows), i < k
  PROVE  Reach(f, i) < Reach(f, k)
<1> DEFINE L == Len(f.rows)
           S == {m \in Nat : \A n \in 0 .. L : (n < m /\ m <= L) => Reach(f, n) < Reach(f, m)}
<1>1. 0 \in S
  OBVIOUS
<1>2. ASSUME NEW m \in Nat, m \in S
      PROVE  m + 1 \in S
  <2> SUFFICES ASSUME NEW n \in 0 .. L, n < m + 1, m + 1 <= L
               PROVE  Reach(f, n) < Reach(f, m + 1)
    OBVIOUS
  <2>1. L \in Nat
    BY WholeFile
  <2>2. m + 1 \in 1 .. L /\ m \in 0 .. L /\ (m + 1) - 1 = m /\ m + 1 \in 0 .. L
    BY <2>1
  <2>3. Reach(f, m) < Reach(f, m + 1)
    BY <2>2, ReachNext
  <2>4. Reach(f, n) \in Nat /\ Reach(f, m) \in Nat /\ Reach(f, m + 1) \in Nat
    BY <2>2, ReachNat
  <2>5. n # m => Reach(f, n) < Reach(f, m)
    BY <1>2, <2>1, <2>2
  <2> HIDE DEF S, L
  <2> QED  BY <2>3, <2>4, <2>5
<1> HIDE DEF S
<1>3. Nat \subseteq S
  BY <1>1, <1>2, Counting
<1>4. L \in Nat
  BY WholeFile
<1>5. k \in S
  BY <1>3, <1>4
<1> QED  BY <1>4, <1>5 DEF S

LEMMA ReachOnce ==
  ASSUME NEW f, NEW g, NEW e, FileOk(f, g, e),
         NEW i \in 0 .. Len(f.rows), NEW k \in 0 .. Len(f.rows), Reach(f, i) = Reach(f, k)
  PROVE  i = k
<1>1. Len(f.rows) \in Nat /\ Reach(f, i) \in Nat /\ Reach(f, k) \in Nat
  BY WholeFile, ReachNat
<1>2. i \in Nat /\ k \in Nat
  BY <1>1
<1>3. ~(i < k) /\ ~(k < i)
  BY <1>1, ReachGrows
<1> QED  BY <1>2, <1>3

LEMMA RevisionReach ==
  ASSUME NEW f, NEW g, NEW e, FileOk(f, g, e)
  PROVE  Revision(f) \in Nat /\ f.base <= Revision(f)
<1>1. Len(f.rows) \in Nat /\ Revision(f) = Reach(f, Len(f.rows))
  BY WholeFile
<1>2. Revision(f) \in Nat
  BY <1>1, ReachNat
<1>3. Reach(f, 0) = f.base
  BY DEF Reach
<1>4. Len(f.rows) # 0 => Reach(f, 0) < Reach(f, Len(f.rows))
  BY <1>1, ReachGrows
<1>5. f.base \in Nat
  BY DEF FileOk
<1> QED  BY <1>1, <1>2, <1>3, <1>4, <1>5

LEMMA ContentType ==
  ASSUME NEW f, NEW g, NEW e, FileOk(f, g, e)
  PROVE  Content(f) \in Seq(Nat)
<1> DEFINE r == f.rows
<1>1. Valid(f) = Len(f.rows) /\ Len(f.rows) \in Nat
  BY WholeFile
<1>2. f.ops \in Seq(Nat) /\ \A i \in 1 .. Len(f.rows) : f.rows[i].ops \in Seq(Nat)
  BY WholeFile DEF FileOk, BatchT
<1> DEFINE G == [i \in 1 .. Len(f.rows) |-> f.rows[i].ops]
<1>3. \A i \in 1 .. Len(f.rows) : G[i] \in Seq(Nat)
  BY <1>2
<1>4. [i \in 1 .. Len(f.rows) |-> G[i]] = G
  OBVIOUS
<1>5. FlattenSeq(G) \in Seq(Nat)
  <2> HIDE DEF G
  <2> QED  BY <1>1, <1>3, <1>4, FlattenType
<1> QED
  BY <1>1, <1>2, <1>5, ConcatProperties DEF Content

(* A file that begins with a header, and perhaps a baseline. *)
Fresh(f, n, rev, text) == f = Transcript("v2", n, rev, text)

LEMMA NewFileOk ==
  ASSUME NEW f, NEW n \in Nat, NEW rev \in Nat, NEW text \in Seq(Nat),
         Fresh(f, n, rev, text), rev = 0 => text = <<>>,
         NEW g \in Nat, n <= g, NEW e, n = 0 => "foreign" \in e
  PROVE  FileOk(f, g, e)
<1>1. /\ f.kind = "v2" /\ f.gen = n /\ f.base = rev /\ f.ops = text
      /\ f.rows = <<>> /\ f.tail = NoBatch
  BY DEF Fresh, Transcript
<1>2. NoBatch \in BatchT /\ <<>> \in Seq(BatchT) /\ Len(<<>>) = 0
  BY EmptySeq DEF NoBatch, Batch, BatchT
<1>3. f \in [kind : {"none", "empty", "header", "v2"}, gen : 0 .. g, base : Nat,
             ops : Seq(Nat), rows : Seq(BatchT), tail : BatchT]
  BY <1>2 DEF Fresh, Transcript
<1>4. \A i \in 1 .. Len(f.rows) : Contiguous(f, i)
  BY <1>1, <1>2
<1> QED  BY <1>1, <1>3, <1>4 DEF FileOk

LEMMA NewFile ==
  ASSUME NEW f, NEW n \in Nat, NEW rev \in Nat, NEW text \in Seq(Nat),
         Fresh(f, n, rev, text), rev = 0 => text = <<>>
  PROVE  /\ Readable(f) /\ f.gen = n /\ f.base = rev
         /\ f.rows = <<>> /\ f.tail = NoBatch /\ Len(f.rows) = 0
         /\ Revision(f) = rev /\ Content(f) = text /\ LastBatch(f) = NoBatch
         /\ TailState(f) = "clean"
<1>1. /\ f.kind = "v2" /\ f.gen = n /\ f.base = rev /\ f.ops = text
      /\ f.rows = <<>> /\ f.tail = NoBatch
  BY DEF Fresh, Transcript
<1>2. Len(<<>>) = 0
  BY EmptySeq
<1>3. FileOk(f, n, {"foreign"})
  BY NewFileOk
<1>4. Valid(f) = 0
  BY <1>1, <1>2, <1>3, WholeFile
<1>5. FlattenSeq([i \in 1 .. 0 |-> f.rows[i].ops]) = <<>>
  <2> DEFINE G == [i \in 1 .. 0 |-> f.rows[i].ops]
  <2>1. [i \in 1 .. 0 |-> G[i]] = G
    OBVIOUS
  <2> HIDE DEF G
  <2>2. FlattenSeq(G) = <<>>
    BY <2>1, FlattenNone
  <2> QED  BY <2>2 DEF G
<1>6. Content(f) = text
  BY <1>1, <1>4, <1>5, ConcatEmptySeq DEF Content
<1> QED
  BY <1>1, <1>2, <1>3, <1>4, <1>6, WholeFile DEF Revision, LastBatch, TailState, Readable

(* The unfinished row at the end of a file is no part of what it says. *)
LEMMA TailFile ==
  ASSUME NEW f, NEW g, NEW e, FileOk(f, g, e), Readable(f),
         NEW b \in BatchT, NEW f2, f2 = [f EXCEPT !.tail = b]
  PROVE  /\ FileOk(f2, g, e) /\ Readable(f2) /\ f2.gen = f.gen /\ f2.rows = f.rows
         /\ f2.base = f.base /\ f2.tail = b
         /\ Revision(f2) = Revision(f) /\ Content(f2) = Content(f)
         /\ LastBatch(f2) = LastBatch(f) /\ \A n : Reach(f2, n) = Reach(f, n)
<1>1. /\ f2.kind = "v2" /\ f2.gen = f.gen /\ f2.base = f.base /\ f2.ops = f.ops
      /\ f2.rows = f.rows /\ f2.tail = b
      /\ f2 \in [kind : {"none", "empty", "header", "v2"}, gen : 0 .. g, base : Nat,
                 ops : Seq(Nat), rows : Seq(BatchT), tail : BatchT]
  BY DEF FileOk, Readable
<1>2. FileOk(f2, g, e)
  BY <1>1 DEF FileOk, Contiguous, Before, Readable
<1>3. Valid(f2) = Valid(f)
  BY <1>1, <1>2, WholeFile
<1>4. \A n : Reach(f2, n) = Reach(f, n)
  BY <1>1 DEF Reach
<1>5. Revision(f2) = Revision(f) /\ LastBatch(f2) = LastBatch(f)
  BY <1>1, <1>3 DEF Revision, LastBatch
<1>6. Content(f2) = Content(f)
  BY <1>1, <1>3 DEF Content
<1> QED  BY <1>1, <1>2, <1>4, <1>5, <1>6 DEF Readable

(* f2 is f with the row b behind its last one. *)
Grown(f2, f, b) == f2 = [f EXCEPT !.rows = Append(@, b), !.tail = NoBatch]

LEMMA GrownContent ==
  ASSUME NEW f, NEW g, NEW e, FileOk(f, g, e), Readable(f),
         NEW b \in BatchT, b.from = Revision(f) + 1, b.to >= b.from,
         NEW f2, Grown(f2, f, b)
  PROVE  /\ FileOk(f2, g, e) /\ Readable(f2) /\ f2.gen = f.gen /\ f2.base = f.base
         /\ Len(f2.rows) = Len(f.rows) + 1 /\ f2.rows[Len(f2.rows)] = b
         /\ f2.rows # <<>> /\ f2.tail = NoBatch
         /\ Revision(f2) = b.to /\ LastBatch(f2) = b
         /\ Content(f2) = Content(f) \o b.ops
         /\ \A n \in 0 .. Len(f.rows) : Reach(f2, n) = Reach(f, n)
<1> DEFINE L == Len(f.rows)
<1>1. NoBatch \in BatchT
  BY EmptySeq DEF NoBatch, Batch, BatchT
<1>2. f.rows \in Seq(BatchT) /\ L \in Nat /\ Valid(f) = L /\ Revision(f) = Reach(f, L)
  <2>1. f.rows \in Seq(BatchT)
    BY DEF FileOk
  <2> QED  BY <2>1, WholeFile
<1>3. /\ Append(f.rows, b) \in Seq(BatchT) /\ Append(f.rows, b) # <<>>
      /\ Len(Append(f.rows, b)) = L + 1 /\ Append(f.rows, b)[L + 1] = b
      /\ \A i \in 1 .. L : Append(f.rows, b)[i] = f.rows[i]
  BY <1>2, AppendProperties
<1>4. /\ f2.kind = "v2" /\ f2.gen = f.gen /\ f2.base = f.base /\ f2.ops = f.ops
      /\ f2.rows = Append(f.rows, b) /\ f2.tail = NoBatch
      /\ f2 \in [kind : {"none", "empty", "header", "v2"}, gen : 0 .. g, base : Nat,
                 ops : Seq(Nat), rows : Seq(BatchT), tail : BatchT]
  BY <1>1, <1>3 DEF Grown, FileOk, Readable
<1>5. /\ Len(f2.rows) = L + 1 /\ f2.rows[L + 1] = b /\ f2.rows # <<>>
      /\ \A i \in 1 .. L : f2.rows[i] = f.rows[i]
  BY <1>3, <1>4
<1>6. \A n \in 0 .. L : Reach(f2, n) = Reach(f, n)
  BY <1>2, <1>4, <1>5 DEF Reach
<1>7. \A i \in 1 .. Len(f2.rows) : Contiguous(f2, i)
  <2> TAKE i \in 1 .. Len(f2.rows)
  <2>1. CASE i \in 1 .. L
    <3>1. Contiguous(f, i)
      BY <2>1 DEF FileOk
    <3>2. i # 1 => i - 1 \in 1 .. L
      BY <2>1, <1>2
    <3>3. f2.rows[i] = f.rows[i] /\ (i # 1 => f2.rows[i - 1] = f.rows[i - 1])
      BY <2>1, <3>2, <1>5
    <3> QED  BY <3>1, <3>3, <1>4 DEF Contiguous, Before
  <2>2. CASE i = L + 1
    <3>1. Before(f2, i) = Reach(f2, L)
      BY <2>2, <1>2 DEF Before, Reach
    <3>2. Reach(f2, L) = Revision(f) /\ f2.rows[i] = b
      BY <2>2, <1>2, <1>5, <1>6
    <3> QED  BY <3>1, <3>2 DEF Contiguous
  <2> QED  BY <2>1, <2>2, <1>2, <1>5
<1>8. FileOk(f2, g, e)
  <2>1. /\ f2.base = 0 => f2.ops = <<>>
        /\ f2.gen = 0 => "foreign" \in e
    BY <1>4 DEF FileOk, Readable
  <2>2. f2.kind = "v2" /\ f2 \in [kind : {"none", "empty", "header", "v2"}, gen : 0 .. g,
              base : Nat, ops : Seq(Nat), rows : Seq(BatchT), tail : BatchT]
    BY <1>4
  <2> HIDE DEF L
  <2> QED  BY <1>7, <2>1, <2>2 DEF FileOk
<1>9. Valid(f2) = L + 1 /\ Revision(f2) = b.to /\ LastBatch(f2) = b
  <2>1. Valid(f2) = L + 1
    BY <1>5, <1>8, WholeFile
  <2> QED  BY <2>1, <1>2, <1>5 DEF Revision, LastBatch
<1>10. Content(f2) = Content(f) \o b.ops
  <2> DEFINE G == [i \in 1 .. L + 1 |-> f2.rows[i].ops]
             A == FlattenSeq([i \in 1 .. L |-> f.rows[i].ops])
  <2>1. [i \in 1 .. L + 1 |-> G[i]] = G
    OBVIOUS
  <2>2. [i \in 1 .. L |-> G[i]] = [i \in 1 .. L |-> f.rows[i].ops]
    BY <1>2, <1>5
  <2>3. G[L + 1] = b.ops /\ b.ops \in Seq(Nat)
    BY <1>2, <1>5 DEF BatchT
  <2>4. FlattenSeq(G) = A \o b.ops
    <3> HIDE DEF G
    <3>1. FlattenSeq([i \in 1 .. L + 1 |-> G[i]])
            = FlattenSeq([i \in 1 .. L |-> G[i]]) \o G[L + 1]
      BY <1>2, <2>3, FlattenMore
    <3> QED  BY <3>1, <2>1, <2>2, <2>3
  <2>5. A \in Seq(Nat)
    <3> DEFINE H == [i \in 1 .. L |-> f.rows[i].ops]
    <3>1. \A i \in 1 .. L : H[i] \in Seq(Nat)
      BY WholeFile DEF BatchT
    <3>2. [i \in 1 .. L |-> H[i]] = H
      OBVIOUS
    <3> HIDE DEF H
    <3>3. FlattenSeq(H) \in Seq(Nat)
      BY <1>2, <3>1, <3>2, FlattenType
    <3> QED  BY <3>3 DEF H
  <2>6. f.ops \in Seq(Nat)
    BY DEF FileOk
  <2>7. Content(f2) = f.ops \o (A \o b.ops) /\ Content(f) = f.ops \o A
    BY <1>2, <1>4, <1>9, <2>4 DEF Content
  <2> HIDE DEF A
  <2>8. b.ops \in Seq(Nat)
    BY DEF BatchT
  <2>9. (f.ops \o A) \o b.ops = f.ops \o (A \o b.ops)
    BY <2>5, <2>6, <2>8, Joined
  <2> QED  BY <2>7, <2>9
<1> QED
  BY <1>4, <1>5, <1>6, <1>8, <1>9, <1>10 DEF Readable

LEMMA NoBatchType == NoBatch \in BatchT /\ NoBatch.to = 0
<1>1. <<>> \in Seq(Nat)
  BY EmptySeq
<1> QED  BY <1>1 DEF NoBatch, Batch, BatchT

(* A file is only ever cut behind its last whole row. *)
LEMMA CutWhole ==
  ASSUME NEW f, NEW g, NEW e, FileOk(f, g, e)
  PROVE  CutAt(f, Len(f.rows)) = [f EXCEPT !.tail = NoBatch]
<1>1. f.rows \in Seq(BatchT)
  BY DEF FileOk
<1>2. SubSeq(f.rows, 1, Len(f.rows)) = f.rows
  BY <1>1, SubSeqFull
<1>3. f \in [kind : {"none", "empty", "header", "v2"}, gen : 0 .. g, base : Nat,
             ops : Seq(Nat), rows : Seq(BatchT), tail : BatchT]
  BY DEF FileOk
<1>4. CutAt(f, Len(f.rows)) = [f EXCEPT !.rows = f.rows, !.tail = NoBatch]
  BY <1>2 DEF CutAt
<1>5. [f EXCEPT !.rows = f.rows, !.tail = NoBatch] = [f EXCEPT !.tail = NoBatch]
  BY <1>3
<1> QED  BY <1>4, <1>5

-----------------------------------------------------------------------------
(* Histories that grow, and what is said of their revisions. *)

Continues(h2, h) ==
  /\ h2 \in Seq(Seq(Nat)) /\ Len(h) <= Len(h2)
  /\ \A n \in 1 .. Len(h) : h2[n] = h[n]

LEMMA SaidType ==
  ASSUME NEW h \in Seq(Seq(Nat)), NEW n \in 0 .. Len(h)
  PROVE  Said(h, n) \in Seq(Nat)
<1>1. Len(h) \in Nat
  BY LenProperties
<1>2. n # 0 => n \in 1 .. Len(h)
  BY <1>1
<1>3. n # 0 => h[n] \in Seq(Nat)
  BY <1>2, ElementOfSeq
<1>4. <<>> \in Seq(Nat)
  BY EmptySeq
<1> QED  BY <1>3, <1>4 DEF Said

LEMMA SaidStays ==
  ASSUME NEW h \in Seq(Seq(Nat)), NEW h2, Continues(h2, h), NEW n \in 0 .. Len(h)
  PROVE  Said(h2, n) = Said(h, n)
<1>1. Len(h) \in Nat
  BY LenProperties
<1>2. n # 0 => n \in 1 .. Len(h)
  BY <1>1
<1> QED  BY <1>2 DEF Said, Continues

LEMMA SaysStays ==
  ASSUME NEW h \in Seq(Seq(Nat)), NEW h2, Continues(h2, h), NEW b, Says(b, h)
  PROVE  Says(b, h2)
<1>1. Len(h) \in Nat /\ Len(h2) \in Nat /\ Len(h) <= Len(h2)
  BY LenProperties DEF Continues
<1>2. b.from \in Nat /\ b.to \in Nat /\ b.from \in 1 .. b.to /\ b.to <= Len(h)
  BY DEF Says, BatchT
<1>3. b.to \in 0 .. Len(h) /\ b.from - 1 \in 0 .. Len(h) /\ b.to <= Len(h2)
  BY <1>1, <1>2
<1>4. Said(h2, b.to) = Said(h, b.to) /\ Said(h2, b.from - 1) = Said(h, b.from - 1)
  BY <1>3, SaidStays
<1> QED  BY <1>3, <1>4 DEF Says

LEMMA ContinuesSelf ==
  ASSUME NEW h \in Seq(Seq(Nat))
  PROVE  Continues(h, h)
<1>1. Len(h) \in Nat
  BY LenProperties
<1> QED  BY <1>1 DEF Continues

LEMMA ContinuesMore ==
  ASSUME NEW h \in Seq(Seq(Nat)), NEW m \in Seq(Nat)
  PROVE  /\ Continues(Append(h, m), h) /\ Len(Append(h, m)) = Len(h) + 1
         /\ Said(Append(h, m), Len(h) + 1) = m
<1>1. Len(h) \in Nat
  BY LenProperties
<1>2. /\ Append(h, m) \in Seq(Seq(Nat)) /\ Len(Append(h, m)) = Len(h) + 1
      /\ \A i \in 1 .. Len(h) : Append(h, m)[i] = h[i] /\ Append(h, m)[Len(h) + 1] = m
  <2>1. /\ Append(h, m) \in Seq(Seq(Nat)) /\ Len(Append(h, m)) = Len(h) + 1
        /\ \A i \in 1 .. Len(h) : Append(h, m)[i] = h[i]
        /\ Append(h, m)[Len(h) + 1] = m
    BY AppendProperties
  <2> QED  BY <2>1
<1>3. Append(h, m)[Len(h) + 1] = m
  BY AppendProperties
<1>4. Len(h) + 1 # 0
  BY <1>1
<1> QED  BY <1>1, <1>2, <1>3, <1>4 DEF Continues, Said

LEMMA ContinuesTwice ==
  ASSUME NEW h \in Seq(Seq(Nat)), NEW h1, Continues(h1, h), NEW h2, Continues(h2, h1)
  PROVE  Continues(h2, h)
<1>1. Len(h) \in Nat /\ Len(h1) \in Nat /\ Len(h2) \in Nat
  BY LenProperties DEF Continues
<1>2. \A n \in 1 .. Len(h) : n \in 1 .. Len(h1)
  BY <1>1 DEF Continues
<1> QED  BY <1>1, <1>2 DEF Continues

(* The first n entries of a queue, joined, say what they say one by one. *)
LEMMA BatchedSays ==
  ASSUME NEW h \in Seq(Seq(Nat)), NEW q \in Seq(BatchT), NEW n \in 1 .. Len(q),
         NEW start \in Nat,
         \A i \in 1 .. Len(q) :
            q[i].from = (IF i = 1 THEN start ELSE q[i - 1].to) + 1 /\ Says(q[i], h)
  PROVE  /\ FlattenSeq([i \in 1 .. n |-> q[i].ops]) \in Seq(Nat)
         /\ Said(h, q[n].to) = Said(h, start) \o FlattenSeq([i \in 1 .. n |-> q[i].ops])
         /\ start + 1 <= q[n].to
<1> DEFINE L == Len(q)
           G == [i \in 1 .. L |-> q[i].ops]
           F(k) == FlattenSeq([i \in 1 .. k |-> G[i]])
           End(k) == IF k = 0 THEN start ELSE q[k].to
           S == {k \in Nat : k <= L => Said(h, End(k)) = Said(h, start) \o F(k)
                                          /\ start + k <= End(k)}
<1>1. L \in Nat /\ Len(h) \in Nat
  BY LenProperties
<1>2. \A i \in 1 .. L : q[i] \in BatchT /\ q[i].to \in Nat /\ q[i].from \in Nat
                          /\ q[i].ops \in Seq(Nat)
  <2>1. \A i \in 1 .. L : q[i] \in BatchT
    BY ElementOfSeq
  <2> QED  BY <2>1 DEF BatchT
<1>3. \A i \in 1 .. L : G[i] = q[i].ops
  OBVIOUS
<1>4. \A i \in 1 .. L : /\ q[i].from = End(i - 1) + 1 /\ q[i].from <= q[i].to
                        /\ Said(h, q[i].to) = Said(h, End(i - 1)) \o q[i].ops
  <2> TAKE i \in 1 .. L
  <2>1. q[i].from = End(i - 1) + 1
    BY <1>1
  <2>2. Says(q[i], h)
    OBVIOUS
  <2>3. i - 1 \in 0 .. L
    BY <1>1
  <2>4. End(i - 1) \in Nat
    <3>1. i - 1 # 0 => i - 1 \in 1 .. L
      BY <2>3, <1>1
    <3> QED  BY <3>1, <1>2
  <2> HIDE DEF End
  <2>5. q[i].from - 1 = End(i - 1)
    BY <2>1, <2>4
  <2>6. /\ q[i].from \in 1 .. q[i].to
        /\ Said(h, q[i].to) = Said(h, q[i].from - 1) \o q[i].ops
    BY <2>2 DEF Says
  <2>7. q[i].from <= q[i].to
    BY <2>6, <1>2
  <2> QED  BY <2>1, <2>5, <2>6, <2>7
<1>5. \A i \in 0 .. L : End(i) \in Nat
  <2> TAKE i \in 0 .. L
  <2>1. i # 0 => i \in 1 .. L
    BY <1>1
  <2> QED  BY <2>1, <1>2
<1>6. Said(h, start) \in Seq(Nat)
  <2>1. 1 \in 1 .. L
    BY <1>1
  <2>2. q[1].from = start + 1 /\ Says(q[1], h)
    BY <2>1
  <2>3. q[1].from \in 1 .. q[1].to /\ q[1].to <= Len(h)
    BY <2>2 DEF Says
  <2>4. start \in 0 .. Len(h)
    BY <1>1, <1>2, <2>1, <2>2, <2>3
  <2> QED  BY <2>4, SaidType
<1>7. \A k \in 0 .. L : F(k) \in Seq(Nat)
  <2> TAKE k \in 0 .. L
  <2>1. k \in Nat /\ \A i \in 1 .. k : G[i] \in Seq(Nat)
    BY <1>1, <1>2, <1>3
  <2> HIDE DEF G
  <2> QED  BY <2>1, FlattenType
<1> HIDE DEF G
<1>8. 0 \in S
  <2>1. F(0) = <<>> /\ End(0) = start
    BY FlattenNone
  <2>2. Said(h, start) \o <<>> = Said(h, start)
    BY <1>6, ConcatEmptySeq
  <2>3. start + 0 <= End(0)
    BY <2>1
  <2> HIDE DEF F, End
  <2> QED  BY <2>1, <2>2, <2>3
<1>9. ASSUME NEW k \in Nat, k \in S
      PROVE  k + 1 \in S
  <2> SUFFICES ASSUME k + 1 <= L
               PROVE  /\ Said(h, End(k + 1)) = Said(h, start) \o F(k + 1)
                      /\ start + (k + 1) <= End(k + 1)
    OBVIOUS
  <2>1. k + 1 \in 1 .. L /\ (k + 1) - 1 = k /\ k \in 0 .. L /\ k + 1 \in 0 .. L /\ k <= L
    BY <1>1
  <2>2. Said(h, End(k)) = Said(h, start) \o F(k) /\ start + k <= End(k)
    BY <1>9, <2>1
  <2>3. G[k + 1] = q[k + 1].ops /\ q[k + 1].ops \in Seq(Nat)
    BY <1>2, <1>3, <2>1
  <2>4. F(k + 1) = F(k) \o q[k + 1].ops
    BY <2>3, FlattenMore
  <2>5. /\ q[k + 1].from = End(k) + 1 /\ q[k + 1].from <= q[k + 1].to
        /\ Said(h, q[k + 1].to) = Said(h, End(k)) \o q[k + 1].ops
    BY <1>4, <2>1
  <2>6. F(k) \in Seq(Nat) /\ End(k) \in Nat /\ End(k + 1) \in Nat
    BY <1>5, <1>7, <2>1
  <2>7. End(k + 1) = q[k + 1].to
    BY <2>1
  <2> HIDE DEF F, End, S
  <2>8. (Said(h, start) \o F(k)) \o q[k + 1].ops = Said(h, start) \o (F(k) \o q[k + 1].ops)
    BY <1>6, <2>3, <2>6, Joined
  <2>9. start + (k + 1) <= End(k + 1)
    BY <2>2, <2>5, <2>6, <2>7
  <2> QED  BY <2>2, <2>4, <2>5, <2>7, <2>8, <2>9
<1>10. Nat \subseteq S
  <2> HIDE DEF S
  <2> QED  BY <1>8, <1>9, Counting
<1> HIDE DEF S
<1>11. n \in S /\ n <= L /\ n # 0 /\ n \in 0 .. L /\ n \in Nat
  BY <1>1, <1>10
<1>12. F(n) = FlattenSeq([i \in 1 .. n |-> q[i].ops])
  <2>1. [i \in 1 .. n |-> G[i]] = [i \in 1 .. n |-> q[i].ops]
    BY <1>1, <1>3
  <2> QED  BY <2>1
<1>13. Said(h, q[n].to) = Said(h, start) \o F(n) /\ start + n <= q[n].to /\ F(n) \in Seq(Nat)
  <2>1. Said(h, End(n)) = Said(h, start) \o F(n) /\ start + n <= End(n)
    <3> HIDE DEF F, End
    <3> QED  BY <1>11 DEF S
  <2> QED  BY <1>7, <1>11, <2>1
<1> HIDE DEF F
<1>14. start + 1 <= q[n].to
  BY <1>1, <1>2, <1>11, <1>13
<1> QED  BY <1>12, <1>13, <1>14

-----------------------------------------------------------------------------
(* Entries of the queue. *)

LEMMA ChainEmpty ==
  ASSUME NEW n, NEW h
  PROVE  Chain(<<>>, n, n, h)
<1>1. <<>> \in Seq(BatchT) /\ Len(<<>>) = 0
  BY EmptySeq
<1> QED  BY <1>1 DEF Chain

LEMMA ChainMore ==
  ASSUME NEW h \in Seq(Seq(Nat)), NEW h2, Continues(h2, h), NEW q, NEW a, NEW z,
         Chain(q, a, z, h)
  PROVE  Chain(q, a, z, h2)
BY SaysStays DEF Chain

LEMMA ChainAppend ==
  ASSUME NEW h, NEW q, NEW a, NEW z, Chain(q, a, z, h), NEW b, Says(b, h), b.from = z + 1
  PROVE  Chain(Append(q, b), a, b.to, h)
<1> DEFINE r == Append(q, b)
<1>1. q \in Seq(BatchT) /\ b \in BatchT
  BY DEF Chain, Says
<1>2. Len(q) \in Nat /\ (q = <<>> <=> Len(q) = 0)
  BY <1>1, LenProperties, EmptySeq
<1>3. /\ r \in Seq(BatchT) /\ r # <<>> /\ Len(r) = Len(q) + 1 /\ r[Len(q) + 1] = b
      /\ \A i \in 1 .. Len(q) : r[i] = q[i]
  BY <1>1, AppendProperties
<1> HIDE DEF r
<1>4. \A i \in 1 .. Len(r) :
         r[i].from = (IF i = 1 THEN a ELSE r[i - 1].to) + 1 /\ Says(r[i], h)
  <2> TAKE i \in 1 .. Len(r)
  <2>1. CASE i \in 1 .. Len(q)
    <3>1. q[i].from = (IF i = 1 THEN a ELSE q[i - 1].to) + 1 /\ Says(q[i], h)
      BY <2>1 DEF Chain
    <3>2. i # 1 => i - 1 \in 1 .. Len(q)
      BY <2>1, <1>2
    <3>3. r[i] = q[i] /\ (i # 1 => r[i - 1] = q[i - 1])
      BY <2>1, <3>2, <1>3
    <3> QED  BY <3>1, <3>3
  <2>2. CASE i = Len(q) + 1
    <3>1. r[i] = b
      BY <2>2, <1>3
    <3>2. (IF q = <<>> THEN a ELSE q[Len(q)].to) = z
      BY DEF Chain
    <3>3. i = 1 <=> q = <<>>
      BY <2>2, <1>2
    <3>4. i # 1 => i - 1 = Len(q) /\ Len(q) \in 1 .. Len(q)
      BY <2>2, <1>2
    <3>5. i # 1 => r[i - 1] = q[Len(q)]
      BY <3>4, <1>3
    <3>6. (IF i = 1 THEN a ELSE r[i - 1].to) = z
      BY <3>2, <3>3, <3>5
    <3> QED  BY <3>1, <3>6
  <2> QED  BY <2>1, <2>2, <1>2, <1>3
<1>5. Chain(r, a, b.to, h)
  BY <1>3, <1>4 DEF Chain
<1> QED  BY <1>5 DEF r

LEMMA ChainLast ==
  ASSUME NEW h, NEW q, NEW a, NEW z, Chain(q, a, z, h), q # <<>>,
         NEW b, Says(b, h), b.from = q[Len(q)].from
  PROVE  Chain([q EXCEPT ![Len(q)] = b], a, b.to, h)
<1> DEFINE r == [q EXCEPT ![Len(q)] = b]
<1>1. q \in Seq(BatchT) /\ b \in BatchT
  BY DEF Chain, Says
<1>2. Len(q) \in Nat /\ Len(q) \in 1 .. Len(q)
  BY <1>1, LenProperties, EmptySeq
<1>3. /\ r \in Seq(BatchT) /\ Len(r) = Len(q)
      /\ \A i \in 1 .. Len(q) : r[i] = IF i = Len(q) THEN b ELSE q[i]
  BY <1>1, <1>2, ExceptSeq
<1>4. r # <<>>
  BY <1>2, <1>3, EmptySeq
<1> HIDE DEF r
<1>5. \A i \in 1 .. Len(r) :
         r[i].from = (IF i = 1 THEN a ELSE r[i - 1].to) + 1 /\ Says(r[i], h)
  <2> TAKE i \in 1 .. Len(r)
  <2>1. q[i].from = (IF i = 1 THEN a ELSE q[i - 1].to) + 1 /\ Says(q[i], h)
    BY <1>3 DEF Chain
  <2>2. i # 1 => i - 1 \in 1 .. Len(q) /\ i - 1 # Len(q)
    BY <1>2, <1>3
  <2>3. i # 1 => r[i - 1] = q[i - 1]
    BY <2>2, <1>3
  <2>4. r[i].from = q[i].from /\ Says(r[i], h)
    BY <2>1, <1>3
  <2> QED  BY <2>1, <2>3, <2>4
<1>6. r[Len(r)] = b
  BY <1>2, <1>3
<1>7. Chain(r, a, b.to, h)
  BY <1>3, <1>4, <1>5, <1>6 DEF Chain
<1> QED  BY <1>7 DEF r

LEMMA ChainRest ==
  ASSUME NEW h, NEW q, NEW a, NEW z, Chain(q, a, z, h), NEW n \in 1 .. Len(q)
  PROVE  Chain(SubSeq(q, n + 1, Len(q)), q[n].to, z, h)
<1> DEFINE r == SubSeq(q, n + 1, Len(q))
           L == Len(q)
<1>1. q \in Seq(BatchT)
  BY DEF Chain
<1>2. L \in Nat /\ n \in Nat /\ n <= L /\ \A i \in 1 .. L : q[i] \in BatchT
  BY <1>1, LenProperties, ElementOfSeq
<1>3. /\ r \in Seq(BatchT) /\ Len(r) = L - n /\ \A i \in 1 .. L - n : r[i] = q[n + i]
  <2>1. \A i \in n + 1 .. L : q[i] \in BatchT
    BY <1>2
  <2>2. /\ r \in Seq(BatchT) /\ Len(r) = IF n + 1 <= L THEN L - (n + 1) + 1 ELSE 0
        /\ \A i \in 1 .. L - (n + 1) + 1 : r[i] = q[n + 1 + i - 1]
    BY <2>1, <1>2, SubSeqProperties
  <2>3. Len(r) = L - n
    BY <2>2, <1>2
  <2>4. \A i \in 1 .. L - n : r[i] = q[n + i]
    <3> TAKE i \in 1 .. L - n
    <3>1. n + 1 + i - 1 = n + i /\ i \in 1 .. L - (n + 1) + 1
      BY <1>2
    <3> QED  BY <2>2, <3>1
  <2> QED  BY <2>2, <2>3, <2>4
<1> HIDE DEF r
<1>4. r = <<>> <=> L = n
  BY <1>2, <1>3, EmptySeq
<1>5. \A i \in 1 .. Len(r) :
         r[i].from = (IF i = 1 THEN q[n].to ELSE r[i - 1].to) + 1 /\ Says(r[i], h)
  <2> TAKE i \in 1 .. Len(r)
  <2>1. n + i \in 1 .. L /\ n + i # 1 /\ r[i] = q[n + i]
    BY <1>2, <1>3
  <2>2. q[n + i].from = q[(n + i) - 1].to + 1 /\ Says(q[n + i], h)
    BY <2>1 DEF Chain
  <2>3. i = 1 => (n + i) - 1 = n
    BY <1>2
  <2>4. i # 1 => i - 1 \in 1 .. L - n /\ (n + i) - 1 = n + (i - 1)
    BY <1>2, <1>3
  <2>5. i # 1 => r[i - 1] = q[n + (i - 1)]
    BY <2>4, <1>3
  <2> QED  BY <2>1, <2>2, <2>3, <2>4, <2>5
<1>6. (IF r = <<>> THEN q[n].to ELSE r[Len(r)].to) = z
  <2>1. (IF q = <<>> THEN a ELSE q[L].to) = z
    BY DEF Chain
  <2>2. q # <<>> /\ q[L].to = z
    <3>1. q # <<>>
      BY <1>2, EmptySeq
    <3> QED  BY <3>1, <2>1
  <2>3. r # <<>> => Len(r) \in 1 .. L - n /\ n + Len(r) = L
    BY <1>2, <1>3, <1>4
  <2>4. r # <<>> => r[Len(r)] = q[n + Len(r)]
    BY <2>3, <1>3
  <2> QED  BY <2>2, <2>3, <2>4, <1>4
<1>7. Chain(r, q[n].to, z, h)
  BY <1>3, <1>5, <1>6 DEF Chain
<1> QED  BY <1>7 DEF r

(* The first n entries of a chain make one batch. *)
LEMMA ChainBatch ==
  ASSUME NEW h \in Seq(Seq(Nat)), NEW q, NEW a \in Nat, NEW z, Chain(q, a, z, h),
         NEW n \in 1 .. Len(q), opens \in Nat, NEW b, b = Batched(q, n)
  PROVE  Says(b, h) /\ b.inst = opens /\ b.from = a + 1 /\ b.to = q[n].to
<1> DEFINE t == FlattenSeq([i \in 1 .. n |-> q[i].ops])
<1>1. q \in Seq(BatchT)
  BY DEF Chain
<1>2. \A i \in 1 .. Len(q) :
         q[i].from = (IF i = 1 THEN a ELSE q[i - 1].to) + 1 /\ Says(q[i], h)
  BY DEF Chain
<1>3. /\ t \in Seq(Nat) /\ Said(h, q[n].to) = Said(h, a) \o t
      /\ a + 1 <= q[n].to
  BY <1>1, <1>2, BatchedSays
<1>4. Len(q) \in Nat /\ 1 \in 1 .. Len(q) /\ n \in 1 .. Len(q)
  BY <1>1, LenProperties
<1>5. q[1].from = a + 1
  BY <1>2, <1>4
<1>6. q[n].to \in Nat /\ q[n].to <= Len(h)
  BY <1>2 DEF Says, BatchT
<1> HIDE DEF t
<1>7. b.inst = opens /\ b.from = a + 1 /\ b.to = q[n].to /\ b.ops = t /\ b \in BatchT
  <2>1. b = Batch(opens, q[1].from, q[n].to, t)
    BY DEF t, Batched
  <2> QED  BY <2>1, <1>3, <1>5, <1>6 DEF Batch, BatchT
<1>8. b.from \in 1 .. b.to /\ b.from - 1 = a
  <2>1. a + 1 <= b.to /\ b.to \in Nat /\ b.from = a + 1
    BY <1>3, <1>6, <1>7
  <2>2. \A m, k \in Nat : m + 1 <= k => m + 1 \in 1 .. k /\ (m + 1) - 1 = m
    OBVIOUS
  <2>3. a \in Nat
    OBVIOUS
  <2> HIDE DEF t
  <2> QED  BY <2>1, <2>2, <2>3
<1> QED  BY <1>3, <1>6, <1>7, <1>8 DEF Says

-----------------------------------------------------------------------------
(* The parts of the writer that timers and health do not touch. *)

IsWriter(x) ==
  x \in [phase : {x.phase}, gen : {x.gen}, recovery : {x.recovery}, proj : {x.proj},
         queue : {x.queue}, baseline : {x.baseline}, complete : {x.complete},
         retiring : {x.retiring}, blocked : {x.blocked}, attempted : {x.attempted},
         emptyPending : {x.emptyPending}, retryBatch : {x.retryBatch},
         retrying : {x.retrying}, timer : {x.timer}, watch : {x.watch},
         state : {x.state}, live : {x.live}, durable : {x.durable}]

SameCore(x, y) ==
  /\ IsWriter(y)
  /\ y.phase = x.phase /\ y.gen = x.gen /\ y.proj = x.proj /\ y.queue = x.queue
  /\ y.baseline = x.baseline /\ y.complete = x.complete /\ y.blocked = x.blocked
  /\ y.attempted = x.attempted /\ y.emptyPending = x.emptyPending
  /\ y.retryBatch = x.retryBatch /\ y.live = x.live /\ y.durable = x.durable

LEMMA ShapeIsWriter ==
  ASSUME NEW x, Shape(x)
  PROVE  IsWriter(x)
BY DEF Shape, Writer, IsWriter

LEMMA CoreHelpers ==
  ASSUME NEW x, IsWriter(x), NEW a, NEW b, NEW s
  PROVE  /\ SameCore(x, Schedule(x, a, b))
         /\ SameCore(x, WatchHealth(x))
         /\ SameCore(x, Fail(x, s))
<1>1. ASSUME NEW v PROVE SameCore(x, [x EXCEPT !.timer = v])
  BY DEF IsWriter, SameCore
<1>2. SameCore(x, x)
  BY DEF SameCore
<1>3. SameCore(x, Schedule(x, a, b))
  BY <1>1, <1>2 DEF Schedule
<1>4. SameCore(x, WatchHealth(x))
  BY DEF IsWriter, SameCore, WatchHealth
<1>5. SameCore(x, Fail(x, s))
  BY DEF IsWriter, SameCore, Fail
<1> QED  BY <1>3, <1>4, <1>5

LEMMA CoreTrans ==
  ASSUME NEW x, NEW y, NEW z, SameCore(x, y), SameCore(y, z)
  PROVE  SameCore(x, z)
BY DEF SameCore

LEMMA CoreWatched ==
  ASSUME NEW x, IsWriter(x), NEW a, NEW b
  PROVE  SameCore(x, Schedule(WatchHealth(x), a, b))
<1>1. SameCore(x, WatchHealth(x)) /\ IsWriter(WatchHealth(x))
  BY CoreHelpers DEF SameCore
<1>2. SameCore(WatchHealth(x), Schedule(WatchHealth(x), a, b))
  BY <1>1, CoreHelpers
<1> QED  BY <1>1, <1>2, CoreTrans

LEMMA CoreFails ==
  ASSUME NEW x, IsWriter(x), NEW s
  PROVE  SameCore(x, Fail(x, s))
BY CoreHelpers

LEMMA CarriedCore ==
  ASSUME NEW x, NEW y, SameCore(x, y), NEW j, NEW p, NEW h, NEW g, NEW o,
         Carried(x, j, p, h, g, o)
  PROVE  Carried(y, j, p, h, g, o)
<1>1. HistoryOk(y, h) /\ QueueOk(y, j, h)
  BY DEF SameCore, Carried, HistoryOk, QueueOk, Begin, Recording
<1>2. JobOk(y, j, h, o) /\ PendingOk(y, p, h, g)
  BY DEF SameCore, Carried, JobOk, PendingOk, NextBatch
<1> QED  BY <1>1, <1>2 DEF SameCore, Carried

-----------------------------------------------------------------------------
(* The conversation goes on. *)

LEMMA SaysNext ==
  ASSUME NEW h \in Seq(Seq(Nat)), NEW m \in Seq(Nat), NEW n, n = Len(h),
         NEW t \in Seq(Nat), m = Said(h, n) \o t
  PROVE  /\ Says(Batch(0, n + 1, n + 1, t), Append(h, m))
         /\ \A b : (Says(b, h) /\ b.to = n)
                      => Says(Batch(b.inst, b.from, n + 1, b.ops \o t), Append(h, m))
<1> DEFINE h2 == Append(h, m)
<1>1. n \in Nat
  BY LenProperties
<1>2. Continues(h2, h) /\ Len(h2) = n + 1 /\ Said(h2, n + 1) = m
  BY ContinuesMore
<1>3. Said(h2, n) = Said(h, n)
  BY <1>1, <1>2, SaidStays
<1> HIDE DEF h2
<1>4. Says(Batch(0, n + 1, n + 1, t), h2)
  <2> DEFINE c == Batch(0, n + 1, n + 1, t)
  <2>1. c \in BatchT /\ c.from = n + 1 /\ c.to = n + 1 /\ c.ops = t
    BY <1>1 DEF Batch, BatchT
  <2> HIDE DEF c
  <2>2. c.from \in 1 .. c.to /\ c.from - 1 = n
    BY <1>1, <2>1
  <2>3. Says(c, h2)
    BY <1>1, <1>2, <1>3, <2>1, <2>2 DEF Says
  <2> QED  BY <2>3 DEF c
<1>5. ASSUME NEW b, Says(b, h), b.to = n
      PROVE  Says(Batch(b.inst, b.from, n + 1, b.ops \o t), h2)
  <2> DEFINE c == Batch(b.inst, b.from, n + 1, b.ops \o t)
  <2>1. b \in BatchT /\ b.from \in 1 .. n /\ Said(h, n) = Said(h, b.from - 1) \o b.ops
    BY <1>5 DEF Says
  <2>2. b.ops \in Seq(Nat) /\ b.inst \in Nat /\ b.from \in Nat
    BY <2>1 DEF BatchT
  <2>3. b.ops \o t \in Seq(Nat)
    BY <2>2, ConcatProperties
  <2>4. c \in BatchT /\ c.from = b.from /\ c.to = n + 1 /\ c.ops = b.ops \o t
    BY <1>1, <2>2, <2>3 DEF Batch, BatchT
  <2>5. b.from - 1 \in 0 .. n /\ b.from \in 1 .. n + 1
    BY <1>1, <2>1, <2>2
  <2>6. Said(h2, b.from - 1) = Said(h, b.from - 1) /\ Said(h, b.from - 1) \in Seq(Nat)
    BY <1>2, <2>5, SaidStays, SaidType
  <2>7. (Said(h, b.from - 1) \o b.ops) \o t = Said(h, b.from - 1) \o (b.ops \o t)
    BY <2>2, <2>6, Joined
  <2> HIDE DEF c
  <2>8. Said(h2, c.to) = Said(h2, c.from - 1) \o c.ops
    BY <1>2, <2>1, <2>4, <2>6, <2>7
  <2>9. Says(c, h2)
    <3>1. c \in BatchT /\ c.from \in 1 .. c.to
      BY <2>4, <2>5
    <3>2. c.to <= Len(h2)
      BY <1>1, <1>2, <2>4
    <3> QED  BY <3>1, <3>2, <2>8 DEF Says
  <2> QED  BY <2>9 DEF c
<1> QED  BY <1>4, <1>5 DEF h2

LEMMA ChainQueued ==
  ASSUME NEW h \in Seq(Seq(Nat)), NEW q, NEW a, NEW n, n = Len(h), Chain(q, a, n, h),
         NEW op \in Nat, NEW r \in Queued(q, n + 1, op)
  PROVE  Chain(r, a, n + 1, Append(h, Append(Said(h, n), op)))
<1> DEFINE m == Append(Said(h, n), op)
           h2 == Append(h, m)
<1>1. n \in Nat
  BY LenProperties
<1>2. Said(h, n) \in Seq(Nat)
  BY <1>1, SaidType
<1>3. <<op>> \in Seq(Nat)
  OBVIOUS
<1>4. m \in Seq(Nat) /\ m = Said(h, n) \o <<op>>
  BY <1>2, AppendProperties, AppendIsConcat
<1> HIDE DEF m
<1>5. Continues(h2, h)
  BY <1>4, ContinuesMore
<1>6. Chain(q, a, n, h2)
  BY <1>5, ChainMore
<1>7. CASE r = Append(q, Batch(0, n + 1, n + 1, <<op>>))
  <2> DEFINE b == Batch(0, n + 1, n + 1, <<op>>)
  <2>1. Says(b, h2)
    BY <1>3, <1>4, SaysNext
  <2>2. b.from = n + 1 /\ b.to = n + 1
    BY DEF Batch
  <2> HIDE DEF b, h2
  <2>3. Chain(Append(q, b), a, b.to, h2)
    BY <1>6, <2>1, <2>2, ChainAppend
  <2> QED  BY <1>7, <2>2, <2>3 DEF b, h2, m
<1>8. CASE q # <<>> /\ r = Merged(q, n + 1, op)
  <2> DEFINE l == q[Len(q)]
             b == Batch(l.inst, l.from, n + 1, Append(l.ops, op))
  <2>1. q \in Seq(BatchT)
    BY DEF Chain
  <2>2. Len(q) \in 1 .. Len(q)
    BY <1>8, <2>1, LenProperties, EmptySeq
  <2>3. Says(l, h) /\ l.to = n
    BY <1>8, <2>2 DEF Chain
  <2>4. l.ops \in Seq(Nat)
    BY <2>3 DEF Says, BatchT
  <2>5. Append(l.ops, op) = l.ops \o <<op>>
    BY <2>4, AppendIsConcat
  <2> HIDE DEF l
  <2>6. Says(Batch(l.inst, l.from, n + 1, l.ops \o <<op>>), h2)
    BY <1>3, <1>4, <2>3, SaysNext
  <2>7. Says(b, h2) /\ b.from = l.from /\ b.to = n + 1
    BY <2>5, <2>6 DEF Batch
  <2> HIDE DEF b, h2
  <2>8. Chain([q EXCEPT ![Len(q)] = b], a, b.to, h2)
    <3>1. b.from = q[Len(q)].from
      BY <2>7 DEF l
    <3> QED  BY <1>6, <1>8, <2>7, <3>1, ChainLast
  <2>9. r = [q EXCEPT ![Len(q)] = b]
    BY <1>8 DEF Merged, b, l
  <2> QED  BY <2>7, <2>8, <2>9 DEF h2, m
<1> QED
  BY <1>7, <1>8 DEF Queued

LEMMA ChainBarrier ==
  ASSUME NEW h \in Seq(Seq(Nat)), NEW q, NEW a, NEW n, n = Len(h), Chain(q, a, n, h)
  PROVE  Chain(Barrier(q, n + 1), a, n + 1, Append(h, Said(h, n)))
<1> DEFINE m == Said(h, n)
           h2 == Append(h, m)
<1>1. n \in Nat
  BY LenProperties
<1>2. m \in Seq(Nat)
  BY <1>1, SaidType
<1>3. <<>> \in Seq(Nat)
  BY EmptySeq
<1>4. m = Said(h, n) \o <<>>
  BY <1>2, ConcatEmptySeq
<1> HIDE DEF m
<1>5. Continues(h2, h)
  BY <1>2, ContinuesMore
<1>6. Chain(q, a, n, h2)
  BY <1>5, ChainMore
<1>7. CASE ~(q # <<>> /\ q[Len(q)].ops = <<>>)
  <2> DEFINE b == Batch(0, n + 1, n + 1, <<>>)
  <2>1. Says(b, h2)
    BY <1>2, <1>3, <1>4, SaysNext
  <2>2. b.from = n + 1 /\ b.to = n + 1
    BY DEF Batch
  <2>3. Barrier(q, n + 1) = Append(q, b)
    BY <1>7 DEF Barrier
  <2> HIDE DEF b, h2
  <2>4. Chain(Append(q, b), a, b.to, h2)
    BY <1>6, <2>1, <2>2, ChainAppend
  <2> QED  BY <2>2, <2>3, <2>4 DEF h2, m
<1>8. CASE q # <<>> /\ q[Len(q)].ops = <<>>
  <2> DEFINE l == q[Len(q)]
             b == Batch(l.inst, l.from, n + 1, l.ops \o <<>>)
  <2>1. q \in Seq(BatchT)
    BY DEF Chain
  <2>2. Len(q) \in 1 .. Len(q)
    BY <1>8, <2>1, LenProperties, EmptySeq
  <2>3. Says(l, h) /\ l.to = n
    BY <1>8, <2>2 DEF Chain
  <2>4. l.ops \in Seq(Nat) /\ l \in BatchT
    BY <2>3 DEF Says, BatchT
  <2>5. l.ops \o <<>> = l.ops
    BY <2>4, ConcatEmptySeq
  <2> HIDE DEF l
  <2>6. Says(b, h2)
    BY <1>2, <1>3, <1>4, <2>3, SaysNext
  <2>7. b.from = l.from /\ b.to = n + 1
    BY DEF Batch
  <2>8. b = [l EXCEPT !.to = n + 1]
    BY <2>4, <2>5 DEF Batch, BatchT
  <2> HIDE DEF b, h2
  <2>9. Chain([q EXCEPT ![Len(q)] = b], a, b.to, h2)
    <3>1. b.from = q[Len(q)].from
      BY <2>7 DEF l
    <3> QED  BY <1>6, <1>8, <2>6, <3>1, ChainLast
  <2>10. Barrier(q, n + 1) = [q EXCEPT ![Len(q)] = b]
    BY <1>8, <2>8 DEF Barrier, l
  <2> QED  BY <2>7, <2>9, <2>10 DEF h2, m
<1> QED  BY <1>7, <1>8

LEMMA QueuedType ==
  ASSUME NEW q \in Seq(BatchT), NEW n \in Nat, NEW op \in Nat
  PROVE  Queued(q, n, op) \subseteq Seq(BatchT) /\ Barrier(q, n) \in Seq(BatchT)
<1>1. q # <<>> => /\ Len(q) \in 1 .. Len(q) /\ q[Len(q)] \in BatchT
  BY LenProperties, EmptySeq, ElementOfSeq
<1>2. ASSUME NEW b \in BatchT
      PROVE  Append(q, b) \in Seq(BatchT) /\ (q # <<>> => [q EXCEPT ![Len(q)] = b] \in Seq(BatchT))
  BY <1>1, AppendProperties, ExceptSeq
<1>3. <<op>> \in Seq(Nat) /\ <<>> \in Seq(Nat)
  BY EmptySeq
<1>4. Batch(0, n, n, <<op>>) \in BatchT /\ Batch(0, n, n, <<>>) \in BatchT
  BY <1>3 DEF Batch, BatchT
<1>5. q # <<>> => Merged(q, n, op) \in Seq(BatchT)
  <2> SUFFICES ASSUME q # <<>> PROVE Merged(q, n, op) \in Seq(BatchT)
    OBVIOUS
  <2> DEFINE l == q[Len(q)]
  <2>1. l.ops \in Seq(Nat) /\ l.inst \in Nat /\ l.from \in Nat
    BY <1>1 DEF BatchT
  <2>2. Append(l.ops, op) \in Seq(Nat)
    BY <2>1, AppendProperties
  <2>3. Batch(l.inst, l.from, n, Append(l.ops, op)) \in BatchT
    BY <2>1, <2>2 DEF Batch, BatchT
  <2> HIDE DEF l
  <2>4. [q EXCEPT ![Len(q)] = Batch(l.inst, l.from, n, Append(l.ops, op))] \in Seq(BatchT)
    BY <1>2, <2>3
  <2> QED  BY <2>4 DEF Merged, l
<1>6. q # <<>> => [q EXCEPT ![Len(q)].to = n] \in Seq(BatchT)
  <2>1. q # <<>> => [q[Len(q)] EXCEPT !.to = n] \in BatchT
    BY <1>1 DEF BatchT
  <2> QED  BY <1>2, <2>1
<1>7. Append(q, Batch(0, n, n, <<op>>)) \in Seq(BatchT)
  BY <1>2, <1>4
<1>8. Append(q, Batch(0, n, n, <<>>)) \in Seq(BatchT)
  BY <1>2, <1>4
<1> QED  BY <1>5, <1>6, <1>7, <1>8 DEF Queued, Barrier

LEMMA AppendTwice ==
  ASSUME NEW h \in Seq(Seq(Nat)), NEW m \in Seq(Nat)
  PROVE  h \o <<m, m>> = Append(Append(h, m), m)
<1>1. h \in Seq(Seq(Nat)) /\ <<m>> \in Seq(Seq(Nat)) /\ <<m, m>> \in Seq(Seq(Nat))
  OBVIOUS
<1>2. Append(h, m) = h \o <<m>> /\ Append(h, m) \in Seq(Seq(Nat))
  BY AppendIsConcat, AppendProperties
<1>3. Append(Append(h, m), m) = (h \o <<m>>) \o <<m>>
  BY <1>2, AppendIsConcat
<1>4. (h \o <<m>>) \o <<m>> = h \o (<<m>> \o <<m>>)
  BY <1>1, ConcatAssociative
<1>5. <<m>> \o <<m>> = <<m, m>>
  <2>1. PICK s : s = <<m>>
    OBVIOUS
  <2>2. PICK t : t = <<m, m>>
    OBVIOUS
  <2>3. s \in Seq(Seq(Nat)) /\ Len(s) = 1 /\ s[1] = m
    BY <1>1, <2>1
  <2>4. t \in Seq(Seq(Nat)) /\ Len(t) = 2 /\ t[1] = m /\ t[2] = m
    BY <1>1, <2>2
  <2>5. /\ s \o s \in Seq(Seq(Nat)) /\ Len(s \o s) = 2
        /\ (s \o s)[1] = m /\ (s \o s)[2] = m
    <3>1. /\ s \o s \in Seq(Seq(Nat)) /\ Len(s \o s) = Len(s) + Len(s)
          /\ \A i \in 1 .. Len(s) + Len(s) :
                (s \o s)[i] = IF i <= Len(s) THEN s[i] ELSE s[i - Len(s)]
      BY <2>3, ConcatProperties
    <3>2. (s \o s)[1] = s[1] /\ (s \o s)[2] = s[2 - 1] /\ 2 - 1 = 1
      BY <2>3, <3>1
    <3> QED  BY <2>3, <3>1, <3>2
  <2>6. \A i \in 1 .. 2 : i = 1 \/ i = 2
    OBVIOUS
  <2>7. s \o s = t
    BY <2>4, <2>5, <2>6, SeqEqual
  <2> QED  BY <2>1, <2>2, <2>7
<1> QED  BY <1>3, <1>4, <1>5

LEMMA GrowCarries ==
  ASSUME NEW x, NEW y, NEW j, NEW p, NEW h, NEW g, NEW o, Carried(x, j, p, h, g, o),
         NEW m \in Seq(Nat), x.phase = "active",
         j.job = "replace" => j.rev \in 0 .. Len(h),
         p # NoPending => p.rev \in Nat,
         y.phase = "active", y.gen = x.gen, y.durable = x.durable,
         y.retryBatch = x.retryBatch,
         y.baseline = x.baseline \/ (j.job = "none" /\ x.retryBatch = NoBatch),
         y.live = x.live + 1, y.proj = m, y.queue \in Seq(BatchT),
         Recording(y) => Chain(y.queue, Begin(x, j), x.live + 1, Append(h, m))
  PROVE  Carried(y, j, p, Append(h, m), g, o)
<1> DEFINE h2 == Append(h, m)
<1>1. h \in Seq(Seq(Nat)) /\ x.live = Len(h) /\ Len(h) \in Nat
  BY LenProperties DEF Carried, HistoryOk
<1>2. Continues(h2, h) /\ Len(h2) = Len(h) + 1 /\ Said(h2, Len(h) + 1) = m
  BY <1>1, ContinuesMore
<1> HIDE DEF h2
<1>3. HistoryOk(y, h2)
  BY <1>1, <1>2 DEF HistoryOk, Continues
<1>4. QueueOk(y, j, h2)
  <2>1. Begin(y, j) = Begin(x, j)
    BY DEF Begin
  <2> QED  BY <2>1 DEF QueueOk, h2
<1>5. JobOk(y, j, h2, o)
  <2>1. \A b : NextBatch(b, x, h, o) => NextBatch(b, y, h2, o)
    BY <1>1, <1>2, SaysStays DEF NextBatch
  <2>2. j.job = "replace" => Said(h2, j.rev) = Said(h, j.rev)
    BY <1>1, <1>2, SaidStays
  <2>3. JobOk(x, j, h, o)
    BY DEF Carried
  <2> QED  BY <2>1, <2>2, <2>3 DEF JobOk
<1>6. PendingOk(y, p, h2, g)
  <2>1. PendingOk(x, p, h, g)
    BY DEF Carried
  <2>2. p # NoPending => p.rev \in 0 .. Len(h) /\ p.rev <= Len(h2)
    BY <1>1, <1>2, <2>1 DEF PendingOk
  <2>3. p # NoPending => Said(h2, p.rev) = Said(h, p.rev)
    BY <1>1, <1>2, <2>2, SaidStays
  <2> QED  BY <2>1, <2>2, <2>3 DEF PendingOk
<1> QED
  BY <1>3, <1>4, <1>5, <1>6 DEF Carried, h2

-----------------------------------------------------------------------------
(* What the disk holds when the owner does not touch it. *)

PlaceSame(x, y) ==
  /\ y.gen = x.gen /\ y.durable = x.durable /\ y.retryBatch = x.retryBatch
  /\ y.attempted = x.attempted /\ y.emptyPending = x.emptyPending
  /\ y.phase = "cold" <=> x.phase = "cold"

StoreSame(s, t) ==
  /\ t.cursor = s.cursor /\ t.created = s.created /\ t.pending = s.pending
  /\ t.coldTail = s.coldTail /\ t.allowCreate = s.allowCreate /\ t.published = s.published

LEMMA FrameContent ==
  ASSUME NEW f, NEW x, NEW y, NEW p, NEW m, NEW h \in Seq(Seq(Nat)), NEW h2, Continues(h2, h),
         NEW e, NEW e2, NEW g, FileOk(f, g, e), x.durable \in Nat,
         ContentOk(f, x, p, m, h, e), PlaceSame(x, y), Trusted(e2) => Trusted(e)
  PROVE  ContentOk(f, y, p, m, h2, e2)
<1>1. Len(h) \in Nat /\ Len(h2) \in Nat /\ Len(h) <= Len(h2)
  BY LenProperties DEF Continues
<1>2. FileSays(f, x, h) => FileSays(f, y, h2)
  <2> SUFFICES ASSUME FileSays(f, x, h) PROVE FileSays(f, y, h2)
    OBVIOUS
  <2>1. Revision(f) \in x.durable .. Len(h)
    BY DEF FileSays
  <2>2. Revision(f) \in 0 .. Len(h) /\ Revision(f) \in x.durable .. Len(h2)
    BY <1>1, <2>1
  <2>3. Said(h2, Revision(f)) = Said(h, Revision(f))
    BY <2>2, SaidStays
  <2> QED  BY <2>2, <2>3 DEF FileSays, PlaceSame
<1>3. Mine(f, y, p) <=> Mine(f, x, p)
  BY DEF Mine, PlaceSame
<1>4. (y.phase = "cold") <=> (x.phase = "cold")
  BY DEF PlaceSame
<1> QED
  BY <1>2, <1>3, <1>4 DEF ContentOk

LEMMA FrameDisk ==
  ASSUME NEW f, NEW x, NEW y, NEW s, NEW t, NEW j, NEW m, NEW h \in Seq(Seq(Nat)), NEW h2,
         Continues(h2, h), NEW e, NEW e2, NEW g, Stored(f, x, s, j, m, h, e, g),
         x.durable \in Nat, PlaceSame(x, y), StoreSame(s, t),
         e2 = e \/ e2 = e \cup {"fault"},
         t.cur \in RowT, t.mut \in MutationT, t.mut.open => s.mut.open \/ m # NoRow,
         (y.blocked = x.blocked /\ y.complete = x.complete) \/ e2 # {}
  PROVE  Stored(f, y, t, j, m, h2, e2, g)
<1>1. FileOk(f, g, e2) /\ CursorOk(f, t.cursor) /\ RenamedOk(f, t.pending)
  BY DEF Stored, FileOk, StoreSame
<1>2. CreatedOk(f, y, t, e2) /\ ExcusesOk(f, e2)
  BY DEF Stored, CreatedOk, ExcusesOk, StoreSame, PlaceSame
<1>3. ContentOk(f, y, t.pending, m, h2, e2)
  <2>1. Trusted(e2) => Trusted(e)
    BY DEF Trusted
  <2>2. FileOk(f, g, e) /\ ContentOk(f, x, s.pending, m, h, e)
    BY DEF Stored
  <2>3. ContentOk(f, y, s.pending, m, h2, e2)
    BY <2>1, <2>2, FrameContent
  <2> QED  BY <2>3 DEF StoreSame
<1>4. RowOk(f, y, t, j, m, e2)
  BY DEF Stored, RowOk, PlaceSame, StoreSame
<1>5. StepsOk(f, y, t, j)
  BY DEF Stored, StepsOk, PlaceSame, StoreSame
<1>6. RowStays(f, y, t.pending, j, e2)
  BY DEF Stored, RowStays, PlaceSame, StoreSame
<1>7. CauseOk(y, t.pending, j, e2)
  BY DEF Stored, CauseOk, PlaceSame, StoreSame
<1>8. AsLeft(f, y, t, j, e2)
  BY DEF Stored, AsLeft, NothingYet, HeaderBegun, UpToDate, OneAhead, Replaced, Open0,
         PlaceSame, StoreSame
<1> QED
  BY <1>1, <1>2, <1>3, <1>4, <1>5, <1>6, <1>7, <1>8 DEF Stored

-----------------------------------------------------------------------------
(* The actions, one after another.  First what Sure says of the variables. *)

StoreShape(s) ==
  s \in [cursor : [gen : {s.cursor.gen}, rev : {s.cursor.rev}, size : Nat],
         created : {s.created},
         pending : [gen : {s.pending.gen}, rev : Nat, ops : {s.pending.ops},
                    empty : {s.pending.empty}, expected : {s.pending.expected}],
         coldTail : {s.coldTail}, allowCreate : {s.allowCreate}, cur : {s.cur},
         pend : {s.pend}, published : {s.published}, mut : {s.mut}]

LEMMA SureFacts ==
  ASSUME Sure
  PROVE  /\ IsWriter(w) /\ w.live \in Nat /\ w.durable \in Nat /\ w.durable <= w.live
         /\ w.gen \in 0 .. gens /\ gens \in Nat /\ opens \in 0 .. MaxOpens /\ opens \in Nat
         /\ history \in Seq(Seq(Nat)) /\ w.live = Len(history) /\ Len(history) \in Nat
         /\ io.rev \in Nat /\ io.job \in {"none", "append", "replace"}
         /\ io # Idle <=> io.job # "none"
         /\ io.job = "replace" => io.rev \in 0 .. Len(history)
         /\ st.pending.rev \in Nat /\ StoreShape(st)
         /\ w.queue \in Seq(BatchT)
<1>1. Shape(w) /\ JobShape(io) /\ StorageShape(st) /\ gens \in Nat /\ WriterInv(w, io, st.pending)
  BY DEF Sure, Inv
<1>2. IsWriter(w) /\ w.live \in Nat /\ w.durable \in Nat
  BY <1>1, ShapeIsWriter DEF Shape, Writer
<1>3. w.durable <= w.live
  BY <1>1 DEF WriterInv, Flow, QueueAhead
<1>4. /\ opens \in 0 .. MaxOpens /\ w.gen \in 0 .. gens /\ history \in Seq(Seq(Nat))
      /\ w.live = Len(history) /\ w.queue \in Seq(BatchT)
  BY DEF Sure, Written, Carried, HistoryOk, QueueOk
<1>5. io.rev \in Nat /\ io.job \in {"none", "append", "replace"} /\ (io.job = "none" => io = Idle)
  BY <1>1 DEF JobShape
<1>6. io # Idle <=> io.job # "none"
  BY <1>5 DEF Idle
<1>7. io.job = "replace" => io.rev <= w.live
  BY <1>1 DEF WriterInv, Flow, ReplaceAhead
<1>8. st.pending.rev \in Nat /\ StoreShape(st)
  BY <1>1 DEF StorageShape, StoreShape
<1>9. opens \in Nat
  BY <1>4, BoundsAssumption
<1> QED
  BY <1>1, <1>2, <1>3, <1>4, <1>5, <1>6, <1>7, <1>8, <1>9

LEMMA NowFacts ==
  ASSUME Sure
  PROVE  /\ Carried(w, io, st.pending, history, gens, opens)
         /\ Stored(file, w, st, io, meta, history, excuses, gens)
         /\ edits \in 0 .. MaxEdits /\ ops \in Nat
         /\ st.cur \in RowT /\ st.mut \in MutationT
         /\ w.phase # "cold" => w.proj = Said(history, w.live) /\ w.proj \in Seq(Nat)
<1>1. history \in Seq(Seq(Nat)) /\ w.live = Len(history) /\ w.live \in Nat
  BY SureFacts
<1>2. Said(history, w.live) \in Seq(Nat)
  BY <1>1, SaidType
<1>3. w.phase # "cold" => w.proj = Said(history, w.live)
  BY DEF Sure, Written, Carried, HistoryOk
<1> QED
  BY <1>2, <1>3 DEF Sure, Written, OnDisk, Stored, RowOk

(* The messages of the owner change, and the row it keeps with them. *)
LEMMA DerivedSame ==
  ASSUME Sure, NEW m \in Seq(Nat), NEW t, t = Derived(st, m)
  PROVE  StoreSame(st, t) /\ t.cur \in RowT /\ t.mut = st.mut
<1>1. StoreShape(st) /\ st.cur \in RowT
  BY SureFacts, NowFacts
<1>2. Len(m) \in Nat
  BY LenProperties
<1>3. [st.cur EXCEPT !.stats = Len(m)] \in RowT
  BY <1>1, <1>2 DEF RowT
<1>4. t = [st EXCEPT !.cur = [st.cur EXCEPT !.stats = Len(m)], !.pend = st.pend \cup {"stats"}]
  BY <1>1 DEF Derived, StoreShape
<1>5. StoreSame(st, t) /\ t.cur = [st.cur EXCEPT !.stats = Len(m)] /\ t.mut = st.mut
  BY <1>1, <1>4 DEF StoreSame, StoreShape
<1> QED  BY <1>3, <1>5

LEMMA SureObserve ==
  ASSUME Sure, Observe
  PROVE  Written' /\ OnDisk'
<1> DEFINE op == ops'
           m == Append(w.proj, op)
<1>1. /\ w.phase = "active" /\ op = ops + 1
      /\ file' = file /\ meta' = meta /\ io' = io /\ excuses' = excuses
      /\ opens' = opens /\ gens' = gens /\ edits' = edits
  BY DEF Observe, Active
<1>2. PICK q \in Queued(w.queue, w.live + 1, op), boundary \in BOOLEAN :
        w' = Schedule(WatchHealth([w EXCEPT !.live = @ + 1, !.proj = m,
                 !.queue = IF w.baseline THEN @ ELSE q]), boundary, Busy)
  BY DEF Observe
<1>3. PICK z : z = [w EXCEPT !.live = @ + 1, !.proj = m,
                             !.queue = IF w.baseline THEN @ ELSE q]
  OBVIOUS
<1>4. IsWriter(w) /\ op \in Nat /\ w.proj = Said(history, w.live) /\ w.proj \in Seq(Nat)
  BY <1>1, SureFacts, NowFacts
<1>5. m \in Seq(Nat)
  BY <1>4, AppendProperties
<1> HIDE DEF m, op
<1>6. /\ IsWriter(z) /\ z.phase = w.phase /\ z.gen = w.gen /\ z.durable = w.durable
      /\ z.retryBatch = w.retryBatch /\ z.baseline = w.baseline /\ z.blocked = w.blocked
      /\ z.complete = w.complete /\ z.attempted = w.attempted
      /\ z.emptyPending = w.emptyPending /\ z.live = w.live + 1 /\ z.proj = m
      /\ z.queue = IF w.baseline THEN w.queue ELSE q
  BY <1>3, <1>4 DEF IsWriter
<1>7. SameCore(z, w')
  BY <1>2, <1>3, <1>6, CoreWatched
<1>8. /\ history' = Append(history, m) /\ st' = Derived(st, m)
  BY <1>6, <1>7 DEF Observe, SameCore
<1>9. Recording(z) => Chain(z.queue, Begin(w, io), w.live + 1, Append(history, m))
  <2> SUFFICES ASSUME Recording(z)
               PROVE  Chain(q, Begin(w, io), w.live + 1, Append(history, m))
    BY <1>6 DEF Recording
  <2>1. Recording(w)
    BY <1>6 DEF Recording
  <2>2. Chain(w.queue, Begin(w, io), w.live, history)
    BY <2>1, NowFacts DEF Carried, QueueOk
  <2>3. Chain(q, Begin(w, io), w.live + 1, Append(history, Append(Said(history, w.live), op)))
    BY <2>2, <1>4, SureFacts, ChainQueued
  <2> QED  BY <2>3, <1>4 DEF m
<1>10. z.queue \in Seq(BatchT)
  <2>1. w.queue \in Seq(BatchT) /\ w.live + 1 \in Nat
    BY SureFacts
  <2>2. Queued(w.queue, w.live + 1, op) \subseteq Seq(BatchT)
    BY <1>4, <2>1, QueuedType
  <2> QED  BY <2>1, <2>2, <1>6
<1>11. Carried(z, io, st.pending, history', gens, opens)
  BY <1>1, <1>5, <1>6, <1>8, <1>9, <1>10, SureFacts, NowFacts, GrowCarries
<1>12. Carried(w', io, st.pending, history', gens, opens)
  BY <1>7, <1>11, CarriedCore
<1>13. StoreSame(st, st') /\ st'.cur \in RowT /\ st'.mut = st.mut
  BY <1>5, <1>8, DerivedSame
<1>14. Continues(history', history)
  BY <1>5, <1>8, SureFacts, ContinuesMore
<1>15. PlaceSame(w, w') /\ w'.blocked = w.blocked /\ w'.complete = w.complete
  BY <1>6, <1>7 DEF PlaceSame, SameCore
<1>16. Stored(file, w', st', io, meta, history', excuses, gens)
  BY <1>13, <1>14, <1>15, SureFacts, NowFacts, FrameDisk
<1>17. Written'
  BY <1>1, <1>4, <1>12, <1>13, NowFacts, SureFacts DEF Written, StoreSame, op
<1>18. OnDisk'
  BY <1>1, <1>16 DEF OnDisk
<1> QED  BY <1>17, <1>18

LEMMA SureObserveFault ==
  ASSUME Sure, ObserveFault
  PROVE  Written' /\ OnDisk'
<1>1. /\ w.phase = "active" /\ excuses' = excuses \cup {"fault"}
      /\ file' = file /\ meta' = meta /\ io' = io
      /\ opens' = opens /\ gens' = gens /\ edits' = edits
  BY DEF ObserveFault, Active
<1>2. IsWriter(w) /\ w.proj = Said(history, w.live) /\ w.proj \in Seq(Nat)
  BY <1>1, SureFacts, NowFacts
<1>3. CASE /\ w' = Fail([w EXCEPT !.complete = FALSE, !.blocked = TRUE], "degraded")
           /\ UNCHANGED <<st, history, ops>>
  <2>1. PICK z : z = [w EXCEPT !.complete = FALSE, !.blocked = TRUE]
    OBVIOUS
  <2>2. /\ IsWriter(z) /\ z.phase = w.phase /\ z.gen = w.gen /\ z.durable = w.durable
        /\ z.retryBatch = w.retryBatch /\ z.baseline = w.baseline /\ z.blocked
        /\ z.attempted = w.attempted /\ z.emptyPending = w.emptyPending
        /\ z.live = w.live /\ z.proj = w.proj /\ z.queue = w.queue
    BY <2>1, <1>2 DEF IsWriter
  <2>3. SameCore(z, w')
    BY <1>3, <2>1, <2>2, CoreHelpers
  <2>4. Carried(z, io, st.pending, history, gens, opens)
    BY <2>2, NowFacts DEF Carried, HistoryOk, QueueOk, Recording, JobOk, NextBatch, PendingOk
  <2>5. Carried(w', io, st.pending, history, gens, opens)
    BY <2>3, <2>4, CarriedCore
  <2>6. PlaceSame(w, w')
    BY <2>2, <2>3 DEF PlaceSame, SameCore
  <2>7. Continues(history, history) /\ StoreSame(st, st)
    BY SureFacts, ContinuesSelf DEF StoreSame
  <2>8. excuses' # {}
    BY <1>1
  <2>9. Stored(file, w', st, io, meta, history, excuses', gens)
    BY <1>1, <2>6, <2>7, <2>8, SureFacts, NowFacts, FrameDisk
  <2> QED  BY <1>1, <1>3, <2>5, <2>9, SureFacts, NowFacts DEF Written, OnDisk
<1>4. CASE /\ ops' = ops + 1
           /\ w' = Fail([w EXCEPT !.complete = FALSE, !.blocked = TRUE,
                            !.live = @ + 1, !.proj = Append(@, ops')], "degraded")
           /\ st' = Derived(st, w'.proj)
           /\ history' = Append(history, w'.proj)
  <2> DEFINE m == Append(w.proj, ops')
  <2>1. PICK z : z = [w EXCEPT !.complete = FALSE, !.blocked = TRUE, !.live = @ + 1,
                               !.proj = m]
    OBVIOUS
  <2>2. ops' \in Nat /\ m \in Seq(Nat)
    BY <1>2, <1>4, NowFacts, AppendProperties
  <2> HIDE DEF m
  <2>3. /\ IsWriter(z) /\ z.phase = w.phase /\ z.gen = w.gen /\ z.durable = w.durable
        /\ z.retryBatch = w.retryBatch /\ z.baseline = w.baseline /\ z.blocked
        /\ z.attempted = w.attempted /\ z.emptyPending = w.emptyPending
        /\ z.live = w.live + 1 /\ z.proj = m /\ z.queue = w.queue
    BY <2>1, <1>2 DEF IsWriter
  <2>4. w' = Fail(z, "degraded")
    BY <1>4, <2>1 DEF m
  <2>5. SameCore(z, w')
    BY <2>3, <2>4, CoreHelpers
  <2>6. history' = Append(history, m) /\ st' = Derived(st, m)
    BY <1>4, <2>3, <2>5 DEF SameCore
  <2>7. ~Recording(z)
    BY <2>3 DEF Recording
  <2>8. Carried(z, io, st.pending, history', gens, opens)
    BY <1>1, <2>2, <2>3, <2>6, <2>7, SureFacts, NowFacts, GrowCarries
  <2>9. Carried(w', io, st.pending, history', gens, opens)
    BY <2>5, <2>8, CarriedCore
  <2>10. StoreSame(st, st') /\ st'.cur \in RowT /\ st'.mut = st.mut
    BY <2>2, <2>6, DerivedSame
  <2>11. Continues(history', history)
    BY <2>2, <2>6, SureFacts, ContinuesMore
  <2>12. PlaceSame(w, w')
    BY <2>3, <2>5 DEF PlaceSame, SameCore
  <2>13. excuses' # {}
    BY <1>1
  <2>14. Stored(file, w', st', io, meta, history', excuses', gens)
    BY <1>1, <2>10, <2>11, <2>12, <2>13, SureFacts, NowFacts, FrameDisk
  <2>15. Written'
    BY <1>1, <2>2, <2>9, <2>10, NowFacts, SureFacts DEF Written, StoreSame
  <2> QED  BY <1>1, <2>14, <2>15 DEF OnDisk
<1> QED
  BY <1>3, <1>4 DEF ObserveFault

(* A barrier adds a revision in which nothing is said. *)
LEMMA RequestCarries ==
  ASSUME NEW x, IsWriter(x), NEW j, NEW p, NEW h, NEW g, NEW o, Carried(x, j, p, h, g, o),
         x.phase = "active", j.job = "replace" => j.rev \in 0 .. Len(h),
         p # NoPending => p.rev \in Nat, NEW y, y = RequestCommit(x)
  PROVE  /\ Carried(y, j, p, Append(h, x.proj), g, o)
         /\ IsWriter(y) /\ PlaceSame(x, y) /\ y.phase = x.phase
         /\ y.blocked = x.blocked /\ y.complete = x.complete /\ y.live = x.live + 1
         /\ y.baseline = x.baseline /\ y.proj = x.proj
<1>1. PICK z : z = [x EXCEPT !.live = @ + 1,
                     !.queue = IF x.baseline THEN @ ELSE Barrier(@, x.live + 1)]
  OBVIOUS
<1>2. /\ IsWriter(z) /\ z.phase = x.phase /\ z.gen = x.gen /\ z.durable = x.durable
      /\ z.retryBatch = x.retryBatch /\ z.baseline = x.baseline /\ z.blocked = x.blocked
      /\ z.complete = x.complete /\ z.attempted = x.attempted
      /\ z.emptyPending = x.emptyPending /\ z.live = x.live + 1 /\ z.proj = x.proj
      /\ z.queue = IF x.baseline THEN x.queue ELSE Barrier(x.queue, x.live + 1)
  BY <1>1 DEF IsWriter
<1>3. y = Schedule(WatchHealth(z), FALSE, Busy)
  BY <1>1 DEF RequestCommit
<1>4. SameCore(z, y)
  BY <1>2, <1>3, CoreWatched
<1>5. /\ h \in Seq(Seq(Nat)) /\ x.live = Len(h) /\ Len(h) \in Nat
      /\ x.proj = Said(h, x.live) /\ x.queue \in Seq(BatchT)
  BY LenProperties DEF Carried, HistoryOk, QueueOk
<1>6. x.proj \in Seq(Nat)
  BY <1>5, SaidType
<1>7. x.live + 1 \in Nat /\ 0 \in Nat
  BY <1>5
<1>8. z.queue \in Seq(BatchT)
  <2>1. Barrier(x.queue, x.live + 1) \in Seq(BatchT)
    BY <1>5, <1>7, QueuedType
  <2> QED  BY <2>1, <1>2, <1>5
<1>9. Recording(z) => Chain(z.queue, Begin(x, j), x.live + 1, Append(h, x.proj))
  <2> SUFFICES ASSUME Recording(z)
               PROVE  Chain(z.queue, Begin(x, j), x.live + 1, Append(h, x.proj))
    OBVIOUS
  <2>1. Recording(x) /\ z.queue = Barrier(x.queue, x.live + 1)
    BY <1>2 DEF Recording
  <2>2. Chain(x.queue, Begin(x, j), x.live, h)
    BY <2>1 DEF Carried, QueueOk
  <2>3. Chain(Barrier(x.queue, x.live + 1), Begin(x, j), x.live + 1,
              Append(h, Said(h, x.live)))
    BY <1>5, <2>2, ChainBarrier
  <2> QED  BY <1>5, <2>1, <2>3
<1>10. Carried(z, j, p, Append(h, x.proj), g, o)
  BY <1>2, <1>6, <1>8, <1>9, GrowCarries
<1>11. Carried(y, j, p, Append(h, x.proj), g, o)
  BY <1>4, <1>10, CarriedCore
<1> QED
  BY <1>2, <1>4, <1>11 DEF SameCore, PlaceSame

LEMMA SurePatch ==
  ASSUME Sure, PatchMetadata
  PROVE  Written' /\ OnDisk'
<1>1. /\ w.phase = "active" /\ excuses' = excuses /\ ops' = ops
      /\ file' = file /\ meta' = meta /\ io' = io
      /\ opens' = opens /\ gens' = gens /\ edits' = edits
  BY DEF PatchMetadata, Active
<1>2. StoreSame(st, st') /\ st'.cur \in RowT /\ st'.mut = st.mut
  <2>1. StoreShape(st) /\ st.cur \in RowT
    BY SureFacts, NowFacts
  <2>2. [st.cur EXCEPT !.title = @ + 1] \in RowT
    BY <2>1 DEF RowT
  <2>3. st' = [st EXCEPT !.cur = [st.cur EXCEPT !.title = @ + 1],
                         !.pend = st.pend \cup {"title"}]
    BY <2>1 DEF PatchMetadata, StoreShape
  <2>4. StoreSame(st, st') /\ st'.cur = [st.cur EXCEPT !.title = @ + 1] /\ st'.mut = st.mut
    BY <2>1, <2>3 DEF StoreSame, StoreShape
  <2> QED  BY <2>2, <2>4
<1>3. CASE w' = w /\ history' = history
  <2>1. Continues(history, history) /\ PlaceSame(w, w)
    BY SureFacts, ContinuesSelf DEF PlaceSame
  <2>2. Stored(file, w, st', io, meta, history, excuses, gens)
    BY <1>2, <2>1, SureFacts, NowFacts, FrameDisk
  <2> QED  BY <1>1, <1>2, <1>3, <2>2, NowFacts, SureFacts DEF Written, OnDisk, StoreSame
<1>4. CASE w' = RequestCommit(w) /\ history' = Append(history, w.proj)
  <2>1. /\ Carried(w', io, st.pending, history', gens, opens)
        /\ PlaceSame(w, w') /\ w'.blocked = w.blocked /\ w'.complete = w.complete
    BY <1>1, <1>4, SureFacts, NowFacts, RequestCarries
  <2>2. Continues(history', history)
    BY <1>1, <1>4, SureFacts, NowFacts, ContinuesMore
  <2>3. Stored(file, w', st', io, meta, history', excuses, gens)
    BY <1>2, <2>1, <2>2, SureFacts, NowFacts, FrameDisk
  <2> QED  BY <1>1, <1>2, <2>1, <2>3, NowFacts, SureFacts DEF Written, OnDisk, StoreSame
<1> QED
  BY <1>3, <1>4 DEF PatchMetadata

(* A rewind is a revision like any other, and one more for its metadata. *)
LEMMA SureRewind ==
  ASSUME Sure, NEW n \in 0 .. MaxRevision, Rewind(n)
  PROVE  Written' /\ OnDisk'
<1>1. /\ w.phase = "active" /\ ~w.blocked /\ io = Idle /\ w.durable = w.live
      /\ n < Len(w.proj) /\ ~st.mut.open
      /\ excuses' = excuses /\ ops' = ops
      /\ file' = file /\ meta' = meta /\ io' = io
      /\ opens' = opens /\ gens' = gens /\ edits' = edits
  BY DEF Rewind, Active, Busy
<1>2. IsWriter(w) /\ w.proj = Said(history, w.live) /\ w.proj \in Seq(Nat)
  BY <1>1, SureFacts, NowFacts
<1>3. n \in Nat /\ Len(w.proj) \in Nat
  BY <1>2, LenProperties, BoundsAssumption
<1> DEFINE m == SubSeq(w.proj, 1, n)
<1>4. m \in Seq(Nat)
  <2>1. \A i \in 1 .. n : w.proj[i] \in Nat
    <3> TAKE i \in 1 .. n
    <3>1. i \in 1 .. Len(w.proj)
      BY <1>1, <1>3
    <3> QED  BY <1>2, <3>1, ElementOfSeq
  <2> QED  BY <1>3, <2>1, SubSeqProperties
<1> HIDE DEF m
<1>5. PICK z : z = [w EXCEPT !.proj = m, !.live = @ + 1, !.queue = <<>>, !.baseline = TRUE]
  OBVIOUS
<1>6. /\ IsWriter(z) /\ z.phase = w.phase /\ z.gen = w.gen /\ z.durable = w.durable
      /\ z.retryBatch = w.retryBatch /\ z.baseline /\ z.blocked = w.blocked
      /\ z.complete = w.complete /\ z.attempted = w.attempted
      /\ z.emptyPending = w.emptyPending /\ z.live = w.live + 1 /\ z.proj = m
      /\ z.queue = <<>>
  BY <1>5, <1>2 DEF IsWriter
<1>7. PICK x : x = Schedule(WatchHealth(z), TRUE, FALSE)
  OBVIOUS
<1>8. SameCore(z, x)
  BY <1>6, <1>7, CoreWatched
<1>9. x.proj = m /\ x.live = w.live + 1
  BY <1>6, <1>8 DEF SameCore
<1>10. w' = RequestCommit(x) /\ history' = history \o <<m, m>>
  <2>1. x = Schedule(WatchHealth([w EXCEPT !.proj = SubSeq(@, 1, n), !.live = @ + 1,
                                !.queue = <<>>, !.baseline = TRUE]), TRUE, FALSE)
    BY <1>5, <1>7 DEF m
  <2>2. w' = RequestCommit(x) /\ history' = history \o <<x.proj, x.proj>>
    BY <2>1 DEF Rewind
  <2> QED  BY <2>2, <1>9
<1>11. w.retryBatch = NoBatch
  <2>1. RetryAhead(w, io)
    BY DEF Sure, Inv, WriterInv, Flow
  <2>2. w.retryBatch.to \in Nat /\ w.live \in Nat
    BY SureFacts DEF Sure, Inv, Shape
  <2> QED  BY <2>1, <2>2, <1>1 DEF RetryAhead
<1>12. io.job = "none"
  BY <1>1 DEF Idle
<1> DEFINE h1 == Append(history, m)
<1>13. Carried(z, io, st.pending, h1, gens, opens)
  <2>1. ~Recording(z) /\ z.queue \in Seq(BatchT)
    BY <1>6, EmptySeq DEF Recording
  <2> QED  BY <1>1, <1>4, <1>6, <1>11, <1>12, <2>1, SureFacts, NowFacts, GrowCarries
<1>14. Carried(x, io, st.pending, h1, gens, opens)
  BY <1>8, <1>13, CarriedCore
<1>15. IsWriter(x) /\ x.phase = "active" /\ PlaceSame(w, x)
       /\ x.blocked = w.blocked /\ x.complete = w.complete
  BY <1>1, <1>6, <1>8 DEF SameCore, PlaceSame
<1>16. /\ Carried(w', io, st.pending, Append(h1, m), gens, opens)
       /\ PlaceSame(x, w') /\ w'.blocked = x.blocked /\ w'.complete = x.complete
  <2> HIDE DEF h1
  <2>1. st.pending # NoPending => st.pending.rev \in Nat
    BY SureFacts
  <2>2. io.job = "replace" => io.rev \in 0 .. Len(h1)
    BY <1>12
  <2> QED  BY <1>9, <1>10, <1>14, <1>15, <2>1, <2>2, RequestCarries
<1>17. history' = Append(h1, m) /\ Continues(history', history)
  <2>1. history \in Seq(Seq(Nat)) /\ h1 \in Seq(Seq(Nat)) /\ Continues(h1, history)
    BY <1>4, SureFacts, ContinuesMore, AppendProperties
  <2>2. Continues(Append(h1, m), h1)
    BY <1>4, <2>1, ContinuesMore
  <2>3. history \o <<m, m>> = Append(h1, m)
    BY <1>4, <2>1, AppendTwice
  <2> HIDE DEF h1
  <2> QED  BY <1>10, <2>1, <2>2, <2>3, ContinuesTwice
<1>18. /\ StoreSame(st, st') /\ st'.cur \in RowT /\ st'.mut \in MutationT
  <2>1. StoreShape(st) /\ st.cur \in RowT
    BY SureFacts, NowFacts
  <2> DEFINE c == [st.cur EXCEPT !.bind = @ + 1, !.stats = n, !.intent = NoIntent]
             u == [NoMutation EXCEPT !.open = TRUE]
  <2>2. c \in RowT
    <3>1. NoIntent \in [src : Nat, dst : Nat, rev : Nat]
      BY DEF NoIntent
    <3>2. st.cur.bind + 1 \in Nat
      BY <2>1 DEF RowT
    <3> QED  BY <2>1, <1>3, <3>1, <3>2 DEF RowT
  <2>3. u \in MutationT
    BY DEF NoMutation, MutationT, Point
  <2>4. st' = [st EXCEPT !.cur = c, !.pend = Keys, !.mut = u]
    BY <2>1 DEF Rewind, StoreShape
  <2> HIDE DEF c, u
  <2>5. StoreSame(st, st') /\ st'.cur = c /\ st'.mut = u
    BY <2>1, <2>4 DEF StoreSame, StoreShape
  <2> QED  BY <2>2, <2>3, <2>5
<1>19. meta # NoRow
  <2>1. w.live # 0
    <3> SUFFICES ASSUME w.live = 0 PROVE FALSE
      OBVIOUS
    <3>1. Len(w.proj) = 0
      BY <1>2, EmptySeq DEF Said
    <3> QED  BY <3>1, <1>1, <1>3
  <2>2. w.durable > 0
    BY <1>1, <2>1, SureFacts
  <2> QED  BY <2>2, NowFacts DEF Stored, RowOk
<1>20. PlaceSame(w, w') /\ w'.blocked = w.blocked /\ w'.complete = w.complete
  BY <1>15, <1>16 DEF PlaceSame
<1>21. Stored(file, w', st', io, meta, history', excuses, gens)
  BY <1>17, <1>18, <1>19, <1>20, SureFacts, NowFacts, FrameDisk
<1> HIDE DEF h1
<1> QED
  BY <1>1, <1>16, <1>17, <1>18, <1>21, NowFacts, SureFacts DEF Written, OnDisk, StoreSame

(* The timers and the deadlines of the owner. *)
LEMMA SureSame ==
  ASSUME Sure, SameCore(w, w'), ops' = ops, edits' = edits, opens' = opens, gens' = gens,
         file' = file, meta' = meta, io' = io, st' = st, history' = history,
         excuses' = excuses
  PROVE  Written' /\ OnDisk'
<1>1. Carried(w', io, st.pending, history, gens, opens)
  BY NowFacts, CarriedCore
<1>2. /\ Continues(history, history) /\ PlaceSame(w, w') /\ StoreSame(st, st)
      /\ w'.blocked = w.blocked /\ w'.complete = w.complete
  BY SureFacts, ContinuesSelf DEF PlaceSame, SameCore, StoreSame
<1>3. Stored(file, w', st, io, meta, history, excuses, gens)
  BY <1>2, SureFacts, NowFacts, FrameDisk
<1> QED  BY <1>1, <1>3, SureFacts, NowFacts DEF Written, OnDisk

LEMMA SureTimers ==
  ASSUME Sure, HealthTimeout \/ Retire \/ RetireTimeout
  PROVE  Written' /\ OnDisk'
<1>1. IsWriter(w)
  BY SureFacts
<1>2. CASE HealthTimeout
  <2>1. PICK z : z = [w EXCEPT !.watch = FALSE]
    OBVIOUS
  <2>2. SameCore(w, z) /\ IsWriter(z)
    BY <1>1, <2>1 DEF IsWriter, SameCore
  <2>3. w' = Fail(z, "degraded")
    BY <1>2, <2>1 DEF HealthTimeout
  <2>4. SameCore(w, w')
    BY <2>2, <2>3, CoreHelpers, CoreTrans
  <2> QED  BY <1>2, <2>4, SureSame DEF HealthTimeout, disk, ghosts
<1>3. CASE Retire
  <2>1. SameCore(w, w')
    BY <1>1, <1>3 DEF Retire, IsWriter, SameCore
  <2> QED  BY <1>3, <2>1, SureSame DEF Retire, disk, ghosts, counts
<1>4. CASE RetireTimeout
  <2>1. PICK z : z = [w EXCEPT !.retiring = FALSE]
    OBVIOUS
  <2>2. SameCore(w, z) /\ IsWriter(z)
    BY <1>1, <2>1 DEF IsWriter, SameCore
  <2>3. w' = Schedule(z, FALSE, Busy)
    BY <1>4, <2>1 DEF RetireTimeout
  <2>4. SameCore(w, w')
    BY <2>2, <2>3, CoreHelpers, CoreTrans
  <2> QED  BY <1>4, <2>4, SureSame DEF RetireTimeout, disk, ghosts, counts
<1> QED  BY <1>2, <1>3, <1>4

LEMMA SureRevoke ==
  ASSUME Sure, Revoke
  PROVE  Written' /\ OnDisk'
<1>1. /\ w.phase = "active" /\ file' = file /\ meta' = meta /\ io' = io /\ st' = st
      /\ history' = history /\ excuses' = excuses /\ ops' = ops /\ edits' = edits
      /\ opens' = opens /\ gens' = gens
  BY DEF Revoke, Active, disk, ghosts, counts
<1>2. PICK q : q = <<>>
  OBVIOUS
<1>3. w' = [w EXCEPT !.phase = "closed", !.timer = "off", !.watch = FALSE, !.queue = q]
  BY <1>2 DEF Revoke
<1>4. /\ IsWriter(w') /\ w'.phase = "closed" /\ w'.gen = w.gen /\ w'.durable = w.durable
      /\ w'.retryBatch = w.retryBatch /\ w'.baseline = w.baseline
      /\ w'.blocked = w.blocked /\ w'.complete = w.complete
      /\ w'.attempted = w.attempted /\ w'.emptyPending = w.emptyPending
      /\ w'.live = w.live /\ w'.proj = w.proj /\ w'.queue = q
  BY <1>3, SureFacts DEF IsWriter
<1>5. q \in Seq(BatchT)
  BY <1>2, EmptySeq
<1>6. Carried(w', io, st.pending, history, gens, opens)
  BY <1>1, <1>4, <1>5, NowFacts
  DEF Carried, HistoryOk, QueueOk, Recording, JobOk, NextBatch, PendingOk
<1>7. Continues(history, history) /\ PlaceSame(w, w') /\ StoreSame(st, st)
  BY <1>1, <1>4, SureFacts, ContinuesSelf DEF PlaceSame, StoreSame
<1>8. Stored(file, w', st, io, meta, history, excuses, gens)
  BY <1>4, <1>7, SureFacts, NowFacts, FrameDisk
<1> QED  BY <1>1, <1>6, <1>8, SureFacts, NowFacts DEF Written, OnDisk

LEMMA RowStored ==
  ASSUME NEW f, NEW x, NEW s, NEW j, NEW m, NEW h, NEW e, NEW g,
         Stored(f, x, s, j, m, h, e, g), m # NoRow, NEW m2 \in RowT, m2 # NoRow
  PROVE  Stored(f, x, s, j, m2, h, e, g)
<1>1. ContentOk(f, x, s.pending, m2, h, e)
  BY DEF Stored, ContentOk
<1>2. RowOk(f, x, s, j, m2, e)
  BY DEF Stored, RowOk
<1> QED  BY <1>1, <1>2 DEF Stored

LEMMA NotNoRow ==
  ASSUME NEW m \in RowT
  PROVE  m # NoRow
<1>1. m.favorite \in 0 .. MaxEdits /\ MaxEdits \in Nat
  BY BoundsAssumption DEF RowT
<1>2. NoRow.favorite = MaxEdits + 1
  BY DEF NoRow, Row
<1> QED  BY <1>1, <1>2

LEMMA SureForeignEdit ==
  ASSUME Sure, ForeignEdit
  PROVE  Written' /\ OnDisk'
<1>1. /\ file' = file /\ io' = io /\ st' = st /\ w' = w /\ ops' = ops
      /\ history' = history /\ excuses' = excuses
      /\ opens' = opens /\ gens' = gens /\ edits' = edits + 1 /\ edits < MaxEdits
      /\ meta # NoRow /\ meta' = [meta EXCEPT !.favorite = edits']
  BY DEF ForeignEdit, ghosts
<1>2. edits' \in 0 .. MaxEdits
  BY <1>1, NowFacts, BoundsAssumption
<1>3. meta \in RowT
  BY <1>1, NowFacts DEF Stored, RowOk
<1>4. meta' \in RowT
  BY <1>1, <1>2, <1>3 DEF RowT
<1>5. Stored(file, w, st, io, meta', history, excuses, gens)
  BY <1>1, <1>4, NotNoRow, NowFacts, RowStored
<1> QED  BY <1>1, <1>2, <1>5, SureFacts, NowFacts DEF Written, OnDisk

-----------------------------------------------------------------------------
(* A write begins. *)

LEMMA IdleIs ==
  /\ Idle.job = "none" /\ Idle.step = "none" /\ Idle.recover = FALSE /\ Idle.patch = Birth
  /\ Birth \in RowT
<1>1. NoIntent \in [src : Nat, dst : Nat, rev : Nat]
  BY DEF NoIntent
<1>2. 0 \in 0 .. MaxEdits
  BY BoundsAssumption
<1>3. Birth \in RowT
  BY <1>1, <1>2 DEF Birth, Row, RowT
<1> QED  BY <1>3 DEF Idle

(* A job that begins finds on disk what the idle owner left there. *)
LEMMA StartStored ==
  ASSUME NEW f, NEW x, NEW y, NEW s, NEW k, NEW m, NEW h, NEW e, NEW g, NEW i,
         i.job = "none", Stored(f, x, s, i, m, h, e, g),
         y.phase = x.phase, y.gen = x.gen, y.durable = x.durable,
         y.retryBatch = x.retryBatch, y.blocked = x.blocked, y.complete = x.complete,
         y.attempted = x.attempted, y.emptyPending => x.emptyPending,
         k.recover => x.emptyPending, k.patch \in RowT,
         \/ k.job = "append" /\ k.step = "open" /\ x.retryBatch \in {NoBatch, k.batch}
         \/ k.job = "replace" /\ k.step = "candidate"
  PROVE  Stored(f, y, s, k, m, h, e, g)
<1>1. FileOk(f, g, e) /\ CursorOk(f, s.cursor) /\ RenamedOk(f, s.pending) /\ ExcusesOk(f, e)
  BY DEF Stored
<1>2. CreatedOk(f, y, s, e)
  BY DEF Stored, CreatedOk
<1>3. ContentOk(f, y, s.pending, m, h, e)
  BY DEF Stored, ContentOk, Mine, FileSays
<1>4. RowOk(f, y, s, k, m, e)
  BY DEF Stored, RowOk
<1>5. StepsOk(f, y, s, k)
  BY DEF StepsOk
<1>6. RowStays(f, y, s.pending, k, e)
  BY DEF Stored, RowStays
<1>7. CauseOk(y, s.pending, k, e)
  BY DEF Stored, CauseOk
<1>8. AsLeft(f, y, s, k, e)
  BY DEF Stored, AsLeft, NothingYet, HeaderBegun, UpToDate, OneAhead, Replaced, Open0
<1> QED
  BY <1>1, <1>2, <1>3, <1>4, <1>5, <1>6, <1>7, <1>8 DEF Stored

LEMMA SureStart ==
  ASSUME Sure, StartWrite([w EXCEPT !.timer = "off"]), ops' = ops, edits' = edits,
         opens' = opens, gens' = gens, file' = file, meta' = meta, st' = st,
         history' = history, excuses' = excuses
  PROVE  Written' /\ OnDisk'
<1>1. PICK x : x = [w EXCEPT !.timer = "off"]
  OBVIOUS
<1>2. SameCore(w, x) /\ IsWriter(x)
  BY <1>1, SureFacts DEF IsWriter, SameCore
<1>3. Carried(x, io, st.pending, history, gens, opens)
  BY <1>2, NowFacts, CarriedCore
<1>4. CASE w' = x /\ io' = io
  <2>1. SameCore(w, w') /\ io' = io
    BY <1>2, <1>4
  <2> QED  BY <2>1, SureSame
<1>5. CASE /\ io = Idle /\ x.phase = "active" /\ ~x.blocked
           /\ \/ x.retryBatch # NoBatch /\ w' = x /\ io' = AppendJob(x, x.retryBatch)
              \/ /\ x.retryBatch = NoBatch /\ x.baseline
                 /\ w' = [x EXCEPT !.queue = <<>>, !.baseline = FALSE, !.emptyPending = FALSE]
                 /\ io' = ReplaceJob(x)
              \/ /\ x.retryBatch = NoBatch /\ ~x.baseline
                 /\ \E n \in 1 .. Len(x.queue) :
                      /\ w' = [x EXCEPT !.queue = SubSeq(@, n + 1, Len(@))]
                      /\ io' = AppendJob(x, Batched(x.queue, n))
  <2>1. /\ history \in Seq(Seq(Nat)) /\ x.live = Len(history) /\ x.live \in Nat
        /\ x.durable \in Nat /\ gens \in Nat /\ opens \in Nat
        /\ x.phase = w.phase /\ x.gen = w.gen /\ x.durable = w.durable
        /\ x.retryBatch = w.retryBatch /\ x.blocked = w.blocked /\ x.complete = w.complete
        /\ x.attempted = w.attempted /\ x.emptyPending = w.emptyPending
    BY <1>2, SureFacts DEF SameCore
  <2>2. /\ HistoryOk(x, history) /\ QueueOk(x, io, history)
        /\ JobOk(x, io, history, opens) /\ PendingOk(x, st.pending, history, gens)
        /\ x.gen \in 0 .. gens /\ (x.phase # "cold" => opens # 0)
    BY <1>3 DEF Carried
  <2>3. io.job = "none"
    BY <1>5, IdleIs
  <2>4. ASSUME NEW b, NextBatch(b, x, history, opens), NEW y, NEW k, k = AppendJob(x, b),
               x.retryBatch \in {NoBatch, b}, SameCore(x, [y EXCEPT !.queue = x.queue]),
               IsWriter(y), ~x.baseline, y.queue \in Seq(BatchT),
               Recording(y) => Chain(y.queue, b.to, x.live, history), w' = y, io' = k
        PROVE  Written' /\ OnDisk'
    <3>1. /\ k.job = "append" /\ k.step = "open" /\ k.expected = Point(x.gen, x.durable)
          /\ k.batch = b /\ k.rev = b.to /\ k.recover = FALSE /\ k.patch = Birth
      BY <2>4 DEF AppendJob, Idle
    <3>2. /\ y.phase = x.phase /\ y.gen = x.gen /\ y.proj = x.proj
          /\ y.baseline = x.baseline /\ y.complete = x.complete /\ y.blocked = x.blocked
          /\ y.attempted = x.attempted /\ y.emptyPending = x.emptyPending
          /\ y.retryBatch = x.retryBatch /\ y.live = x.live /\ y.durable = x.durable
      BY <2>4 DEF SameCore, IsWriter
    <3>3. QueueOk(y, k, history)
      BY <2>4, <3>1, <3>2 DEF QueueOk, Begin
    <3>4. JobOk(y, k, history, opens)
      BY <2>2, <2>4, <3>1, <3>2 DEF JobOk, NextBatch
    <3>5. Carried(y, k, st.pending, history, gens, opens)
      BY <2>2, <3>2, <3>3, <3>4 DEF Carried, HistoryOk, PendingOk
    <3>6. Stored(file, y, st, k, meta, history, excuses, gens)
      BY <2>1, <2>3, <2>4, <3>1, <3>2, IdleIs, NowFacts, StartStored
    <3> QED  BY <2>4, <3>5, <3>6, SureFacts, NowFacts DEF Written, OnDisk
  <2>5. CASE x.retryBatch # NoBatch /\ w' = x /\ io' = AppendJob(x, x.retryBatch)
    <3>1. NextBatch(x.retryBatch, x, history, opens) /\ ~x.baseline
      BY <2>2, <2>5 DEF JobOk
    <3>2. SameCore(x, [x EXCEPT !.queue = x.queue])
      BY <1>2 DEF IsWriter, SameCore
    <3>3. Begin(x, io) = x.retryBatch.to
      BY <2>3, <2>5 DEF Begin
    <3>4. x.queue \in Seq(BatchT)
          /\ (Recording(x) => Chain(x.queue, x.retryBatch.to, x.live, history))
      BY <2>2, <3>3 DEF QueueOk
    <3> QED  BY <1>2, <2>4, <2>5, <3>1, <3>2, <3>4
  <2>6. CASE /\ x.retryBatch = NoBatch /\ x.baseline
             /\ w' = [x EXCEPT !.queue = <<>>, !.baseline = FALSE, !.emptyPending = FALSE]
             /\ io' = ReplaceJob(x)
    <3>1. PICK q : q = <<>>
      OBVIOUS
    <3>2. /\ w'.phase = x.phase /\ w'.gen = x.gen /\ w'.proj = x.proj
          /\ ~w'.baseline /\ w'.complete = x.complete /\ w'.blocked = x.blocked
          /\ w'.attempted = x.attempted /\ w'.emptyPending = FALSE
          /\ w'.retryBatch = x.retryBatch /\ w'.live = x.live /\ w'.durable = x.durable
          /\ w'.queue = q
      BY <1>2, <2>6, <3>1 DEF IsWriter
    <3>3. /\ io'.job = "replace" /\ io'.step = "candidate"
          /\ io'.expected = Point(x.gen, x.durable) /\ io'.rev = x.live
          /\ io'.ops = x.proj /\ io'.recover = x.emptyPending /\ io'.patch = Birth
      BY <2>6 DEF ReplaceJob, Idle
    <3>4. QueueOk(w', io', history)
      <4>1. q \in Seq(BatchT) /\ Chain(q, x.live, x.live, history)
        BY <3>1, ChainEmpty, EmptySeq
      <4> QED  BY <3>2, <3>3, <4>1 DEF QueueOk, Begin
    <3>5. x.proj = Said(history, x.live)
      BY <1>5, <2>2 DEF HistoryOk
    <3>6. JobOk(w', io', history, opens)
      BY <2>6, <3>2, <3>3, <3>5 DEF JobOk
    <3>7. Carried(w', io', st.pending, history, gens, opens)
      BY <2>2, <3>2, <3>4, <3>6 DEF Carried, HistoryOk, PendingOk
    <3>8. Stored(file, w', st, io', meta, history, excuses, gens)
      BY <2>1, <2>3, <3>2, <3>3, IdleIs, NowFacts, StartStored
    <3> QED  BY <3>7, <3>8, SureFacts, NowFacts DEF Written, OnDisk
  <2>7. CASE /\ x.retryBatch = NoBatch /\ ~x.baseline
             /\ \E n \in 1 .. Len(x.queue) :
                  /\ w' = [x EXCEPT !.queue = SubSeq(@, n + 1, Len(@))]
                  /\ io' = AppendJob(x, Batched(x.queue, n))
    <3>1. PICK n \in 1 .. Len(x.queue) :
                  /\ w' = [x EXCEPT !.queue = SubSeq(@, n + 1, Len(@))]
                  /\ io' = AppendJob(x, Batched(x.queue, n))
      BY <2>7
    <3>2. Chain(x.queue, x.durable, x.live, history)
      <4>1. Begin(x, io) = x.durable
        BY <2>3, <2>7 DEF Begin
      <4> QED  BY <1>5, <2>2, <2>7, <4>1 DEF QueueOk, Recording
    <3>3. PICK b : b = Batched(x.queue, n)
      OBVIOUS
    <3>4. Says(b, history) /\ b.inst = opens /\ b.from = x.durable + 1 /\ b.to = x.queue[n].to
      BY <2>1, <3>2, <3>3, ChainBatch
    <3>5. PICK q : q = SubSeq(x.queue, n + 1, Len(x.queue))
      OBVIOUS
    <3>6. Chain(q, b.to, x.live, history)
      BY <3>2, <3>4, <3>5, ChainRest
    <3>7. w' = [x EXCEPT !.queue = q] /\ IsWriter(w') /\ w'.queue = q
      BY <1>2, <3>1, <3>5 DEF IsWriter
    <3>8. SameCore(x, [w' EXCEPT !.queue = x.queue])
      BY <1>2, <3>7 DEF IsWriter, SameCore
    <3>9. q \in Seq(BatchT) /\ NextBatch(b, x, history, opens)
      BY <3>4, <3>6 DEF Chain, NextBatch
    <3> QED  BY <2>4, <2>7, <3>1, <3>3, <3>6, <3>7, <3>8, <3>9
  <2> QED  BY <1>5, <2>5, <2>6, <2>7
<1> QED
  BY <1>1, <1>2, <1>4, <1>5 DEF StartWrite, Busy, Active, SameCore

LEMMA SureTimerFire ==
  ASSUME Sure, TimerFire \/ Flush
  PROVE  Written' /\ OnDisk'
<1>1. /\ StartWrite([w EXCEPT !.timer = "off"]) /\ UNCHANGED <<disk, st, ghosts, counts>>
  BY DEF TimerFire, Flush
<1> QED  BY <1>1, SureStart DEF disk, ghosts, counts

-----------------------------------------------------------------------------
(* A write ends. *)

(* What the flow of the revisions says of a write in flight. *)
LEMMA JobFlow ==
  ASSUME Sure, io # Idle
  PROVE  /\ io.job \in {"append", "replace"} /\ w.phase # "cold"
         /\ io.job = "append" => /\ st.pending = NoPending /\ io.rev = io.batch.to
                                 /\ ~io.recover /\ w.retryBatch \in {NoBatch, io.batch}
                                 /\ NextBatch(io.batch, w, history, opens) /\ ~w.baseline
                                 /\ io.batch # NoBatch /\ io.batch \in BatchT
                                 /\ io.batch.inst # MaxOpens + 1
         /\ io.job = "replace" => /\ w.retryBatch = NoBatch /\ ~w.baseline
                                  /\ io.step = "candidate" \/ st.pending # NoPending
         /\ st.pending # NoPending => w.durable <= st.pending.rev /\ st.pending.rev <= io.rev
         /\ io.expected = Point(w.gen, w.durable)
<1>1. JobShape(io) /\ Shape(w) /\ WriterInv(w, io, st.pending)
  BY DEF Sure, Inv
<1>2. JobOk(w, io, history, opens)
  BY NowFacts DEF Carried
<1>3. /\ io.job \in {"append", "replace"} /\ w.phase # "cold"
      /\ io.job = "append" => /\ st.pending = NoPending /\ io.rev = io.batch.to
                              /\ ~io.recover /\ w.retryBatch \in {NoBatch, io.batch}
      /\ io.job = "replace" => /\ w.retryBatch = NoBatch
                               /\ io.step = "candidate" \/ st.pending # NoPending
      /\ st.pending # NoPending => w.durable <= st.pending.rev
      /\ st.pending # NoPending => io.job = "replace" /\ st.pending.rev <= io.rev
  BY <1>1, SureFacts
  DEF WriterInv, Flow, RetryAhead, AppendAhead, ReplaceAhead, PendingAhead, Cleared
<1>4. /\ io.job = "append" => NextBatch(io.batch, w, history, opens) /\ ~w.baseline
      /\ io.job = "replace" => ~w.baseline
      /\ io.expected = Point(w.gen, w.durable)
  BY <1>2, <1>3 DEF JobOk
<1>5. io.job = "append" => /\ io.batch # NoBatch /\ io.batch \in BatchT
                           /\ io.batch.inst # MaxOpens + 1
  <2> SUFFICES ASSUME io.job = "append"
               PROVE  io.batch # NoBatch /\ io.batch \in BatchT /\ io.batch.inst # MaxOpens + 1
    OBVIOUS
  <2>1. io.batch \in BatchT /\ io.batch.from \in 1 .. io.batch.to /\ io.batch.inst = opens
    BY <1>4 DEF NextBatch, Says
  <2>2. io.batch.to # 0 /\ io.batch # NoBatch
    BY <2>1, NoBatchType DEF BatchT
  <2>3. opens # MaxOpens + 1
    BY SureFacts, BoundsAssumption
  <2> QED  BY <2>1, <2>2, <2>3
<1> QED  BY <1>3, <1>4, <1>5

LEMMA FinallySame ==
  ASSUME NEW x, IsWriter(x), Finally(x)
  PROVE  io' = Idle /\ SameCore(x, w')
BY CoreWatched DEF Finally

(* What is left to do after a write that failed. *)
LEMMA FailedIs ==
  ASSUME Sure, io # Idle, NEW y, y = Failed(w)
  PROVE  /\ IsWriter(y) /\ y.phase = w.phase /\ y.gen = w.gen /\ y.durable = w.durable
         /\ y.live = w.live /\ y.proj = w.proj /\ y.queue = w.queue
         /\ y.complete = w.complete /\ y.attempted = w.attempted
         /\ y.emptyPending = w.emptyPending
         /\ io.recover => y.blocked /\ y.baseline = w.baseline /\ y.retryBatch = w.retryBatch
         /\ ~io.recover => /\ y.blocked = w.blocked
                           /\ y.baseline = (w.baseline \/ io.job = "replace")
                           /\ y.retryBatch = IF io.job = "append" THEN io.batch ELSE w.retryBatch
<1>1. IsWriter(w)
  BY SureFacts
<1>2. CASE io.recover
  <2>1. PICK z : z = [w EXCEPT !.blocked = TRUE, !.retrying = TRUE]
    OBVIOUS
  <2>2. SameCore(z, y)
    <3>1. IsWriter(z)
      BY <1>1, <2>1 DEF IsWriter
    <3>2. y = Fail(z, "degraded")
      BY <1>2, <2>1 DEF Failed
    <3> QED  BY <3>1, <3>2, CoreFails
  <2> QED  BY <1>1, <1>2, <2>1, <2>2 DEF IsWriter, SameCore
<1>3. CASE ~io.recover
  <2>1. PICK b : b = IF io.job = "append" THEN io.batch ELSE w.retryBatch
    OBVIOUS
  <2>2. PICK z : z = [w EXCEPT !.retryBatch = b, !.baseline = @ \/ io.job = "replace",
                               !.retrying = TRUE]
    OBVIOUS
  <2>3. /\ IsWriter(z) /\ z.phase = w.phase /\ z.gen = w.gen /\ z.durable = w.durable
        /\ z.live = w.live /\ z.proj = w.proj /\ z.queue = w.queue
        /\ z.complete = w.complete /\ z.attempted = w.attempted
        /\ z.emptyPending = w.emptyPending /\ z.blocked = w.blocked
        /\ z.baseline = (w.baseline \/ io.job = "replace") /\ z.retryBatch = b
    BY <1>1, <2>2 DEF IsWriter
  <2>4. y = Fail(z, IF z.baseline THEN "degraded" ELSE "retrying")
    <3>1. z = [w EXCEPT !.retryBatch = IF io.job = "append" THEN io.batch ELSE @,
                        !.baseline = @ \/ io.job = "replace", !.retrying = TRUE]
      BY <1>1, <2>1, <2>2 DEF IsWriter
    <3> QED  BY <1>3, <3>1 DEF Failed
  <2>5. SameCore(z, y)
    BY <2>3, <2>4, CoreFails
  <2> QED  BY <1>3, <2>1, <2>3, <2>5 DEF SameCore
<1> QED  BY <1>2, <1>3

LEMMA RefusedIs ==
  ASSUME Sure, NEW y, y = Refused(w)
  PROVE  /\ IsWriter(y) /\ y.phase = w.phase /\ y.gen = w.gen /\ y.durable = w.durable
         /\ y.live = w.live /\ y.proj = w.proj /\ y.complete = w.complete
         /\ y.queue \in Seq(BatchT)
         /\ \/ y.blocked /\ y.baseline = w.baseline /\ y.retryBatch = w.retryBatch
            \/ w.complete /\ y.baseline /\ y.retryBatch = NoBatch
<1>1. IsWriter(w) /\ w.queue \in Seq(BatchT)
  BY SureFacts
<1>2. CASE ~io.recover /\ ~w.attempted /\ w.complete
  <2>1. PICK q : q = <<>>
    OBVIOUS
  <2>2. PICK z : z = [w EXCEPT !.attempted = TRUE, !.emptyPending = TRUE, !.baseline = TRUE,
                      !.retryBatch = NoBatch, !.queue = q, !.retrying = FALSE]
    OBVIOUS
  <2>3. /\ IsWriter(z) /\ z.phase = w.phase /\ z.gen = w.gen /\ z.durable = w.durable
        /\ z.live = w.live /\ z.proj = w.proj /\ z.queue = q
        /\ z.complete = w.complete /\ z.baseline /\ z.retryBatch = NoBatch
    BY <1>1, <2>2 DEF IsWriter
  <2>4. SameCore(z, y)
    <3>1. y = Fail(z, "degraded")
      BY <1>2, <2>1, <2>2 DEF Refused
    <3> QED  BY <2>3, <3>1, CoreFails
  <2>5. q \in Seq(BatchT)
    BY <2>1, EmptySeq
  <2> QED  BY <1>2, <2>3, <2>4, <2>5 DEF SameCore
<1>3. CASE ~(~io.recover /\ ~w.attempted /\ w.complete)
  <2>1. PICK z : z = [w EXCEPT !.blocked = TRUE, !.retrying = TRUE]
    OBVIOUS
  <2>2. SameCore(z, y) /\ IsWriter(z)
    <3>1. IsWriter(z)
      BY <1>1, <2>1 DEF IsWriter
    <3>2. y = Fail(z, "degraded")
      BY <1>3, <2>1 DEF Refused
    <3> QED  BY <3>1, <3>2, CoreFails
  <2> QED  BY <1>1, <2>1, <2>2 DEF IsWriter, SameCore
<1> QED  BY <1>2, <1>3

LEMMA FailedCarries ==
  ASSUME Sure, io # Idle, NEW p, NEW g, PendingOk(w, p, history, g), w.gen \in 0 .. g
  PROVE  Carried(Failed(w), Idle, p, history, g, opens)
<1> DEFINE y == Failed(w)
<1>1. /\ HistoryOk(w, history) /\ QueueOk(w, io, history) /\ JobOk(w, io, history, opens)
      /\ w.phase # "cold" => opens # 0
  BY NowFacts DEF Carried
<1>2. /\ y.phase = w.phase /\ y.gen = w.gen /\ y.durable = w.durable
      /\ y.live = w.live /\ y.proj = w.proj /\ y.queue = w.queue
      /\ io.recover => y.blocked /\ y.baseline = w.baseline /\ y.retryBatch = w.retryBatch
      /\ ~io.recover => /\ y.blocked = w.blocked
                        /\ y.baseline = (w.baseline \/ io.job = "replace")
                        /\ y.retryBatch = IF io.job = "append" THEN io.batch ELSE w.retryBatch
  BY FailedIs
<1> HIDE DEF y
<1>3. HistoryOk(y, history) /\ PendingOk(y, p, history, g)
  BY <1>1, <1>2 DEF HistoryOk, PendingOk
<1>4. QueueOk(y, Idle, history)
  <2>1. y.queue \in Seq(BatchT)
    BY <1>2, SureFacts
  <2>2. ASSUME Recording(y)
        PROVE  Recording(w) /\ io.job = "append" /\ Begin(y, Idle) = Begin(w, io)
    <3>1. ~io.recover /\ io.job = "append" /\ y.retryBatch = io.batch
      BY <1>2, <2>2, JobFlow DEF Recording
    <3>2. Begin(y, Idle) = io.batch.to /\ Begin(w, io) = io.rev
      BY <3>1, IdleIs, JobFlow DEF Begin
    <3>3. Recording(w)
      BY <1>2, <2>2, <3>1 DEF Recording
    <3> QED  BY <3>1, <3>2, <3>3, JobFlow
  <2> QED  BY <1>1, <1>2, <2>1, <2>2 DEF QueueOk
<1>5. JobOk(y, Idle, history, opens)
  <2>1. \A b : NextBatch(b, w, history, opens) => NextBatch(b, y, history, opens)
    BY <1>2 DEF NextBatch
  <2>2. y.retryBatch # NoBatch => NextBatch(y.retryBatch, w, history, opens) /\ ~y.baseline
    BY <1>1, <1>2, JobFlow DEF JobOk
  <2> QED  BY <2>1, <2>2, IdleIs DEF JobOk
<1> QED  BY <1>1, <1>2, <1>3, <1>4, <1>5 DEF Carried, y

LEMMA RefusedCarries ==
  ASSUME Sure, io # Idle, NEW p, NEW g, PendingOk(w, p, history, g), w.gen \in 0 .. g
  PROVE  Carried(Refused(w), Idle, p, history, g, opens)
<1> DEFINE y == Refused(w)
<1>1. /\ HistoryOk(w, history) /\ JobOk(w, io, history, opens)
      /\ w.phase # "cold" => opens # 0
  BY NowFacts DEF Carried
<1>2. /\ y.phase = w.phase /\ y.gen = w.gen /\ y.durable = w.durable
      /\ y.live = w.live /\ y.proj = w.proj /\ y.queue \in Seq(BatchT)
      /\ \/ y.blocked /\ y.baseline = w.baseline /\ y.retryBatch = w.retryBatch
         \/ y.baseline /\ y.retryBatch = NoBatch
  BY RefusedIs
<1> HIDE DEF y
<1>3. HistoryOk(y, history) /\ PendingOk(y, p, history, g)
  BY <1>1, <1>2 DEF HistoryOk, PendingOk
<1>4. QueueOk(y, Idle, history)
  BY <1>2 DEF QueueOk, Recording
<1>5. JobOk(y, Idle, history, opens)
  BY <1>1, <1>2, IdleIs DEF JobOk, NextBatch
<1> QED  BY <1>1, <1>2, <1>3, <1>4, <1>5 DEF Carried, y

(* The file does not move when a write ends. *)
LEMMA EndStored ==
  ASSUME NEW f, NEW x, NEW y, NEW s, NEW j, NEW m, NEW h, NEW e, NEW g,
         Stored(f, x, s, j, m, h, e, g),
         y.phase = x.phase, y.gen = x.gen, y.durable = x.durable,
         \/ e # {}
         \/ /\ y.blocked = x.blocked \/ j.recover
            /\ y.complete = x.complete /\ y.attempted = x.attempted
            /\ y.emptyPending = x.emptyPending
            /\ y.retryBatch = IF j.job = "append" THEN j.batch ELSE x.retryBatch
  PROVE  Stored(f, y, s, Idle, m, h, e, g)
<1>1. FileOk(f, g, e) /\ CursorOk(f, s.cursor) /\ RenamedOk(f, s.pending) /\ ExcusesOk(f, e)
  BY DEF Stored
<1>2. CreatedOk(f, y, s, e)
  BY DEF Stored, CreatedOk
<1>3. ContentOk(f, y, s.pending, m, h, e)
  BY DEF Stored, ContentOk, Mine, FileSays
<1>4. RowOk(f, y, s, Idle, m, e)
  BY IdleIs DEF Stored, RowOk
<1>5. StepsOk(f, y, s, Idle)
  BY IdleIs DEF StepsOk
<1>6. RowStays(f, y, s.pending, Idle, e)
  BY IdleIs DEF Stored, RowStays
<1>7. CauseOk(y, s.pending, Idle, e)
  BY IdleIs DEF Stored, CauseOk
<1>8. AsLeft(f, y, s, Idle, e)
  <2> SUFFICES ASSUME e = {}, y.phase # "cold"
               PROVE  \/ NothingYet(f, y, s) \/ HeaderBegun(f, y, s, Idle)
                      \/ UpToDate(f, y, s, Idle) \/ OneAhead(f, y, Idle) \/ Replaced(f, s.pending)
    BY DEF AsLeft
  <2>1. Open0(y, Idle) = Open0(x, j)
    BY IdleIs DEF Open0
  <2>2. \/ NothingYet(f, x, s) \/ HeaderBegun(f, x, s, j)
        \/ UpToDate(f, x, s, j) \/ OneAhead(f, x, j) \/ Replaced(f, s.pending)
    BY DEF Stored, AsLeft
  <2> QED  BY <2>1, <2>2 DEF NothingYet, HeaderBegun, UpToDate, OneAhead
<1> QED
  BY <1>1, <1>2, <1>3, <1>4, <1>5, <1>6, <1>7, <1>8 DEF Stored

(* A writer that differs from the old one in its timers only. *)
LEMMA CoreStored ==
  ASSUME NEW f, NEW x, NEW y, NEW s, NEW m, NEW h, NEW e, NEW g,
         Stored(f, x, s, Idle, m, h, e, g), SameCore(x, y)
  PROVE  Stored(f, y, s, Idle, m, h, e, g)
<1>1. /\ y.phase = x.phase /\ y.gen = x.gen /\ y.durable = x.durable
      /\ y.blocked = x.blocked /\ y.complete = x.complete /\ y.attempted = x.attempted
      /\ y.emptyPending = x.emptyPending /\ y.retryBatch = x.retryBatch
  BY DEF SameCore
<1>2. y.retryBatch = IF Idle.job = "append" THEN Idle.batch ELSE x.retryBatch
  BY <1>1, IdleIs
<1> QED  BY <1>1, <1>2, EndStored

LEMMA SureIoFail ==
  ASSUME Sure, IoFail
  PROVE  Written' /\ OnDisk'
<1>1. /\ io # Idle /\ Finally(Failed(w)) /\ ops' = ops /\ edits' = edits
      /\ opens' = opens /\ gens' = gens /\ file' = file /\ meta' = meta /\ st' = st
      /\ history' = history /\ excuses' = excuses
  BY DEF IoFail, Busy, disk, ghosts
<1>2. PICK y : y = Failed(w)
  OBVIOUS
<1>3. io' = Idle /\ SameCore(y, w')
  BY <1>1, <1>2, FailedIs, FinallySame
<1>4. Carried(y, Idle, st.pending, history, gens, opens)
  BY <1>1, <1>2, NowFacts, SureFacts, FailedCarries DEF Carried
<1>5. Stored(file, y, st, Idle, meta, history, excuses, gens)
  <2>1. Stored(file, w, st, io, meta, history, excuses, gens)
    BY NowFacts
  <2>2. /\ y.phase = w.phase /\ y.gen = w.gen /\ y.durable = w.durable
        /\ y.complete = w.complete /\ y.attempted = w.attempted
        /\ y.emptyPending = w.emptyPending
        /\ ~io.recover => /\ y.blocked = w.blocked
                          /\ y.retryBatch = IF io.job = "append" THEN io.batch ELSE w.retryBatch
        /\ io.recover => y.retryBatch = w.retryBatch
    BY <1>1, <1>2, FailedIs
  <2>3. io.recover => io.job # "append"
    BY <1>1, JobFlow
  <2> QED  BY <2>1, <2>2, <2>3, EndStored
<1>6. Carried(w', Idle, st.pending, history, gens, opens)
  BY <1>3, <1>4, CarriedCore
<1>7. Stored(file, w', st, Idle, meta, history, excuses, gens)
  BY <1>3, <1>5, CoreStored
<1> QED  BY <1>1, <1>3, <1>6, <1>7, SureFacts, NowFacts DEF Written, OnDisk

-----------------------------------------------------------------------------
(* An append, step by step. *)

LEMMA GotoIs ==
  ASSUME Sure, NEW n, Goto(n)
  PROVE  /\ io'.job = io.job /\ io'.step = n /\ io'.expected = io.expected
         /\ io'.batch = io.batch /\ io'.rev = io.rev /\ io'.ops = io.ops
         /\ io'.recover = io.recover /\ io'.patch = io.patch
<1>1. JobShape(io)
  BY DEF Sure, Inv
<1> QED  BY <1>1 DEF JobShape, Goto

LEMMA SameJobCarries ==
  ASSUME NEW x, NEW j, NEW k, NEW p, NEW h, NEW g, NEW o, Carried(x, j, p, h, g, o),
         k.job = j.job, k.expected = j.expected, k.batch = j.batch, k.rev = j.rev,
         k.ops = j.ops
  PROVE  Carried(x, k, p, h, g, o)
<1>1. QueueOk(x, k, h)
  BY DEF Carried, QueueOk, Begin
<1>2. JobOk(x, k, h, o)
  BY DEF Carried, JobOk
<1> QED  BY <1>1, <1>2 DEF Carried

LEMMA StepWritten ==
  ASSUME Sure, NEW n, Goto(n), ops' = ops, edits' = edits, opens' = opens, gens' = gens,
         w' = w, st'.pending = st.pending, history' = history
  PROVE  Written'
<1>1. Carried(w, io', st.pending, history, gens, opens)
  BY GotoIs, NowFacts, SameJobCarries
<1> QED  BY <1>1, SureFacts, NowFacts DEF Written

(* Parts of Stored that a step of a job does not depend on. *)
LEMMA StepRow ==
  ASSUME NEW f, NEW f2, NEW x, NEW s, NEW s2, NEW j, NEW k, NEW m, NEW e, NEW e2,
         RowOk(f, x, s, j, m, e), s2.cur = s.cur, s2.mut = s.mut, s2.published = s.published,
         k.patch = j.patch, k.step # "indexed",
         m # NoRow => Readable(f2) \/ "emptied" \in e2
  PROVE  RowOk(f2, x, s2, k, m, e2)
BY DEF RowOk

LEMMA SureAppendCreate ==
  ASSUME Certain, AppendCreate
  PROVE  Written' /\ OnDisk'
<1>1. Sure /\ SeenOk(file, w, st, excuses) /\ BirthOk(file, w, st, io, excuses)
  BY DEF Certain, Founded
<1>2. /\ io.job = "append" /\ io.step = "open" /\ file = NoFile /\ st.allowCreate
      /\ Goto("header") /\ meta' = meta /\ w' = w /\ ops' = ops /\ edits' = edits
      /\ opens' = opens /\ gens' = gens /\ history' = history /\ excuses' = excuses
      /\ st' = [st EXCEPT !.created = TRUE]
  BY DEF AppendCreate, At, ghosts, counts
<1>3. PICK kind \in {"empty", "header"} : file' = Transcript(kind, io.expected.gen, 0, <<>>)
  BY DEF AppendCreate
<1>4. io # Idle
  BY <1>2, IdleIs
<1>5. /\ StoreShape(st) /\ w.gen \in 0 .. gens /\ gens \in Nat /\ w.durable \in Nat
  BY <1>1, SureFacts
<1>6. Stored(file, w, st, io, meta, history, excuses, gens)
  BY <1>1, NowFacts
<1>7. /\ st'.created /\ st'.cursor = st.cursor /\ st'.pending = st.pending
      /\ st'.coldTail = st.coldTail /\ st'.allowCreate /\ st'.cur = st.cur
      /\ st'.published = st.published /\ st'.mut = st.mut
  BY <1>2, <1>5 DEF StoreShape
<1>8. st.pending = NoPending /\ io.batch # NoBatch /\ io.expected.gen = w.gen /\ w.phase # "cold"
  BY <1>1, <1>2, <1>4, JobFlow DEF Point
<1>9. /\ file'.kind = kind /\ file'.gen = w.gen /\ file'.base = 0 /\ file'.rows = <<>>
      /\ ~Readable(file') /\ ~Readable(file) /\ file' # NoFile /\ file'.tail = NoBatch
  BY <1>2, <1>3, <1>8 DEF Transcript, Readable, NoFile
<1>10. w.gen # 0
  BY <1>1, <1>2 DEF BirthOk
<1>11. "foreign" \notin excuses /\ "emptied" \notin excuses /\ "row" \notin excuses
  BY <1>1, <1>2 DEF SeenOk
<1>12. meta = NoRow /\ w.durable = 0
  BY <1>5, <1>6, <1>9, <1>11 DEF Stored, RowOk
<1>13. FileOk(file', gens, excuses)
  <2>1. <<>> \in Seq(Nat) /\ <<>> \in Seq(BatchT) /\ Len(<<>>) = 0
    BY EmptySeq
  <2>2. file' \in [kind : {"none", "empty", "header", "v2"}, gen : 0 .. gens, base : Nat,
                   ops : Seq(Nat), rows : Seq(BatchT), tail : BatchT]
    BY <1>3, <1>5, <1>8, <2>1, NoBatchType DEF Transcript
  <2>3. file' = Transcript(file'.kind, file'.gen, 0, <<>>) /\ file'.ops = <<>>
    BY <1>3, <1>8 DEF Transcript
  <2>4. Len(file'.rows) = 0
    BY <1>9, <2>1
  <2> QED  BY <1>9, <1>10, <2>2, <2>3, <2>4 DEF FileOk
<1>14. CursorOk(file', st'.cursor) /\ CreatedOk(file', w, st', excuses)
       /\ ExcusesOk(file', excuses)
  BY <1>6, <1>7, <1>8, <1>9, <1>11, <1>12 DEF CursorOk, CreatedOk, Stored, ExcusesOk
<1>15. ContentOk(file', w, st'.pending, meta, history, excuses) /\ RenamedOk(file', st'.pending)
  BY <1>7, <1>8, <1>9 DEF ContentOk, RenamedOk
<1>16. RowOk(file', w, st', io', meta, excuses)
  BY <1>1, <1>2, <1>6, <1>7, <1>12, GotoIs, StepRow DEF Stored
<1>17. StepsOk(file', w, st', io')
  BY <1>1, <1>2, <1>7, <1>9, <1>12, GotoIs DEF StepsOk
<1>18. RowStays(file', w, st'.pending, io', excuses)
  BY <1>11 DEF RowStays
<1>19. CauseOk(w, st'.pending, io', excuses)
  BY <1>1, <1>2, <1>6, <1>7, GotoIs DEF Stored, CauseOk
<1>20. AsLeft(file', w, st', io', excuses)
  <2>1. Open0(w, io') = io.batch
    BY <1>1, <1>2, GotoIs DEF Open0
  <2> QED  BY <1>7, <1>8, <1>9, <1>12, <2>1 DEF AsLeft, HeaderBegun
<1>21. Stored(file', w, st', io', meta, history, excuses, gens)
  BY <1>13, <1>14, <1>15, <1>16, <1>17, <1>18, <1>19, <1>20 DEF Stored
<1>22. Written'
  BY <1>1, <1>2, <1>7, StepWritten
<1> QED  BY <1>2, <1>21, <1>22 DEF OnDisk

LEMMA SureAppendHeader ==
  ASSUME Certain, AppendHeader
  PROVE  Written' /\ OnDisk'
<1>1. Sure /\ SeenOk(file, w, st, excuses) /\ BirthOk(file, w, st, io, excuses)
  BY DEF Certain, Founded
<1>2. /\ io.job = "append"
      /\ io.step = "header" \/ (io.step = "open" /\ st.created /\ file.kind \in {"empty", "header"})
      /\ Goto("check") /\ meta' = meta /\ w' = w /\ st' = st /\ ops' = ops /\ edits' = edits
      /\ opens' = opens /\ gens' = gens /\ history' = history
      /\ excuses' = excuses \ {"emptied"}
      /\ file' = Transcript("v2", io.expected.gen, 0, <<>>)
  BY DEF AppendHeader, At, OwnHeader, counts
<1>3. io # Idle
  BY <1>2, IdleIs
<1>4. /\ w.gen \in 0 .. gens /\ gens \in Nat /\ w.durable \in Nat
      /\ history \in Seq(Seq(Nat)) /\ Len(history) \in Nat
  BY <1>1, SureFacts
<1>5. Stored(file, w, st, io, meta, history, excuses, gens)
  BY <1>1, NowFacts
<1>6. st.pending = NoPending /\ io.batch # NoBatch /\ io.expected.gen = w.gen /\ w.phase # "cold"
  BY <1>1, <1>2, <1>3, JobFlow DEF Point
<1>7. st.created /\ file.kind \in {"empty", "header"} /\ ~Readable(file)
  BY <1>2, <1>5 DEF Stored, StepsOk, Readable
<1>8. w.durable = 0 /\ w.gen # 0 /\ st.allowCreate
  BY <1>1, <1>5, <1>7 DEF Stored, CreatedOk, BirthOk
<1>9. "row" \notin excuses /\ ("emptied" \in excuses => "foreign" \in excuses)
  BY <1>5, <1>7 DEF Stored, RowStays, ExcusesOk
<1>10. /\ FileOk(file', gens, excuses') /\ Readable(file') /\ file'.gen = w.gen
       /\ file'.base = 0 /\ file'.rows = <<>> /\ file'.tail = NoBatch
       /\ Len(file'.rows) = 0 /\ Revision(file') = 0 /\ Content(file') = <<>>
  <2>1. PICK t : t = <<>>
    OBVIOUS
  <2>2. t \in Seq(Nat)
    BY <2>1, EmptySeq
  <2>3. PICK r \in Nat : r = 0
    OBVIOUS
  <2>4. Fresh(file', w.gen, r, t) /\ w.gen \in Nat
    BY <1>2, <1>4, <1>6, <2>1, <2>3 DEF Fresh
  <2>5. FileOk(file', gens, excuses')
    <3>1. w.gen <= gens /\ (w.gen = 0 => "foreign" \in excuses') /\ (r = 0 => t = <<>>)
      BY <1>4, <1>8, <2>1
    <3> QED  BY <1>4, <2>2, <2>4, <3>1, NewFileOk
  <2>6. /\ Readable(file') /\ file'.gen = w.gen /\ file'.base = r /\ file'.rows = <<>>
        /\ file'.tail = NoBatch /\ Len(file'.rows) = 0 /\ Revision(file') = r
        /\ Content(file') = t
    BY <2>1, <2>2, <2>4, NewFile
  <2> QED  BY <2>1, <2>3, <2>5, <2>6
<1>11. file' # NoFile
  BY <1>10 DEF Readable, NoFile, Transcript
<1>12. CursorOk(file', st.cursor)
  <2>1. st.cursor.gen = w.gen => st.cursor.rev = 0 /\ st.cursor.size = 0
    BY <1>1, <1>7 DEF BirthOk
  <2> QED  BY <1>10, <2>1 DEF CursorOk, Reach
<1>13. CreatedOk(file', w, st, excuses') /\ ExcusesOk(file', excuses')
  BY <1>2, <1>5, <1>6, <1>8, <1>10, <1>11 DEF CreatedOk, Stored, ExcusesOk
<1>14. ContentOk(file', w, st.pending, meta, history, excuses') /\ RenamedOk(file', st.pending)
  <2>1. FileSays(file', w, history)
    BY <1>4, <1>8, <1>10 DEF FileSays, Said
  <2> QED  BY <1>6, <1>10, <2>1 DEF ContentOk, RenamedOk, Mine
<1>15. RowOk(file', w, st, io', meta, excuses')
  BY <1>1, <1>2, <1>5, <1>10, GotoIs, StepRow DEF Stored
<1>16. StepsOk(file', w, st, io')
  BY <1>1, <1>2, <1>10, GotoIs DEF StepsOk
<1>17. RowStays(file', w, st.pending, io', excuses')
  BY <1>2, <1>9 DEF RowStays
<1>18. CauseOk(w, st.pending, io', excuses')
  BY <1>1, <1>2, <1>5, <1>9, GotoIs DEF Stored, CauseOk
<1>19. AsLeft(file', w, st, io', excuses')
  BY <1>8, <1>10 DEF AsLeft, UpToDate
<1>20. Stored(file', w, st, io', meta, history, excuses', gens)
  BY <1>10, <1>12, <1>13, <1>14, <1>15, <1>16, <1>17, <1>18, <1>19 DEF Stored
<1>21. Written'
  BY <1>1, <1>2, StepWritten
<1> QED  BY <1>2, <1>20, <1>21 DEF OnDisk

(* Cutting off an unfinished row changes nothing of what a file says. *)
LEMMA Shortened ==
  ASSUME NEW f, NEW g, NEW e, FileOk(f, g, e), Readable(f),
         NEW f2, f2 = [f EXCEPT !.tail = NoBatch]
  PROVE  /\ FileOk(f2, g, e) /\ Readable(f2) /\ f2.gen = f.gen /\ f2.rows = f.rows
         /\ f2.base = f.base /\ f2.tail = NoBatch
         /\ Revision(f2) = Revision(f) /\ Content(f2) = Content(f)
         /\ LastBatch(f2) = LastBatch(f) /\ \A n : Reach(f2, n) = Reach(f, n)
BY NoBatchType, TailFile

(* Where a batch was found, or is going to be written. *)
LEMMA Admitted ==
  ASSUME NEW f, NEW g, NEW e, FileOk(f, g, e), NEW c, CursorOk(f, c),
         NEW d \in Nat, NEW n, NEW x, x = Point(n, d),
         NEW b \in BatchT, b.from = d + 1, b # NoBatch, NEW cold,
         MayAppend(f, c, x, b, cold), NEW already \in BOOLEAN,
         already <=> AlreadyWritten(f, c, x, b), NEW at,
         at = IF already /\ ~Known(f, c, x) THEN Valid(f) - 1 ELSE Offset(f, c, x)
  PROVE  /\ Readable(f) /\ f.gen = n /\ at \in 0 .. Len(f.rows) /\ Reach(f, at) = d
         /\ already => /\ f.tail = NoBatch /\ LastBatch(f) = b /\ Revision(f) = b.to
         /\ ~already => at = Len(f.rows) /\ Revision(f) = d
<1> DEFINE L == Len(f.rows)
<1>1. /\ L \in Nat /\ Valid(f) = L /\ Revision(f) = Reach(f, L)
      /\ f.rows = <<>> <=> L = 0
      /\ LastBatch(f) = IF f.rows = <<>> THEN NoBatch ELSE f.rows[L]
      /\ TailState(f) = IF f.tail # NoBatch THEN "incomplete" ELSE "clean"
  BY WholeFile
<1>2. x.gen = n /\ x.rev = d
  BY DEF Point
<1>3. Readable(f)
  BY DEF MayAppend, Known
<1>4. CASE Known(f, c, x)
  <2>1. /\ c.gen = n /\ c.rev = d /\ f.gen = n
    <3>1. [gen |-> c.gen, rev |-> c.rev] = x /\ c.gen = f.gen
      BY <1>4 DEF Known
    <3>2. c.gen = x.gen /\ c.rev = x.rev
      BY <3>1
    <3> QED  BY <1>2, <3>1, <3>2
  <2>2. c.size \in 0 .. L /\ Reach(f, c.size) = d
    BY <1>3, <2>1 DEF CursorOk
  <2>3. OwnTail(f, c.size, b) /\ at = c.size /\ (already <=> L = c.size + 1 /\ OwnTail(f, c.size, b))
    BY <1>4 DEF MayAppend, AlreadyWritten, Offset
  <2>4. CASE L = c.size
    <3>1. ~already
      BY <2>2, <2>3, <2>4, <1>1
    <3> QED  BY <1>1, <1>3, <2>1, <2>2, <2>3, <2>4, <3>1
  <2>5. CASE L = c.size + 1 /\ f.rows[c.size + 1] = b /\ f.tail = NoBatch
    <3>1. L # 0 /\ f.rows[L] = b /\ already
      BY <2>2, <2>3, <2>5, <1>1
    <3>2. LastBatch(f) = b /\ Revision(f) = b.to
      BY <1>1, <3>1 DEF Reach
    <3> QED  BY <1>3, <2>1, <2>2, <2>3, <2>5, <3>1, <3>2
  <2> QED  BY <2>3, <2>4, <2>5 DEF OwnTail
<1>5. CASE ~Known(f, c, x)
  <2>1. f.gen = n
    BY <1>2, <1>5 DEF MayAppend
  <2>2. already <=> LastBatch(f) = b /\ TailState(f) = "clean"
    BY <1>5 DEF AlreadyWritten
  <2>3. CASE already
    <3>1. f.tail = NoBatch /\ LastBatch(f) = b /\ L # 0 /\ f.rows[L] = b
      BY <1>1, <2>2, <2>3
    <3>2. Revision(f) = b.to
      BY <1>1, <3>1 DEF Reach
    <3>3. L \in 1 .. L /\ L - 1 \in 0 .. L
      BY <1>1, <3>1
    <3>4. b.from = Reach(f, L - 1) + 1 /\ Reach(f, L - 1) \in Nat
      BY <3>1, <3>3, ReachNext, ReachNat
    <3>5. at = L - 1
      BY <1>1, <1>5, <2>3
    <3> QED  BY <1>3, <2>1, <2>3, <3>1, <3>2, <3>3, <3>4, <3>5
  <2>4. CASE ~already
    <3>1. Revision(f) = d
      BY <1>2, <1>5, <2>4 DEF MayAppend
    <3>2. at = L
      BY <1>1, <1>5, <2>4 DEF Offset
    <3>3. Reach(f, L) = d /\ L \in 0 .. L
      BY <1>1, <3>1
    <3> QED  BY <1>3, <2>1, <2>4, <3>1, <3>2, <3>3
  <2> QED  BY <2>3, <2>4
<1> QED  BY <1>4, <1>5

(* What an owner without an excuse left there admits the batch. *)
LEMMA Admits ==
  ASSUME NEW f, NEW g, NEW e, FileOk(f, g, e), NEW c, CursorOk(f, c),
         NEW d \in Nat, NEW n, NEW x, x = Point(n, d), "foreign" \notin e,
         NEW b \in BatchT, b.from = d + 1, b # NoBatch, NEW cold,
         Readable(f), f.gen = n,
         \/ /\ Revision(f) = d
            /\ f.tail \in {NoBatch, b} \/ (cold /\ c.gen = 0)
         \/ f.tail = NoBatch /\ LastBatch(f) = b
  PROVE  MayAppend(f, c, x, b, cold)
<1> DEFINE L == Len(f.rows)
<1>1. /\ L \in Nat /\ Valid(f) = L /\ Revision(f) = Reach(f, L)
      /\ f.rows = <<>> <=> L = 0
      /\ LastBatch(f) = IF f.rows = <<>> THEN NoBatch ELSE f.rows[L]
      /\ TailState(f) = IF f.tail # NoBatch THEN "incomplete" ELSE "clean"
  BY WholeFile
<1>2. x.gen = n /\ x.rev = d
  BY DEF Point
<1>3. f.gen # 0
  BY DEF FileOk, Readable
<1>4. CASE Known(f, c, x)
  <2>1. c.gen = n /\ c.rev = d
    <3>1. [gen |-> c.gen, rev |-> c.rev] = x
      BY <1>4 DEF Known
    <3>2. c.gen = x.gen /\ c.rev = x.rev
      BY <3>1
    <3> QED  BY <1>2, <3>2
  <2>2. c.size \in 0 .. L /\ Reach(f, c.size) = d
    BY <2>1 DEF CursorOk
  <2>3. CASE Revision(f) = d /\ (f.tail \in {NoBatch, b} \/ (cold /\ c.gen = 0))
    <3>1. f.tail \in {NoBatch, b} /\ Revision(f) = d
      BY <1>3, <2>1, <2>3
    <3>2. L \in 0 .. L
      BY <1>1
    <3>3. c.size = L
      BY <1>1, <2>2, <3>1, <3>2, ReachOnce
    <3> QED  BY <1>4, <3>1, <3>3 DEF MayAppend, OwnTail
  <2>4. CASE f.tail = NoBatch /\ LastBatch(f) = b
    <3>1. L # 0 /\ f.rows[L] = b
      BY <1>1, <2>4
    <3>2. L \in 1 .. L /\ L - 1 \in 0 .. L
      BY <1>1, <3>1
    <3>3. b.from = Reach(f, L - 1) + 1 /\ Reach(f, L - 1) \in Nat
      BY <3>1, <3>2, ReachNext, ReachNat
    <3>4. Reach(f, L - 1) = d
      BY <3>3
    <3>5. c.size = L - 1
      BY <2>2, <3>2, <3>4, ReachOnce
    <3>6. L = c.size + 1
      BY <1>1, <3>5
    <3> QED  BY <1>4, <2>4, <3>1, <3>6 DEF MayAppend, OwnTail
  <2> QED  BY <1>3, <2>1, <2>3, <2>4
<1>5. CASE ~Known(f, c, x)
  <2>1. TailState(f) # "invalid"
    BY <1>1
  <2>2. f.tail = NoBatch /\ LastBatch(f) = b => AlreadyWritten(f, c, x, b)
    BY <1>1, <1>5 DEF AlreadyWritten
  <2> QED  BY <1>2, <1>5, <2>1, <2>2 DEF MayAppend
<1> QED  BY <1>4, <1>5

(* The end of a file may be unfinished or be cut off: nothing depends on   *)
(* it but who may write next.                                              *)
LEMMA TailKeeps ==
  ASSUME NEW f, NEW g, NEW e, FileOk(f, g, e), Readable(f),
         NEW b \in BatchT, NEW f2, f2 = [f EXCEPT !.tail = b]
  PROVE  /\ FileOk(f2, g, e)
         /\ \A c : CursorOk(f, c) => CursorOk(f2, c)
         /\ \A x, s : CreatedOk(f, x, s, e) => CreatedOk(f2, x, s, e)
         /\ ExcusesOk(f, e) => ExcusesOk(f2, e)
         /\ \A x, p, m, h : ContentOk(f, x, p, m, h, e) => ContentOk(f2, x, p, m, h, e)
         /\ \A x, s, j, m : RowOk(f, x, s, j, m, e) => RowOk(f2, x, s, j, m, e)
         /\ \A p : RenamedOk(f, p) => RenamedOk(f2, p)
<1>1. /\ FileOk(f2, g, e) /\ Readable(f2) /\ f2.gen = f.gen /\ f2.rows = f.rows
      /\ f2.base = f.base /\ Revision(f2) = Revision(f) /\ Content(f2) = Content(f)
      /\ \A n : Reach(f2, n) = Reach(f, n)
  BY TailFile
<1>2. f2 # NoFile
  BY <1>1 DEF Readable, NoFile, Transcript
<1>3. \A c : CursorOk(f, c) => CursorOk(f2, c)
  BY <1>1 DEF CursorOk
<1>4. \A x, s : CreatedOk(f, x, s, e) => CreatedOk(f2, x, s, e)
  BY <1>1 DEF CreatedOk
<1>5. ExcusesOk(f, e) => ExcusesOk(f2, e)
  BY <1>2 DEF ExcusesOk
<1>6. \A x, p, m, h : ContentOk(f, x, p, m, h, e) => ContentOk(f2, x, p, m, h, e)
  BY <1>1 DEF ContentOk, Mine, FileSays
<1>7. \A x, s, j, m : RowOk(f, x, s, j, m, e) => RowOk(f2, x, s, j, m, e)
  BY <1>1 DEF RowOk
<1>8. \A p : RenamedOk(f, p) => RenamedOk(f2, p)
  BY <1>1 DEF RenamedOk
<1> QED  BY <1>1, <1>3, <1>4, <1>5, <1>6, <1>7, <1>8

LEMMA CheckPasses ==
  ASSUME Certain, io.job = "append", io # Idle, NEW already \in BOOLEAN,
         already <=> AlreadyWritten(file, st.cursor, io.expected, io.batch), NEW at,
         at = IF already /\ ~Known(file, st.cursor, io.expected) THEN Valid(file) - 1
              ELSE Offset(file, st.cursor, io.expected),
         MayAppend(file, st.cursor, io.expected, io.batch, st.coldTail),
         file' = IF already THEN file ELSE CutAt(file, at),
         st' = [st EXCEPT !.cursor = [gen |-> io.expected.gen, rev |-> io.expected.rev,
                                      size |-> at]],
         Goto(IF already THEN "sync" ELSE "write"), w' = w, meta' = meta, gens' = gens,
         opens' = opens, ops' = ops, edits' = edits, history' = history, excuses' = excuses
  PROVE  Written' /\ OnDisk'
<1>1. Sure
  BY DEF Certain
<1>2. /\ st.pending = NoPending /\ w.phase # "cold" /\ io.expected = Point(w.gen, w.durable)
      /\ io.batch # NoBatch /\ io.batch \in BatchT /\ io.batch.inst # MaxOpens + 1
      /\ io.batch.from = w.durable + 1
  BY <1>1, JobFlow DEF NextBatch
<1>3. Stored(file, w, st, io, meta, history, excuses, gens)
  BY <1>1, NowFacts
<1>4. FileOk(file, gens, excuses) /\ CursorOk(file, st.cursor) /\ w.durable \in Nat
  BY <1>1, <1>3, SureFacts DEF Stored
<1>5. /\ Readable(file) /\ file.gen = w.gen /\ at \in 0 .. Len(file.rows)
      /\ Reach(file, at) = w.durable
      /\ already => /\ file.tail = NoBatch /\ LastBatch(file) = io.batch
                    /\ Revision(file) = io.batch.to
      /\ ~already => at = Len(file.rows) /\ Revision(file) = w.durable
  BY <1>2, <1>4, Admitted
<1>6. /\ st'.cursor = [gen |-> w.gen, rev |-> w.durable, size |-> at]
      /\ st'.pending = st.pending /\ st'.created = st.created /\ st'.coldTail = st.coldTail
      /\ st'.allowCreate = st.allowCreate /\ st'.cur = st.cur /\ st'.mut = st.mut
      /\ st'.published = st.published
  BY <1>1, <1>2, SureFacts DEF StoreShape, Point
<1>7. /\ io'.job = "append" /\ io'.step = (IF already THEN "sync" ELSE "write")
      /\ io'.expected = io.expected /\ io'.batch = io.batch /\ io'.patch = io.patch
      /\ io'.recover = io.recover
  BY <1>1, GotoIs
<1>8. file' = IF already THEN file ELSE [file EXCEPT !.tail = NoBatch]
  BY <1>4, <1>5, CutWhole
<1>9. /\ Readable(file') /\ file'.gen = w.gen /\ file'.rows = file.rows
      /\ file'.tail = NoBatch /\ Revision(file') = Revision(file)
      /\ LastBatch(file') = LastBatch(file) /\ \A n : Reach(file', n) = Reach(file, n)
  BY <1>4, <1>5, <1>8, Shortened
<1>10. /\ FileOk(file', gens, excuses) /\ CreatedOk(file', w, st, excuses)
       /\ ExcusesOk(file', excuses) /\ ContentOk(file', w, st.pending, meta, history, excuses)
       /\ RowOk(file', w, st, io, meta, excuses) /\ RenamedOk(file', st.pending)
  BY <1>3, <1>4, <1>5, <1>8, NoBatchType, TailKeeps DEF Stored
<1>11. CursorOk(file', st'.cursor)
  <2>1. st'.cursor.size = at /\ st'.cursor.rev = w.durable
    BY <1>6
  <2> QED  BY <1>5, <1>9, <2>1 DEF CursorOk
<1>12. CreatedOk(file', w, st', excuses)
  BY <1>6, <1>10 DEF CreatedOk
<1>13. RowOk(file', w, st', io', meta, excuses)
  <2>1. io'.step # "indexed" /\ io'.patch = io.patch
    BY <1>7
  <2>2. /\ st'.cur = st.cur /\ st'.mut = st.mut /\ st'.published = st.published
    BY <1>6
  <2> QED  BY <1>9, <1>10, <2>1, <2>2 DEF RowOk
<1>14. StepsOk(file', w, st', io')
  <2>1. CASE already
    <3>1. Point(file'.gen, Revision(file')) = Committing(io', st'.pending)
      BY <1>2, <1>5, <1>7, <1>9, <2>1 DEF Committing, Point
    <3> QED  BY <1>5, <1>7, <1>9, <2>1, <3>1 DEF StepsOk
  <2>2. CASE ~already
    BY <1>5, <1>6, <1>7, <1>9, <2>2 DEF StepsOk
  <2> QED  BY <2>1, <2>2
<1>15. "row" \notin excuses
  <2> SUFFICES ASSUME "row" \in excuses PROVE FALSE
    OBVIOUS
  <2>1. /\ file.rows # <<>> /\ file.rows[Len(file.rows)].inst = MaxOpens + 1
        /\ Revision(file) > w.durable
    BY <1>2, <1>3, <1>5 DEF Stored, RowStays
  <2>2. already
    BY <1>4, <1>5, <2>1
  <2>3. LastBatch(file) = file.rows[Len(file.rows)]
    BY <1>4, <2>1, WholeFile
  <2> QED  BY <1>2, <1>5, <2>1, <2>2, <2>3
<1>16. RowStays(file', w, st'.pending, io', excuses)
  BY <1>15 DEF RowStays
<1>17. CauseOk(w, st'.pending, io', excuses)
  BY <1>3, <1>6, <1>7 DEF Stored, CauseOk
<1>18. AsLeft(file', w, st', io', excuses)
  <2>1. Open0(w, io') = io.batch
    BY <1>7 DEF Open0
  <2> QED  BY <1>2, <1>5, <1>9, <2>1 DEF AsLeft, UpToDate, OneAhead
<1>19. Stored(file', w, st', io', meta, history, excuses, gens)
  BY <1>6, <1>10, <1>11, <1>12, <1>13, <1>14, <1>16, <1>17, <1>18 DEF Stored
<1>20. Written'
  BY <1>1, <1>6, StepWritten
<1> QED  BY <1>19, <1>20 DEF OnDisk

LEMMA CheckRefuses ==
  ASSUME Certain, io.job = "append", io # Idle,
         io.step = "check" \/ (io.step = "open" /\ file # NoFile /\ ~OwnHeader),
         ~MayAppend(file, st.cursor, io.expected, io.batch, st.coldTail)
  PROVE  excuses # {}
<1> SUFFICES ASSUME excuses = {} PROVE FALSE
  OBVIOUS
<1>1. Sure
  BY DEF Certain
<1>2. /\ st.pending = NoPending /\ w.phase # "cold" /\ io.expected = Point(w.gen, w.durable)
      /\ io.batch # NoBatch /\ io.batch \in BatchT /\ io.batch.from = w.durable + 1
  BY <1>1, JobFlow DEF NextBatch
<1>3. Stored(file, w, st, io, meta, history, excuses, gens)
  BY <1>1, NowFacts
<1>4. FileOk(file, gens, excuses) /\ CursorOk(file, st.cursor) /\ w.durable \in Nat
  BY <1>1, <1>3, SureFacts DEF Stored
<1>5. Open0(w, io) = io.batch
  BY DEF Open0
<1>6. file # NoFile /\ ~(file.kind \in {"empty", "header"} /\ st.created)
  BY <1>3 DEF Stored, StepsOk, Readable, OwnHeader, NoFile, Transcript
<1>7. UpToDate(file, w, st, io) \/ OneAhead(file, w, io)
  BY <1>2, <1>3, <1>6 DEF Stored, AsLeft, NothingYet, HeaderBegun, Replaced
<1>8. /\ Readable(file) /\ file.gen = w.gen
      /\ \/ /\ Revision(file) = w.durable
            /\ file.tail \in {NoBatch, io.batch} \/ (st.coldTail /\ st.cursor.gen = 0)
         \/ file.tail = NoBatch /\ LastBatch(file) = io.batch
  BY <1>5, <1>7 DEF UpToDate, OneAhead
<1>9. "foreign" \notin excuses
  OBVIOUS
<1> QED  BY <1>2, <1>4, <1>8, <1>9, Admits

LEMMA SureAppendCheck ==
  ASSUME Certain, AppendCheck
  PROVE  Written' /\ OnDisk'
<1> DEFINE known   == Known(file, st.cursor, io.expected)
           already == AlreadyWritten(file, st.cursor, io.expected, io.batch)
           at      == IF already /\ ~known THEN Valid(file) - 1
                      ELSE Offset(file, st.cursor, io.expected)
<1>1. /\ Sure /\ io.job = "append" /\ meta' = meta /\ history' = history /\ excuses' = excuses
      /\ io.step = "check" \/ (io.step = "open" /\ file # NoFile /\ ~OwnHeader)
      /\ gens' = gens /\ opens' = opens /\ ops' = ops /\ edits' = edits
  BY DEF Certain, AppendCheck, At, ghosts, counts
<1>2. io # Idle
  BY <1>1, IdleIs
<1>3. CASE MayAppend(file, st.cursor, io.expected, io.batch, st.coldTail)
  <2>1. PICK a \in BOOLEAN : a <=> already
    OBVIOUS
  <2>2. PICK n : n = at
    OBVIOUS
  <2>3. n = IF a /\ ~known THEN Valid(file) - 1 ELSE Offset(file, st.cursor, io.expected)
    BY <2>1, <2>2
  <2>4. /\ file' = IF a THEN file ELSE CutAt(file, n)
        /\ st' = [st EXCEPT !.cursor = [gen |-> io.expected.gen, rev |-> io.expected.rev,
                                        size |-> n]]
        /\ Goto(IF a THEN "sync" ELSE "write") /\ w' = w
    BY <1>3, <2>1, <2>2 DEF AppendCheck
  <2> HIDE DEF at
  <2> QED  BY <1>1, <1>2, <1>3, <2>1, <2>3, <2>4, CheckPasses
<1>4. CASE ~MayAppend(file, st.cursor, io.expected, io.batch, st.coldTail)
  <2>1. Finally(Refused(w)) /\ file' = file /\ st' = st
    BY <1>4 DEF AppendCheck
  <2>2. excuses # {}
    BY <1>1, <1>2, <1>4, CheckRefuses
  <2>3. PICK y : y = Refused(w)
    OBVIOUS
  <2>4. io' = Idle /\ SameCore(y, w')
    BY <1>1, <2>1, <2>3, RefusedIs, FinallySame
  <2>5. Carried(y, Idle, st.pending, history, gens, opens)
    BY <1>1, <1>2, <2>3, NowFacts, SureFacts, RefusedCarries DEF Carried
  <2>6. Stored(file, y, st, Idle, meta, history, excuses, gens)
    BY <1>1, <2>2, <2>3, NowFacts, RefusedIs, EndStored
  <2>7. Carried(w', Idle, st.pending, history, gens, opens)
    BY <2>4, <2>5, CarriedCore
  <2>8. Stored(file, w', st, Idle, meta, history, excuses, gens)
    BY <2>4, <2>6, CoreStored
  <2> QED  BY <1>1, <2>1, <2>4, <2>7, <2>8, SureFacts, NowFacts DEF Written, OnDisk
<1> QED  BY <1>3, <1>4

(* A batch is written behind what is saved; its last byte commits it.      *)
LEMMA WriteFacts ==
  ASSUME Sure, io.job = "append", io.step = "write"
  PROVE  /\ io # Idle /\ w.phase # "cold" /\ st.pending = NoPending
         /\ io.batch \in BatchT /\ io.batch # NoBatch /\ Says(io.batch, history)
         /\ io.batch.from = w.durable + 1 /\ io.batch.from \in 1 .. io.batch.to
         /\ io.batch.to <= Len(history) /\ io.batch.to \in Nat
         /\ io.expected = Point(w.gen, w.durable) /\ w.durable \in Nat
         /\ Readable(file) /\ file.gen = w.gen /\ Revision(file) = w.durable
         /\ st.cursor = [gen |-> w.gen, rev |-> w.durable, size |-> Len(file.rows)]
         /\ "row" \notin excuses /\ FileOk(file, gens, excuses)
         /\ Stored(file, w, st, io, meta, history, excuses, gens)
<1>1. io # Idle
  BY IdleIs
<1>2. /\ st.pending = NoPending /\ w.phase # "cold" /\ io.expected = Point(w.gen, w.durable)
      /\ io.batch # NoBatch /\ io.batch \in BatchT /\ NextBatch(io.batch, w, history, opens)
  BY <1>1, JobFlow
<1>3. Stored(file, w, st, io, meta, history, excuses, gens)
  BY NowFacts
<1>4. /\ Says(io.batch, history) /\ io.batch.from = w.durable + 1
      /\ io.batch.from \in 1 .. io.batch.to /\ io.batch.to <= Len(history)
      /\ io.batch.to \in Nat
  BY <1>2 DEF NextBatch, Says, BatchT
<1>5. /\ Readable(file) /\ file.gen = w.gen /\ Revision(file) = w.durable
      /\ st.cursor = [gen |-> w.gen, rev |-> w.durable, size |-> Len(file.rows)]
  BY <1>3 DEF Stored, StepsOk
<1>6. "row" \notin excuses
  BY <1>3 DEF Stored, RowStays
<1>7. FileOk(file, gens, excuses) /\ w.durable \in Nat
  BY <1>3, SureFacts DEF Stored
<1> QED  BY <1>1, <1>2, <1>3, <1>4, <1>5, <1>6, <1>7

LEMMA SureAppendPart ==
  ASSUME Certain, AppendPart
  PROVE  Written' /\ OnDisk'
<1>1. /\ Sure /\ io.job = "append" /\ io.step = "write"
      /\ file' = [file EXCEPT !.tail = io.batch] /\ meta' = meta /\ w' = w /\ st' = st
      /\ io' = io /\ history' = history /\ excuses' = excuses
      /\ gens' = gens /\ opens' = opens /\ ops' = ops /\ edits' = edits
  BY DEF Certain, AppendPart, At, ghosts, counts
<1>2. /\ w.phase # "cold" /\ io.batch \in BatchT /\ Readable(file) /\ file.gen = w.gen
      /\ Revision(file) = w.durable /\ "row" \notin excuses /\ FileOk(file, gens, excuses)
      /\ Stored(file, w, st, io, meta, history, excuses, gens)
      /\ st.cursor = [gen |-> w.gen, rev |-> w.durable, size |-> Len(file.rows)]
  BY <1>1, WriteFacts
<1>3. /\ Readable(file') /\ file'.gen = file.gen /\ file'.rows = file.rows
      /\ file'.tail = io.batch /\ Revision(file') = Revision(file)
  BY <1>1, <1>2, TailFile
<1>4. /\ FileOk(file', gens, excuses) /\ CursorOk(file', st.cursor)
      /\ CreatedOk(file', w, st, excuses) /\ ExcusesOk(file', excuses)
      /\ ContentOk(file', w, st.pending, meta, history, excuses)
      /\ RowOk(file', w, st, io, meta, excuses) /\ RenamedOk(file', st.pending)
  BY <1>1, <1>2, TailKeeps DEF Stored
<1>5. StepsOk(file', w, st, io)
  BY <1>1, <1>2, <1>3 DEF StepsOk
<1>6. RowStays(file', w, st.pending, io, excuses)
  BY <1>2 DEF RowStays
<1>7. AsLeft(file', w, st, io, excuses)
  <2>1. Open0(w, io) = io.batch
    BY <1>1 DEF Open0
  <2> QED  BY <1>2, <1>3, <2>1 DEF AsLeft, UpToDate
<1>8. CauseOk(w, st.pending, io, excuses)
  BY <1>2 DEF Stored
<1>9. Stored(file', w, st, io, meta, history, excuses, gens)
  BY <1>4, <1>5, <1>6, <1>7, <1>8 DEF Stored
<1> QED  BY <1>1, <1>9, NowFacts, SureFacts DEF Written, OnDisk

LEMMA SureAppendRow ==
  ASSUME Certain, AppendRow
  PROVE  Written' /\ OnDisk'
<1>1. /\ Sure /\ io.job = "append" /\ io.step = "write" /\ Goto("sync")
      /\ file' = [file EXCEPT !.rows = Append(@, io.batch), !.tail = NoBatch]
      /\ meta' = meta /\ w' = w /\ st' = st
      /\ history' = history /\ excuses' = excuses
      /\ gens' = gens /\ opens' = opens /\ ops' = ops /\ edits' = edits
  BY DEF Certain, AppendRow, At, ghosts, counts
<1>2. /\ w.phase # "cold" /\ io.batch \in BatchT /\ Readable(file) /\ file.gen = w.gen
      /\ Revision(file) = w.durable /\ "row" \notin excuses /\ FileOk(file, gens, excuses)
      /\ Stored(file, w, st, io, meta, history, excuses, gens)
      /\ st.cursor = [gen |-> w.gen, rev |-> w.durable, size |-> Len(file.rows)]
      /\ Says(io.batch, history) /\ io.batch.from = w.durable + 1 /\ w.durable \in Nat
      /\ io.batch.from \in 1 .. io.batch.to /\ io.batch.to <= Len(history)
      /\ io.expected = Point(w.gen, w.durable) /\ st.pending = NoPending
      /\ io.batch # NoBatch /\ io.batch.to \in Nat
  BY <1>1, WriteFacts
<1>3. io.batch.from = Revision(file) + 1 /\ io.batch.to >= io.batch.from
  BY <1>2
<1>4. /\ FileOk(file', gens, excuses) /\ Readable(file') /\ file'.gen = file.gen
      /\ file'.base = file.base
      /\ Len(file'.rows) = Len(file.rows) + 1 /\ file'.tail = NoBatch
      /\ Revision(file') = io.batch.to /\ LastBatch(file') = io.batch
      /\ Content(file') = Content(file) \o io.batch.ops
      /\ \A n \in 0 .. Len(file.rows) : Reach(file', n) = Reach(file, n)
  <2>1. PICK f : f = file
    OBVIOUS
  <2>2. PICK b \in BatchT : b = io.batch
    BY <1>2
  <2>3. /\ FileOk(f, gens, excuses) /\ Readable(f) /\ b.from = Revision(f) + 1
        /\ b.to >= b.from /\ Grown(file', f, b)
    BY <1>1, <1>2, <1>3, <2>1, <2>2 DEF Grown
  <2>4. FileOk(file', gens, excuses)
    BY <2>3, GrownContent
  <2>5. /\ Readable(file') /\ file'.gen = f.gen
        /\ file'.base = f.base
        /\ Len(file'.rows) = Len(f.rows) + 1 /\ file'.tail = NoBatch
        /\ Revision(file') = b.to /\ LastBatch(file') = b
        /\ Content(file') = Content(f) \o b.ops
        /\ \A n \in 0 .. Len(f.rows) : Reach(file', n) = Reach(f, n)
    BY <2>3, GrownContent
  <2> QED  BY <2>1, <2>2, <2>4, <2>5
<1>5. file' # NoFile
  BY <1>4 DEF Readable, NoFile, Transcript
<1>6. CursorOk(file', st.cursor)
  <2>1. /\ st.cursor.size = Len(file.rows) /\ st.cursor.rev = w.durable
    BY <1>2
  <2>2. Len(file.rows) \in Nat /\ Revision(file) = Reach(file, Len(file.rows))
    BY <1>2, WholeFile
  <2>3. Len(file.rows) \in 0 .. Len(file.rows)
    BY <2>2
  <2>4. Reach(file', Len(file.rows)) = w.durable
    BY <1>2, <1>4, <2>2, <2>3
  <2> QED  BY <1>4, <2>1, <2>2, <2>4 DEF CursorOk
<1>7. CreatedOk(file', w, st, excuses) /\ ExcusesOk(file', excuses)
      /\ RenamedOk(file', st.pending)
  BY <1>2, <1>4, <1>5 DEF Stored, CreatedOk, ExcusesOk, RenamedOk
<1>8. ContentOk(file', w, st.pending, meta, history, excuses)
  <2>1. Mine(file', w, st.pending) /\ Mine(file, w, st.pending)
    BY <1>2, <1>4 DEF Mine
  <2>2. SUFFICES ASSUME Trusted(excuses) PROVE FileSays(file', w, history)
    BY <2>1 DEF ContentOk
  <2>3. FileSays(file, w, history)
    BY <1>2, <2>1, <2>2 DEF Stored, ContentOk
  <2>4. Content(file) = Said(history, w.durable)
    BY <1>2, <2>3 DEF FileSays
  <2>5. Said(history, io.batch.to) = Said(history, w.durable) \o io.batch.ops
    <3>1. Said(history, io.batch.to) = Said(history, io.batch.from - 1) \o io.batch.ops
      BY <1>2 DEF Says
    <3>2. io.batch.from - 1 = w.durable
      BY <1>2
    <3> QED  BY <3>1, <3>2
  <2>6. io.batch.to \in w.durable .. Len(history)
    <3>1. Len(history) \in Nat
      BY <1>1, SureFacts
    <3> QED  BY <1>2, <3>1
  <2> QED  BY <1>4, <2>4, <2>5, <2>6 DEF FileSays
<1>9. /\ io'.job = "append" /\ io'.step = "sync"
      /\ io'.expected = io.expected /\ io'.batch = io.batch /\ io'.patch = io.patch
      /\ io'.recover = io.recover
  BY <1>1, GotoIs
<1>10. RowOk(file', w, st, io', meta, excuses)
  <2>1. RowOk(file, w, st, io, meta, excuses)
    BY <1>2 DEF Stored
  <2> QED  BY <1>4, <1>9, <2>1 DEF RowOk
<1>11. StepsOk(file', w, st, io')
  <2>1. Point(file'.gen, Revision(file')) = Committing(io', st.pending)
    BY <1>2, <1>4, <1>9 DEF Committing, Point
  <2> QED  BY <1>4, <1>9, <2>1 DEF StepsOk
<1>12. RowStays(file', w, st.pending, io', excuses)
  BY <1>2 DEF RowStays
<1>13. AsLeft(file', w, st, io', excuses)
  <2>1. Open0(w, io') = io.batch
    BY <1>9 DEF Open0
  <2> QED  BY <1>2, <1>4, <2>1 DEF AsLeft, OneAhead
<1>14. CauseOk(w, st.pending, io', excuses)
  BY <1>2, <1>9 DEF Stored, CauseOk
<1>15. Stored(file', w, st, io', meta, history, excuses, gens)
  BY <1>4, <1>6, <1>7, <1>8, <1>10, <1>11, <1>12, <1>13, <1>14 DEF Stored
<1>16. Written'
  BY <1>1, StepWritten
<1> QED  BY <1>1, <1>15, <1>16 DEF OnDisk

(* A candidate holds the history up to its revision, under a generation    *)
(* no file has; one that is left from an earlier try still does.           *)
LEMMA CandidateIs ==
  ASSUME Sure, io.job = "replace", NEW c, c = Candidate,
         NEW g, g = IF st.pending = NoPending THEN gens + 1 ELSE gens
  PROVE  /\ c # NoPending /\ c.rev \in Nat /\ w.durable <= c.rev /\ c.rev <= Len(history)
         /\ c.ops = Said(history, c.rev) /\ c.gen \in 1 .. g /\ c.gen # w.gen
         /\ c.expected = Point(w.gen, w.durable) /\ PendingOk(w, c, history, g)
         /\ g \in Nat /\ gens <= g /\ w.gen \in 0 .. g
         /\ st.pending = NoPending => c.gen = gens + 1 /\ c.empty = io.recover
         /\ st.pending # NoPending => c = st.pending
         /\ StoreShape([st EXCEPT !.pending = c])
         /\ w.retryBatch = NoBatch /\ w.phase # "cold" /\ io # Idle
<1>1. /\ io # Idle /\ w.phase # "cold" /\ w.retryBatch = NoBatch
      /\ st.pending # NoPending => w.durable <= st.pending.rev /\ st.pending.rev <= io.rev
      /\ io.expected = Point(w.gen, w.durable)
  BY JobFlow, IdleIs
<1>2. /\ gens \in Nat /\ w.gen \in 0 .. gens /\ io.rev \in 0 .. Len(history)
      /\ Len(history) \in Nat /\ w.durable \in Nat /\ st.pending.rev \in Nat /\ StoreShape(st)
  BY SureFacts
<1>3. io.ops = Said(history, io.rev) /\ PendingOk(w, st.pending, history, gens)
  BY NowFacts DEF Carried, JobOk
<1>4. w.durable <= io.rev
  BY DEF Sure, Inv, WriterInv, Flow, ReplaceAhead
<1>5. CASE st.pending = NoPending
  <2>1. /\ c.gen = gens + 1 /\ c.rev = io.rev /\ c.ops = io.ops /\ c.empty = io.recover
        /\ c.expected = io.expected /\ g = gens + 1
    BY <1>5 DEF Candidate
  <2>2. c # NoPending
    BY <1>2, <2>1 DEF NoPending
  <2>3. c.gen \in 1 .. g /\ c.gen # w.gen /\ g \in Nat /\ w.gen \in 0 .. g /\ gens <= g
    BY <1>2, <2>1
  <2>4. PendingOk(w, c, history, g)
    BY <1>1, <1>2, <1>3, <2>1, <2>3 DEF PendingOk
  <2>5. StoreShape([st EXCEPT !.pending = c])
    BY <1>2, <1>5, <2>1 DEF StoreShape, Candidate
  <2> QED  BY <1>1, <1>2, <1>3, <1>4, <1>5, <2>1, <2>2, <2>3, <2>4, <2>5
<1>6. CASE st.pending # NoPending
  <2>1. c = st.pending /\ g = gens
    BY <1>6 DEF Candidate
  <2>2. StoreShape([st EXCEPT !.pending = c])
    BY <1>2, <2>1 DEF StoreShape
  <2> QED  BY <1>1, <1>2, <1>3, <1>6, <2>1, <2>2 DEF PendingOk
<1> QED  BY <1>5, <1>6

(* A candidate that is noted changes nothing of what is stored. *)
LEMMA CandidateStored ==
  ASSUME Sure, io.job = "replace", io.step = "candidate", NEW c, c = Candidate,
         NEW g, g = IF st.pending = NoPending THEN gens + 1 ELSE gens,
         NEW t, t = [st EXCEPT !.pending = c]
  PROVE  /\ Stored(file, w, t, io, meta, history, excuses, g)
         /\ t.pending = c /\ t.coldTail = st.coldTail /\ t.allowCreate = st.allowCreate
         /\ t.mut = st.mut
<1>1. /\ c # NoPending /\ g \in Nat /\ gens <= g /\ w.retryBatch = NoBatch
      /\ st.pending = NoPending => c.gen = gens + 1 /\ c.empty = io.recover
      /\ st.pending # NoPending => c = st.pending
  BY CandidateIs
<1>2. gens \in Nat /\ StoreShape(st)
  BY SureFacts
<1>3. Stored(file, w, st, io, meta, history, excuses, gens)
  BY NowFacts
<1>4. /\ t.pending = c /\ t.coldTail = st.coldTail /\ t.allowCreate = st.allowCreate
      /\ t.mut = st.mut /\ t.cursor = st.cursor /\ t.created = st.created
      /\ t.cur = st.cur /\ t.published = st.published
  BY <1>2 DEF StoreShape
<1>5. FileOk(file, gens, excuses)
  BY <1>3 DEF Stored
<1>6. FileOk(file, g, excuses) /\ file.gen \in 0 .. gens
  <2>1. file.gen \in 0 .. gens
    BY <1>5 DEF FileOk
  <2>2. 0 .. gens \subseteq 0 .. g
    BY <1>1, <1>2
  <2> QED  BY <1>5, <2>1, <2>2 DEF FileOk
<1>7. st.pending = NoPending => file.gen # c.gen
  BY <1>1, <1>2, <1>6
<1>8. Mine(file, w, c) <=> Mine(file, w, st.pending)
  BY <1>1, <1>7 DEF Mine
<1>9. ContentOk(file, w, c, meta, history, excuses)
  BY <1>3, <1>8 DEF Stored, ContentOk
<1>10. CreatedOk(file, w, t, excuses) /\ RowOk(file, w, t, io, meta, excuses)
  BY <1>3, <1>4 DEF Stored, CreatedOk, RowOk
<1>11. RenamedOk(file, c)
  BY <1>1, <1>3, <1>7 DEF Stored, RenamedOk
<1>12. StepsOk(file, w, t, io)
  BY DEF StepsOk
<1>13. RowStays(file, w, c, io, excuses)
  BY <1>1, <1>3, <1>7 DEF Stored, RowStays
<1>14. CauseOk(w, c, io, excuses)
  BY <1>1, <1>3 DEF Stored, CauseOk
<1>15. AsLeft(file, w, t, io, excuses)
  BY <1>1, <1>3, <1>4 DEF Stored, AsLeft, NothingYet, HeaderBegun, UpToDate, OneAhead,
                          Replaced
<1>16. CursorOk(file, t.cursor) /\ ExcusesOk(file, excuses)
  BY <1>3, <1>4 DEF Stored
<1> QED  BY <1>4, <1>6, <1>9, <1>10, <1>11, <1>12, <1>13, <1>14, <1>15, <1>16 DEF Stored

(* What keeps a candidate from being published is on record. *)
LEMMA CandidateRefused ==
  ASSUME Sure, io.job = "replace", io.step = "candidate", NEW c, c = Candidate,
         ~Published(file, c), ~MayReplace(file, c, st.coldTail, st.allowCreate)
  PROVE  excuses # {}
<1> SUFFICES ASSUME excuses = {} PROVE FALSE
  OBVIOUS
<1>1. PICK g : g = IF st.pending = NoPending THEN gens + 1 ELSE gens
  OBVIOUS
<1>2. PICK t : t = [st EXCEPT !.pending = c]
  OBVIOUS
<1>3. /\ c.rev \in Nat /\ c.ops = Said(history, c.rev) /\ c.rev <= Len(history)
      /\ c.expected = Point(w.gen, w.durable) /\ w.retryBatch = NoBatch
      /\ w.phase # "cold" /\ c.gen \in 1 .. g /\ g \in Nat
  BY <1>1, CandidateIs
<1>4. /\ Stored(file, w, t, io, meta, history, excuses, g)
      /\ t.pending = c /\ t.coldTail = st.coldTail /\ t.allowCreate = st.allowCreate
  BY <1>1, <1>2, CandidateStored
<1>5. Open0(w, io) = NoBatch
  BY <1>3 DEF Open0
<1>6. FileOk(file, g, excuses)
  BY <1>4 DEF Stored
<1>7. CASE NothingYet(file, w, t)
  BY <1>3, <1>4, <1>7 DEF NothingYet, MayReplace, Point, NoFile, Transcript
<1>8. CASE UpToDate(file, w, t, io)
  <2>1. /\ Readable(file) /\ file.gen = w.gen /\ Revision(file) = w.durable
        /\ file.tail = NoBatch \/ st.coldTail
    BY <1>4, <1>5, <1>8 DEF UpToDate
  <2>2. TailState(file) = IF file.tail # NoBatch THEN "incomplete" ELSE "clean"
    BY <1>6, WholeFile
  <2>3. [gen |-> file.gen, rev |-> Revision(file)] = c.expected
    BY <1>3, <2>1 DEF Point
  <2> QED  BY <2>1, <2>2, <2>3 DEF MayReplace
<1>9. CASE Replaced(file, c)
  <2>1. Fresh(file, c.gen, c.rev, c.ops)
    BY <1>9 DEF Replaced, Fresh
  <2>2. history \in Seq(Seq(Nat)) /\ Len(history) \in Nat
    BY SureFacts
  <2>3. c.rev \in 0 .. Len(history)
    BY <1>3, <2>2
  <2>4. c.ops \in Seq(Nat)
    BY <1>3, <2>2, <2>3, SaidType
  <2>5. c.rev = 0 => c.ops = <<>>
    BY <1>3 DEF Said
  <2>6. c.gen \in Nat
    BY <1>3
  <2>7. Readable(file) /\ file.gen = c.gen /\ Revision(file) = c.rev
        /\ TailState(file) = "clean"
    <3>1. PICK n \in Nat, r \in Nat, m \in Seq(Nat) : n = c.gen /\ r = c.rev /\ m = c.ops
      BY <1>3, <2>4, <2>6
    <3>2. Fresh(file, n, r, m) /\ (r = 0 => m = <<>>)
      BY <2>1, <2>5, <3>1
    <3>3. Readable(file) /\ file.gen = n /\ Revision(file) = r /\ TailState(file) = "clean"
      BY <3>2, NewFile
    <3> QED  BY <3>1, <3>3
  <2> QED  BY <2>7 DEF Published
<1> QED  BY <1>3, <1>4, <1>5, <1>7, <1>8, <1>9 DEF Stored, AsLeft, HeaderBegun, OneAhead

(* The candidate may take the place of the file: what is unfinished at its *)
(* end is cut off, and no row of another program is under it.              *)
LEMMA CheckReplaces ==
  ASSUME Sure, io.job = "replace", NEW c, NEW g, NEW t, t.pending = c,
         Stored(file, w, t, io, meta, history, excuses, g),
         c.expected = Point(w.gen, w.durable), w.retryBatch = NoBatch, w.phase # "cold",
         ~Published(file, c), MayReplace(file, c, t.coldTail, t.allowCreate),
         NEW f, f = [file EXCEPT !.tail = NoBatch],
         NEW k, k.job = "replace", k.step \in {"intent", "rename"}, k.recover = io.recover,
         k.patch = io.patch
  PROVE  Stored(f, w, t, k, meta, history, excuses, g)
<1>1. FileOk(file, g, excuses)
  BY DEF Stored
<1>2. /\ TailState(file) = IF file.tail # NoBatch THEN "incomplete" ELSE "clean"
      /\ file.rows = <<>> <=> Len(file.rows) = 0
  BY <1>1, WholeFile
<1>3. file.tail = NoBatch => f = file
  BY <1>1 DEF FileOk
<1>4. ~Readable(file) => f = file
  <2>1. ~Readable(file) => file.tail = NoBatch
    BY <1>1 DEF FileOk, Readable, Transcript
  <2> QED  BY <1>3, <2>1
<1>5. "row" \notin excuses
  <2> SUFFICES ASSUME "row" \in excuses PROVE FALSE
    OBVIOUS
  <2>1. /\ Readable(file) /\ file.rows # <<>>
        /\ file.gen = w.gen => Revision(file) > w.durable
    BY DEF Stored, RowStays
  <2>2. [gen |-> file.gen, rev |-> Revision(file)] = Point(w.gen, w.durable)
    BY <2>1 DEF MayReplace, EmptySource, Readable
  <2>3. file.gen = w.gen /\ Revision(file) = w.durable
    BY <2>2 DEF Point
  <2>4. w.durable \in Nat
    BY SureFacts
  <2> QED  BY <2>1, <2>3, <2>4
<1>6. /\ FileOk(f, g, excuses) /\ CursorOk(f, t.cursor) /\ CreatedOk(f, w, t, excuses)
      /\ ExcusesOk(f, excuses) /\ ContentOk(f, w, c, meta, history, excuses)
      /\ RowOk(f, w, t, io, meta, excuses) /\ RenamedOk(f, c)
  <2>1. CASE Readable(file)
    BY <1>1, <2>1, NoBatchType, TailKeeps DEF Stored
  <2>2. CASE ~Readable(file)
    BY <1>4, <2>2 DEF Stored
  <2> QED  BY <2>1, <2>2
<1>7. RowOk(f, w, t, k, meta, excuses)
  BY <1>6 DEF RowOk
<1>8. StepsOk(f, w, t, k)
  BY DEF StepsOk
<1>9. RowStays(f, w, c, k, excuses) /\ CauseOk(w, c, k, excuses)
  BY <1>5 DEF Stored, RowStays, CauseOk
<1>10. AsLeft(f, w, t, k, excuses)
  <2> SUFFICES ASSUME excuses = {} PROVE AsLeft(f, w, t, k, excuses)
    BY DEF AsLeft
  <2>1. Open0(w, k) = NoBatch /\ Open0(w, io) = NoBatch
    BY DEF Open0
  <2>2. NothingYet(file, w, t) \/ UpToDate(file, w, t, io) \/ Replaced(file, c)
    BY <2>1 DEF Stored, AsLeft, HeaderBegun, OneAhead
  <2>3. CASE NothingYet(file, w, t)
    <3>1. f = file
      BY <1>4, <2>3 DEF NothingYet, NoFile, Transcript, Readable
    <3> QED  BY <2>3, <3>1 DEF AsLeft
  <2>4. CASE UpToDate(file, w, t, io)
    <3>1. Readable(f) /\ f.gen = file.gen /\ f.tail = NoBatch /\ Revision(f) = Revision(file)
      BY <1>1, <2>4, Shortened DEF UpToDate
    <3> QED  BY <2>4, <3>1 DEF AsLeft, UpToDate
  <2>5. CASE Replaced(file, c)
    <3>1. f = file
      BY <1>3, <2>5 DEF Replaced, Transcript
    <3> QED  BY <2>5, <3>1 DEF AsLeft
  <2> QED  BY <2>2, <2>3, <2>4, <2>5
<1> QED  BY <1>6, <1>7, <1>8, <1>9, <1>10 DEF Stored

(* The candidate is found in place. *)
LEMMA CheckFinds ==
  ASSUME Sure, io.job = "replace", NEW c, NEW g, NEW t, t.pending = c, c # NoPending,
         Stored(file, w, t, io, meta, history, excuses, g), c.rev \in Nat,
         w.retryBatch = NoBatch, Published(file, c),
         NEW k, k.job = "replace", k.step = "sync", k.recover = io.recover,
         k.patch = io.patch
  PROVE  Stored(file, w, t, k, meta, history, excuses, g)
<1>1. FileOk(file, g, excuses)
  BY DEF Stored
<1>2. /\ Readable(file) /\ file.gen = c.gen /\ Revision(file) = c.rev
      /\ TailState(file) = "clean"
  BY DEF Published
<1>3. file.tail = NoBatch
  BY <1>1, <1>2, WholeFile
<1>4. "row" \notin excuses
  BY <1>2 DEF Stored, RowStays
<1>5. RowOk(file, w, t, k, meta, excuses)
  BY DEF Stored, RowOk
<1>6. StepsOk(file, w, t, k)
  <2>1. Point(file.gen, Revision(file)) = Committing(k, c)
    BY <1>2 DEF Committing, Point
  <2> QED  BY <1>2, <1>3, <2>1 DEF StepsOk
<1>7. RowStays(file, w, c, k, excuses) /\ CauseOk(w, c, k, excuses)
  BY <1>4 DEF Stored, RowStays, CauseOk
<1>8. AsLeft(file, w, t, k, excuses)
  <2>1. Open0(w, k) = NoBatch /\ Open0(w, io) = NoBatch
    BY DEF Open0
  <2> QED  BY <2>1 DEF Stored, AsLeft, HeaderBegun, UpToDate, OneAhead
<1> QED  BY <1>1, <1>5, <1>6, <1>7, <1>8 DEF Stored

LEMMA SureReplaceCheck ==
  ASSUME Certain, ReplaceCheck
  PROVE  Written' /\ OnDisk'
<1>1. /\ Sure /\ io.job = "replace" /\ io.step = "candidate" /\ meta' = meta
      /\ history' = history /\ excuses' = excuses /\ opens' = opens /\ ops' = ops
      /\ edits' = edits /\ gens' = (IF st.pending = NoPending THEN gens + 1 ELSE gens)
  BY DEF Certain, ReplaceCheck, At, ghosts
<1>2. PICK c : c = Candidate
  OBVIOUS
<1>3. PICK t : t = [st EXCEPT !.pending = c]
  OBVIOUS
<1>4. PICK g : g = IF st.pending = NoPending THEN gens + 1 ELSE gens
  OBVIOUS
<1>5. /\ c # NoPending /\ c.rev \in Nat /\ c.expected = Point(w.gen, w.durable)
      /\ PendingOk(w, c, history, g) /\ g \in Nat /\ w.gen \in 0 .. g
      /\ w.retryBatch = NoBatch /\ w.phase # "cold" /\ io # Idle
  BY <1>1, <1>2, <1>4, CandidateIs
<1>6. /\ Stored(file, w, t, io, meta, history, excuses, g)
      /\ t.pending = c /\ t.coldTail = st.coldTail /\ t.allowCreate = st.allowCreate
  BY <1>1, <1>2, <1>3, <1>4, CandidateStored
<1>7. st' = t /\ gens' = g
  BY <1>1, <1>2, <1>3, <1>4 DEF ReplaceCheck
<1>8. Carried(w, io, c, history, g, opens)
  BY <1>1, <1>5, NowFacts DEF Carried
<1>9. opens \in 0 .. MaxOpens /\ edits \in 0 .. MaxEdits /\ ops \in Nat
  BY <1>1, SureFacts, NowFacts
<1>10. CASE Published(file, c)
  <2>1. Goto("sync") /\ file' = file /\ w' = w
    BY <1>2, <1>10 DEF ReplaceCheck
  <2>2. /\ io'.job = io.job /\ io'.step = "sync" /\ io'.expected = io.expected
        /\ io'.batch = io.batch /\ io'.rev = io.rev /\ io'.ops = io.ops
        /\ io'.recover = io.recover /\ io'.patch = io.patch
    BY <1>1, <2>1, GotoIs
  <2>3. Carried(w, io', c, history, g, opens)
    BY <1>8, <2>2, SameJobCarries
  <2>4. Stored(file, w, t, io', meta, history, excuses, g)
    BY <1>1, <1>5, <1>6, <1>10, <2>2, CheckFinds
  <2> QED  BY <1>1, <1>6, <1>7, <1>9, <2>1, <2>3, <2>4 DEF Written, OnDisk
<1>11. CASE ~Published(file, c) /\ MayReplace(file, c, st.coldTail, st.allowCreate)
  <2>1. /\ file' = [file EXCEPT !.tail = NoBatch] /\ w' = w
        /\ Goto(IF st.mut.open THEN "intent" ELSE "rename")
    BY <1>2, <1>11 DEF ReplaceCheck
  <2>2. /\ io'.job = io.job /\ io'.step \in {"intent", "rename"}
        /\ io'.expected = io.expected
        /\ io'.batch = io.batch /\ io'.rev = io.rev /\ io'.ops = io.ops
        /\ io'.recover = io.recover /\ io'.patch = io.patch
    BY <1>1, <2>1, GotoIs
  <2>3. Carried(w, io', c, history, g, opens)
    BY <1>8, <2>2, SameJobCarries
  <2>4. PICK f : f = [file EXCEPT !.tail = NoBatch]
    OBVIOUS
  <2>5. Stored(f, w, t, io', meta, history, excuses, g)
    BY <1>1, <1>5, <1>6, <1>11, <2>2, <2>4, CheckReplaces
  <2> QED  BY <1>1, <1>6, <1>7, <1>9, <2>1, <2>3, <2>4, <2>5 DEF Written, OnDisk
<1>12. CASE ~Published(file, c) /\ ~MayReplace(file, c, st.coldTail, st.allowCreate)
  <2>1. Finally(Refused(w)) /\ file' = file
    BY <1>2, <1>12 DEF ReplaceCheck
  <2>2. excuses # {}
    BY <1>1, <1>2, <1>12, CandidateRefused
  <2>3. PICK y : y = Refused(w)
    OBVIOUS
  <2>4. /\ io' = Idle /\ SameCore(y, w') /\ y.phase = w.phase /\ y.gen = w.gen
        /\ y.durable = w.durable
    BY <1>1, <2>1, <2>3, RefusedIs, FinallySame
  <2>5. Carried(y, Idle, c, history, g, opens)
    BY <1>1, <1>5, <2>3, RefusedCarries
  <2>6. Stored(file, y, t, Idle, meta, history, excuses, g)
    BY <1>6, <2>2, <2>4, EndStored
  <2>7. Carried(w', Idle, c, history, g, opens)
    BY <2>4, <2>5, CarriedCore
  <2>8. Stored(file, w', t, Idle, meta, history, excuses, g)
    BY <2>4, <2>6, CoreStored
  <2> QED  BY <1>1, <1>6, <1>7, <1>9, <2>1, <2>4, <2>7, <2>8 DEF Written, OnDisk
<1> QED  BY <1>10, <1>11, <1>12

(* A replacement under way has a candidate, and no row of another program  *)
(* is in its way.                                                          *)
LEMMA ReplaceFacts ==
  ASSUME Sure, io.job = "replace", io.step # "candidate"
  PROVE  /\ io # Idle /\ st.pending # NoPending /\ w.phase # "cold" /\ w.retryBatch = NoBatch
         /\ st.pending.rev \in w.durable .. Len(history) /\ st.pending.rev \in Nat
         /\ st.pending.ops = Said(history, st.pending.rev)
         /\ st.pending.gen \in 1 .. gens /\ st.pending.gen \in Nat
         /\ st.pending.gen # w.gen
         /\ st.pending.expected = Point(w.gen, w.durable)
         /\ w.gen \in Nat /\ w.durable \in Nat /\ gens \in Nat
         /\ "row" \notin excuses
         /\ Stored(file, w, st, io, meta, history, excuses, gens)
<1>1. /\ io # Idle /\ w.phase # "cold" /\ w.retryBatch = NoBatch /\ st.pending # NoPending
      /\ w.durable <= st.pending.rev
  BY IdleIs, JobFlow
<1>2. PendingOk(w, st.pending, history, gens)
      /\ Stored(file, w, st, io, meta, history, excuses, gens)
  BY NowFacts DEF Carried
<1>3. st.pending.rev \in Nat /\ w.durable \in Nat /\ Len(history) \in Nat
      /\ gens \in Nat /\ w.gen \in 0 .. gens
  BY SureFacts
<1>4. "row" \notin excuses
  <2>1. io.step \notin {"none", "open"}
    BY <1>2 DEF Stored, StepsOk
  <2> QED  BY <1>2, <2>1 DEF Stored, RowStays
<1> QED  BY <1>1, <1>2, <1>3, <1>4 DEF PendingOk

LEMMA SureReplaceIntent ==
  ASSUME Certain, ReplaceIntent
  PROVE  Written' /\ OnDisk'
<1>1. /\ Sure /\ io.job = "replace" /\ io.step = "intent" /\ Goto("rename") /\ w' = w
      /\ history' = history /\ excuses' = excuses /\ opens' = opens /\ ops' = ops
      /\ edits' = edits /\ gens' = gens /\ file' = file
      /\ st' = [st EXCEPT !.mut.target = Point(st.pending.gen, st.pending.rev)]
      /\ meta' = [meta EXCEPT !.intent = [src |-> st.pending.expected.gen,
                                          dst |-> st.pending.gen, rev |-> st.pending.rev]]
  BY DEF Certain, ReplaceIntent, At, ghosts, counts
<1>2. /\ io # Idle /\ st.pending # NoPending /\ w.retryBatch = NoBatch
      /\ st.pending.rev \in Nat /\ st.pending.gen \in Nat
      /\ st.pending.expected = Point(w.gen, w.durable) /\ w.gen \in Nat
      /\ "row" \notin excuses /\ Stored(file, w, st, io, meta, history, excuses, gens)
  BY <1>1, ReplaceFacts
<1>3. st.mut.open
  BY <1>1 DEF Certain, Founded, BirthOk
<1>4. meta # NoRow /\ meta \in RowT /\ st.mut \in MutationT
  BY <1>2, <1>3 DEF Stored, RowOk
<1>5. meta' \in RowT /\ meta' # NoRow
  <2>1. st.pending.expected.gen \in Nat
    BY <1>2 DEF Point
  <2>2. meta' \in RowT
    BY <1>1, <1>2, <1>4, <2>1 DEF RowT
  <2> QED  BY <2>2, NotNoRow
<1>6. Stored(file, w, st, io, meta', history, excuses, gens)
  BY <1>2, <1>4, <1>5, RowStored
<1>7. /\ st'.cursor = st.cursor
      /\ st'.pending = st.pending /\ st'.created = st.created /\ st'.coldTail = st.coldTail
      /\ st'.allowCreate = st.allowCreate /\ st'.cur = st.cur
      /\ st'.published = st.published /\ st'.mut \in MutationT
  BY <1>1, <1>2, <1>4, SureFacts DEF StoreShape, MutationT, Point
<1>8. /\ io'.job = "replace" /\ io'.step = "rename" /\ io'.patch = io.patch
      /\ io'.recover = io.recover
  BY <1>1, GotoIs
<1>9. CreatedOk(file, w, st', excuses)
  BY <1>6, <1>7 DEF Stored, CreatedOk
<1>10. RowOk(file, w, st', io', meta', excuses)
  BY <1>5, <1>6, <1>7, <1>8 DEF Stored, RowOk
<1>11. StepsOk(file, w, st', io')
  BY <1>8 DEF StepsOk
<1>12. RowStays(file, w, st'.pending, io', excuses) /\ CauseOk(w, st'.pending, io', excuses)
  BY <1>2, <1>6, <1>7, <1>8 DEF Stored, RowStays, CauseOk
<1>13. AsLeft(file, w, st', io', excuses)
  <2>1. Open0(w, io') = Open0(w, io)
    BY <1>1, <1>8 DEF Open0
  <2> QED  BY <1>6, <1>7, <2>1 DEF Stored, AsLeft, NothingYet, HeaderBegun, UpToDate,
                                   OneAhead
<1>14. Stored(file, w, st', io', meta', history, excuses, gens)
  BY <1>6, <1>7, <1>9, <1>10, <1>11, <1>12, <1>13 DEF Stored
<1>15. Written'
  BY <1>1, <1>7, StepWritten
<1> QED  BY <1>1, <1>14, <1>15 DEF OnDisk

LEMMA SureReplaceRename ==
  ASSUME Certain, ReplaceRename
  PROVE  Written' /\ OnDisk'
<1>1. /\ Sure /\ io.job = "replace" /\ io.step = "rename" /\ Goto("sync") /\ w' = w
      /\ history' = history /\ excuses' = excuses \ {"emptied"}
      /\ opens' = opens /\ ops' = ops
      /\ edits' = edits /\ gens' = gens /\ st' = st /\ meta' = meta
      /\ file' = Transcript("v2", st.pending.gen, st.pending.rev, st.pending.ops)
  BY DEF Certain, ReplaceRename, At, counts
<1>2. /\ io # Idle /\ st.pending # NoPending /\ w.phase # "cold"
      /\ st.pending.rev \in w.durable .. Len(history) /\ st.pending.rev \in Nat
      /\ st.pending.ops = Said(history, st.pending.rev)
      /\ st.pending.gen \in 1 .. gens /\ st.pending.gen \in Nat /\ st.pending.gen # w.gen
      /\ gens \in Nat /\ w.durable \in Nat
      /\ "row" \notin excuses /\ Stored(file, w, st, io, meta, history, excuses, gens)
  BY <1>1, ReplaceFacts
<1>3. PICK n \in Nat, r \in Nat, m \in Seq(Nat) :
        /\ n = st.pending.gen /\ r = st.pending.rev /\ m = st.pending.ops
        /\ r = 0 => m = <<>>
  <2>1. history \in Seq(Seq(Nat)) /\ Len(history) \in Nat
    BY <1>1, SureFacts
  <2>2. st.pending.rev \in 0 .. Len(history)
    BY <1>2, <2>1
  <2>3. st.pending.ops \in Seq(Nat)
    BY <1>2, <2>1, <2>2, SaidType
  <2>4. st.pending.rev = 0 => st.pending.ops = <<>>
    BY <1>2 DEF Said
  <2> QED  BY <1>2, <2>3, <2>4
<1>4. Fresh(file', n, r, m)
  BY <1>1, <1>3 DEF Fresh
<1>5. /\ Readable(file') /\ file'.gen = n /\ file'.base = r
      /\ file'.rows = <<>> /\ file'.tail = NoBatch
      /\ Revision(file') = r /\ Content(file') = m
  <2>1. r = 0 => m = <<>>
    BY <1>3
  <2>2. PICK f : f = file'
    OBVIOUS
  <2>3. Fresh(f, n, r, m)
    BY <1>4, <2>2
  <2>4. /\ Readable(f) /\ f.gen = n /\ f.base = r /\ f.rows = <<>> /\ f.tail = NoBatch
        /\ Revision(f) = r /\ Content(f) = m
    BY <2>1, <2>3, NewFile
  <2> QED  BY <2>2, <2>4
<1>6. FileOk(file', gens, excuses')
  <2>1. n <= gens /\ n # 0
    BY <1>2, <1>3
  <2>2. n = 0 => "foreign" \in excuses'
    BY <2>1
  <2>3. gens \in Nat
    BY <1>2
  <2> QED  BY <1>3, <1>4, <2>1, <2>2, <2>3, NewFileOk
<1>7. CursorOk(file', st.cursor)
  <2>1. st.cursor.gen \in {0, w.gen}
    BY DEF Certain, Founded, SeenOk
  <2>2. n # 0 /\ n # w.gen
    BY <1>2, <1>3
  <2> QED  BY <1>5, <2>1, <2>2 DEF CursorOk
<1>8. file' # NoFile
  BY <1>5 DEF Readable, NoFile, Transcript
<1>9. CreatedOk(file', w, st, excuses') /\ ExcusesOk(file', excuses')
  BY <1>1, <1>2, <1>5, <1>8 DEF Stored, CreatedOk, ExcusesOk
<1>10. ContentOk(file', w, st.pending, meta, history, excuses')
  <2>1. Mine(file', w, st.pending)
    BY <1>2, <1>3, <1>5 DEF Mine
  <2>2. FileSays(file', w, history)
    BY <1>2, <1>3, <1>5 DEF FileSays
  <2> QED  BY <2>1, <2>2 DEF ContentOk
<1>11. /\ io'.job = "replace" /\ io'.step = "sync" /\ io'.patch = io.patch
       /\ io'.recover = io.recover
  BY <1>1, GotoIs
<1>12. RowOk(file', w, st, io', meta, excuses')
  BY <1>2, <1>5, <1>11 DEF Stored, RowOk
<1>13. RenamedOk(file', st.pending)
  BY <1>3, <1>5 DEF RenamedOk
<1>14. StepsOk(file', w, st, io')
  <2>1. Point(file'.gen, Revision(file')) = Committing(io', st.pending)
    BY <1>3, <1>5, <1>11 DEF Committing, Point
  <2> QED  BY <1>5, <1>11, <2>1 DEF StepsOk
<1>15. RowStays(file', w, st.pending, io', excuses')
  BY <1>1, <1>2 DEF RowStays
<1>16. CauseOk(w, st.pending, io', excuses')
  <2>1. excuses # {} => excuses' # {}
    BY <1>1, <1>2 DEF Stored, ExcusesOk
  <2> QED  BY <1>2, <1>11, <2>1 DEF Stored, CauseOk
<1>17. AsLeft(file', w, st, io', excuses')
  BY <1>1, <1>2 DEF AsLeft, Replaced
<1>18. Stored(file', w, st, io', meta, history, excuses', gens)
  BY <1>6, <1>7, <1>9, <1>10, <1>12, <1>13, <1>14, <1>15, <1>16, <1>17 DEF Stored
<1>19. Written'
  <2>1. st'.pending = st.pending
    BY <1>1
  <2> QED  BY <1>1, <2>1, StepWritten
<1> QED  BY <1>1, <1>18, <1>19 DEF OnDisk

LEMMA OverlayType ==
  ASSUME NEW a \in RowT, NEW b \in RowT, NEW ks
  PROVE  Overlay(a, b, ks) \in RowT
BY DEF Overlay, RowT, Keys

(* A write whose bytes are in place is the end of the owner's own file. *)
LEMMA SyncFacts ==
  ASSUME Sure, io.step \in {"sync", "indexed"}
  PROVE  /\ io # Idle /\ w.phase # "cold" /\ Readable(file) /\ file.tail = NoBatch
         /\ Point(file.gen, Revision(file)) = Committed /\ Committed.gen = file.gen
         /\ Committed.rev = Revision(file)
         /\ Mine(file, w, st.pending) /\ "row" \notin excuses
         /\ io.job = "append" => /\ LastBatch(file) = io.batch
                                 /\ file.gen = w.gen /\ Revision(file) = io.batch.to
                                 /\ st.pending = NoPending
         /\ io.job = "replace" => /\ st.pending # NoPending
                                  /\ file.gen = st.pending.gen
                                  /\ Revision(file) = st.pending.rev
         /\ io.job \in {"append", "replace"}
         /\ Stored(file, w, st, io, meta, history, excuses, gens)
<1>1. io # Idle
  BY IdleIs
<1>2. Stored(file, w, st, io, meta, history, excuses, gens)
  BY NowFacts
<1>3. /\ w.phase # "cold" /\ io.job \in {"append", "replace"}
      /\ io.job = "append" => st.pending = NoPending
      /\ io.job = "replace" => st.pending # NoPending
      /\ io.expected = Point(w.gen, w.durable)
  BY <1>1, JobFlow
<1>4. /\ Readable(file) /\ file.tail = NoBatch
      /\ Point(file.gen, Revision(file)) = Committing(io, st.pending)
      /\ io.job = "append" => LastBatch(file) = io.batch
  BY <1>2 DEF Stored, StepsOk
<1>5. Point(file.gen, Revision(file)) = Committed
  BY <1>4 DEF Committing, Committed
<1>6. Committed.gen = file.gen /\ Committed.rev = Revision(file)
  BY <1>5 DEF Point
<1>7. io.job = "append" => file.gen = w.gen /\ Revision(file) = io.batch.to
  BY <1>3, <1>6 DEF Committed, Point
<1>8. io.job = "replace" => file.gen = st.pending.gen /\ Revision(file) = st.pending.rev
  BY <1>3, <1>6 DEF Committed, Point
<1>9. Mine(file, w, st.pending)
  BY <1>3, <1>7, <1>8 DEF Mine
<1>10. "row" \notin excuses
  BY <1>2 DEF Stored, RowStays
<1> QED  BY <1>1, <1>2, <1>3, <1>4, <1>5, <1>6, <1>7, <1>8, <1>9, <1>10

LEMMA SurePublish ==
  ASSUME Certain, Publish
  PROVE  Written' /\ OnDisk'
<1>1. /\ Sure /\ io.step = "sync" /\ w' = w /\ st' = st
      /\ history' = history /\ excuses' = excuses /\ opens' = opens /\ ops' = ops
      /\ edits' = edits /\ gens' = gens /\ file' = file
      /\ meta' = IF meta = NoRow THEN st.cur ELSE Overlay(meta, st.cur, st.pend)
      /\ io' = [io EXCEPT !.step = "indexed", !.patch = meta', !.keys = st.pend]
  BY DEF Certain, Publish, ghosts, counts
<1>2. /\ Readable(file) /\ Mine(file, w, st.pending) /\ "row" \notin excuses
      /\ Stored(file, w, st, io, meta, history, excuses, gens)
  BY <1>1, SyncFacts
<1>3. st.cur \in RowT /\ (meta # NoRow => meta \in RowT)
  BY <1>2 DEF Stored, RowOk
<1>4. meta' \in RowT /\ meta' # NoRow
  <2>1. meta' \in RowT
    BY <1>1, <1>3, OverlayType
  <2> QED  BY <2>1, NotNoRow
<1>5. /\ io'.job = io.job /\ io'.step = "indexed" /\ io'.expected = io.expected
      /\ io'.batch = io.batch /\ io'.rev = io.rev /\ io'.ops = io.ops
      /\ io'.recover = io.recover /\ io'.patch = meta'
  <2>1. JobShape(io)
    BY <1>1 DEF Sure, Inv
  <2> QED  BY <1>1, <2>1 DEF JobShape
<1>6. ContentOk(file, w, st.pending, meta', history, excuses)
  BY <1>2 DEF Stored, ContentOk
<1>7. RowOk(file, w, st, io', meta', excuses)
  BY <1>2, <1>4, <1>5 DEF Stored, RowOk
<1>8. StepsOk(file, w, st, io')
  <2>1. Committing(io', st.pending) = Committing(io, st.pending)
    BY <1>5 DEF Committing
  <2> QED  BY <1>1, <1>2, <1>5, <2>1 DEF Stored, StepsOk
<1>9. RowStays(file, w, st.pending, io', excuses) /\ CauseOk(w, st.pending, io', excuses)
  BY <1>2, <1>5 DEF Stored, RowStays, CauseOk
<1>10. AsLeft(file, w, st, io', excuses)
  <2>1. Open0(w, io') = Open0(w, io)
    BY <1>5 DEF Open0
  <2> QED  BY <1>2, <2>1 DEF Stored, AsLeft, HeaderBegun, UpToDate, OneAhead
<1>11. Stored(file, w, st, io', meta', history, excuses, gens)
  BY <1>2, <1>6, <1>7, <1>8, <1>9, <1>10 DEF Stored
<1>12. Carried(w, io', st.pending, history, gens, opens)
  BY <1>1, <1>5, NowFacts, SameJobCarries
<1> QED  BY <1>1, <1>11, <1>12, NowFacts, SureFacts DEF Written, OnDisk

(* What TranscriptFile keeps once a write has come to its end. *)
LEMMA LandedIs ==
  ASSUME Sure, NEW a,
         \/ io.step = "indexed" /\ a = Adopted
         \/ io.step = "sync" /\ st.published /\ a = st,
         NEW t, t = Landed(a)
  PROVE  /\ t.cursor.gen = Committed.gen /\ t.cursor.rev = Committed.rev
         /\ t.cursor.size = Len(file.rows) /\ t.pending = NoPending
         /\ t.created = (IF io.job = "append" THEN FALSE ELSE st.created)
         /\ t.coldTail = st.coldTail /\ t.allowCreate = st.allowCreate
         /\ t.cur \in RowT /\ t.mut \in MutationT /\ meta # NoRow
<1>1. Stored(file, w, st, io, meta, history, excuses, gens) /\ StoreShape(st)
  BY NowFacts, SureFacts
<1>2. /\ meta # NoRow /\ st.cur \in RowT /\ st.mut \in MutationT /\ io.patch \in RowT
  BY <1>1 DEF Stored, RowOk
<1>3. /\ a.cur \in RowT /\ a.mut \in MutationT /\ a.created = st.created
      /\ a.coldTail = st.coldTail /\ a.allowCreate = st.allowCreate /\ StoreShape(a)
  <2>1. CASE a = st
    BY <1>1, <1>2, <2>1
  <2>2. CASE a = Adopted
    <3>1. PICK row : row = Overlay(io.patch, st.cur, Remaining(io.patch))
      OBVIOUS
    <3>2. PICK mut : mut = IF /\ st.mut.target.gen = Committed.gen
                              /\ Committed.rev >= st.mut.target.rev
                           THEN NoMutation ELSE st.mut
      OBVIOUS
    <3>3. PICK left : left = Remaining(io.patch)
      OBVIOUS
    <3>4. row \in RowT
      BY <1>2, <3>1, OverlayType
    <3>5. mut \in MutationT
      BY <1>2, <3>2 DEF MutationT, NoMutation, Point
    <3>6. a = [st EXCEPT !.published = TRUE, !.pend = left, !.cur = row, !.mut = mut]
      <4>1. a = [st EXCEPT !.published = TRUE, !.pend = left,
                           !.cur = Overlay(io.patch, @, left),
                           !.mut = IF /\ @.target.gen = Committed.gen
                                      /\ Committed.rev >= @.target.rev
                                   THEN NoMutation ELSE @]
        BY <2>2, <3>3 DEF Adopted
      <4> QED  BY <1>1, <3>1, <3>2, <3>3, <4>1 DEF StoreShape
    <3> QED  BY <1>1, <3>4, <3>5, <3>6 DEF StoreShape
  <2> QED  BY <2>1, <2>2
<1>4. PICK cu : cu = [gen |-> Committed.gen, rev |-> Committed.rev, size |-> Len(file.rows)]
  OBVIOUS
<1>5. t = [a EXCEPT !.cursor = cu, !.created = IF io.job = "append" THEN FALSE ELSE @,
                    !.pending = NoPending]
  BY <1>4 DEF Landed
<1>6. /\ t.cursor = cu /\ t.pending = NoPending
      /\ t.created = (IF io.job = "append" THEN FALSE ELSE a.created)
      /\ t.coldTail = a.coldTail /\ t.allowCreate = a.allowCreate
      /\ t.cur = a.cur /\ t.mut = a.mut
  BY <1>3, <1>5 DEF StoreShape
<1> QED  BY <1>2, <1>3, <1>4, <1>6

LEMMA SucceededIs ==
  ASSUME Sure, NEW c, NEW y, y = Succeeded(w, c)
  PROVE  /\ IsWriter(y) /\ y.phase = w.phase /\ y.gen = c.gen /\ y.durable = c.rev
         /\ y.live = w.live /\ y.proj = w.proj /\ y.queue = w.queue
         /\ y.complete = w.complete /\ y.attempted = w.attempted
         /\ y.emptyPending = w.emptyPending /\ y.blocked = w.blocked
         /\ y.retryBatch = NoBatch
         /\ y.baseline = (w.baseline \/ (io.job = "replace" /\ c.rev < io.rev))
BY SureFacts DEF Succeeded, IsWriter

LEMMA SucceededCarries ==
  ASSUME Sure, io.step \in {"sync", "indexed"}
  PROVE  Carried(Succeeded(w, Committed), Idle, NoPending, history, gens, opens)
<1> DEFINE y == Succeeded(w, Committed)
<1>1. /\ y.phase = w.phase /\ y.gen = Committed.gen /\ y.durable = Committed.rev
      /\ y.live = w.live /\ y.proj = w.proj /\ y.queue = w.queue
      /\ y.blocked = w.blocked /\ y.retryBatch = NoBatch
      /\ y.baseline = (w.baseline \/ (io.job = "replace" /\ Committed.rev < io.rev))
  BY SucceededIs
<1>2. /\ io # Idle /\ Committed.gen = file.gen /\ Committed.rev = Revision(file)
      /\ io.job \in {"append", "replace"}
      /\ io.job = "append" => Revision(file) = io.batch.to
      /\ io.job = "replace" => st.pending # NoPending /\ Revision(file) = st.pending.rev
      /\ Stored(file, w, st, io, meta, history, excuses, gens)
  BY SyncFacts
<1>3. Carried(w, io, st.pending, history, gens, opens)
  BY NowFacts
<1>4. Recording(y) => Chain(y.queue, Begin(y, Idle), y.live, history)
  <2> SUFFICES ASSUME Recording(y) PROVE Chain(y.queue, Begin(y, Idle), y.live, history)
    OBVIOUS
  <2>1. Recording(w) /\ ~(io.job = "replace" /\ Committed.rev < io.rev)
    BY <1>1 DEF Recording
  <2>2. Chain(w.queue, Begin(w, io), w.live, history)
    BY <1>3, <2>1 DEF Carried, QueueOk
  <2>3. Begin(w, io) = io.rev /\ Begin(y, Idle) = Committed.rev
    BY <1>1, <1>2, IdleIs DEF Begin
  <2>4. io.rev = Committed.rev
    <3>1. CASE io.job = "append"
      BY <1>2, <3>1, JobFlow
    <3>2. CASE io.job = "replace"
      <4>1. st.pending.rev <= io.rev /\ st.pending.rev \in Nat /\ io.rev \in Nat
        BY <1>2, <3>2, JobFlow, SureFacts
      <4> QED  BY <1>2, <2>1, <3>2, <4>1
    <3> QED  BY <1>2, <3>1, <3>2
  <2> QED  BY <1>1, <2>2, <2>3, <2>4
<1>5. HistoryOk(y, history) /\ QueueOk(y, Idle, history)
  BY <1>1, <1>3, <1>4 DEF Carried, HistoryOk, QueueOk
<1>6. JobOk(y, Idle, history, opens)
  BY <1>1, IdleIs DEF JobOk
<1>7. PendingOk(y, NoPending, history, gens)
  BY DEF PendingOk
<1>8. y.gen \in 0 .. gens
  BY <1>1, <1>2 DEF Stored, FileOk
<1>9. y.phase # "cold" => opens # 0
  BY <1>1, <1>3 DEF Carried
<1> HIDE DEF y
<1> QED  BY <1>5, <1>6, <1>7, <1>8, <1>9 DEF Carried, y

(* After a commit the file ends with what is saved. *)
LEMMA SucceededStored ==
  ASSUME Certain, io.step \in {"sync", "indexed"}, NEW t,
         t.cursor.gen = Committed.gen, t.cursor.rev = Committed.rev,
         t.cursor.size = Len(file.rows), t.pending = NoPending,
         t.created = (IF io.job = "append" THEN FALSE ELSE st.created),
         t.allowCreate = st.allowCreate,
         t.cur \in RowT, t.mut \in MutationT, meta # NoRow, NEW y, y = Succeeded(w, Committed)
  PROVE  Stored(file, y, t, Idle, meta, history, excuses, gens)
<1>1. Sure /\ BirthOk(file, w, st, io, excuses)
  BY DEF Certain, Founded
<1>2. /\ y.phase = w.phase /\ y.gen = Committed.gen /\ y.durable = Committed.rev
      /\ y.complete = w.complete /\ y.attempted = w.attempted
      /\ y.emptyPending = w.emptyPending /\ y.blocked = w.blocked /\ y.retryBatch = NoBatch
  BY <1>1, SucceededIs
<1>3. /\ w.phase # "cold" /\ Readable(file) /\ file.tail = NoBatch
      /\ Committed.gen = file.gen /\ Committed.rev = Revision(file)
      /\ Mine(file, w, st.pending) /\ "row" \notin excuses
      /\ io.job \in {"append", "replace"}
      /\ Stored(file, w, st, io, meta, history, excuses, gens)
  BY <1>1, SyncFacts
<1>4. FileOk(file, gens, excuses)
  BY <1>3 DEF Stored
<1>5. CursorOk(file, t.cursor)
  <2>1. Len(file.rows) \in Nat /\ Revision(file) = Reach(file, Len(file.rows))
    BY <1>4, WholeFile
  <2> QED  BY <1>3, <2>1 DEF CursorOk
<1>6. CreatedOk(file, y, t, excuses)
  <2> SUFFICES ASSUME t.created PROVE CreatedOk(file, y, t, excuses)
    BY DEF CreatedOk
  <2>1. io.job = "replace" /\ st.created
    BY <1>3
  <2>2. "foreign" \in excuses
    BY <1>1, <2>1 DEF BirthOk
  <2>3. st.allowCreate
    BY <1>3, <2>1 DEF Stored, CreatedOk
  <2> QED  BY <1>2, <1>3, <2>2, <2>3 DEF CreatedOk
<1>7. ContentOk(file, y, NoPending, meta, history, excuses)
  <2>1. Mine(file, y, NoPending)
    BY <1>2, <1>3 DEF Mine
  <2>2. SUFFICES ASSUME Trusted(excuses) PROVE FileSays(file, y, history)
    BY <2>1 DEF ContentOk
  <2>3. FileSays(file, w, history)
    BY <1>3, <2>2 DEF Stored, ContentOk
  <2>4. Revision(file) \in Nat /\ Len(history) \in Nat
    BY <1>1, <1>4, RevisionReach, SureFacts
  <2>5. Revision(file) \in Revision(file) .. Len(history)
    BY <2>3, <2>4 DEF FileSays
  <2> QED  BY <1>2, <1>3, <2>3, <2>5 DEF FileSays
<1>8. RowOk(file, y, t, Idle, meta, excuses)
  BY <1>3, IdleIs DEF Stored, RowOk
<1>9. RenamedOk(file, t.pending) /\ StepsOk(file, y, t, Idle)
  BY IdleIs DEF RenamedOk, StepsOk
<1>10. RowStays(file, y, t.pending, Idle, excuses)
  BY <1>3 DEF RowStays
<1>11. CauseOk(y, t.pending, Idle, excuses)
  BY <1>2, <1>3, IdleIs DEF Stored, CauseOk, NoPending
<1>12. AsLeft(file, y, t, Idle, excuses)
  BY <1>2, <1>3 DEF AsLeft, UpToDate
<1> QED  BY <1>3, <1>4, <1>5, <1>6, <1>7, <1>8, <1>9, <1>10, <1>11, <1>12 DEF Stored

(* An append that is landed and still reported as failed is found again. *)
LEMMA LandedStored ==
  ASSUME Sure, io.step \in {"sync", "indexed"}, io.job = "append", NEW t,
         t.cursor.gen = Committed.gen, t.cursor.rev = Committed.rev,
         t.cursor.size = Len(file.rows), t.pending = NoPending, t.created = FALSE,
         t.cur \in RowT, t.mut \in MutationT, meta # NoRow
  PROVE  Stored(file, w, t, io, meta, history, excuses, gens)
<1>1. /\ Readable(file) /\ file.tail = NoBatch
      /\ Committed.rev = Revision(file) /\ "row" \notin excuses /\ st.pending = NoPending
      /\ Stored(file, w, st, io, meta, history, excuses, gens)
  BY SyncFacts
<1>2. FileOk(file, gens, excuses)
  BY <1>1 DEF Stored
<1>3. CursorOk(file, t.cursor)
  <2>1. Len(file.rows) \in Nat /\ Revision(file) = Reach(file, Len(file.rows))
    BY <1>2, WholeFile
  <2> QED  BY <1>1, <2>1 DEF CursorOk
<1>4. CreatedOk(file, w, t, excuses) /\ RowOk(file, w, t, io, meta, excuses)
  BY <1>1 DEF Stored, CreatedOk, RowOk
<1>5. StepsOk(file, w, t, io)
  BY <1>1 DEF Stored, StepsOk
<1>6. AsLeft(file, w, t, io, excuses)
  BY <1>1 DEF Stored, AsLeft, NothingYet, HeaderBegun, UpToDate, OneAhead, Replaced,
              Readable, NoFile, Transcript
<1> QED  BY <1>1, <1>3, <1>4, <1>5, <1>6 DEF Stored

LEMMA SureCommit ==
  ASSUME Certain, Commit
  PROVE  Written' /\ OnDisk'
<1>1. /\ Sure /\ io.step \in {"sync", "indexed"}
      /\ history' = history /\ excuses' = excuses /\ opens' = opens /\ ops' = ops
      /\ edits' = edits /\ gens' = gens /\ file' = file /\ meta' = meta
  BY DEF Certain, Commit, disk, ghosts
<1>2. PICK a : /\ \/ io.step = "indexed" /\ a = Adopted
                  \/ io.step = "sync" /\ st.published /\ a = st
               /\ Settle(a)
  BY DEF Commit
<1>3. st' = Landed(a) /\ \/ Finally(Succeeded(w, Committed))
                         \/ io.job = "append" /\ Finally(Failed(w))
  BY <1>2 DEF Settle
<1>4. PICK t : t = Landed(a)
  OBVIOUS
<1>5. /\ t.cursor.gen = Committed.gen /\ t.cursor.rev = Committed.rev
      /\ t.cursor.size = Len(file.rows) /\ t.pending = NoPending
      /\ t.created = (IF io.job = "append" THEN FALSE ELSE st.created)
      /\ t.allowCreate = st.allowCreate
      /\ t.cur \in RowT /\ t.mut \in MutationT /\ meta # NoRow
  BY <1>1, <1>2, <1>4, LandedIs
<1>6. ASSUME NEW y, IsWriter(y), Finally(y), Carried(y, Idle, NoPending, history, gens, opens),
             Stored(file, y, t, Idle, meta, history, excuses, gens)
      PROVE  Written' /\ OnDisk'
  <2>1. io' = Idle /\ SameCore(y, w')
    BY <1>6, FinallySame
  <2>2. Carried(w', Idle, NoPending, history, gens, opens)
    BY <1>6, <2>1, CarriedCore
  <2>3. Stored(file, w', t, Idle, meta, history, excuses, gens)
    BY <1>6, <2>1, CoreStored
  <2>4. st' = t /\ st'.pending = NoPending
    BY <1>3, <1>4, <1>5
  <2> QED  BY <1>1, <2>1, <2>2, <2>3, <2>4, SureFacts, NowFacts DEF Written, OnDisk
<1>7. CASE Finally(Succeeded(w, Committed))
  <2>1. PICK y : y = Succeeded(w, Committed)
    OBVIOUS
  <2>2. IsWriter(y) /\ Carried(y, Idle, NoPending, history, gens, opens)
    BY <1>1, <2>1, SucceededIs, SucceededCarries
  <2>3. Stored(file, y, t, Idle, meta, history, excuses, gens)
    BY <1>1, <1>5, <2>1, SucceededStored
  <2> QED  BY <1>6, <1>7, <2>1, <2>2, <2>3
<1>8. CASE io.job = "append" /\ Finally(Failed(w))
  <2>1. PICK y : y = Failed(w)
    OBVIOUS
  <2>2. /\ io # Idle /\ ~io.recover /\ w.gen \in 0 .. gens
    BY <1>1, <1>8, SyncFacts, JobFlow, SureFacts
  <2>3. /\ IsWriter(y) /\ y.phase = w.phase /\ y.gen = w.gen /\ y.durable = w.durable
        /\ y.complete = w.complete /\ y.attempted = w.attempted
        /\ y.emptyPending = w.emptyPending /\ y.blocked = w.blocked
        /\ y.retryBatch = io.batch
    BY <1>1, <1>8, <2>1, <2>2, FailedIs
  <2>4. Carried(y, Idle, NoPending, history, gens, opens)
    <3>1. PICK p : p = NoPending
      OBVIOUS
    <3>2. PendingOk(w, p, history, gens)
      BY <3>1 DEF PendingOk
    <3> QED  BY <1>1, <2>1, <2>2, <3>1, <3>2, FailedCarries
  <2>5. Stored(file, w, t, io, meta, history, excuses, gens)
    BY <1>1, <1>5, <1>8, LandedStored
  <2>6. Stored(file, y, t, Idle, meta, history, excuses, gens)
    BY <1>8, <2>3, <2>5, EndStored
  <2> QED  BY <1>6, <1>8, <2>1, <2>3, <2>4, <2>6
<1> QED  BY <1>3, <1>7, <1>8

LEMMA InstanceIs ==
  ASSUME NEW gen, NEW rev, NEW messages, NEW x, x = Instance(gen, rev, messages)
  PROVE  /\ IsWriter(x) /\ x.phase = "active" /\ x.gen = gen /\ x.live = rev
         /\ x.durable = rev /\ x.proj = messages /\ x.queue = <<>> /\ ~x.baseline
         /\ x.complete /\ ~x.blocked /\ ~x.attempted /\ ~x.emptyPending
         /\ x.retryBatch = NoBatch
BY DEF Instance, Cold, IsWriter

(* A writer that begins, or has ended, with the history h. *)
Begins(x, h, g, o) ==
  /\ x.phase \in {"active", "cold"} /\ x.live = Len(h) /\ x.gen \in 0 .. g
  /\ x.queue = <<>> /\ x.retryBatch = NoBatch
  /\ x.phase # "cold" => x.proj = Said(h, Len(h)) /\ o # 0
  /\ x.durable = Len(h) \/ ~Recording(x)

LEMMA BeginsCarries ==
  ASSUME NEW h \in Seq(Seq(Nat)), NEW x, NEW g, NEW o, Begins(x, h, g, o)
  PROVE  Carried(x, Idle, NoPending, h, g, o)
<1>1. HistoryOk(x, h)
  BY DEF Begins, HistoryOk
<1>2. QueueOk(x, Idle, h)
  <2>1. PICK q : q = <<>>
    OBVIOUS
  <2>2. q \in Seq(BatchT)
    BY <2>1, EmptySeq
  <2>3. Recording(x) => Chain(q, Len(h), Len(h), h)
    BY <2>1, ChainEmpty
  <2>4. Begin(x, Idle) = x.durable
    BY IdleIs DEF Begins, Begin
  <2>5. Recording(x) => Chain(x.queue, Begin(x, Idle), x.live, h)
    BY <2>1, <2>3, <2>4 DEF Begins
  <2> QED  BY <2>1, <2>2, <2>5 DEF Begins, QueueOk
<1>3. JobOk(x, Idle, h, o) /\ PendingOk(x, NoPending, h, g)
  BY IdleIs DEF Begins, JobOk, PendingOk
<1> QED  BY <1>1, <1>2, <1>3 DEF Begins, Carried

LEMMA NewOwner ==
  ASSUME Certain, w.phase = "cold"
  PROVE  /\ io = Idle /\ st.pending = NoPending /\ Sure
         /\ Stored(file, w, st, io, meta, history, excuses, gens)
         /\ FileOk(file, gens, excuses) /\ ExcusesOk(file, excuses)
         /\ (file.gen = 0 => file.base = 0)
         /\ opens \in Nat /\ gens \in Nat /\ file.gen \in 0 .. gens
         /\ edits \in 0 .. MaxEdits /\ ops \in Nat
<1>1. Sure /\ Inv /\ (file.gen = 0 => file.base = 0)
  BY DEF Certain, Sure, Founded, SeenOk
<1>2. Stored(file, w, st, io, meta, history, excuses, gens)
  BY <1>1, NowFacts
<1>3. FileOk(file, gens, excuses) /\ ExcusesOk(file, excuses)
  BY <1>2 DEF Stored
<1> QED  BY <1>1, <1>2, <1>3, ColdFacts, SureFacts, NowFacts DEF FileOk

(* What an owner that has just come knows of the file. *)
LEMMA NoStorageIs ==
  /\ NoStorage.cursor = [gen |-> 0, rev |-> 0, size |-> 0] /\ NoStorage.created = FALSE
  /\ NoStorage.pending = NoPending /\ NoStorage.coldTail = FALSE
  /\ NoStorage.allowCreate = FALSE /\ NoStorage.cur = Birth /\ NoStorage.published = FALSE
  /\ NoStorage.mut = NoMutation /\ NoMutation \in MutationT /\ ~NoMutation.open
  /\ Birth \in RowT
BY IdleIs DEF NoStorage, NoMutation, MutationT, Point

LEMMA NoCursor ==
  ASSUME NEW f, NEW g, NEW e, FileOk(f, g, e), f.gen = 0 => f.base = 0
  PROVE  CursorOk(f, [gen |-> 0, rev |-> 0, size |-> 0])
<1>1. Len(f.rows) \in Nat
  BY WholeFile
<1>2. 0 \in 0 .. Len(f.rows) /\ Reach(f, 0) = f.base
  BY <1>1 DEF Reach
<1> QED  BY <1>2 DEF CursorOk

(* The first commit a new owner asks for. *)
LEMMA FirstCommit ==
  ASSUME NEW h, NEW g, NEW o, NEW x, IsWriter(x), x.phase = "active",
         Carried(x, Idle, NoPending, h, g, o), NEW y, y = RequestCommit(x)
  PROVE  /\ Carried(y, Idle, NoPending, Append(h, x.proj), g, o)
         /\ PlaceSame(x, y) /\ y.phase = x.phase
         /\ y.blocked = x.blocked /\ y.complete = x.complete
<1>1. PICK j : j = Idle
  OBVIOUS
<1>2. PICK p : p = NoPending
  OBVIOUS
<1>3. (j.job = "replace" => j.rev \in 0 .. Len(h)) /\ (p # NoPending => p.rev \in Nat)
  BY <1>1, <1>2, IdleIs
<1>4. Carried(x, j, p, h, g, o)
  BY <1>1, <1>2
<1>5. Carried(y, j, p, Append(h, x.proj), g, o)
  BY <1>3, <1>4, RequestCarries
<1>6. /\ PlaceSame(x, y) /\ y.phase = x.phase
      /\ y.blocked = x.blocked /\ y.complete = x.complete
  BY <1>3, <1>4, RequestCarries
<1>7. Carried(y, Idle, NoPending, Append(h, x.proj), g, o)
  BY <1>1, <1>2, <1>5
<1> QED  BY <1>6, <1>7

LEMMA SureCreate ==
  ASSUME Certain, Create
  PROVE  Written' /\ OnDisk'
<1>1. /\ w.phase = "cold" /\ meta = NoRow /\ opens < MaxOpens
      /\ opens' = opens + 1 /\ gens' = gens + 1
      /\ w' = RequestCommit(Instance(gens + 1, 0, <<>>))
      /\ st' = [NoStorage EXCEPT !.allowCreate = TRUE, !.pend = {"stats"}]
      /\ history' = <<<<>>>> /\ file' = file /\ meta' = meta /\ io' = io
      /\ ops' = ops /\ edits' = edits
      /\ excuses' = (excuses \cap {"foreign"})
                       \cup (IF file = NoFile THEN {} ELSE {"leftover"})
  BY DEF Create
<1>2. /\ io = Idle /\ Sure /\ FileOk(file, gens, excuses) /\ ExcusesOk(file, excuses)
      /\ (file.gen = 0 => file.base = 0) /\ opens \in Nat /\ gens \in Nat
      /\ file.gen \in 0 .. gens
      /\ edits \in 0 .. MaxEdits /\ ops \in Nat
  BY <1>1, NewOwner
<1>3. PICK h : h = <<>>
  OBVIOUS
<1>4. h \in Seq(Seq(Nat)) /\ Len(h) = 0 /\ Said(h, 0) = <<>>
  BY <1>3, EmptySeq DEF Said
<1>5. PICK g \in Nat : g = gens + 1
  BY <1>2
<1>6. PICK x : x = Instance(g, 0, <<>>)
  OBVIOUS
<1>7. /\ IsWriter(x) /\ x.phase = "active" /\ x.gen = g /\ x.live = 0
      /\ x.durable = 0 /\ x.proj = <<>> /\ x.queue = <<>> /\ x.complete /\ ~x.blocked
      /\ ~x.attempted /\ ~x.emptyPending /\ x.retryBatch = NoBatch
  BY <1>6, InstanceIs
<1>25. PICK o \in Nat : o = opens'
  BY <1>1, <1>2
<1>8. Carried(x, Idle, NoPending, h, g, o)
  <2>1. x.gen \in 0 .. g /\ o # 0
    BY <1>1, <1>2, <1>7, <1>25
  <2>2. Begins(x, h, g, o)
    BY <1>4, <1>7, <2>1 DEF Begins
  <2> QED  BY <1>4, <2>2, BeginsCarries
<1>9. w' = RequestCommit(x)
  BY <1>1, <1>5, <1>6
<1>10. /\ Carried(w', Idle, NoPending, Append(h, x.proj), g, o)
       /\ PlaceSame(x, w') /\ w'.phase = x.phase
       /\ w'.blocked = x.blocked /\ w'.complete = x.complete
  <2>1. PICK y : y = RequestCommit(x)
    OBVIOUS
  <2>2. IsWriter(x) /\ x.phase = "active"
    BY <1>7
  <2>3. Carried(y, Idle, NoPending, Append(h, x.proj), g, o)
    BY <1>8, <2>1, <2>2, FirstCommit
  <2>4. /\ PlaceSame(x, y) /\ y.phase = x.phase
        /\ y.blocked = x.blocked /\ y.complete = x.complete
    BY <1>8, <2>1, <2>2, FirstCommit
  <2> QED  BY <1>9, <2>1, <2>3, <2>4
<1>11. Append(h, x.proj) = history'
  BY <1>1, <1>3, <1>7
<1>12. /\ w'.phase # "cold" /\ w'.gen = g /\ w'.durable = 0 /\ w'.retryBatch = NoBatch
       /\ ~w'.attempted /\ ~w'.emptyPending /\ ~w'.blocked /\ w'.complete
  BY <1>7, <1>10 DEF PlaceSame
<1>13. /\ st'.cursor = [gen |-> 0, rev |-> 0, size |-> 0] /\ st'.created = FALSE
       /\ st'.pending = NoPending /\ st'.allowCreate /\ st'.cur = Birth
       /\ st'.published = FALSE /\ st'.mut = NoMutation
  BY <1>1 DEF NoStorage
<1>14. FileOk(file, g, excuses')
  <2>1. file.gen \in 0 .. g
    BY <1>2, <1>5
  <2>2. "foreign" \in excuses => "foreign" \in excuses'
    BY <1>1
  <2> QED  BY <1>2, <2>1, <2>2 DEF FileOk
<1>15. CursorOk(file, st'.cursor)
  BY <1>2, <1>13, NoCursor
<1>16. CreatedOk(file, w', st', excuses') /\ ExcusesOk(file, excuses')
  BY <1>1, <1>2, <1>13 DEF CreatedOk, ExcusesOk
<1>17. ContentOk(file, w', NoPending, NoRow, history', excuses')
  <2>1. ~Mine(file, w', NoPending)
    BY <1>2, <1>5, <1>12 DEF Mine
  <2> QED  BY <2>1 DEF ContentOk
<1>18. RowOk(file, w', st', Idle, NoRow, excuses')
  BY <1>12, <1>13, IdleIs, NoStorageIs DEF RowOk
<1>19. RenamedOk(file, NoPending) /\ StepsOk(file, w', st', Idle)
  BY IdleIs DEF RenamedOk, StepsOk
<1>20. RowStays(file, w', NoPending, Idle, excuses')
  BY <1>1 DEF RowStays
<1>21. CauseOk(w', NoPending, Idle, excuses')
  BY <1>12, IdleIs DEF CauseOk, NoPending
<1>22. AsLeft(file, w', st', Idle, excuses')
  <2>1. excuses' = {} => file = NoFile
    BY <1>1
  <2> QED  BY <1>12, <1>13, <2>1 DEF AsLeft, NothingYet
<1>23. Stored(file, w', st', Idle, NoRow, history', excuses', g)
  BY <1>13, <1>14, <1>15, <1>16, <1>17, <1>18, <1>19, <1>20, <1>21, <1>22 DEF Stored
<1>24. opens' \in 0 .. MaxOpens
  BY <1>1, <1>2, BoundsAssumption
<1> QED  BY <1>1, <1>2, <1>5, <1>10, <1>11, <1>13, <1>23, <1>24, <1>25 DEF Written, OnDisk

(* A history without a revision is empty. *)
LEMMA NoRevision ==
  ASSUME NEW f, NEW g, NEW e, FileOk(f, g, e), Revision(f) = 0
  PROVE  Content(f) = <<>>
<1>1. /\ Len(f.rows) \in Nat /\ Valid(f) = Len(f.rows)
      /\ Revision(f) = Reach(f, Len(f.rows)) /\ f.base \in Nat
  <2>1. f.base \in Nat
    BY DEF FileOk
  <2> QED  BY <2>1, WholeFile
<1>2. Len(f.rows) = 0
  <2> SUFFICES ASSUME Len(f.rows) # 0 PROVE FALSE
    OBVIOUS
  <2>1. PICK a \in 0 .. Len(f.rows), b \in 0 .. Len(f.rows) :
          a = 0 /\ b = Len(f.rows) /\ a < b
    BY <1>1
  <2>2. Reach(f, a) < Reach(f, b)
    BY <2>1, ReachGrows
  <2>3. Reach(f, a) = f.base /\ Reach(f, b) = 0
    BY <1>1, <2>1 DEF Reach
  <2> QED  BY <1>1, <2>2, <2>3
<1>3. f.base = 0
  BY <1>1, <1>2 DEF Reach
<1>4. f.ops = <<>> /\ Valid(f) = 0
  BY <1>1, <1>2, <1>3 DEF FileOk
<1>5. FlattenSeq([i \in 1 .. 0 |-> f.rows[i].ops]) = <<>>
  <2> DEFINE G == [i \in 1 .. 0 |-> f.rows[i].ops]
  <2>1. [i \in 1 .. 0 |-> G[i]] = G
    OBVIOUS
  <2> HIDE DEF G
  <2>2. FlattenSeq(G) = <<>>
    BY <2>1, FlattenNone
  <2> QED  BY <2>2 DEF G
<1> QED  BY <1>4, <1>5, ConcatEmptySeq DEF Content

(* What the new owner takes over ends with what the file says. *)
LEMMA KeptIs ==
  ASSUME Certain, w.phase = "cold", meta # NoRow, Readable(file),
         NEW r, r = Revision(file), NEW m, m = Content(file), NEW h, h = Kept(r, m)
  PROVE  /\ h \in Seq(Seq(Nat)) /\ Len(h) = r /\ Said(h, r) = m
         /\ r \in Nat /\ m \in Seq(Nat)
<1>1. /\ FileOk(file, gens, excuses) /\ ExcusesOk(file, excuses) /\ Sure
      /\ Stored(file, w, st, io, meta, history, excuses, gens)
  BY NewOwner
<1>2. r \in Nat /\ m \in Seq(Nat)
  BY <1>1, RevisionReach, ContentType
<1>3. history \in Seq(Seq(Nat)) /\ Len(history) \in Nat
  BY <1>1, SureFacts
<1>4. h = [i \in 1 .. r |->
             IF "foreign" \in excuses \/ i > Len(history) THEN m ELSE history[i]]
  BY DEF Kept
<1>5. \A i \in 1 .. r : h[i] \in Seq(Nat)
  <2> TAKE i \in 1 .. r
  <2>1. CASE "foreign" \in excuses \/ i > Len(history)
    BY <1>2, <1>4, <2>1
  <2>2. CASE ~("foreign" \in excuses \/ i > Len(history))
    <3>1. i \in 1 .. Len(history)
      BY <1>2, <1>3, <2>2
    <3>2. history[i] \in Seq(Nat)
      BY <1>3, <3>1, ElementOfSeq
    <3> QED  BY <1>4, <2>2, <3>2
  <2> QED  BY <2>1, <2>2
<1>6. h \in Seq(Seq(Nat)) /\ Len(h) = r
  <2>1. h \in [1 .. r -> Seq(Nat)]
    BY <1>4, <1>5
  <2>2. PICK T : T = Seq(Nat)
    OBVIOUS
  <2>3. h \in [1 .. r -> T]
    BY <2>1, <2>2
  <2>4. h \in Seq(T)
    BY <1>2, <2>3, SeqDef
  <2>5. Len(h) \in Nat /\ DOMAIN h = 1 .. Len(h) /\ DOMAIN h = 1 .. r
    BY <2>3, <2>4, LenProperties
  <2>6. Len(h) = r
    BY <1>2, <2>5
  <2> QED  BY <2>2, <2>4, <2>6
<1>7. CASE r = 0
  <2>1. m = <<>>
    BY <1>1, <1>7, NoRevision
  <2> QED  BY <1>2, <1>6, <1>7, <2>1 DEF Said
<1>8. CASE r # 0
  <2>1. Said(h, r) = h[r] /\ r \in 1 .. r
    BY <1>2, <1>8 DEF Said
  <2>2. CASE "foreign" \in excuses \/ r > Len(history)
    BY <1>2, <1>4, <1>6, <2>1, <2>2
  <2>3. CASE ~("foreign" \in excuses \/ r > Len(history))
    <3>1. Trusted(excuses)
      BY <1>1, <2>3 DEF ExcusesOk, Trusted
    <3>2. m = Said(history, r)
      BY <1>1, <3>1 DEF Stored, ContentOk, FileSays
    <3>3. h[r] = history[r]
      BY <1>4, <2>1, <2>3
    <3> QED  BY <1>2, <1>6, <1>8, <2>1, <3>2, <3>3 DEF Said
  <2> QED  BY <2>2, <2>3
<1> QED  BY <1>7, <1>8

LEMMA ResolvedType ==
  ASSUME NEW row \in RowT, NEW f, NEW g, NEW e, FileOk(f, g, e)
  PROVE  /\ Resolved(row, f) \in RowT
         /\ [Resolved(row, f) EXCEPT !.stats = Len(Content(f))] \in RowT
<1>1. Content(f) \in Seq(Nat)
  BY ContentType
<1>2. Len(Content(f)) \in Nat
  BY <1>1, LenProperties
<1>3. PICK n \in Nat : n = Len(Content(f))
  BY <1>2
<1>4. Resolved(row, f) = IF row.intent = NoIntent THEN row
                         ELSE IF f.gen = row.intent.dst
                         THEN [row EXCEPT !.bind = @ + 1, !.stats = n, !.intent = NoIntent]
                         ELSE [row EXCEPT !.intent = NoIntent]
  BY <1>3 DEF Resolved
<1>5. Resolved(row, f) \in RowT
  <2>1. row.bind + 1 \in Nat /\ NoIntent \in [src : Nat, dst : Nat, rev : Nat]
    BY DEF RowT, NoIntent
  <2>2. PICK b \in Nat, i \in [src : Nat, dst : Nat, rev : Nat] :
          b = row.bind + 1 /\ i = NoIntent
    BY <2>1
  <2>3. /\ [row EXCEPT !.bind = b, !.stats = n, !.intent = i] \in RowT
        /\ [row EXCEPT !.intent = i] \in RowT
    BY <1>3 DEF RowT
  <2>4. [row EXCEPT !.bind = @ + 1, !.stats = n, !.intent = NoIntent]
          = [row EXCEPT !.bind = b, !.stats = n, !.intent = i]
    BY <2>2 DEF RowT
  <2> QED  BY <1>4, <2>2, <2>3, <2>4
<1> QED  BY <1>3, <1>5 DEF RowT

(* A new owner that has read the file starts where it ends. *)
LEMMA AdoptedStored ==
  ASSUME Certain, w.phase = "cold", meta # NoRow, Readable(file),
         NEW r, r = Revision(file), NEW m, m = Content(file), NEW h, h = Kept(r, m),
         NEW x, x.phase = "active", x.gen = file.gen, x.durable = r, x.retryBatch = NoBatch,
         x.complete, ~x.blocked, ~x.attempted, ~x.emptyPending,
         NEW s, s.cursor = [gen |-> 0, rev |-> 0, size |-> 0], s.created = FALSE,
         s.pending = NoPending, s.coldTail = (TailState(file) = "incomplete"),
         s.cur \in RowT, s.mut \in MutationT
  PROVE  Stored(file, x, s, Idle, meta, h, excuses \cap {"foreign"}, gens)
<1> DEFINE e == excuses \cap {"foreign"}
<1>1. /\ FileOk(file, gens, excuses) /\ ExcusesOk(file, excuses) /\ Sure
      /\ (file.gen = 0 => file.base = 0)
      /\ Stored(file, w, st, io, meta, history, excuses, gens)
  BY NewOwner
<1>2. /\ Len(h) = r /\ Said(h, r) = m /\ r \in Nat
  BY KeptIs
<1>3. FileOk(file, gens, e)
  BY <1>1 DEF FileOk
<1>4. CursorOk(file, s.cursor)
  BY <1>1, NoCursor
<1>5. file # NoFile
  BY DEF Readable, NoFile, Transcript
<1>6. CreatedOk(file, x, s, e) /\ ExcusesOk(file, e)
  BY <1>5 DEF CreatedOk, ExcusesOk
<1>7. ContentOk(file, x, NoPending, meta, h, e)
  <2>1. Mine(file, x, NoPending)
    BY DEF Mine
  <2>2. Revision(file) \in x.durable .. Len(h)
    BY <1>2
  <2>3. FileSays(file, x, h)
    BY <1>2, <2>2 DEF FileSays
  <2> QED  BY <2>1, <2>3 DEF ContentOk
<1>8. RowOk(file, x, s, Idle, meta, e)
  BY <1>1, IdleIs DEF Stored, RowOk
<1>9. RenamedOk(file, s.pending) /\ StepsOk(file, x, s, Idle)
  BY IdleIs DEF RenamedOk, StepsOk
<1>10. RowStays(file, x, s.pending, Idle, e)
  BY DEF RowStays
<1>11. CauseOk(x, s.pending, Idle, e)
  BY IdleIs DEF CauseOk, NoPending
<1>12. AsLeft(file, x, s, Idle, e)
  <2>1. TailState(file) = IF file.tail # NoBatch THEN "incomplete" ELSE "clean"
    BY <1>1, WholeFile
  <2>2. file.tail = NoBatch \/ s.coldTail
    BY <2>1
  <2> QED  BY <2>2 DEF AsLeft, UpToDate
<1> HIDE DEF e
<1>13. Stored(file, x, s, Idle, meta, h, e, gens)
  BY <1>3, <1>4, <1>6, <1>7, <1>8, <1>9, <1>10, <1>11, <1>12 DEF Stored
<1> QED  BY <1>13 DEF e

LEMMA SureActivate ==
  ASSUME Certain, Activate
  PROVE  Written' /\ OnDisk'
<1>1. PICK r, m, h, x, row :
        /\ r = Revision(file) /\ m = Content(file) /\ h = Kept(r, m)
        /\ x = Instance(file.gen, r, m) /\ row = Resolved(meta, file)
  OBVIOUS
<1>2. PICK s : s = [NoStorage EXCEPT !.coldTail = (TailState(file) = "incomplete"),
                                     !.published = TRUE,
                                     !.cur = [row EXCEPT !.stats = Len(m)]]
  OBVIOUS
<1>3. /\ w.phase = "cold" /\ meta # NoRow /\ opens < MaxOpens /\ Readable(file)
      /\ opens' = opens + 1 /\ gens' = gens
      /\ \/ w' = x /\ st' = [s EXCEPT !.pend = {"stats"}] /\ history' = h
         \/ w' = RequestCommit(x) /\ st' = [s EXCEPT !.pend = Keys] /\ history' = Append(h, m)
      /\ file' = file /\ meta' = meta /\ io' = io /\ ops' = ops /\ edits' = edits
      /\ excuses' = excuses \cap {"foreign"}
  BY <1>1, <1>2 DEF Activate
<1>4. /\ io = Idle /\ Sure /\ FileOk(file, gens, excuses)
      /\ Stored(file, w, st, io, meta, history, excuses, gens)
      /\ opens \in Nat /\ gens \in Nat /\ file.gen \in 0 .. gens
      /\ edits \in 0 .. MaxEdits /\ ops \in Nat
  BY <1>3, NewOwner
<1>5. /\ h \in Seq(Seq(Nat)) /\ Len(h) = r /\ Said(h, r) = m /\ r \in Nat /\ m \in Seq(Nat)
  BY <1>1, <1>3, KeptIs
<1>6. /\ IsWriter(x) /\ x.phase = "active" /\ x.gen = file.gen /\ x.live = r
      /\ x.durable = r /\ x.proj = m /\ x.queue = <<>> /\ x.complete /\ ~x.blocked
      /\ ~x.attempted /\ ~x.emptyPending /\ x.retryBatch = NoBatch
  BY <1>1, InstanceIs
<1>7. PICK o \in Nat : o = opens' /\ o # 0
  BY <1>3, <1>4
<1>8. Carried(x, Idle, NoPending, h, gens, o)
  <2>1. Begins(x, h, gens, o)
    BY <1>4, <1>5, <1>6, <1>7 DEF Begins
  <2> QED  BY <1>5, <2>1, BeginsCarries
<1>9. /\ s.cursor = [gen |-> 0, rev |-> 0, size |-> 0] /\ s.created = FALSE
      /\ s.pending = NoPending /\ s.coldTail = (TailState(file) = "incomplete")
      /\ s.allowCreate = FALSE /\ s.published = TRUE
      /\ s.cur \in RowT /\ s.mut \in MutationT /\ StoreShape(s)
  <2>1. meta \in RowT
    BY <1>3, <1>4 DEF Stored, RowOk
  <2>2. PICK c : c = [row EXCEPT !.stats = Len(m)]
    OBVIOUS
  <2>3. c \in RowT
    BY <1>1, <1>4, <2>1, <2>2, ResolvedType
  <2>4. s = [NoStorage EXCEPT !.coldTail = (TailState(file) = "incomplete"),
                              !.published = TRUE, !.cur = c]
    BY <1>2, <2>2
  <2> QED  BY <2>3, <2>4, NoStorageIs DEF NoStorage, StoreShape, NoPending, Point
<1>10. Stored(file, x, s, Idle, meta, h, excuses', gens)
  <2>1. Stored(file, x, s, Idle, meta, h, excuses \cap {"foreign"}, gens)
    BY <1>1, <1>3, <1>6, <1>9, AdoptedStored
  <2> QED  BY <1>3, <2>1
<1>11. /\ StoreSame(s, st') /\ st'.cur = s.cur /\ st'.mut = s.mut /\ st'.pending = NoPending
  BY <1>3, <1>9 DEF StoreShape, StoreSame
<1>12. opens' \in 0 .. MaxOpens
  BY <1>3, <1>4, BoundsAssumption
<1>13. CASE w' = x /\ history' = h
  <2>1. PICK e : e = excuses'
    OBVIOUS
  <2>2. PICK t : t = st'
    OBVIOUS
  <2>3. Stored(file, x, t, Idle, meta, h, e, gens)
    <3>1. StoreSame(s, t) /\ t.cur \in RowT /\ t.mut \in MutationT
          /\ (t.mut.open => s.mut.open \/ meta # NoRow)
      BY <1>9, <1>11, <2>2
    <3>2. PlaceSame(x, x) /\ Continues(h, h)
      BY <1>5, ContinuesSelf DEF PlaceSame
    <3>3. Stored(file, x, s, Idle, meta, h, e, gens)
      BY <1>10, <2>1
    <3> QED  BY <1>5, <1>6, <3>1, <3>2, <3>3, FrameDisk
  <2> QED  BY <1>3, <1>4, <1>7, <1>8, <1>11, <1>12, <1>13, <2>1, <2>2, <2>3
           DEF Written, OnDisk
<1>14. CASE w' = RequestCommit(x) /\ history' = Append(h, m)
  <2>1. PICK y : y = RequestCommit(x)
    OBVIOUS
  <2>2. Carried(y, Idle, NoPending, Append(h, x.proj), gens, o)
    <3>1. IsWriter(x) /\ x.phase = "active"
      BY <1>6
    <3> QED  BY <1>8, <2>1, <3>1, FirstCommit
  <2>3. /\ PlaceSame(x, y) /\ y.blocked = x.blocked /\ y.complete = x.complete
    <3>1. IsWriter(x) /\ x.phase = "active"
      BY <1>6
    <3> QED  BY <1>8, <2>1, <3>1, FirstCommit
  <2>4. PICK e : e = excuses'
    OBVIOUS
  <2>5. PICK t : t = st'
    OBVIOUS
  <2>6. PICK h2 : h2 = Append(h, m)
    OBVIOUS
  <2>7. Stored(file, y, t, Idle, meta, h2, e, gens)
    <3>1. StoreSame(s, t) /\ t.cur \in RowT /\ t.mut \in MutationT
          /\ (t.mut.open => s.mut.open \/ meta # NoRow)
      BY <1>3, <1>9, <1>11, <2>5
    <3>2. Continues(h2, h)
      BY <1>5, <2>6, ContinuesMore
    <3>3. Stored(file, x, s, Idle, meta, h, e, gens)
      BY <1>10, <2>4
    <3> QED  BY <1>5, <1>6, <2>3, <3>1, <3>2, <3>3, FrameDisk
  <2>8. w' = y /\ history' = h2 /\ Append(h, x.proj) = h2
    BY <1>6, <1>14, <2>1, <2>6
  <2> QED  BY <1>3, <1>4, <1>7, <1>11, <1>12, <2>2, <2>4, <2>5, <2>7, <2>8
           DEF Written, OnDisk
<1> QED  BY <1>3, <1>13, <1>14

LEMMA SureActivateDamaged ==
  ASSUME Certain, ActivateDamaged
  PROVE  Written' /\ OnDisk'
<1>1. /\ w.phase = "cold" /\ meta # NoRow /\ opens < MaxOpens /\ ~Readable(file)
      /\ opens' = opens + 1 /\ gens' = gens + 1
      /\ w' = Fail([Instance(gens + 1, 0, <<>>) EXCEPT !.complete = FALSE, !.blocked = TRUE],
                   "degraded")
      /\ st' = [NoStorage EXCEPT !.published = TRUE, !.cur = meta]
      /\ history' = <<>> /\ file' = file /\ meta' = meta /\ io' = io
      /\ ops' = ops /\ edits' = edits /\ excuses' = excuses
  BY DEF ActivateDamaged
<1>2. /\ io = Idle /\ Sure /\ FileOk(file, gens, excuses) /\ ExcusesOk(file, excuses)
      /\ Stored(file, w, st, io, meta, history, excuses, gens)
      /\ opens \in Nat /\ gens \in Nat /\ file.gen \in 0 .. gens
      /\ edits \in 0 .. MaxEdits /\ ops \in Nat
  BY <1>1, NewOwner
<1>3. PICK h : h = <<>>
  OBVIOUS
<1>4. h \in Seq(Seq(Nat)) /\ Len(h) = 0 /\ Said(h, 0) = <<>>
  BY <1>3, EmptySeq DEF Said
<1>5. PICK g \in Nat : g = gens + 1
  BY <1>2
<1>6. PICK x : x = [Instance(g, 0, <<>>) EXCEPT !.complete = FALSE, !.blocked = TRUE]
  OBVIOUS
<1>7. /\ IsWriter(x) /\ x.phase = "active" /\ x.gen = g /\ x.live = 0
      /\ x.durable = 0 /\ x.proj = <<>> /\ x.queue = <<>> /\ ~x.complete /\ x.blocked
      /\ x.retryBatch = NoBatch
  BY <1>6 DEF Instance, Cold, IsWriter
<1>8. SameCore(x, w')
  BY <1>1, <1>5, <1>6, <1>7, CoreFails
<1>9. PICK o \in Nat : o = opens' /\ o # 0
  BY <1>1, <1>2
<1>10. Carried(w', Idle, NoPending, h, g, o)
  <2>1. Begins(x, h, g, o)
    BY <1>4, <1>7, <1>9 DEF Begins
  <2>2. Carried(x, Idle, NoPending, h, g, o)
    BY <1>4, <2>1, BeginsCarries
  <2> QED  BY <1>8, <2>2, CarriedCore
<1>11. w'.phase # "cold" /\ w'.gen = g /\ w'.durable = 0
  BY <1>7, <1>8 DEF SameCore
<1>12. /\ st'.cursor = [gen |-> 0, rev |-> 0, size |-> 0] /\ st'.created = FALSE
       /\ st'.pending = NoPending /\ st'.cur = meta /\ st'.mut = NoMutation
  BY <1>1 DEF NoStorage
<1>13. meta \in RowT /\ "emptied" \in excuses
  BY <1>1, <1>2 DEF Stored, RowOk
<1>14. FileOk(file, g, excuses)
  <2>1. file.gen \in 0 .. g
    BY <1>2, <1>5
  <2> QED  BY <1>2, <2>1 DEF FileOk
<1>15. CursorOk(file, st'.cursor) /\ ContentOk(file, w', NoPending, meta, h, excuses)
  BY <1>1 DEF CursorOk, ContentOk
<1>16. CreatedOk(file, w', st', excuses)
  BY <1>12 DEF CreatedOk
<1>17. RowOk(file, w', st', Idle, meta, excuses)
  BY <1>1, <1>12, <1>13, IdleIs, NoStorageIs DEF RowOk
<1>18. RenamedOk(file, NoPending) /\ StepsOk(file, w', st', Idle)
  BY IdleIs DEF RenamedOk, StepsOk
<1>19. RowStays(file, w', NoPending, Idle, excuses)
  BY <1>2, <1>13 DEF ExcusesOk, RowStays
<1>20. CauseOk(w', NoPending, Idle, excuses) /\ AsLeft(file, w', st', Idle, excuses)
  BY <1>13 DEF CauseOk, AsLeft
<1>21. Stored(file, w', st', Idle, meta, h, excuses, g)
  BY <1>2, <1>12, <1>14, <1>15, <1>16, <1>17, <1>18, <1>19, <1>20 DEF Stored
<1>22. opens' \in 0 .. MaxOpens
  BY <1>1, <1>2, BoundsAssumption
<1> QED  BY <1>1, <1>2, <1>3, <1>5, <1>9, <1>10, <1>12, <1>21, <1>22 DEF Written, OnDisk

(* When the process is gone its file is what it was. *)
LEMMA SureEnd ==
  ASSUME Certain, RetireSettled \/ Exit
  PROVE  Written' /\ OnDisk'
<1>1. /\ w' = Ended /\ st' = NoStorage /\ io' = Idle /\ file' = file /\ meta' = meta
      /\ history' = history /\ excuses' = excuses /\ opens' = opens /\ gens' = gens
      /\ ops' = ops /\ edits' = edits
  BY DEF RetireSettled, Exit, Busy, disk, ghosts, counts
<1>2. Sure /\ (file.gen = 0 => file.base = 0)
  BY DEF Certain, Founded, SeenOk
<1>3. /\ Stored(file, w, st, io, meta, history, excuses, gens)
      /\ FileOk(file, gens, excuses)
  BY <1>2, NowFacts DEF Stored
<1>4. /\ history \in Seq(Seq(Nat)) /\ w.live = Len(history) /\ gens \in Nat
  BY <1>2, SureFacts
<1>5. PICK x : x = Ended
  OBVIOUS
<1>6. /\ x.phase = "cold" /\ x.gen = 0 /\ x.live = w.live /\ x.durable = w.durable
      /\ x.queue = <<>> /\ x.retryBatch = NoBatch /\ x.complete /\ ~x.blocked
      /\ ~x.attempted /\ ~x.emptyPending
  BY <1>5 DEF Ended, Cold
<1>7. Carried(x, Idle, NoPending, history, gens, opens)
  <2>1. Begins(x, history, gens, opens)
    BY <1>4, <1>6 DEF Begins, Recording
  <2> QED  BY <1>4, <2>1, BeginsCarries
<1>8. PICK s : s = NoStorage
  OBVIOUS
<1>9. /\ s.cursor = [gen |-> 0, rev |-> 0, size |-> 0] /\ s.created = FALSE
      /\ s.pending = NoPending /\ s.published = FALSE
      /\ s.mut \in MutationT /\ ~s.mut.open /\ s.cur \in RowT
  BY <1>8, NoStorageIs
<1>10. CursorOk(file, s.cursor)
  BY <1>2, <1>3, <1>9, NoCursor
<1>11. CreatedOk(file, x, s, excuses) /\ ExcusesOk(file, excuses)
  BY <1>3, <1>9 DEF Stored, CreatedOk
<1>12. ContentOk(file, x, NoPending, meta, history, excuses)
  BY <1>3, <1>6 DEF Stored, ContentOk, Mine, FileSays
<1>13. RowOk(file, x, s, Idle, meta, excuses)
  BY <1>3, <1>6, <1>9, IdleIs DEF Stored, RowOk
<1>14. RenamedOk(file, s.pending) /\ StepsOk(file, x, s, Idle)
  BY <1>9, IdleIs DEF RenamedOk, StepsOk
<1>15. RowStays(file, x, NoPending, Idle, excuses)
  BY <1>3, <1>6, IdleIs DEF Stored, RowStays
<1>16. CauseOk(x, NoPending, Idle, excuses)
  BY <1>6, IdleIs DEF CauseOk, NoPending
<1>17. AsLeft(file, x, s, Idle, excuses)
  BY <1>6 DEF AsLeft
<1>18. Stored(file, x, s, Idle, meta, history, excuses, gens)
  BY <1>3, <1>9, <1>10, <1>11, <1>12, <1>13, <1>14, <1>15, <1>16, <1>17 DEF Stored
<1> QED  BY <1>1, <1>2, <1>5, <1>7, <1>8, <1>9, <1>18, SureFacts, NowFacts
         DEF Written, OnDisk

(* Another program may only get between the steps of the owner. *)
LEMMA IntrusionFacts ==
  ASSUME Certain, NEW kind \in Intrusions, Intrude(kind)
  PROVE  /\ Sure /\ Stored(file, w, st, io, meta, history, excuses, gens)
         /\ FileOk(file, gens, excuses) /\ ExcusesOk(file, excuses)
         /\ "foreign" \notin excuses /\ Trusted(excuses)
         /\ Readable(file) /\ file.tail = NoBatch
         /\ io.step \in {"none", "open", "candidate"}
         /\ st.cursor.gen = 0 => st.cursor.rev = 0 /\ st.cursor.size = 0
         /\ st.pending # NoPending => st.pending.gen # 0
         /\ gens \in Nat /\ w.durable \in Nat /\ w' = w /\ st' = st /\ io' = io /\ meta' = meta
         /\ history' = history /\ opens' = opens /\ gens' = gens /\ ops' = ops
         /\ edits' = edits
         /\ excuses' = excuses \cup {"foreign", IF kind = "row" THEN "row" ELSE "emptied"}
         /\ kind \in {"empty", "header", "row"}
<1>1. /\ "foreign" \notin excuses /\ Readable(file) /\ file.tail = NoBatch
      /\ io = Idle \/ io.step \in {"open", "candidate"}
      /\ w' = w /\ st' = st /\ io' = io /\ meta' = meta
      /\ history' = history /\ opens' = opens /\ gens' = gens /\ ops' = ops
      /\ edits' = edits
      /\ excuses' = excuses \cup {"foreign", IF kind = "row" THEN "row" ELSE "emptied"}
  BY DEF Intrude, Busy, counts
<1>2. Sure /\ (st.cursor.gen = 0 => st.cursor.rev = 0 /\ st.cursor.size = 0)
  BY <1>1 DEF Certain, Founded, SeenOk
<1>3. /\ Stored(file, w, st, io, meta, history, excuses, gens)
      /\ FileOk(file, gens, excuses) /\ ExcusesOk(file, excuses)
  BY <1>2, NowFacts DEF Stored
<1>4. Trusted(excuses)
  BY <1>1, <1>3 DEF ExcusesOk, Trusted
<1>5. st.pending # NoPending => st.pending.gen # 0
  BY <1>2, NowFacts, SureFacts DEF Carried, PendingOk
<1>6. kind \in {"empty", "header", "row"}
  BY BoundsAssumption
<1> QED  BY <1>1, <1>2, <1>3, <1>4, <1>5, <1>6, IdleIs, SureFacts

(* A file that was truncated, or started over, holds nothing. *)
LEMMA IntrudeEmpties ==
  ASSUME Certain, NEW kind \in Intrusions, Intrude(kind), kind # "row"
  PROVE  Stored(file', w, st, io, meta, history, excuses', gens)
<1>1. /\ Sure /\ Stored(file, w, st, io, meta, history, excuses, gens)
      /\ ExcusesOk(file, excuses) /\ "foreign" \notin excuses /\ Trusted(excuses)
      /\ io.step \in {"none", "open", "candidate"}
      /\ st.cursor.gen = 0 => st.cursor.rev = 0 /\ st.cursor.size = 0
      /\ st.pending # NoPending => st.pending.gen # 0
      /\ gens \in Nat
      /\ excuses' = excuses \cup {"foreign", "emptied"}
      /\ kind \in {"empty", "header"}
  BY IntrusionFacts
<1>2. PICK t : t = <<>>
  OBVIOUS
<1>3. PICK z \in Nat : z = 0
  OBVIOUS
<1>4. file' = Transcript("empty", 0, 0, t) \/ Fresh(file', z, z, t)
  BY <1>1, <1>2, <1>3 DEF Intrude, Fresh
<1>5. /\ file'.gen = 0 /\ file'.base = 0 /\ file'.rows = <<>>
      /\ file' # NoFile
  BY <1>3, <1>4 DEF Fresh, Transcript, NoFile
<1>6. FileOk(file', gens, excuses')
  <2>1. t \in Seq(Nat) /\ (z = 0 => t = <<>>) /\ z <= gens
        /\ (z = 0 => "foreign" \in excuses')
    BY <1>1, <1>2, <1>3, EmptySeq
  <2>2. CASE Fresh(file', z, z, t)
    BY <1>1, <2>1, <2>2, NewFileOk
  <2>3. CASE file' = Transcript("empty", 0, 0, t)
    <3>1. <<>> \in Seq(BatchT) /\ Len(<<>>) = 0
      BY EmptySeq
    <3>2. /\ file'.kind = "empty" /\ file'.gen = 0 /\ file'.base = 0 /\ file'.ops = <<>>
          /\ file'.rows = <<>> /\ file' = Transcript(file'.kind, file'.gen, 0, <<>>)
      BY <1>2, <2>3 DEF Transcript
    <3>3. file' \in [kind : {"none", "empty", "header", "v2"}, gen : 0 .. gens, base : Nat,
                     ops : Seq(Nat), rows : Seq(BatchT), tail : BatchT]
      BY <1>1, <2>1, <2>3, <3>1, NoBatchType DEF Transcript
    <3>4. \A i \in 1 .. Len(file'.rows) : Contiguous(file', i)
      BY <3>1, <3>2
    <3> QED  BY <2>1, <3>2, <3>3, <3>4, <1>1 DEF FileOk
  <2> QED  BY <1>4, <2>2, <2>3
<1>7. CursorOk(file', st.cursor)
  <2>1. SUFFICES ASSUME st.cursor.gen = 0 PROVE CursorOk(file', st.cursor)
    BY <1>5 DEF CursorOk
  <2>2. Len(file'.rows) = 0
    BY <1>5, EmptySeq
  <2>3. Reach(file', 0) = 0
    BY <1>5 DEF Reach
  <2> QED  BY <1>1, <2>1, <2>2, <2>3 DEF CursorOk
<1>8. CreatedOk(file', w, st, excuses')
  BY <1>1 DEF Stored, CreatedOk
<1>9. ExcusesOk(file', excuses')
  BY <1>1, <1>5 DEF ExcusesOk, Trusted
<1>10. ContentOk(file', w, st.pending, meta, history, excuses')
  BY <1>1 DEF ContentOk, Trusted
<1>11. RowOk(file', w, st, io, meta, excuses')
  BY <1>1 DEF Stored, RowOk
<1>12. RenamedOk(file', st.pending)
  BY <1>1, <1>5 DEF RenamedOk
<1>13. StepsOk(file', w, st, io)
  BY <1>1 DEF Stored, StepsOk
<1>14. RowStays(file', w, st.pending, io, excuses')
  BY <1>1 DEF RowStays, Trusted
<1>15. CauseOk(w, st.pending, io, excuses') /\ AsLeft(file', w, st, io, excuses')
  BY <1>1 DEF CauseOk, AsLeft
<1> QED  BY <1>6, <1>7, <1>8, <1>9, <1>10, <1>11, <1>12, <1>13, <1>14, <1>15 DEF Stored

(* A row of another program goes beyond all the owner knows of. *)
LEMMA IntrudeAdds ==
  ASSUME Certain, NEW kind \in Intrusions, Intrude(kind), kind = "row"
  PROVE  Stored(file', w, st, io, meta, history, excuses', gens)
<1>1. /\ Sure /\ Stored(file, w, st, io, meta, history, excuses, gens)
      /\ FileOk(file, gens, excuses)
      /\ ExcusesOk(file, excuses) /\ "foreign" \notin excuses /\ Trusted(excuses)
      /\ Readable(file) /\ io.step \in {"none", "open", "candidate"}
      /\ gens \in Nat /\ w.durable \in Nat
      /\ excuses' = excuses \cup {"foreign", "row"}
  BY IntrusionFacts
<1>2. Revision(file) \in Nat /\ file.base <= Revision(file)
  BY <1>1, RevisionReach
<1>3. PICK b : b = ForeignBatch(file)
  OBVIOUS
<1>4. /\ b \in BatchT /\ b.from = Revision(file) + 1 /\ b.to >= b.from
      /\ b.to = Revision(file) + 1 /\ b.inst = MaxOpens + 1
  <2>1. Revision(file) + 1 \in Nat /\ MaxOpens + 1 \in Nat
    BY <1>2, BoundsAssumption
  <2>2. <<0>> \in Seq(Nat)
    OBVIOUS
  <2> QED  BY <1>3, <2>1, <2>2 DEF ForeignBatch, Batch, BatchT
<1>5. Grown(file', file, b)
  <2>1. file' = [file EXCEPT !.rows = Append(@, b)]
    BY <1>3 DEF Intrude
  <2>2. file.tail = NoBatch
    BY IntrusionFacts
  <2> QED  BY <1>1, <2>1, <2>2 DEF FileOk, Grown
<1>6. FileOk(file, gens, excuses')
  BY <1>1 DEF FileOk
<1>7. FileOk(file', gens, excuses')
  BY <1>1, <1>4, <1>5, <1>6, GrownContent
<1>8. /\ Readable(file') /\ file'.gen = file.gen /\ file'.base = file.base
      /\ Len(file'.rows) = Len(file.rows) + 1 /\ file'.rows[Len(file'.rows)] = b
      /\ file'.rows # <<>> /\ file'.tail = NoBatch
      /\ Revision(file') = b.to
      /\ \A n \in 0 .. Len(file.rows) : Reach(file', n) = Reach(file, n)
  BY <1>1, <1>4, <1>5, <1>6, GrownContent
<1>9. CursorOk(file', st.cursor)
  <2>1. Len(file.rows) \in Nat
    BY <1>1, WholeFile
  <2> QED  BY <1>1, <1>8, <2>1 DEF Stored, CursorOk
<1>10. CreatedOk(file', w, st, excuses')
  BY <1>1, <1>8 DEF Stored, CreatedOk
<1>11. ExcusesOk(file', excuses')
  <2>1. file' # NoFile
    BY <1>8 DEF Readable, NoFile, Transcript
  <2> QED  BY <1>1, <2>1 DEF ExcusesOk, Trusted
<1>12. ContentOk(file', w, st.pending, meta, history, excuses')
  BY <1>1 DEF ContentOk, Trusted
<1>13. RowOk(file', w, st, io, meta, excuses')
  BY <1>1, <1>8 DEF Stored, RowOk
<1>14. RenamedOk(file', st.pending)
  BY <1>1, <1>8 DEF Stored, RenamedOk
<1>15. StepsOk(file', w, st, io)
  BY <1>1 DEF Stored, StepsOk
<1>16. RowStays(file', w, st.pending, io, excuses')
  <2>1. ASSUME w.phase # "cold", file.gen = w.gen
        PROVE  b.to > w.durable
    <3>1. FileSays(file, w, history)
      BY <1>1, <2>1 DEF Stored, ContentOk, Mine
    <3>2. Revision(file) >= w.durable
      BY <1>1, <1>2, <3>1, SureFacts DEF FileSays
    <3> QED  BY <1>1, <1>2, <1>4, <3>2
  <2>2. ASSUME st.pending # NoPending, file.gen = st.pending.gen
        PROVE  b.to > st.pending.rev
    <3>1. file.base = st.pending.rev
      BY <1>1, <2>2 DEF Stored, RenamedOk
    <3>2. file.base \in Nat
      BY <1>1 DEF FileOk
    <3> QED  BY <1>2, <1>4, <3>1, <3>2
  <2> QED  BY <1>1, <1>4, <1>8, <2>1, <2>2 DEF RowStays
<1>17. CauseOk(w, st.pending, io, excuses') /\ AsLeft(file', w, st, io, excuses')
  BY <1>1 DEF CauseOk, AsLeft
<1> QED  BY <1>7, <1>9, <1>10, <1>11, <1>12, <1>13, <1>14, <1>15, <1>16, <1>17 DEF Stored

LEMMA SureIntrude ==
  ASSUME Certain, NEW kind \in Intrusions, Intrude(kind)
  PROVE  Written' /\ OnDisk'
<1>1. Stored(file', w, st, io, meta, history, excuses', gens)
  BY IntrudeEmpties, IntrudeAdds
<1>2. /\ Sure /\ w' = w /\ st' = st /\ io' = io /\ meta' = meta
      /\ history' = history /\ opens' = opens /\ gens' = gens /\ ops' = ops
      /\ edits' = edits
  BY IntrusionFacts
<1> QED  BY <1>1, <1>2, NowFacts, SureFacts DEF Written, OnDisk

-----------------------------------------------------------------------------
(* Founded is kept: by what a step leaves alone, and by the few that read  *)
(* or write the file.                                                      *)

SamePlace(f, f2) ==
  /\ f2.gen = f.gen /\ f2.base = f.base /\ (Readable(f) => Readable(f2))
  /\ f2 = NoFile => f = NoFile

SameSeat(s, t) ==
  t.cursor = s.cursor /\ t.created = s.created /\ t.allowCreate = s.allowCreate

SameOwner(x, y, e, e2) ==
  /\ y.gen = x.gen /\ (y.phase # "cold" => x.phase # "cold")
  /\ \/ e2 = e /\ (y.complete => x.complete)
     \/ e2 = e \cup {"fault"} /\ ~y.complete

LEMMA FrameFounded ==
  ASSUME NEW f, NEW f2, NEW x, NEW y, NEW s, NEW t, NEW j, NEW k, NEW e, NEW e2,
         SeenOk(f, x, s, e), BirthOk(f, x, s, j, e), SamePlace(f, f2), SameSeat(s, t),
         SameOwner(x, y, e, e2),
         (s.created /\ (y.baseline \/ k.job = "replace"))
           => x.baseline \/ j.job = "replace" \/ "foreign" \in e,
         k.step = "intent" => t.mut.open
  PROVE  SeenOk(f2, y, t, e2) /\ BirthOk(f2, y, t, k, e2)
<1>1. e2 \subseteq e \cup {"fault"} /\ e \subseteq e2
  BY DEF SameOwner
<1>2. SeenOk(f2, y, t, e2)
  BY <1>1 DEF SeenOk, SamePlace, SameSeat, SameOwner
<1>3. y.phase # "cold" /\ "fault" \in e2 => ~y.complete
  BY DEF BirthOk, SameOwner
<1>4. t.created =>
        /\ "leftover" \notin e2
        /\ y.baseline \/ k.job = "replace" => "foreign" \in e2
        /\ t.cursor.gen = y.gen =>
             \/ t.cursor.rev = 0 /\ t.cursor.size = 0
             \/ "foreign" \in e2 /\ Readable(f2)
  BY <1>1 DEF BirthOk, SamePlace, SameSeat, SameOwner
<1>5. t.allowCreate => y.gen # 0
  BY DEF BirthOk, SameSeat, SameOwner
<1> QED  BY <1>2, <1>3, <1>4, <1>5 DEF BirthOk

(* Steps that change neither the file nor what its owner knows of it. *)
LEMMA FoundedWriter ==
  ASSUME Certain, file' = file, SameSeat(st, st'), SameOwner(w, w', excuses, excuses'),
         (st.created /\ (w'.baseline \/ io'.job = "replace"))
           => w.baseline \/ io.job = "replace" \/ "foreign" \in excuses,
         io'.step = "intent" => st'.mut.open
  PROVE  Founded'
<1>1. SeenOk(file, w, st, excuses) /\ BirthOk(file, w, st, io, excuses)
  BY DEF Certain, Founded
<1>2. SamePlace(file, file)
  BY DEF SamePlace
<1>3. PICK y : y = w'
  OBVIOUS
<1>4. PICK t : t = st'
  OBVIOUS
<1>5. PICK k : k = io'
  OBVIOUS
<1>6. PICK e : e = excuses'
  OBVIOUS
<1>7. /\ SameSeat(st, t) /\ SameOwner(w, y, excuses, e)
      /\ (st.created /\ (y.baseline \/ k.job = "replace"))
            => w.baseline \/ io.job = "replace" \/ "foreign" \in excuses
      /\ k.step = "intent" => t.mut.open
  BY <1>3, <1>4, <1>5, <1>6
<1>8. SeenOk(file, y, t, e) /\ BirthOk(file, y, t, k, e)
  BY <1>1, <1>2, <1>7, FrameFounded
<1> QED  BY <1>3, <1>4, <1>5, <1>6, <1>8 DEF Founded

LEMMA FoundedObserve ==
  ASSUME Certain, Observe \/ PatchMetadata \/ HealthTimeout \/ Retire \/ RetireTimeout \/ Revoke
  PROVE  Founded'
<1>1. Sure /\ IsWriter(w) /\ StoreShape(st)
  BY SureFacts DEF Certain
<1>2. (io.step = "intent" => st.mut.open)
  BY DEF Certain, Founded, BirthOk
<1>3. CASE Observe
  <2>1. PICK q, a : w' = Schedule(WatchHealth([w EXCEPT
                              !.live = @ + 1, !.proj = Append(@, ops'),
                              !.queue = IF w.baseline THEN @ ELSE q]), a, Busy)
    BY <1>3 DEF Observe
  <2>2. PICK x : x = [w EXCEPT !.live = @ + 1, !.proj = Append(@, ops'),
                               !.queue = IF w.baseline THEN @ ELSE q]
    OBVIOUS
  <2>3. /\ IsWriter(x) /\ x.gen = w.gen /\ x.phase = w.phase /\ x.complete = w.complete
        /\ x.baseline = w.baseline
    BY <1>1, <2>2 DEF IsWriter
  <2>4. SameCore(x, w')
    BY <2>1, <2>2, <2>3, CoreWatched
  <2>5. SameOwner(w, w', excuses, excuses') /\ w'.baseline = w.baseline
    BY <1>3, <2>3, <2>4 DEF Observe, SameCore, SameOwner
  <2>6. SameSeat(st, st') /\ st'.mut = st.mut /\ file' = file /\ io' = io
    BY <1>1, <1>3 DEF Observe, Derived, StoreShape, SameSeat
  <2> QED  BY <1>2, <2>5, <2>6, FoundedWriter
<1>4. CASE PatchMetadata
  <2>1. SameSeat(st, st') /\ st'.mut = st.mut /\ file' = file /\ io' = io
        /\ excuses' = excuses
    BY <1>1, <1>4 DEF PatchMetadata, StoreShape, SameSeat
  <2>2. w' = w \/ w' = RequestCommit(w)
    BY <1>4 DEF PatchMetadata
  <2>3. CASE w' = RequestCommit(w)
    <3>1. PICK x : x = [w EXCEPT !.live = @ + 1,
                          !.queue = IF w.baseline THEN @ ELSE Barrier(@, w.live + 1)]
      OBVIOUS
    <3>2. /\ IsWriter(x) /\ x.gen = w.gen /\ x.phase = w.phase /\ x.complete = w.complete
          /\ x.baseline = w.baseline
      BY <1>1, <3>1 DEF IsWriter
    <3>3. SameCore(x, w')
      BY <2>3, <3>1, <3>2, CoreWatched DEF RequestCommit
    <3>4. SameOwner(w, w', excuses, excuses') /\ w'.baseline = w.baseline
      BY <2>1, <3>2, <3>3 DEF SameCore, SameOwner
    <3> QED  BY <1>2, <2>1, <3>4, FoundedWriter
  <2>4. CASE w' = w
    <3>1. SameOwner(w, w', excuses, excuses') /\ w'.baseline = w.baseline
      BY <2>1, <2>4 DEF SameOwner
    <3> QED  BY <1>2, <2>1, <3>1, FoundedWriter
  <2> QED  BY <2>2, <2>3, <2>4
<1>5. CASE HealthTimeout \/ Retire \/ RetireTimeout
  <2>1. st' = st /\ file' = file /\ io' = io /\ excuses' = excuses
    BY <1>5 DEF HealthTimeout, Retire, RetireTimeout, disk, ghosts, counts
  <2>2. PICK x : \/ x = [w EXCEPT !.watch = FALSE] /\ w' = Fail(x, "degraded")
                 \/ x = [w EXCEPT !.retiring = TRUE, !.timer = "off"] /\ w' = x
                 \/ x = [w EXCEPT !.retiring = FALSE] /\ w' = Schedule(x, FALSE, Busy)
    BY <1>5 DEF HealthTimeout, Retire, RetireTimeout
  <2>3. /\ IsWriter(x) /\ x.gen = w.gen /\ x.phase = w.phase /\ x.complete = w.complete
        /\ x.baseline = w.baseline
    BY <1>1, <2>2 DEF IsWriter
  <2>4. w' = x \/ SameCore(x, w')
    BY <2>2, <2>3, CoreHelpers
  <2>5. SameOwner(w, w', excuses, excuses') /\ w'.baseline = w.baseline
    BY <2>1, <2>3, <2>4 DEF SameCore, SameOwner
  <2>6. SameSeat(st, st')
    BY <2>1 DEF SameSeat
  <2> QED  BY <1>2, <2>1, <2>5, <2>6, FoundedWriter
<1>6. CASE Revoke
  <2>1. st' = st /\ file' = file /\ io' = io /\ excuses' = excuses
        /\ w' = [w EXCEPT !.phase = "closed", !.timer = "off", !.watch = FALSE, !.queue = <<>>]
        /\ w.phase = "active"
    BY <1>6 DEF Revoke, Active, disk, ghosts, counts
  <2>2. SameOwner(w, w', excuses, excuses') /\ w'.baseline = w.baseline
    BY <1>1, <2>1 DEF IsWriter, SameOwner
  <2>3. SameSeat(st, st')
    BY <2>1 DEF SameSeat
  <2> QED  BY <1>2, <2>1, <2>2, <2>3, FoundedWriter
<1> QED  BY <1>3, <1>4, <1>5, <1>6

LEMMA FoundedObserveFault ==
  ASSUME Certain, ObserveFault
  PROVE  Founded'
<1>1. Sure /\ IsWriter(w) /\ StoreShape(st) /\ w.phase = "active"
  BY SureFacts DEF Certain, ObserveFault, Active
<1>2. (io.step = "intent" => st.mut.open)
  BY DEF Certain, Founded, BirthOk
<1>3. PICK x : /\ \/ x = [w EXCEPT !.complete = FALSE, !.blocked = TRUE]
                  \/ x = [w EXCEPT !.complete = FALSE, !.blocked = TRUE,
                                   !.live = @ + 1, !.proj = Append(@, ops')]
               /\ w' = Fail(x, "degraded")
  BY DEF ObserveFault
<1>4. /\ IsWriter(x) /\ x.gen = w.gen /\ x.phase = w.phase /\ ~x.complete
      /\ x.baseline = w.baseline
  BY <1>1, <1>3 DEF IsWriter
<1>5. SameCore(x, w')
  BY <1>3, <1>4, CoreFails
<1>6. file' = file /\ io' = io /\ excuses' = excuses \cup {"fault"}
  BY DEF ObserveFault
<1>7. SameSeat(st, st') /\ st'.mut = st.mut
  BY <1>1 DEF ObserveFault, Derived, StoreShape, SameSeat
<1>8. SameOwner(w, w', excuses, excuses') /\ w'.baseline = w.baseline
  BY <1>1, <1>4, <1>5, <1>6 DEF SameCore, SameOwner
<1> QED  BY <1>2, <1>6, <1>7, <1>8, FoundedWriter

LEMMA FoundedRewind ==
  ASSUME Certain, NEW n \in 0 .. MaxRevision, Rewind(n)
  PROVE  Founded'
<1>1. Sure /\ IsWriter(w) /\ StoreShape(st) /\ w.durable \in Nat /\ w.live = Len(history)
  BY SureFacts DEF Certain
<1>2. /\ file' = file /\ io' = io /\ excuses' = excuses /\ io = Idle
      /\ w.phase = "active" /\ w.durable = w.live /\ n < Len(w.proj)
      /\ st' = [st EXCEPT !.cur.bind = @ + 1, !.cur.stats = n, !.cur.intent = NoIntent,
                          !.pend = Keys, !.mut = [NoMutation EXCEPT !.open = TRUE]]
  BY DEF Rewind, Active, Busy
<1>3. PICK x, y : /\ x = [w EXCEPT !.proj = SubSeq(@, 1, n), !.live = @ + 1,
                                   !.queue = <<>>, !.baseline = TRUE]
                  /\ y = Schedule(WatchHealth(x), TRUE, FALSE)
                  /\ w' = RequestCommit(y)
  BY DEF Rewind
<1>4. /\ IsWriter(x) /\ x.gen = w.gen /\ x.phase = w.phase /\ x.complete = w.complete
  BY <1>1, <1>3 DEF IsWriter
<1>5. SameCore(x, y)
  BY <1>3, <1>4, CoreWatched
<1>6. PICK z : z = [y EXCEPT !.live = @ + 1,
                        !.queue = IF y.baseline THEN @ ELSE Barrier(@, y.live + 1)]
  OBVIOUS
<1>7. /\ IsWriter(z) /\ z.gen = y.gen /\ z.phase = y.phase /\ z.complete = y.complete
  BY <1>5, <1>6 DEF SameCore, IsWriter
<1>8. SameCore(z, w')
  BY <1>3, <1>6, <1>7, CoreWatched DEF RequestCommit
<1>9. SameOwner(w, w', excuses, excuses')
  BY <1>2, <1>4, <1>5, <1>7, <1>8 DEF SameCore, SameOwner
<1>10. SameSeat(st, st')
  BY <1>1, <1>2 DEF StoreShape, SameSeat
<1>11. st.created => "foreign" \in excuses
  <2> SUFFICES ASSUME st.created, "foreign" \notin excuses PROVE FALSE
    OBVIOUS
  <2>1. w.durable = 0
    BY <1>1, NowFacts DEF Stored, CreatedOk
  <2>2. w.proj = <<>>
    BY <1>1, <1>2, <2>1, NowFacts DEF Said
  <2>3. Len(w.proj) = 0
    BY <2>2, EmptySeq
  <2> QED  BY <1>2, <2>3
<1>12. io'.step # "intent"
  BY <1>2, IdleIs
<1> QED  BY <1>2, <1>9, <1>10, <1>11, <1>12, FoundedWriter

LEMMA FoundedStart ==
  ASSUME Certain, TimerFire \/ Flush
  PROVE  Founded'
<1>1. Sure /\ IsWriter(w)
  BY SureFacts DEF Certain
<1>2. PICK x : x = [w EXCEPT !.timer = "off"]
  OBVIOUS
<1>3. /\ IsWriter(x) /\ x.gen = w.gen /\ x.phase = w.phase /\ x.complete = w.complete
      /\ x.baseline = w.baseline
  BY <1>1, <1>2 DEF IsWriter
<1>4. /\ StartWrite(x) /\ st' = st /\ file' = file /\ excuses' = excuses
  BY <1>2 DEF TimerFire, Flush, disk, ghosts, counts
<1>5. SameSeat(st, st')
  BY <1>4 DEF SameSeat
<1>6. \/ w' = x /\ io' = io
      \/ w' = x /\ io'.job = "append" /\ io'.step = "open"
      \/ /\ w' = [x EXCEPT !.queue = <<>>, !.baseline = FALSE, !.emptyPending = FALSE]
         /\ x.baseline /\ io'.step = "candidate"
      \/ \E n : /\ w' = [x EXCEPT !.queue = SubSeq(@, n + 1, Len(@))]
                /\ io'.job = "append" /\ io'.step = "open"
  BY <1>4 DEF StartWrite, AppendJob, ReplaceJob, Idle
<1>7. SameOwner(w, w', excuses, excuses')
  BY <1>3, <1>4, <1>6 DEF IsWriter, SameOwner
<1>8. (st.created /\ (w'.baseline \/ io'.job = "replace"))
        => w.baseline \/ io.job = "replace" \/ "foreign" \in excuses
  BY <1>3, <1>6 DEF IsWriter
<1>9. io'.step = "intent" => st'.mut.open
  BY <1>4, <1>6 DEF Certain, Founded, BirthOk
<1> QED  BY <1>4, <1>5, <1>7, <1>8, <1>9, FoundedWriter

LEMMA FoundedIoFail ==
  ASSUME Certain, IoFail
  PROVE  Founded'
<1>1. /\ Sure /\ io # Idle /\ Finally(Failed(w)) /\ st' = st /\ file' = file
      /\ excuses' = excuses
  BY DEF Certain, IoFail, Busy, disk, ghosts
<1>2. PICK y : y = Failed(w)
  OBVIOUS
<1>3. /\ IsWriter(y) /\ y.phase = w.phase /\ y.gen = w.gen /\ y.complete = w.complete
      /\ y.baseline => w.baseline \/ io.job = "replace"
  BY <1>1, <1>2, FailedIs
<1>4. io' = Idle /\ SameCore(y, w')
  BY <1>1, <1>2, <1>3, FinallySame
<1>5. SameOwner(w, w', excuses, excuses') /\ SameSeat(st, st')
  BY <1>1, <1>3, <1>4 DEF SameCore, SameOwner, SameSeat
<1>6. (st.created /\ (w'.baseline \/ io'.job = "replace"))
        => w.baseline \/ io.job = "replace" \/ "foreign" \in excuses
  BY <1>3, <1>4, IdleIs DEF SameCore
<1>7. io'.step = "intent" => st'.mut.open
  BY <1>4, IdleIs
<1> QED  BY <1>1, <1>5, <1>6, <1>7, FoundedWriter

(* A complete owner that made the file has another program as its excuse. *)
LEMMA CompleteExcuse ==
  ASSUME Certain, excuses # {}, w.complete, w.phase # "cold", st.created
  PROVE  "foreign" \in excuses
<1>1. ExcusesOk(file, excuses)
  BY NowFacts DEF Certain, Stored
<1>2. "fault" \notin excuses /\ "leftover" \notin excuses
  BY DEF Certain, Founded, BirthOk
<1> QED  BY <1>1, <1>2 DEF ExcusesOk

LEMMA FoundedRefused ==
  ASSUME Certain, io # Idle, excuses # {}, Finally(Refused(w)), SameSeat(st, st'),
         file' = file, excuses' = excuses
  PROVE  Founded'
<1>1. Sure /\ w.phase # "cold"
  BY JobFlow DEF Certain
<1>2. PICK y : y = Refused(w)
  OBVIOUS
<1>3. /\ IsWriter(y) /\ y.phase = w.phase /\ y.gen = w.gen /\ y.complete = w.complete
      /\ y.baseline => w.baseline \/ w.complete
  BY <1>1, <1>2, RefusedIs
<1>4. io' = Idle /\ SameCore(y, w')
  BY <1>2, <1>3, FinallySame
<1>5. SameOwner(w, w', excuses, excuses')
  BY <1>3, <1>4 DEF SameCore, SameOwner
<1>6. (st.created /\ (w'.baseline \/ io'.job = "replace"))
        => w.baseline \/ io.job = "replace" \/ "foreign" \in excuses
  BY <1>1, <1>3, <1>4, IdleIs, CompleteExcuse DEF SameCore
<1>7. io'.step = "intent" => st'.mut.open
  BY <1>4, IdleIs
<1> QED  BY <1>5, <1>6, <1>7, FoundedWriter

LEMMA FoundedAppendCreate ==
  ASSUME Certain, AppendCreate
  PROVE  Founded'
<1>1. /\ Sure /\ io.job = "append" /\ file = NoFile /\ st' = [st EXCEPT !.created = TRUE]
      /\ Goto("header") /\ w' = w /\ excuses' = excuses
      /\ \E kind \in {"empty", "header"} : file' = Transcript(kind, io.expected.gen, 0, <<>>)
  BY DEF Certain, AppendCreate, At, ghosts
<1>2. /\ st'.cursor = st.cursor /\ st'.created = TRUE /\ st'.allowCreate = st.allowCreate
  BY <1>1, SureFacts DEF StoreShape
<1>3. io'.job = "append" /\ io'.step = "header"
  BY <1>1, GotoIs
<1>4. ~w.baseline
  BY <1>1, IdleIs, JobFlow
<1>5. SeenOk(file, w, st, excuses) /\ BirthOk(file, w, st, io, excuses)
  BY DEF Certain, Founded
<1>6. st.cursor.gen = 0 /\ excuses \subseteq {"fault"}
  BY <1>1, <1>5 DEF SeenOk
<1>7. st.cursor.rev = 0 /\ st.cursor.size = 0
  BY <1>5, <1>6 DEF SeenOk
<1>8. file' # NoFile /\ file'.base = 0
  BY <1>1 DEF NoFile, Transcript
<1>9. SeenOk(file', w, st', excuses)
  BY <1>2, <1>5, <1>6, <1>7, <1>8 DEF SeenOk
<1>10. BirthOk(file', w, st', io', excuses)
  BY <1>2, <1>3, <1>4, <1>5, <1>6, <1>7 DEF BirthOk
<1> QED  BY <1>1, <1>9, <1>10 DEF Founded

(* The file is started over by its owner: what was lost with it is back. *)
LEMMA FoundedAnew ==
  ASSUME Certain, Readable(file'), file'.gen = 0 => file'.base = 0, st' = st, w' = w,
         io'.job = io.job, io'.step # "intent", excuses' = excuses \ {"emptied"}
  PROVE  Founded'
<1>1. SeenOk(file, w, st, excuses) /\ BirthOk(file, w, st, io, excuses)
  BY DEF Certain, Founded
<1>2. file' # NoFile
  BY DEF Readable, NoFile, Transcript
<1>3. SeenOk(file', w, st, excuses')
  BY <1>1, <1>2 DEF SeenOk
<1>4. BirthOk(file', w, st, io', excuses')
  BY <1>1 DEF BirthOk
<1> QED  BY <1>3, <1>4 DEF Founded

LEMMA FoundedAppendHeader ==
  ASSUME Certain, AppendHeader
  PROVE  Founded'
<1>1. /\ Sure /\ st' = st /\ Goto("check") /\ w' = w /\ excuses' = excuses \ {"emptied"}
      /\ file' = Transcript("v2", io.expected.gen, 0, <<>>)
  BY DEF Certain, AppendHeader, counts
<1>2. io'.job = io.job /\ io'.step # "intent"
  BY <1>1, GotoIs
<1>3. Readable(file') /\ file'.base = 0
  BY <1>1 DEF Readable, Transcript
<1> QED  BY <1>1, <1>2, <1>3, FoundedAnew

LEMMA FoundedReplaceRename ==
  ASSUME Certain, ReplaceRename
  PROVE  Founded'
<1>1. /\ Sure /\ st' = st /\ Goto("sync") /\ w' = w /\ excuses' = excuses \ {"emptied"}
      /\ file' = Transcript("v2", st.pending.gen, st.pending.rev, st.pending.ops)
      /\ io.job = "replace" /\ io.step = "rename"
  BY DEF Certain, ReplaceRename, At, counts
<1>2. io'.job = io.job /\ io'.step # "intent"
  BY <1>1, GotoIs
<1>3. st.pending.gen \in 1 .. gens /\ gens \in Nat
  BY <1>1, ReplaceFacts
<1>4. Readable(file') /\ file'.gen # 0
  BY <1>1, <1>3 DEF Readable, Transcript
<1> QED  BY <1>1, <1>2, <1>4, FoundedAnew

(* Steps that write into the file and leave its beginning alone. *)
LEMMA FoundedStep ==
  ASSUME Certain, SamePlace(file, file'), SameSeat(st, st'), w' = w, excuses' = excuses,
         io'.job = io.job, io'.step = "intent" => st'.mut.open
  PROVE  Founded'
<1>1. SeenOk(file, w, st, excuses) /\ BirthOk(file, w, st, io, excuses)
  BY DEF Certain, Founded
<1>2. PICK f : f = file'
  OBVIOUS
<1>3. PICK t : t = st'
  OBVIOUS
<1>4. PICK k : k = io'
  OBVIOUS
<1>5. /\ SamePlace(file, f) /\ SameSeat(st, t) /\ SameOwner(w, w, excuses, excuses)
      /\ k.job = io.job /\ (k.step = "intent" => t.mut.open)
  BY <1>2, <1>3, <1>4 DEF SameOwner
<1>6. SeenOk(f, w, t, excuses) /\ BirthOk(f, w, t, k, excuses)
  BY <1>1, <1>5, FrameFounded
<1> QED  BY <1>2, <1>3, <1>4, <1>6 DEF Founded

LEMMA FoundedAppendWrite ==
  ASSUME Certain, AppendPart \/ AppendRow
  PROVE  Founded'
<1>1. /\ Sure /\ io.job = "append" /\ io.step = "write" /\ st' = st /\ w' = w
      /\ excuses' = excuses
      /\ \/ file' = [file EXCEPT !.tail = io.batch] /\ io' = io
         \/ file' = [file EXCEPT !.rows = Append(@, io.batch), !.tail = NoBatch]
              /\ Goto("sync")
  BY DEF Certain, AppendPart, AppendRow, At, ghosts
<1>2. Readable(file) /\ FileOk(file, gens, excuses)
  BY <1>1, WriteFacts
<1>3. file'.kind = file.kind /\ file'.gen = file.gen /\ file'.base = file.base
  BY <1>1, <1>2 DEF FileOk
<1>4. SamePlace(file, file')
  BY <1>2, <1>3 DEF SamePlace, Readable, NoFile, Transcript
<1>5. io'.job = io.job /\ io'.step # "intent"
  BY <1>1, GotoIs
<1>6. SameSeat(st, st')
  BY <1>1 DEF SameSeat
<1> QED  BY <1>1, <1>4, <1>5, <1>6, FoundedStep

LEMMA FoundedPublish ==
  ASSUME Certain, Publish \/ ReplaceIntent
  PROVE  Founded'
<1>1. /\ Sure /\ w' = w /\ excuses' = excuses /\ file' = file
      /\ \/ /\ io' = [io EXCEPT !.step = "indexed", !.patch = meta', !.keys = st.pend]
            /\ st' = st
         \/ /\ Goto("rename")
            /\ st' = [st EXCEPT !.mut.target = Point(st.pending.gen, st.pending.rev)]
  BY DEF Certain, Publish, ReplaceIntent, ghosts
<1>2. JobShape(io) /\ StoreShape(st)
  BY <1>1, SureFacts DEF Sure, Inv
<1>3. io'.job = io.job /\ io'.step # "intent"
  <2>1. CASE Goto("rename")
    BY <1>1, <2>1, GotoIs
  <2>2. CASE io' = [io EXCEPT !.step = "indexed", !.patch = meta', !.keys = st.pend]
    <3>1. PICK m : m = meta'
      OBVIOUS
    <3>2. io' = [io EXCEPT !.step = "indexed", !.patch = m, !.keys = st.pend]
      BY <2>2, <3>1
    <3>3. PICK k : k = io'
      OBVIOUS
    <3>4. k = [io EXCEPT !.step = "indexed", !.patch = m, !.keys = st.pend]
      BY <3>2, <3>3
    <3>5. k.job = io.job /\ k.step = "indexed"
      BY <1>2, <3>4 DEF JobShape
    <3> QED  BY <3>3, <3>5
  <2> QED  BY <1>1, <2>1, <2>2
<1>4. SameSeat(st, st') /\ SamePlace(file, file')
  BY <1>1, <1>2 DEF StoreShape, SameSeat, SamePlace
<1> QED  BY <1>1, <1>3, <1>4, FoundedStep

LEMMA FoundedReplaceCheck ==
  ASSUME Certain, ReplaceCheck
  PROVE  Founded'
<1>1. /\ Sure /\ io.job = "replace" /\ io.step = "candidate" /\ io # Idle
      /\ excuses' = excuses /\ st' = [st EXCEPT !.pending = Candidate]
  BY IdleIs DEF Certain, ReplaceCheck, At, ghosts
<1>2. SameSeat(st, st') /\ st'.mut = st.mut
  BY <1>1, SureFacts DEF StoreShape, SameSeat
<1>3. PICK c : c = Candidate
  OBVIOUS
<1>4. FileOk(file, gens, excuses)
  BY <1>1, NowFacts DEF Stored
<1>5. CASE ~Published(file, c) /\ ~MayReplace(file, c, st.coldTail, st.allowCreate)
  <2>1. Finally(Refused(w)) /\ file' = file
    BY <1>3, <1>5 DEF ReplaceCheck
  <2>2. excuses # {}
    BY <1>1, <1>3, <1>5, CandidateRefused
  <2> QED  BY <1>1, <1>2, <2>1, <2>2, FoundedRefused
<1>6. CASE Published(file, c) \/ MayReplace(file, c, st.coldTail, st.allowCreate)
  <2>1. /\ w' = w
        /\ file' = file \/ file' = [file EXCEPT !.tail = NoBatch]
        /\ Goto("sync") \/ Goto("rename") \/ (Goto("intent") /\ st.mut.open)
    BY <1>3, <1>6 DEF ReplaceCheck
  <2>2. io'.job = io.job /\ (io'.step = "intent" => st'.mut.open)
    <3>1. CASE Goto("sync")
      BY <1>1, <3>1, GotoIs
    <3>2. CASE Goto("rename")
      BY <1>1, <3>2, GotoIs
    <3>3. CASE Goto("intent") /\ st.mut.open
      BY <1>1, <1>2, <3>3, GotoIs
    <3> QED  BY <2>1, <3>1, <3>2, <3>3
  <2>3. SamePlace(file, file')
    <3>1. CASE file' = file
      BY <3>1 DEF SamePlace
    <3>2. CASE file' = [file EXCEPT !.tail = NoBatch]
      <4>1. file'.kind = file.kind /\ file'.gen = file.gen /\ file'.base = file.base
        BY <1>4, <3>2 DEF FileOk
      <4>2. file' = NoFile => file = NoFile
        BY <1>4, <4>1 DEF FileOk, NoFile, Transcript
      <4> QED  BY <4>1, <4>2 DEF SamePlace, Readable
    <3> QED  BY <2>1, <3>1, <3>2
  <2> QED  BY <1>1, <1>2, <2>1, <2>2, <2>3, FoundedStep
<1> QED  BY <1>5, <1>6

(* What is found behind the offset of a batch settles what is remembered.  *)
LEMMA FoundedAppendCheck ==
  ASSUME Certain, AppendCheck
  PROVE  Founded'
<1> DEFINE known   == Known(file, st.cursor, io.expected)
           already == AlreadyWritten(file, st.cursor, io.expected, io.batch)
           at      == IF already /\ ~known THEN Valid(file) - 1
                      ELSE Offset(file, st.cursor, io.expected)
<1>1. /\ Sure /\ io.job = "append" /\ excuses' = excuses
      /\ io.step = "check" \/ (io.step = "open" /\ file # NoFile /\ ~OwnHeader)
  BY DEF Certain, AppendCheck, At, ghosts
<1>2. io # Idle
  BY <1>1, IdleIs
<1>3. CASE MayAppend(file, st.cursor, io.expected, io.batch, st.coldTail)
  <2>1. PICK a \in BOOLEAN : a <=> already
    OBVIOUS
  <2>2. PICK n : n = at
    OBVIOUS
  <2>3. n = IF a /\ ~known THEN Valid(file) - 1 ELSE Offset(file, st.cursor, io.expected)
    BY <2>1, <2>2
  <2>4. /\ file' = IF a THEN file ELSE CutAt(file, n)
        /\ st' = [st EXCEPT !.cursor = [gen |-> io.expected.gen, rev |-> io.expected.rev,
                                        size |-> n]]
        /\ Goto(IF a THEN "sync" ELSE "write") /\ w' = w
    BY <1>3, <2>1, <2>2 DEF AppendCheck
  <2> HIDE DEF at
  <2>5. /\ w.phase # "cold" /\ io.expected = Point(w.gen, w.durable) /\ io.batch # NoBatch
        /\ io.batch \in BatchT /\ io.batch.from = w.durable + 1 /\ ~w.baseline
    BY <1>1, <1>2, JobFlow DEF NextBatch
  <2>6. /\ FileOk(file, gens, excuses) /\ CursorOk(file, st.cursor) /\ w.durable \in Nat
        /\ CreatedOk(file, w, st, excuses)
    BY <1>1, NowFacts, SureFacts DEF Stored
  <2>7. /\ Readable(file) /\ file.gen = w.gen /\ n \in 0 .. Len(file.rows)
        /\ Reach(file, n) = w.durable
        /\ ~a => n = Len(file.rows)
    BY <1>3, <2>1, <2>3, <2>5, <2>6, Admitted
  <2>8. PICK f : f = file'
    OBVIOUS
  <2>9. f = file \/ f = [file EXCEPT !.tail = NoBatch]
    BY <2>4, <2>6, <2>7, <2>8, CutWhole
  <2>10. f.gen = file.gen /\ f.base = file.base /\ Readable(f) /\ f # NoFile
    <3>1. CASE f = file
      BY <2>7, <3>1 DEF Readable, NoFile, Transcript
    <3>2. CASE f = [file EXCEPT !.tail = NoBatch]
      BY <2>6, <2>7, <3>2 DEF FileOk, Readable, NoFile, Transcript
    <3> QED  BY <2>9, <3>1, <3>2
  <2>11. PICK t : t = st'
    OBVIOUS
  <2>12. /\ t.cursor = [gen |-> w.gen, rev |-> w.durable, size |-> n]
         /\ t.created = st.created /\ t.allowCreate = st.allowCreate
    BY <1>1, <2>4, <2>5, <2>11, SureFacts DEF StoreShape, Point
  <2>13. PICK k : k = io'
    OBVIOUS
  <2>14. k.job = "append" /\ k.step # "intent"
    BY <1>1, <2>4, <2>13, GotoIs
  <2>15. SeenOk(file, w, st, excuses) /\ BirthOk(file, w, st, io, excuses)
    BY DEF Certain, Founded
  <2>16. w.gen = 0 => "foreign" \in excuses
    BY <2>6, <2>7 DEF FileOk, Readable
  <2>17. SeenOk(f, w, t, excuses)
    BY <2>7, <2>10, <2>12, <2>15, <2>16 DEF SeenOk
  <2>18. w.durable = 0 => n = 0
    BY <2>6, <2>7, ReachGrows, ReachNat
  <2>19. t.created => (w.durable = 0 /\ n = 0) \/ ("foreign" \in excuses /\ Readable(f))
    BY <2>6, <2>10, <2>12, <2>18 DEF CreatedOk
  <2>20. BirthOk(f, w, t, k, excuses)
    BY <2>5, <2>12, <2>14, <2>15, <2>19 DEF BirthOk
  <2> QED  BY <1>1, <2>4, <2>8, <2>11, <2>13, <2>17, <2>20 DEF Founded
<1>4. CASE ~MayAppend(file, st.cursor, io.expected, io.batch, st.coldTail)
  <2>1. Finally(Refused(w)) /\ file' = file /\ st' = st
    BY <1>4 DEF AppendCheck
  <2>2. excuses # {}
    BY <1>1, <1>2, <1>4, CheckRefuses
  <2>3. SameSeat(st, st')
    BY <2>1 DEF SameSeat
  <2> QED  BY <1>1, <1>2, <2>1, <2>2, <2>3, FoundedRefused
<1> QED  BY <1>3, <1>4

(* A commit is where the file and its owner agree. *)
LEMMA FoundedCommit ==
  ASSUME Certain, Commit
  PROVE  Founded'
<1>1. /\ Sure /\ io.step \in {"sync", "indexed"} /\ excuses' = excuses /\ file' = file
  BY DEF Certain, Commit, disk, ghosts
<1>2. PICK a : /\ \/ io.step = "indexed" /\ a = Adopted
                  \/ io.step = "sync" /\ st.published /\ a = st
               /\ Settle(a)
  BY DEF Commit
<1>3. st' = Landed(a) /\ \/ Finally(Succeeded(w, Committed))
                         \/ io.job = "append" /\ Finally(Failed(w))
  BY <1>2 DEF Settle
<1>4. PICK t : t = Landed(a)
  OBVIOUS
<1>5. /\ t.cursor.gen = file.gen
      /\ t.created = (IF io.job = "append" THEN FALSE ELSE st.created)
      /\ t.allowCreate = st.allowCreate
  BY <1>1, <1>2, <1>4, LandedIs, SyncFacts
<1>6. /\ io # Idle /\ w.phase # "cold" /\ Readable(file)
      /\ io.job = "append" => file.gen = w.gen
      /\ io.job = "replace" => file.gen = st.pending.gen
      /\ io.job \in {"append", "replace"} /\ Committed.gen = file.gen
      /\ FileOk(file, gens, excuses)
  BY <1>1, SyncFacts DEF Stored
<1>7. io.job = "replace" => file.gen # 0
  <2>1. io.step # "candidate"
    BY <1>1
  <2> QED  BY <1>1, <1>6, <2>1, ReplaceFacts
<1>8. SeenOk(file, w, st, excuses) /\ BirthOk(file, w, st, io, excuses)
  BY DEF Certain, Founded
<1>9. file.gen = 0 => "foreign" \in excuses
  BY <1>6 DEF FileOk, Readable
<1>10. file # NoFile
  BY <1>6 DEF Readable, NoFile, Transcript
<1>11. ASSUME NEW y, IsWriter(y), y.gen = file.gen, y.phase = w.phase,
              y.complete = w.complete, Finally(y)
       PROVE  Founded'
  <2>1. io' = Idle /\ SameCore(y, w')
    BY <1>11, FinallySame
  <2>2. PICK x : x = w'
    OBVIOUS
  <2>3. x.gen = file.gen /\ x.phase = w.phase /\ x.complete = w.complete
    BY <1>11, <2>1, <2>2 DEF SameCore
  <2>4. SeenOk(file, x, t, excuses)
    BY <1>5, <1>8, <1>9, <1>10, <2>3 DEF SeenOk
  <2>5. st.allowCreate => file.gen # 0
    BY <1>6, <1>7, <1>8 DEF BirthOk
  <2>6. t.created => "foreign" \in excuses /\ "leftover" \notin excuses
    BY <1>5, <1>6, <1>8 DEF BirthOk
  <2>7. "fault" \in excuses => ~x.complete
    BY <1>6, <1>8, <2>3 DEF BirthOk
  <2>8. BirthOk(file, x, t, Idle, excuses)
    BY <1>5, <1>6, <2>3, <2>5, <2>6, <2>7, IdleIs DEF BirthOk
  <2> QED  BY <1>1, <1>3, <1>4, <2>1, <2>2, <2>4, <2>8 DEF Founded
<1>12. CASE Finally(Succeeded(w, Committed))
  <2>1. PICK y : y = Succeeded(w, Committed)
    OBVIOUS
  <2>2. IsWriter(y) /\ y.phase = w.phase /\ y.gen = file.gen /\ y.complete = w.complete
    BY <1>1, <1>6, <2>1, SucceededIs
  <2> QED  BY <1>11, <1>12, <2>1, <2>2
<1>13. CASE io.job = "append" /\ Finally(Failed(w))
  <2>1. PICK y : y = Failed(w)
    OBVIOUS
  <2>2. IsWriter(y) /\ y.phase = w.phase /\ y.gen = file.gen /\ y.complete = w.complete
    BY <1>1, <1>6, <1>13, <2>1, FailedIs
  <2> QED  BY <1>11, <1>13, <2>1, <2>2
<1> QED  BY <1>3, <1>12, <1>13

LEMMA FoundedCreate ==
  ASSUME Certain, Create
  PROVE  Founded'
<1>1. /\ w.phase = "cold" /\ w' = RequestCommit(Instance(gens + 1, 0, <<>>))
      /\ st' = [NoStorage EXCEPT !.allowCreate = TRUE, !.pend = {"stats"}]
      /\ file' = file /\ io' = io
      /\ excuses' = (excuses \cap {"foreign"})
                       \cup (IF file = NoFile THEN {} ELSE {"leftover"})
  BY DEF Create
<1>2. /\ io = Idle /\ ExcusesOk(file, excuses) /\ gens \in Nat
      /\ (file.gen = 0 => file.base = 0)
  BY <1>1, NewOwner
<1>3. PICK x : x = Instance(gens + 1, 0, <<>>)
  OBVIOUS
<1>4. IsWriter(x) /\ x.gen = gens + 1
  BY <1>3, InstanceIs
<1>5. PICK y : y = RequestCommit(x)
  OBVIOUS
<1>6. y.gen = gens + 1
  <2>1. PICK z : z = [x EXCEPT !.live = @ + 1,
                               !.queue = IF x.baseline THEN @ ELSE Barrier(@, x.live + 1)]
    OBVIOUS
  <2>2. IsWriter(z) /\ z.gen = x.gen
    BY <1>4, <2>1 DEF IsWriter
  <2>3. y = Schedule(WatchHealth(z), FALSE, Busy)
    BY <1>5, <2>1 DEF RequestCommit
  <2>4. SameCore(z, y)
    BY <2>2, <2>3, CoreWatched
  <2> QED  BY <1>4, <2>2, <2>4 DEF SameCore
<1>7. PICK t : t = st'
  OBVIOUS
<1>8. t.cursor = [gen |-> 0, rev |-> 0, size |-> 0] /\ t.created = FALSE
  BY <1>1, <1>7 DEF NoStorage
<1>9. PICK e : e = excuses'
  OBVIOUS
<1>10. "fault" \notin e /\ (file = NoFile => e = {})
  BY <1>1, <1>2, <1>9 DEF ExcusesOk
<1>11. SeenOk(file, y, t, e)
  BY <1>2, <1>8, <1>10 DEF SeenOk
<1>12. BirthOk(file, y, t, Idle, e)
  BY <1>2, <1>6, <1>8, <1>10, IdleIs DEF BirthOk
<1> QED  BY <1>1, <1>2, <1>3, <1>5, <1>7, <1>9, <1>11, <1>12 DEF Founded

(* Whoever adopts a history neither creates it nor remembers anything. *)
LEMMA FoundedAdoption ==
  ASSUME Certain, w.phase = "cold", file # NoFile, file' = file, io'.step # "intent",
         st'.cursor = [gen |-> 0, rev |-> 0, size |-> 0], st'.created = FALSE,
         st'.allowCreate = FALSE, "fault" \in excuses' => ~w'.complete
  PROVE  Founded'
<1>1. SeenOk(file, w, st, excuses)
  BY DEF Certain, Founded
<1>2. PICK t : t = st'
  OBVIOUS
<1>3. /\ t.cursor = [gen |-> 0, rev |-> 0, size |-> 0] /\ t.created = FALSE
      /\ t.allowCreate = FALSE
  BY <1>2
<1>4. PICK e : e = excuses'
  OBVIOUS
<1>5. PICK x : x = w'
  OBVIOUS
<1>6. SeenOk(file, x, t, e)
  BY <1>1, <1>3 DEF SeenOk
<1>7. PICK j : j = io'
  OBVIOUS
<1>8. BirthOk(file, x, t, j, e)
  BY <1>3, <1>4, <1>5, <1>7 DEF BirthOk
<1> QED  BY <1>2, <1>4, <1>5, <1>6, <1>7, <1>8 DEF Founded

LEMMA FoundedActivate ==
  ASSUME Certain, Activate
  PROVE  Founded'
<1>1. /\ w.phase = "cold" /\ Readable(file) /\ file' = file /\ io' = io
      /\ excuses' = excuses \cap {"foreign"}
  BY DEF Activate
<1>2. file # NoFile
  BY <1>1 DEF Readable, NoFile, Transcript
<1>3. io' = Idle
  BY <1>1, NewOwner
<1>4. st'.cursor = [gen |-> 0, rev |-> 0, size |-> 0] /\ st'.created = FALSE
      /\ st'.allowCreate = FALSE
  <2>1. PICK row : row = [Resolved(meta, file) EXCEPT !.stats = Len(Content(file))]
    OBVIOUS
  <2>2. PICK s : s = [NoStorage EXCEPT !.coldTail = TailState(file) = "incomplete",
                                       !.published = TRUE, !.cur = row]
    OBVIOUS
  <2>3. st' = [s EXCEPT !.pend = {"stats"}] \/ st' = [s EXCEPT !.pend = Keys]
    BY <2>1, <2>2 DEF Activate
  <2> QED  BY <2>2, <2>3 DEF NoStorage
<1> QED  BY <1>1, <1>2, <1>3, <1>4, IdleIs, FoundedAdoption

LEMMA FoundedActivateDamaged ==
  ASSUME Certain, ActivateDamaged
  PROVE  Founded'
<1>1. /\ w.phase = "cold" /\ meta # NoRow /\ ~Readable(file) /\ file' = file /\ io' = io
      /\ w' = Fail([Instance(gens + 1, 0, <<>>) EXCEPT !.complete = FALSE, !.blocked = TRUE],
                   "degraded")
      /\ st' = [NoStorage EXCEPT !.published = TRUE, !.cur = meta] /\ excuses' = excuses
  BY DEF ActivateDamaged
<1>2. io = Idle /\ ExcusesOk(file, excuses) /\ RowOk(file, w, st, io, meta, excuses)
  BY <1>1, NewOwner DEF Stored
<1>3. file # NoFile
  BY <1>1, <1>2 DEF RowOk, ExcusesOk
<1>4. st'.cursor = [gen |-> 0, rev |-> 0, size |-> 0] /\ st'.created = FALSE
      /\ st'.allowCreate = FALSE
  BY <1>1 DEF NoStorage
<1>5. ~w'.complete
  <2>1. PICK x : x = [Instance(gens + 1, 0, <<>>) EXCEPT !.complete = FALSE, !.blocked = TRUE]
    OBVIOUS
  <2>2. IsWriter(x) /\ ~x.complete
    BY <2>1 DEF Instance, Cold, IsWriter
  <2> QED  BY <1>1, <2>1, <2>2, CoreFails DEF SameCore
<1> QED  BY <1>1, <1>2, <1>3, <1>4, <1>5, IdleIs, FoundedAdoption

LEMMA FoundedEnd ==
  ASSUME Certain, RetireSettled \/ Exit
  PROVE  Founded'
<1>1. w' = Ended /\ st' = NoStorage /\ io' = Idle /\ file' = file /\ excuses' = excuses
  BY DEF RetireSettled, Exit, Busy, disk, ghosts
<1>2. SeenOk(file, w, st, excuses)
  BY DEF Certain, Founded
<1>3. PICK x : x = Ended
  OBVIOUS
<1>4. x.phase = "cold"
  BY <1>3 DEF Ended, Cold
<1>5. PICK s : s = NoStorage
  OBVIOUS
<1>6. /\ s.cursor = [gen |-> 0, rev |-> 0, size |-> 0] /\ s.created = FALSE
      /\ s.allowCreate = FALSE
  BY <1>5, NoStorageIs
<1>7. SeenOk(file, x, s, excuses)
  BY <1>2, <1>6 DEF SeenOk
<1>8. BirthOk(file, x, s, Idle, excuses)
  BY <1>4, <1>6, IdleIs DEF BirthOk
<1> QED  BY <1>1, <1>3, <1>5, <1>7, <1>8 DEF Founded

LEMMA FoundedIntrude ==
  ASSUME Certain, NEW kind \in Intrusions, Intrude(kind)
  PROVE  Founded'
<1>1. /\ Readable(file) /\ "foreign" \notin excuses /\ w' = w /\ st' = st /\ io' = io
      /\ excuses' = excuses \cup {"foreign", IF kind = "row" THEN "row" ELSE "emptied"}
      /\ FileOk(file, gens, excuses) /\ kind \in {"empty", "header", "row"}
  BY IntrusionFacts
<1>2. SeenOk(file, w, st, excuses) /\ BirthOk(file, w, st, io, excuses)
  BY DEF Certain, Founded
<1>3. PICK f : f = file'
  OBVIOUS
<1>4. f # NoFile /\ (f.gen = 0 => f.base = 0)
  <2>1. CASE kind = "row"
    <3>1. f = [file EXCEPT !.rows = Append(@, ForeignBatch(file))]
      BY <1>3, <2>1 DEF Intrude
    <3>2. f.kind = file.kind /\ f.gen = file.gen /\ f.base = file.base
      BY <1>1, <3>1 DEF FileOk
    <3> QED  BY <1>1, <1>2, <3>2 DEF SeenOk, Readable, NoFile, Transcript
  <2>2. CASE kind = "empty"
    BY <1>3, <2>2 DEF Intrude, NoFile, Transcript
  <2>3. CASE kind = "header"
    BY <1>3, <2>3 DEF Intrude, NoFile, Transcript
  <2> QED  BY <1>1, <2>1, <2>2, <2>3
<1>5. PICK e : e = excuses'
  OBVIOUS
<1>6. /\ "foreign" \in e /\ ("leftover" \in e => "leftover" \in excuses)
      /\ ("fault" \in e => "fault" \in excuses)
  BY <1>1, <1>5
<1>7. SeenOk(f, w, st, e)
  BY <1>2, <1>4, <1>6 DEF SeenOk
<1>8. st.created /\ st.cursor.gen = w.gen => st.cursor.rev = 0 /\ st.cursor.size = 0
  BY <1>1, <1>2 DEF BirthOk
<1>9. BirthOk(f, w, st, io, e)
  BY <1>2, <1>6, <1>8 DEF BirthOk
<1> QED  BY <1>1, <1>3, <1>5, <1>7, <1>9 DEF Founded

LEMMA FoundedForeignEdit ==
  ASSUME Certain, ForeignEdit
  PROVE  Founded'
<1>1. file' = file /\ w' = w /\ st' = st /\ io' = io /\ excuses' = excuses
  BY DEF ForeignEdit, ghosts
<1> QED  BY <1>1 DEF Certain, Founded

-----------------------------------------------------------------------------
(* The invariant.                                                          *)

LEMMA InitCertain ==
  ASSUME Init
  PROVE  Certain
<1>1. Inv
  BY InitInv
<1>2. /\ file = NoFile /\ meta = NoRow /\ w = Cold /\ st = NoStorage /\ io = Idle
      /\ excuses = {} /\ gens = 0 /\ opens = 0 /\ edits = 0 /\ ops = 0
  BY DEF Init
<1>3. PICK h : h = history
  OBVIOUS
<1>4. h = <<>>
  BY <1>3 DEF Init
<1>5. h \in Seq(Seq(Nat)) /\ Len(h) = 0
  BY <1>4, EmptySeq
<1>6. PICK x : x = Cold
  OBVIOUS
<1>7. /\ x.phase = "cold" /\ x.gen = 0 /\ x.live = 0 /\ x.durable = 0 /\ x.queue = <<>>
      /\ x.retryBatch = NoBatch /\ x.complete /\ ~x.blocked /\ ~x.attempted
      /\ ~x.emptyPending
  BY <1>6 DEF Cold
<1>8. PICK s : s = NoStorage
  OBVIOUS
<1>9. /\ s.cursor = [gen |-> 0, rev |-> 0, size |-> 0] /\ s.created = FALSE
      /\ s.pending = NoPending /\ s.coldTail = FALSE /\ s.allowCreate = FALSE
      /\ s.cur \in RowT /\ s.published = FALSE /\ s.mut \in MutationT /\ ~s.mut.open
  BY <1>8, NoStorageIs
<1>10. Carried(x, Idle, NoPending, h, 0, 0)
  <2>1. PICK z \in Nat : z = 0
    OBVIOUS
  <2>2. Begins(x, h, z, z)
    BY <1>5, <1>7, <2>1 DEF Begins, Recording
  <2>3. Carried(x, Idle, NoPending, h, z, z)
    BY <1>5, <2>2, BeginsCarries
  <2> QED  BY <2>1, <2>3
<1>11. PICK f : f = NoFile
  OBVIOUS
<1>12. f.kind = "none" /\ f.gen = 0 /\ f.base = 0 /\ ~Readable(f)
  BY <1>11 DEF NoFile, Transcript, Readable
<1>13. FileOk(f, 0, {})
  <2>1. /\ f = [kind |-> "none", gen |-> 0, base |-> 0, ops |-> <<>>, rows |-> <<>>,
                tail |-> NoBatch]
    BY <1>11 DEF NoFile, Transcript
  <2>2. PICK z : z = <<>>
    OBVIOUS
  <2>3. z \in Seq(Nat) /\ z \in Seq(BatchT) /\ Len(z) = 0
    BY <2>2, EmptySeq
  <2>4. f \in [kind : {"none", "empty", "header", "v2"}, gen : 0 .. 0, base : Nat,
               ops : Seq(Nat), rows : Seq(BatchT), tail : BatchT]
    BY <2>1, <2>2, <2>3, NoBatchType
  <2>5. f.ops = <<>> /\ Len(f.rows) = 0
    BY <2>1, <2>2, <2>3
  <2> QED  BY <1>11, <1>12, <2>4, <2>5 DEF FileOk, NoFile
<1>14. /\ CursorOk(f, s.cursor) /\ CreatedOk(f, x, s, {}) /\ ExcusesOk(f, {})
       /\ ContentOk(f, x, NoPending, NoRow, h, {}) /\ RowOk(f, x, s, Idle, NoRow, {})
       /\ RenamedOk(f, NoPending) /\ StepsOk(f, x, s, Idle)
       /\ RowStays(f, x, NoPending, Idle, {}) /\ CauseOk(x, NoPending, Idle, {})
       /\ AsLeft(f, x, s, Idle, {})
  <2>1. CursorOk(f, s.cursor) /\ CreatedOk(f, x, s, {}) /\ ExcusesOk(f, {})
    BY <1>9, <1>12 DEF CursorOk, CreatedOk, ExcusesOk
  <2>2. ContentOk(f, x, NoPending, NoRow, h, {}) /\ RenamedOk(f, NoPending)
    BY <1>12 DEF ContentOk, RenamedOk
  <2>3. RowOk(f, x, s, Idle, NoRow, {})
    BY <1>7, <1>9, IdleIs DEF RowOk
  <2>4. StepsOk(f, x, s, Idle) /\ RowStays(f, x, NoPending, Idle, {})
    BY IdleIs DEF StepsOk, RowStays
  <2>5. CauseOk(x, NoPending, Idle, {}) /\ AsLeft(f, x, s, Idle, {})
    BY <1>7, IdleIs DEF CauseOk, NoPending, AsLeft
  <2> QED  BY <2>1, <2>2, <2>3, <2>4, <2>5
<1>15. Stored(f, x, s, Idle, NoRow, h, {}, 0)
  BY <1>9, <1>13, <1>14 DEF Stored
<1>16. Written
  BY <1>2, <1>3, <1>6, <1>8, <1>9, <1>10, BoundsAssumption DEF Written
<1>17. OnDisk
  BY <1>2, <1>3, <1>6, <1>8, <1>11, <1>15 DEF OnDisk
<1>18. SeenOk(f, x, s, {})
  BY <1>9, <1>12 DEF SeenOk
<1>19. BirthOk(f, x, s, Idle, {})
  BY <1>7, <1>9, IdleIs DEF BirthOk
<1> QED  BY <1>1, <1>2, <1>6, <1>8, <1>11, <1>16, <1>17, <1>18, <1>19
         DEF Certain, Sure, Founded

LEMMA NextCertain ==
  ASSUME Certain, [Next]_vars
  PROVE  Certain'
<1>1. Sure
  BY DEF Certain
<1>2. Inv'
  BY <1>1, NextInv DEF Sure
<1>3. Written' /\ OnDisk' /\ Founded'
  <2>1. CASE Observe
    BY <1>1, <2>1, SureObserve, FoundedObserve
  <2>2. CASE ObserveFault
    BY <1>1, <2>2, SureObserveFault, FoundedObserveFault
  <2>3. CASE PatchMetadata
    BY <1>1, <2>3, SurePatch, FoundedObserve
  <2>4. CASE \E n \in 0 .. MaxRevision : Rewind(n)
    BY <1>1, <2>4, SureRewind, FoundedRewind
  <2>5. CASE TimerFire \/ Flush
    BY <1>1, <2>5, SureTimerFire, FoundedStart
  <2>6. CASE HealthTimeout \/ Retire \/ RetireTimeout
    BY <1>1, <2>6, SureTimers, FoundedObserve
  <2>7. CASE AppendCreate
    BY <2>7, SureAppendCreate, FoundedAppendCreate
  <2>8. CASE AppendHeader
    BY <2>8, SureAppendHeader, FoundedAppendHeader
  <2>9. CASE AppendCheck
    BY <2>9, SureAppendCheck, FoundedAppendCheck
  <2>10. CASE AppendPart \/ AppendRow
    BY <2>10, SureAppendPart, SureAppendRow, FoundedAppendWrite
  <2>11. CASE ReplaceCheck
    BY <2>11, SureReplaceCheck, FoundedReplaceCheck
  <2>12. CASE ReplaceIntent
    BY <2>12, SureReplaceIntent, FoundedPublish
  <2>13. CASE ReplaceRename
    BY <2>13, SureReplaceRename, FoundedReplaceRename
  <2>14. CASE Publish
    BY <2>14, SurePublish, FoundedPublish
  <2>15. CASE Commit
    BY <2>15, SureCommit, FoundedCommit
  <2>16. CASE IoFail
    BY <1>1, <2>16, SureIoFail, FoundedIoFail
  <2>17. CASE Create
    BY <2>17, SureCreate, FoundedCreate
  <2>18. CASE Activate
    BY <2>18, SureActivate, FoundedActivate
  <2>19. CASE ActivateDamaged
    BY <2>19, SureActivateDamaged, FoundedActivateDamaged
  <2>20. CASE RetireSettled \/ Exit
    BY <2>20, SureEnd, FoundedEnd
  <2>21. CASE Revoke
    BY <1>1, <2>21, SureRevoke, FoundedObserve
  <2>22. CASE ForeignEdit
    BY <1>1, <2>22, SureForeignEdit, FoundedForeignEdit
  <2>23. CASE \E kind \in Intrusions : Intrude(kind)
    BY <2>23, SureIntrude, FoundedIntrude
  <2>24. CASE UNCHANGED vars
    BY <1>1, <2>24 DEF vars, Certain, Sure, Written, OnDisk, Founded
  <2> QED  BY <2>1, <2>2, <2>3, <2>4, <2>5, <2>6, <2>7, <2>8, <2>9, <2>10, <2>11, <2>12,
              <2>13, <2>14, <2>15, <2>16, <2>17, <2>18, <2>19, <2>20, <2>21, <2>22, <2>23,
              <2>24 DEF Next, IoStep
<1> QED  BY <1>2, <1>3 DEF Certain, Sure

LEMMA AlwaysCertain == Spec => []Certain
<1>1. Init => Certain
  BY InitCertain
<1>2. Certain /\ [Next]_vars => Certain'
  BY NextCertain
<1> QED  BY <1>1, <1>2, PTL DEF Spec

-----------------------------------------------------------------------------
(* What the invariant says to a reader.                                    *)

(* What was reported as saved, the file decodes to, message for message:   *)
(* every write, retry, replacement, adoption and crash keeps it.           *)
THEOREM SavedOnDisk == Spec => []SavedIsOnDisk
<1>1. Certain => SavedIsOnDisk
  <2> SUFFICES ASSUME Certain, w.durable > 0, excuses \cap {"emptied", "row"} = {}
               PROVE  /\ Readable(file) /\ TailState(file) # "invalid"
                      /\ Revision(file) \in w.durable .. Len(history)
                      /\ Content(file) = history[Revision(file)]
    BY DEF SavedIsOnDisk
  <2>1. Sure /\ Trusted(excuses)
    BY DEF Certain, Trusted
  <2>2. /\ FileOk(file, gens, excuses) /\ w.durable \in Nat /\ Len(history) \in Nat
        /\ ContentOk(file, w, st.pending, meta, history, excuses)
        /\ RowOk(file, w, st, io, meta, excuses)
    BY <2>1, NowFacts, SureFacts DEF Stored
  <2>3. meta # NoRow /\ Readable(file)
    BY <2>1, <2>2 DEF RowOk, Trusted
  <2>4. FileSays(file, w, history)
    BY <2>1, <2>2, <2>3 DEF ContentOk
  <2>5. Revision(file) \in w.durable .. Len(history)
        /\ Content(file) = Said(history, Revision(file))
    BY <2>4 DEF FileSays
  <2>6. Revision(file) # 0
    BY <2>2, <2>5
  <2>7. TailState(file) # "invalid"
    BY <2>2, WholeFile
  <2> QED  BY <2>3, <2>5, <2>6, <2>7 DEF Said
<1> QED  BY <1>1, AlwaysCertain, PTL

(* Whatever fails, however often and in whatever order, recording stops    *)
(* only for a cause that is on record.                                     *)
THEOREM StopsForCause == Spec => []BlockedForCause
<1>1. Certain => BlockedForCause
  <2> SUFFICES ASSUME Certain, w.blocked PROVE excuses # {}
    BY DEF BlockedForCause
  <2> QED  BY NowFacts DEF Certain, Stored, CauseOk
<1> QED  BY <1>1, AlwaysCertain, PTL

(* No append, replacement, recovery or repaired header loses a row that    *)
(* another program has committed.                                          *)
THEOREM ForeignRowStays == Spec => []ForeignRowIsKept
<1>1. Certain => ForeignRowIsKept
  <2> SUFFICES ASSUME Certain, "row" \in excuses
               PROVE  \E i \in 1 .. Len(file.rows) : file.rows[i].inst = MaxOpens + 1
    BY DEF ForeignRowIsKept
  <2>1. /\ FileOk(file, gens, excuses)
        /\ file.rows # <<>> /\ file.rows[Len(file.rows)].inst = MaxOpens + 1
    BY NowFacts DEF Certain, Stored, RowStays
  <2>2. Len(file.rows) \in Nat /\ Len(file.rows) # 0
    BY <2>1, WholeFile
  <2>3. Len(file.rows) \in 1 .. Len(file.rows)
    BY <2>2
  <2> QED  BY <2>1, <2>3
<1> QED  BY <1>1, AlwaysCertain, PTL

-----------------------------------------------------------------------------
(* The promise to the owner of a history: TranscriptPromise.               *)

LEMMA PrefixAppend ==
  ASSUME NEW h \in Seq(Seq(Nat)), NEW m
  PROVE  IsStrictPrefix(h, Append(h, m))
<1> DEFINE T == Seq(Nat) \cup {m}
<1>1. PICK S : S = T
  OBVIOUS
<1>2. h \in Seq(S) /\ m \in S
  BY <1>1
<1> HIDE DEF T
<1>3. PICK t : t = Append(h, m)
  OBVIOUS
<1>4. /\ t \in Seq(S) /\ Len(t) = Len(h) + 1 /\ \A i \in 1 .. Len(h) : t[i] = h[i]
      /\ Len(h) \in Nat
  BY <1>2, <1>3, AppendProperties, LenProperties
<1>5. SubSeq(t, 1, Len(h)) = h /\ SubSeq(h, 1, Len(h)) = h
  BY <1>2, <1>4
<1>6. Len(h) <= Len(t) /\ h # t
  BY <1>4
<1> QED  BY <1>3, <1>5, <1>6 DEF IsStrictPrefix, IsPrefix

LEMMA PrefixTwice ==
  ASSUME NEW h \in Seq(Seq(Nat)), NEW m
  PROVE  IsStrictPrefix(h, h \o <<m, m>>)
<1> DEFINE T == Seq(Nat) \cup {m}
<1>1. PICK S : S = T
  OBVIOUS
<1>2. h \in Seq(S) /\ m \in S
  BY <1>1
<1> HIDE DEF T
<1>3. PICK t : t = h \o <<m, m>>
  OBVIOUS
<1>4. /\ t \in Seq(S) /\ Len(t) = Len(h) + 2 /\ \A i \in 1 .. Len(h) : t[i] = h[i]
      /\ Len(h) \in Nat
  BY <1>2, <1>3
<1>5. SubSeq(t, 1, Len(h)) = h /\ SubSeq(h, 1, Len(h)) = h
  BY <1>2, <1>4
<1>6. Len(h) <= Len(t) /\ h # t
  BY <1>4
<1> QED  BY <1>3, <1>5, <1>6 DEF IsStrictPrefix, IsPrefix

SameForeign == ("foreign" \in excuses') <=> ("foreign" \in excuses)

LEMMA SilentStep ==
  ASSUME w'.durable = w.durable, history' = history, SameForeign
  PROVE  UNCHANGED Promise!promiseVars
BY DEF SameForeign, Promise!promiseVars

LEMMA RecordStep ==
  ASSUME Sure, w'.durable = w.durable, SameForeign,
         \E m : history' = Append(history, m) \/ history' = history \o <<m, m>>
  PROVE  Promise!Record
<1>1. history \in Seq(Seq(Nat))
  BY SureFacts
<1>2. IsStrictPrefix(history, history')
  BY <1>1, PrefixAppend, PrefixTwice
<1>3. Promise!IsStrictPrefix(history, history')
  BY <1>2 DEF IsStrictPrefix, IsPrefix, Promise!IsStrictPrefix, Promise!IsPrefix
<1> QED  BY <1>3 DEF SameForeign, Promise!Record

LEMMA RequestSaves ==
  ASSUME NEW x, IsWriter(x), NEW y, y = RequestCommit(x)
  PROVE  y.durable = x.durable /\ y.gen = x.gen
<1>1. PICK z : z = [x EXCEPT !.live = @ + 1,
                             !.queue = IF x.baseline THEN @ ELSE Barrier(@, x.live + 1)]
  OBVIOUS
<1>2. IsWriter(z) /\ z.durable = x.durable /\ z.gen = x.gen
  BY <1>1 DEF IsWriter
<1>3. y = Schedule(WatchHealth(z), FALSE, Busy)
  BY <1>1 DEF RequestCommit
<1>4. SameCore(z, y)
  BY <1>2, <1>3, CoreWatched
<1> QED  BY <1>2, <1>4 DEF SameCore

LEMMA PromiseObserve ==
  ASSUME Sure, Observe \/ ObserveFault
  PROVE  [Promise!Next]_Promise!promiseVars
<1>1. IsWriter(w)
  BY SureFacts
<1>2. CASE Observe
  <2>1. PICK q, boundary :
          w' = Schedule(WatchHealth([w EXCEPT !.live = @ + 1, !.proj = Append(@, ops'),
                   !.queue = IF w.baseline THEN @ ELSE q]), boundary, Busy)
    BY <1>2 DEF Observe
  <2>2. PICK z : z = [w EXCEPT !.live = @ + 1, !.proj = Append(@, ops'),
                               !.queue = IF w.baseline THEN @ ELSE q]
    OBVIOUS
  <2>3. IsWriter(z) /\ z.durable = w.durable
    BY <1>1, <2>2 DEF IsWriter
  <2>7. SameCore(z, w')
    BY <2>1, <2>2, <2>3, CoreWatched
  <2>4. w'.durable = w.durable
    BY <2>3, <2>7 DEF SameCore
  <2>5. history' = Append(history, w'.proj) /\ SameForeign
    BY <1>2 DEF Observe, SameForeign
  <2>6. Promise!Record
    BY <2>4, <2>5, RecordStep
  <2> QED  BY <2>6 DEF Promise!Next
<1>3. CASE ObserveFault
  <2>1. SameForeign
    BY <1>3 DEF ObserveFault, SameForeign
  <2>2. CASE w' = Fail([w EXCEPT !.complete = FALSE, !.blocked = TRUE], "degraded")
             /\ history' = history
    <3>1. PICK z : z = [w EXCEPT !.complete = FALSE, !.blocked = TRUE]
      OBVIOUS
    <3>2. IsWriter(z) /\ z.durable = w.durable
      BY <1>1, <3>1 DEF IsWriter
    <3>3. w'.durable = w.durable
      BY <2>2, <3>1, <3>2, CoreFails DEF SameCore
    <3> QED  BY <2>1, <2>2, <3>3, SilentStep
  <2>3. CASE /\ w' = Fail([w EXCEPT !.complete = FALSE, !.blocked = TRUE,
                              !.live = @ + 1, !.proj = Append(@, ops')], "degraded")
             /\ history' = Append(history, w'.proj)
    <3>1. PICK z : z = [w EXCEPT !.complete = FALSE, !.blocked = TRUE,
                              !.live = @ + 1, !.proj = Append(@, ops')]
      OBVIOUS
    <3>2. IsWriter(z) /\ z.durable = w.durable
      BY <1>1, <3>1 DEF IsWriter
    <3>3. w'.durable = w.durable
      BY <2>3, <3>1, <3>2, CoreFails DEF SameCore
    <3>4. Promise!Record
      BY <2>1, <2>3, <3>3, RecordStep
    <3> QED  BY <3>4 DEF Promise!Next
  <2> QED  BY <1>3, <2>2, <2>3 DEF ObserveFault
<1> QED  BY <1>2, <1>3

LEMMA PromiseEdit ==
  ASSUME Sure, PatchMetadata \/ \E n \in 0 .. MaxRevision : Rewind(n)
  PROVE  [Promise!Next]_Promise!promiseVars
<1>1. IsWriter(w)
  BY SureFacts
<1>2. SameForeign
  BY DEF PatchMetadata, Rewind, SameForeign
<1>3. CASE PatchMetadata
  <2>1. CASE w' = w /\ history' = history
    BY <1>2, <2>1, SilentStep
  <2>2. CASE w' = RequestCommit(w) /\ history' = Append(history, w.proj)
    <3>1. w'.durable = w.durable
      BY <1>1, <2>2, RequestSaves
    <3>2. Promise!Record
      BY <1>2, <2>2, <3>1, RecordStep
    <3> QED  BY <3>2 DEF Promise!Next
  <2> QED  BY <1>3, <2>1, <2>2 DEF PatchMetadata
<1>4. CASE \E n \in 0 .. MaxRevision : Rewind(n)
  <2>1. PICK n : Rewind(n)
    BY <1>4
  <2>2. PICK z : z = [w EXCEPT !.proj = SubSeq(@, 1, n), !.live = @ + 1,
                               !.queue = <<>>, !.baseline = TRUE]
    OBVIOUS
  <2>3. PICK x : x = Schedule(WatchHealth(z), TRUE, FALSE)
    OBVIOUS
  <2>4. w' = RequestCommit(x) /\ history' = history \o <<x.proj, x.proj>>
    BY <2>1, <2>2, <2>3 DEF Rewind
  <2>5. IsWriter(z) /\ z.durable = w.durable
    BY <1>1, <2>2 DEF IsWriter
  <2>9. SameCore(z, x)
    BY <2>3, <2>5, CoreWatched
  <2>6. IsWriter(x) /\ x.durable = w.durable
    BY <2>5, <2>9 DEF SameCore
  <2>7. w'.durable = w.durable
    BY <2>4, <2>6, RequestSaves
  <2>8. Promise!Record
    BY <1>2, <2>4, <2>7, RecordStep
  <2> QED  BY <2>8 DEF Promise!Next
<1> QED  BY <1>3, <1>4

LEMMA PromiseTimers ==
  ASSUME Sure, \/ TimerFire \/ Flush \/ HealthTimeout \/ Retire \/ RetireTimeout \/ Revoke
               \/ RetireSettled \/ Exit \/ ForeignEdit
  PROVE  [Promise!Next]_Promise!promiseVars
<1>1. IsWriter(w)
  BY SureFacts
<1>2. history' = history /\ excuses' = excuses
  BY DEF TimerFire, Flush, HealthTimeout, Retire, RetireTimeout, Revoke, RetireSettled, Exit,
         ForeignEdit, ghosts
<1>3. w'.durable = w.durable
  <2>1. CASE TimerFire \/ Flush
    <3>1. PICK x : x = [w EXCEPT !.timer = "off"]
      OBVIOUS
    <3>2. IsWriter(x) /\ x.durable = w.durable
      BY <1>1, <3>1 DEF IsWriter
    <3>3. StartWrite(x)
      BY <2>1, <3>1 DEF TimerFire, Flush
    <3>4. \/ w' = x
          \/ w' = [x EXCEPT !.queue = <<>>, !.baseline = FALSE, !.emptyPending = FALSE]
          \/ \E n : w' = [x EXCEPT !.queue = SubSeq(@, n + 1, Len(@))]
      BY <3>3 DEF StartWrite
    <3> QED  BY <3>2, <3>4 DEF IsWriter
  <2>2. CASE HealthTimeout
    <3>1. PICK z : z = [w EXCEPT !.watch = FALSE]
      OBVIOUS
    <3>2. IsWriter(z) /\ z.durable = w.durable
      BY <1>1, <3>1 DEF IsWriter
    <3>3. SameCore(z, w')
      BY <2>2, <3>1, <3>2, CoreFails DEF HealthTimeout
    <3> QED  BY <3>2, <3>3 DEF SameCore
  <2>3. CASE Retire \/ Revoke
    BY <1>1, <2>3 DEF Retire, Revoke, IsWriter
  <2>4. CASE RetireTimeout
    <3>1. PICK z : z = [w EXCEPT !.retiring = FALSE]
      OBVIOUS
    <3>2. IsWriter(z) /\ z.durable = w.durable
      BY <1>1, <3>1 DEF IsWriter
    <3>3. w' = Schedule(z, FALSE, Busy)
      BY <2>4, <3>1 DEF RetireTimeout
    <3>4. SameCore(z, w')
      BY <3>2, <3>3, CoreHelpers
    <3> QED  BY <3>2, <3>4 DEF SameCore
  <2>5. CASE RetireSettled \/ Exit
    BY <2>5 DEF RetireSettled, Exit, Ended, Cold
  <2>6. CASE ForeignEdit
    BY <2>6 DEF ForeignEdit
  <2> QED  BY <2>1, <2>2, <2>3, <2>4, <2>5, <2>6
<1>4. SameForeign
  BY <1>2 DEF SameForeign
<1> QED  BY <1>2, <1>3, <1>4, SilentStep

LEMMA PromiseWrite ==
  ASSUME Sure, \/ AppendCreate \/ AppendHeader \/ AppendCheck \/ AppendPart \/ AppendRow
               \/ ReplaceCheck \/ ReplaceIntent \/ ReplaceRename \/ Publish \/ IoFail
  PROVE  [Promise!Next]_Promise!promiseVars
<1>1. history' = history /\ SameForeign
  BY DEF AppendCreate, AppendHeader, AppendCheck, AppendPart, AppendRow, ReplaceCheck,
         ReplaceIntent, ReplaceRename, Publish, IoFail, ghosts, SameForeign
<1>2. CASE w' = w
  BY <1>1, <1>2, SilentStep
<1>3. CASE Finally(Refused(w))
  <2>1. PICK y : y = Refused(w)
    OBVIOUS
  <2>2. IsWriter(y) /\ y.durable = w.durable
    BY <2>1, RefusedIs
  <2>3. SameCore(y, w')
    BY <1>3, <2>1, <2>2, FinallySame
  <2>4. w'.durable = w.durable
    BY <2>2, <2>3 DEF SameCore
  <2> QED  BY <1>1, <2>4, SilentStep
<1>4. CASE IoFail
  <2>1. PICK y : y = Failed(w)
    OBVIOUS
  <2>2. io # Idle /\ Finally(y)
    BY <1>4, <2>1 DEF IoFail, Busy
  <2>3. IsWriter(y) /\ y.durable = w.durable
    BY <2>1, <2>2, FailedIs
  <2>4. SameCore(y, w')
    BY <2>2, <2>3, FinallySame
  <2>5. w'.durable = w.durable
    BY <2>3, <2>4 DEF SameCore
  <2> QED  BY <1>1, <2>5, SilentStep
<1> QED  BY <1>2, <1>3, <1>4 DEF AppendCreate, AppendHeader, AppendCheck, AppendPart, AppendRow,
            ReplaceCheck, ReplaceIntent, ReplaceRename, Publish

(* A commit acknowledges what it wrote; a replacement may write nothing    *)
(* new, and an append whose close fails has not been heard of yet.         *)
LEMMA PromiseCommit ==
  ASSUME Certain, Commit
  PROVE  [Promise!Next]_Promise!promiseVars
<1>1. /\ Sure /\ io.step \in {"sync", "indexed"} /\ history' = history /\ excuses' = excuses
  BY DEF Certain, Commit, ghosts
<1>2. PICK a : Settle(a)
  BY DEF Commit
<1>3. \/ Finally(Succeeded(w, Committed))
      \/ io.job = "append" /\ Finally(Failed(w))
  BY <1>2 DEF Settle
<1>4. SameForeign
  BY <1>1 DEF SameForeign
<1>5. io # Idle /\ w.durable \in Nat /\ Len(history) \in Nat
  BY <1>1, SyncFacts, SureFacts
<1>6. Committed.rev \in w.durable .. Len(history)
  <2>1. Committed.rev = Revision(file) /\ io.job \in {"append", "replace"}
    BY <1>1, SyncFacts
  <2>2. CASE io.job = "append"
    <3>1. Revision(file) = io.batch.to
      BY <1>1, <2>2, SyncFacts
    <3>2. Says(io.batch, history) /\ io.batch.from = w.durable + 1
      BY <1>1, <1>5, <2>2, JobFlow DEF NextBatch
    <3>3. io.batch.to \in Nat /\ io.batch.from \in 1 .. io.batch.to
          /\ io.batch.to <= Len(history)
      BY <3>2 DEF Says, BatchT
    <3> QED  BY <1>5, <2>1, <3>1, <3>2, <3>3
  <2>3. CASE io.job = "replace"
    <3>1. io.step # "candidate"
      BY <1>1
    <3>2. st.pending.rev \in w.durable .. Len(history)
      BY <1>1, <2>3, <3>1, ReplaceFacts
    <3>3. Revision(file) = st.pending.rev
      BY <1>1, <2>3, SyncFacts
    <3> QED  BY <2>1, <3>2, <3>3
  <2> QED  BY <2>1, <2>2, <2>3
<1>7. CASE Finally(Succeeded(w, Committed))
  <2>1. PICK y : y = Succeeded(w, Committed)
    OBVIOUS
  <2>2. IsWriter(y) /\ y.durable = Committed.rev
    BY <1>1, <2>1, SucceededIs
  <2>3. SameCore(y, w')
    BY <1>7, <2>1, <2>2, FinallySame
  <2>4. w'.durable = Committed.rev
    BY <2>2, <2>3 DEF SameCore
  <2>5. CASE w'.durable = w.durable
    BY <1>1, <1>4, <2>5, SilentStep
  <2>6. CASE w'.durable # w.durable
    <3>1. w'.durable \in w.durable + 1 .. Len(history)
      BY <1>5, <1>6, <2>4, <2>6
    <3>2. Promise!Acknowledge
      BY <1>1, <1>4, <3>1 DEF Promise!Acknowledge, SameForeign
    <3> QED  BY <3>2 DEF Promise!Next
  <2> QED  BY <2>5, <2>6
<1>8. CASE io.job = "append" /\ Finally(Failed(w))
  <2>1. PICK y : y = Failed(w)
    OBVIOUS
  <2>2. IsWriter(y) /\ y.durable = w.durable
    BY <1>1, <1>5, <2>1, FailedIs
  <2>3. SameCore(y, w')
    BY <1>8, <2>1, <2>2, FinallySame
  <2>4. w'.durable = w.durable
    BY <2>2, <2>3 DEF SameCore
  <2> QED  BY <1>1, <1>4, <2>4, SilentStep
<1> QED  BY <1>3, <1>7, <1>8

(* Whoever opens the history finds all that was reported as saved.         *)
LEMMA PromiseCreate ==
  ASSUME Certain, Create
  PROVE  [Promise!Next]_Promise!promiseVars
<1>1. /\ w.phase = "cold" /\ meta = NoRow
      /\ w' = RequestCommit(Instance(gens + 1, 0, <<>>)) /\ history' = <<<<>>>>
      /\ excuses' = (excuses \cap {"foreign"}) \cup (IF file = NoFile THEN {} ELSE {"leftover"})
  BY DEF Create
<1>2. Sure
  BY DEF Certain
<1>3. PICK x : x = Instance(gens + 1, 0, <<>>)
  OBVIOUS
<1>4. IsWriter(x) /\ x.durable = 0
  BY <1>3, InstanceIs
<1>5. w'.durable = 0
  BY <1>1, <1>3, <1>4, RequestSaves
<1>6. w.durable = 0
  <2>1. RowOk(file, w, st, io, meta, excuses) /\ w.durable \in Nat
    BY <1>2, NowFacts, SureFacts DEF Stored
  <2> QED  BY <1>1, <2>1 DEF RowOk
<1>7. SameForeign
  BY <1>1 DEF SameForeign
<1>8. Len(history) \in Nat /\ Len(history') = 1
  BY <1>1, <1>2, SureFacts
<1>9. SubSeq(history', 1, 0) = SubSeq(history, 1, 0)
  <2>1. history \in Seq(Seq(Nat))
    BY <1>2, SureFacts
  <2>2. PICK h : h = history'
    OBVIOUS
  <2>3. h \in Seq({<<>>})
    BY <1>1, <2>2
  <2> QED  BY <2>1, <2>2, <2>3
<1>10. Promise!Reopen
  BY <1>5, <1>6, <1>7, <1>8, <1>9 DEF Promise!Reopen, SameForeign
<1> QED  BY <1>10 DEF Promise!Next

LEMMA PromiseActivate ==
  ASSUME Certain, Activate
  PROVE  [Promise!Next]_Promise!promiseVars
<1>1. PICK r, m, h, x : r = Revision(file) /\ m = Content(file) /\ h = Kept(r, m)
                          /\ x = Instance(file.gen, r, m)
  OBVIOUS
<1>2. /\ w.phase = "cold" /\ meta # NoRow /\ Readable(file)
      /\ \/ w' = x /\ history' = h
         \/ w' = RequestCommit(x) /\ history' = Append(h, m)
      /\ excuses' = excuses \cap {"foreign"}
  BY <1>1 DEF Activate
<1>3. Sure /\ ExcusesOk(file, excuses) /\ ContentOk(file, w, st.pending, meta, history, excuses)
  BY <1>2, NewOwner DEF Stored
<1>4. /\ h \in Seq(Seq(Nat)) /\ Len(h) = r /\ r \in Nat /\ m \in Seq(Nat)
  BY <1>1, <1>2, KeptIs
<1>5. IsWriter(x) /\ x.durable = r
  BY <1>1, InstanceIs
<1>6. w'.durable = r
  BY <1>2, <1>5, RequestSaves
<1>7. PICK k : k = history'
  OBVIOUS
<1>8. /\ k \in Seq(Seq(Nat)) /\ r <= Len(k) /\ Len(k) \in Nat
      /\ \A i \in 1 .. r : k[i] = h[i]
  <2>1. CASE k = h
    BY <1>4, <2>1
  <2>2. CASE k = Append(h, m)
    <3>1. Len(k) = Len(h) + 1 /\ k \in Seq(Seq(Nat))
      BY <1>4, <2>2, AppendProperties
    <3>2. \A i \in 1 .. Len(h) : k[i] = h[i]
      BY <1>4, <2>2, AppendProperties
    <3> QED  BY <1>4, <3>1, <3>2
  <2> QED  BY <1>2, <1>7, <2>1, <2>2
<1>9. SameForeign
  BY <1>2 DEF SameForeign
<1>10. "foreign" \notin excuses =>
          /\ r \in w.durable .. Len(history)
          /\ SubSeq(k, 1, r) = SubSeq(history, 1, r)
  <2> SUFFICES ASSUME "foreign" \notin excuses
               PROVE  /\ r \in w.durable .. Len(history)
                      /\ SubSeq(k, 1, r) = SubSeq(history, 1, r)
    OBVIOUS
  <2>1. Trusted(excuses)
    BY <1>3 DEF ExcusesOk, Trusted
  <2>2. FileSays(file, w, history)
    BY <1>2, <1>3, <2>1 DEF ContentOk
  <2>3. /\ r \in w.durable .. Len(history) /\ history \in Seq(Seq(Nat))
        /\ w.durable \in Nat /\ Len(history) \in Nat
    BY <1>1, <1>3, <2>2, SureFacts DEF FileSays
  <2>4. \A i \in 1 .. r : h[i] = history[i]
    BY <1>1, <1>4, <2>3 DEF Kept
  <2>5. SubSeq(k, 1, r) = SubSeq(history, 1, r)
    BY <1>4, <1>8, <2>3, <2>4
  <2> QED  BY <2>3, <2>5
<1>11. Promise!Reopen
  BY <1>6, <1>7, <1>8, <1>9, <1>10 DEF Promise!Reopen, SameForeign
<1> QED  BY <1>11 DEF Promise!Next

LEMMA PromiseDamaged ==
  ASSUME Certain, ActivateDamaged
  PROVE  [Promise!Next]_Promise!promiseVars
<1>1. /\ w.phase = "cold" /\ meta # NoRow /\ ~Readable(file)
      /\ w' = Fail([Instance(gens + 1, 0, <<>>) EXCEPT !.complete = FALSE, !.blocked = TRUE],
                   "degraded")
      /\ history' = <<>> /\ excuses' = excuses
  BY DEF ActivateDamaged
<1>2. "foreign" \in excuses
  <2>1. RowOk(file, w, st, io, meta, excuses) /\ ExcusesOk(file, excuses)
    BY <1>1, NewOwner DEF Stored
  <2> QED  BY <1>1, <2>1 DEF RowOk, ExcusesOk
<1>3. w'.durable = 0
  <2>1. PICK x : x = [Instance(gens + 1, 0, <<>>) EXCEPT !.complete = FALSE, !.blocked = TRUE]
    OBVIOUS
  <2>2. IsWriter(x) /\ x.durable = 0
    BY <2>1 DEF Instance, Cold, IsWriter
  <2> QED  BY <1>1, <2>1, <2>2, CoreFails DEF SameCore
<1>4. Promise!Reopen
  <2>1. Len(history') = 0
    BY <1>1
  <2> QED  BY <1>1, <1>2, <1>3, <2>1 DEF Promise!Reopen
<1> QED  BY <1>4 DEF Promise!Next

LEMMA PromiseIntrude ==
  ASSUME Certain, NEW kind \in Intrusions, Intrude(kind)
  PROVE  [Promise!Next]_Promise!promiseVars
<1>1. /\ w' = w /\ history' = history
      /\ excuses' = excuses \cup {"foreign", IF kind = "row" THEN "row" ELSE "emptied"}
  BY IntrusionFacts
<1>2. Promise!Intrude
  BY <1>1 DEF Promise!Intrude
<1> QED  BY <1>2 DEF Promise!Next

LEMMA HistoryStep ==
  ASSUME Certain, [Next]_vars
  PROVE  [Promise!Next]_Promise!promiseVars
<1>1. Sure
  BY DEF Certain
<1>2. CASE Observe \/ ObserveFault
  BY <1>1, <1>2, PromiseObserve
<1>3. CASE PatchMetadata \/ \E n \in 0 .. MaxRevision : Rewind(n)
  BY <1>1, <1>3, PromiseEdit
<1>4. CASE \/ TimerFire \/ Flush \/ HealthTimeout \/ Retire \/ RetireTimeout \/ Revoke
           \/ RetireSettled \/ Exit \/ ForeignEdit
  BY <1>1, <1>4, PromiseTimers
<1>5. CASE \/ AppendCreate \/ AppendHeader \/ AppendCheck \/ AppendPart \/ AppendRow
           \/ ReplaceCheck \/ ReplaceIntent \/ ReplaceRename \/ Publish \/ IoFail
  BY <1>1, <1>5, PromiseWrite
<1>6. CASE Commit
  BY <1>6, PromiseCommit
<1>7. CASE Create
  BY <1>7, PromiseCreate
<1>8. CASE Activate
  BY <1>8, PromiseActivate
<1>9. CASE ActivateDamaged
  BY <1>9, PromiseDamaged
<1>10. CASE \E kind \in Intrusions : Intrude(kind)
  BY <1>10, PromiseIntrude
<1>11. CASE UNCHANGED vars
  BY <1>11 DEF vars, Promise!promiseVars
<1> QED  BY <1>2, <1>3, <1>4, <1>5, <1>6, <1>7, <1>8, <1>9, <1>10, <1>11 DEF Next, IoStep

(* Every behaviour of the writer, its file, its crashes and the programs   *)
(* that meddle with it is one of the promise: the history only grows by    *)
(* whole revisions, saving never runs ahead of it, and the next owner      *)
(* finds a prefix that holds all that was reported as saved.               *)
THEOREM KeepsThePromise == Spec => HistoryPromise
<1>1. Init => Promise!Init
  BY DEF Init, Promise!Init, Cold
<1>2. Certain /\ [Next]_vars => [Promise!Next]_Promise!promiseVars
  BY HistoryStep
<1> QED  BY <1>1, <1>2, AlwaysCertain, PTL DEF Spec, HistoryPromise, Promise!Spec
=============================================================================
