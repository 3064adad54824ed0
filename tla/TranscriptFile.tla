--------------------------- MODULE TranscriptFile ---------------------------
(***************************************************************************)
(* The V2 transcript of a Session as it lies on disk                       *)
(* (src/server/session-transcript/codec.ts, file.ts): a header that names  *)
(* a generation, an optional baseline, rows that each commit one batch,    *)
(* and perhaps the first bytes of a row whose write did not end.           *)
(*                                                                         *)
(* A batch is identified by the writer that made it and its last revision; *)
(* its bytes are its value.  A path that is renamed over gets a new inode  *)
(* and a new generation together, so the generation stands for both.  A    *)
(* baseline is written and verified under another name and appears whole.  *)
(***************************************************************************)
EXTENDS Naturals, SequencesExt

Batch(inst, from, to, ops) == [inst |-> inst, from |-> from, to |-> to, ops |-> ops]

NoBatch == Batch(0, 0, 0, <<>>)

(* kind: "none" there is no file; "empty" it has no byte; "header" it has  *)
(* part of a header; "v2" it has a whole one.                              *)
Transcript(kind, gen, base, ops) ==
  [kind |-> kind, gen |-> gen, base |-> base, ops |-> ops,
   rows |-> <<>>, tail |-> NoBatch]

NoFile == Transcript("none", 0, 0, <<>>)

-----------------------------------------------------------------------------
(* What TranscriptDecoder makes of a file.                                 *)

Before(f, i) == IF i = 1 THEN f.base ELSE f.rows[i - 1].to

(* Non-contiguous transcript revision. *)
Contiguous(f, i) ==
  /\ f.rows[i].from = Before(f, i) + 1
  /\ f.rows[i].to >= f.rows[i].from

Valid(f) == Max({n \in 0 .. Len(f.rows) : \A i \in 1 .. n : Contiguous(f, i)})

Revision(f) == IF Valid(f) = 0 THEN f.base ELSE f.rows[Valid(f)].to

Content(f) ==
  f.ops \o FlattenSeq([i \in 1 .. Valid(f) |-> f.rows[i].ops])

TailState(f) == IF Valid(f) < Len(f.rows) THEN "invalid"
           ELSE IF f.tail # NoBatch THEN "incomplete" ELSE "clean"

LastBatch(f) == IF Valid(f) = 0 THEN NoBatch ELSE f.rows[Valid(f)]

Readable(f) == f.kind = "v2"

-----------------------------------------------------------------------------
(* TranscriptFile.append, once the file is open: what is found behind the  *)
(* offset the batch is going to be written at.                             *)

(* cursor: the generation, revision and length this instance last saw.     *)
Known(f, cursor, expected) ==
  /\ Readable(f)
  /\ [gen |-> cursor.gen, rev |-> cursor.rev] = expected
  /\ cursor.gen = f.gen
  /\ Len(f.rows) >= cursor.size

Offset(f, cursor, expected) ==
  IF Known(f, cursor, expected) THEN cursor.size ELSE Valid(f)

(* Nothing but the batch itself, or its first bytes, follows offset n.     *)
OwnTail(f, n, b) ==
  \/ (Len(f.rows) = n /\ f.tail \in {NoBatch, b})
  \/ (Len(f.rows) = n + 1 /\ f.rows[n + 1] = b /\ f.tail = NoBatch)

(* The batch is already there in full: an earlier try wrote it. *)
AlreadyWritten(f, cursor, expected, b) ==
  IF Known(f, cursor, expected)
  THEN Len(f.rows) = cursor.size + 1 /\ OwnTail(f, cursor.size, b)
  ELSE LastBatch(f) = b /\ TailState(f) = "clean"

(* The checks that let a batch be appended; coldTail is issued when a      *)
(* transcript without an owner was adopted with an unfinished row.         *)
MayAppend(f, cursor, expected, b, coldTail) ==
  IF Known(f, cursor, expected)
  THEN OwnTail(f, cursor.size, b)
  ELSE /\ Readable(f)
       /\ f.gen = expected.gen
       /\ TailState(f) # "invalid"
       /\ \/ AlreadyWritten(f, cursor, expected, b)
          \/ /\ Revision(f) = expected.rev
             /\ (f.tail \in {NoBatch, b} \/ coldTail)

(* The file cut at the row the batch is written behind. *)
CutAt(f, n) == [f EXCEPT !.rows = SubSeq(@, 1, n), !.tail = NoBatch]

-----------------------------------------------------------------------------
(* publishReplacement: what may be renamed over.                           *)

Published(f, pending) ==
  /\ Readable(f) /\ TailState(f) = "clean"
  /\ f.gen = pending.gen /\ Revision(f) = pending.rev

Bug_EmptySource(f) ==         \* any source of another generation is replaced
  f.kind = "empty" \/ Readable(f)

(* A source without one committed batch, which the sole recovery of a live *)
(* history may replace whatever its generation.                            *)
EmptySource(f) ==
  \/ f.kind = "empty"
  \/ (Readable(f) /\ TailState(f) = "clean" /\ f.base = 0 /\ f.rows = <<>>)

MayReplace(f, pending, coldTail, allowCreate) ==
  \/ Published(f, pending)
  \/ pending.empty /\ EmptySource(f)
  \/ f.kind = "none" /\ allowCreate /\ pending.expected.rev = 0
  \/ /\ Readable(f)
     /\ [gen |-> f.gen, rev |-> Revision(f)] = pending.expected
     /\ (TailState(f) = "clean" \/ (coldTail /\ TailState(f) = "incomplete"))
=============================================================================
