------------------------- MODULE TranscriptPromise -------------------------
(***************************************************************************)
(* What the transcript of a Session promises                               *)
(* (specs/tech_docs/session_transcript_v2.md): the live history only grows *)
(* by whole revisions, saving runs behind it and never ahead, and whoever  *)
(* opens the history again after its process ended finds a prefix that     *)
(* contains everything that was reported as saved.  If another program has *)
(* written into the file, only the order of saving is promised.            *)
(*                                                                         *)
(* SessionTranscript is shown to implement this specification.             *)
(***************************************************************************)
EXTENDS Naturals, SequencesExt

VARIABLES
  history,    \* the conversation after each of its revisions
  saved,      \* the revision that was last reported as saved
  foreign     \* another program has written into the file

promiseVars == <<history, saved, foreign>>

Init == history = <<>> /\ saved = 0 /\ ~foreign

(* One or more revisions are added to the live conversation. *)
Record ==
  /\ IsStrictPrefix(history, history')
  /\ UNCHANGED <<saved, foreign>>

(* Saving has caught up with some newer revision. *)
Acknowledge ==
  /\ saved' \in saved + 1 .. Len(history)
  /\ UNCHANGED <<history, foreign>>

(* A new owner reads the file, and may at once add a revision of its own. *)
Reopen ==
  /\ saved' <= Len(history')
  /\ foreign \/ /\ saved' \in saved .. Len(history)
                /\ SubSeq(history', 1, saved') = SubSeq(history, 1, saved')
  /\ UNCHANGED foreign

Intrude ==
  /\ foreign'
  /\ UNCHANGED <<history, saved>>

Next == Record \/ Acknowledge \/ Reopen \/ Intrude

Spec == Init /\ [][Next]_promiseVars
=============================================================================
