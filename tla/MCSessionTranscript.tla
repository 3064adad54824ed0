------------------------ MODULE MCSessionTranscript ------------------------
(* Small instances of SessionTranscript. *)
EXTENDS SessionTranscript
=============================================================================
