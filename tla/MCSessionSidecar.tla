-------------------------- MODULE MCSessionSidecar --------------------------
(* Small instances of SessionSidecar. *)
EXTENDS SessionSidecarInv
=============================================================================
