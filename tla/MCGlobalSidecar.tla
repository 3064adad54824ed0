--------------------------- MODULE MCGlobalSidecar ---------------------------
(* Small instances of GlobalSidecar: the monitor m, a start request s, an   *)
(* explicit stop k, an update u and the application's exit x contend for    *)
(* two generations of the process.                                          *)
EXTENDS GlobalSidecarInv
=============================================================================
