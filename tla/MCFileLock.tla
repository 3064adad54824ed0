----------------------------- MODULE MCFileLock -----------------------------
(* Small instances of FileLock: two callers in one process, one in another. *)
EXTENDS FileLock

CONSTANTS c1, c2, c3, p1, p2

MCHome == [c \in Callers |-> IF c = c3 THEN p2 ELSE p1]
=============================================================================
