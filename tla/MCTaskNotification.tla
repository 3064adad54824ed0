------------------------- MODULE MCTaskNotification -------------------------
(* Small instances of TaskNotification, with its inductive invariant. *)
EXTENDS TaskNotificationInv

CONSTANTS d1, d2, s1, s2

(* The first result was computed by a Session the conversation may be      *)
(* bound to, the second by one that nobody talks to.                       *)
MCExecutionSession == [d \in Deliveries |-> IF d = d1 THEN s1 ELSE NoSession]
=============================================================================
