-------------------------- MODULE SessionSidecarInv --------------------------
(***************************************************************************)
(* The inductive invariant behind the safety properties of SessionSidecar. *)
(* Each conjunct says what one kind of gap between two critical sections   *)
(* may rely on.                                                            *)
(***************************************************************************)
EXTENDS SessionSidecar

(* A generation that was never reserved has left no trace. *)
FreshGens ==
  \A g \in Gens : g > lastGen =>
    /\ proc[g] = "unborn"
    /\ inFlight[g] = 0
    /\ g \notin detached

(* Nothing names a generation that is still to be reserved. *)
KnownGens ==
  /\ active.gen <= lastGen
  /\ recovering.gen <= lastGen
  /\ op.drain.active <= lastGen
  /\ \A d \in drains : d.active <= lastGen

(* An entry, a displaced entry and a detached entry are never the same.    *)
Disjoint ==
  /\ active.gen # NoGen => active.gen # recovering.gen
  /\ active.gen \notin detached
  /\ recovering.gen \notin detached

(* Whoever waits for the gate of an entry has closed it, and a gate that   *)
(* is closed stays closed.                                                 *)
DrainsClosed ==
  /\ \A d \in drains : d.active \notin accepting
  /\ op.step \in {"replace", "retire"} => op.drain.active \notin accepting

(* While the fence holder waits to displace an entry, no other takes its   *)
(* place.                                                                  *)
ReplacesCurrent ==
  op.step = "replace" => active.gen \in {NoGen, op.drain.active}

(* From the kill on, a delete has no active process to look after, and     *)
(* once the exit is confirmed the displaced one is gone for good.          *)
DeleteQuiet ==
  op.kind = "delete" =>
    /\ op.step \in {"kill", "confirm", "retire", "reap", "unlink"} => active.gen = NoGen
    /\ op.step \in {"retire", "reap", "unlink"} /\ HasRecovery => Exited(recovering.gen)

SafetyInv ==
  /\ FreshGens /\ KnownGens /\ Disjoint /\ DrainsClosed /\ ReplacesCurrent /\ DeleteQuiet
  /\ OneAdmitting /\ RecoveryIsDrained /\ NoKillUnderLease /\ StartingIsPrivate

-----------------------------------------------------------------------------
(* What the properties about owners rest on. *)

(* Owners belong to a process. *)
OwnersHaveEntries ==
  /\ HasActive \/ active.owners = {}
  /\ HasRecovery \/ recovering.owners = {}

(* The process whose answer the poller is about to consume was the current *)
(* one, outside any recovery; if it is current now it has been all along.  *)
SettlesOutsideRecovery ==
  bg.step = "settle" =>
    /\ bg.gen \in 1 .. lastGen
    /\ HasActive /\ generation = bg.gen => Background \notin recovering.owners
=============================================================================
