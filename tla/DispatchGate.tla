---------------------------- MODULE DispatchGate ----------------------------
(***************************************************************************)
(* What the admission fence of a Sidecar process promises                  *)
(* (DispatchGate, DispatchLease and DispatchDrain in                       *)
(* src-tauri/src/sidecar/types.rs): a process generation is born with an   *)
(* open gate, admits requests while the gate is open, is closed once and   *)
(* for good, and is terminated by its manager only after every request it  *)
(* admitted has returned.  A crash is not a step of the gate: the process  *)
(* of an open gate may die at any time, a terminated one never had a       *)
(* request to lose.                                                        *)
(*                                                                         *)
(* SessionSidecar and GlobalSidecar are shown to implement it.             *)
(***************************************************************************)
EXTENDS Naturals

CONSTANT Gens            \* identities of process generations

VARIABLES born,          \* generations whose process was published
          accepting,     \* DispatchGateState::accepting
          inFlight,      \* DispatchGateState::in_flight
          terminated     \* generations the manager has killed

gateVars == <<born, accepting, inFlight, terminated>>

Init ==
  /\ born = {}
  /\ accepting = {}
  /\ inFlight = [g \in Gens |-> 0]
  /\ terminated = {}

(* DispatchGate::new, when the manager publishes a process. *)
Open(g) ==
  /\ g \notin born
  /\ born' = born \cup {g}
  /\ accepting' = accepting \cup {g}
  /\ UNCHANGED <<inFlight, terminated>>

(* DispatchGate::try_acquire succeeds only while the gate is open. *)
Acquire(g) ==
  /\ g \in accepting
  /\ inFlight' = [inFlight EXCEPT ![g] = @ + 1]
  /\ UNCHANGED <<born, accepting, terminated>>

(* Drop of a DispatchLease. *)
Drop(g) ==
  /\ inFlight[g] > 0
  /\ inFlight' = [inFlight EXCEPT ![g] = @ - 1]
  /\ UNCHANGED <<born, accepting, terminated>>

(* DispatchGate::close; one lifecycle transition may close several gates. *)
Close(S) ==
  /\ accepting' = accepting \ S
  /\ UNCHANGED <<born, inFlight, terminated>>

(* The processes of S are killed: their gates are closed and drained. *)
Terminate(S) ==
  /\ S \cap accepting = {}
  /\ \A g \in S : inFlight[g] = 0
  /\ terminated' = terminated \cup S
  /\ UNCHANGED <<born, accepting, inFlight>>

Next ==
  \/ \E g \in Gens : Open(g) \/ Acquire(g) \/ Drop(g)
  \/ \E S \in SUBSET Gens : Close(S) \/ Terminate(S)

Spec == Init /\ [][Next]_gateVars
=============================================================================
