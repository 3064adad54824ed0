------------------------ MODULE NotificationPromise ------------------------
(***************************************************************************)
(* What the notification outbox of a Task promises to a conversation       *)
(* (src-tauri/src/task/notification.rs): a result is asked to be delivered *)
(* once when its event is recorded and once more each time the user asks   *)
(* again, and every request is served at most once.  A request may remain  *)
(* unserved; the outbox does not invent one.                               *)
(*                                                                         *)
(* TaskNotification is shown to implement this specification.              *)
(***************************************************************************)
EXTENDS Naturals

CONSTANTS
  Deliveries,     \* the recorded results
  Copies          \* the copies of them a Session may come to see

VARIABLES
  asked,          \* how often the delivery of each was requested
  served          \* the copies of each that were taken into a turn, each
                  \* with the request it serves

promiseVars == <<asked, served>>

Init ==
  /\ asked \in [Deliveries -> {0, 1}]
  /\ served = [d \in Deliveries |-> {}]

(* record_event, or an explicit retry or resend. *)
Ask(d) ==
  /\ asked' = [asked EXCEPT ![d] = @ + 1]
  /\ UNCHANGED served

(* A Session takes a copy of the result into a turn, for a request that no *)
(* other copy has served.                                                  *)
Serve(d, c, r) ==
  /\ r \in 1 .. asked[d]
  /\ \A s \in served[d] : s[1] # c /\ s[2] # r
  /\ served' = [served EXCEPT ![d] = @ \cup {<<c, r>>}]
  /\ UNCHANGED asked

Next == \E d \in Deliveries :
          \/ Ask(d)
          \/ \E c \in Copies, r \in 1 .. asked[d] : Serve(d, c, r)

Spec == Init /\ [][Next]_promiseVars
=============================================================================
