------------------------ MODULE TaskNotificationInv ------------------------
(***************************************************************************)
(* The inductive invariant behind the safety properties of                 *)
(* TaskNotification.  Each conjunct says what a receipt, a stale snapshot  *)
(* or a queued turn may rely on.                                           *)
(***************************************************************************)
EXTENDS TaskNotification

(* The attempt the worker has open is the newest one, and it has not left  *)
(* the worker's hands before it is posted.                                 *)
WorkerOpen ==
  IF worker.step = "scan" THEN worker.attempt = 0
  ELSE /\ worker.attempt \in Attempts
       /\ worker.attempt = lastAttempt
       /\ (offers[worker.attempt].stage = "claimed") <=> (worker.step \in {"claimed", "posting"})

(* Attempts are claimed in order, and nobody names a later one. *)
KnownAttempts ==
  /\ \A a \in Attempts : (offers[a].stage = "none") <=> (a > lastAttempt)
  /\ \A d \in Deliveries : rec[d].attempt <= lastAttempt
  /\ \A r \in todo : r.attempt <= lastAttempt

(* A record is born when its delivery is first asked for, and an attempt   *)
(* serves one of the requests there have been.                             *)
KnownRequests ==
  /\ \A d \in Deliveries :
       /\ (rec[d].born = 0) <=> (requests[d] = 0)
       /\ rec[d].kept => rec[d].born # 0
       /\ rec[d].born = 0 => rec[d].state \notin Pending
  /\ \A a \in Attempts : offers[a].stage # "none" =>
       offers[a].request \in 1 .. requests[offers[a].delivery]

(* An attempt a record has open is its own and serves the newest request.  *)
OpenAttempt ==
  \A d \in Deliveries, a \in Attempts :
    rec[d].state \in {"Waiting", "Preparing"} /\ rec[d].attempt = a =>
      offers[a].delivery = d /\ offers[a].request = requests[d]

(* A claim that a snapshot saw left behind never comes to be prepared.     *)
LeftBehind ==
  \A r \in todo : r.state = "Waiting" /\ r.attempt # 0 =>
    /\ r.attempt # worker.attempt
    /\ ~(rec[r.delivery].state = "Preparing" /\ rec[r.delivery].attempt = r.attempt)

(* A receipt that gives the result back is the receipt of an attempt that  *)
(* is over, and one that says handed-off of an attempt that was taken.     *)
ReceiptIsTrue ==
  \A a \in Attempts :
    /\ offers[a].receipt \in {"binding_changed", "offline"} => offers[a].stage = "closed"
    /\ offers[a].receipt = "handed-off" => offers[a].stage = "dispatched"

(* An attempt that may reach a turn, or has reached one, without a further *)
(* look at its record.                                                     *)
Loaded(a) ==
  \/ offers[a].stage \in {"cleared", "dispatched"}
  \/ offers[a].stage = "admitted" /\ SameSession(a)

(* While the newest request has such an attempt, no other is claimed for   *)
(* it: the record is being prepared by this one, or is settled.            *)
LoadedHoldsRecord ==
  \A a \in Attempts :
    LET d == offers[a].delivery
    IN Loaded(a) /\ offers[a].request = requests[d] =>
         \/ rec[d].state = "Preparing" /\ rec[d].attempt = a
         \/ rec[d].state \notin Pending

LoadedOnce ==
  \A a, b \in Attempts :
    /\ Loaded(a) /\ Loaded(b)
    /\ offers[a].delivery = offers[b].delivery
    /\ offers[a].request = offers[b].request
    => a = b

AttemptsInv ==
  /\ WorkerOpen /\ KnownAttempts /\ KnownRequests /\ OpenAttempt /\ LeftBehind
  /\ ReceiptIsTrue /\ LoadedHoldsRecord /\ LoadedOnce

(* No version that runs today sends by itself; a restart settles what an   *)
(* older one was sending.                                                  *)
NoneSending == up => \A d \in Deliveries : rec[d].state # "Sending"

OutboxInv ==
  AttemptsInv /\ NoneSending /\ NothingPendingIsLost /\ HandedOffWasDispatched
=============================================================================
