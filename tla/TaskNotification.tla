-------------------------- MODULE TaskNotification --------------------------
(***************************************************************************)
(* The notification outbox of ONE Task: its durable delivery records       *)
(* (src-tauri/src/task/notification.rs), the worker that hands them to a   *)
(* Session (task/notification_worker.rs, im/channel_handoff.rs,            *)
(* inbox/deliver.rs), the management API the Session calls back            *)
(* (management_api/task_notifications.rs), and the Session that queues the *)
(* result, asks once more before it dispatches it and reports              *)
(* (src/server/session-engine/task-notification.ts and the dispatch guard  *)
(* of agent-session.ts).                                                   *)
(*                                                                         *)
(* An action is one TaskStore transaction, or one step of the Session      *)
(* between two awaits.  The worker is one sequential loop over a snapshot  *)
(* of the records; its attempts are numbered in the order it claims them   *)
(* and number 0 stands for no attempt.  Clocks are not modelled: a         *)
(* deadline that can pass may pass at any time, or not yet.                *)
(*                                                                         *)
(* A definition Bug_D is a faulty variant of D, a mistake somebody could   *)
(* make; nothing uses it but the checks that a property notices it.        *)
(***************************************************************************)
EXTENDS Naturals, FiniteSets

CONSTANTS
  Deliveries,        \* results the Task records
  Sessions,          \* Sessions the conversation may be bound to
  NoSession,
  ExecutionSession,  \* execution_session_id of each result
  Legacy,            \* states older versions may have left in the file
  MaxPending,        \* MAX_PENDING
  MaxRetained,       \* MAX_RETAINED
  MaxAttempts,       \* bound: attempts the worker claims
  MaxRequests,       \* bound: times the delivery of one result is requested
  MaxFaults          \* bound: crashes, failed writes and lost worker tasks

Attempts == 1 .. MaxAttempts

ASSUME DeliveriesAssumption == IsFiniteSet(Deliveries) /\ Deliveries # {}
ASSUME SessionsAssumption ==
  /\ NoSession \notin Sessions
  /\ ExecutionSession \in [Deliveries -> Sessions \cup {NoSession}]
ASSUME LegacyAssumption ==
  Legacy \subseteq {"Prepared", "Sending", "Sent", "Suppressed", "Partial"}
ASSUME BoundsAssumption ==
  /\ MaxPending \in Nat /\ MaxRetained \in Nat \ {0}
  /\ MaxAttempts \in Nat /\ MaxRequests \in Nat \ {0} /\ MaxFaults \in Nat

VARIABLES
  up,           \* the Rust process runs
  deleted,      \* Task::deleted
  rec,          \* Task::notification_deliveries
  requests,     \* history: how often each result was asked to be delivered
  resends,      \* history: how many of those requests were a resend
  lastAttempt,  \* the newest attempt_id
  worker,       \* the worker's place in its loop and the attempt it has open
  todo,         \* what is left of the snapshot the worker iterates over
  offers,       \* each attempt on its way to, and in, its Session
  bound,        \* the Session the conversation's peer is bound to
  faults        \* failures the environment has injected so far

storeVars   == <<deleted, rec>>
requestVars == <<requests, resends>>
workerVars  == <<lastAttempt, worker, todo>>
vars == <<up, storeVars, requestVars, workerVars, offers, bound, faults>>

States == {"Waiting", "Preparing", "Prepared", "Sending", "Sent", "HandedOff",
           "Suppressed", "Failed", "Unknown", "Partial", "Cancelled"}
Pending == {"Waiting", "Preparing", "Prepared", "Sending"}
Record == [born : Nat, kept : BOOLEAN, state : States,
           attempt : Attempts \cup {0}, result : BOOLEAN]
Outcomes == {"handed-off", "failed", "unknown", "binding_changed", "offline"}
Stages == {"none", "claimed", "sent", "admitted", "queued", "cleared",
           "dispatched", "closed"}
Offer == [delivery : Deliveries, request : Nat, resend : Nat,
          session : Sessions \cup {NoSession}, stage : Stages,
          receipt : Outcomes \cup {"none", "gone"},
          ack : {"none", "held", "accepted", "rejected"}]
Snapshot == [delivery : Deliveries, state : {"Waiting", "Preparing"},
             attempt : Attempts \cup {0}]

TypeOK ==
  /\ up \in BOOLEAN
  /\ deleted \in BOOLEAN
  /\ rec \in [Deliveries -> Record]
  /\ requests \in [Deliveries -> Nat]
  /\ resends \in [Deliveries -> Nat]
  /\ lastAttempt \in Attempts \cup {0}
  /\ worker \in [step : {"scan", "claimed", "posting", "answer"},
                 attempt : Attempts \cup {0}]
  /\ todo \in SUBSET Snapshot
  /\ offers \in [Attempts -> Offer]
  /\ bound \in Sessions
  /\ faults \in 0 .. MaxFaults

NoRecord == [born |-> 0, kept |-> FALSE, state |-> "Cancelled", attempt |-> 0,
             result |-> FALSE]
NoOffer == [delivery |-> CHOOSE d \in Deliveries : TRUE, request |-> 0,
            resend |-> 0, session |-> NoSession, stage |-> "none",
            receipt |-> "none", ack |-> "none"]
Scanning == [step |-> "scan", attempt |-> 0]

(* A start on a new file, or on one an older version has written. *)
Init ==
  /\ up = FALSE
  /\ deleted = FALSE
  /\ \E old \in [Deliveries -> Legacy \cup {"none"}] :
       /\ Cardinality({d \in Deliveries : old[d] # "none"}) <= 1
       /\ rec = [d \in Deliveries |->
                   IF old[d] = "none" THEN NoRecord
                   ELSE [born |-> 1, kept |-> TRUE, state |-> old[d],
                         attempt |-> 0, result |-> TRUE]]
       /\ requests = [d \in Deliveries |-> IF old[d] = "none" THEN 0 ELSE 1]
  /\ resends = [d \in Deliveries |-> 0]
  /\ lastAttempt = 0
  /\ worker = Scanning
  /\ todo = {}
  /\ offers = [a \in Attempts |-> NoOffer]
  /\ bound \in Sessions
  /\ faults = 0

-----------------------------------------------------------------------------
(* The TaskStore: every change of a record is one transaction.             *)

Fault   == faults < MaxFaults /\ faults' = faults + 1
NoFault == UNCHANGED faults

(* mutate_notification reaches the record of d, with attempt a expected; *)
(* 0 expects nothing.                                                    *)
Reaches(d, a) ==
  /\ up
  /\ rec[d].kept
  /\ a # 0 => rec[d].attempt = a
  /\ deleted => rec[d].state = "Sending"

Put(d, s, a) == [rec EXCEPT ![d].state = s, ![d].attempt = a]

Recorded == {d \in Deliveries : rec[d].born # 0}
Kept(pending) == {d \in Deliveries : rec[d].kept /\ (rec[d].state \in Pending) = pending}

(* The oldest go, pending or not. *)
Bug_Retained(d) ==
  Cardinality({e \in Kept(FALSE) : rec[e].born > rec[d].born}) < MaxRetained - 1

(* The records that survive the next one: the pending and the newest others. *)
Retained(d) ==
  \/ rec[d].state \in Pending
  \/ Cardinality({e \in Kept(FALSE) : rec[e].born > rec[d].born}) < MaxRetained - 1

(* record_event, inside the Task's own mutation; a policy error, a text    *)
(* too long or the capacity makes the record fail at birth, the last two   *)
(* without its text.                                                       *)
RecordEvent(d) ==
  /\ up /\ ~deleted
  /\ d \notin Recorded
  /\ \E s \in {"Waiting", "Failed"}, fits \in BOOLEAN :
       LET room == fits /\ Cardinality(Kept(TRUE)) < MaxPending
           new  == [born |-> Cardinality(Recorded) + 1, kept |-> TRUE,
                    state |-> IF room THEN s ELSE "Failed",
                    attempt |-> 0, result |-> room]
       IN rec' = [e \in Deliveries |->
                    IF e = d THEN new
                    ELSE [rec[e] EXCEPT !.kept = @ /\ Retained(e)]]
  /\ requests' = [requests EXCEPT ![d] = 1]
  /\ UNCHANGED <<up, deleted, resends, workerVars, offers, bound, faults>>

(* operate_notification, one action for each of its three arms. *)
Cancel(d) ==
  /\ Reaches(d, 0)
  /\ rec[d].state \notin {"Sending", "Sent", "HandedOff"}
  /\ rec' = Put(d, "Cancelled", 0)
  /\ UNCHANGED <<up, deleted, requestVars, workerVars, offers, bound, faults>>

Retry(d) ==
  /\ Reaches(d, 0)
  /\ rec[d].result
  /\ rec[d].state \in {"Failed", "Waiting", "Suppressed"}
  /\ rec[d].attempt = 0 \/ rec[d].state = "Suppressed"
  /\ requests[d] < MaxRequests
  /\ rec' = Put(d, "Waiting", 0)
  /\ requests' = [requests EXCEPT ![d] = @ + 1]
  /\ UNCHANGED <<up, deleted, resends, workerVars, offers, bound, faults>>

Resend(d) ==
  /\ Reaches(d, 0)
  /\ rec[d].result
  /\ rec[d].state \in {"Unknown", "Partial"}
  /\ requests[d] < MaxRequests
  /\ rec' = Put(d, "Waiting", 0)
  /\ requests' = [requests EXCEPT ![d] = @ + 1]
  /\ resends' = [resends EXCEPT ![d] = @ + 1]
  /\ UNCHANGED <<up, deleted, workerVars, offers, bound, faults>>

(* Only what no attempt has claimed is cancelled. *)
Bug_CancelUnstarted ==
  [d \in Deliveries |->
     IF rec[d].kept /\ rec[d].state = "Waiting"
     THEN [rec[d] EXCEPT !.state = "Cancelled", !.attempt = 0]
     ELSE rec[d]]

(* delete, with cancel_unstarted in the same transaction. *)
CancelUnstarted ==
  [d \in Deliveries |->
     IF rec[d].kept /\ rec[d].state \in Pending \ {"Sending"}
     THEN [rec[d] EXCEPT !.state = "Cancelled", !.attempt = 0]
     ELSE rec[d]]

DeleteTask ==
  /\ up /\ ~deleted
  /\ deleted' = TRUE
  /\ rec' = CancelUnstarted
  /\ UNCHANGED <<up, requestVars, workerVars, offers, bound, faults>>

-----------------------------------------------------------------------------
(* The worker.                                                             *)

(* The next record of the snapshot, in the order of the list. *)
IsNext(r) == r \in todo /\ \A q \in todo : rec[r.delivery].born <= rec[q.delivery].born

(* A tick: the snapshot of what waits or was left behind. *)
Tick ==
  /\ up /\ ~deleted
  /\ worker.step = "scan" /\ todo = {}
  /\ todo' = {[delivery |-> d, state |-> rec[d].state, attempt |-> rec[d].attempt] :
                d \in {e \in Kept(TRUE) : rec[e].state \in {"Waiting", "Preparing"}}}
  /\ todo' # {}
  /\ UNCHANGED <<up, storeVars, requestVars, lastAttempt, worker, offers, bound, faults>>

(* Not due, not old enough, or claimed while the snapshot was worked off. *)
Pass(r) ==
  /\ up /\ worker.step = "scan" /\ IsNext(r)
  /\ todo' = todo \ {r}
  /\ UNCHANGED <<up, storeVars, requestVars, lastAttempt, worker, offers, bound, faults>>

(* A timeout does not ask whether the record has been settled meanwhile. *)
Bug_Finished(d, a, seen, s) == IF up /\ rec[d].kept THEN Put(d, s, 0) ELSE rec

(* finish: the record must still have the attempt, and the state the       *)
(* worker saw; only what it saw Waiting may be Preparing by now.           *)
Finished(d, a, seen, s) ==
  IF Reaches(d, a) /\ (rec[d].state = seen \/ (seen = "Waiting" /\ rec[d].state = "Preparing"))
  THEN Put(d, s, 0) ELSE rec

(* The transaction may also fail to be written; the worker only logs it. *)
Finish(d, a, seen, s) ==
  \/ rec' = Finished(d, a, seen, s) /\ NoFault
  \/ rec' = rec /\ Fault

(* Nobody looks at claims that were left behind. *)
Bug_TimeOut(r) ==
  /\ r.state = "Preparing"
  /\ up /\ worker.step = "scan" /\ IsNext(r)
  /\ r.attempt # 0
  /\ Finish(r.delivery, r.attempt, r.state, "Unknown")
  /\ todo' = todo \ {r}
  /\ UNCHANGED <<up, deleted, requestVars, lastAttempt, worker, offers, bound>>

(* 360 seconds without a receipt, or 30 seconds with a claim left behind. *)
TimeOut(r) ==
  /\ up /\ worker.step = "scan" /\ IsNext(r)
  /\ r.attempt # 0
  /\ Finish(r.delivery, r.attempt, r.state,
            IF r.state = "Preparing" THEN "Unknown" ELSE "Waiting")
  /\ todo' = todo \ {r}
  /\ UNCHANGED <<up, deleted, requestVars, lastAttempt, worker, offers, bound>>

(* process: claim the record as it is now, under a new attempt. *)
Claim(r) ==
  LET d == r.delivery
      a == lastAttempt + 1
  IN /\ worker.step = "scan" /\ IsNext(r)
     /\ r.state = "Waiting" /\ r.attempt = 0
     /\ Reaches(d, 0)
     /\ rec[d].state = "Waiting" /\ rec[d].attempt = 0
     /\ a \in Attempts
     /\ rec' = Put(d, "Waiting", a)
     /\ lastAttempt' = a
     /\ worker' = [step |-> "claimed", attempt |-> a]
     /\ todo' = todo \ {r}
     /\ offers' = [offers EXCEPT ![a] =
                     [NoOffer EXCEPT !.delivery = d, !.request = requests[d],
                                     !.resend = resends[d], !.stage = "claimed"]]
     /\ UNCHANGED <<up, deleted, requestVars, bound, faults>>

Open == offers[worker.attempt]
Conclude(s) ==
  /\ Finish(Open.delivery, worker.attempt, "Waiting", s)
  /\ worker' = Scanning

(* No target yet, its Channel gone, changed hands, offline or restarting,  *)
(* or no Sidecar for its Session.                                          *)
GiveUp ==
  /\ up /\ worker.step = "claimed"
  /\ \E s \in {"Waiting", "Failed"} : Conclude(s)
  /\ UNCHANGED <<up, deleted, requestVars, lastAttempt, todo, offers, bound>>

(* deliver_notification, under the peer fence: the attempt is published as *)
(* Preparing for the Session the peer is bound to.                         *)
Prepare ==
  /\ worker.step = "claimed"
  /\ Reaches(Open.delivery, worker.attempt)
  /\ rec[Open.delivery].state = "Waiting"
  /\ rec' = Put(Open.delivery, "Preparing", worker.attempt)
  /\ offers' = [offers EXCEPT ![worker.attempt].session = bound]
  /\ worker' = [worker EXCEPT !.step = "posting"]
  /\ UNCHANGED <<up, deleted, requestVars, lastAttempt, todo, bound, faults>>

(* The Session is gone or was replaced before the request could be sent. *)
PostRefused ==
  /\ up /\ worker.step = "posting"
  /\ Conclude("Failed")
  /\ UNCHANGED <<up, deleted, requestVars, lastAttempt, todo, offers, bound>>

Post ==
  /\ up /\ worker.step = "posting"
  /\ offers' = [offers EXCEPT ![worker.attempt].stage = "sent"]
  /\ worker' = [worker EXCEPT !.step = "answer"]
  /\ UNCHANGED <<up, storeVars, requestVars, lastAttempt, todo, bound, faults>>

(* Delivered: the receipt of the Session is what settles the record. *)
Answered ==
  /\ up /\ worker.step = "answer" /\ Open.ack = "accepted"
  /\ worker' = Scanning
  /\ UNCHANGED <<up, storeVars, requestVars, lastAttempt, todo, offers, bound, faults>>

(* Rejected, or DeliveryFailed: the request timed out, the connection      *)
(* broke, or the answer could not be read.                                 *)
AnswerFailed ==
  /\ up /\ worker.step = "answer"
  /\ Conclude("Failed")
  /\ UNCHANGED <<up, deleted, requestVars, lastAttempt, todo, offers, bound>>

(* Unconfirmed: the task that posts the request did not return. *)
AnswerUnconfirmed ==
  /\ up /\ worker.step = "answer"
  /\ Fault
  /\ rec' = Finished(Open.delivery, worker.attempt, "Waiting", "Unknown")
  /\ worker' = Scanning
  /\ UNCHANGED <<up, deleted, requestVars, lastAttempt, todo, offers, bound>>

-----------------------------------------------------------------------------
(* The Session: admitTaskNotification and the dispatch of a queued turn.   *)

(* checked_record: the attempt is the record's, Preparing for this Session. *)
Current(a) ==
  LET d == offers[a].delivery
  IN up /\ ~deleted /\ rec[d].kept /\ rec[d].state = "Preparing" /\ rec[d].attempt = a

(* authorize: also asks whether the peer is still bound to the Session. *)
Authorized(a) == Current(a) /\ bound = offers[a].session

(* Why an attempt may be refused.  Ownership of the Channel may have       *)
(* changed, or the callback may fail, whatever the record says.            *)
Refusals(a) ==
  {"failed"} \cup (IF Current(a) THEN {"offline"} ELSE {})
             \cup (IF Current(a) /\ bound # offers[a].session
                   THEN {"binding_changed"} ELSE {})

Offers(a, stage, receipt, ack) ==
  offers' = [offers EXCEPT
    ![a].stage = stage,
    ![a].receipt = IF @ = "none" THEN receipt ELSE @,
    ![a].ack = ack]
Silent == UNCHANGED <<up, storeVars, requestVars, workerVars, bound, faults>>

(* The first guard, before anything is queued. *)
Admit(a) ==
  /\ offers[a].stage = "sent"
  /\ Authorized(a)
  /\ Offers(a, "admitted", "none", "none")
  /\ Silent

Refuse(a) ==
  /\ offers[a].stage = "sent"
  /\ \E code \in Refusals(a) : Offers(a, "closed", code, "held")
  /\ Silent

(* The executing Session is told nothing it does not know; a status change *)
(* without a result of its own is recorded, which may fail.                *)
SameSession(a) == ExecutionSession[offers[a].delivery] = offers[a].session

RecordSame(a) ==
  /\ offers[a].stage = "admitted" /\ SameSession(a)
  /\ \/ Offers(a, "dispatched", "handed-off", "held")
     \/ Offers(a, "closed", "none", "rejected")
  /\ Silent

(* Queued is taken for handed over. *)
Bug_Enqueue(a) ==
  /\ offers[a].stage = "admitted" /\ ~SameSession(a)
  /\ \/ Offers(a, "queued", "handed-off", "accepted")
     \/ Offers(a, "closed", "failed", "held")
     \/ \E stage \in {"queued", "closed"} : Offers(a, stage, "unknown", "held")
  /\ Silent

(* enqueueInboxMessage; when it throws, the turn may have been queued. *)
Enqueue(a) ==
  /\ offers[a].stage = "admitted" /\ ~SameSession(a)
  /\ \/ Offers(a, "queued", "none", "accepted")
     \/ Offers(a, "closed", "failed", "held")
     \/ \E stage \in {"queued", "closed"} : Offers(a, stage, "unknown", "held")
  /\ Silent

(* The guard is asked only once, before the turn is queued. *)
Bug_Clear(a) ==
  /\ offers[a].stage = "queued"
  /\ Offers(a, "cleared", "none", offers[a].ack)
  /\ Silent

(* beforeDispatch: the second guard, when the turn's time has come. *)
Clear(a) ==
  /\ offers[a].stage = "queued"
  /\ Authorized(a)
  /\ Offers(a, "cleared", "none", offers[a].ack)
  /\ Silent

Turn(a) == offers[a].stage \in {"queued", "cleared"}

(* The second guard refuses, or the queue item is cancelled or fails. *)
Reject(a) ==
  /\ Turn(a)
  /\ \E code \in IF offers[a].stage = "queued" THEN Refusals(a) ELSE {"failed"} :
       Offers(a, "closed", code, offers[a].ack)
  /\ Silent

(* The irreversible admission commit, some awaits after the guard. *)
Dispatch(a) ==
  /\ offers[a].stage = "cleared"
  /\ Offers(a, "dispatched", "handed-off", offers[a].ack)
  /\ Silent

(* settle_notification_preparation. *)
Settled(a) ==
  LET d == offers[a].delivery
      outcome == offers[a].receipt
  IN CASE outcome = "handed-off" -> Put(d, "HandedOff", 0)
       [] outcome \in {"binding_changed", "offline"} -> Put(d, "Waiting", 0)
       [] outcome = "unknown" -> Put(d, "Unknown", a)
       [] OTHER -> Put(d, "Failed", 0)

(* A receipt for the result is a receipt for its newest attempt. *)
Bug_Accepts(a) == /\ Reaches(offers[a].delivery, 0)
                  /\ rec[offers[a].delivery].state = "Preparing"

Accepts(a) == /\ Reaches(offers[a].delivery, a)
              /\ rec[offers[a].delivery].state = "Preparing"

(* The receipt goes out once; a response that waited for it follows. *)
Sent(a, ok) ==
  [offers EXCEPT
     ![a].receipt = "gone",
     ![a].ack = IF @ # "held" THEN @
                ELSE IF ok /\ offers[a].receipt = "handed-off" THEN "accepted"
                ELSE "rejected"]

Settle(a) ==
  /\ offers[a].receipt \in Outcomes
  /\ Accepts(a)
  /\ rec' = Settled(a)
  /\ offers' = Sent(a, TRUE)
  /\ UNCHANGED <<up, deleted, requestVars, workerVars, bound, faults>>

(* Too late, or not written, or the Rust process is away. *)
ReceiptLost(a) ==
  /\ offers[a].receipt \in Outcomes
  /\ offers' = Sent(a, FALSE)
  /\ Silent

(* The Node process of s dies with its queue and its receipts. *)
SessionDies(s) ==
  /\ \E a \in Attempts : /\ offers[a].session = s
                         /\ \/ offers[a].stage \in {"sent", "admitted", "queued", "cleared"}
                            \/ offers[a].receipt \in Outcomes
  /\ offers' = [a \in Attempts |->
       IF offers[a].session # s \/ offers[a].stage \in {"none", "claimed"}
       THEN offers[a]
       ELSE [offers[a] EXCEPT
               !.stage = IF @ = "dispatched" THEN @ ELSE "closed",
               !.receipt = "gone",
               !.ack = IF @ = "held" THEN "none" ELSE @]]
  /\ Silent

(* /new and its like move the conversation, under the peer fence. *)
Rebind(s) ==
  /\ up
  /\ worker.step \notin {"posting", "answer"}
  /\ s # bound
  /\ bound' = s
  /\ UNCHANGED <<up, storeVars, requestVars, workerVars, offers, faults>>

-----------------------------------------------------------------------------
(* The Rust process.  Its Sidecars may outlive it for a while.             *)

Crash ==
  /\ up /\ Fault
  /\ up' = FALSE
  /\ worker' = Scanning
  /\ todo' = {}
  /\ UNCHANGED <<storeVars, requestVars, lastAttempt, offers, bound>>

(* An attempt that was under way starts over. *)
Bug_Recovered(r) ==
  IF r.state \in {"Preparing", "Sending", "Prepared"}
  THEN [r EXCEPT !.state = "Waiting", !.attempt = 0]
  ELSE [r EXCEPT !.attempt = 0]

(* recover. *)
Recovered(r) ==
  CASE r.state \in {"Preparing", "Sending"} -> [r EXCEPT !.state = "Unknown"]
    [] r.state = "Prepared" -> [r EXCEPT !.state = "Waiting", !.attempt = 0]
    [] OTHER -> [r EXCEPT !.attempt = 0]

Start ==
  /\ ~up
  /\ up' = TRUE
  /\ rec' = [d \in Deliveries |-> IF rec[d].kept THEN Recovered(rec[d]) ELSE rec[d]]
  /\ UNCHANGED <<deleted, requestVars, workerVars, offers, bound, faults>>

-----------------------------------------------------------------------------
WorkerStep ==
  \/ Tick
  \/ \E r \in todo : Pass(r) \/ TimeOut(r) \/ Claim(r)
  \/ GiveUp \/ Prepare \/ PostRefused \/ Post
  \/ Answered \/ AnswerFailed \/ AnswerUnconfirmed

OfferStep(a) ==
  \/ Admit(a) \/ Refuse(a) \/ RecordSame(a) \/ Enqueue(a)
  \/ Clear(a) \/ Reject(a) \/ Dispatch(a)
  \/ Settle(a) \/ ReceiptLost(a)

UserStep ==
  \/ \E d \in Deliveries : RecordEvent(d) \/ Cancel(d) \/ Retry(d) \/ Resend(d)
  \/ DeleteTask
  \/ \E s \in Sessions : Rebind(s)

Next ==
  \/ WorkerStep
  \/ \E a \in Attempts : OfferStep(a)
  \/ UserStep
  \/ \E s \in Sessions : SessionDies(s)
  \/ Crash \/ Start

Spec == Init /\ [][Next]_vars

(* The worker's loop runs; every wait in it has a timeout; and 30 or 360   *)
(* seconds pass however often the worker looks in between.                 *)
FairSpec ==
  /\ Spec
  /\ WF_vars(WorkerStep)
  /\ \A d \in Deliveries :
       SF_vars(\E r \in todo : r.delivery = d /\ TimeOut(r))

-----------------------------------------------------------------------------
(* Properties.                                                             *)

Dispatched(a) == offers[a].stage = "dispatched"

(* Whatever is lost, late, cancelled or restarted, no two attempts that    *)
(* serve the same request of a result reach a turn of a Session: a second  *)
(* copy takes a second request by the user.  (The exact-attempt CAS of     *)
(* mutate_notification, checked_record as dispatch guard, and recover.)    *)
OncePerRequest ==
  \A a, b \in Attempts :
    /\ Dispatched(a) /\ Dispatched(b)
    /\ offers[a].delivery = offers[b].delivery
    /\ offers[a].request = offers[b].request
    => a = b

(* A record that says handed-off was taken into a turn, or belongs to the  *)
(* Session that executed the Task (settle_notification_preparation).       *)
HandedOffWasDispatched ==
  \A d \in Deliveries : rec[d].state = "HandedOff" =>
    \E a \in Attempts : Dispatched(a) /\ offers[a].delivery = d

(* What is still pending is neither dropped by the retention limit nor     *)
(* left behind by the deletion of its Task (record_event, cancel_unstarted). *)
NothingPendingIsLost ==
  \A d \in Recorded : rec[d].state \in Pending => rec[d].kept /\ ~deleted

(* A record that was settled, whatever the outcome, becomes pending again  *)
(* only by a request of the user; one that was handed over, sent or        *)
(* cancelled never changes.  Late receipts, stale snapshots and restarts   *)
(* do not reopen it (finish, settle_notification_preparation, recover).    *)
SettledStaysSettled ==
  [][\A d \in Recorded :
       /\ rec[d].state \notin Pending /\ rec'[d].state \in Pending
            => requests'[d] = requests[d] + 1
       /\ rec[d].state \in {"HandedOff", "Sent", "Cancelled"}
            => rec'[d].state = rec[d].state]_vars

(* The outbox serves every request at most once (NotificationPromise). *)
Promise == INSTANCE NotificationPromise WITH
  Copies <- Attempts,
  asked  <- requests,
  served <- [d \in Deliveries |->
               {<<a, offers[a].request>> :
                  a \in {b \in Attempts : Dispatched(b) /\ offers[b].delivery = d}}]
PromiseSpec == Promise!Spec

(* A cancel, or the deletion of the Task, that finds the result not yet    *)
(* past the guard of its dispatch is final: whatever the Session has       *)
(* queued, the result is not told any more (operate_notification,          *)
(* cancel_unstarted, and beforeDispatch of admitTaskNotification).         *)
CancelIsFinal ==
  \A a \in Attempts :
    [](/\ offers[a].stage \in {"claimed", "sent", "queued"}
       /\ rec[offers[a].delivery].state = "Cancelled"
       => []~Dispatched(a))

(* No claim is kept for ever: while the process runs, an attempt that a    *)
(* record has open is settled, given back or timed out (the loop of        *)
(* notification_worker.rs).                                                *)
ClaimSettles ==
  \A d \in Deliveries, a \in Attempts :
    (rec[d].state \in {"Waiting", "Preparing"} /\ rec[d].attempt = a)
      ~> (~up \/ ~(rec[d].state \in {"Waiting", "Preparing"} /\ rec[d].attempt = a))

(* What the command line promises of retry (admin-api.ts:4047): only a     *)
(* resend may deliver a result twice.                                      *)
RetryNeverRepeats ==
  \A a, b \in Attempts :
    /\ Dispatched(a) /\ Dispatched(b)
    /\ offers[a].delivery = offers[b].delivery
    /\ offers[a].resend = offers[b].resend
    => a = b
=============================================================================
