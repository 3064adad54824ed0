---------------------- MODULE TaskNotification_proofs ----------------------
(***************************************************************************)
(* Proofs about TaskNotification for any finite set of results, any        *)
(* Sessions, and any number of attempts, requests and faults.              *)
(***************************************************************************)
EXTENDS TaskNotificationInv, FiniteSetTheorems, TLAPS

USE DeliveriesAssumption, SessionsAssumption, LegacyAssumption, BoundsAssumption

-----------------------------------------------------------------------------
(* What the two kinds of records are made of, and what a step leaves of    *)
(* them.                                                                   *)

LEMMA AttemptFacts == Attempts \cup {0} \subseteq Nat /\ 0 \notin Attempts
  BY DEF Attempts

LEMMA Constants ==
  /\ NoRecord \in Record
  /\ NoOffer \in Offer
  /\ Pending \subseteq States
  /\ Outcomes \cap {"none", "gone"} = {}
<1>1. (CHOOSE d \in Deliveries : TRUE) \in Deliveries
  OBVIOUS
<1> QED
  BY <1>1 DEF NoRecord, NoOffer, Record, Offer, Pending, States, Outcomes, Stages

LEMMA RecordFields ==
  ASSUME TypeOK, NEW d \in Deliveries
  PROVE  /\ rec[d] \in Record
         /\ rec[d].born \in Nat /\ rec[d].kept \in BOOLEAN /\ rec[d].state \in States
         /\ rec[d].attempt \in Attempts \cup {0} /\ rec[d].result \in BOOLEAN
  BY DEF TypeOK, Record

LEMMA OfferFields ==
  ASSUME TypeOK, NEW a \in Attempts
  PROVE  /\ offers[a] \in Offer
         /\ offers[a].delivery \in Deliveries /\ offers[a].request \in Nat
         /\ offers[a].stage \in Stages
         /\ offers[a].receipt \in Outcomes \cup {"none", "gone"}
  BY DEF TypeOK, Offer

LEMMA PutFields ==
  ASSUME TypeOK, NEW d \in Deliveries, NEW s \in States, NEW a \in Attempts \cup {0},
         NEW r, r = Put(d, s, a)
  PROVE  /\ r \in [Deliveries -> Record]
         /\ \A e \in Deliveries :
              /\ r[e].born = rec[e].born /\ r[e].kept = rec[e].kept
              /\ r[e].state = (IF e = d THEN s ELSE rec[e].state)
              /\ r[e].attempt = (IF e = d THEN a ELSE rec[e].attempt)
<1>1. rec \in [Deliveries -> Record]
  BY DEF TypeOK
<1>2. r = [rec EXCEPT ![d] = [rec[d] EXCEPT !.state = s, !.attempt = a]]
  BY <1>1 DEF Put
<1>3. rec[d] \in Record
  BY <1>1
<1>4. [rec[d] EXCEPT !.state = s, !.attempt = a] \in Record
  BY <1>3 DEF Record
<1>5. r \in [Deliveries -> Record]
  BY <1>1, <1>2, <1>4
<1>6. /\ [rec[d] EXCEPT !.state = s, !.attempt = a].born = rec[d].born
      /\ [rec[d] EXCEPT !.state = s, !.attempt = a].kept = rec[d].kept
      /\ [rec[d] EXCEPT !.state = s, !.attempt = a].state = s
      /\ [rec[d] EXCEPT !.state = s, !.attempt = a].attempt = a
  BY <1>3 DEF Record
<1>7. r[d] = [rec[d] EXCEPT !.state = s, !.attempt = a]
  BY <1>1, <1>2
<1>8. \A e \in Deliveries : e # d => r[e] = rec[e]
  BY <1>1, <1>2
<1> QED  BY <1>5, <1>6, <1>7, <1>8

(* The offer of a moves to a stage, and has a receipt unless it had one. *)
Moves(a, stage, receipt) ==
  \A b \in Attempts :
    /\ offers'[b].delivery = offers[b].delivery
    /\ offers'[b].request = offers[b].request
    /\ offers'[b].session = offers[b].session
    /\ offers'[b].stage = IF b = a THEN stage ELSE offers[b].stage
    /\ offers'[b].receipt =
         IF b = a /\ offers[b].receipt = "none" THEN receipt ELSE offers[b].receipt

LEMMA OffersMoves ==
  ASSUME TypeOK, NEW a \in Attempts, NEW stage \in Stages,
         NEW receipt \in Outcomes \cup {"none"},
         NEW ack \in {"none", "held", "accepted", "rejected"},
         Offers(a, stage, receipt, ack)
  PROVE  Moves(a, stage, receipt) /\ offers' \in [Attempts -> Offer]
<1> DEFINE o == offers[a]
           n == [o EXCEPT !.stage = stage,
                          !.receipt = IF @ = "none" THEN receipt ELSE @, !.ack = ack]
<1>1. offers \in [Attempts -> Offer] /\ o \in Offer
  BY DEF TypeOK
<1>2. offers' = [offers EXCEPT ![a] = n]
  BY <1>1 DEF Offers
<1>3. n \in Offer
  BY <1>1 DEF Offer
<1>4. /\ n.delivery = o.delivery /\ n.request = o.request /\ n.session = o.session
      /\ n.stage = stage /\ n.receipt = (IF o.receipt = "none" THEN receipt ELSE o.receipt)
  BY <1>1 DEF Offer
<1>5. offers' \in [Attempts -> Offer]
  BY <1>1, <1>2, <1>3
<1>6. offers'[a] = n /\ \A b \in Attempts : b # a => offers'[b] = offers[b]
  BY <1>1, <1>2
<1> HIDE DEF n
<1>7. Moves(a, stage, receipt)
  BY <1>4, <1>6 DEF Moves
<1> QED  BY <1>5, <1>7

LEMMA FinishEffect ==
  ASSUME TypeOK, NEW d \in Deliveries, NEW a \in Attempts \cup {0}, NEW seen,
         NEW s \in States, Finish(d, a, seen, s)
  PROVE  /\ rec' \in [Deliveries -> Record]
         /\ faults' \in 0 .. MaxFaults
         /\ \/ rec' = rec
            \/ /\ rec' = Put(d, s, 0)
               /\ Reaches(d, a)
               /\ rec[d].state = seen \/ (seen = "Waiting" /\ rec[d].state = "Preparing")
<1>1. faults' \in 0 .. MaxFaults
  BY DEF Finish, Fault, NoFault, TypeOK
<1>2. \/ rec' = rec
      \/ /\ rec' = Put(d, s, 0)
         /\ Reaches(d, a)
         /\ rec[d].state = seen \/ (seen = "Waiting" /\ rec[d].state = "Preparing")
  BY DEF Finish, Finished
<1>3. rec' \in [Deliveries -> Record]
  BY <1>2, PutFields DEF TypeOK
<1> QED  BY <1>1, <1>2, <1>3

LEMMA OpenFields ==
  ASSUME TypeOK, WorkerOpen, worker.step # "scan"
  PROVE  /\ worker.attempt \in Attempts
         /\ Open.delivery \in Deliveries
  BY OfferFields DEF WorkerOpen, Open

LEMMA ConcludeTyped ==
  ASSUME TypeOK, WorkerOpen, worker.step # "scan", NEW s \in States, Conclude(s)
  PROVE  /\ rec' \in [Deliveries -> Record] /\ faults' \in 0 .. MaxFaults
         /\ worker' \in [step : {"scan", "claimed", "posting", "answer"},
                         attempt : Attempts \cup {0}]
<1>1. worker' \in [step : {"scan", "claimed", "posting", "answer"}, attempt : Attempts \cup {0}]
  BY DEF Conclude, Scanning
<1>2. Finish(Open.delivery, worker.attempt, "Waiting", s)
  BY DEF Conclude
<1> QED  BY <1>1, <1>2, OpenFields, FinishEffect

LEMMA SentTyped ==
  ASSUME TypeOK, NEW a \in Attempts, NEW ok \in BOOLEAN, offers' = Sent(a, ok)
  PROVE  /\ offers' \in [Attempts -> Offer]
         /\ \A b \in Attempts :
              /\ offers'[b].delivery = offers[b].delivery
              /\ offers'[b].request = offers[b].request
              /\ offers'[b].session = offers[b].session
              /\ offers'[b].stage = offers[b].stage
              /\ offers'[b].receipt = IF b = a THEN "gone" ELSE offers[b].receipt
<1> DEFINE o == offers[a]
           k == IF o.ack # "held" THEN o.ack
                ELSE IF ok /\ o.receipt = "handed-off" THEN "accepted" ELSE "rejected"
           n == [o EXCEPT !.receipt = "gone", !.ack = k]
<1>1. offers \in [Attempts -> Offer] /\ o \in Offer
  BY DEF TypeOK
<1>2. n = [o EXCEPT !.receipt = "gone",
              !.ack = IF @ # "held" THEN @
                      ELSE IF ok /\ o.receipt = "handed-off" THEN "accepted" ELSE "rejected"]
  BY <1>1 DEF Offer
<1>3. offers' = [offers EXCEPT ![a] = n]
  BY <1>1, <1>2 DEF Sent
<1>4. k \in {"none", "held", "accepted", "rejected"}
  BY <1>1 DEF Offer
<1> HIDE DEF k
<1>5. n \in Offer
  BY <1>1, <1>4 DEF Offer
<1>6. /\ n.delivery = o.delivery /\ n.request = o.request /\ n.session = o.session
      /\ n.stage = o.stage /\ n.receipt = "gone"
  BY <1>1 DEF Offer
<1>7. offers'[a] = n /\ \A b \in Attempts : b # a => offers'[b] = offers[b]
  BY <1>1, <1>3
<1>8. offers' \in [Attempts -> Offer]
  BY <1>1, <1>3, <1>5
<1> HIDE DEF n
<1> QED  BY <1>6, <1>7, <1>8

(* The Session that dies keeps only what it had dispatched. *)
Died(s) ==
  \A b \in Attempts :
    /\ offers'[b].delivery = offers[b].delivery
    /\ offers'[b].request = offers[b].request
    /\ offers'[b].session = offers[b].session
    /\ \/ offers'[b].stage = offers[b].stage /\ offers'[b].receipt = offers[b].receipt
       \/ /\ offers[b].stage \notin {"none", "claimed"}
          /\ offers'[b].stage = IF offers[b].stage = "dispatched" THEN "dispatched" ELSE "closed"
          /\ offers'[b].receipt = "gone"

LEMMA SessionDiesTyped ==
  ASSUME TypeOK, NEW s \in Sessions, SessionDies(s)
  PROVE  offers' \in [Attempts -> Offer] /\ Died(s)
<1> DEFINE N(o) == [o EXCEPT !.stage = IF @ = "dispatched" THEN @ ELSE "closed",
                             !.receipt = "gone", !.ack = IF @ = "held" THEN "none" ELSE @]
<1>1. offers' = [a \in Attempts |->
         IF offers[a].session # s \/ offers[a].stage \in {"none", "claimed"}
         THEN offers[a] ELSE N(offers[a])]
  BY DEF SessionDies
<1>2. ASSUME NEW o \in Offer
      PROVE  /\ N(o) \in Offer /\ N(o).delivery = o.delivery /\ N(o).request = o.request
             /\ N(o).session = o.session /\ N(o).receipt = "gone"
             /\ N(o).stage = IF o.stage = "dispatched" THEN "dispatched" ELSE "closed"
  BY DEF Offer, Stages
<1>3. \A b \in Attempts : offers[b] \in Offer
  BY DEF TypeOK
<1> HIDE DEF N
<1>4. offers' \in [Attempts -> Offer]
  BY <1>1, <1>2, <1>3
<1>5. Died(s)
  BY <1>1, <1>2, <1>3 DEF Died
<1> QED  BY <1>4, <1>5

-----------------------------------------------------------------------------
(* Type correctness. *)

LEMMA BirthTyped ==
  ASSUME TypeOK, NEW d \in Deliveries, RecordEvent(d)
  PROVE  /\ rec' \in [Deliveries -> Record]
         /\ requests' \in [Deliveries -> Nat]
         /\ rec'[d].born # 0 /\ rec'[d].kept /\ rec'[d].state \in {"Waiting", "Failed"}
         /\ rec'[d].attempt = 0
         /\ \A e \in Deliveries \ {d} :
              /\ rec'[e].born = rec[e].born /\ rec'[e].kept = (rec[e].kept /\ Retained(e))
              /\ rec'[e].state = rec[e].state /\ rec'[e].attempt = rec[e].attempt
<1>1. Cardinality(Recorded) + 1 \in Nat \ {0}
  <2>1. IsFiniteSet(Recorded)
    BY FS_Subset DEF Recorded
  <2> QED  BY <2>1, FS_CardinalityType
<1> DEFINE room(fits) == fits /\ Cardinality(Kept(TRUE)) < MaxPending
           birth(s, fits) == [born |-> Cardinality(Recorded) + 1, kept |-> TRUE,
                        state |-> IF room(fits) THEN s ELSE "Failed", attempt |-> 0,
                        result |-> room(fits)]
           rest(e) == [rec[e] EXCEPT !.kept = @ /\ Retained(e)]
<1>2. PICK s \in {"Waiting", "Failed"}, fits \in BOOLEAN :
        rec' = [e \in Deliveries |-> IF e = d THEN birth(s, fits) ELSE rest(e)]
  BY DEF RecordEvent
<1>3. room(fits) \in BOOLEAN
  OBVIOUS
<1> HIDE DEF room
<1>4. /\ birth(s, fits) \in Record /\ birth(s, fits).born # 0 /\ birth(s, fits).kept = TRUE
      /\ birth(s, fits).state \in {"Waiting", "Failed"} /\ birth(s, fits).attempt = 0
  BY <1>1, <1>3 DEF Record, States
<1>5. ASSUME NEW e \in Deliveries
      PROVE  /\ rest(e) \in Record /\ rest(e).born = rec[e].born
             /\ rest(e).kept = (rec[e].kept /\ Retained(e))
             /\ rest(e).state = rec[e].state /\ rest(e).attempt = rec[e].attempt
  <2>1. rec[e] \in Record
    BY RecordFields
  <2>2. (rec[e].kept /\ Retained(e)) \in BOOLEAN
    OBVIOUS
  <2>3. rest(e) = [rec[e] EXCEPT !.kept = (rec[e].kept /\ Retained(e))]
    BY <2>1 DEF Record
  <2> HIDE DEF rest
  <2> DEFINE k == rec[e].kept /\ Retained(e)
  <2>4. rest(e) = [rec[e] EXCEPT !.kept = k] /\ k \in BOOLEAN
    BY <2>2, <2>3
  <2> HIDE DEF k
  <2>5. /\ rest(e) \in Record /\ rest(e).born = rec[e].born /\ rest(e).kept = k
        /\ rest(e).state = rec[e].state /\ rest(e).attempt = rec[e].attempt
    BY <2>1, <2>4 DEF Record
  <2> QED  BY <2>5 DEF k
<1>6. requests' \in [Deliveries -> Nat]
  BY DEF RecordEvent, TypeOK
<1> HIDE DEF birth, rest
<1>7. rec' \in [Deliveries -> Record]
  BY <1>2, <1>4, <1>5
<1>8. rec'[d] = birth(s, fits) /\ \A e \in Deliveries \ {d} : rec'[e] = rest(e)
  BY <1>2
<1> QED  BY <1>4, <1>5, <1>6, <1>7, <1>8

LEMMA CancelledTyped ==
  ASSUME TypeOK, DeleteTask
  PROVE  /\ rec' \in [Deliveries -> Record]
         /\ \A e \in Deliveries :
              /\ rec'[e].born = rec[e].born /\ rec'[e].kept = rec[e].kept
              /\ \/ /\ rec[e].kept /\ rec[e].state \in Pending
                    /\ rec'[e].state = "Cancelled" /\ rec'[e].attempt = 0
                 \/ /\ rec'[e].state = rec[e].state /\ rec'[e].attempt = rec[e].attempt
                    /\ rec[e].kept => rec[e].state \notin Pending \ {"Sending"}
<1> DEFINE c(e) == [rec[e] EXCEPT !.state = "Cancelled", !.attempt = 0]
<1>1. rec' = [e \in Deliveries |-> IF rec[e].kept /\ rec[e].state \in Pending \ {"Sending"}
                                  THEN c(e) ELSE rec[e]]
  BY DEF DeleteTask, CancelUnstarted
<1>2. ASSUME NEW e \in Deliveries
      PROVE  /\ rec[e] \in Record /\ c(e) \in Record
             /\ c(e).born = rec[e].born /\ c(e).kept = rec[e].kept
             /\ c(e).state = "Cancelled" /\ c(e).attempt = 0
  <2>1. rec[e] \in Record
    BY RecordFields
  <2> QED  BY <2>1 DEF Record, States
<1> HIDE DEF c
<1>3. rec' \in [Deliveries -> Record]
  BY <1>1, <1>2
<1> QED  BY <1>1, <1>2, <1>3

LEMMA RecoveredTyped ==
  ASSUME TypeOK, Start
  PROVE  /\ rec' \in [Deliveries -> Record]
         /\ \A e \in Deliveries :
              /\ rec'[e].born = rec[e].born /\ rec'[e].kept = rec[e].kept
              /\ \/ /\ ~rec[e].kept
                    /\ rec'[e].state = rec[e].state /\ rec'[e].attempt = rec[e].attempt
                 \/ /\ rec[e].state \in {"Preparing", "Sending"}
                    /\ rec'[e].state = "Unknown" /\ rec'[e].attempt = rec[e].attempt
                 \/ rec[e].state = "Prepared" /\ rec'[e].state = "Waiting" /\ rec'[e].attempt = 0
                 \/ /\ rec[e].state \notin {"Preparing", "Sending", "Prepared"}
                    /\ rec'[e].state = rec[e].state /\ rec'[e].attempt = 0
<1>1. ASSUME NEW r \in Record
      PROVE  /\ Recovered(r) \in Record
             /\ Recovered(r).born = r.born /\ Recovered(r).kept = r.kept
             /\ \/ /\ r.state \in {"Preparing", "Sending"}
                   /\ Recovered(r).state = "Unknown" /\ Recovered(r).attempt = r.attempt
                \/ r.state = "Prepared" /\ Recovered(r).state = "Waiting" /\ Recovered(r).attempt = 0
                \/ /\ r.state \notin {"Preparing", "Sending", "Prepared"}
                   /\ Recovered(r).state = r.state /\ Recovered(r).attempt = 0
  <2>1. CASE r.state \in {"Preparing", "Sending"}
    BY <2>1 DEF Recovered, Record, States
  <2>2. CASE r.state = "Prepared"
    BY <2>2 DEF Recovered, Record, States
  <2>3. CASE r.state \notin {"Preparing", "Sending", "Prepared"}
    BY <2>3 DEF Recovered, Record, States
  <2> QED  BY <2>1, <2>2, <2>3
<1>2. rec' = [d \in Deliveries |-> IF rec[d].kept THEN Recovered(rec[d]) ELSE rec[d]]
  BY DEF Start
<1>3. \A d \in Deliveries : rec[d] \in Record
  BY RecordFields
<1>4. rec' \in [Deliveries -> Record]
  BY <1>1, <1>2, <1>3
<1> QED  BY <1>1, <1>2, <1>3, <1>4

LEMMA RecordTyped ==
  ASSUME TypeOK, NEW d \in Deliveries, Cancel(d) \/ Retry(d) \/ Resend(d)
  PROVE  TypeOK'
<1>1. "Cancelled" \in States /\ "Waiting" \in States
  BY DEF States
<1>2. rec' \in [Deliveries -> Record]
  BY <1>1, PutFields DEF Cancel, Retry, Resend
<1>3. requests' \in [Deliveries -> Nat] /\ resends' \in [Deliveries -> Nat]
  BY DEF Cancel, Retry, Resend, requestVars, TypeOK
<1> QED
  BY <1>2, <1>3 DEF Cancel, Retry, Resend, requestVars, workerVars, TypeOK

LEMMA OutcomesTyped ==
  /\ {"handed-off", "failed", "unknown", "none"} \subseteq Outcomes \cup {"none"}
  /\ \A a : Refusals(a) \subseteq Outcomes
  /\ {"admitted", "queued", "cleared", "dispatched", "closed"} \subseteq Stages
  BY DEF Outcomes, Refusals, Stages

(* Every silent step of a Session moves one offer. *)
LEMMA OfferMoves ==
  ASSUME TypeOK, NEW a \in Attempts,
         \/ Admit(a) \/ Refuse(a) \/ RecordSame(a) \/ Enqueue(a)
         \/ Clear(a) \/ Reject(a) \/ Dispatch(a)
  PROVE  /\ offers' \in [Attempts -> Offer]
         /\ offers[a].stage \notin {"none", "claimed", "dispatched"}
         /\ \E stage \in Stages, receipt \in Outcomes \cup {"none"} :
              /\ Moves(a, stage, receipt)
              /\ stage \notin {"none", "claimed"}
              /\ receipt \in {"binding_changed", "offline"} => stage = "closed"
              /\ receipt = "handed-off" => stage = "dispatched"
              /\ \/ stage \in {"closed", "queued"}
                 \/ stage = "dispatched" /\ Loaded(a)
                 \/ stage \in {"admitted", "cleared"} /\ Current(a)
<1>0. offers[a].ack \in {"none", "held", "accepted", "rejected"}
  BY DEF TypeOK, Offer
<1>1. CASE Admit(a)
  <2>1. Offers(a, "admitted", "none", "none") /\ Current(a) /\ offers[a].stage = "sent"
    BY <1>1 DEF Admit, Authorized
  <2> QED  BY <2>1, OutcomesTyped, OffersMoves
<1>2. CASE Refuse(a)
  <2>1. /\ offers[a].stage = "sent"
        /\ \E code \in Refusals(a) : Offers(a, "closed", code, "held")
    BY <1>2 DEF Refuse
  <2>2. PICK code \in Refusals(a) : Offers(a, "closed", code, "held")
    BY <2>1
  <2>3. code \in Outcomes /\ code # "handed-off"
    BY <2>2 DEF Refusals, Outcomes
  <2>4. Moves(a, "closed", code) /\ offers' \in [Attempts -> Offer]
    BY <2>2, <2>3, OutcomesTyped, OffersMoves
  <2> QED  BY <2>1, <2>3, <2>4, OutcomesTyped
<1>3. CASE RecordSame(a)
  <2>1. /\ offers[a].stage = "admitted" /\ Loaded(a)
        /\ \/ Offers(a, "dispatched", "handed-off", "held")
           \/ Offers(a, "closed", "none", "rejected")
    BY <1>3 DEF RecordSame, Loaded
  <2> QED  BY <2>1, OutcomesTyped, OffersMoves
<1>4. CASE Enqueue(a)
  <2>1. /\ offers[a].stage = "admitted"
        /\ \/ Offers(a, "queued", "none", "accepted")
           \/ Offers(a, "closed", "failed", "held")
           \/ Offers(a, "queued", "unknown", "held")
           \/ Offers(a, "closed", "unknown", "held")
    BY <1>4 DEF Enqueue
  <2> QED  BY <2>1, OutcomesTyped, OffersMoves
<1>5. CASE Clear(a)
  <2>1. Offers(a, "cleared", "none", offers[a].ack) /\ Current(a) /\ offers[a].stage = "queued"
    BY <1>5 DEF Clear, Authorized
  <2> QED  BY <1>0, <2>1, OutcomesTyped, OffersMoves
<1>6. CASE Reject(a)
  <2>1. offers[a].stage \in {"queued", "cleared"}
    BY <1>6 DEF Reject, Turn
  <2>2. PICK code \in Refusals(a) \cup {"failed"} : Offers(a, "closed", code, offers[a].ack)
    BY <1>6 DEF Reject
  <2>3. code \in Outcomes /\ code # "handed-off"
    BY <2>2 DEF Refusals, Outcomes
  <2>4. Moves(a, "closed", code) /\ offers' \in [Attempts -> Offer]
    BY <1>0, <2>2, <2>3, OutcomesTyped, OffersMoves
  <2> QED  BY <2>1, <2>3, <2>4, OutcomesTyped
<1>7. CASE Dispatch(a)
  <2>1. /\ offers[a].stage = "cleared" /\ Loaded(a)
        /\ Offers(a, "dispatched", "handed-off", offers[a].ack)
    BY <1>7 DEF Dispatch, Loaded
  <2> QED  BY <1>0, <2>1, OutcomesTyped, OffersMoves
<1> QED  BY <1>1, <1>2, <1>3, <1>4, <1>5, <1>6, <1>7

LEMMA OfferSilent ==
  ASSUME NEW a,
         \/ Admit(a) \/ Refuse(a) \/ RecordSame(a) \/ Enqueue(a)
         \/ Clear(a) \/ Reject(a) \/ Dispatch(a) \/ ReceiptLost(a)
  PROVE  UNCHANGED <<up, deleted, rec, requests, resends, lastAttempt, worker, todo, bound, faults>>
  BY DEF Admit, Refuse, RecordSame, Enqueue, Clear, Reject, Dispatch, ReceiptLost, Silent,
         storeVars, requestVars, workerVars

(* The steps of the worker that open an attempt and carry it on. *)
LEMMA ClaimEffect ==
  ASSUME TypeOK, NEW r \in todo, Claim(r)
  PROVE  LET d == r.delivery
             a == lastAttempt + 1
         IN /\ d \in Deliveries /\ a \in Attempts
            /\ Reaches(d, 0) /\ rec[d].state = "Waiting" /\ rec[d].attempt = 0
            /\ rec' = Put(d, "Waiting", a) /\ rec' \in [Deliveries -> Record]
            /\ lastAttempt' = a /\ worker' = [step |-> "claimed", attempt |-> a]
            /\ todo' = todo \ {r}
            /\ offers' \in [Attempts -> Offer]
            /\ offers'[a].delivery = d /\ offers'[a].request = requests[d]
            /\ offers'[a].stage = "claimed" /\ offers'[a].receipt = "none"
            /\ \A b \in Attempts : b # a => offers'[b] = offers[b]
<1> DEFINE d == r.delivery
           a == lastAttempt + 1
           n == [NoOffer EXCEPT !.delivery = d, !.request = requests[d],
                                !.resend = resends[d], !.stage = "claimed"]
<1>1. d \in Deliveries /\ a \in Attempts
  BY DEF Claim, TypeOK, Snapshot
<1>2. requests[d] \in Nat /\ resends[d] \in Nat
  BY <1>1 DEF TypeOK
<1>3. /\ n \in Offer /\ n.delivery = d /\ n.request = requests[d]
      /\ n.stage = "claimed" /\ n.receipt = "none"
  BY <1>1, <1>2, Constants DEF Offer, Stages, NoOffer
<1>4. offers' = [offers EXCEPT ![a] = n] /\ offers \in [Attempts -> Offer]
  BY DEF Claim, TypeOK
<1> HIDE DEF n
<1>5. /\ offers' \in [Attempts -> Offer] /\ offers'[a] = n
      /\ \A b \in Attempts : b # a => offers'[b] = offers[b]
  BY <1>1, <1>3, <1>4
<1>6. "Waiting" \in States /\ rec' = Put(d, "Waiting", a)
  BY DEF Claim, States
<1>7. rec' \in [Deliveries -> Record]
  BY <1>1, <1>6, PutFields
<1> QED  BY <1>1, <1>3, <1>5, <1>6, <1>7 DEF Claim

LEMMA PrepareEffect ==
  ASSUME TypeOK, WorkerOpen, Prepare
  PROVE  LET d == Open.delivery
             a == worker.attempt
         IN /\ d \in Deliveries /\ a \in Attempts
            /\ Reaches(d, a) /\ rec[d].state = "Waiting"
            /\ rec' = Put(d, "Preparing", a) /\ rec' \in [Deliveries -> Record]
            /\ worker' = [step |-> "posting", attempt |-> a]
            /\ offers' \in [Attempts -> Offer]
            /\ \A b \in Attempts :
                 /\ offers'[b].delivery = offers[b].delivery
                 /\ offers'[b].request = offers[b].request
                 /\ offers'[b].stage = offers[b].stage
                 /\ offers'[b].receipt = offers[b].receipt
                 /\ b # a => offers'[b].session = offers[b].session
<1> DEFINE d == Open.delivery
           a == worker.attempt
           n == [offers[a] EXCEPT !.session = bound]
<1>1. d \in Deliveries /\ a \in Attempts
  BY OpenFields DEF Prepare
<1>2. offers[a] \in Offer /\ bound \in Sessions /\ offers \in [Attempts -> Offer]
  BY <1>1 DEF TypeOK
<1>3. /\ n \in Offer /\ n.delivery = offers[a].delivery /\ n.request = offers[a].request
      /\ n.stage = offers[a].stage /\ n.receipt = offers[a].receipt
  BY <1>2 DEF Offer
<1>4. offers' = [offers EXCEPT ![a] = n]
  BY <1>2 DEF Prepare
<1> HIDE DEF n
<1>5. /\ offers' \in [Attempts -> Offer] /\ offers'[a] = n
      /\ \A b \in Attempts : b # a => offers'[b] = offers[b]
  BY <1>1, <1>2, <1>3, <1>4
<1>6. "Preparing" \in States /\ rec' = Put(d, "Preparing", a)
  BY DEF Prepare, States
<1>7. rec' \in [Deliveries -> Record]
  BY <1>1, <1>6, PutFields
<1>8. worker' = [step |-> "posting", attempt |-> a]
  BY DEF Prepare, TypeOK
<1> QED  BY <1>1, <1>3, <1>5, <1>6, <1>7, <1>8 DEF Prepare

LEMMA PostEffect ==
  ASSUME TypeOK, WorkerOpen, Post
  PROVE  LET a == worker.attempt
         IN /\ a \in Attempts
            /\ worker' = [step |-> "answer", attempt |-> a]
            /\ offers' \in [Attempts -> Offer]
            /\ \A b \in Attempts :
                 /\ offers'[b].delivery = offers[b].delivery
                 /\ offers'[b].request = offers[b].request
                 /\ offers'[b].session = offers[b].session
                 /\ offers'[b].stage = IF b = a THEN "sent" ELSE offers[b].stage
                 /\ offers'[b].receipt = offers[b].receipt
<1> DEFINE a == worker.attempt
           n == [offers[a] EXCEPT !.stage = "sent"]
<1>1. a \in Attempts
  BY OpenFields DEF Post
<1>2. offers[a] \in Offer /\ offers \in [Attempts -> Offer]
  BY <1>1 DEF TypeOK
<1>3. /\ n \in Offer /\ n.delivery = offers[a].delivery /\ n.request = offers[a].request
      /\ n.stage = "sent" /\ n.receipt = offers[a].receipt /\ n.session = offers[a].session
  BY <1>2 DEF Offer, Stages
<1>4. offers' = [offers EXCEPT ![a] = n]
  BY <1>2 DEF Post
<1> HIDE DEF n
<1>5. /\ offers' \in [Attempts -> Offer] /\ offers'[a] = n
      /\ \A b \in Attempts : b # a => offers'[b] = offers[b]
  BY <1>1, <1>2, <1>3, <1>4
<1>6. worker' = [step |-> "answer", attempt |-> a]
  BY DEF Post, TypeOK
<1> QED  BY <1>1, <1>3, <1>5, <1>6

LEMMA SettledEffect ==
  ASSUME TypeOK, NEW a \in Attempts, Settle(a)
  PROVE  LET d == offers[a].delivery
         IN /\ d \in Deliveries /\ rec[d].state = "Preparing" /\ rec[d].attempt = a
            /\ Reaches(d, a)
            /\ rec' \in [Deliveries -> Record]
            /\ \/ offers[a].receipt = "handed-off" /\ rec' = Put(d, "HandedOff", 0)
               \/ /\ offers[a].receipt \in {"binding_changed", "offline"}
                  /\ rec' = Put(d, "Waiting", 0)
               \/ rec' = Put(d, "Unknown", a)
               \/ rec' = Put(d, "Failed", 0)
<1> DEFINE d == offers[a].delivery
<1>1. d \in Deliveries
  BY OfferFields
<1>2. Reaches(d, a) /\ rec[d].state = "Preparing" /\ rec[d].attempt = a
  BY AttemptFacts DEF Settle, Accepts, Reaches
<1>3. \/ offers[a].receipt = "handed-off" /\ rec' = Put(d, "HandedOff", 0)
      \/ offers[a].receipt \in {"binding_changed", "offline"} /\ rec' = Put(d, "Waiting", 0)
      \/ rec' = Put(d, "Unknown", a)
      \/ rec' = Put(d, "Failed", 0)
  BY DEF Settle, Settled, Outcomes
<1>4. {"HandedOff", "Waiting", "Unknown", "Failed"} \subseteq States
  BY DEF States
<1>5. rec' \in [Deliveries -> Record]
  BY <1>1, <1>3, <1>4, PutFields
<1> QED  BY <1>1, <1>2, <1>3, <1>5

(* The disjuncts of Next, by what they change. *)
LEMMA NextCases ==
  ASSUME Next
  PROVE  \/ \E d \in Deliveries : RecordEvent(d) \/ Cancel(d) \/ Retry(d) \/ Resend(d)
         \/ DeleteTask \/ Start \/ Crash \/ (\E s \in Sessions : Rebind(s))
         \/ Tick \/ (\E r \in todo : Pass(r) \/ TimeOut(r) \/ Claim(r))
         \/ Prepare \/ Post \/ Answered
         \/ GiveUp \/ PostRefused \/ AnswerFailed \/ AnswerUnconfirmed
         \/ \E a \in Attempts :
              \/ Admit(a) \/ Refuse(a) \/ RecordSame(a) \/ Enqueue(a)
              \/ Clear(a) \/ Reject(a) \/ Dispatch(a)
         \/ (\E a \in Attempts : ReceiptLost(a)) \/ (\E a \in Attempts : Settle(a))
         \/ \E s \in Sessions : SessionDies(s)
  BY DEF Next, WorkerStep, OfferStep, UserStep

(* What ends the worker's work on an attempt. *)
LEMMA Concluding ==
  ASSUME TypeOK, WorkerOpen, GiveUp \/ PostRefused \/ AnswerFailed \/ AnswerUnconfirmed
  PROVE  /\ worker.step # "scan" /\ worker' = Scanning
         /\ UNCHANGED <<up, deleted, requests, resends, lastAttempt, todo, offers, bound>>
         /\ rec' \in [Deliveries -> Record] /\ faults' \in 0 .. MaxFaults
         /\ \/ rec' = rec
            \/ \E s \in {"Waiting", "Failed", "Unknown"} :
                 /\ rec' = Put(Open.delivery, s, 0)
                 /\ s = "Waiting" => worker.step = "claimed"
                 /\ Reaches(Open.delivery, worker.attempt)
                 /\ rec[Open.delivery].state \in {"Waiting", "Preparing"}
<1> DEFINE Effect(s) == /\ rec' \in [Deliveries -> Record] /\ faults' \in 0 .. MaxFaults
                        /\ \/ rec' = rec
                           \/ /\ rec' = Put(Open.delivery, s, 0)
                              /\ Reaches(Open.delivery, worker.attempt)
                              /\ rec[Open.delivery].state \in {"Waiting", "Preparing"}
<1>1. {"Waiting", "Failed", "Unknown"} \subseteq States
  BY DEF States
<1>2. ASSUME worker.step # "scan", NEW s \in {"Waiting", "Failed", "Unknown"}, Conclude(s)
      PROVE  worker' = Scanning /\ Effect(s)
  <2>1. Finish(Open.delivery, worker.attempt, "Waiting", s) /\ worker' = Scanning
    BY <1>2 DEF Conclude
  <2> QED  BY <1>1, <1>2, <2>1, OpenFields, FinishEffect
<1>3. CASE GiveUp
  <2>1. worker.step = "claimed" /\ \E s \in {"Waiting", "Failed"} : Conclude(s)
    BY <1>3 DEF GiveUp
  <2>2. PICK s \in {"Waiting", "Failed"} : worker' = Scanning /\ Effect(s)
    BY <1>2, <2>1
  <2> QED  BY <1>3, <2>1, <2>2 DEF GiveUp, requestVars
<1>4. CASE PostRefused \/ AnswerFailed
  <2>1. worker.step # "scan" /\ Conclude("Failed")
    BY <1>4 DEF PostRefused, AnswerFailed
  <2>2. worker' = Scanning /\ Effect("Failed")
    BY <1>2, <2>1
  <2> QED  BY <1>4, <2>1, <2>2 DEF PostRefused, AnswerFailed, requestVars
<1>5. CASE AnswerUnconfirmed
  <2>1. /\ worker.step # "scan" /\ worker' = Scanning
        /\ Fault /\ rec' = Finished(Open.delivery, worker.attempt, "Waiting", "Unknown")
    BY <1>5 DEF AnswerUnconfirmed
  <2>2. faults' \in 0 .. MaxFaults
    BY <2>1 DEF Fault, TypeOK
  <2>3. \/ rec' = rec
        \/ /\ rec' = Put(Open.delivery, "Unknown", 0)
           /\ Reaches(Open.delivery, worker.attempt)
           /\ rec[Open.delivery].state \in {"Waiting", "Preparing"}
    BY <2>1 DEF Finished
  <2>4. rec' \in [Deliveries -> Record]
    BY <1>1, <2>1, <2>3, OpenFields, PutFields DEF TypeOK
  <2> QED  BY <1>5, <2>1, <2>2, <2>3, <2>4 DEF AnswerUnconfirmed, requestVars
<1> QED  BY <1>3, <1>4, <1>5

LEMMA TimeOutEffect ==
  ASSUME TypeOK, NEW r \in todo, TimeOut(r)
  PROVE  LET d == r.delivery
             s == IF r.state = "Preparing" THEN "Unknown" ELSE "Waiting"
         IN /\ d \in Deliveries /\ r.attempt \in Attempts
            /\ r.state \in {"Waiting", "Preparing"}
            /\ todo' = todo \ {r}
            /\ UNCHANGED <<up, deleted, requests, resends, lastAttempt, worker, offers, bound>>
            /\ rec' \in [Deliveries -> Record] /\ faults' \in 0 .. MaxFaults
            /\ \/ rec' = rec
               \/ /\ rec' = Put(d, s, 0) /\ Reaches(d, r.attempt)
                  /\ \/ rec[d].state = r.state
                     \/ r.state = "Waiting" /\ rec[d].state = "Preparing"
<1> DEFINE s == IF r.state = "Preparing" THEN "Unknown" ELSE "Waiting"
<1>1. r \in Snapshot
  BY DEF TypeOK
<1>2. r.delivery \in Deliveries /\ r.attempt \in Attempts /\ r.state \in {"Waiting", "Preparing"}
  BY <1>1 DEF Snapshot, TimeOut
<1>3. s \in States
  BY DEF States
<1>4. Finish(r.delivery, r.attempt, r.state, s)
  BY DEF TimeOut
<1> HIDE DEF s
<1>5. /\ rec' \in [Deliveries -> Record] /\ faults' \in 0 .. MaxFaults
      /\ \/ rec' = rec
         \/ /\ rec' = Put(r.delivery, s, 0) /\ Reaches(r.delivery, r.attempt)
            /\ \/ rec[r.delivery].state = r.state
               \/ r.state = "Waiting" /\ rec[r.delivery].state = "Preparing"
  BY <1>2, <1>3, <1>4, FinishEffect
<1> QED  BY <1>2, <1>5 DEF TimeOut, requestVars, s

LEMMA InitTyped == Init => TypeOK
<1> SUFFICES ASSUME Init PROVE TypeOK
  OBVIOUS
<1>1. PICK old \in [Deliveries -> Legacy \cup {"none"}] :
        /\ rec = [d \in Deliveries |->
                    IF old[d] = "none" THEN NoRecord
                    ELSE [born |-> 1, kept |-> TRUE, state |-> old[d],
                          attempt |-> 0, result |-> TRUE]]
        /\ requests = [d \in Deliveries |-> IF old[d] = "none" THEN 0 ELSE 1]
  BY DEF Init
<1>2. ASSUME NEW d \in Deliveries, old[d] # "none"
      PROVE  [born |-> 1, kept |-> TRUE, state |-> old[d], attempt |-> 0, result |-> TRUE]
               \in Record
  BY <1>2 DEF Record, States
<1>3. rec \in [Deliveries -> Record]
  BY <1>1, <1>2, Constants
<1>4. requests \in [Deliveries -> Nat]
  BY <1>1
<1>5. offers \in [Attempts -> Offer]
  BY Constants DEF Init
<1>6. lastAttempt \in Attempts \cup {0} /\ faults \in 0 .. MaxFaults
  BY DEF Init
<1> QED  BY <1>3, <1>4, <1>5, <1>6 DEF Init, TypeOK, Scanning

LEMMA TypeStep ==
  ASSUME TypeOK, WorkerOpen, [Next]_vars
  PROVE  TypeOK'
<1>1. CASE UNCHANGED vars
  BY <1>1 DEF vars, storeVars, requestVars, workerVars, TypeOK
<1>2. CASE \E d \in Deliveries : RecordEvent(d)
  <2>1. PICK d \in Deliveries : RecordEvent(d)
    BY <1>2
  <2>2. UNCHANGED <<up, deleted, resends, workerVars, offers, bound, faults>>
    BY <2>1 DEF RecordEvent
  <2>3. rec' \in [Deliveries -> Record] /\ requests' \in [Deliveries -> Nat]
    BY <2>1, BirthTyped
  <2> QED  BY <2>2, <2>3 DEF workerVars, TypeOK
<1>3. CASE \E d \in Deliveries : Cancel(d) \/ Retry(d) \/ Resend(d)
  BY <1>3, RecordTyped
<1>4. CASE DeleteTask
  BY <1>4, CancelledTyped DEF DeleteTask, requestVars, workerVars, TypeOK
<1>5. CASE Start
  BY <1>5, RecoveredTyped DEF Start, requestVars, workerVars, TypeOK
<1>6. CASE Crash
  <2>1. /\ worker' = [step |-> "scan", attempt |-> 0] /\ todo' = {} /\ up' = FALSE
        /\ UNCHANGED <<deleted, rec, requests, resends, lastAttempt, offers, bound>>
    BY <1>6 DEF Crash, Scanning, storeVars, requestVars
  <2>2. faults' \in 0 .. MaxFaults
    BY <1>6 DEF Crash, Fault, TypeOK
  <2> QED  BY <2>1, <2>2 DEF TypeOK
<1>7. CASE \E s \in Sessions : Rebind(s)
  BY <1>7 DEF Rebind, storeVars, requestVars, workerVars, TypeOK
<1>8. CASE Tick
  <2>1. todo' \in SUBSET Snapshot
    <3>1. ASSUME NEW d \in Deliveries, rec[d].state \in {"Waiting", "Preparing"}
          PROVE  [delivery |-> d, state |-> rec[d].state, attempt |-> rec[d].attempt] \in Snapshot
      BY <3>1, RecordFields DEF Snapshot
    <3> QED  BY <1>8, <3>1 DEF Tick, Kept
  <2> QED  BY <1>8, <2>1 DEF Tick, storeVars, requestVars, TypeOK
<1>9. CASE \E r \in todo : Pass(r)
  BY <1>9 DEF Pass, storeVars, requestVars, TypeOK
<1>10. CASE \E r \in todo : TimeOut(r)
  BY <1>10, TimeOutEffect DEF TypeOK
<1>11. CASE \E r \in todo : Claim(r)
  <2>1. PICK r \in todo : Claim(r)
    BY <1>11
  <2>2. /\ rec' \in [Deliveries -> Record] /\ lastAttempt' \in Attempts
        /\ worker' = [step |-> "claimed", attempt |-> lastAttempt']
        /\ todo' = todo \ {r} /\ offers' \in [Attempts -> Offer]
    BY <2>1, ClaimEffect
  <2> QED  BY <2>1, <2>2 DEF Claim, requestVars, TypeOK
<1>12. CASE Prepare
  BY <1>12, PrepareEffect DEF Prepare, requestVars, TypeOK
<1>13. CASE Post
  BY <1>13, PostEffect DEF Post, storeVars, requestVars, TypeOK
<1>14. CASE Answered
  BY <1>14 DEF Answered, Scanning, storeVars, requestVars, TypeOK
<1>15. CASE GiveUp \/ PostRefused \/ AnswerFailed \/ AnswerUnconfirmed
  BY <1>15, Concluding DEF Scanning, TypeOK
<1>16. CASE \E a \in Attempts :
              \/ Admit(a) \/ Refuse(a) \/ RecordSame(a) \/ Enqueue(a)
              \/ Clear(a) \/ Reject(a) \/ Dispatch(a)
  <2>1. offers' \in [Attempts -> Offer]
    BY <1>16, OfferMoves
  <2> QED  BY <1>16, <2>1, OfferSilent DEF TypeOK
<1>17. CASE \E a \in Attempts : ReceiptLost(a)
  <2>1. offers' \in [Attempts -> Offer]
    BY <1>17, SentTyped DEF ReceiptLost
  <2> QED  BY <1>17, <2>1, OfferSilent DEF TypeOK
<1>18. CASE \E a \in Attempts : Settle(a)
  <2>1. offers' \in [Attempts -> Offer]
    BY <1>18, SentTyped DEF Settle
  <2>2. rec' \in [Deliveries -> Record]
    BY <1>18, SettledEffect
  <2> QED  BY <1>18, <2>1, <2>2 DEF Settle, requestVars, workerVars, TypeOK
<1>19. CASE \E s \in Sessions : SessionDies(s)
  <2>1. offers' \in [Attempts -> Offer]
    BY <1>19, SessionDiesTyped
  <2> QED  BY <1>19, <2>1 DEF SessionDies, Silent, storeVars, requestVars, workerVars, TypeOK
<1> QED
  BY <1>1, <1>2, <1>3, <1>4, <1>5, <1>6, <1>7, <1>8, <1>9, <1>10, <1>11, <1>12, <1>13,
     <1>14, <1>15, <1>16, <1>17, <1>18, <1>19, NextCases

-----------------------------------------------------------------------------
(* The inductive invariant.  First, what any step leaves of it that keeps  *)
(* the worker's attempt, the offers' stages and their requests: each       *)
(* record is left as it is, settled, given back or asked for again.        *)

Untouched(d) ==
  /\ rec'[d].state = rec[d].state /\ requests'[d] = requests[d]
  /\ \/ rec'[d].attempt = rec[d].attempt
     \/ rec'[d].attempt = 0 /\ rec[d].state # "Preparing"

Concluded(d) ==
  /\ rec'[d].state \notin Pending /\ requests'[d] = requests[d]
  /\ rec'[d].attempt \in {0, rec[d].attempt}

GivenBack(d) ==
  /\ rec[d].state \in Pending /\ rec'[d].state = "Waiting" /\ rec'[d].attempt = 0
  /\ requests'[d] = requests[d]
  /\ rec[d].state = "Preparing" => \A a \in Attempts : rec[d].attempt = a => ~Loaded(a)

AskedFor(d) ==
  /\ rec'[d].attempt = 0 /\ requests'[d] = requests[d] + 1

(* The books about a record that KnownRequests keeps. *)
Bookkept(d) ==
  /\ (rec'[d].born = 0) <=> (requests'[d] = 0)
  /\ rec'[d].kept => rec'[d].born # 0
  /\ rec'[d].born = 0 => rec'[d].state \notin Pending

RecordStep ==
  \A d \in Deliveries :
    /\ Untouched(d) \/ Concluded(d) \/ GivenBack(d) \/ AskedFor(d)
    /\ Bookkept(d)

(* Nothing but the receipts of the offers changes. *)
StagesKept ==
  \A a \in Attempts :
    /\ offers'[a].delivery = offers[a].delivery
    /\ offers'[a].request = offers[a].request
    /\ offers'[a].session = offers[a].session
    /\ offers'[a].stage = offers[a].stage

LEMMA RecordStepKeeps ==
  ASSUME TypeOK, TypeOK', AttemptsInv, RecordStep, StagesKept, ReceiptIsTrue',
         lastAttempt' = lastAttempt, todo' \subseteq todo,
         worker' = worker \/ worker' = Scanning
  PROVE  AttemptsInv'
<1> USE AttemptFacts
<1>1. WorkerOpen'
  BY DEF AttemptsInv, WorkerOpen, StagesKept, Scanning
<1>2. KnownAttempts'
  <2>1. \A a \in Attempts : (offers'[a].stage = "none") <=> (a > lastAttempt')
    BY DEF AttemptsInv, KnownAttempts, StagesKept
  <2>2. ASSUME NEW d \in Deliveries
        PROVE  rec'[d].attempt <= lastAttempt'
    <3>1. rec'[d].attempt = 0 \/ rec'[d].attempt = rec[d].attempt
      BY DEF RecordStep, Untouched, Concluded, GivenBack, AskedFor
    <3>2. lastAttempt \in Nat
      BY DEF TypeOK
    <3> QED  BY <3>1, <3>2 DEF AttemptsInv, KnownAttempts
  <2>3. \A r \in todo' : r.attempt <= lastAttempt'
    BY DEF AttemptsInv, KnownAttempts
  <2> QED  BY <2>1, <2>2, <2>3 DEF KnownAttempts
<1>3. KnownRequests'
  <2>1. \A d \in Deliveries : requests[d] \in Nat /\ requests'[d] \in Nat
    BY DEF TypeOK
  <2>2. \A d \in Deliveries : requests'[d] \in {requests[d], requests[d] + 1}
    BY DEF RecordStep, Untouched, Concluded, GivenBack, AskedFor
  <2>3. ASSUME NEW a \in Attempts, offers'[a].stage # "none"
        PROVE  offers'[a].request \in 1 .. requests'[offers'[a].delivery]
    <3>1. offers[a].request \in 1 .. requests[offers[a].delivery] /\ offers[a].delivery \in Deliveries
      BY <2>3, OfferFields DEF AttemptsInv, KnownRequests, StagesKept
    <3>2. offers[a].request \in 1 .. requests'[offers[a].delivery]
      BY <2>1, <2>2, <3>1
    <3> QED  BY <3>2 DEF StagesKept
  <2> QED  BY <2>3 DEF KnownRequests, RecordStep, Bookkept
<1>4. OpenAttempt'
  <2> SUFFICES ASSUME NEW d \in Deliveries, NEW a \in Attempts,
                      rec'[d].state \in {"Waiting", "Preparing"}, rec'[d].attempt = a
               PROVE  offers'[a].delivery = d /\ offers'[a].request = requests'[d]
    BY DEF OpenAttempt
  <2>1. Untouched(d)
    BY DEF RecordStep, Concluded, GivenBack, AskedFor, Pending
  <2> QED  BY <2>1 DEF Untouched, AttemptsInv, OpenAttempt, StagesKept
<1>5. LeftBehind'
  <2> SUFFICES ASSUME NEW r \in todo', r.state = "Waiting", r.attempt # 0
               PROVE  /\ r.attempt # worker'.attempt
                      /\ ~(rec'[r.delivery].state = "Preparing" /\ rec'[r.delivery].attempt = r.attempt)
    BY DEF LeftBehind
  <2>1. r \in todo /\ r.delivery \in Deliveries
    BY DEF TypeOK, Snapshot
  <2>2. r.attempt # worker'.attempt
    BY <2>1 DEF AttemptsInv, LeftBehind, Scanning
  <2>3. ASSUME rec'[r.delivery].state = "Preparing", rec'[r.delivery].attempt = r.attempt
        PROVE  FALSE
    <3>1. Untouched(r.delivery)
      BY <2>1, <2>3 DEF RecordStep, Concluded, GivenBack, AskedFor, Pending
    <3> QED  BY <2>1, <2>3, <3>1 DEF Untouched, AttemptsInv, LeftBehind
  <2> QED  BY <2>2, <2>3
<1>6. \A a \in Attempts : Loaded(a)' <=> Loaded(a)
  BY DEF Loaded, StagesKept, SameSession
<1>7. LoadedHoldsRecord'
  <2> SUFFICES ASSUME NEW a \in Attempts, Loaded(a)', offers'[a].request = requests'[offers'[a].delivery]
               PROVE  \/ /\ rec'[offers'[a].delivery].state = "Preparing"
                         /\ rec'[offers'[a].delivery].attempt = a
                      \/ rec'[offers'[a].delivery].state \notin Pending
    BY DEF LoadedHoldsRecord
  <2> DEFINE d == offers[a].delivery
  <2>1. d \in Deliveries /\ offers'[a].delivery = d /\ Loaded(a) /\ offers[a].request = requests'[d]
    BY <1>6, OfferFields DEF StagesKept
  <2>2. offers[a].request <= requests[d] /\ requests[d] \in Nat
    <3>1. offers[a].stage # "none"
      BY <2>1 DEF Loaded
    <3> QED  BY <2>1, <3>1 DEF AttemptsInv, KnownRequests, TypeOK
  <2>3. ~AskedFor(d)
    BY <2>1, <2>2 DEF AskedFor
  <2> HIDE DEF d
  <2>4. Concluded(d) => rec'[d].state \notin Pending
    BY DEF Concluded
  <2>5. ASSUME requests'[d] = requests[d]
        PROVE  \/ rec[d].state = "Preparing" /\ rec[d].attempt = a
               \/ rec[d].state \notin Pending
    BY <2>1, <2>5 DEF AttemptsInv, LoadedHoldsRecord, d
  <2>6. ~GivenBack(d)
    BY <2>1, <2>5 DEF GivenBack
  <2>7. Untouched(d) => \/ rec'[d].state = "Preparing" /\ rec'[d].attempt = a
                        \/ rec'[d].state \notin Pending
    BY <2>5 DEF Untouched
  <2> QED  BY <2>1, <2>3, <2>4, <2>6, <2>7 DEF RecordStep
<1>8. LoadedOnce'
  BY <1>6 DEF AttemptsInv, LoadedOnce, StagesKept
<1> QED  BY <1>1, <1>2, <1>3, <1>4, <1>5, <1>7, <1>8 DEF AttemptsInv

-----------------------------------------------------------------------------
(* What every step does to a record, as the other properties see it.       *)

Inv == TypeOK /\ OutboxInv

TakenBy(d) == \E a \in Attempts : Dispatched(a) /\ offers[a].delivery = d

Final == {"HandedOff", "Sent", "Cancelled"}

RecordSafe ==
  \A d \in Deliveries :
    /\ rec'[d].state \in Pending => rec'[d].kept /\ ~deleted'
    /\ up' => rec'[d].state # "Sending"
    /\ rec'[d].state = "HandedOff" => rec[d].state = "HandedOff" \/ TakenBy(d)
    /\ d \in Recorded =>
         /\ rec[d].state \notin Pending /\ rec'[d].state \in Pending
              => requests'[d] = requests[d] + 1
         /\ rec[d].state \in Final => rec'[d].state = rec[d].state

LEMMA BooksOf ==
  ASSUME Inv, NEW d \in Deliveries
  PROVE  /\ (rec[d].born = 0) <=> (requests[d] = 0)
         /\ rec[d].kept => rec[d].born # 0
         /\ rec[d].born = 0 => rec[d].state \notin Pending
         /\ rec[d].state \in Pending => rec[d].kept /\ ~deleted
         /\ up => rec[d].state # "Sending"
         /\ rec[d].state = "HandedOff" => TakenBy(d)
         /\ requests[d] \in Nat
  BY DEF Inv, OutboxInv, AttemptsInv, KnownRequests, NothingPendingIsLost, HandedOffWasDispatched, TakenBy,
         NoneSending, Recorded, TypeOK

LEMMA NothingHappens ==
  ASSUME Inv, UNCHANGED <<rec, requests, deleted>>, up' => up
  PROVE  RecordStep /\ RecordSafe
  BY BooksOf DEF RecordStep, Untouched, Bookkept, RecordSafe

LEMMA PutStep ==
  ASSUME Inv, NEW d \in Deliveries, NEW s \in States, NEW a \in {0, rec[d].attempt},
         rec' = Put(d, s, a), rec[d].kept, deleted' = deleted, up' => up, s # "Sending",
         \A e \in Deliveries : e # d => requests'[e] = requests[e],
         rec[d].state \in Final => s = rec[d].state,
         \/ /\ s \notin Pending /\ requests'[d] = requests[d]
            /\ s = "HandedOff" => TakenBy(d)
         \/ /\ s = "Waiting" /\ a = 0 /\ ~deleted /\ requests'[d] = requests[d]
            /\ rec[d].state \in {"Waiting", "Preparing"}
            /\ rec[d].state = "Preparing" => \A b \in Attempts : rec[d].attempt = b => ~Loaded(b)
         \/ s = "Waiting" /\ a = 0 /\ ~deleted /\ requests'[d] = requests[d] + 1
  PROVE  RecordStep /\ RecordSafe
<1>1. a \in Attempts \cup {0}
  BY RecordFields DEF Inv
<1>2. \A e \in Deliveries :
        /\ rec'[e].born = rec[e].born /\ rec'[e].kept = rec[e].kept
        /\ rec'[e].state = (IF e = d THEN s ELSE rec[e].state)
        /\ rec'[e].attempt = (IF e = d THEN a ELSE rec[e].attempt)
  BY <1>1, PutFields DEF Inv
<1>3. \A e \in Deliveries : Bookkept(e)
  BY <1>2, BooksOf DEF Bookkept
<1>4. {"Waiting", "Preparing"} \subseteq Pending
  BY DEF Pending
<1>5. \A e \in Deliveries : Untouched(e) \/ Concluded(e) \/ GivenBack(e) \/ AskedFor(e)
  <2>1. \A e \in Deliveries : e # d => Untouched(e)
    BY <1>2 DEF Untouched
  <2>2. Concluded(d) \/ GivenBack(d) \/ AskedFor(d)
    BY <1>2, <1>4 DEF Concluded, GivenBack, AskedFor
  <2> QED  BY <2>1, <2>2
<1>6. \A e \in Deliveries : e # d =>
        /\ rec'[e].state \in Pending => rec'[e].kept /\ ~deleted'
        /\ up' => rec'[e].state # "Sending"
        /\ rec'[e].state = rec[e].state
  BY <1>2, BooksOf
<1>7. /\ rec'[d].state \in Pending => rec'[d].kept /\ ~deleted'
      /\ up' => rec'[d].state # "Sending"
      /\ rec'[d].state = "HandedOff" => rec[d].state = "HandedOff" \/ TakenBy(d)
      /\ rec[d].state \notin Pending /\ rec'[d].state \in Pending => requests'[d] = requests[d] + 1
      /\ rec[d].state \in Final => rec'[d].state = rec[d].state
  BY <1>2, <1>4
<1> QED  BY <1>3, <1>5, <1>6, <1>7 DEF RecordStep, RecordSafe

(* The user's steps, and the restart. *)
LEMMA BirthStep ==
  ASSUME Inv, NEW d \in Deliveries, RecordEvent(d)
  PROVE  RecordStep /\ RecordSafe
<1>1. TypeOK
  BY DEF Inv
<1>2. /\ rec'[d].born # 0 /\ rec'[d].kept /\ rec'[d].state \in {"Waiting", "Failed"}
      /\ rec'[d].attempt = 0
      /\ \A e \in Deliveries \ {d} :
           /\ rec'[e].born = rec[e].born /\ rec'[e].kept = (rec[e].kept /\ Retained(e))
           /\ rec'[e].state = rec[e].state /\ rec'[e].attempt = rec[e].attempt
  BY <1>1, BirthTyped
<1>3. /\ rec[d].born = 0 /\ ~deleted /\ ~deleted'
      /\ up /\ requests'[d] = 1 /\ \A e \in Deliveries \ {d} : requests'[e] = requests[e]
  BY <1>1 DEF RecordEvent, Recorded, TypeOK
<1>4. requests[d] = 0
  BY <1>3, BooksOf
<1>5. ASSUME NEW e \in Deliveries \ {d}
      PROVE  /\ Untouched(e) /\ Bookkept(e)
             /\ rec'[e].state \in Pending => rec'[e].kept
             /\ rec'[e].state # "Sending"
  <2>1. Untouched(e)
    BY <1>2, <1>3 DEF Untouched
  <2>2. rec'[e].kept => rec[e].kept
    BY <1>2
  <2>3. rec[e].state \in Pending => Retained(e) /\ rec[e].kept
    BY BooksOf DEF Retained
  <2>4. rec'[e].state \in Pending => rec'[e].kept
    BY <1>2, <2>3
  <2>5. Bookkept(e)
    BY <1>2, <1>3, <2>2, BooksOf DEF Bookkept
  <2> QED  BY <1>2, <1>3, <2>1, <2>4, <2>5, BooksOf
<1>6. AskedFor(d) /\ Bookkept(d) /\ d \notin Recorded
  BY <1>2, <1>3, <1>4 DEF AskedFor, Bookkept, Recorded
<1> QED  BY <1>2, <1>3, <1>5, <1>6 DEF RecordStep, RecordSafe

LEMMA OperateStep ==
  ASSUME Inv, NEW d \in Deliveries, Cancel(d) \/ Retry(d) \/ Resend(d)
  PROVE  RecordStep /\ RecordSafe
<1>0. /\ "Cancelled" \in States /\ "Waiting" \in States
      /\ "Cancelled" \notin Pending /\ "Sending" \in Pending /\ TypeOK
  BY DEF States, Pending, Inv
<1>1. Reaches(d, 0) /\ deleted' = deleted /\ up' = up /\ rec[d].kept
  BY DEF Cancel, Retry, Resend, Reaches
<1>2. CASE Cancel(d)
  <2>1. rec' = Put(d, "Cancelled", 0) /\ requests' = requests /\ (rec[d].state \in Final => rec[d].state = "Cancelled")
    BY <1>2 DEF Cancel, requestVars, Final
  <2> QED  BY <1>0, <1>1, <2>1, PutStep
<1>3. CASE Retry(d) \/ Resend(d)
  <2>1. /\ rec' = Put(d, "Waiting", 0)
        /\ rec[d].state \in {"Failed", "Waiting", "Suppressed", "Unknown", "Partial"}
        /\ requests' = [requests EXCEPT ![d] = @ + 1]
    BY <1>3 DEF Retry, Resend
  <2>2. ~deleted
    BY <1>1, <2>1 DEF Reaches
  <2>3. /\ requests'[d] = requests[d] + 1
        /\ \A e \in Deliveries : e # d => requests'[e] = requests[e]
    BY <1>0, <2>1 DEF TypeOK
  <2>4. rec[d].state \notin Final
    BY <2>1 DEF Final
  <2> QED  BY <1>0, <1>1, <2>1, <2>2, <2>3, <2>4, PutStep
<1> QED  BY <1>2, <1>3

LEMMA DeleteStep ==
  ASSUME Inv, DeleteTask
  PROVE  RecordStep /\ RecordSafe
<1>1. TypeOK
  BY DEF Inv
<1>2. requests' = requests /\ up
  BY DEF DeleteTask, requestVars
<1>3. ASSUME NEW e \in Deliveries
      PROVE  /\ rec'[e].born = rec[e].born /\ rec'[e].kept = rec[e].kept
             /\ \/ /\ rec[e].kept /\ rec[e].state \in Pending
                   /\ rec'[e].state = "Cancelled" /\ rec'[e].attempt = 0
                \/ /\ rec'[e].state = rec[e].state /\ rec'[e].attempt = rec[e].attempt
                   /\ rec[e].state \notin Pending
  <2>1. rec[e].state \in Pending => rec[e].kept /\ rec[e].state \in Pending \ {"Sending"}
    BY <1>2, BooksOf
  <2> QED  BY <1>1, <2>1, CancelledTyped
<1>4. "Cancelled" \notin Pending /\ "Sending" \in Pending /\ Final \cap Pending = {}
  BY DEF Pending, Final
<1>5. ASSUME NEW e \in Deliveries
      PROVE  /\ Untouched(e) \/ Concluded(e)
             /\ Bookkept(e)
             /\ rec'[e].state \notin Pending /\ rec'[e].state # "Sending"
             /\ rec'[e].state = "HandedOff" => rec[e].state = "HandedOff"
             /\ rec[e].state \in Final => rec'[e].state = rec[e].state
  BY <1>2, <1>3, <1>4, BooksOf DEF Untouched, Concluded, Bookkept
<1> QED  BY <1>5 DEF RecordStep, RecordSafe

LEMMA StartStep ==
  ASSUME Inv, Start
  PROVE  RecordStep /\ RecordSafe
<1>1. TypeOK
  BY DEF Inv
<1>2. requests' = requests /\ deleted' = deleted
  BY DEF Start, requestVars
<1>3. ASSUME NEW e \in Deliveries
      PROVE  /\ rec'[e].born = rec[e].born /\ rec'[e].kept = rec[e].kept
             /\ \/ /\ ~rec[e].kept
                   /\ rec'[e].state = rec[e].state /\ rec'[e].attempt = rec[e].attempt
                \/ /\ rec[e].state \in {"Preparing", "Sending"}
                   /\ rec'[e].state = "Unknown" /\ rec'[e].attempt = rec[e].attempt
                \/ rec[e].state = "Prepared" /\ rec'[e].state = "Waiting" /\ rec'[e].attempt = 0
                \/ /\ rec[e].state \notin {"Preparing", "Sending", "Prepared"}
                   /\ rec'[e].state = rec[e].state /\ rec'[e].attempt = 0
  BY <1>1, RecoveredTyped
<1>4. "Unknown" \notin Pending /\ Final \cap Pending = {} /\ "Waiting" \in Pending
      /\ {"Preparing", "Sending", "Prepared"} \subseteq Pending
  BY DEF Pending, Final
<1>5. ASSUME NEW e \in Deliveries
      PROVE  Untouched(e) \/ Concluded(e) \/ GivenBack(e)
  BY <1>2, <1>3, <1>4 DEF Untouched, Concluded, GivenBack
<1>6. ASSUME NEW e \in Deliveries
      PROVE  /\ Bookkept(e)
             /\ rec'[e].state \in Pending => rec[e].state \in Pending
             /\ rec'[e].state \in Pending => rec'[e].kept /\ ~deleted'
             /\ rec'[e].state # "Sending"
             /\ rec'[e].state = "HandedOff" => rec[e].state = "HandedOff"
             /\ rec[e].state \in Final => rec'[e].state = rec[e].state
  <2>1. rec'[e].state \in Pending => rec[e].state \in Pending
    BY <1>3, <1>4
  <2>2. rec'[e].state \in Pending => rec'[e].kept /\ ~deleted'
    BY <1>2, <1>3, <2>1, BooksOf
  <2>3. Bookkept(e)
    BY <1>2, <1>3, <2>1, BooksOf DEF Bookkept
  <2>4. /\ rec'[e].state = "HandedOff" => rec[e].state = "HandedOff"
        /\ rec[e].state \in Final => rec'[e].state = rec[e].state
    BY <1>3, <1>4
  <2>5. rec'[e].state # "Sending"
    BY <1>3, <1>4, BooksOf
  <2> QED  BY <2>1, <2>2, <2>3, <2>4, <2>5
<1> QED  BY <1>5, <1>6 DEF RecordStep, RecordSafe

(* The worker's conclusions and timeouts, and the receipt.                 *)
LEMMA OpenIsNewest ==
  ASSUME Inv, worker.step # "scan"
  PROVE  /\ worker.attempt \in Attempts /\ worker.attempt = lastAttempt
         /\ Open.delivery \in Deliveries
         /\ offers[worker.attempt].stage = "claimed" <=> worker.step \in {"claimed", "posting"}
  BY OpenFields DEF Inv, OutboxInv, AttemptsInv, WorkerOpen

LEMMA ConcludeStep ==
  ASSUME Inv, GiveUp \/ PostRefused \/ AnswerFailed \/ AnswerUnconfirmed
  PROVE  RecordStep /\ RecordSafe
<1>1. /\ worker.step # "scan" /\ TypeOK
      /\ UNCHANGED <<up, deleted, requests, resends, lastAttempt, todo, offers, bound>>
      /\ \/ rec' = rec
         \/ \E s \in {"Waiting", "Failed", "Unknown"} :
              /\ rec' = Put(Open.delivery, s, 0)
              /\ s = "Waiting" => worker.step = "claimed"
              /\ Reaches(Open.delivery, worker.attempt)
              /\ rec[Open.delivery].state \in {"Waiting", "Preparing"}
  BY Concluding DEF Inv, OutboxInv, AttemptsInv
<1>2. CASE rec' = rec
  BY <1>1, <1>2, NothingHappens
<1>3. ASSUME NEW s \in {"Waiting", "Failed", "Unknown"},
             rec' = Put(Open.delivery, s, 0), s = "Waiting" => worker.step = "claimed",
             Reaches(Open.delivery, worker.attempt),
             rec[Open.delivery].state \in {"Waiting", "Preparing"}
      PROVE  RecordStep /\ RecordSafe
  <2> DEFINE d == Open.delivery
             w == worker.attempt
  <2>1. /\ d \in Deliveries /\ w \in Attempts /\ 0 \notin Attempts
        /\ rec[d].kept /\ rec[d].attempt = w
        /\ {"Waiting", "Failed", "Unknown"} \subseteq States
        /\ {"Failed", "Unknown"} \cap Pending = {} /\ "Sending" \notin {"Waiting", "Failed", "Unknown"}
        /\ {"Waiting", "Preparing"} \cap Final = {}
        /\ {"Waiting", "Preparing"} \subseteq Pending
    BY <1>1, <1>3, OpenIsNewest, AttemptFacts DEF Reaches, States, Pending, Final
  <2>2. ~deleted
    BY <1>3, <2>1, BooksOf
  <2>3. s = "Waiting" => ~Loaded(w)
    BY <1>1, <1>3, OpenIsNewest DEF Loaded
  <2> HIDE DEF d, w
  <2>4. rec' = Put(d, s, 0) /\ rec[d].state \in {"Waiting", "Preparing"}
    BY <1>3 DEF d
  <2>5. rec[d].state \notin Final /\ s # "Sending" /\ s \in States /\ s # "HandedOff"
    BY <2>1, <2>4, <1>3
  <2>6. CASE s = "Waiting"
    BY <1>1, <2>1, <2>2, <2>3, <2>4, <2>5, <2>6, PutStep
  <2>7. CASE s # "Waiting"
    <3>1. s \notin Pending
      BY <2>1, <2>7, <1>3
    <3> QED  BY <1>1, <2>1, <2>4, <2>5, <3>1, PutStep
  <2> QED  BY <2>6, <2>7
<1> QED  BY <1>1, <1>2, <1>3

LEMMA TimeOutStep ==
  ASSUME Inv, NEW r \in todo, TimeOut(r)
  PROVE  RecordStep /\ RecordSafe
<1> DEFINE d == r.delivery
           s == IF r.state = "Preparing" THEN "Unknown" ELSE "Waiting"
<1>1. /\ TypeOK /\ d \in Deliveries /\ r.attempt \in Attempts /\ r.attempt # 0
      /\ r.state \in {"Waiting", "Preparing"}
      /\ UNCHANGED <<up, deleted, requests>>
      /\ \/ rec' = rec
         \/ /\ rec' = Put(d, s, 0) /\ Reaches(d, r.attempt)
            /\ \/ rec[d].state = r.state
               \/ r.state = "Waiting" /\ rec[d].state = "Preparing"
  BY TimeOutEffect, AttemptFacts DEF Inv
<1>2. CASE rec' = rec
  BY <1>1, <1>2, NothingHappens
<1>3. ASSUME rec' # rec
      PROVE  RecordStep /\ RecordSafe
  <2>1. /\ rec' = Put(d, s, 0) /\ rec[d].kept /\ rec[d].attempt = r.attempt
        /\ \/ rec[d].state = r.state
           \/ r.state = "Waiting" /\ rec[d].state = "Preparing"
    BY <1>1, <1>3 DEF Reaches
  <2>2. /\ s \in States /\ s # "Sending" /\ s # "HandedOff"
        /\ "Unknown" \notin Pending /\ {"Waiting", "Preparing"} \subseteq Pending
        /\ rec[d].state \notin Final
    BY <1>1, <2>1 DEF States, Pending, Final
  <2>3. ~deleted
    BY <1>1, <2>1, <2>2, BooksOf
  <2>4. r.state = "Waiting" => rec[d].state = "Waiting"
    BY <1>1, <2>1 DEF Inv, OutboxInv, AttemptsInv, LeftBehind
  <2>5. CASE r.state = "Preparing"
    <3>1. s \notin Pending
      BY <2>2, <2>5
    <3> QED  BY <1>1, <2>1, <2>2, <3>1, PutStep
  <2>6. CASE r.state = "Waiting"
    <3>1. s = "Waiting" /\ rec[d].state = "Waiting"
      BY <2>4, <2>6
    <3> QED  BY <1>1, <2>1, <2>2, <2>3, <3>1, PutStep
  <2> QED  BY <1>1, <2>5, <2>6
<1> QED  BY <1>2, <1>3

LEMMA SettleStep ==
  ASSUME Inv, NEW a \in Attempts, Settle(a)
  PROVE  RecordStep /\ RecordSafe
<1> DEFINE d == offers[a].delivery
<1>1. /\ TypeOK /\ d \in Deliveries /\ rec[d].state = "Preparing" /\ rec[d].attempt = a
      /\ Reaches(d, a)
      /\ \/ offers[a].receipt = "handed-off" /\ rec' = Put(d, "HandedOff", 0)
         \/ /\ offers[a].receipt \in {"binding_changed", "offline"}
            /\ rec' = Put(d, "Waiting", 0)
         \/ rec' = Put(d, "Unknown", a)
         \/ rec' = Put(d, "Failed", 0)
  BY SettledEffect DEF Inv
<1>2. UNCHANGED <<up, deleted, requests>>
  BY DEF Settle, requestVars
<1>3. /\ {"HandedOff", "Waiting", "Unknown", "Failed"} \subseteq States
      /\ {"HandedOff", "Unknown", "Failed"} \cap Pending = {}
      /\ "Preparing" \notin Final /\ "Preparing" \in Pending
  BY DEF States, Pending, Final
<1>4. rec[d].kept /\ ~deleted
  BY <1>1, <1>3, BooksOf
<1>5. offers[a].receipt = "handed-off" => TakenBy(d)
  BY DEF Inv, OutboxInv, AttemptsInv, ReceiptIsTrue, TakenBy, Dispatched
<1>6. offers[a].receipt \in {"binding_changed", "offline"} => ~Loaded(a)
  BY DEF Inv, OutboxInv, AttemptsInv, ReceiptIsTrue, Loaded
<1> HIDE DEF d
<1>7. CASE rec' = Put(d, "HandedOff", 0) /\ offers[a].receipt = "handed-off"
  BY <1>1, <1>2, <1>3, <1>4, <1>5, <1>7, PutStep
<1>8. CASE rec' = Put(d, "Waiting", 0) /\ offers[a].receipt \in {"binding_changed", "offline"}
  BY <1>1, <1>2, <1>3, <1>4, <1>6, <1>8, PutStep
<1>9. CASE rec' = Put(d, "Unknown", a)
  BY <1>1, <1>2, <1>3, <1>4, <1>9, PutStep
<1>10. CASE rec' = Put(d, "Failed", 0)
  BY <1>1, <1>2, <1>3, <1>4, <1>10, PutStep
<1> QED  BY <1>1, <1>7, <1>8, <1>9, <1>10

-----------------------------------------------------------------------------
(* The steps of the Session, and those by which the worker opens an        *)
(* attempt.                                                                *)

(* An attempt the record has open is the only one loaded for its request.  *)
LEMMA CurrentIsAlone ==
  ASSUME TypeOK, AttemptsInv, NEW a \in Attempts, Current(a), NEW b \in Attempts,
         Loaded(b), offers[b].delivery = offers[a].delivery,
         offers[b].request = offers[a].request
  PROVE  a = b
<1> DEFINE d == offers[a].delivery
<1>1. d \in Deliveries /\ rec[d].state = "Preparing" /\ rec[d].attempt = a
  BY OfferFields DEF Current
<1>2. offers[a].request = requests[d]
  BY <1>1 DEF AttemptsInv, OpenAttempt
<1>3. \/ rec[d].state = "Preparing" /\ rec[d].attempt = b
      \/ rec[d].state \notin Pending
  BY <1>2 DEF AttemptsInv, LoadedHoldsRecord
<1> QED  BY <1>1, <1>3 DEF Pending

(* Offers that move on, but for new loads only by what their record says.  *)
LEMMA OffersKeep ==
  ASSUME TypeOK, AttemptsInv, UNCHANGED <<rec, requests, lastAttempt, worker, todo>>,
         NEW a \in Attempts,
         \A b \in Attempts :
           /\ offers'[b].delivery = offers[b].delivery
           /\ offers'[b].request = offers[b].request
           /\ offers'[b].session = offers[b].session
           /\ \/ offers'[b].stage = offers[b].stage
              \/ /\ offers[b].stage \notin {"none", "claimed"}
                 /\ offers'[b].stage \notin {"none", "claimed"}
           /\ Loaded(b)' => Loaded(b) \/ (b = a /\ Current(a)),
         ReceiptIsTrue'
  PROVE  AttemptsInv'
<1>1. WorkerOpen' /\ KnownAttempts'
  BY DEF AttemptsInv, WorkerOpen, KnownAttempts
<1>2. KnownRequests' /\ OpenAttempt' /\ LeftBehind'
  BY DEF AttemptsInv, KnownRequests, OpenAttempt, LeftBehind
<1>3. LoadedHoldsRecord'
  <2> SUFFICES ASSUME NEW b \in Attempts, Loaded(b)',
                      offers[b].request = requests[offers[b].delivery]
               PROVE  \/ rec[offers[b].delivery].state = "Preparing" /\ rec[offers[b].delivery].attempt = b
                      \/ rec[offers[b].delivery].state \notin Pending
    BY DEF LoadedHoldsRecord
  <2>1. CASE Loaded(b)
    BY <2>1 DEF AttemptsInv, LoadedHoldsRecord
  <2>2. CASE b = a /\ Current(a)
    BY <2>2 DEF Current
  <2> QED  BY <2>1, <2>2
<1>4. LoadedOnce'
  <2> SUFFICES ASSUME NEW b \in Attempts, NEW c \in Attempts, Loaded(b)', Loaded(c)',
                      offers[b].delivery = offers[c].delivery,
                      offers[b].request = offers[c].request
               PROVE  b = c
    BY DEF LoadedOnce
  <2>1. CASE Loaded(b) /\ Loaded(c)
    BY <2>1 DEF AttemptsInv, LoadedOnce
  <2>2. CASE ~Loaded(b)
    BY <2>2, CurrentIsAlone
  <2>3. CASE ~Loaded(c)
    BY <2>3, CurrentIsAlone
  <2> QED  BY <2>1, <2>2, <2>3
<1> QED  BY <1>1, <1>2, <1>3, <1>4 DEF AttemptsInv

LEMMA OfferStepKeeps ==
  ASSUME Inv, NEW a \in Attempts,
         \/ Admit(a) \/ Refuse(a) \/ RecordSame(a) \/ Enqueue(a)
         \/ Clear(a) \/ Reject(a) \/ Dispatch(a)
  PROVE  AttemptsInv' /\ RecordSafe
<1>1. TypeOK /\ AttemptsInv
  BY DEF Inv, OutboxInv
<1>2. UNCHANGED <<up, deleted, rec, requests, lastAttempt, worker, todo>>
  BY OfferSilent
<1>3. offers[a].stage \notin {"none", "claimed", "dispatched"}
  BY <1>1, OfferMoves
<1>4. PICK stage \in Stages, receipt \in Outcomes \cup {"none"} :
        /\ Moves(a, stage, receipt)
        /\ stage \notin {"none", "claimed"}
        /\ receipt \in {"binding_changed", "offline"} => stage = "closed"
        /\ receipt = "handed-off" => stage = "dispatched"
        /\ \/ stage \in {"closed", "queued"}
           \/ stage = "dispatched" /\ Loaded(a)
           \/ stage \in {"admitted", "cleared"} /\ Current(a)
  BY <1>1, OfferMoves
<1>5. offers[a].stage # "closed" => offers[a].receipt \notin {"binding_changed", "offline"}
  BY <1>1 DEF AttemptsInv, ReceiptIsTrue
<1>6. offers[a].receipt # "handed-off"
  BY <1>1, <1>3 DEF AttemptsInv, ReceiptIsTrue
<1>7. offers[a].stage # "closed"
  BY DEF Admit, Refuse, RecordSame, Enqueue, Clear, Reject, Dispatch, Turn
<1>8. ReceiptIsTrue'
  BY <1>1, <1>4, <1>5, <1>6, <1>7 DEF AttemptsInv, ReceiptIsTrue, Moves
<1>9. \A b \in Attempts :
        /\ offers'[b].delivery = offers[b].delivery
        /\ offers'[b].request = offers[b].request
        /\ offers'[b].session = offers[b].session
        /\ \/ offers'[b].stage = offers[b].stage
           \/ /\ offers[b].stage \notin {"none", "claimed"}
              /\ offers'[b].stage \notin {"none", "claimed"}
        /\ Loaded(b)' => Loaded(b) \/ (b = a /\ Current(a))
  <2> SUFFICES ASSUME NEW b \in Attempts
               PROVE  /\ offers'[b].delivery = offers[b].delivery
                      /\ offers'[b].request = offers[b].request
                      /\ offers'[b].session = offers[b].session
                      /\ \/ offers'[b].stage = offers[b].stage
                         \/ /\ offers[b].stage \notin {"none", "claimed"}
                            /\ offers'[b].stage \notin {"none", "claimed"}
                      /\ Loaded(b)' => Loaded(b) \/ (b = a /\ Current(a))
    OBVIOUS
  <2>1. /\ offers'[b].delivery = offers[b].delivery
        /\ offers'[b].request = offers[b].request
        /\ offers'[b].session = offers[b].session
        /\ offers'[b].stage = IF b = a THEN stage ELSE offers[b].stage
    BY <1>4 DEF Moves
  <2>2. SameSession(b)' <=> SameSession(b)
    BY <2>1 DEF SameSession
  <2>3. b # a => (Loaded(b)' <=> Loaded(b))
    BY <2>1, <2>2 DEF Loaded
  <2>4. b = a => (Loaded(a)' => Loaded(a) \/ Current(a))
    BY <1>4, <2>1 DEF Loaded
  <2> QED  BY <1>3, <1>4, <2>1, <2>3, <2>4
<1>10. AttemptsInv'
  BY <1>1, <1>2, <1>8, <1>9, OffersKeep
<1> QED  BY <1>2, <1>10, NothingHappens

LEMMA DeathKeeps ==
  ASSUME Inv, NEW s \in Sessions, SessionDies(s)
  PROVE  AttemptsInv' /\ RecordSafe
<1>1. TypeOK /\ AttemptsInv
  BY DEF Inv, OutboxInv
<1>2. UNCHANGED <<up, deleted, rec, requests, lastAttempt, worker, todo>>
  BY DEF SessionDies, Silent, storeVars, requestVars, workerVars
<1>3. PICK a \in Attempts : TRUE
  BY DEF SessionDies
<1>4. Died(s)
  BY <1>1, SessionDiesTyped
<1>5. ReceiptIsTrue'
  BY <1>1, <1>4 DEF AttemptsInv, ReceiptIsTrue, Died
<1>6. \A b \in Attempts :
        /\ offers'[b].delivery = offers[b].delivery
        /\ offers'[b].request = offers[b].request
        /\ offers'[b].session = offers[b].session
        /\ \/ offers'[b].stage = offers[b].stage
           \/ /\ offers[b].stage \notin {"none", "claimed"}
              /\ offers'[b].stage \notin {"none", "claimed"}
        /\ Loaded(b)' => Loaded(b) \/ (b = a /\ Current(a))
  <2> SUFFICES ASSUME NEW b \in Attempts
               PROVE  /\ offers'[b].delivery = offers[b].delivery
                      /\ offers'[b].request = offers[b].request
                      /\ offers'[b].session = offers[b].session
                      /\ \/ offers'[b].stage = offers[b].stage
                         \/ /\ offers[b].stage \notin {"none", "claimed"}
                            /\ offers'[b].stage \notin {"none", "claimed"}
                      /\ Loaded(b)' => Loaded(b)
    OBVIOUS
  <2>1. SameSession(b)' <=> SameSession(b)
    BY <1>4 DEF Died, SameSession
  <2>2. Loaded(b)' => Loaded(b)
    BY <1>4, <2>1 DEF Died, Loaded
  <2> QED  BY <1>4, <2>2 DEF Died
<1>7. AttemptsInv'
  BY <1>1, <1>2, <1>5, <1>6, OffersKeep
<1> QED  BY <1>2, <1>7, NothingHappens

LEMMA TickKeeps ==
  ASSUME Inv, Tick
  PROVE  AttemptsInv' /\ RecordSafe
<1> USE AttemptFacts
<1>1. /\ TypeOK /\ AttemptsInv /\ worker.step = "scan"
      /\ UNCHANGED <<up, deleted, rec, requests, lastAttempt, worker, offers>>
  BY DEF Inv, OutboxInv, Tick, storeVars, requestVars
<1>2. ASSUME NEW r \in todo'
      PROVE  \E d \in Deliveries :
               r.delivery = d /\ r.state = rec[d].state /\ r.attempt = rec[d].attempt
  BY <1>2 DEF Tick, Kept
<1>3. KnownAttempts'
  BY <1>1, <1>2 DEF AttemptsInv, KnownAttempts
<1>4. LeftBehind'
  BY <1>1, <1>2 DEF AttemptsInv, LeftBehind, WorkerOpen
<1>5. /\ WorkerOpen' /\ KnownRequests' /\ OpenAttempt' /\ ReceiptIsTrue'
      /\ LoadedHoldsRecord' /\ LoadedOnce'
  BY <1>1 DEF AttemptsInv, WorkerOpen, KnownRequests, OpenAttempt, ReceiptIsTrue,
     LoadedHoldsRecord, LoadedOnce, Loaded, SameSession
<1> QED  BY <1>1, <1>3, <1>4, <1>5, NothingHappens DEF AttemptsInv

LEMMA ClaimKeeps ==
  ASSUME Inv, NEW r \in todo, Claim(r)
  PROVE  AttemptsInv' /\ RecordSafe
<1> DEFINE d == r.delivery
           a == lastAttempt + 1
<1> USE AttemptFacts
<1>1. TypeOK /\ AttemptsInv
  BY DEF Inv, OutboxInv
<1>2. /\ d \in Deliveries /\ a \in Attempts
      /\ Reaches(d, 0) /\ rec[d].state = "Waiting" /\ rec[d].attempt = 0
      /\ rec' = Put(d, "Waiting", a)
      /\ lastAttempt' = a /\ worker' = [step |-> "claimed", attempt |-> a]
      /\ todo' = todo \ {r}
      /\ offers'[a].delivery = d /\ offers'[a].request = requests[d]
      /\ offers'[a].stage = "claimed" /\ offers'[a].receipt = "none"
      /\ \A b \in Attempts : b # a => offers'[b] = offers[b]
  BY <1>1, ClaimEffect
<1>3. UNCHANGED <<up, deleted, requests>> /\ "Waiting" \in States /\ "Waiting" \in Pending
  BY DEF Claim, requestVars, States, Pending
<1>4. \A e \in Deliveries :
        /\ rec'[e].born = rec[e].born /\ rec'[e].kept = rec[e].kept
        /\ rec'[e].state = rec[e].state
        /\ rec'[e].attempt = (IF e = d THEN a ELSE rec[e].attempt)
  BY <1>1, <1>2, <1>3, PutFields
<1>5. lastAttempt \in Nat /\ a \in Nat /\ a > lastAttempt
  BY <1>1 DEF TypeOK
<1>6. offers[a].stage = "none"
  BY <1>1, <1>2, <1>5 DEF AttemptsInv, KnownAttempts
<1> HIDE DEF d
<1>7. WorkerOpen'
  BY <1>2 DEF WorkerOpen
<1>8. KnownAttempts'
  <2>1. ASSUME NEW b \in Attempts
        PROVE  (offers'[b].stage = "none") <=> (b > a)
    BY <1>1, <1>2, <1>5 DEF AttemptsInv, KnownAttempts
  <2>2. ASSUME NEW e \in Deliveries
        PROVE  rec'[e].attempt <= a
    <3>1. rec[e].attempt \in Nat /\ rec[e].attempt <= lastAttempt
      BY <1>1, RecordFields DEF AttemptsInv, KnownAttempts
    <3>2. rec[e].attempt <= a
      BY <1>5, <3>1
    <3>3. rec'[e].attempt = a \/ rec'[e].attempt = rec[e].attempt
      BY <1>4
    <3> QED  BY <1>5, <3>2, <3>3
  <2>3. ASSUME NEW q \in todo'
        PROVE  q.attempt <= a
    <3>1. q \in todo /\ q.attempt \in Nat
      BY <1>1, <1>2 DEF TypeOK, Snapshot
    <3>2. q.attempt <= lastAttempt
      BY <1>1, <3>1 DEF AttemptsInv, KnownAttempts
    <3> QED  BY <1>5, <3>1, <3>2
  <2> QED  BY <1>2, <2>1, <2>2, <2>3 DEF KnownAttempts
<1>9. KnownRequests'
  <2>1. requests[d] \in Nat /\ requests[d] # 0
    BY <1>1, <1>2, BooksOf DEF Reaches
  <2>2. requests[d] \in 1 .. requests[d]
    BY <2>1
  <2>3. \A b \in Attempts : offers'[b].stage # "none" =>
          offers'[b].request \in 1 .. requests[offers'[b].delivery]
    BY <1>1, <1>2, <2>2 DEF AttemptsInv, KnownRequests
  <2>4. \A e \in Deliveries :
          /\ (rec'[e].born = 0) <=> (requests[e] = 0)
          /\ rec'[e].kept => rec'[e].born # 0
          /\ rec'[e].born = 0 => rec'[e].state \notin Pending
    BY <1>4, BooksOf
  <2> QED  BY <1>3, <2>3, <2>4 DEF KnownRequests
<1>10. OpenAttempt'
  <2> SUFFICES ASSUME NEW e \in Deliveries, NEW b \in Attempts,
                      rec[e].state \in {"Waiting", "Preparing"}, rec'[e].attempt = b
               PROVE  offers'[b].delivery = e /\ offers'[b].request = requests[e]
    BY <1>3, <1>4 DEF OpenAttempt
  <2>1. CASE e = d
    BY <1>2, <1>4, <2>1
  <2>2. CASE e # d
    <3>1. rec[e].attempt = b
      BY <1>4, <2>2
    <3>2. b # a
      BY <1>1, <1>5, <3>1 DEF AttemptsInv, KnownAttempts
    <3> QED  BY <1>1, <1>2, <3>1, <3>2 DEF AttemptsInv, OpenAttempt
  <2> QED  BY <2>1, <2>2
<1>11. LeftBehind'
  <2> SUFFICES ASSUME NEW q \in todo', q.state = "Waiting", q.attempt # 0
               PROVE  /\ q.attempt # a
                      /\ ~(rec'[q.delivery].state = "Preparing" /\ rec'[q.delivery].attempt = q.attempt)
    BY <1>2 DEF LeftBehind
  <2>1. q \in todo /\ q.attempt \in Nat /\ q.delivery \in Deliveries
    BY <1>1, <1>2 DEF TypeOK, Snapshot
  <2>2. q.attempt # a
    BY <1>1, <1>5, <2>1 DEF AttemptsInv, KnownAttempts
  <2>3. ~(rec[q.delivery].state = "Preparing" /\ rec[q.delivery].attempt = q.attempt)
    BY <1>1, <2>1 DEF AttemptsInv, LeftBehind
  <2> QED  BY <1>4, <2>1, <2>2, <2>3
<1>12. ReceiptIsTrue'
  BY <1>1, <1>2 DEF AttemptsInv, ReceiptIsTrue
<1>13. \A b \in Attempts : /\ Loaded(b)' => b # a /\ Loaded(b)
                           /\ b # a => offers'[b] = offers[b]
  BY <1>2 DEF Loaded, SameSession
<1>14. LoadedHoldsRecord'
  <2> SUFFICES ASSUME NEW b \in Attempts, Loaded(b), b # a,
                      offers[b].request = requests[offers[b].delivery]
               PROVE  \/ /\ rec'[offers[b].delivery].state = "Preparing"
                         /\ rec'[offers[b].delivery].attempt = b
                      \/ rec'[offers[b].delivery].state \notin Pending
    BY <1>3, <1>13 DEF LoadedHoldsRecord
  <2>1. offers[b].delivery \in Deliveries
    BY <1>1, OfferFields
  <2>2. \/ rec[offers[b].delivery].state = "Preparing" /\ rec[offers[b].delivery].attempt = b
        \/ rec[offers[b].delivery].state \notin Pending
    BY <1>1 DEF AttemptsInv, LoadedHoldsRecord
  <2>3. offers[b].delivery # d
    BY <1>2, <1>3, <2>2
  <2> QED  BY <1>4, <2>1, <2>2, <2>3
<1>15. LoadedOnce'
  BY <1>1, <1>13 DEF AttemptsInv, LoadedOnce
<1>16. RecordSafe
  BY <1>3, <1>4, BooksOf DEF RecordSafe
<1> QED
  BY <1>7, <1>8, <1>9, <1>10, <1>11, <1>12, <1>14, <1>15, <1>16 DEF AttemptsInv

LEMMA PrepareKeeps ==
  ASSUME Inv, Prepare
  PROVE  AttemptsInv' /\ RecordSafe
<1> DEFINE d == Open.delivery
           a == worker.attempt
<1> USE AttemptFacts
<1>1. TypeOK /\ AttemptsInv /\ worker.step = "claimed"
  BY DEF Inv, OutboxInv, Prepare
<1>2. /\ d \in Deliveries /\ a \in Attempts
      /\ Reaches(d, a) /\ rec[d].state = "Waiting"
      /\ rec' = Put(d, "Preparing", a)
      /\ worker' = [step |-> "posting", attempt |-> a]
      /\ \A b \in Attempts :
           /\ offers'[b].delivery = offers[b].delivery
           /\ offers'[b].request = offers[b].request
           /\ offers'[b].stage = offers[b].stage
           /\ offers'[b].receipt = offers[b].receipt
           /\ b # a => offers'[b].session = offers[b].session
  BY <1>1, PrepareEffect DEF Prepare, AttemptsInv
<1>3. /\ UNCHANGED <<up, deleted, requests, lastAttempt, todo>>
      /\ "Preparing" \in States /\ {"Waiting", "Preparing"} \subseteq Pending
  BY DEF Prepare, requestVars, States, Pending
<1>4. \A e \in Deliveries :
        /\ rec'[e].born = rec[e].born /\ rec'[e].kept = rec[e].kept
        /\ rec'[e].state = (IF e = d THEN "Preparing" ELSE rec[e].state)
        /\ rec'[e].attempt = (IF e = d THEN a ELSE rec[e].attempt)
  BY <1>1, <1>2, <1>3, PutFields
<1>5. rec[d].attempt = a /\ a # 0 /\ a = lastAttempt /\ offers[a].stage = "claimed"
      /\ d = offers[a].delivery
  BY <1>1, <1>2 DEF Reaches, AttemptsInv, WorkerOpen, Open
<1> HIDE DEF d, a
<1>6. \A e \in Deliveries : rec'[e].attempt = rec[e].attempt
  BY <1>4, <1>5
<1>7. WorkerOpen'
  BY <1>2, <1>3, <1>5 DEF WorkerOpen
<1>8. KnownAttempts'
  BY <1>1, <1>2, <1>3, <1>6 DEF AttemptsInv, KnownAttempts
<1>9. KnownRequests'
  <2>1. \A e \in Deliveries :
          /\ (rec'[e].born = 0) <=> (requests[e] = 0)
          /\ rec'[e].kept => rec'[e].born # 0
          /\ rec'[e].born = 0 => rec'[e].state \notin Pending
    BY <1>2, <1>3, <1>4, BooksOf
  <2>2. \A b \in Attempts : offers'[b].stage # "none" =>
          offers'[b].request \in 1 .. requests[offers'[b].delivery]
    BY <1>1, <1>2 DEF AttemptsInv, KnownRequests
  <2> QED  BY <1>3, <2>1, <2>2 DEF KnownRequests
<1>10. OpenAttempt'
  <2> SUFFICES ASSUME NEW e \in Deliveries, NEW b \in Attempts,
                      rec'[e].state \in {"Waiting", "Preparing"}, rec[e].attempt = b
               PROVE  offers[b].delivery = e /\ offers[b].request = requests[e]
    BY <1>2, <1>3, <1>6 DEF OpenAttempt
  <2>1. rec[e].state \in {"Waiting", "Preparing"}
    BY <1>2, <1>4
  <2> QED  BY <1>1, <2>1 DEF AttemptsInv, OpenAttempt
<1>11. LeftBehind'
  <2> SUFFICES ASSUME NEW q \in todo, q.state = "Waiting", q.attempt # 0
               PROVE  /\ q.attempt # a
                      /\ ~(rec'[q.delivery].state = "Preparing" /\ rec'[q.delivery].attempt = q.attempt)
    BY <1>2, <1>3 DEF LeftBehind
  <2>1. q.delivery \in Deliveries
    BY <1>1 DEF TypeOK, Snapshot
  <2>2. q.attempt # a
    BY <1>1 DEF AttemptsInv, LeftBehind, a
  <2>3. ~(rec[q.delivery].state = "Preparing" /\ rec[q.delivery].attempt = q.attempt)
    BY <1>1 DEF AttemptsInv, LeftBehind
  <2> QED  BY <1>4, <1>5, <2>1, <2>2, <2>3
<1>12. ReceiptIsTrue'
  BY <1>1, <1>2 DEF AttemptsInv, ReceiptIsTrue
<1>13. \A b \in Attempts : Loaded(b)' => b # a /\ Loaded(b)
  <2> SUFFICES ASSUME NEW b \in Attempts, Loaded(b)' PROVE b # a /\ Loaded(b)
    OBVIOUS
  <2>1. b # a
    BY <1>2, <1>5 DEF Loaded
  <2>2. SameSession(b)' <=> SameSession(b)
    BY <1>2, <2>1 DEF SameSession
  <2> QED  BY <1>2, <2>1, <2>2 DEF Loaded
<1>14. LoadedHoldsRecord'
  <2> SUFFICES ASSUME NEW b \in Attempts, Loaded(b), b # a,
                      offers[b].request = requests[offers[b].delivery]
               PROVE  \/ /\ rec'[offers[b].delivery].state = "Preparing"
                         /\ rec'[offers[b].delivery].attempt = b
                      \/ rec'[offers[b].delivery].state \notin Pending
    BY <1>2, <1>3, <1>13 DEF LoadedHoldsRecord
  <2>1. offers[b].delivery \in Deliveries
    BY <1>1, OfferFields
  <2>2. \/ rec[offers[b].delivery].state = "Preparing" /\ rec[offers[b].delivery].attempt = b
        \/ rec[offers[b].delivery].state \notin Pending
    BY <1>1 DEF AttemptsInv, LoadedHoldsRecord
  <2>3. offers[b].delivery # d
    BY <1>2, <1>3, <2>2
  <2> QED  BY <1>4, <2>1, <2>2, <2>3
<1>15. LoadedOnce'
  BY <1>1, <1>2, <1>13 DEF AttemptsInv, LoadedOnce
<1>16. RecordSafe
  <2>1. rec[d].kept /\ ~deleted /\ rec[d].state \in Pending /\ rec[d].state \notin Final
    BY <1>2, <1>3, BooksOf DEF Final
  <2> QED  BY <1>2, <1>3, <1>4, <2>1, BooksOf DEF RecordSafe
<1> QED
  BY <1>7, <1>8, <1>9, <1>10, <1>11, <1>12, <1>14, <1>15, <1>16 DEF AttemptsInv

LEMMA PostKeeps ==
  ASSUME Inv, Post
  PROVE  AttemptsInv' /\ RecordSafe
<1> DEFINE a == worker.attempt
<1> USE AttemptFacts
<1>1. TypeOK /\ AttemptsInv /\ worker.step = "posting"
  BY DEF Inv, OutboxInv, Post
<1>2. /\ a \in Attempts /\ worker' = [step |-> "answer", attempt |-> a]
      /\ \A b \in Attempts :
           /\ offers'[b].delivery = offers[b].delivery
           /\ offers'[b].request = offers[b].request
           /\ offers'[b].session = offers[b].session
           /\ offers'[b].stage = IF b = a THEN "sent" ELSE offers[b].stage
           /\ offers'[b].receipt = offers[b].receipt
  BY <1>1, PostEffect DEF AttemptsInv
<1>3. UNCHANGED <<up, deleted, rec, requests, lastAttempt, todo>>
  BY DEF Post, storeVars, requestVars
<1>4. a = lastAttempt /\ offers[a].stage = "claimed"
  BY <1>1 DEF AttemptsInv, WorkerOpen
<1>5. WorkerOpen'
  BY <1>2, <1>3, <1>4 DEF WorkerOpen
<1>6. KnownAttempts'
  BY <1>1, <1>2, <1>3, <1>4 DEF AttemptsInv, KnownAttempts
<1>7. KnownRequests' /\ OpenAttempt' /\ LeftBehind'
  BY <1>1, <1>2, <1>3, <1>4 DEF AttemptsInv, KnownRequests, OpenAttempt, LeftBehind
<1>8. ReceiptIsTrue'
  BY <1>1, <1>2, <1>4 DEF AttemptsInv, ReceiptIsTrue
<1>9. \A b \in Attempts : Loaded(b)' <=> Loaded(b)
  BY <1>2, <1>4 DEF Loaded, SameSession
<1>10. LoadedHoldsRecord' /\ LoadedOnce'
  BY <1>1, <1>2, <1>3, <1>9 DEF AttemptsInv, LoadedHoldsRecord, LoadedOnce
<1> QED
  BY <1>3, <1>5, <1>6, <1>7, <1>8, <1>10, NothingHappens DEF AttemptsInv

LEMMA LostKeeps ==
  ASSUME Inv, NEW a \in Attempts, ReceiptLost(a)
  PROVE  AttemptsInv' /\ RecordSafe
<1>1. TypeOK /\ AttemptsInv
  BY DEF Inv, OutboxInv
<1>2. UNCHANGED <<up, deleted, rec, requests, lastAttempt, worker, todo>>
  BY OfferSilent
<1>3. \A b \in Attempts :
        /\ offers'[b].delivery = offers[b].delivery
        /\ offers'[b].request = offers[b].request
        /\ offers'[b].session = offers[b].session
        /\ offers'[b].stage = offers[b].stage
        /\ offers'[b].receipt = IF b = a THEN "gone" ELSE offers[b].receipt
  BY <1>1, SentTyped DEF ReceiptLost
<1>4. ReceiptIsTrue'
  BY <1>1, <1>3 DEF AttemptsInv, ReceiptIsTrue
<1>5. \A b \in Attempts : Loaded(b)' => Loaded(b)
  BY <1>3 DEF Loaded, SameSession
<1>6. AttemptsInv'
  BY <1>1, <1>2, <1>3, <1>4, <1>5, OffersKeep
<1> QED  BY <1>2, <1>6, NothingHappens

-----------------------------------------------------------------------------
(* Which attempts have reached a turn, before and after a step.            *)

SameTurns ==
  \A a \in Attempts :
    /\ Dispatched(a)' <=> Dispatched(a)
    /\ Dispatched(a) => /\ offers'[a].delivery = offers[a].delivery
                        /\ offers'[a].request = offers[a].request

NewTurn(a) ==
  /\ ~Dispatched(a) /\ Loaded(a)
  /\ \A b \in Attempts :
       /\ Dispatched(b)' <=> Dispatched(b) \/ b = a
       /\ offers'[b].delivery = offers[b].delivery
       /\ offers'[b].request = offers[b].request

LEMMA StepOfRecords ==
  ASSUME Inv,
         \/ \E d \in Deliveries : RecordEvent(d) \/ Cancel(d) \/ Retry(d) \/ Resend(d)
         \/ DeleteTask \/ Start \/ Crash \/ (\E s \in Sessions : Rebind(s))
         \/ (\E r \in todo : Pass(r) \/ TimeOut(r)) \/ Answered
         \/ GiveUp \/ PostRefused \/ AnswerFailed \/ AnswerUnconfirmed
  PROVE  /\ RecordStep /\ RecordSafe
         /\ offers' = offers /\ lastAttempt' = lastAttempt /\ todo' \subseteq todo
         /\ worker' = worker \/ worker' = Scanning
<1>1. TypeOK /\ WorkerOpen
  BY DEF Inv, OutboxInv, AttemptsInv
<1>2. CASE \E d \in Deliveries : RecordEvent(d)
  BY <1>2, BirthStep DEF RecordEvent, workerVars
<1>3. CASE \E d \in Deliveries : Cancel(d) \/ Retry(d) \/ Resend(d)
  BY <1>3, OperateStep DEF Cancel, Retry, Resend, workerVars
<1>4. CASE DeleteTask
  BY <1>4, DeleteStep DEF DeleteTask, workerVars
<1>5. CASE Start
  BY <1>5, StartStep DEF Start, workerVars
<1>6. CASE Crash \/ (\E s \in Sessions : Rebind(s)) \/ Answered \/ (\E r \in todo : Pass(r))
  BY <1>6, NothingHappens DEF Crash, Rebind, Answered, Pass, storeVars, requestVars, workerVars
<1>7. CASE \E r \in todo : TimeOut(r)
  BY <1>1, <1>7, TimeOutStep, TimeOutEffect
<1>8. CASE GiveUp \/ PostRefused \/ AnswerFailed \/ AnswerUnconfirmed
  BY <1>1, <1>8, ConcludeStep, Concluding
<1> QED  BY <1>2, <1>3, <1>4, <1>5, <1>6, <1>7, <1>8

LEMMA InvStep ==
  ASSUME Inv, [Next]_vars
  PROVE  AttemptsInv' /\ RecordSafe
<1>1. TypeOK /\ AttemptsInv /\ TypeOK'
  BY TypeStep DEF Inv, OutboxInv, AttemptsInv
<1>2. CASE UNCHANGED vars
  <2>1. /\ StagesKept /\ RecordStep /\ RecordSafe /\ ReceiptIsTrue' /\ lastAttempt' = lastAttempt
        /\ todo' = todo /\ worker' = worker
    BY <1>1, <1>2, NothingHappens DEF vars, storeVars, requestVars, workerVars, StagesKept,
       AttemptsInv, ReceiptIsTrue
  <2> QED  BY <1>1, <2>1, RecordStepKeeps
<1>3. CASE \/ \E d \in Deliveries : RecordEvent(d) \/ Cancel(d) \/ Retry(d) \/ Resend(d)
           \/ DeleteTask \/ Start \/ Crash \/ (\E s \in Sessions : Rebind(s))
           \/ (\E r \in todo : Pass(r) \/ TimeOut(r)) \/ Answered
           \/ GiveUp \/ PostRefused \/ AnswerFailed \/ AnswerUnconfirmed
  <2>1. /\ RecordStep /\ RecordSafe
        /\ offers' = offers /\ lastAttempt' = lastAttempt /\ todo' \subseteq todo
        /\ worker' = worker \/ worker' = Scanning
    BY <1>3, StepOfRecords
  <2>2. StagesKept /\ ReceiptIsTrue'
    BY <1>1, <2>1 DEF StagesKept, AttemptsInv, ReceiptIsTrue
  <2> QED  BY <1>1, <2>1, <2>2, RecordStepKeeps
<1>4. CASE \E a \in Attempts : Settle(a)
  <2>1. PICK a \in Attempts : Settle(a)
    BY <1>4
  <2>2. RecordStep /\ RecordSafe
    BY <2>1, SettleStep
  <2>3. StagesKept /\ ReceiptIsTrue'
    <3>1. \A b \in Attempts :
            /\ offers'[b].delivery = offers[b].delivery
            /\ offers'[b].request = offers[b].request
            /\ offers'[b].session = offers[b].session
            /\ offers'[b].stage = offers[b].stage
            /\ offers'[b].receipt = IF b = a THEN "gone" ELSE offers[b].receipt
      BY <1>1, <2>1, SentTyped DEF Settle
    <3> QED  BY <1>1, <3>1 DEF StagesKept, AttemptsInv, ReceiptIsTrue
  <2>4. lastAttempt' = lastAttempt /\ todo' = todo /\ worker' = worker
    BY <2>1 DEF Settle, workerVars
  <2> QED  BY <1>1, <2>2, <2>3, <2>4, RecordStepKeeps
<1>5. CASE Tick \/ (\E r \in todo : Claim(r)) \/ Prepare \/ Post
  BY <1>5, TickKeeps, ClaimKeeps, PrepareKeeps, PostKeeps
<1>6. CASE \/ \E a \in Attempts :
                \/ Admit(a) \/ Refuse(a) \/ RecordSame(a) \/ Enqueue(a)
                \/ Clear(a) \/ Reject(a) \/ Dispatch(a)
           \/ (\E a \in Attempts : ReceiptLost(a))
           \/ (\E s \in Sessions : SessionDies(s))
  BY <1>6, OfferStepKeeps, LostKeeps, DeathKeeps
<1> QED  BY <1>2, <1>3, <1>4, <1>5, <1>6, NextCases

(* A step leaves the turns there have been, but for the one it starts.     *)
LEMMA TurnStep ==
  ASSUME Inv, [Next]_vars
  PROVE  \/ SameTurns
         \/ requests' = requests /\ \E a \in Attempts : NewTurn(a)
<1>1. TypeOK /\ AttemptsInv /\ WorkerOpen
  BY DEF Inv, OutboxInv, AttemptsInv
<1>2. CASE offers' = offers
  BY <1>2 DEF SameTurns, Dispatched
<1>3. CASE \E r \in todo : Claim(r)
  <2>1. PICK r \in todo : Claim(r)
    BY <1>3
  <2> DEFINE a == lastAttempt + 1
  <2>2. /\ a \in Attempts /\ offers'[a].stage = "claimed"
        /\ \A b \in Attempts : b # a => offers'[b] = offers[b]
    BY <1>1, <2>1, ClaimEffect
  <2>3. lastAttempt \in Nat /\ a > lastAttempt
    BY <1>1, AttemptFacts DEF TypeOK
  <2>4. offers[a].stage = "none"
    BY <1>1, <2>2, <2>3 DEF AttemptsInv, KnownAttempts
  <2> HIDE DEF a
  <2> QED  BY <2>2, <2>4 DEF SameTurns, Dispatched
<1>4. CASE Prepare
  BY <1>1, <1>4, PrepareEffect DEF SameTurns, Dispatched
<1>5. CASE Post
  <2>1. offers[worker.attempt].stage = "claimed"
    BY <1>1, <1>5 DEF Post, WorkerOpen
  <2> QED  BY <1>1, <1>5, <2>1, PostEffect DEF SameTurns, Dispatched
<1>6. CASE \E a \in Attempts : ReceiptLost(a) \/ Settle(a)
  BY <1>1, <1>6, SentTyped DEF ReceiptLost, Settle, SameTurns, Dispatched
<1>7. CASE \E s \in Sessions : SessionDies(s)
  BY <1>1, <1>7, SessionDiesTyped DEF Died, SameTurns, Dispatched
<1>8. CASE \E a \in Attempts :
              \/ Admit(a) \/ Refuse(a) \/ RecordSame(a) \/ Enqueue(a)
              \/ Clear(a) \/ Reject(a) \/ Dispatch(a)
  <2>1. PICK a \in Attempts :
              \/ Admit(a) \/ Refuse(a) \/ RecordSame(a) \/ Enqueue(a)
              \/ Clear(a) \/ Reject(a) \/ Dispatch(a)
    BY <1>8
  <2>2. PICK stage \in Stages, receipt \in Outcomes \cup {"none"} :
          /\ Moves(a, stage, receipt)
          /\ \/ stage \in {"closed", "queued"}
             \/ stage = "dispatched" /\ Loaded(a)
             \/ stage \in {"admitted", "cleared"} /\ Current(a)
    BY <1>1, <2>1, OfferMoves
  <2>3. offers[a].stage # "dispatched"
    BY <1>1, <2>1, OfferMoves
  <2>4. requests' = requests
    BY <2>1, OfferSilent
  <2>5. CASE stage = "dispatched"
    BY <2>2, <2>3, <2>4, <2>5 DEF Moves, NewTurn, Dispatched
  <2>6. CASE stage # "dispatched"
    BY <2>2, <2>3, <2>6 DEF Moves, SameTurns, Dispatched
  <2> QED  BY <2>5, <2>6
<1>9. CASE UNCHANGED vars \/ Tick
  BY <1>2, <1>9 DEF vars, Tick
<1>10. CASE \/ \E d \in Deliveries : RecordEvent(d) \/ Cancel(d) \/ Retry(d) \/ Resend(d)
            \/ DeleteTask \/ Start \/ Crash \/ (\E s \in Sessions : Rebind(s))
            \/ (\E r \in todo : Pass(r) \/ TimeOut(r)) \/ Answered
            \/ GiveUp \/ PostRefused \/ AnswerFailed \/ AnswerUnconfirmed
  BY <1>2, <1>10, StepOfRecords
<1> QED
  BY <1>3, <1>4, <1>5, <1>6, <1>7, <1>8, <1>9, <1>10, NextCases

LEMMA InitInv == Init => Inv
<1> SUFFICES ASSUME Init PROVE Inv
  OBVIOUS
<1> USE AttemptFacts
<1>1. TypeOK
  BY InitTyped
<1>2. /\ up = FALSE /\ deleted = FALSE /\ lastAttempt = 0 /\ worker = Scanning /\ todo = {}
      /\ \A a \in Attempts : offers[a].stage = "none" /\ offers[a].receipt = "none"
  BY DEF Init, NoOffer
<1>3. PICK old \in [Deliveries -> Legacy \cup {"none"}] :
        /\ rec = [d \in Deliveries |->
                    IF old[d] = "none" THEN NoRecord
                    ELSE [born |-> 1, kept |-> TRUE, state |-> old[d],
                          attempt |-> 0, result |-> TRUE]]
        /\ requests = [d \in Deliveries |-> IF old[d] = "none" THEN 0 ELSE 1]
  BY DEF Init
<1>4. ASSUME NEW d \in Deliveries
      PROVE  /\ rec[d].attempt = 0 /\ rec[d].state # "HandedOff"
             /\ rec[d].state \notin {"Waiting", "Preparing"}
             /\ \/ /\ requests[d] = 0 /\ rec[d].born = 0 /\ ~rec[d].kept
                   /\ rec[d].state = "Cancelled"
                \/ requests[d] = 1 /\ rec[d].born = 1 /\ rec[d].kept
  <2>1. CASE old[d] = "none"
    BY <1>3, <2>1 DEF NoRecord
  <2>2. CASE old[d] # "none"
    <3>1. old[d] \in {"Prepared", "Sending", "Sent", "Suppressed", "Partial"}
      BY <2>2
    <3> QED  BY <1>3, <2>2, <3>1
  <2> QED  BY <2>1, <2>2
<1>5. "Cancelled" \notin Pending
  BY DEF Pending
<1>6. \A a \in Attempts : a > 0
  BY DEF Attempts
<1>7. WorkerOpen /\ KnownAttempts /\ ReceiptIsTrue /\ LeftBehind
  BY <1>2, <1>4, <1>6 DEF WorkerOpen, Scanning, KnownAttempts, ReceiptIsTrue, LeftBehind
<1>8. KnownRequests /\ OpenAttempt
  BY <1>2, <1>4, <1>5 DEF KnownRequests, OpenAttempt
<1>9. \A a \in Attempts : ~Loaded(a)
  BY <1>2 DEF Loaded
<1>10. LoadedHoldsRecord /\ LoadedOnce
  BY <1>9 DEF LoadedHoldsRecord, LoadedOnce
<1>11. NoneSending /\ HandedOffWasDispatched
  BY <1>2, <1>4 DEF NoneSending, HandedOffWasDispatched
<1>12. NothingPendingIsLost
  BY <1>2, <1>4, <1>5 DEF NothingPendingIsLost, Recorded
<1> QED
  BY <1>1, <1>7, <1>8, <1>10, <1>11, <1>12 DEF Inv, OutboxInv, AttemptsInv

LEMMA InvKept ==
  ASSUME Inv, [Next]_vars
  PROVE  Inv'
<1>1. TypeOK' /\ AttemptsInv' /\ RecordSafe
  BY TypeStep, InvStep DEF Inv, OutboxInv, AttemptsInv
<1>2. NoneSending' /\ NothingPendingIsLost'
  BY <1>1 DEF RecordSafe, NoneSending, NothingPendingIsLost, Recorded
<1>3. ASSUME NEW d \in Deliveries, TakenBy(d)
      PROVE  TakenBy(d)'
  <2>1. PICK a \in Attempts : Dispatched(a) /\ offers[a].delivery = d
    BY <1>3 DEF TakenBy
  <2>2. Dispatched(a)' /\ offers'[a].delivery = d
    BY <2>1, TurnStep DEF SameTurns, NewTurn
  <2> QED  BY <2>2 DEF TakenBy
<1>4. HandedOffWasDispatched'
  <2>1. \A d \in Deliveries : rec'[d].state = "HandedOff" => TakenBy(d)
    BY <1>1, BooksOf DEF RecordSafe
  <2> QED  BY <1>3, <2>1 DEF HandedOffWasDispatched, TakenBy
<1> QED  BY <1>1, <1>2, <1>4 DEF Inv, OutboxInv

(* Inv holds in every reachable state: its parts are what the other        *)
(* theorems draw on.                                                       *)
THEOREM InvHolds == Spec => []Inv
  BY InitInv, InvKept, PTL DEF Spec

(* The state has the types TypeOK gives it, whatever is lost, late or      *)
(* restarted.                                                              *)
THEOREM TypeCorrect == Spec => []TypeOK
<1>1. Inv => TypeOK
  BY DEF Inv
<1> QED  BY <1>1, InvHolds, PTL

(* The inductive invariant: what snapshots, claims, receipts and queued    *)
(* turns may rely on (notification.rs, notification_worker.rs).            *)
THEOREM Safety == Spec => []OutboxInv
<1>1. Inv => OutboxInv
  BY DEF Inv
<1> QED  BY <1>1, InvHolds, PTL

(* No two attempts that serve the same request of a result reach a turn.   *)
THEOREM Once == Spec => []OncePerRequest
<1>1. Inv => OncePerRequest
  BY DEF Inv, OutboxInv, AttemptsInv, LoadedOnce, Loaded, OncePerRequest, Dispatched
<1> QED  BY <1>1, InvHolds, PTL

(* What a record calls handed-off has been taken.                          *)
THEOREM HandedOff == Spec => []HandedOffWasDispatched
<1>1. Inv => HandedOffWasDispatched
  BY DEF Inv, OutboxInv
<1> QED  BY <1>1, InvHolds, PTL

(* Neither the retention limit nor a deletion loses a pending record.      *)
THEOREM NothingLost == Spec => []NothingPendingIsLost
<1>1. Inv => NothingPendingIsLost
  BY DEF Inv, OutboxInv
<1> QED  BY <1>1, InvHolds, PTL

(* No late receipt, stale snapshot or restart reopens a settled record.    *)
THEOREM SettledForGood == Spec => SettledStaysSettled
<1>1. ASSUME Inv, [Next]_vars
      PROVE  [\A d \in Recorded :
                /\ rec[d].state \notin Pending /\ rec'[d].state \in Pending
                     => requests'[d] = requests[d] + 1
                /\ rec[d].state \in {"HandedOff", "Sent", "Cancelled"}
                     => rec'[d].state = rec[d].state]_vars
  BY <1>1, InvStep DEF RecordSafe, Final, Recorded
<1> QED  BY <1>1, InvHolds, PTL DEF Spec, SettledStaysSettled

-----------------------------------------------------------------------------
(* A cancel is final.                                                      *)

(* The attempt has not passed its last guard, and its record is cancelled. *)
Doomed(a) ==
  /\ offers[a].stage \in {"claimed", "sent", "queued", "closed"}
  /\ rec[offers[a].delivery].state = "Cancelled"

LEMMA DoomedStep ==
  ASSUME NEW a \in Attempts, Inv, Doomed(a), [Next]_vars
  PROVE  Doomed(a)'
<1> DEFINE Dead == {"claimed", "sent", "queued", "closed"}
<1>1. TypeOK /\ AttemptsInv /\ WorkerOpen
  BY DEF Inv, OutboxInv, AttemptsInv
<1>2. offers[a].delivery \in Recorded
  <2>1. offers[a].delivery \in Deliveries /\ offers[a].stage # "none"
    BY <1>1, OfferFields DEF Doomed
  <2>2. offers[a].request \in 1 .. requests[offers[a].delivery]
    BY <1>1, <2>1 DEF AttemptsInv, KnownRequests
  <2>3. requests[offers[a].delivery] \in Nat
    BY <1>1, <2>1 DEF TypeOK
  <2>4. requests[offers[a].delivery] # 0
    BY <2>2, <2>3
  <2> QED  BY <1>1, <2>1, <2>4 DEF AttemptsInv, KnownRequests, Recorded
<1>3. rec'[offers[a].delivery].state = "Cancelled"
  BY <1>2, InvStep DEF RecordSafe, Final, Doomed, Recorded
<1>4. ~Current(a)
  BY DEF Doomed, Current
<1>5. SUFFICES offers'[a].delivery = offers[a].delivery /\ offers'[a].stage \in Dead
  BY <1>3 DEF Doomed
<1>6. CASE offers' = offers
  BY <1>6 DEF Doomed
<1>7. CASE \E r \in todo : Claim(r)
  <2>1. PICK r \in todo : Claim(r)
    BY <1>7
  <2>2. \A b \in Attempts : b # lastAttempt + 1 => offers'[b] = offers[b]
    BY <1>1, <2>1, ClaimEffect
  <2>3. a # lastAttempt + 1
    BY <1>1, AttemptFacts DEF TypeOK, AttemptsInv, KnownAttempts, Doomed
  <2> QED  BY <2>2, <2>3 DEF Doomed
<1>8. CASE Prepare
  BY <1>1, <1>8, PrepareEffect DEF Doomed
<1>9. CASE Post
  BY <1>1, <1>9, PostEffect DEF Doomed
<1>10. CASE \E b \in Attempts : ReceiptLost(b) \/ Settle(b)
  BY <1>1, <1>10, SentTyped DEF ReceiptLost, Settle, Doomed
<1>11. CASE \E s \in Sessions : SessionDies(s)
  BY <1>1, <1>11, SessionDiesTyped DEF Died, Doomed
<1>12. CASE \E b \in Attempts :
               \/ Admit(b) \/ Refuse(b) \/ RecordSame(b) \/ Enqueue(b)
               \/ Clear(b) \/ Reject(b) \/ Dispatch(b)
  <2>1. PICK b \in Attempts :
               \/ Admit(b) \/ Refuse(b) \/ RecordSame(b) \/ Enqueue(b)
               \/ Clear(b) \/ Reject(b) \/ Dispatch(b)
    BY <1>12
  <2>2. PICK stage \in Stages, receipt \in Outcomes \cup {"none"} :
          /\ Moves(b, stage, receipt)
          /\ \/ stage \in {"closed", "queued"}
             \/ stage = "dispatched" /\ Loaded(b)
             \/ stage \in {"admitted", "cleared"} /\ Current(b)
    BY <1>1, <2>1, OfferMoves
  <2>3. ~Loaded(a)
    BY DEF Loaded, Doomed
  <2> QED  BY <1>4, <2>2, <2>3 DEF Moves, Doomed
<1>13. CASE UNCHANGED vars \/ Tick
  BY <1>6, <1>13 DEF vars, Tick
<1>14. CASE \/ \E d \in Deliveries : RecordEvent(d) \/ Cancel(d) \/ Retry(d) \/ Resend(d)
            \/ DeleteTask \/ Start \/ Crash \/ (\E s \in Sessions : Rebind(s))
            \/ (\E r \in todo : Pass(r) \/ TimeOut(r)) \/ Answered
            \/ GiveUp \/ PostRefused \/ AnswerFailed \/ AnswerUnconfirmed
  BY <1>6, <1>14, StepOfRecords
<1> QED
  BY <1>7, <1>8, <1>9, <1>10, <1>11, <1>12, <1>13, <1>14, NextCases

LEMMA CancelledStays ==
  ASSUME NEW a \in Attempts
  PROVE  Spec => [](/\ offers[a].stage \in {"claimed", "sent", "queued"}
                    /\ rec[offers[a].delivery].state = "Cancelled"
                    => []~Dispatched(a))
<1>1. /\ offers[a].stage \in {"claimed", "sent", "queued"}
      /\ rec[offers[a].delivery].state = "Cancelled"
      => Doomed(a)
  BY DEF Doomed
<1>2. Inv /\ Doomed(a) /\ [Next]_vars => Doomed(a)'
  BY DoomedStep
<1>3. Doomed(a) => ~Dispatched(a)
  BY DEF Doomed, Dispatched
<1> QED  BY <1>1, <1>2, <1>3, InvHolds, PTL DEF Spec

(* A result that is cancelled, by the user or with its Task, before its    *)
(* attempt has passed the guard of its dispatch is never told, whatever    *)
(* the Session has queued and whatever arrives late.                       *)
THEOREM CancelFinal == Spec => CancelIsFinal
  BY CancelledStays DEF CancelIsFinal

-----------------------------------------------------------------------------
(* The outbox implements NotificationPromise.                              *)

(* The abstract variable served. *)
ServedOf(d) == {<<a, offers[a].request>> :
                  a \in {b \in Attempts : Dispatched(b) /\ offers[b].delivery = d}}
Served == [d \in Deliveries |-> ServedOf(d)]

LEMMA PromiseInit == Init => Promise!Init
<1> SUFFICES ASSUME Init PROVE Promise!Init
  OBVIOUS
<1>1. requests \in [Deliveries -> {0, 1}]
  BY DEF Init
<1>2. \A a \in Attempts : ~Dispatched(a)
  BY DEF Init, NoOffer, Dispatched
<1>3. Served = [d \in Deliveries |-> {}]
  BY <1>2 DEF Served, ServedOf
<1> QED  BY <1>1, <1>3 DEF Promise!Init, Served, ServedOf

LEMMA RequestsStep ==
  ASSUME Inv, Next
  PROVE  \/ requests' = requests
         \/ \E d \in Deliveries : requests' = [requests EXCEPT ![d] = @ + 1]
<1>1. CASE \E d \in Deliveries : RecordEvent(d)
  <2>1. PICK d \in Deliveries : RecordEvent(d)
    BY <1>1
  <2>2. requests[d] = 0 /\ requests' = [requests EXCEPT ![d] = 1]
    BY <2>1, BooksOf DEF RecordEvent, Recorded
  <2>3. requests[d] + 1 = 1
    BY <2>2
  <2>4. [requests EXCEPT ![d] = 1] = [requests EXCEPT ![d] = requests[d] + 1]
    BY <2>3
  <2>5. requests' = [requests EXCEPT ![d] = @ + 1]
    BY <2>2, <2>4
  <2> QED  BY <2>5
<1>2. CASE \E d \in Deliveries : Cancel(d) \/ Retry(d) \/ Resend(d)
  BY <1>2 DEF Cancel, Retry, Resend, requestVars
<1>3. CASE DeleteTask \/ Start \/ Crash \/ (\E s \in Sessions : Rebind(s)) \/ Tick
             \/ (\E r \in todo : Pass(r) \/ TimeOut(r) \/ Claim(r)) \/ Prepare \/ Post \/ Answered
  BY <1>3 DEF DeleteTask, Start, Crash, Rebind, Tick, Pass, TimeOut, Claim, Prepare, Post,
     Answered, requestVars
<1>4. CASE GiveUp \/ PostRefused \/ AnswerFailed \/ AnswerUnconfirmed
  BY <1>4 DEF GiveUp, PostRefused, AnswerFailed, AnswerUnconfirmed, requestVars
<1>5. CASE \/ \E a \in Attempts :
                \/ Admit(a) \/ Refuse(a) \/ RecordSame(a) \/ Enqueue(a)
                \/ Clear(a) \/ Reject(a) \/ Dispatch(a)
           \/ (\E a \in Attempts : ReceiptLost(a))
  BY <1>5, OfferSilent
<1>6. CASE (\E a \in Attempts : Settle(a)) \/ (\E s \in Sessions : SessionDies(s))
  BY <1>6 DEF Settle, SessionDies, Silent, requestVars
<1> QED  BY <1>1, <1>2, <1>3, <1>4, <1>5, <1>6, NextCases

LEMMA PromiseStep ==
  ASSUME Inv, Inv', [Next]_vars
  PROVE  [Promise!Next]_Promise!promiseVars
<1> USE DEF Promise!promiseVars
<1>1. Promise!promiseVars = <<requests, Served>>
  BY DEF Served, ServedOf
<1>2. CASE SameTurns
  <2>1. ASSUME NEW d \in Deliveries PROVE ServedOf(d)' = ServedOf(d)
    <3>1. {b \in Attempts : Dispatched(b)' /\ offers'[b].delivery = d}
            = {b \in Attempts : Dispatched(b) /\ offers[b].delivery = d}
      BY <1>2 DEF SameTurns
    <3>2. \A b \in Attempts : Dispatched(b) => offers'[b].request = offers[b].request
      BY <1>2 DEF SameTurns
    <3> QED  BY <3>1, <3>2 DEF ServedOf
  <2>2. Served' = Served
    BY <2>1 DEF Served
  <2>3. \/ requests' = requests
        \/ \E d \in Deliveries : requests' = [requests EXCEPT ![d] = @ + 1]
    BY RequestsStep DEF vars, requestVars
  <2>4. ASSUME NEW d \in Deliveries, requests' = [requests EXCEPT ![d] = @ + 1]
        PROVE  Promise!Ask(d)
    BY <2>2, <2>4 DEF Promise!Ask, Served, ServedOf
  <2> QED  BY <2>2, <2>3, <2>4 DEF Promise!Next, Served, ServedOf
<1>3. CASE requests' = requests /\ \E a \in Attempts : NewTurn(a)
  <2>1. PICK a \in Attempts : NewTurn(a)
    BY <1>3
  <2>2. PICK d \in Deliveries, q \in Nat :
             /\ d = offers[a].delivery /\ q = offers[a].request
             /\ q \in 1 .. requests[d]
    <3>1. offers[a].stage # "none"
      BY <2>1 DEF NewTurn, Loaded
    <3> QED  BY <3>1, OfferFields DEF Inv, OutboxInv, AttemptsInv, KnownRequests
  <2>3. \A p \in ServedOf(d) : p[1] # a /\ p[2] # q
    <3> SUFFICES ASSUME NEW b \in Attempts, Dispatched(b), offers[b].delivery = d
                 PROVE  b # a /\ offers[b].request # q
      BY <2>2 DEF ServedOf
    <3>1. b # a
      BY <2>1 DEF NewTurn
    <3>2. Loaded(a) /\ Loaded(b)
      BY <2>1 DEF NewTurn, Loaded, Dispatched
    <3>3. offers[b].request # q
      BY <2>2, <3>1, <3>2 DEF Inv, OutboxInv, AttemptsInv, LoadedOnce
    <3> QED  BY <3>1, <3>3
  <2>4. ServedOf(d)' = ServedOf(d) \cup {<<a, q>>}
    <3>1. {b \in Attempts : Dispatched(b)' /\ offers'[b].delivery = d}
            = {b \in Attempts : Dispatched(b) /\ offers[b].delivery = d} \cup {a}
      BY <2>1, <2>2 DEF NewTurn
    <3>2. \A b \in Attempts : offers'[b].request = offers[b].request
      BY <2>1 DEF NewTurn
    <3> QED  BY <2>2, <3>1, <3>2 DEF ServedOf
  <2>5. ASSUME NEW e \in Deliveries, e # d PROVE ServedOf(e)' = ServedOf(e)
    <3>1. {b \in Attempts : Dispatched(b)' /\ offers'[b].delivery = e}
            = {b \in Attempts : Dispatched(b) /\ offers[b].delivery = e}
      BY <2>1, <2>2, <2>5 DEF NewTurn
    <3>2. \A b \in Attempts : offers'[b].request = offers[b].request
      BY <2>1 DEF NewTurn
    <3> QED  BY <2>2, <3>1, <3>2 DEF ServedOf
  <2>6. Served' = [Served EXCEPT ![d] = Served[d] \cup {<<a, q>>}]
    <3> DEFINE new == [e \in Deliveries |-> ServedOf(e)']
    <3>1. Served' = new
      BY DEF Served
    <3>2. \A e \in Deliveries : new[e] = ServedOf(e)' /\ Served[e] = ServedOf(e)
      BY DEF Served
    <3> HIDE DEF new
    <3>3. new[d] = Served[d] \cup {<<a, q>>}
      BY <2>2, <2>4, <3>2
    <3>4. \A e \in Deliveries : e # d => new[e] = Served[e]
      <4> TAKE e \in Deliveries
      <4> HAVE e # d
      <4> QED  BY <2>5, <3>2
    <3>5. Served = [e \in Deliveries |-> Served[e]]
      BY DEF Served
    <3>6. new = [e \in Deliveries |-> new[e]]
      BY DEF new
    <3>7. new = [Served EXCEPT ![d] = Served[d] \cup {<<a, q>>}]
      BY <2>2, <3>3, <3>4, <3>5, <3>6
    <3> QED  BY <3>1, <3>7
  <2>7. Served[d] = ServedOf(d)
    BY <2>2 DEF Served
  <2>8. Promise!Serve(d, a, q)
    <3>1. \A p \in Served[d] : p[1] # a /\ p[2] # q
      BY <2>3, <2>7
    <3> QED  BY <1>3, <2>2, <2>6, <3>1 DEF Promise!Serve, Served, ServedOf
  <2> QED  BY <2>2, <2>8 DEF Promise!Next
<1> QED  BY <1>2, <1>3, TurnStep

(* Every behaviour of the outbox, with its worker, Sessions, losses and    *)
(* restarts, is one of the promise: each request is served at most once.   *)
THEOREM Refinement == Spec => PromiseSpec
<1>1. Inv /\ Inv' /\ [Next]_vars => [Promise!Next]_Promise!promiseVars
  BY PromiseStep
<1> QED  BY <1>1, PromiseInit, InvHolds, PTL DEF Spec, PromiseSpec, Promise!Spec
=============================================================================
