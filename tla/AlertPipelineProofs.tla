------------------------ MODULE AlertPipelineProofs -------------------------
(***************************************************************************)
(* Proofs about AlertPipeline, for any number of chains, texts and         *)
(* destinations, any queue capacity and any number of alerts: the alarm    *)
(* cache, the invariant as a whole, and what follows from it.              *)
(***************************************************************************)
EXTENDS AlertControlProofs

\* Zenon first: preparing a leaf for SMT takes longer than most leaves do.
USE ZenonT(30), SMTT(30)

(* A delivery goroutine touches only its own destination's entries.        *)
LEMMA DeliverFrame ==
  ASSUME IInv, NEW d \in Dests, Deliver(d), NEW e \in Dests, e # d, DestInv(e)
  PROVE  DestInv(e)'
<1>1. UNCHANGED <<leg[e], inFlight[e], sent[e], taken[e], doubt[e], current>>
  <2>a. TypeOK
    BY DEF IInv
  <2>1. CASE ReserveDelivery(d)
    <3>1. UNCHANGED <<sent, taken, current>>
      BY <2>1 DEF ReserveDelivery
    <3>2. UNCHANGED <<leg[e], inFlight[e], doubt[e]>>
      <4>1. CASE /\ inFlight' = [inFlight EXCEPT ![d] = @ \cup {current.text}]
                 /\ leg' = [leg EXCEPT ![d] = "send"]
                 /\ UNCHANGED doubt
        BY <4>1, <2>a DEF TypeOK
      <4>2. CASE /\ doubt' = [doubt EXCEPT ![d] = IF Eligible(current, d)
                                                  THEN @ \cup {current.text} ELSE @]
                 /\ leg' = [leg EXCEPT ![d] = "done"]
                 /\ UNCHANGED inFlight
        BY <4>2, <2>a DEF TypeOK
      <4> QED
        BY <2>1, <4>1, <4>2, Zenon DEF ReserveDelivery
    <3> QED
      BY <3>1, <3>2
  <2>2. CASE AttemptAccepted(d)
    BY <2>2, <2>a DEF AttemptAccepted, Take, TypeOK, cacheVars
  <2>3. CASE AttemptFailed(d)
    <3>1. UNCHANGED leg \/ leg' = [leg EXCEPT ![d] = "failed"]
      BY <2>3, ZenonT(40) DEF AttemptFailed
    <3>2. taken'[e] = taken[e]
      BY <2>3, <2>a DEF AttemptFailed, Take, TypeOK
    <3>3. UNCHANGED <<sent, inFlight, current>>
      BY <2>3 DEF AttemptFailed, cacheVars
    <3>4. doubt'[e] = doubt[e]
      BY <2>3, <2>a DEF AttemptFailed, TypeOK
    <3> QED
      BY <3>1, <3>2, <3>3, <3>4, <2>a DEF TypeOK
  <2>4. CASE CompleteDelivery(d)
    BY <2>4, <2>a DEF CompleteDelivery, TypeOK, remoteVars
  <2> QED
    BY <2>1, <2>2, <2>3, <2>4 DEF Deliver
<1> QED
  BY <1>1 DEF DestInv, Event

(* A delivery goroutine keeps its destination's entries consistent.        *)
LEMMA DeliverOwn ==
  ASSUME IInv, NEW d \in Dests, Deliver(d)
  PROVE  DestInv(d)'
<1>a. TypeOK /\ DestInv(d)
  BY DEF IInv, CacheInv
<1>b. current \in Alerts
  BY DEF IInv, HandsInv, Deliver, ReserveDelivery, AttemptAccepted,
         AttemptFailed, CompleteDelivery
<1>c. current.text \in Texts /\ current.resolved \in BOOLEAN
  BY <1>b, AlertFields
<1>1. CASE ReserveDelivery(d)
  <2>1. UNCHANGED <<sent, taken, current>>
    BY <1>1 DEF ReserveDelivery
  <2>2. CASE /\ Eligible(current, d)
             /\ inFlight' = [inFlight EXCEPT ![d] = @ \cup {current.text}]
             /\ leg' = [leg EXCEPT ![d] = "send"]
             /\ UNCHANGED doubt
    <3>1. inFlight'[d] = {current.text} /\ leg'[d] = "send"
      BY <1>1, <2>2, <1>a DEF ReserveDelivery, DestInv, TypeOK
    <3> QED
      BY ZenonT(40), <3>1, <2>1, <2>2, <1>1, <1>a
      DEF Eligible, DestInv, TypeOK, ReserveDelivery
  <2>3. CASE /\ doubt' = [doubt EXCEPT ![d] = IF Eligible(current, d)
                                              THEN @ \cup {current.text} ELSE @]
             /\ leg' = [leg EXCEPT ![d] = "done"]
             /\ UNCHANGED inFlight
    <3>1. leg'[d] = "done" /\ doubt[d] \subseteq doubt'[d]
      BY <2>3, <1>a DEF TypeOK
    <3> QED
      BY ZenonT(40), <3>1, <2>1, <2>3, <1>1, <1>a DEF DestInv, ReserveDelivery
  <2> QED
    BY <1>1, <2>2, <2>3, Zenon DEF ReserveDelivery
<1>2. CASE AttemptAccepted(d)
  <2>1. UNCHANGED <<sent, inFlight, current>>
    BY <1>2 DEF AttemptAccepted, cacheVars
  <2>2. leg[d] = "send" /\ leg'[d] = "accepted" /\ doubt'[d] = doubt[d] \ {current.text}
    BY <1>2, <1>a DEF AttemptAccepted, TypeOK
  <2>3. /\ taken'[d][current.text] = Event(current)
        /\ \A t \in Texts \ {current.text} : taken'[d][t] = taken[d][t]
    BY <1>2, <1>a, <1>c DEF AttemptAccepted, Take, Event, TypeOK
  <2>4. \A t \in sent[d] : t \in Texts
    BY <1>a DEF TypeOK
  <2> QED
    BY <1>a, <1>c, <2>1, <2>2, <2>3, <2>4 DEF DestInv, Event
<1>3. CASE AttemptFailed(d)
  <2>1. UNCHANGED <<sent, inFlight, current>>
    BY <1>3 DEF AttemptFailed, cacheVars
  <2>2. leg[d] = "send" /\ doubt'[d] = doubt[d] \cup {current.text}
    BY <1>3, <1>a DEF AttemptFailed, TypeOK
  <2>3. leg'[d] \in {"send", "failed"}
    <3>1. UNCHANGED leg \/ leg' = [leg EXCEPT ![d] = "failed"]
      BY <1>3, ZenonT(40) DEF AttemptFailed
    <3> QED
      BY <3>1, <2>2, <1>a DEF TypeOK
  <2>4. /\ taken'[d][current.text] \in {taken[d][current.text], Event(current)}
        /\ \A t \in Texts \ {current.text} : taken'[d][t] = taken[d][t]
    <3>1. Take(current, d) \/ UNCHANGED taken
      BY <1>3 DEF AttemptFailed
    <3>2. CASE Take(current, d)
      BY <3>2, <1>a, <1>c DEF Take, Event, TypeOK
    <3>3. CASE UNCHANGED taken
      BY <3>3
    <3> QED
      BY <3>1, <3>2, <3>3
  <2>5. \A t \in sent[d] : t \in Texts
    BY <1>a DEF TypeOK
  <2> QED
    BY ZenonT(40), <1>a, <1>c, <2>1, <2>2, <2>3, <2>4, <2>5 DEF DestInv, Event
<1>4. CASE CompleteDelivery(d)
  <2>1. UNCHANGED <<taken, doubt, current>>
    BY <1>4 DEF CompleteDelivery, remoteVars
  <2>2. leg'[d] = "done" /\ inFlight'[d] = {}
    BY <1>4, <1>a DEF CompleteDelivery, DestInv, TypeOK
  <2>3. CASE leg[d] = "failed"
    <3>1. sent'[d] = sent[d]
      BY <1>4, <2>3, <1>a DEF CompleteDelivery, TypeOK
    <3> QED
      BY ZenonT(40), <1>a, <2>1, <2>2, <2>3, <3>1 DEF DestInv
  <2>4. CASE leg[d] = "accepted"
    <3>1. sent'[d] = IF current.resolved THEN sent[d] \ {current.text}
                                         ELSE sent[d] \cup {current.text}
      BY <1>4, <2>4, <1>a DEF CompleteDelivery, TypeOK
    <3> QED
      BY <1>a, <1>c, <2>1, <2>2, <2>4, <3>1 DEF DestInv, Event
  <2> QED
    BY <1>4, <2>3, <2>4 DEF CompleteDelivery
<1> QED
  BY <1>1, <1>2, <1>3, <1>4, Zenon DEF Deliver

(* A step that touches no delivery keeps the cache consistent.             *)
LEMMA CacheFrame ==
  ASSUME CacheInv, UNCHANGED <<leg, current, sent, inFlight, taken, doubt>>
  PROVE  CacheInv'
<1> SUFFICES ASSUME NEW d \in Dests PROVE DestInv(d)'
  BY DEF CacheInv
<1>1. DestInv(d)
  BY DEF CacheInv
<1> QED
  BY <1>1 DEF DestInv, Event

(* Every step keeps the cache consistent with every destination.           *)
LEMMA CacheStep == IInv /\ [Next]_vars => CacheInv'
<1> SUFFICES ASSUME IInv, [Next]_vars PROVE CacheInv'
  OBVIOUS
<1>a. TypeOK /\ HandsInv /\ CacheInv
  BY DEF IInv
<1>1. CASE Start
  BY <1>1, <1>a, CacheFrame DEF Start, cacheVars, remoteVars
<1>2. ASSUME NEW c \in Chains, Watch(c) PROVE CacheInv'
  <2>1. UNCHANGED <<workVars, cacheVars, remoteVars>>
    BY <1>2, WatchFrame
  <2> QED
    BY <2>1, <1>a, CacheFrame DEF workVars, cacheVars, remoteVars
<1>3. CASE Receive
  <2>1. \A d \in Dests : leg[d] = "done"
    BY <1>3, <1>a DEF Receive, HandsInv
  <2>2. \A d \in Dests : leg'[d] \in {"done", "reserve"}
    <3>1. leg' = [d \in Dests |-> IF d \in Enabled[Head(alertChan).chain]
                                  THEN "reserve" ELSE "done"]
      BY <1>3, Zenon DEF Receive
    <3> QED
      BY <3>1
  <2>3. UNCHANGED <<inFlight, sent, taken, doubt>>
    BY <1>3 DEF Receive, cacheVars, remoteVars
  <2> QED
    BY ZenonT(40), <1>a, <2>1, <2>2, <2>3 DEF CacheInv, DestInv
<1>4. CASE JoinDeliveries
  BY ZenonT(40), <1>4, <1>a DEF JoinDeliveries, cacheVars, remoteVars, CacheInv, DestInv
<1>5. CASE WorkerExit
  BY <1>5, <1>a, CacheFrame DEF WorkerExit, cacheVars, remoteVars
<1>6. ASSUME NEW d \in Dests, Deliver(d) PROVE CacheInv'
  BY <1>6, <1>a, DeliverOwn, DeliverFrame DEF CacheInv
<1>7. CASE \E c \in Chains, t \in Texts : FlapExpire(c, t)
  BY <1>7, <1>a, CacheFrame DEF FlapExpire, workVars, remoteVars
<1>8. CASE StopAlertIngress \/ Shutdown \/ DrainTimeout
  <2>1. UNCHANGED <<workVars, cacheVars, remoteVars>>
    BY <1>8, ShutdownFrame
  <2> QED
    BY <2>1, <1>a, CacheFrame DEF workVars, cacheVars, remoteVars
<1>9. CASE UNCHANGED vars
  BY <1>9, <1>a, CacheFrame DEF vars, workVars, cacheVars, remoteVars
<1> QED
  BY <1>1, <1>2, <1>3, <1>4, <1>5, <1>6, <1>7, <1>8, <1>9 DEF Next, Worker, Exited

-----------------------------------------------------------------------------
(* The inductive invariant holds in every state of every behaviour.        *)
THEOREM InductiveInvariant == Spec => []IInv
<1>1. IInv /\ [Next]_vars => IInv'
  BY TypeStep, HandsStep, GateStep, WorkerStep, CacheStep DEF IInv
<1> QED
  BY InitIInv, <1>1, PTL DEF Spec

(* Type correctness: every variable of the alert path keeps its type.      *)
THEOREM TypeCorrect == Spec => []TypeOK
<1>1. IInv => TypeOK
  BY DEF IInv
<1> QED
  BY InductiveInvariant, <1>1, PTL

(* alert() never sends on the channel shutdown() has closed, however many  *)
(* chains alert while the process is being stopped.                        *)
THEOREM NeverSendsOnClosedChannel == Spec => []NoSendOnClosedChannel
<1>1. IInv => NoSendOnClosedChannel
  BY DEF IInv, GateInv, NoSendOnClosedChannel
<1> QED
  BY InductiveInvariant, <1>1, PTL

(* The safety half of backpressure: a watch goroutine that is sending, on  *)
(* a full queue of any size too, has a worker that reads or delivers, and  *)
(* every delivery goroutine still at work has a worker that waits for it.  *)
THEOREM BlockedSendersHaveAReader ==
  Spec => [](/\ \A c \in Chains : pc[c] = "send" => worker \in {"idle", "deliver"} /\ ~closed
             /\ \A d \in Dests : leg[d] # "done" => worker = "deliver")
<1>1. IInv => /\ \A c \in Chains : pc[c] = "send" => worker \in {"idle", "deliver"} /\ ~closed
              /\ \A d \in Dests : leg[d] # "done" => worker = "deliver"
  <2> SUFFICES ASSUME IInv, NEW c \in Chains, pc[c] = "send"
               PROVE  worker \in {"idle", "deliver"} /\ ~closed
    BY DEF IInv, HandsInv
  <2>1. ~closed
    BY DEF IInv, GateInv
  <2>2. worker # "new" /\ worker # "exited"
    BY <2>1 DEF IInv, WorkerInv
  <2> QED
    BY <2>1, <2>2 DEF IInv, TypeOK
<1> QED
  BY <1>1, InductiveInvariant, PTL

(* The checkpoint shutdown() writes is the final state of the alarm cache: *)
(* nothing is queued or in flight, and no goroutine, of however many,      *)
(* changes the cache or the dashboard while it is written or after.        *)
THEOREM CheckpointsFinalState == Spec => []CheckpointIsFinal
<1>1. IInv => CheckpointIsFinal
  <2> SUFFICES ASSUME IInv, stage \in {"writing", "saved"} PROVE CheckpointIsFinal
    BY DEF CheckpointIsFinal
  <2>1. closed /\ worker \in {"new", "exited"}
    BY DEF IInv, GateInv, WorkerInv
  <2>2. alertChan = <<>> /\ saved = [sent |-> sent, allAlarms |-> allAlarms]
    BY <2>1 DEF IInv, WorkerInv
  <2>3. \A d \in Dests : leg[d] = "done"
    BY <2>1 DEF IInv, HandsInv
  <2>4. \A d \in Dests : inFlight[d] = {}
    BY <2>3 DEF IInv, CacheInv, DestInv
  <2> QED
    BY <2>2, <2>4 DEF CheckpointIsFinal
<1> QED
  BY InductiveInvariant, <1>1, PTL

(* reserveDelivery never starts a delivery the destination has already     *)
(* taken, unless the last one went unacknowledged.                         *)
THEOREM NeverRepeatsNeedlessly == Spec => []NoNeedlessRepeat
<1>1. IInv => NoNeedlessRepeat
  <2> SUFFICES ASSUME IInv, NEW d \in Dests, leg[d] = "send",
                      current.text \notin doubt[d]
               PROVE  taken[d][current.text] #
                        (IF current.resolved THEN "resolve" ELSE "trigger")
    BY DEF NoNeedlessRepeat
  <2>1. current \in Alerts
    BY DEF IInv, HandsInv
  <2>2. current.text \in Texts
    BY <2>1, AlertFields
  <2>3. current.resolved <=> current.text \in sent[d]
    BY DEF IInv, CacheInv, DestInv
  <2>4. current.text \in sent[d] <=> taken[d][current.text] = "trigger"
    BY ZenonT(40), <2>2 DEF IInv, CacheInv, DestInv
  <2> QED
    BY <2>3, <2>4
<1> QED
  BY InductiveInvariant, <1>1, PTL

(* Between deliveries the sent map says what each destination last took,   *)
(* unless the last delivery went unacknowledged.                           *)
THEOREM SentIsTruthful == Spec => []SentAgreesWithDestination
<1>1. IInv => SentAgreesWithDestination
  <2> SUFFICES ASSUME IInv, worker # "deliver" PROVE SentAgreesWithDestination
    BY DEF SentAgreesWithDestination
  <2>1. \A d \in Dests : leg[d] = "done"
    BY DEF IInv, HandsInv
  <2> QED
    BY <2>1 DEF IInv, CacheInv, DestInv, SentAgreesWithDestination
<1> QED
  BY InductiveInvariant, <1>1, PTL

(* What destinations took changes only by an attempt under way.            *)
LEMMA OnlyAttemptsReachDestinations ==
  ASSUME [Next]_vars, ~UNCHANGED <<taken, incidents>>
  PROVE  \E d \in Dests : leg[d] = "send" /\ Take(current, d)
<1>1. ~(\E c \in Chains : Watch(c))
  BY WatchFrame DEF remoteVars
<1>2. ~(StopAlertIngress \/ Shutdown \/ DrainTimeout)
  BY ShutdownFrame DEF remoteVars
<1> QED
  BY ZenonT(40), <1>1, <1>2 DEF Next, Start, Worker, Receive, JoinDeliveries, WorkerExit,
     Deliver, ReserveDelivery, AttemptAccepted, AttemptFailed, CompleteDelivery, FlapExpire,
     Exited, vars, remoteVars

(* Resolutions go only to destinations that took the matching trigger.     *)
THEOREM ResolvesOnlyWhatWasTriggered == Spec => ResolutionFollowsTrigger
<1>1. IInv /\ [Next]_vars =>
        [\A d \in Dests, t \in Texts :
           taken'[d][t] = "resolve" => taken[d][t] # "none"]_vars
  <2> SUFFICES ASSUME IInv, [Next]_vars, NEW d \in Dests, NEW t \in Texts,
                      taken'[d][t] = "resolve", taken[d][t] = "none"
               PROVE  FALSE
    BY ZenonT(40)
  <2>a. ~UNCHANGED <<taken, incidents>>
    OBVIOUS
  <2>1. PICK e \in Dests : leg[e] = "send" /\ Take(current, e)
    BY <2>a, OnlyAttemptsReachDestinations
  <2>2. current \in Alerts
    BY <2>1 DEF IInv, HandsInv
  <2>3. current.text \in Texts /\ current.resolved \in BOOLEAN
    BY <2>2, AlertFields
  <2>4. d = e /\ t = current.text /\ current.resolved
    BY <2>1, <2>3 DEF Take, IInv, TypeOK
  <2>5. t \in sent[d]
    BY ZenonT(40), <2>1, <2>4 DEF IInv, CacheInv, DestInv
  <2> QED
    BY ZenonT(40), <2>5 DEF IInv, CacheInv, DestInv
<1> QED
  BY InductiveInvariant, <1>1, PTL DEF Spec, ResolutionFollowsTrigger

-----------------------------------------------------------------------------
(* What destinations know depends on the legs, the alert under way and the *)
(* sent maps only.                                                         *)
LEMMA KnownFrame ==
  ASSUME UNCHANGED <<leg, current, sent>>
  PROVE  UNCHANGED Known
BY DEF Known

(* Where no acknowledgement is waiting to be recorded, before and after,   *)
(* what destinations know is what the sent maps say.                       *)
LEMMA KnownIsSent ==
  ASSUME \A d \in Dests : leg[d] # "accepted" /\ leg'[d] # "accepted",
         UNCHANGED sent
  PROVE  UNCHANGED Known
BY DEF Known

(* The worker takes alerts up and puts them down between acknowledgements. *)
LEMMA WorkerKeepsKnown ==
  ASSUME IInv, Worker
  PROVE  UNCHANGED <<Known, taken>>
<1>1. CASE Receive
  <2>1. \A d \in Dests : leg[d] = "done" /\ leg'[d] # "accepted"
    BY <1>1 DEF Receive, IInv, HandsInv
  <2> QED
    BY <1>1, <2>1, KnownIsSent DEF Receive, cacheVars, remoteVars
<1>2. CASE JoinDeliveries
  <2>1. \A d \in Dests : leg[d] = "done" /\ leg'[d] = "done"
    BY <1>2 DEF JoinDeliveries
  <2> QED
    BY <1>2, <2>1, KnownIsSent DEF JoinDeliveries, cacheVars, remoteVars
<1>3. CASE WorkerExit
  BY <1>3, KnownFrame DEF WorkerExit, cacheVars, remoteVars
<1> QED
  BY <1>1, <1>2, <1>3 DEF Worker

(* A leg of deliverAlert takes a step of alternating delivery, or one its  *)
(* destination does not notice.                                            *)
LEMMA DeliverAlternates ==
  ASSUME IInv, NEW d \in Dests, Deliver(d)
  PROVE  Delivery!Next \/ UNCHANGED <<Known, taken>>
<1>a. TypeOK /\ HandsInv /\ DestInv(d)
  BY DEF IInv, CacheInv
<1>b. leg[d] # "done" => current \in Alerts
  BY <1>a DEF HandsInv
<1>c. leg[d] # "done" => current.text \in Texts /\ current.resolved \in BOOLEAN
  BY <1>b, AlertFields
<1>1. CASE ReserveDelivery(d)
  <2>1. /\ leg[d] = "reserve" /\ leg'[d] \in {"send", "done"}
        /\ \A e \in Dests : e # d => leg'[e] = leg[e]
        /\ UNCHANGED <<current, sent, taken>>
    BY <1>1, <1>a DEF ReserveDelivery, TypeOK
  <2> QED
    BY <2>1 DEF Known
<1>2. CASE AttemptAccepted(d)
  <2>1. /\ leg[d] = "send" /\ leg'[d] = "accepted"
        /\ \A e \in Dests : e # d => leg'[e] = leg[e]
        /\ UNCHANGED <<current, sent>>
        /\ taken' = [taken EXCEPT ![d][current.text] =
                       IF current.resolved THEN "resolve" ELSE "trigger"]
    BY <1>2, <1>a DEF AttemptAccepted, Take, TypeOK, cacheVars
  <2>2. current.text \in Texts /\ current.resolved \in BOOLEAN
    BY <2>1, <1>c
  <2>3. current.resolved <=> current.text \in sent[d]
    BY <2>1, <1>a DEF DestInv
  <2>4. Known[d] = sent[d]
    BY <2>1 DEF Known
  <2>5. Known' = [Known EXCEPT ![d] = Delivery!Acknowledged(@, current.text)]
    BY ZenonT(40), <2>1, <2>3, <2>4 DEF Known, Delivery!Acknowledged
  <2>6. taken' = [taken EXCEPT ![d][current.text] = Delivery!Due(d, current.text)]
    BY ZenonT(40), <2>1, <2>3, <2>4 DEF Delivery!Due
  <2>7. Delivery!Accept(d, current.text)
    BY <2>5, <2>6 DEF Delivery!Accept
  <2> QED
    BY <2>2, <2>7 DEF Delivery!Next
<1>3. CASE AttemptFailed(d)
  <2>1. /\ leg[d] = "send" /\ leg'[d] \in {"send", "failed"}
        /\ \A e \in Dests : e # d => leg'[e] = leg[e]
        /\ UNCHANGED <<current, sent>>
        /\ Take(current, d) \/ UNCHANGED taken
    BY <1>3, <1>a DEF AttemptFailed, TypeOK, cacheVars
  <2>2. UNCHANGED Known
    BY ZenonT(40), <2>1 DEF Known
  <2>3. CASE UNCHANGED taken
    BY <2>2, <2>3
  <2>4. CASE Take(current, d)
    <3>1. current.text \in Texts
      BY <2>1, <1>c
    <3>2. current.resolved <=> current.text \in Known[d]
      BY ZenonT(40), <2>1, <1>a DEF DestInv, Known
    <3>3. taken' = [taken EXCEPT ![d][current.text] = Delivery!Due(d, current.text)]
      BY ZenonT(40), <2>4, <3>2 DEF Take, Delivery!Due
    <3>4. Delivery!Lose(d, current.text)
      BY <2>2, <3>3 DEF Delivery!Lose
    <3> QED
      BY <3>1, <3>4 DEF Delivery!Next
  <2> QED
    BY <2>1, <2>3, <2>4
<1>4. CASE CompleteDelivery(d)
  <2>1. /\ leg[d] \in {"accepted", "failed"} /\ leg'[d] = "done"
        /\ \A e \in Dests : e # d => leg'[e] = leg[e] /\ sent'[e] = sent[e]
        /\ sent'[d] = IF leg[d] = "failed" THEN sent[d]
                      ELSE IF current.resolved THEN sent[d] \ {current.text}
                      ELSE sent[d] \cup {current.text}
        /\ UNCHANGED <<current, taken>>
    BY <1>4, <1>a DEF CompleteDelivery, TypeOK, remoteVars
  <2> QED
    BY <2>1 DEF Known
<1> QED
  BY <1>1, <1>2, <1>3, <1>4 DEF Deliver

(* The queue, the worker, the legs and the retries implement plain         *)
(* alternating delivery for any number of chains, alarms and destinations: *)
(* a destination is given the events of an alarm in turn, and an event is  *)
(* only repeated when its acknowledgement was lost.                        *)
THEOREM DeliversInTurn == Spec => ImplementsAlarmDelivery
<1>1. Init => Delivery!Init
  BY DEF Init, Known, Delivery!Init
<1>2. IInv /\ [Next]_vars => [Delivery!Next]_<<Known, taken>>
  <2> SUFFICES ASSUME IInv, [Next]_vars
               PROVE  Delivery!Next \/ UNCHANGED <<Known, taken>>
    OBVIOUS
  <2> USE DEF workVars, cacheVars, remoteVars
  <2>1. CASE Start
    BY <2>1, KnownFrame DEF Start
  <2>2. ASSUME NEW c \in Chains, Watch(c)
        PROVE  UNCHANGED <<Known, taken>>
    BY <2>2, WatchFrame, KnownFrame
  <2>3. CASE Worker
    BY <2>3, WorkerKeepsKnown
  <2>4. ASSUME NEW d \in Dests, Deliver(d)
        PROVE  Delivery!Next \/ UNCHANGED <<Known, taken>>
    BY <2>4, DeliverAlternates
  <2>5. ASSUME NEW c \in Chains, NEW t \in Texts, FlapExpire(c, t)
        PROVE  UNCHANGED <<Known, taken>>
    BY <2>5, KnownFrame DEF FlapExpire
  <2>6. CASE StopAlertIngress \/ Shutdown \/ DrainTimeout
    BY <2>6, ShutdownFrame, KnownFrame
  <2>7. CASE UNCHANGED vars
    BY <2>7, KnownFrame DEF vars
  <2> QED
    BY <2>1, <2>2, <2>3, <2>4, <2>5, <2>6, <2>7 DEF Next, Exited
<1> QED
  BY InductiveInvariant, <1>1, <1>2, PTL DEF Spec, ImplementsAlarmDelivery, Delivery!Spec
=============================================================================
