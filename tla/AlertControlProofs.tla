------------------------- MODULE AlertControlProofs -------------------------
(***************************************************************************)
(* The inductive invariant of AlertPipeline, for any number of chains,     *)
(* texts and destinations, any queue capacity and any number of alerts,    *)
(* and the parts of it that speak of control: the types, the goroutines    *)
(* inside alert, the gate, and the worker; and where what is queued and    *)
(* shown comes from.  AlertPipelineProofs has the alarm cache and its      *)
(* theorems, AlertFeedProofs those about the dashboard and the incidents.  *)
(***************************************************************************)
EXTENDS AlertPipeline, TLAPS

\* Zenon first: preparing a leaf for SMT takes longer than most leaves do.
USE ZenonT(30), SMTT(30)

(* Where the goroutine of a chain is inside alert().                       *)
InAlert == {"send", "record", "finish"}

(* What a goroutine holds while it is at work.                             *)
HandsInv ==
  /\ \A c \in Chains : pc[c] \in InAlert => arg[c] \in Alerts
  /\ worker = "deliver" => current \in Alerts
  /\ \A d \in Dests : leg[d] # "done" => worker = "deliver"

(* The gate, the two wait groups and the channel.                          *)
GateInv ==
  /\ ingress = {c \in Chains : pc[c] \in InAlert}
  /\ stage \notin {"starting", "running", "failed"} => ~accepting
  /\ stage \in {"ingress", "drain", "checkpoint", "writing", "saved"} \/ closed =>
       ~accepting /\ \A c \in Chains : pc[c] \in {"new", "exited"}
  /\ stage \in {"drain", "checkpoint", "writing", "saved"} => closed
  /\ stage = "starting" => ~closed

(* The worker and what it leaves behind.                                   *)
WorkerInv ==
  /\ worker = "exited" => closed /\ alertChan = <<>>
  /\ worker = "new" => alertChan = <<>> /\ \A c \in Chains : pc[c] = "new"
  /\ stage = "starting" <=> worker = "new" /\ accepting
  /\ stage \in {"checkpoint", "writing", "saved"} => worker \in {"new", "exited"}
  /\ stage \in {"writing", "saved"} => saved = [sent |-> sent, allAlarms |-> allAlarms]

(* The event an alert asks a destination to take.                          *)
Event(a) == IF a.resolved THEN "resolve" ELSE "trigger"

(* The cache against destination d: what is reserved is what is being      *)
(* delivered; a reserved alert is still eligible; sent is what d took, but *)
(* for the delivery that is accepted and not yet completed.                *)
DestInv(d) ==
  /\ leg[d] \in {"done", "reserve"} => inFlight[d] = {}
  /\ leg[d] \in {"send", "accepted", "failed"} => inFlight[d] = {current.text}
  /\ leg[d] \in {"send", "accepted"} =>
       (current.resolved <=> current.text \in sent[d])
  /\ leg[d] = "accepted" => /\ taken[d][current.text] = Event(current)
                            /\ current.text \notin doubt[d]
  /\ \A t \in sent[d] : taken[d][t] # "none"
  /\ \A t \in Texts : t \notin doubt[d] =>
       \/ leg[d] = "accepted" /\ t = current.text
       \/ t \in sent[d] <=> taken[d][t] = "trigger"

CacheInv == \A d \in Dests : DestInv(d)

IInv == TypeOK /\ HandsInv /\ GateInv /\ WorkerInv /\ CacheInv

-----------------------------------------------------------------------------
(* An alert is a record of a chain, a text, a polarity and an id.          *)
LEMMA AlertFields ==
  ASSUME NEW a \in Alerts
  PROVE  /\ a.chain \in Chains /\ a.text \in Texts /\ a.resolved \in BOOLEAN
         /\ a.uniqueId \in UniqueIds \cup {NoKey}
BY DEF Alerts

(* What watch() passes to alert() makes an alert.                          *)
LEMMA AlertMade ==
  ASSUME NEW c \in Chains, NEW t \in Texts, NEW r \in BOOLEAN,
         NEW id \in UniqueIds \cup {NoKey}
  PROVE  [chain |-> c, text |-> t, resolved |-> r, uniqueId |-> id] \in Alerts
BY DEF Alerts

(* A text of its chain the watch goroutine passes to alert(), with an id:  *)
(* without one only where it waits for the validator to be known.          *)
Passes(c, t, r, id) ==
  /\ BeginIngress(c, t, r, id)
  /\ pc[c] \in {"idle", "starting"}
  /\ [chain |-> c, text |-> t, resolved |-> r, uniqueId |-> id] \in Alerts
  /\ \/ id = UniqueId(c, t)
     \/ id = NoKey /\ Kind[t] = "norpc" /\ pc[c] = "starting"

(* In its loop and before it, the watch goroutine passes such texts only.  *)
LEMMA WatchPasses ==
  ASSUME NEW c \in Chains,
         \/ \E t \in Emits[c], r \in BOOLEAN : Emit(c, t, r)
         \/ \E t \in Emits[c] : EmitAtStartup(c, t)
  PROVE  \E t \in Emits[c], r \in BOOLEAN, id \in UniqueIds \cup {NoKey} : Passes(c, t, r, id)
<1>1. ASSUME NEW t \in Emits[c], NEW r \in BOOLEAN, NEW id \in UniqueIds \cup {NoKey}
      PROVE  /\ UniqueId(c, t) \in UniqueIds
             /\ [chain |-> c, text |-> t, resolved |-> r, uniqueId |-> id] \in Alerts
  <2>1. t \in Texts
    BY PipelineAssumption
  <2>2. UniqueId(c, t) \in UniqueIds
    BY <2>1 DEF UniqueIds
  <2> QED
    BY <2>1, <2>2, AlertMade
<1>2. ASSUME NEW t \in Emits[c], NEW r \in BOOLEAN, Emit(c, t, r)
      PROVE  UniqueId(c, t) \in UniqueIds /\ Passes(c, t, r, UniqueId(c, t))
  BY <1>1, <1>2 DEF Emit, Passes
<1>3. ASSUME NEW t \in Emits[c], EmitAtStartup(c, t)
      PROVE  Passes(c, t, FALSE, NoKey)
  BY <1>1, <1>3 DEF EmitAtStartup, Passes
<1> QED
  BY <1>2, <1>3

(* Everything a process starts with satisfies the invariant.               *)
LEMMA InitIInv == Init => IInv
<1> SUFFICES ASSUME Init PROVE IInv
  OBVIOUS
<1> USE PipelineAssumption DEF Init
<1>1. TypeOK
  <2>1. saved \in [sent : [Dests -> SUBSET Texts],
                   allAlarms : [Chains -> SUBSET Texts]]
    BY DEF NoSnapshot
  <2>2. alertChan \in Seq(Alerts) /\ calls \in 0..MaxAlerts /\ tries \in 0..PDMaxAttempts
    BY SMTT(30)
  <2>3. taken \in [Dests -> [Texts -> {"none", "trigger", "resolve"}]]
    OBVIOUS
  <2> QED
    BY ZenonT(40), <2>1, <2>2, <2>3 DEF TypeOK
<1>2. HandsInv
  BY DEF HandsInv, InAlert
<1>3. GateInv
  BY DEF GateInv, InAlert
<1>4. WorkerInv
  BY DEF WorkerInv
<1>5. CacheInv
  BY DEF CacheInv, DestInv
<1> QED
  BY <1>1, <1>2, <1>3, <1>4, <1>5 DEF IInv

(* A watch goroutine's steps keep the types.                               *)
LEMMA WatchType ==
  ASSUME IInv, NEW c \in Chains, Watch(c)
  PROVE  TypeOK'
<1> USE DEF vars, gateVars, watchVars, workVars, cacheVars, remoteVars
<1>a. TypeOK /\ HandsInv
  BY DEF IInv
<1>1. ASSUME NEW t \in Emits[c], NEW r \in BOOLEAN, NEW id, Passes(c, t, r, id)
      PROVE  TypeOK'
  BY SMTT(30), <1>1, <1>a, PipelineAssumption DEF TypeOK, Passes, BeginIngress
<1>2. CASE Enqueue(c)
  BY SMTT(30), <1>2, <1>a DEF TypeOK, Enqueue, HandsInv, InAlert
<1>3. CASE RecordDashboardAlarm(c)
  <2>1. arg[c].text \in Texts
    BY <1>3, <1>a, AlertFields DEF RecordDashboardAlarm, HandsInv, InAlert
  <2> QED
    BY SMTT(30), <1>3, <1>a, <2>1 DEF TypeOK, RecordDashboardAlarm
<1>4. CASE FinishIngress(c)
  BY ZenonT(40), <1>4, <1>a DEF TypeOK, FinishIngress
<1>5. CASE RefusedStalledResolution(c)
  BY ZenonT(40), <1>5, <1>a DEF TypeOK, RefusedStalledResolution
<1>6. CASE ClearNoBlocks(c)
  BY ZenonT(40), <1>6, <1>a DEF TypeOK, ClearNoBlocks
<1>7. CASE WatchExit(c)
  BY <1>7, <1>a DEF TypeOK, WatchExit
<1>8. CASE ValidatorKnown(c)
  BY ZenonT(40), <1>8, <1>a DEF TypeOK, ValidatorKnown
<1> QED
  BY <1>1, <1>2, <1>3, <1>4, <1>5, <1>6, <1>7, <1>8, WatchPasses DEF Watch

(* The worker's steps keep the types.                                      *)
LEMMA WorkerType ==
  ASSUME IInv, Worker
  PROVE  TypeOK'
<1> USE DEF vars, gateVars, watchVars, workVars, cacheVars, remoteVars
<1>a. TypeOK
  BY DEF IInv
<1>1. CASE Receive
  <2>1. Head(alertChan) \in Alerts /\ Tail(alertChan) \in Seq(Alerts)
    BY SMTT(30), <1>1, <1>a DEF TypeOK, Receive
  <2> QED
    BY SMTT(30), <1>1, <1>a, <2>1, PipelineAssumption DEF TypeOK, Receive
<1>2. CASE JoinDeliveries
  BY SMTT(30), <1>2, <1>a, PipelineAssumption DEF TypeOK, JoinDeliveries
<1>3. CASE WorkerExit
  BY <1>3, <1>a DEF TypeOK, WorkerExit
<1> QED
  BY <1>1, <1>2, <1>3 DEF Worker

(* What a destination keeps stays well typed.                              *)
LEMMA TakeType ==
  ASSUME TypeOK, NEW d \in Dests, current \in Alerts, Take(current, d)
  PROVE  /\ taken' \in [Dests -> [Texts -> {"none", "trigger", "resolve"}]]
         /\ incidents' \subseteq UniqueIds
<1>1. current.uniqueId \in UniqueIds \cup {NoKey}
  BY AlertFields
<1>2. current.text \in Texts
  BY AlertFields
<1> QED
  BY <1>1, <1>2 DEF Take, TypeOK

(* The steps of a delivery goroutine keep the types.                       *)
LEMMA DeliverType ==
  ASSUME IInv, NEW d \in Dests, Deliver(d)
  PROVE  TypeOK'
<1> USE DEF vars, gateVars, watchVars, workVars, cacheVars, remoteVars
<1>a. TypeOK /\ HandsInv
  BY DEF IInv
<1>b. current \in Alerts
  BY <1>a DEF HandsInv, Deliver, ReserveDelivery, AttemptAccepted,
              AttemptFailed, CompleteDelivery
<1>c. current.chain \in Chains /\ current.text \in Texts
  BY <1>b, AlertFields
<1>1. CASE ReserveDelivery(d)
  <2>1. leg' \in [Dests -> {"done", "reserve", "send", "accepted", "failed"}]
    BY <1>1, <1>a, ZenonT(40) DEF TypeOK, ReserveDelivery
  <2>2. inFlight' \in [Dests -> SUBSET Texts]
    <3>1. CASE UNCHANGED inFlight
      BY <3>1, <1>a DEF TypeOK
    <3>2. CASE inFlight' = [inFlight EXCEPT ![d] = @ \cup {current.text}]
      BY <3>2, <1>a, <1>c DEF TypeOK
    <3> QED
      BY <1>1, <3>1, <3>2, Zenon DEF ReserveDelivery
  <2>3. doubt' \in [Dests -> SUBSET Texts]
    <3>1. CASE UNCHANGED doubt
      BY <3>1, <1>a DEF TypeOK
    <3>2. CASE doubt' = [doubt EXCEPT ![d] = IF Eligible(current, d)
                                             THEN @ \cup {current.text} ELSE @]
      BY <3>2, <1>a, <1>c DEF TypeOK
    <3> QED
      BY <1>1, <3>1, <3>2 DEF ReserveDelivery
  <2> QED
    BY ZenonT(40), <1>1, <1>a, <2>1, <2>2, <2>3 DEF TypeOK, ReserveDelivery
<1>2. CASE AttemptAccepted(d)
  <2>1. /\ taken' \in [Dests -> [Texts -> {"none", "trigger", "resolve"}]]
        /\ incidents' \subseteq UniqueIds
    BY <1>2, <1>a, <1>b, TakeType DEF AttemptAccepted
  <2> QED
    BY ZenonT(40), <1>2, <1>a, <1>c, <2>1 DEF TypeOK, AttemptAccepted
<1>3. CASE AttemptFailed(d)
  <2>1. /\ taken' \in [Dests -> [Texts -> {"none", "trigger", "resolve"}]]
        /\ incidents' \subseteq UniqueIds
    BY <1>3, <1>a, <1>b, TakeType DEF AttemptFailed, TypeOK
  <2>2. tries' \in 0..PDMaxAttempts
    BY SMTT(30), <1>3, <1>a, PipelineAssumption DEF AttemptFailed, MayRetry, TypeOK
  <2>3. leg' \in [Dests -> {"done", "reserve", "send", "accepted", "failed"}]
    <3>1. UNCHANGED leg \/ leg' = [leg EXCEPT ![d] = "failed"]
      BY <1>3, Zenon DEF AttemptFailed
    <3> QED
      BY ZenonT(40), <3>1, <1>a DEF TypeOK
  <2> QED
    BY ZenonT(40), <1>3, <1>a, <1>c, <2>1, <2>2, <2>3 DEF TypeOK, AttemptFailed
<1>4. CASE CompleteDelivery(d)
  BY SMTT(30), <1>4, <1>a, <1>c DEF TypeOK, CompleteDelivery
<1> QED
  BY <1>1, <1>2, <1>3, <1>4 DEF Deliver

(* Every step keeps the types.                                             *)
LEMMA TypeStep == IInv /\ [Next]_vars => TypeOK'
<1> SUFFICES ASSUME IInv, [Next]_vars PROVE TypeOK'
  OBVIOUS
<1> USE DEF vars, gateVars, watchVars, workVars, cacheVars, remoteVars
<1>a. TypeOK
  BY DEF IInv
<1>1. CASE Start
  BY <1>1, <1>a DEF TypeOK, Start
<1>2. ASSUME NEW c \in Chains, Watch(c) PROVE TypeOK'
  BY <1>2, WatchType
<1>3. CASE Worker
  BY <1>3, WorkerType
<1>4. ASSUME NEW d \in Dests, Deliver(d) PROVE TypeOK'
  BY <1>4, DeliverType
<1>5. ASSUME NEW c \in Chains, NEW t \in Texts, FlapExpire(c, t) PROVE TypeOK'
  BY ZenonT(40), <1>5, <1>a DEF TypeOK, FlapExpire
<1>6. CASE StopAlertIngress
  BY ZenonT(40), <1>6, <1>a DEF TypeOK, StopAlertIngress
<1>7. CASE CancelContext \/ MonitorsQuiesced \/ CloseAlertChan \/ WorkerDrained
  BY ZenonT(40), <1>7, <1>a DEF TypeOK, CancelContext, MonitorsQuiesced, CloseAlertChan,
                    WorkerDrained
<1>8. CASE SnapshotSavedState \/ WriteCheckpoint
  BY SMTT(30), <1>8, <1>a DEF TypeOK, SnapshotSavedState, WriteCheckpoint
<1>9. CASE DrainTimeout
  BY <1>9, <1>a DEF TypeOK, DrainTimeout
<1>10. CASE UNCHANGED vars
  BY ZenonT(40), <1>10, <1>a DEF TypeOK
<1> QED
  BY <1>1, <1>2, <1>3, <1>4, <1>5, <1>6, <1>7, <1>8, <1>9, <1>10
  DEF Next, Shutdown, Exited

(* Steps of the worker, of the deliveries and of time leave the watch      *)
(* goroutines, the gate and the shutdown sequence alone.                   *)
LEMMA DeliverySideFrame ==
  ASSUME \/ Worker
         \/ \E d \in Dests : Deliver(d)
         \/ \E c \in Chains, t \in Texts : FlapExpire(c, t)
  PROVE  UNCHANGED <<accepting, ingress, pc, arg, closed, stage, saved, allAlarms>>
BY DEF Worker, Receive, JoinDeliveries, WorkerExit, Deliver, ReserveDelivery,
       AttemptAccepted, AttemptFailed, CompleteDelivery, FlapExpire,
       gateVars, watchVars

(* Steps of the watch goroutines leave the worker and shutdown alone.      *)
LEMMA WatchFrame ==
  ASSUME NEW c \in Chains, Watch(c)
  PROVE  UNCHANGED <<accepting, closed, stage, saved, workVars, cacheVars, remoteVars>>
BY DEF Watch, Emit, EmitAtStartup, BeginIngress, ValidatorKnown, Enqueue,
       RecordDashboardAlarm, FinishIngress, RefusedStalledResolution, ClearNoBlocks,
       WatchExit, gateVars

(* Steps of shutdown leave everything but the gate, the channel's closing  *)
(* and the snapshot alone.                                                 *)
LEMMA ShutdownFrame ==
  ASSUME StopAlertIngress \/ Shutdown \/ DrainTimeout
  PROVE  UNCHANGED <<ingress, watchVars, alertChan, workVars, cacheVars, allAlarms,
                     remoteVars>>
BY DEF StopAlertIngress, Shutdown, CancelContext, MonitorsQuiesced, CloseAlertChan,
       WorkerDrained, SnapshotSavedState, WriteCheckpoint, DrainTimeout, gateVars

(* Every step leaves each goroutine with what it needs in hand.            *)
LEMMA HandsStep == IInv /\ [Next]_vars => HandsInv'
<1> SUFFICES ASSUME IInv, [Next]_vars PROVE HandsInv'
  OBVIOUS
<1> USE DEF InAlert
<1>a. TypeOK /\ HandsInv /\ WorkerInv
  BY DEF IInv
<1>1. CASE Start
  BY <1>1, <1>a DEF HandsInv, WorkerInv, TypeOK, Start
<1>2. ASSUME NEW c \in Chains, Watch(c) PROVE HandsInv'
  <2>1. UNCHANGED <<worker, current, leg>>
    BY <1>2, WatchFrame DEF workVars
  <2>2. ASSUME NEW t \in Emits[c], NEW r \in BOOLEAN, NEW id, Passes(c, t, r, id)
        PROVE  HandsInv'
    BY <2>1, <2>2, <1>a DEF Passes, BeginIngress, HandsInv, TypeOK
  <2>3. CASE \/ Enqueue(c) \/ RecordDashboardAlarm(c) \/ FinishIngress(c)
             \/ RefusedStalledResolution(c) \/ ClearNoBlocks(c) \/ WatchExit(c)
             \/ ValidatorKnown(c)
    BY ZenonT(40), <2>1, <2>3, <1>a DEF Enqueue, RecordDashboardAlarm, FinishIngress,
       RefusedStalledResolution, ClearNoBlocks, WatchExit, ValidatorKnown, HandsInv, TypeOK
  <2> QED
    BY <1>2, <2>2, <2>3, WatchPasses DEF Watch
<1>3. CASE Worker
  <2>1. UNCHANGED <<pc, arg>>
    BY <1>3, DeliverySideFrame
  <2>2. alertChan # <<>> => Head(alertChan) \in Alerts
    BY SMTT(30), <1>a DEF TypeOK
  <2> QED
    BY <1>3, <1>a, <2>1, <2>2
    DEF Worker, Receive, JoinDeliveries, WorkerExit, HandsInv, TypeOK
<1>4. ASSUME NEW d \in Dests, Deliver(d) PROVE HandsInv'
  <2>1. UNCHANGED <<pc, arg>>
    BY <1>4, DeliverySideFrame
  <2>2. /\ leg[d] # "done"
        /\ UNCHANGED <<worker, current>>
    BY <1>4 DEF Deliver, ReserveDelivery, AttemptAccepted, AttemptFailed,
                CompleteDelivery
  <2> QED
    BY <1>a, <2>1, <2>2 DEF HandsInv, TypeOK
<1>5. CASE \E c \in Chains, t \in Texts : FlapExpire(c, t)
  BY <1>5, <1>a DEF FlapExpire, watchVars, workVars, HandsInv
<1>6. CASE StopAlertIngress \/ Shutdown \/ DrainTimeout
  BY <1>6, <1>a, ShutdownFrame DEF watchVars, workVars, HandsInv
<1>7. CASE UNCHANGED vars
  BY <1>7, <1>a DEF vars, watchVars, workVars, HandsInv
<1> QED
  BY <1>1, <1>2, <1>3, <1>4, <1>5, <1>6, <1>7 DEF Next, Exited

(* Every step keeps the gate, the wait groups and the channel in step.     *)
LEMMA GateStep == IInv /\ [Next]_vars => GateInv'
<1> SUFFICES ASSUME IInv, [Next]_vars PROVE GateInv'
  OBVIOUS
<1> USE DEF InAlert
<1>a. TypeOK /\ GateInv /\ WorkerInv
  BY DEF IInv
<1>1. CASE Start
  BY <1>1, <1>a DEF GateInv, WorkerInv, TypeOK, Start, gateVars
<1>2. ASSUME NEW c \in Chains, Watch(c) PROVE GateInv'
  <2>1. UNCHANGED <<accepting, closed, stage>>
    BY <1>2, WatchFrame
  <2>2. ASSUME NEW t \in Emits[c], NEW r \in BOOLEAN, NEW id, Passes(c, t, r, id)
        PROVE  GateInv'
    BY SMTT(30), <2>2, <2>1, <1>a DEF Passes, BeginIngress, GateInv, TypeOK
  <2>3. CASE \/ Enqueue(c) \/ RecordDashboardAlarm(c) \/ ValidatorKnown(c)
             \/ RefusedStalledResolution(c) \/ ClearNoBlocks(c) \/ WatchExit(c)
    BY <2>3, <2>1, <1>a DEF Enqueue, RecordDashboardAlarm, ValidatorKnown, gateVars,
       RefusedStalledResolution, ClearNoBlocks, WatchExit, GateInv, TypeOK
  <2>4. CASE FinishIngress(c)
    BY SMTT(30), <2>4, <2>1, <1>a DEF FinishIngress, GateInv, TypeOK
  <2> QED
    BY <1>2, <2>2, <2>3, <2>4, WatchPasses DEF Watch
<1>3. CASE \/ Worker
           \/ \E d \in Dests : Deliver(d)
           \/ \E c \in Chains, t \in Texts : FlapExpire(c, t)
  BY <1>3, <1>a, DeliverySideFrame DEF GateInv
<1>4. CASE StopAlertIngress \/ Shutdown \/ DrainTimeout
  <2>1. CASE StopAlertIngress
    BY <2>1, <1>a DEF StopAlertIngress, GateInv, watchVars, gateVars
  <2>2. CASE CancelContext
    BY <2>2, <1>a DEF CancelContext, GateInv, watchVars, gateVars
  <2>3. CASE MonitorsQuiesced
    BY <2>3, <1>a DEF MonitorsQuiesced, GateInv, watchVars, gateVars
  <2>4. CASE CloseAlertChan
    BY <2>4, <1>a DEF CloseAlertChan, GateInv, watchVars, gateVars
  <2>5. CASE WorkerDrained
    BY <2>5, <1>a DEF WorkerDrained, GateInv, watchVars, gateVars
  <2>6. CASE SnapshotSavedState \/ WriteCheckpoint
    BY <2>6, <1>a DEF SnapshotSavedState, WriteCheckpoint, GateInv, watchVars, gateVars
  <2>7. CASE DrainTimeout
    BY <2>7, <1>a DEF DrainTimeout, GateInv, watchVars, gateVars
  <2> QED
    BY <1>4, <2>1, <2>2, <2>3, <2>4, <2>5, <2>6, <2>7, Zenon DEF Shutdown
<1>5. CASE UNCHANGED vars
  BY <1>5, <1>a DEF vars, watchVars, gateVars, GateInv
<1> QED
  BY <1>1, <1>2, <1>3, <1>4, <1>5 DEF Next, Exited

(* Every step keeps the worker, the queue and the snapshot in step.        *)
LEMMA WorkerStep == IInv /\ [Next]_vars => WorkerInv'
<1> SUFFICES ASSUME IInv, [Next]_vars PROVE WorkerInv'
  OBVIOUS
<1>a. TypeOK /\ GateInv /\ WorkerInv /\ HandsInv
  BY DEF IInv
<1>1. CASE Start
  BY <1>1, <1>a DEF WorkerInv, TypeOK, Start, gateVars
<1>2. ASSUME Running, NEW c \in Chains, Watch(c) PROVE WorkerInv'
  <2>1. UNCHANGED <<accepting, closed, stage, saved, worker, sent>>
    BY <1>2, WatchFrame DEF workVars, cacheVars
  <2>2. pc[c] \notin {"new", "exited"}
    BY <1>2 DEF Watch, Emit, EmitAtStartup, ValidatorKnown, Enqueue, RecordDashboardAlarm,
                FinishIngress, RefusedStalledResolution, ClearNoBlocks, WatchExit
  <2>3. worker \notin {"new", "exited"}
    BY <2>2, <1>a DEF WorkerInv, GateInv
  <2> QED
    BY <1>2, <1>a, <2>1, <2>3 DEF WorkerInv, Running
<1>3. ASSUME Running, Worker PROVE WorkerInv'
  <2>1. UNCHANGED <<accepting, pc, closed, stage, saved, allAlarms>>
    BY <1>3, DeliverySideFrame
  <2>2. worker \in {"idle", "deliver"} /\ worker' # "new"
    BY ZenonT(40), <1>3 DEF Worker, Receive, JoinDeliveries, WorkerExit
  <2>3. worker' = "exited" => closed' /\ alertChan' = <<>>
    <3>1. CASE Receive
      BY ZenonT(40), <3>1 DEF Receive
    <3>2. CASE JoinDeliveries
      BY <3>2 DEF JoinDeliveries
    <3>3. CASE WorkerExit
      BY <3>3 DEF WorkerExit
    <3> QED
      BY <1>3, <3>1, <3>2, <3>3, ZenonT(40) DEF Worker
  <2> QED
    BY <1>3, <1>a, <2>1, <2>2, <2>3 DEF WorkerInv, Running
<1>4. ASSUME Running, NEW d \in Dests, Deliver(d) PROVE WorkerInv'
  <2>1. UNCHANGED <<accepting, pc, closed, stage, saved, allAlarms>>
    BY <1>4, DeliverySideFrame
  <2>2. UNCHANGED <<worker, alertChan>>
    BY <1>4 DEF Deliver, ReserveDelivery, AttemptAccepted, AttemptFailed,
                CompleteDelivery
  <2>3. worker = "deliver"
    BY <1>4, <1>a DEF Deliver, ReserveDelivery, AttemptAccepted, AttemptFailed,
       CompleteDelivery, HandsInv
  <2> QED
    BY <1>4, <1>a, <2>1, <2>2, <2>3 DEF WorkerInv, Running
<1>5. CASE \E c \in Chains, t \in Texts : FlapExpire(c, t)
  BY SMTT(30), <1>5, <1>a DEF FlapExpire, gateVars, watchVars, workVars, WorkerInv
<1>6. CASE StopAlertIngress \/ CancelContext \/ MonitorsQuiesced \/ CloseAlertChan
  <2>1. CASE StopAlertIngress
    BY <2>1, <1>a DEF StopAlertIngress, watchVars, workVars,
       cacheVars, gateVars, WorkerInv, GateInv
  <2>2. CASE CancelContext
    BY <2>2, <1>a DEF CancelContext, watchVars, workVars,
       cacheVars, gateVars, WorkerInv, GateInv
  <2>3. CASE MonitorsQuiesced
    BY <2>3, <1>a DEF MonitorsQuiesced, watchVars, workVars,
       cacheVars, gateVars, WorkerInv, GateInv
  <2>4. CASE CloseAlertChan
    BY <2>4, <1>a DEF CloseAlertChan, watchVars, workVars,
       cacheVars, gateVars, WorkerInv, GateInv
  <2> QED
    BY <1>6, <2>1, <2>2, <2>3, <2>4, Zenon
<1>7. CASE WorkerDrained \/ SnapshotSavedState \/ WriteCheckpoint \/ DrainTimeout
  <2>1. CASE WorkerDrained
    BY <2>1, <1>a DEF WorkerDrained, watchVars, workVars,
       cacheVars, gateVars, WorkerInv, GateInv
  <2>2. CASE SnapshotSavedState \/ WriteCheckpoint
    BY SMTT(30), <2>2, <1>a DEF SnapshotSavedState, WriteCheckpoint, watchVars, workVars,
       cacheVars, gateVars, WorkerInv, GateInv
  <2>3. CASE DrainTimeout
    BY <2>3, <1>a DEF DrainTimeout, watchVars, workVars,
       cacheVars, gateVars, WorkerInv, GateInv
  <2> QED
    BY <1>7, <2>1, <2>2, <2>3, Zenon
<1>8. CASE UNCHANGED vars
  BY <1>8, <1>a DEF vars, gateVars, watchVars, workVars, cacheVars, WorkerInv
<1> QED
  BY <1>1, <1>2, <1>3, <1>4, <1>5, <1>6, <1>7, <1>8 DEF Next, Exited, Shutdown

-----------------------------------------------------------------------------
(* An alert of its chain, with the id watch() passes for it: without one   *)
(* only for the missing endpoints of a chain that started without any.     *)
Genuine(a) ==
  /\ a.text \in Emits[a.chain]
  /\ \/ a.uniqueId = UniqueId(a.chain, a.text)
     \/ a.uniqueId = NoKey /\ Kind[a.text] = "norpc" /\ a.chain \in Starting

(* What is in hand, queued or being delivered is such an alert.            *)
EmitInv ==
  /\ \A c \in Chains : pc[c] = "starting" => c \in Starting
  /\ \A c \in Chains : pc[c] \in InAlert => arg[c].chain = c /\ Genuine(arg[c])
  /\ \A i \in DOMAIN alertChan : Genuine(alertChan[i])
  /\ worker = "deliver" => Genuine(current)

(* A resolution that has been recorded is off the dashboard, and with the  *)
(* gate open clearNoBlocks follows the resolution of the stalled alarm.    *)
ShownInv ==
  \A c \in Chains :
    /\ pc[c] = "finish" /\ arg[c].resolved => arg[c].text \notin allAlarms[c]
    /\ pc[c] = "clear" /\ accepting =>
         \A t \in Emits[c] \cap StalledTexts : t \notin allAlarms[c]

(* The queue after a send, and after a receipt.                            *)
LEMMA QueueEnds ==
  ASSUME TypeOK
  PROVE  /\ Len(alertChan) \in Nat /\ DOMAIN alertChan = 1..Len(alertChan)
         /\ \A a \in Alerts :
              /\ DOMAIN Append(alertChan, a) = 1..Len(alertChan) + 1
              /\ Append(alertChan, a)[Len(alertChan) + 1] = a
              /\ \A i \in 1..Len(alertChan) : Append(alertChan, a)[i] = alertChan[i]
         /\ alertChan # <<>> =>
              /\ Len(alertChan) # 0 /\ Head(alertChan) = alertChan[1]
              /\ DOMAIN Tail(alertChan) = 1..Len(alertChan) - 1
              /\ \A i \in 1..Len(alertChan) - 1 : Tail(alertChan)[i] = alertChan[i + 1]
<1>1. alertChan \in Seq(Alerts)
  BY DEF TypeOK
<1>2. Len(alertChan) \in Nat /\ DOMAIN alertChan = 1..Len(alertChan)
  BY <1>1
<1>3. ASSUME NEW a \in Alerts
      PROVE  /\ DOMAIN Append(alertChan, a) = 1..Len(alertChan) + 1
             /\ Append(alertChan, a)[Len(alertChan) + 1] = a
             /\ \A i \in 1..Len(alertChan) : Append(alertChan, a)[i] = alertChan[i]
  BY <1>1
<1>4. ASSUME alertChan # <<>>
      PROVE  /\ Len(alertChan) # 0 /\ Head(alertChan) = alertChan[1]
             /\ DOMAIN Tail(alertChan) = 1..Len(alertChan) - 1
             /\ \A i \in 1..Len(alertChan) - 1 : Tail(alertChan)[i] = alertChan[i + 1]
  BY <1>1, <1>4
<1> QED
  BY <1>2, <1>3, <1>4

(* Every step of a watch goroutine keeps alerts with their chain.          *)
LEMMA WatchEmits ==
  ASSUME IInv, EmitInv, NEW c \in Chains, Watch(c)
  PROVE  EmitInv'
<1>a. TypeOK /\ HandsInv
  BY DEF IInv
<1>b. UNCHANGED <<worker, current>>
  BY WatchFrame DEF workVars
<1> USE DEF InAlert
<1>1. ASSUME NEW t \in Emits[c], NEW r \in BOOLEAN, NEW id, Passes(c, t, r, id)
      PROVE  EmitInv'
  <2>1. /\ arg' = [arg EXCEPT ![c] =
                     [chain |-> c, text |-> t, resolved |-> r, uniqueId |-> id]]
        /\ pc' = [pc EXCEPT ![c] = "send"] /\ UNCHANGED alertChan
    BY <1>1 DEF Passes, BeginIngress
  <2>2. arg'[c].chain = c /\ Genuine(arg'[c])
    <3>1. /\ arg'[c].chain = c /\ arg'[c].text = t /\ arg'[c].uniqueId = id
      BY <2>1, <1>a DEF TypeOK
    <3>2. pc[c] = "starting" => c \in Starting
      BY DEF EmitInv
    <3> QED
      BY <3>1, <3>2, <1>1 DEF Passes, Genuine
  <2>3. \A e \in Chains \ {c} : pc'[e] = pc[e] /\ arg'[e] = arg[e]
    BY <2>1, <1>a DEF TypeOK
  <2>4. pc'[c] = "send"
    BY <2>1, <1>a DEF TypeOK
  <2> QED
    BY <2>1, <2>2, <2>3, <2>4, <1>b, SMTT(30) DEF EmitInv, Genuine
<1>2. CASE Enqueue(c)
  <2>1. /\ pc[c] = "send" /\ alertChan' = Append(alertChan, arg[c])
        /\ pc' = [pc EXCEPT ![c] = "record"] /\ UNCHANGED arg
    BY <1>2 DEF Enqueue
  <2>2. arg[c] \in Alerts /\ Genuine(arg[c])
    BY <2>1, <1>a DEF HandsInv, EmitInv
  <2>3. \A i \in DOMAIN alertChan' : Genuine(alertChan'[i])
    <3> SUFFICES ASSUME NEW i \in DOMAIN alertChan' PROVE Genuine(alertChan'[i])
      OBVIOUS
    <3>1. i \in 1..Len(alertChan) \/ i = Len(alertChan) + 1
      BY SMTT(30), <2>1, <2>2, <1>a, QueueEnds
    <3>2. alertChan'[i] = arg[c] \/ (i \in DOMAIN alertChan /\ alertChan'[i] = alertChan[i])
      BY <3>1, <2>1, <2>2, <1>a, QueueEnds
    <3> QED
      BY <3>2, <2>2, Zenon DEF EmitInv
  <2>4. \A e \in Chains :
          /\ pc'[e] \in InAlert => arg[e].chain = e /\ Genuine(arg[e])
          /\ pc'[e] = "starting" => e \in Starting
    BY <2>1, <1>a DEF EmitInv, TypeOK
  <2> QED
    BY <2>1, <2>3, <2>4, <1>b, Zenon DEF EmitInv, Genuine
<1>3. CASE \/ RecordDashboardAlarm(c) \/ FinishIngress(c) \/ RefusedStalledResolution(c)
           \/ ClearNoBlocks(c) \/ WatchExit(c) \/ ValidatorKnown(c)
  <2>1. /\ UNCHANGED alertChan
        /\ \A e \in Chains : /\ pc'[e] = "starting" => pc[e] = "starting"
                             /\ pc'[e] \in InAlert => pc[e] \in InAlert /\ arg'[e] = arg[e]
    BY SMTT(30), <1>3, <1>a DEF RecordDashboardAlarm, FinishIngress, RefusedStalledResolution,
       ClearNoBlocks, WatchExit, ValidatorKnown, TypeOK
  <2> QED
    BY <2>1, <1>b, SMTT(30) DEF EmitInv, Genuine
<1> QED
  BY <1>1, <1>2, <1>3, WatchPasses DEF Watch

(* Every step does.                                                        *)
LEMMA EmitStep == IInv /\ EmitInv /\ [Next]_vars => EmitInv'
<1> SUFFICES ASSUME IInv, EmitInv, [Next]_vars PROVE EmitInv'
  OBVIOUS
<1>a. TypeOK /\ WorkerInv
  BY DEF IInv
<1>1. CASE Start
  <2>1. UNCHANGED <<alertChan, current>> /\ worker' = "idle"
    BY <1>1 DEF Start
  <2>2. \A c \in Chains : pc'[c] = IF c \in Starting THEN "starting" ELSE "idle"
    BY <1>1 DEF Start
  <2> QED
    BY <2>1, <2>2 DEF EmitInv, Genuine, InAlert
<1>2. ASSUME NEW c \in Chains, Watch(c) PROVE EmitInv'
  BY <1>2, WatchEmits
<1>3. CASE Receive
  <2>1. UNCHANGED <<pc, arg>>
    BY <1>3 DEF Receive, watchVars
  <2>2. alertChan # <<>> /\ alertChan' = Tail(alertChan) /\ current' = Head(alertChan)
    BY <1>3 DEF Receive
  <2>3. Genuine(current')
    <3>1. 1 \in DOMAIN alertChan /\ current' = alertChan[1]
      BY SMTT(30), <2>2, <1>a, QueueEnds
    <3> QED
      BY <3>1, Zenon DEF EmitInv
  <2>4. \A i \in DOMAIN alertChan' : i + 1 \in DOMAIN alertChan /\ alertChan'[i] = alertChan[i + 1]
    BY SMTT(30), <2>2, <1>a, QueueEnds
  <2> QED
    BY <2>1, <2>3, <2>4, SMTT(30) DEF EmitInv, Genuine
<1>4. CASE JoinDeliveries \/ WorkerExit
  BY <1>4 DEF JoinDeliveries, WorkerExit, watchVars, EmitInv, Genuine
<1>5. ASSUME NEW d \in Dests, Deliver(d) PROVE EmitInv'
  <2>1. UNCHANGED <<pc, arg, alertChan, worker, current>>
    BY <1>5, ZenonT(40) DEF Deliver, ReserveDelivery, AttemptAccepted, AttemptFailed,
       CompleteDelivery, watchVars
  <2> QED
    BY <2>1, Zenon DEF EmitInv, Genuine
<1>6. CASE \E c \in Chains, t \in Texts : FlapExpire(c, t)
  BY <1>6, ZenonT(40) DEF FlapExpire, watchVars, workVars, EmitInv, Genuine
<1>7. CASE StopAlertIngress \/ Shutdown \/ DrainTimeout
  BY <1>7, ShutdownFrame, ZenonT(40) DEF watchVars, workVars, EmitInv, Genuine
<1>8. CASE UNCHANGED vars
  BY <1>8, ZenonT(40) DEF vars, watchVars, workVars, EmitInv, Genuine
<1> QED
  BY <1>1, <1>2, <1>3, <1>4, <1>5, <1>6, <1>7, <1>8 DEF Next, Worker, Exited

(* Every step keeps the dashboard free of what was resolved.               *)
LEMMA ShownStep == IInv /\ EmitInv /\ ShownInv /\ [Next]_vars => ShownInv'
<1> SUFFICES ASSUME IInv, EmitInv, ShownInv, [Next]_vars PROVE ShownInv'
  OBVIOUS
<1>a. TypeOK
  BY DEF IInv
<1>1. CASE Start
  BY <1>1 DEF Start, ShownInv
<1>2. ASSUME NEW c \in Chains, Watch(c) PROVE ShownInv'
  <2>a. UNCHANGED accepting
    BY <1>2, WatchFrame
  <2>1. ASSUME NEW t \in Emits[c], NEW r \in BOOLEAN, NEW id, Passes(c, t, r, id)
        PROVE  ShownInv'
    BY <2>1, <2>a, <1>a DEF Passes, BeginIngress, ShownInv, TypeOK
  <2>2. CASE Enqueue(c)
    BY <2>2, <2>a, <1>a DEF Enqueue, ShownInv, TypeOK
  <2>3. CASE RecordDashboardAlarm(c)
    BY <2>3, <2>a, <1>a DEF RecordDashboardAlarm, ShownInv, TypeOK
  <2>4. CASE FinishIngress(c)
    <3>1. /\ pc[c] = "finish" /\ UNCHANGED allAlarms
          /\ pc' = [pc EXCEPT ![c] = IF arg[c].resolved /\ arg[c].text \in StalledTexts
                                     THEN "clear" ELSE "idle"]
          /\ arg' = [arg EXCEPT ![c] = NoAlert]
      BY <2>4 DEF FinishIngress
    <3>2. \A e \in Chains \ {c} : pc'[e] = pc[e] /\ arg'[e] = arg[e]
      BY <3>1, <1>a DEF TypeOK
    <3>3. pc'[c] = "idle" \/ (pc'[c] = "clear" /\ arg[c].resolved /\ arg[c].text \in StalledTexts)
      BY <3>1, <1>a DEF TypeOK
    <3>4. arg[c].text \in Emits[c] /\ (arg[c].resolved => arg[c].text \notin allAlarms[c])
      BY <3>1, Zenon DEF EmitInv, Genuine, ShownInv, InAlert
    <3>5. pc'[c] = "clear" => \A t \in Emits[c] \cap StalledTexts : t \notin allAlarms[c]
      BY <3>3, <3>4, PipelineAssumption DEF StalledTexts
    <3> QED
      BY <3>1, <3>2, <3>3, <3>5, <2>a, ZenonT(40) DEF ShownInv
  <2>5. CASE RefusedStalledResolution(c) \/ WatchExit(c) \/ ValidatorKnown(c)
    BY <2>5, <2>a, <1>a DEF RefusedStalledResolution, WatchExit, ValidatorKnown, ShownInv,
       TypeOK
  <2>6. CASE ClearNoBlocks(c)
    BY <2>6, <2>a, <1>a DEF ClearNoBlocks, ShownInv, TypeOK
  <2> QED
    BY <1>2, <2>1, <2>2, <2>3, <2>4, <2>5, <2>6, WatchPasses DEF Watch
<1>3. CASE \/ Worker
           \/ \E d \in Dests : Deliver(d)
           \/ \E c \in Chains, t \in Texts : FlapExpire(c, t)
  BY <1>3, DeliverySideFrame, Zenon DEF ShownInv
<1>4. CASE StopAlertIngress \/ Shutdown \/ DrainTimeout
  <2>1. UNCHANGED <<pc, arg, allAlarms>>
    BY <1>4, ShutdownFrame DEF watchVars
  <2>2. accepting' => accepting
    BY <1>4, ZenonT(40) DEF StopAlertIngress, Shutdown, CancelContext, MonitorsQuiesced,
       CloseAlertChan, WorkerDrained, SnapshotSavedState, WriteCheckpoint, DrainTimeout,
       gateVars
  <2> QED
    BY <2>1, <2>2, Zenon DEF ShownInv
<1>5. CASE UNCHANGED vars
  BY <1>5, ZenonT(40) DEF vars, gateVars, watchVars, ShownInv
<1> QED
  BY <1>1, <1>2, <1>3, <1>4, <1>5 DEF Next, Exited
=============================================================================
