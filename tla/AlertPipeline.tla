--------------------------- MODULE AlertPipeline ---------------------------
(***************************************************************************)
(* The path of an alert through one process lifetime of NosNode Seer:      *)
(*                                                                         *)
(*   watch goroutine --alert()--> alertChan --> notification worker        *)
(*      --deliverAlert()--> one goroutine per destination                  *)
(*                                                                         *)
(* together with the alarm cache those goroutines share (seer/alert.go),   *)
(* the alert-ingress gate (seer/runtime_state.go) and the shutdown barrier *)
(* that drains all of it before the only durable checkpoint (seer/run.go). *)
(*                                                                         *)
(* Time is abstracted: the value of a sent or dashboard map entry is its   *)
(* presence, and the five-minute PagerDuty flapping window ends by the     *)
(* action FlapExpire.                                                      *)
(***************************************************************************)
EXTENDS Naturals, Sequences, FiniteSets

CONSTANTS
  Chains,        \* configured chains; each has one watch goroutine
  Texts,         \* alert message texts, the key of every sent map
  Emits,         \* Emits[c]: the texts chain c's watch goroutine can emit
  Kind,          \* Kind[t]: the check of watch() that emits text t
  Dests,         \* notification destinations
  PD,            \* the PagerDuty destination
  Enabled,       \* Enabled[c]: destinations on globally and for chain c
  Starting,      \* bound: chains whose validator is not known at the start
  QueueCapacity, \* notificationQueueCapacity
  PDMaxAttempts, \* pagerDutyMaxAttempts
  MaxAlerts,     \* bound: calls of alert() the gate accepts
  NoAlert        \* "no alert in hand"

Kinds == {"stalled", "norpc", "percent", "consecutive", "jailed", "node"}

(* The texts with the prefix clearNoBlocks looks for.                      *)
StalledTexts == {t \in Texts : Kind[t] = "stalled"}

\* Mutant: the dedup key is the bare address whatever the alarm.
UniqueIdWithoutSuffix(c, t) == IF Kind[t] = "node" THEN <<t, "url">> ELSE <<c, "">>

(* The id watch() passes with a text, PagerDuty's dedup key: the valcons   *)
(* address as it is for a stalled chain and for missing endpoints, the     *)
(* node's URL for a node, and the address with a suffix otherwise.         *)
UniqueId(c, t) ==
  CASE Kind[t] \in {"stalled", "norpc"} -> <<c, "">>
    [] Kind[t] = "node" -> <<t, "url">>
    [] OTHER -> <<c, Kind[t]>>

UniqueIds == {UniqueId(c, t) : c \in Chains, t \in Texts}

\* The address of a validator that is not known yet.
NoKey == <<>>

Alerts == [chain : Chains, text : Texts, resolved : BOOLEAN,
           uniqueId : UniqueIds \cup {NoKey}]

ASSUME PipelineAssumption ==
  /\ Emits \in [Chains -> SUBSET Texts]
  /\ Kind \in [Texts -> Kinds]
  \* Made of the chain's id and its stalled_minutes.
  /\ \A c \in Chains : \A t, u \in Emits[c] : Kind[t] = "stalled" /\ Kind[u] = "stalled" => t = u
  /\ PD \in Dests
  /\ Enabled \in [Chains -> SUBSET Dests]
  /\ Starting \subseteq Chains
  /\ QueueCapacity \in Nat \ {0}
  /\ PDMaxAttempts \in Nat \ {0}
  /\ MaxAlerts \in Nat
  /\ NoAlert \notin Alerts

VARIABLES
  accepting,  \* Config.accepting, the ingress gate
  ingress,    \* members of Config.ingressWG
  ctxDone,    \* Config.ctx is cancelled
  pc,         \* pc[c]: where chain c's watch goroutine is in alert()
  arg,        \* arg[c]: the alert it is pushing
  calls,      \* alerts accepted so far (bounded by MaxAlerts)
  alertChan,  \* the buffered channel
  closed,     \* alertChan is closed
  worker,     \* the notification worker
  current,    \* the alert it delivers
  leg,        \* leg[d]: deliverAlert's goroutine for destination d
  tries,      \* PagerDuty attempts made for the current alert
  sent,       \* sent[d]: texts in alarmCache.Sent*Alarms
  inFlight,   \* inFlight[d]: alarmCache.inFlight
  flapping,   \* flapping[c]: alarmCache.flappingAlarms, last five minutes
  allAlarms,  \* allAlarms[c]: alarmCache.AllAlarms, the dashboard's view
  stage,      \* where runtimeLifecycle.shutdown is
  saved,      \* the checkpoint handed to writeStateAtomic
  taken,      \* taken[d][t]: the last event destination d took for t
  incidents,  \* open PagerDuty incidents, by dedup key
  doubt       \* doubt[d]: texts whose last delivery was not acknowledged

gateVars   == <<accepting, ingress, ctxDone>>
watchVars  == <<pc, arg, calls>>
workVars   == <<worker, current, leg, tries>>
cacheVars  == <<sent, inFlight, flapping>>
remoteVars == <<taken, incidents, doubt>>
vars == <<gateVars, watchVars, alertChan, closed, workVars, cacheVars,
          allAlarms, stage, saved, remoteVars>>

NoSnapshot == [sent |-> [d \in Dests |-> {}], allAlarms |-> [c \in Chains |-> {}]]

TypeOK ==
  /\ accepting \in BOOLEAN
  /\ ingress \subseteq Chains
  /\ ctxDone \in BOOLEAN
  /\ pc \in [Chains -> {"new", "starting", "idle", "send", "record", "finish", "clear", "exited"}]
  /\ arg \in [Chains -> Alerts \cup {NoAlert}]
  /\ calls \in 0..MaxAlerts
  /\ alertChan \in Seq(Alerts)
  /\ closed \in BOOLEAN
  /\ worker \in {"new", "idle", "deliver", "exited"}
  /\ current \in Alerts \cup {NoAlert}
  /\ leg \in [Dests -> {"done", "reserve", "send", "accepted", "failed"}]
  /\ tries \in 0..PDMaxAttempts
  /\ sent \in [Dests -> SUBSET Texts]
  /\ inFlight \in [Dests -> SUBSET Texts]
  /\ flapping \in [Chains -> SUBSET Texts]
  /\ allAlarms \in [Chains -> SUBSET Texts]
  /\ stage \in {"starting", "running", "stopped", "monitors", "ingress",
                "drain", "checkpoint", "writing", "saved", "failed"}
  /\ saved \in [sent : [Dests -> SUBSET Texts], allAlarms : [Chains -> SUBSET Texts]]
  /\ taken \in [Dests -> [Texts -> {"none", "trigger", "resolve"}]]
  /\ incidents \subseteq UniqueIds
  /\ doubt \in [Dests -> SUBSET Texts]

-----------------------------------------------------------------------------
(* newRuntimeLifecycle: the gate is open, nothing runs yet.                *)
Init ==
  /\ accepting = TRUE /\ ingress = {} /\ ctxDone = FALSE
  /\ pc = [c \in Chains |-> "new"]
  /\ arg = [c \in Chains |-> NoAlert]
  /\ calls = 0
  /\ alertChan = <<>> /\ closed = FALSE
  /\ worker = "new" /\ current = NoAlert
  /\ leg = [d \in Dests |-> "done"] /\ tries = 0
  /\ sent = [d \in Dests |-> {}]
  /\ inFlight = [d \in Dests |-> {}]
  /\ flapping = [c \in Chains |-> {}]
  /\ allAlarms = [c \in Chains |-> {}]
  /\ stage = "starting" /\ saved = NoSnapshot
  /\ taken = [d \in Dests |-> [t \in Texts |-> "none"]]
  /\ incidents = {}
  /\ doubt = [d \in Dests |-> {}]

(* Run starts the notification worker and the monitors.                    *)
Start ==
  /\ stage = "starting"
  /\ stage' = "running"
  /\ worker' = "idle"
  /\ pc' = [c \in Chains |-> IF c \in Starting THEN "starting" ELSE "idle"]
  /\ UNCHANGED <<gateVars, arg, calls, alertChan, closed, current, leg, tries,
                 cacheVars, allAlarms, saved, remoteVars>>

-----------------------------------------------------------------------------
(* alert(), called by a watch goroutine.  A closed gate refuses the call,  *)
(* which then changes nothing; but checkStalledAlert, whose resolution was *)
(* refused, still goes on to clearNoBlocks (RefusedStalledResolution).     *)

\* beginAlertIngress, and the alertMsg built from the arguments.
BeginIngress(c, t, resolved, id) ==
  /\ accepting
  /\ calls < MaxAlerts
  /\ calls' = calls + 1
  /\ ingress' = ingress \cup {c}
  /\ arg' = [arg EXCEPT ![c] = [chain |-> c, text |-> t, resolved |-> resolved, uniqueId |-> id]]
  /\ pc' = [pc EXCEPT ![c] = "send"]
  /\ UNCHANGED <<accepting, ctxDone, alertChan, closed, workVars, cacheVars,
                 allAlarms, stage, saved, remoteVars>>

Emit(c, t, resolved) ==
  /\ pc[c] = "idle"
  /\ BeginIngress(c, t, resolved, UniqueId(c, t))

\* watch waits for the validator to be known, and the one alarm it raises
\* meanwhile is the one for missing endpoints; after it nothing is left to do
\* but to go on waiting.
EmitAtStartup(c, t) ==
  /\ pc[c] = "starting"
  /\ Kind[t] = "norpc"
  /\ BeginIngress(c, t, FALSE, NoKey)

ValidatorKnown(c) ==
  /\ pc[c] = "starting"
  /\ pc' = [pc EXCEPT ![c] = "idle"]
  /\ UNCHANGED <<gateVars, arg, calls, alertChan, closed, workVars, cacheVars,
                 allAlarms, stage, saved, remoteVars>>

\* The send on alertChan blocks while the buffer is full.
Enqueue(c) ==
  /\ pc[c] = "send"
  /\ Len(alertChan) < QueueCapacity
  /\ alertChan' = Append(alertChan, arg[c])
  /\ pc' = [pc EXCEPT ![c] = "record"]
  /\ UNCHANGED <<gateVars, arg, calls, closed, workVars, cacheVars,
                 allAlarms, stage, saved, remoteVars>>

\* Mutant: a resolution does not delete the dashboard entry.
RecordWithoutDelete(c) ==
  /\ pc[c] = "record"
  /\ allAlarms' = [allAlarms EXCEPT ![c] = @ \cup {arg[c].text}]
  /\ pc' = [pc EXCEPT ![c] = "finish"]
  /\ UNCHANGED <<gateVars, arg, calls, alertChan, closed, workVars, cacheVars,
                 stage, saved, remoteVars>>

RecordDashboardAlarm(c) ==
  /\ pc[c] = "record"
  /\ allAlarms' = [allAlarms EXCEPT ![c] =
                     IF arg[c].resolved THEN @ \ {arg[c].text}
                                        ELSE @ \cup {arg[c].text}]
  /\ pc' = [pc EXCEPT ![c] = "finish"]
  /\ UNCHANGED <<gateVars, arg, calls, alertChan, closed, workVars, cacheVars,
                 stage, saved, remoteVars>>

\* Mutant: the wait group is never told that the call is over.
FinishWithoutDone(c) ==
  /\ pc[c] = "finish"
  /\ arg' = [arg EXCEPT ![c] = NoAlert]
  /\ pc' = [pc EXCEPT ![c] = "idle"]
  /\ UNCHANGED <<gateVars, calls, alertChan, closed, workVars, cacheVars, allAlarms,
                 stage, saved, remoteVars>>

\* The deferred finishAlertIngress; the stalled-chain caller goes on to clear.
FinishIngress(c) ==
  /\ pc[c] = "finish"
  /\ ingress' = ingress \ {c}
  /\ arg' = [arg EXCEPT ![c] = NoAlert]
  /\ pc' = [pc EXCEPT ![c] =
              IF arg[c].resolved /\ arg[c].text \in StalledTexts
              THEN "clear" ELSE "idle"]
  /\ UNCHANGED <<accepting, ctxDone, calls, alertChan, closed, workVars,
                 cacheVars, allAlarms, stage, saved, remoteVars>>

\* The latch lastBlockAlarm limits this to a stall whose alarm was raised.
RefusedStalledResolution(c) ==
  /\ pc[c] = "idle"
  /\ ~accepting
  /\ allAlarms[c] \cap StalledTexts # {}
  /\ pc' = [pc EXCEPT ![c] = "clear"]
  /\ UNCHANGED <<gateVars, arg, calls, alertChan, closed, workVars, cacheVars,
                 allAlarms, stage, saved, remoteVars>>

ClearNoBlocks(c) ==
  /\ pc[c] = "clear"
  /\ allAlarms' = [allAlarms EXCEPT ![c] = @ \ StalledTexts]
  /\ pc' = [pc EXCEPT ![c] = "idle"]
  /\ UNCHANGED <<gateVars, arg, calls, alertChan, closed, workVars, cacheVars,
                 stage, saved, remoteVars>>

\* watch sees the cancelled context at its next wait.
WatchExit(c) ==
  /\ pc[c] \in {"starting", "idle"}
  /\ ctxDone
  /\ pc' = [pc EXCEPT ![c] = "exited"]
  /\ UNCHANGED <<gateVars, arg, calls, alertChan, closed, workVars, cacheVars,
                 allAlarms, stage, saved, remoteVars>>

-----------------------------------------------------------------------------
(* notificationWorker and deliverAlert.                                    *)

\* One alert at a time; a goroutine per destination, most return at once.
Receive ==
  /\ worker = "idle"
  /\ alertChan # <<>>
  /\ current' = Head(alertChan)
  /\ alertChan' = Tail(alertChan)
  /\ worker' = "deliver"
  /\ leg' = [d \in Dests |->
               IF d \in Enabled[Head(alertChan).chain] THEN "reserve" ELSE "done"]
  /\ tries' = 0
  /\ UNCHANGED <<gateVars, watchVars, closed, cacheVars, allAlarms, stage, saved,
                 remoteVars>>

\* The PagerDuty trigger is within five minutes of the last accepted one.
Flaps(a, d) == d = PD /\ ~a.resolved /\ a.text \in flapping[a.chain]

\* Mutants: a trigger is sent again, a resolution is sent unasked.
EligibleAgain(a, d) ==
  a.text \notin inFlight[d] /\ (a.resolved => a.text \in sent[d])

EligibleUnasked(a, d) ==
  a.text \notin inFlight[d] /\ (a.text \in sent[d] => a.resolved)

\* The sent map makes the alert worth sending: a trigger once, a resolution
\* only where the trigger was accepted.
Eligible(a, d) ==
  /\ a.text \notin inFlight[d]
  /\ a.resolved <=> a.text \in sent[d]

ReserveDelivery(d) ==
  /\ leg[d] = "reserve"
  /\ \/ /\ Eligible(current, d) /\ ~Flaps(current, d)
        /\ inFlight' = [inFlight EXCEPT ![d] = @ \cup {current.text}]
        /\ leg' = [leg EXCEPT ![d] = "send"]
        /\ UNCHANGED doubt
     \/ /\ ~(Eligible(current, d) /\ ~Flaps(current, d))
        /\ doubt' = [doubt EXCEPT ![d] = IF Eligible(current, d)
                                         THEN @ \cup {current.text} ELSE @]
        /\ leg' = [leg EXCEPT ![d] = "done"]
        /\ UNCHANGED inFlight
  /\ UNCHANGED <<gateVars, watchVars, alertChan, closed, worker, current, tries,
                 sent, flapping, allAlarms, stage, saved, taken, incidents>>

\* What the destination keeps of an event it took (external: the remote API).
\* A trigger without a key opens an incident that no later event can name.
Take(a, d) ==
  /\ taken' = [taken EXCEPT ![d][a.text] = IF a.resolved THEN "resolve" ELSE "trigger"]
  /\ incidents' = IF d # PD THEN incidents
                  ELSE IF a.resolved THEN incidents \ {a.uniqueId}
                  ELSE incidents \cup ({a.uniqueId} \ {NoKey})

\* Mutant: retry until it works.
MayRetryForever(d) == d = PD

\* Only PagerDuty retries, and at most PDMaxAttempts times in all.
MayRetry(d) == d = PD /\ tries + 1 < PDMaxAttempts

\* The destination took the event and its answer came back in time.
AttemptAccepted(d) ==
  /\ leg[d] = "send"
  /\ Take(current, d)
  /\ doubt' = [doubt EXCEPT ![d] = @ \ {current.text}]
  /\ leg' = [leg EXCEPT ![d] = "accepted"]
  /\ UNCHANGED <<gateVars, watchVars, alertChan, closed, worker, current, tries,
                 cacheVars, allAlarms, stage, saved>>

\* A rejection or a transport error.  In the ambiguous case the destination
\* took the event and only the answer was lost.
AttemptFailed(d) ==
  /\ leg[d] = "send"
  /\ Take(current, d) \/ UNCHANGED <<taken, incidents>>
  /\ doubt' = [doubt EXCEPT ![d] = @ \cup {current.text}]
  /\ IF MayRetry(d)
     THEN tries' = tries + 1 /\ UNCHANGED leg
     ELSE leg' = [leg EXCEPT ![d] = "failed"] /\ UNCHANGED tries
  /\ UNCHANGED <<gateVars, watchVars, alertChan, closed, worker, current,
                 cacheVars, allAlarms, stage, saved>>

\* Mutant: an accepted resolution leaves the sent entry.
CompleteWithoutDelete(d) ==
  /\ leg[d] \in {"accepted", "failed"}
  /\ inFlight' = [inFlight EXCEPT ![d] = @ \ {current.text}]
  /\ sent' = [sent EXCEPT ![d] = IF leg[d] = "failed" THEN @ ELSE @ \cup {current.text}]
  /\ leg' = [leg EXCEPT ![d] = "done"]
  /\ UNCHANGED <<gateVars, watchVars, alertChan, closed, worker, current, tries,
                 flapping, allAlarms, stage, saved, remoteVars>>

\* Mutant: a failed delivery is recorded like an accepted one.
CompleteEvenIfFailed(d) ==
  /\ leg[d] \in {"accepted", "failed"}
  /\ inFlight' = [inFlight EXCEPT ![d] = @ \ {current.text}]
  /\ sent' = [sent EXCEPT ![d] = IF current.resolved THEN @ \ {current.text}
                                 ELSE @ \cup {current.text}]
  /\ leg' = [leg EXCEPT ![d] = "done"]
  /\ UNCHANGED <<gateVars, watchVars, alertChan, closed, worker, current, tries,
                 flapping, allAlarms, stage, saved, remoteVars>>

CompleteDelivery(d) ==
  /\ leg[d] \in {"accepted", "failed"}
  /\ inFlight' = [inFlight EXCEPT ![d] = @ \ {current.text}]
  /\ sent' = [sent EXCEPT ![d] =
                IF leg[d] = "failed" THEN @
                ELSE IF current.resolved THEN @ \ {current.text}
                ELSE @ \cup {current.text}]
  /\ flapping' = IF leg[d] = "accepted" /\ ~current.resolved /\ d = PD
                 THEN [flapping EXCEPT ![current.chain] = @ \cup {current.text}]
                 ELSE flapping
  /\ leg' = [leg EXCEPT ![d] = "done"]
  /\ UNCHANGED <<gateVars, watchVars, alertChan, closed, worker, current, tries,
                 allAlarms, stage, saved, remoteVars>>

\* deliverAlert's workers.Wait.
JoinDeliveries ==
  /\ worker = "deliver"
  /\ \A d \in Dests : leg[d] = "done"
  /\ worker' = "idle"
  /\ current' = NoAlert
  /\ tries' = 0
  /\ UNCHANGED <<gateVars, watchVars, alertChan, closed, leg, cacheVars, allAlarms,
                 stage, saved, remoteVars>>

\* Mutant: the worker stops when the queue is empty, closed or not.
WorkerExitWhenIdle ==
  /\ worker = "idle"
  /\ alertChan = <<>>
  /\ worker' = "exited"
  /\ UNCHANGED <<gateVars, watchVars, alertChan, closed, current, leg, tries,
                 cacheVars, allAlarms, stage, saved, remoteVars>>

\* The range over alertChan ends when the channel is closed and drained.
WorkerExit ==
  /\ worker = "idle"
  /\ closed /\ alertChan = <<>>
  /\ worker' = "exited"
  /\ UNCHANGED <<gateVars, watchVars, alertChan, closed, current, leg, tries,
                 cacheVars, allAlarms, stage, saved, remoteVars>>

FlapExpire(c, t) ==
  /\ t \in flapping[c]
  /\ flapping' = [flapping EXCEPT ![c] = @ \ {t}]
  /\ UNCHANGED <<gateVars, watchVars, alertChan, closed, workVars, sent, inFlight,
                 allAlarms, stage, saved, remoteVars>>

-----------------------------------------------------------------------------
(* runtimeLifecycle.shutdown.                                              *)

StopAlertIngress ==
  /\ stage \in {"starting", "running"}
  /\ accepting' = FALSE
  /\ stage' = "stopped"
  /\ UNCHANGED <<ingress, ctxDone, watchVars, alertChan, closed, workVars, cacheVars,
                 allAlarms, saved, remoteVars>>

\* Mutant: the channel is closed with the cancellation, before the barrier.
CancelAndClose ==
  /\ stage = "stopped"
  /\ ctxDone' = TRUE
  /\ closed' = TRUE
  /\ stage' = "monitors"
  /\ UNCHANGED <<accepting, ingress, watchVars, alertChan, workVars, cacheVars,
                 allAlarms, saved, remoteVars>>

CancelContext ==
  /\ stage = "stopped"
  /\ ctxDone' = TRUE
  /\ stage' = "monitors"
  /\ UNCHANGED <<accepting, ingress, watchVars, alertChan, closed, workVars, cacheVars,
                 allAlarms, saved, remoteVars>>

\* waitForGroups waits for the monitors first, then for the ingress group.
MonitorsQuiesced ==
  /\ stage = "monitors"
  /\ \A c \in Chains : pc[c] \in {"new", "exited"}
  /\ stage' = "ingress"
  /\ UNCHANGED <<gateVars, watchVars, alertChan, closed, workVars, cacheVars,
                 allAlarms, saved, remoteVars>>

CloseAlertChan ==
  /\ stage = "ingress"
  /\ ingress = {}
  /\ closed' = TRUE
  /\ stage' = "drain"
  /\ UNCHANGED <<gateVars, watchVars, alertChan, workVars, cacheVars,
                 allAlarms, saved, remoteVars>>

\* Mutant: the checkpoint does not wait for the worker.
WorkerNotAwaited ==
  /\ stage = "drain"
  /\ stage' = "checkpoint"
  /\ UNCHANGED <<gateVars, watchVars, alertChan, closed, workVars, cacheVars,
                 allAlarms, saved, remoteVars>>

WorkerDrained ==
  /\ stage = "drain"
  /\ worker \in {"new", "exited"}
  /\ stage' = "checkpoint"
  /\ UNCHANGED <<gateVars, watchVars, alertChan, closed, workVars, cacheVars,
                 allAlarms, saved, remoteVars>>

\* The one drain deadline covers both waits.
DrainTimeout ==
  /\ stage \in {"monitors", "ingress", "drain"}
  /\ stage' = "failed"
  /\ UNCHANGED <<gateVars, watchVars, alertChan, closed, workVars, cacheVars,
                 allAlarms, saved, remoteVars>>

SnapshotSavedState ==
  /\ stage = "checkpoint"
  /\ saved' = [sent |-> sent, allAlarms |-> allAlarms]
  /\ stage' = "writing"
  /\ UNCHANGED <<gateVars, watchVars, alertChan, closed, workVars, cacheVars,
                 allAlarms, remoteVars>>

\* The checkpoint function writes the snapshot to disk, or fails.
WriteCheckpoint ==
  /\ stage = "writing"
  /\ stage' \in {"saved", "failed"}
  /\ UNCHANGED <<gateVars, watchVars, alertChan, closed, workVars, cacheVars,
                 allAlarms, saved, remoteVars>>

Exited ==
  /\ stage \in {"saved", "failed"}
  /\ UNCHANGED vars

-----------------------------------------------------------------------------
Watch(c) ==
  \/ \E t \in Emits[c], resolved \in BOOLEAN : Emit(c, t, resolved)
  \/ \E t \in Emits[c] : EmitAtStartup(c, t)
  \/ ValidatorKnown(c)
  \/ Enqueue(c)
  \/ RecordDashboardAlarm(c)
  \/ FinishIngress(c)
  \/ RefusedStalledResolution(c)
  \/ ClearNoBlocks(c)
  \/ WatchExit(c)

Deliver(d) ==
  \/ ReserveDelivery(d)
  \/ AttemptAccepted(d)
  \/ AttemptFailed(d)
  \/ CompleteDelivery(d)

Worker == Receive \/ JoinDeliveries \/ WorkerExit

Shutdown ==
  \/ CancelContext
  \/ MonitorsQuiesced
  \/ CloseAlertChan
  \/ WorkerDrained
  \/ SnapshotSavedState
  \/ WriteCheckpoint

\* Run returns with shutdown's result and the process ends.
Running == stage \notin {"saved", "failed"}

Next ==
  \/ /\ Running
     /\ \/ Start
        \/ \E c \in Chains : Watch(c)
        \/ Worker
        \/ \E d \in Dests : Deliver(d)
        \/ \E c \in Chains, t \in Texts : FlapExpire(c, t)
        \/ StopAlertIngress
        \/ Shutdown
        \/ DrainTimeout
  \/ Exited

Spec == Init /\ [][Next]_vars

(* Goroutines keep running, a request ends within its five-second deadline *)
(* and shutdown goes on once it has begun.  Nothing obliges a chain to     *)
(* alert, a signal to arrive or the drain deadline to fire.                *)
WatchProgress(c) ==
  \/ Enqueue(c)
  \/ RecordDashboardAlarm(c)
  \/ FinishIngress(c)
  \/ ClearNoBlocks(c)
  \/ WatchExit(c)

FairSpec ==
  /\ Spec
  /\ \A c \in Chains : WF_vars(Running /\ WatchProgress(c))
  /\ \A d \in Dests : WF_vars(Running /\ Deliver(d))
  /\ WF_vars(Running /\ Worker)
  /\ WF_vars(Running /\ Shutdown)

-----------------------------------------------------------------------------
(* Safety.                                                                 *)

(* A send on a closed Go channel panics: once shutdown has closed          *)
(* alertChan, no watch goroutine is still on its way to send.              *)
NoSendOnClosedChannel == closed => \A c \in Chains : pc[c] # "send"

(* The checkpoint is a snapshot of a quiescent process: while it is being  *)
(* written and after, no goroutine changes the sent maps or the dashboard  *)
(* alarms any more, nothing is queued and nothing is in flight.            *)
CheckpointIsFinal ==
  stage \in {"writing", "saved"} =>
    /\ saved = [sent |-> sent, allAlarms |-> allAlarms]
    /\ alertChan = <<>>
    /\ \A d \in Dests : inFlight[d] = {}

(* "Resolutions are sent only to destinations that previously accepted the *)
(* matching trigger": no destination ever takes a resolution for a text it *)
(* never took a trigger for.                                               *)
ResolutionFollowsTrigger ==
  [][\A d \in Dests, t \in Texts :
       taken'[d][t] = "resolve" => taken[d][t] # "none"]_vars

(* An attempt under way is never a needless repeat: the destination last   *)
(* took the opposite event for this text, or nothing, or the last delivery *)
(* went unacknowledged and is being made again.                            *)
NoNeedlessRepeat ==
  \A d \in Dests : leg[d] = "send" =>
    \/ current.text \in doubt[d]
    \/ taken[d][current.text] # (IF current.resolved THEN "resolve" ELSE "trigger")

(* When the worker is idle, the sent map tells the truth about what a      *)
(* destination last took, unless the last delivery was not acknowledged.   *)
SentAgreesWithDestination ==
  worker # "deliver" =>
    \A d \in Dests, t \in Texts : t \notin doubt[d] =>
      (t \in sent[d] <=> taken[d][t] = "trigger")

\* Texts only chain c emits.  The sent maps do not tell chains apart, and the
\* text of an inactive validator has its moniker in it but no chain.
Own(c) == {t \in Emits[c] : \A e \in Chains : t \in Emits[e] => e = c}

(* Once everything a chain emitted has been delivered, the dashboard and   *)
(* every enabled destination show the same of the alarms that are its own, *)
(* except where a delivery failed or was suppressed, and except for the    *)
(* stalled alarm a refused resolution clears from the dashboard during     *)
(* shutdown.                                                               *)
DashboardAgreesWithSent ==
  worker # "deliver" /\ alertChan = <<>> =>
    \A c \in Chains : pc[c] \in {"idle", "exited"} =>
      \A t \in Own(c), d \in Enabled[c] : t \notin doubt[d] =>
        /\ t \in allAlarms[c] => t \in sent[d]
        /\ t \in sent[d] => t \in allAlarms[c] \/ (t \in StalledTexts /\ ~accepting)

(* "so resolutions match triggers": while PagerDuty's last event for an    *)
(* alarm Seer holds open is its trigger, the incident under that alarm's   *)
(* dedup key is open.                                                      *)
OpenAlarmHasIncident ==
  \A c \in Chains : \A t \in Emits[c] :
    t \in sent[PD] /\ taken[PD][t] = "trigger" => UniqueId(c, t) \in incidents

(* A destination that has acknowledged an event knows of it before the     *)
(* sent map does, which completeDelivery updates.                          *)
Known == [d \in Dests |->
            IF leg[d] # "accepted" THEN sent[d]
            ELSE IF current.resolved THEN sent[d] \ {current.text}
            ELSE sent[d] \cup {current.text}]

Delivery == INSTANCE AlarmDelivery WITH sent <- Known

(* The queue, the worker, the parallel legs and PagerDuty's retries        *)
(* implement plain alternating delivery: every destination sees the        *)
(* events of an alarm in turn, whatever the other destinations do.         *)
ImplementsAlarmDelivery == Delivery!Spec

(* Liveness.                                                               *)

(* Backpressure ends: a watch goroutine blocked on the full queue always   *)
(* gets its alert in, unless the process ends first.                       *)
BlockedEmissionProceeds ==
  \A c \in Chains : pc[c] = "send" ~> pc[c] # "send" \/ ~Running

(* Shutdown completes even if its deadline never fires: the barrier waits  *)
(* for nothing that waits for it.                                          *)
ShutdownCompletes == stage = "stopped" ~> stage \in {"saved", "failed"}
=============================================================================
