-------------------------- MODULE AlertFeedProofs ---------------------------
(***************************************************************************)
(* Proofs about AlertPipeline, for every instance of it: the dashboard,    *)
(* what is queued or being delivered, and the sent maps follow one another *)
(* for every alarm of every chain, and the incidents at PagerDuty follow   *)
(* the alarms that have a dedup key of their own.                          *)
(***************************************************************************)
EXTENDS AlertPipelineProofs

\* Zenon first: preparing a leaf for SMT takes longer than most leaves do.
USE ZenonT(30), SMTT(30)

(* What the dashboard says of text t of chain c, as soon as the alert is   *)
(* queued, which is just before alert() records it.                        *)
Says(c, t) ==
  IF pc[c] = "record" /\ arg[c].text = t THEN ~arg[c].resolved ELSE t \in allAlarms[c]

(* An event on its way, or an entry of a sent map, agrees with that.       *)
Match(c, t, isOpen) ==
  /\ Says(c, t) => isOpen
  /\ isOpen => Says(c, t) \/ (t \in StalledTexts /\ ~accepting)

Queued(t) == \E i \in DOMAIN alertChan : alertChan[i].text = t

Newest(i, t) ==
  /\ i \in DOMAIN alertChan /\ alertChan[i].text = t
  /\ \A j \in DOMAIN alertChan : alertChan[j].text = t => j <= i

Underway(d, t) == leg[d] # "done" /\ current.text = t

(* The last event on its way to d says what the dashboard does, and if     *)
(* there is none the sent map does, unless d did not acknowledge the last. *)
FeedInv(c, t, d) ==
  /\ \A i \in DOMAIN alertChan : Newest(i, t) => Match(c, t, ~alertChan[i].resolved)
  /\ ~Queued(t) /\ Underway(d, t) => Match(c, t, ~current.resolved)
  /\ ~Queued(t) /\ ~Underway(d, t) /\ t \notin doubt[d] => Match(c, t, t \in sent[d])

(* A delivery that failed for good was not acknowledged.                   *)
FailedInv == \A d \in Dests : leg[d] = "failed" => current.text \in doubt[d]

ShownFeedInv ==
  /\ FailedInv
  /\ \A c \in Chains : \A t \in Own(c), d \in Enabled[c] : FeedInv(c, t, d)

(* Only the attempts and the receipt of an alert touch failed deliveries.  *)
LEMMA FailedStep == IInv /\ FailedInv /\ [Next]_vars => FailedInv'
<1> SUFFICES ASSUME IInv, FailedInv, [Next]_vars, NEW d \in Dests, leg'[d] = "failed"
             PROVE  current'.text \in doubt'[d]
  BY DEF FailedInv
<1>a. TypeOK /\ HandsInv
  BY DEF IInv
<1>1. CASE UNCHANGED <<leg, current, doubt>>
  BY <1>1, Zenon DEF FailedInv
<1>2. CASE Receive
  BY <1>2 DEF Receive
<1>3. CASE JoinDeliveries
  BY <1>3, ZenonT(40) DEF JoinDeliveries
<1>4. ASSUME NEW e \in Dests, Deliver(e) PROVE current'.text \in doubt'[d]
  <2>1. UNCHANGED current
    BY <1>4, ZenonT(40) DEF Deliver, ReserveDelivery, AttemptAccepted, AttemptFailed,
       CompleteDelivery
  <2>2. CASE ReserveDelivery(e)
    <3>1. leg'[e] # "failed" /\ leg[d] = "failed" /\ doubt[d] \subseteq doubt'[d]
      BY <2>2, <1>a DEF ReserveDelivery, TypeOK
    <3> QED
      BY <3>1, <2>1 DEF FailedInv
  <2>3. CASE AttemptAccepted(e)
    <3>1. d # e /\ leg[d] = "failed" /\ doubt'[d] = doubt[d]
      BY <2>3, <1>a DEF AttemptAccepted, TypeOK
    <3> QED
      BY <3>1, <2>1 DEF FailedInv
  <2>4. CASE AttemptFailed(e)
    <3>1. doubt' = [doubt EXCEPT ![e] = @ \cup {current.text}]
      BY <2>4 DEF AttemptFailed
    <3>2. d # e => leg[d] = "failed"
      <4>1. UNCHANGED leg \/ leg' = [leg EXCEPT ![e] = "failed"]
        BY <2>4, ZenonT(40) DEF AttemptFailed
      <4> QED
        BY <4>1, <1>a DEF TypeOK
    <3> QED
      BY <3>1, <3>2, <2>1, <1>a DEF FailedInv, TypeOK
  <2>5. CASE CompleteDelivery(e)
    <3>1. d # e /\ leg[d] = "failed" /\ doubt' = doubt
      BY <2>5, <1>a DEF CompleteDelivery, TypeOK, remoteVars
    <3> QED
      BY <3>1, <2>1 DEF FailedInv
  <2> QED
    BY <1>4, <2>2, <2>3, <2>4, <2>5 DEF Deliver
<1>5. CASE \E c \in Chains : Watch(c)
  BY <1>5, <1>1, WatchFrame DEF workVars, remoteVars
<1>6. CASE StopAlertIngress \/ Shutdown \/ DrainTimeout
  BY <1>6, <1>1, ShutdownFrame DEF workVars, remoteVars
<1>7. CASE Start \/ WorkerExit \/ (\E c \in Chains, t \in Texts : FlapExpire(c, t))
           \/ UNCHANGED vars
  BY <1>7, <1>1, ZenonT(40) DEF Start, WorkerExit, FlapExpire, vars, workVars, remoteVars
<1> QED
  BY <1>2, <1>3, <1>4, <1>5, <1>6, <1>7, ZenonT(40) DEF Next, Worker, Exited

(* A step that changes neither what the dashboard says of an alarm nor     *)
(* what is on its way keeps them in agreement.                             *)
LEMMA FeedFrame ==
  ASSUME NEW c, NEW t, NEW d, FeedInv(c, t, d),
         UNCHANGED <<alertChan, current, leg[d], sent[d], doubt[d], Says(c, t)>>,
         accepting' => accepting
  PROVE  FeedInv(c, t, d)'
<1>1. \A isOpen : Match(c, t, isOpen) => Match(c, t, isOpen)'
  BY Zenon DEF Match
<1>2. /\ \A i : Newest(i, t)' <=> Newest(i, t)
      /\ Queued(t)' <=> Queued(t)
      /\ Underway(d, t)' <=> Underway(d, t)
  BY Zenon DEF Newest, Queued, Underway
<1> QED
  BY <1>1, <1>2 DEF FeedInv

(* The send on alertChan, by the chain itself or by another.               *)
LEMMA FeedEnqueue ==
  ASSUME IInv, EmitInv, NEW c \in Chains, NEW t \in Own(c), NEW d \in Dests, FeedInv(c, t, d),
         NEW e \in Chains, Enqueue(e)
  PROVE  FeedInv(c, t, d)'
<1>a. TypeOK /\ HandsInv
  BY DEF IInv
<1>b. /\ pc[e] = "send" /\ alertChan' = Append(alertChan, arg[e])
      /\ pc' = [pc EXCEPT ![e] = "record"]
      /\ UNCHANGED <<arg, allAlarms, accepting, current, leg, sent, doubt>>
  BY DEF Enqueue, gateVars, workVars, cacheVars, remoteVars
<1>c. arg[e] \in Alerts /\ arg[e].text \in Emits[e]
  BY <1>a, <1>b DEF HandsInv, EmitInv, Genuine, InAlert
<1>d. arg[e].resolved \in BOOLEAN
  BY <1>c, AlertFields
<1> DEFINE n == Len(alertChan)
<1>1. /\ n \in Nat /\ DOMAIN alertChan = 1..n /\ DOMAIN alertChan' = 1..n + 1
      /\ alertChan'[n + 1] = arg[e]
      /\ \A i \in 1..n : alertChan'[i] = alertChan[i]
  BY <1>a, <1>b, <1>c, QueueEnds
<1>e. pc'[e] = "record" /\ \A b \in Chains \ {e} : pc'[b] = pc[b]
  BY <1>a, <1>b DEF TypeOK
<1> HIDE DEF n
<1>2. CASE arg[e].text = t
  <2>1. e = c
    BY <1>2, <1>c DEF Own
  <2>2. Says(c, t)' = ~arg[c].resolved
    BY <2>1, <1>2, <1>b, <1>e DEF Says
  <2>3. Match(c, t, ~arg[c].resolved)'
    BY <2>2, <1>b, <1>d, <2>1 DEF Match
  <2>4. Queued(t)' /\ \A i \in DOMAIN alertChan' : Newest(i, t)' => i = n + 1
    <3>1. n + 1 \in DOMAIN alertChan' /\ alertChan'[n + 1].text = t
      BY <1>1, <1>2
    <3>2. ASSUME NEW i \in DOMAIN alertChan', Newest(i, t)' PROVE i = n + 1
      <4>1. n + 1 <= i
        BY <3>1, <3>2, Zenon DEF Newest
      <4> QED
        BY <4>1, <1>1
    <3> QED
      BY <3>1, <3>2 DEF Queued
  <2> QED
    BY <2>1, <2>3, <2>4, <1>1, <1>b, Zenon DEF FeedInv
<1>3. CASE arg[e].text # t
  <2>1. UNCHANGED Says(c, t)
    BY <1>3, <1>b, <1>e, Zenon DEF Says
  <2>2. \A isOpen : Match(c, t, isOpen) => Match(c, t, isOpen)'
    BY <2>1, <1>b, Zenon DEF Match
  <2>3. \A i \in DOMAIN alertChan' :
          alertChan'[i].text = t => i \in DOMAIN alertChan /\ alertChan'[i] = alertChan[i]
    BY <1>1, <1>3
  <2>4. \A i \in DOMAIN alertChan : i \in DOMAIN alertChan' /\ alertChan'[i] = alertChan[i]
    BY <1>1
  <2>5. Queued(t)' <=> Queued(t)
    BY <2>3, <2>4, Zenon DEF Queued
  <2>6. \A i \in DOMAIN alertChan' : Newest(i, t)' => Newest(i, t) /\ alertChan'[i] = alertChan[i]
    BY <2>3, <2>4, Zenon DEF Newest
  <2>7. \A i \in DOMAIN alertChan' : Newest(i, t)' => Match(c, t, ~alertChan[i].resolved)
    BY <2>6, ZenonT(40) DEF FeedInv, Newest
  <2>8. Underway(d, t)' <=> Underway(d, t)
    BY <1>b, Zenon DEF Underway
  <2> QED
    BY <2>2, <2>5, <2>6, <2>7, <2>8, <1>b DEF FeedInv
<1> QED
  BY <1>2, <1>3

(* The other steps of a watch goroutine.                                   *)
LEMMA FeedWatch ==
  ASSUME IInv, EmitInv, ShownInv, NEW c \in Chains, NEW t \in Own(c), NEW d \in Dests,
         FeedInv(c, t, d), NEW e \in Chains, Watch(e)
  PROVE  FeedInv(c, t, d)'
<1>a. TypeOK /\ HandsInv
  BY DEF IInv
<1>b. UNCHANGED <<accepting, current, leg, sent, doubt>>
  BY WatchFrame DEF workVars, cacheVars, remoteVars
<1>c. t \in Emits[c] /\ t \in Texts
  BY PipelineAssumption DEF Own
<1>1. ASSUME NEW u \in Emits[e], NEW r \in BOOLEAN, NEW id, Passes(e, u, r, id)
      PROVE  FeedInv(c, t, d)'
  <2>1. UNCHANGED <<Says(c, t), alertChan>>
    BY <1>1, <1>a DEF Passes, BeginIngress, Says, TypeOK
  <2> QED
    BY <1>b, <2>1, FeedFrame
<1>2. CASE Enqueue(e)
  BY <1>2, FeedEnqueue
<1>3. CASE RecordDashboardAlarm(e)
  <2>1. arg[e].resolved \in BOOLEAN /\ UNCHANGED <<alertChan, arg>>
    BY <1>3, <1>a, AlertFields DEF RecordDashboardAlarm, HandsInv, InAlert
  <2>2. UNCHANGED Says(c, t)
    <3>1. /\ pc[e] = "record" /\ pc'[e] = "finish"
          /\ allAlarms'[e] = IF arg[e].resolved THEN allAlarms[e] \ {arg[e].text}
                                                ELSE allAlarms[e] \cup {arg[e].text}
          /\ \A b \in Chains \ {e} : pc'[b] = pc[b] /\ allAlarms'[b] = allAlarms[b]
      BY <1>3, <1>a DEF RecordDashboardAlarm, TypeOK
    <3>2. CASE e = c
      BY SMTT(30), <3>1, <3>2, <2>1 DEF Says
    <3>3. CASE e # c
      BY <3>1, <3>3, <2>1, Zenon DEF Says
    <3> QED
      BY <3>2, <3>3
  <2> QED
    BY <1>b, <2>1, <2>2, FeedFrame
<1>4. CASE FinishIngress(e)
  <2>1. UNCHANGED Says(c, t)
    BY <1>4, <1>a DEF FinishIngress, Says, TypeOK
  <2> QED
    BY <1>4, <1>b, <2>1, FeedFrame DEF FinishIngress
<1>5. CASE RefusedStalledResolution(e) \/ WatchExit(e) \/ ValidatorKnown(e)
  <2>1. UNCHANGED <<Says(c, t), alertChan>>
    BY <1>5, <1>a DEF RefusedStalledResolution, WatchExit, ValidatorKnown, Says, TypeOK
  <2> QED
    BY <1>b, <2>1, FeedFrame
<1>6. CASE ClearNoBlocks(e)
  <2>1. /\ pc[e] = "clear" /\ pc'[e] = "idle" /\ UNCHANGED <<alertChan, arg>>
        /\ allAlarms'[e] = allAlarms[e] \ StalledTexts
        /\ \A b \in Chains \ {e} : pc'[b] = pc[b] /\ allAlarms'[b] = allAlarms[b]
    BY <1>6, <1>a DEF ClearNoBlocks, TypeOK
  <2>2. CASE e # c \/ t \notin StalledTexts \/ accepting
    <3>1. UNCHANGED Says(c, t)
      BY SMTT(30), <2>1, <2>2, <1>c DEF Says, ShownInv
    <3> QED
      BY <1>b, <2>1, <3>1, FeedFrame
  <2>3. CASE e = c /\ t \in StalledTexts /\ ~accepting
    <3>1. ~Says(c, t)' /\ ~accepting'
      BY <2>1, <2>3, <1>b DEF Says
    <3>2. \A isOpen : Match(c, t, isOpen)'
      BY <3>1, <2>3, Zenon DEF Match
    <3> QED
      BY <3>2 DEF FeedInv
  <2> QED
    BY <2>2, <2>3
<1> QED
  BY <1>1, <1>2, <1>3, <1>4, <1>5, <1>6, WatchPasses DEF Watch

(* The worker takes the oldest alert up.                                   *)
LEMMA FeedReceive ==
  ASSUME IInv, EmitInv, NEW c \in Chains, NEW t \in Own(c), NEW d \in Enabled[c],
         FeedInv(c, t, d), Receive
  PROVE  FeedInv(c, t, d)'
<1>a. TypeOK /\ HandsInv /\ d \in Dests
  BY PipelineAssumption DEF IInv
<1>b. /\ worker = "idle" /\ alertChan # <<>> /\ current' = Head(alertChan)
      /\ alertChan' = Tail(alertChan)
      /\ leg' = [b \in Dests |-> IF b \in Enabled[Head(alertChan).chain]
                                 THEN "reserve" ELSE "done"]
      /\ UNCHANGED <<pc, arg, allAlarms, accepting, sent, doubt>>
  BY ZenonT(40) DEF Receive, gateVars, watchVars, cacheVars, remoteVars
<1> DEFINE n == Len(alertChan)
<1>1. /\ n \in Nat \ {0} /\ DOMAIN alertChan = 1..n /\ DOMAIN alertChan' = 1..n - 1
      /\ current' = alertChan[1]
      /\ \A i \in 1..n - 1 : alertChan'[i] = alertChan[i + 1]
  BY <1>a, <1>b, QueueEnds
<1> HIDE DEF n
<1>2. ~Underway(d, t)
  BY <1>a, <1>b DEF Underway, HandsInv
<1>3. \A isOpen : Match(c, t, isOpen) => Match(c, t, isOpen)'
  BY <1>b, Zenon DEF Match, Says
<1>4. \A i \in DOMAIN alertChan : i # 1 => i - 1 \in DOMAIN alertChan' /\ alertChan'[i - 1] = alertChan[i]
  <2> SUFFICES ASSUME NEW i \in 1..n, i # 1
               PROVE  i - 1 \in 1..n - 1 /\ alertChan'[i - 1] = alertChan[i]
    BY <1>1
  <2>1. i - 1 \in 1..n - 1 /\ (i - 1) + 1 = i
    BY SMTT(30), <1>1
  <2> QED
    BY <2>1, <1>1
<1>5. \A i \in DOMAIN alertChan' : i + 1 \in DOMAIN alertChan /\ alertChan'[i] = alertChan[i + 1]
  BY SMTT(30), <1>1
<1>6. ASSUME NEW i \in DOMAIN alertChan', Newest(i, t)'
      PROVE  Match(c, t, ~alertChan[i + 1].resolved)
  <2>1. i + 1 \in DOMAIN alertChan /\ alertChan[i + 1].text = t
    BY <1>5, <1>6, Zenon DEF Newest
  <2>2. ASSUME NEW j \in DOMAIN alertChan, alertChan[j].text = t PROVE j <= i + 1
    <3>1. CASE j = 1
      BY SMTT(30), <3>1, <1>1, <2>1
    <3>2. CASE j # 1
      <4>1. j - 1 \in DOMAIN alertChan' /\ alertChan'[j - 1].text = t
        BY <3>2, <2>2, <1>4
      <4>2. j - 1 <= i
        BY <4>1, <1>6, Zenon DEF Newest
      <4> QED
        BY <4>2, <1>1
    <3> QED
      BY <3>1, <3>2
  <2>3. Newest(i + 1, t)
    BY <2>1, <2>2 DEF Newest
  <2> QED
    BY <2>1, <2>3 DEF FeedInv
<1>7. ASSUME ~Queued(t)', alertChan[1].text = t
      PROVE  Match(c, t, ~current.resolved)' /\ Underway(d, t)'
  <2>1. 1 \in DOMAIN alertChan
    BY SMTT(30), <1>1
  <2>2. \A j \in DOMAIN alertChan : alertChan[j].text = t => j = 1
    BY <1>4, <1>7 DEF Queued
  <2>3. Newest(1, t)
    BY SMTT(30), <2>1, <2>2, <1>7, <1>1 DEF Newest
  <2>4. Match(c, t, ~alertChan[1].resolved)
    BY <2>1, <2>3 DEF FeedInv
  <2>5. alertChan[1].chain = c
    <3>1. t \in Emits[alertChan[1].chain]
      BY <2>1, <1>7, Zenon DEF EmitInv, Genuine
    <3>2. alertChan[1] \in Alerts
      BY SMTT(30), <1>a, <1>b DEF TypeOK
    <3> QED
      BY <3>1, <3>2, AlertFields DEF Own
  <2>6. leg'[d] = "reserve"
    BY <2>5, <1>1, <1>a, <1>b
  <2> QED
    BY <2>4, <2>6, <1>1, <1>3, <1>7 DEF Underway
<1>8. ASSUME ~Queued(t)', alertChan[1].text # t
      PROVE  ~Queued(t) /\ ~Underway(d, t)'
  <2>1. ~Queued(t)
    BY <1>8, <1>4 DEF Queued
  <2> QED
    BY <2>1, <1>8, <1>1 DEF Underway
<1>9. t \notin doubt[d] /\ ~Queued(t) => Match(c, t, t \in sent[d])
  BY <1>2 DEF FeedInv
<1> QED
  BY <1>3, <1>5, <1>6, <1>7, <1>8, <1>9, <1>b DEF FeedInv

(* What a leg of deliverAlert does for its destination.                    *)
LEMMA FeedDeliver ==
  ASSUME IInv, FailedInv, NEW c \in Chains, NEW t \in Own(c), NEW d \in Dests,
         FeedInv(c, t, d), NEW e \in Dests, Deliver(e)
  PROVE  FeedInv(c, t, d)'
<1>a. TypeOK /\ HandsInv /\ DestInv(d)
  BY DEF IInv, CacheInv
<1>b. UNCHANGED <<pc, arg, allAlarms, accepting, alertChan, current>>
  BY ZenonT(40) DEF Deliver, ReserveDelivery, AttemptAccepted, AttemptFailed, CompleteDelivery,
     gateVars, watchVars
<1>c. UNCHANGED Says(c, t)
  BY <1>b, Zenon DEF Says
<1>d. leg[e] # "done"
  BY ZenonT(40) DEF Deliver, ReserveDelivery, AttemptAccepted, AttemptFailed, CompleteDelivery
<1>e. current \in Alerts
  BY <1>a, <1>d DEF HandsInv
<1>f. current.text \in Texts /\ current.resolved \in BOOLEAN /\ t \in Texts
  BY <1>e, AlertFields, PipelineAssumption DEF Own
<1>1. CASE e # d
  <2>1. UNCHANGED <<leg[d], sent[d], doubt[d]>>
    <3>1. CASE ReserveDelivery(e)
      BY <1>1, <3>1, <1>a DEF ReserveDelivery, TypeOK
    <3>2. CASE AttemptAccepted(e)
      BY <1>1, <3>2, <1>a DEF AttemptAccepted, TypeOK, cacheVars
    <3>3. CASE AttemptFailed(e)
      BY <1>1, <3>3, <1>a DEF AttemptFailed, TypeOK, cacheVars
    <3>4. CASE CompleteDelivery(e)
      BY <1>1, <3>4, <1>a DEF CompleteDelivery, TypeOK, remoteVars
    <3> QED
      BY <3>1, <3>2, <3>3, <3>4 DEF Deliver
  <2> QED
    BY <2>1, <1>b, <1>c, FeedFrame
<1>2. CASE e = d
  <2>a. \A isOpen : Match(c, t, isOpen) => Match(c, t, isOpen)'
    BY <1>b, <1>c, Zenon DEF Match
  <2>b. (\A i : Newest(i, t)' <=> Newest(i, t)) /\ (Queued(t)' <=> Queued(t))
    BY <1>b, Zenon DEF Newest, Queued
  <2>1. SUFFICES ASSUME ~Queued(t)
                 PROVE  /\ Underway(d, t)' => Underway(d, t)
                        /\ ~Underway(d, t)' /\ t \notin doubt'[d] =>
                             Match(c, t, t \in sent'[d])
    BY <2>a, <2>b, <1>b DEF FeedInv
  <2>2. CASE current.text = t /\ leg'[d] # "done"
    BY <2>2, <1>2, <1>b, <1>d DEF Underway
  <2>3. CASE current.text = t /\ leg'[d] = "done"
    <3>1. Match(c, t, ~current.resolved)
      BY <2>1, <2>3, <1>2, <1>d DEF FeedInv, Underway
    <3>2. t \notin doubt'[d] => (t \in sent'[d] <=> ~current.resolved)
      <4>1. CASE ReserveDelivery(d)
        <5>1. /\ leg[d] = "reserve" /\ UNCHANGED sent /\ inFlight[d] = {}
              /\ doubt' = [doubt EXCEPT ![d] = IF Eligible(current, d)
                                               THEN @ \cup {current.text} ELSE @]
          BY <4>1, <2>3, <1>a DEF ReserveDelivery, DestInv, TypeOK
        <5>2. Eligible(current, d) => t \in doubt'[d]
          BY <5>1, <2>3, <1>a DEF TypeOK
        <5> QED
          BY <5>1, <5>2, <2>3, <1>f DEF Eligible
      <4>2. CASE AttemptAccepted(d)
        BY <4>2, <2>3, <1>a DEF AttemptAccepted, TypeOK
      <4>3. CASE AttemptFailed(d)
        BY <4>3, <2>3, <1>a DEF AttemptFailed, TypeOK
      <4>4. CASE CompleteDelivery(d)
        <5>1. /\ leg[d] \in {"accepted", "failed"} /\ UNCHANGED doubt
              /\ sent'[d] = IF leg[d] = "failed" THEN sent[d]
                            ELSE IF current.resolved THEN sent[d] \ {current.text}
                            ELSE sent[d] \cup {current.text}
          BY <4>4, <1>a DEF CompleteDelivery, TypeOK, remoteVars
        <5>2. leg[d] = "failed" => t \in doubt'[d]
          BY <5>1, <2>3 DEF FailedInv
        <5> QED
          BY <5>1, <5>2, <2>3, <1>f
      <4> QED
        BY <4>1, <4>2, <4>3, <4>4, <1>2 DEF Deliver
    <3>3. ~Underway(d, t)'
      BY <2>3 DEF Underway
    <3> QED
      BY <3>1, <3>2, <3>3, <1>f DEF Match
  <2>4. CASE current.text # t
    <3>1. (t \in sent'[d] <=> t \in sent[d]) /\ (t \in doubt'[d] <=> t \in doubt[d])
      <4>1. CASE ReserveDelivery(d)
        BY SMTT(30), <4>1, <2>4, <1>a DEF ReserveDelivery, TypeOK
      <4>2. CASE AttemptAccepted(d)
        BY <4>2, <2>4, <1>a DEF AttemptAccepted, TypeOK, cacheVars
      <4>3. CASE AttemptFailed(d)
        BY <4>3, <2>4, <1>a DEF AttemptFailed, TypeOK, cacheVars
      <4>4. CASE CompleteDelivery(d)
        BY <4>4, <2>4, <1>a DEF CompleteDelivery, TypeOK, remoteVars
      <4> QED
        BY <4>1, <4>2, <4>3, <4>4, <1>2 DEF Deliver
    <3>2. ~Underway(d, t) /\ ~Underway(d, t)'
      BY <2>4, <1>b DEF Underway
    <3>3. t \notin doubt[d] => Match(c, t, t \in sent[d])
      BY <3>2, <2>1 DEF FeedInv
    <3> QED
      BY <3>1, <3>2, <3>3 DEF Match
  <2> QED
    BY <2>2, <2>3, <2>4
<1> QED
  BY <1>1, <1>2

(* Every step keeps the dashboard and what is on its way in agreement.     *)
LEMMA FeedStep ==
  IInv /\ EmitInv /\ ShownInv /\ ShownFeedInv /\ [Next]_vars => ShownFeedInv'
<1> SUFFICES ASSUME IInv, EmitInv, ShownInv, ShownFeedInv, [Next]_vars PROVE ShownFeedInv'
  OBVIOUS
<1>1. FailedInv'
  BY FailedStep DEF ShownFeedInv
<1>2. ASSUME NEW c \in Chains, NEW t \in Own(c), NEW d \in Enabled[c]
      PROVE  FeedInv(c, t, d)'
  <2>a. FeedInv(c, t, d) /\ d \in Dests /\ FailedInv
    BY PipelineAssumption DEF ShownFeedInv
  <2>b. TypeOK /\ WorkerInv
    BY DEF IInv
  <2>1. CASE Start
    <3>1. pc[c] = "new" /\ pc'[c] \in {"starting", "idle"}
      BY <2>1, <2>b DEF Start, WorkerInv
    <3>2. UNCHANGED <<accepting, alertChan, current, leg, sent, doubt, allAlarms, arg>>
      BY <2>1 DEF Start, gateVars, cacheVars, remoteVars
    <3>3. UNCHANGED Says(c, t)
      BY <3>1, <3>2 DEF Says
    <3> QED
      BY <3>2, <3>3, <2>a, FeedFrame
  <2>2. ASSUME NEW e \in Chains, Watch(e) PROVE FeedInv(c, t, d)'
    BY <2>2, <2>a, FeedWatch
  <2>3. CASE Receive
    BY <2>3, <2>a, FeedReceive
  <2>4. CASE JoinDeliveries
    <3>1. /\ leg[d] = "done" /\ leg'[d] = "done"
          /\ UNCHANGED <<accepting, pc, arg, allAlarms, alertChan, sent, doubt>>
      BY <2>4, <2>a DEF JoinDeliveries, gateVars, watchVars, cacheVars, remoteVars
    <3>2. \A isOpen : Match(c, t, isOpen) => Match(c, t, isOpen)'
      BY <3>1, Zenon DEF Match, Says
    <3>3. (\A i : Newest(i, t)' <=> Newest(i, t)) /\ (Queued(t)' <=> Queued(t))
      BY <3>1, Zenon DEF Newest, Queued
    <3>4. ~Underway(d, t) /\ ~Underway(d, t)'
      BY <3>1, Zenon DEF Underway
    <3> QED
      BY <3>1, <3>2, <3>3, <3>4, <2>a DEF FeedInv
  <2>5. ASSUME NEW e \in Dests, Deliver(e) PROVE FeedInv(c, t, d)'
    BY <2>5, <2>a, FeedDeliver
  <2>6. CASE WorkerExit \/ (\E e \in Chains, u \in Texts : FlapExpire(e, u)) \/ UNCHANGED vars
    <3>1. UNCHANGED <<accepting, pc, arg, allAlarms, alertChan, current, leg, sent, doubt>>
      BY <2>6, ZenonT(40) DEF WorkerExit, FlapExpire, vars, gateVars, watchVars, workVars,
         cacheVars, remoteVars
    <3>2. UNCHANGED Says(c, t)
      BY <3>1, Zenon DEF Says
    <3> QED
      BY <3>1, <3>2, <2>a, FeedFrame
  <2>7. CASE StopAlertIngress \/ Shutdown \/ DrainTimeout
    <3>1. UNCHANGED <<pc, arg, allAlarms, alertChan, current, leg, sent, doubt>>
      BY <2>7, ShutdownFrame DEF watchVars, workVars, cacheVars, remoteVars
    <3>2. accepting' => accepting
      BY <2>7, ZenonT(40) DEF StopAlertIngress, Shutdown, CancelContext, MonitorsQuiesced,
         CloseAlertChan, WorkerDrained, SnapshotSavedState, WriteCheckpoint, DrainTimeout,
         gateVars
    <3>3. UNCHANGED Says(c, t)
      BY <3>1, Zenon DEF Says
    <3> QED
      BY <3>1, <3>2, <3>3, <2>a, FeedFrame
  <2> QED
    BY <2>1, <2>2, <2>3, <2>4, <2>5, <2>6, <2>7, ZenonT(40) DEF Next, Worker, Exited
<1> QED
  BY <1>1, <1>2 DEF ShownFeedInv

(* The process starts with nothing shown and nothing sent.                 *)
LEMMA InitFeed == Init => EmitInv /\ ShownInv /\ ShownFeedInv
<1> SUFFICES ASSUME Init PROVE EmitInv /\ ShownInv /\ ShownFeedInv
  OBVIOUS
<1>1. EmitInv /\ ShownInv
  BY DEF Init, EmitInv, ShownInv, InAlert
<1>2. FailedInv
  BY DEF Init, FailedInv
<1>3. ASSUME NEW c \in Chains, NEW t \in Own(c), NEW d \in Enabled[c]
      PROVE  FeedInv(c, t, d)
  <2>1. d \in Dests
    BY PipelineAssumption
  <2>2. pc[c] = "new" /\ allAlarms[c] = {} /\ leg[d] = "done" /\ sent[d] = {}
    BY <2>1 DEF Init
  <2>3. alertChan = <<>>
    BY DEF Init
  <2>4. DOMAIN alertChan = {}
    BY <2>3
  <2> QED
    BY <2>2, <2>4 DEF FeedInv, Match, Says, Newest, Underway
<1> QED
  BY <1>1, <1>2, <1>3 DEF ShownFeedInv

(* Where every queued, shown and sent alert comes from, in every state.    *)
THEOREM FeedInvariant == Spec => [](IInv /\ EmitInv /\ ShownInv /\ ShownFeedInv)
BY InitFeed, InductiveInvariant, EmitStep, ShownStep, FeedStep, PTL DEF Spec

(* Once everything a chain emitted has been delivered, its dashboard       *)
(* alarms and every destination's sent map agree, for any number of chains *)
(* alerting at once and any queue capacity, except where a delivery was    *)
(* not acknowledged and for the stalled alarm cleared during shutdown.     *)
THEOREM DashboardsAgreeWithSent == Spec => []DashboardAgreesWithSent
<1>1. IInv /\ ShownFeedInv => DashboardAgreesWithSent
  <2> SUFFICES ASSUME IInv, ShownFeedInv, worker # "deliver", alertChan = <<>>,
                      NEW c \in Chains, pc[c] \in {"idle", "exited"},
                      NEW t \in Own(c), NEW d \in Enabled[c], t \notin doubt[d]
               PROVE  /\ t \in allAlarms[c] => t \in sent[d]
                      /\ t \in sent[d] => t \in allAlarms[c] \/ (t \in StalledTexts /\ ~accepting)
    BY ZenonT(40) DEF DashboardAgreesWithSent
  <2>1. FeedInv(c, t, d) /\ d \in Dests
    BY PipelineAssumption DEF ShownFeedInv
  <2>2. leg[d] = "done"
    BY <2>1 DEF IInv, HandsInv
  <2>3. DOMAIN alertChan = {}
    OBVIOUS
  <2>4. ~Queued(t) /\ ~Underway(d, t)
    BY <2>2, <2>3, Zenon DEF Queued, Underway
  <2>5. Match(c, t, t \in sent[d])
    BY <2>1, <2>4 DEF FeedInv
  <2>6. Says(c, t) <=> t \in allAlarms[c]
    BY DEF Says
  <2> QED
    BY <2>5, <2>6 DEF Match
<1> QED
  BY <1>1, FeedInvariant, PTL

-----------------------------------------------------------------------------
(* The alarms of a chain whose dedup key no other alarm has, and that are  *)
(* never raised without it.                                                *)
OwnKey(c) ==
  {t \in Own(c) :
     /\ \A e \in Chains : \A u \in Emits[e] : UniqueId(e, u) = UniqueId(c, t) => u = t
     /\ Kind[t] = "norpc" => c \notin Starting}

KeysApart == \A c \in Chains : Emits[c] \subseteq OwnKey(c)

(* Those are the alarms of a node, and the alarms watch() gives a suffix,  *)
(* where a chain has one text for it.  The stalled alarm and the one for   *)
(* missing endpoints share the bare address.                               *)
LEMMA KeyOfItsOwn ==
  ASSUME NEW c \in Chains, NEW t \in Own(c), Kind[t] \notin {"stalled", "norpc"},
         Kind[t] = "node" \/ \A u \in Emits[c] : Kind[u] = Kind[t] => u = t
  PROVE  t \in OwnKey(c)
<1> SUFFICES ASSUME NEW e \in Chains, NEW u \in Emits[e], UniqueId(e, u) = UniqueId(c, t)
             PROVE  u = t
  BY DEF OwnKey
<1>1. Kind[t] \in Kinds /\ Kind[u] \in Kinds
  BY PipelineAssumption DEF Own
<1>2. CASE Kind[t] = "node"
  <2>1. UniqueId(c, t) = <<t, "url">>
    BY <1>2 DEF UniqueId
  <2>2. Kind[u] \in {"stalled", "norpc"} => UniqueId(e, u) = <<e, "">>
    BY DEF UniqueId
  <2>3. Kind[u] = "node" => UniqueId(e, u) = <<u, "url">>
    BY DEF UniqueId
  <2>4. Kind[u] \notin {"stalled", "norpc", "node"} => UniqueId(e, u) = <<e, Kind[u]>>
    BY DEF UniqueId
  <2> QED
    BY SMTT(30), <2>1, <2>2, <2>3, <2>4, <1>1 DEF Kinds
<1>3. CASE Kind[t] # "node"
  <2>1. UniqueId(c, t) = <<c, Kind[t]>>
    BY <1>3 DEF UniqueId
  <2>2. Kind[u] \in {"stalled", "norpc"} => UniqueId(e, u) = <<e, "">>
    BY DEF UniqueId
  <2>3. Kind[u] = "node" => UniqueId(e, u) = <<u, "url">>
    BY DEF UniqueId
  <2>4. Kind[u] \notin {"stalled", "norpc", "node"} => UniqueId(e, u) = <<e, Kind[u]>>
    BY DEF UniqueId
  <2>5. Kind[t] # "" /\ Kind[t] # "url"
    BY <1>1 DEF Kinds
  <2>6. <<e, "">> # <<c, Kind[t]>> /\ <<u, "url">> # <<c, Kind[t]>>
    BY <2>5
  <2>7. <<e, Kind[u]>> = <<c, Kind[t]>>
    BY <2>1, <2>2, <2>3, <2>4, <2>6, Zenon
  <2>8. e = c /\ Kind[u] = Kind[t]
    BY <2>7
  <2> QED
    BY <2>8, <1>3
<1> QED
  BY <1>2, <1>3

(* The ids watch() passes once it knows the validator are not empty.       *)
LEMMA KeyIsGiven ==
  ASSUME NEW c, NEW t
  PROVE  UniqueId(c, t) # NoKey
<1>1. \A x, y : <<x, y>> # <<>>
  BY SMTT(30)
<1>2. \E x, y : UniqueId(c, t) = <<x, y>>
  BY DEF UniqueId
<1> QED
  BY <1>1, <1>2 DEF NoKey

(* What PagerDuty has open under such a key.                               *)
IncidentInv ==
  \A c \in Chains : \A t \in OwnKey(c) :
    taken[PD][t] = "trigger" => UniqueId(c, t) \in incidents

(* An event for one alarm does not touch the incident of another.          *)
LEMMA IncidentStep == IInv /\ EmitInv /\ IncidentInv /\ [Next]_vars => IncidentInv'
<1> SUFFICES ASSUME IInv, EmitInv, IncidentInv, [Next]_vars,
                    NEW c \in Chains, NEW t \in OwnKey(c), taken'[PD][t] = "trigger"
             PROVE  UniqueId(c, t) \in incidents'
  BY DEF IncidentInv
<1>a. t \in Own(c) /\ t \in Texts /\ PD \in Dests
  BY PipelineAssumption DEF OwnKey, Own
<1>1. CASE UNCHANGED <<taken, incidents>>
  BY <1>1, Zenon DEF IncidentInv
<1>2. CASE ~UNCHANGED <<taken, incidents>>
  <2>1. PICK d \in Dests : leg[d] = "send" /\ Take(current, d)
    BY <1>2, OnlyAttemptsReachDestinations
  <2>2. current \in Alerts /\ Genuine(current) /\ current.text \in Emits[current.chain]
    BY <2>1 DEF IInv, HandsInv, EmitInv, Genuine
  <2>3. current.chain \in Chains /\ current.text \in Texts /\ current.resolved \in BOOLEAN
    BY <2>2, AlertFields
  <2>4. taken' = [taken EXCEPT ![d][current.text] = Event(current)]
    BY <2>1 DEF Take, Event
  <2>5. CASE d = PD /\ current.text = t
    <3>1. current.chain = c
      BY <2>2, <2>3, <2>5, <1>a DEF Own
    <3>2. ~current.resolved
      BY <2>4, <2>5, <1>a DEF Event, IInv, TypeOK
    <3>3. current.uniqueId = UniqueId(c, t)
      BY <3>1, <2>2, <2>5 DEF Genuine, OwnKey
    <3>4. UniqueId(c, t) # NoKey
      BY KeyIsGiven
    <3> QED
      BY <3>2, <3>3, <3>4, <2>1, <2>5 DEF Take
  <2>6. CASE d # PD \/ current.text # t
    <3>1. taken[PD][t] = "trigger"
      BY <2>4, <2>6, <2>3, <1>a DEF IInv, TypeOK
    <3>2. UniqueId(c, t) \in incidents
      BY <3>1, Zenon DEF IncidentInv
    <3>3. d = PD => current.uniqueId # UniqueId(c, t)
      <4>1. d = PD => UniqueId(current.chain, current.text) # UniqueId(c, t)
        BY <2>2, <2>3, <2>6, Zenon DEF OwnKey
      <4> QED
        BY <4>1, <2>2, KeyIsGiven, Zenon DEF Genuine
    <3> QED
      BY <3>2, <3>3, <2>1, <2>6 DEF Take
  <2> QED
    BY <2>5, <2>6
<1> QED
  BY <1>1, <1>2

(* An alarm whose dedup key is its own has its PagerDuty incident open as  *)
(* long as its trigger is the last event PagerDuty took for it: whatever   *)
(* else Seer resolves, whatever deliveries fail or are repeated.           *)
THEOREM OpenAlarmsHaveIncidents ==
  Spec => [](\A c \in Chains : \A t \in OwnKey(c) :
               t \in sent[PD] /\ taken[PD][t] = "trigger" => UniqueId(c, t) \in incidents)
<1>1. Init => IncidentInv
  <2> SUFFICES ASSUME Init, NEW c \in Chains, NEW t \in OwnKey(c) PROVE taken[PD][t] = "none"
    BY DEF IncidentInv
  <2>1. t \in Texts /\ PD \in Dests
    BY PipelineAssumption DEF OwnKey, Own
  <2> QED
    BY <2>1 DEF Init
<1>2. IncidentInv => \A c \in Chains : \A t \in OwnKey(c) :
                       t \in sent[PD] /\ taken[PD][t] = "trigger" => UniqueId(c, t) \in incidents
  BY Zenon DEF IncidentInv
<1> QED
  BY <1>1, <1>2, FeedInvariant, IncidentStep, PTL DEF Spec

(* Resolutions match triggers at PagerDuty if no two alarms share a dedup  *)
(* key, which is what the stalled alarm and the one for missing endpoints  *)
(* of a chain do, and if no chain that starts without a usable endpoint    *)
(* alerts about it, which it does without a key.                           *)
THEOREM IncidentsMatchWhereKeysDiffer ==
  ASSUME KeysApart
  PROVE  Spec => []OpenAlarmHasIncident
<1>1. (\A c \in Chains : \A t \in OwnKey(c) :
         t \in sent[PD] /\ taken[PD][t] = "trigger" => UniqueId(c, t) \in incidents)
        => OpenAlarmHasIncident
  BY ZenonT(40) DEF KeysApart, OpenAlarmHasIncident
<1> QED
  BY <1>1, OpenAlarmsHaveIncidents, PTL
=============================================================================
