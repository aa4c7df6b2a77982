-------------------------- MODULE NodeHealthProofs --------------------------
(***************************************************************************)
(* Proofs about NodeHealth, for any number of nodes, with or without the   *)
(* public fallback, any deferral and any number of restarts: the types,    *)
(* the down times and the memory of open node alarms.                      *)
(***************************************************************************)
EXTENDS NodeHealth, TLAPS

\* Zenon first: preparing a leaf for SMT takes longer than most leaves do.
USE ZenonT(30), SMTT(30)

(* A process only stops if it may be started again.                        *)
NInv ==
  /\ TypeOK
  /\ stopping => restarts < MaxRestarts
  /\ DownTimeIsReal
  /\ OpenNodeAlarmIsRemembered

-----------------------------------------------------------------------------
(* Before the first connection.                                            *)
LEMMA InitNInv == Init => NInv
<1> SUFFICES ASSUME Init PROVE NInv
  OBVIOUS
<1>1. TypeOK
  <2>1. /\ 1 \in 1..(N + 1) /\ 0 \in 0..N /\ 0 \in 0..MaxRestarts
        /\ 0 \in 0..NoNodesTicks \cup 0..StartupTicks
    BY NodeAssumption
  <2> QED
    BY ZenonT(40), <2>1 DEF Init, TypeOK, Times
<1> QED
  BY <1>1, NodeAssumption DEF Init, NInv, DownTimeIsReal, OpenNodeAlarmIsRemembered

(* The endpoint newRpc succeeded with.                                     *)
LEMMA ViaType ==
  ASSUME NEW i \in 1..(N + 1)
  PROVE  i % (N + 1) \in 0..N
<1>1. N \in Nat
  BY NodeAssumption
<1> QED
  BY <1>1

(* newRpc returns with or without a client.                                *)
LEMMA NewRpcReturnsTypes ==
  ASSUME TypeOK, NEW found \in BOOLEAN, NewRpcReturns(found)
  PROVE  /\ noNodes' \in BOOLEAN /\ hasClient' \in BOOLEAN
         /\ chain' \in {"connect", "newRpc", "ws"} /\ via' \in 0..N
         /\ health' \in {"tick", "probes", "connect", "newRpc"}
         /\ rpcUser' = "none" /\ UNCHANGED <<rpcAt, anyWorking, spent>>
<1>1. rpcAt % (N + 1) \in 0..N
  BY ViaType DEF TypeOK
<1>2. via' \in 0..N
  BY <1>1 DEF TypeOK, NewRpcReturns
<1>3. chain' \in {"connect", "newRpc", "ws"} /\ health' \in {"tick", "probes", "connect", "newRpc"}
  BY DEF TypeOK, NewRpcReturns
<1>4. noNodes' \in BOOLEAN /\ hasClient' \in BOOLEAN
  BY DEF TypeOK, NewRpcReturns
<1> QED
  BY <1>2, <1>3, <1>4 DEF NewRpcReturns

(* Every step of newRpc keeps the invariant.                               *)
LEMMA NewRpcStep ==
  ASSUME NInv, NewRpcTryNode \/ NewRpcFallback
  PROVE  NInv'
<1> USE DEF nodeVars, chainVars, watchVars, lifeVars
<1>a. TypeOK /\ (stopping => restarts < MaxRestarts) /\ DownTimeIsReal
      /\ OpenNodeAlarmIsRemembered
  BY DEF NInv
<1>b. UNCHANGED <<up, probe, watchVars, lifeVars, wasDown>>
  BY ZenonT(40) DEF NewRpcTryNode, NewRpcFallback
<1>1. CASE NewRpcFallback
  <2>1. PICK found \in BOOLEAN : NewRpcReturns(found) /\ UNCHANGED nodeVars
    BY ZenonT(40), <1>1, NodeAssumption, <1>a DEF NewRpcFallback, Reaches, TypeOK, Endpoints
  <2>2. TypeOK'
    BY <1>a, <1>b, <2>1, NewRpcReturnsTypes DEF TypeOK
  <2> QED
    BY <1>a, <1>b, <2>1, <2>2 DEF NInv, DownTimeIsReal, OpenNodeAlarmIsRemembered
<1>2. CASE NewRpcTryNode
  <2>1. rpcAt <= N /\ rpcAt \in Nodes /\ rpcAt + 1 \in 1..(N + 1)
    BY SMTT(30), <1>a, <1>2, NodeAssumption DEF NewRpcTryNode, TypeOK, Nodes
  <2>2. CASE NewRpcReturns(TRUE) /\ UNCHANGED nodeVars
    <3>1. TypeOK'
      BY ZenonT(40), <1>a, <1>b, <2>2, NewRpcReturnsTypes DEF TypeOK
    <3> QED
      BY <1>a, <1>b, <2>2, <3>1 DEF NInv, DownTimeIsReal, OpenNodeAlarmIsRemembered
  <2>3. CASE /\ rpcAt' = rpcAt + 1
             /\ UNCHANGED <<nodeVars, noNodes, hasClient, chainVars, health, rpcUser,
                            anyWorking, spent>>
    <3>1. TypeOK'
      BY SMTT(30), <1>a, <1>b, <2>1, <2>3 DEF TypeOK
    <3> QED
      BY <1>a, <1>b, <2>3, <3>1 DEF NInv, DownTimeIsReal, OpenNodeAlarmIsRemembered
  <2>4. CASE
        /\ downSince' = [downSince EXCEPT ![rpcAt] = IF down[rpcAt] THEN @ ELSE "recent"]
        /\ down' = [down EXCEPT ![rpcAt] = TRUE]
        /\ rpcAt' = rpcAt + 1
        /\ spent' \in {spent, TRUE}
        /\ UNCHANGED <<wasDown, noNodes, hasClient, chainVars, health, rpcUser, anyWorking>>
    <3>1. TypeOK'
      <4>1. down' \in [Nodes -> BOOLEAN] /\ downSince' \in [Nodes -> Times]
        BY <1>a, <2>1, <2>4 DEF TypeOK, Times
      <4>2. spent' \in BOOLEAN
        BY ZenonT(40), <1>a, <2>4 DEF TypeOK
      <4> QED
        BY SMTT(30), <1>a, <1>b, <2>1, <2>4, <4>1, <4>2 DEF TypeOK
    <3>2. DownTimeIsReal'
      BY <1>a, <2>1, <2>4, NodeAssumption DEF DownTimeIsReal, TypeOK
    <3>3. OpenNodeAlarmIsRemembered'
      BY <1>a, <1>b, <2>1, <2>4 DEF OpenNodeAlarmIsRemembered, TypeOK
    <3> QED
      BY <1>a, <1>b, <3>1, <3>2, <3>3 DEF NInv
  <2> QED
    BY ZenonT(40), <1>2, <2>2, <2>3, <2>4 DEF NewRpcTryNode
<1> QED
  BY <1>1, <1>2

(* monitorHealth's probes.                                                 *)
LEMMA ProbeStep ==
  ASSUME NInv, NEW n \in Nodes, Probe(n)
  PROVE  NInv'
<1> USE DEF nodeVars, chainVars, rpcVars, watchVars, lifeVars
<1>a. TypeOK /\ (stopping => restarts < MaxRestarts) /\ DownTimeIsReal
      /\ OpenNodeAlarmIsRemembered
  BY DEF NInv
<1>b. UNCHANGED <<up, hasClient, chainVars, health, rpcVars, watchVars, lifeVars>>
  BY DEF Probe, ProbeUnhealthy, ProbeHealthy, ProbeClearsNoNodes
<1>1. CASE ProbeUnhealthy(n)
  <2>1. /\ down' = [down EXCEPT ![n] = TRUE]
        /\ downSince' = [downSince EXCEPT ![n] =
                           IF ~down[n] /\ n \in AlertIfDown THEN "recent" ELSE @]
        /\ probe' = [probe EXCEPT ![n] = "done"]
        /\ UNCHANGED <<wasDown, noNodes>>
    BY <1>1 DEF ProbeUnhealthy
  <2>2. /\ down' \in [Nodes -> BOOLEAN] /\ downSince' \in [Nodes -> Times]
        /\ probe' \in [Nodes -> {"done", "status", "healthy"}]
    BY <1>a, <2>1 DEF TypeOK, Times
  <2>3. TypeOK'
    BY SMTT(30), <1>a, <1>b, <2>1, <2>2 DEF TypeOK
  <2>4. DownTimeIsReal'
    BY <1>a, <2>1, NodeAssumption DEF DownTimeIsReal, TypeOK
  <2>5. OpenNodeAlarmIsRemembered'
    BY <1>a, <1>b, <2>1 DEF OpenNodeAlarmIsRemembered, TypeOK
  <2> QED
    BY <1>a, <1>b, <2>3, <2>4, <2>5 DEF NInv
<1>2. CASE ProbeHealthy(n)
  <2>1. /\ wasDown' = [wasDown EXCEPT ![n] = @ \/ down[n]]
        /\ down' = [down EXCEPT ![n] = FALSE]
        /\ downSince' = [downSince EXCEPT ![n] = "epoch"]
        /\ probe' = [probe EXCEPT ![n] = "healthy"]
        /\ UNCHANGED noNodes
    BY <1>2 DEF ProbeHealthy
  <2>2. /\ down' \in [Nodes -> BOOLEAN] /\ downSince' \in [Nodes -> Times]
        /\ probe' \in [Nodes -> {"done", "status", "healthy"}]
    BY <1>a, <2>1 DEF TypeOK, Times
  <2>3. wasDown' \in [Nodes -> BOOLEAN]
    BY <1>a, <2>1 DEF TypeOK
  <2>4. TypeOK'
    BY SMTT(30), <1>a, <1>b, <2>1, <2>2, <2>3 DEF TypeOK
  <2>5. DownTimeIsReal'
    BY <1>a, <2>1, NodeAssumption DEF DownTimeIsReal, TypeOK
  <2>6. \A k \in Nodes : down[k] \/ wasDown[k] => down'[k] \/ wasDown'[k]
    BY <1>a, <2>1 DEF TypeOK
  <2>7. OpenNodeAlarmIsRemembered'
    BY <1>a, <1>b, <2>6 DEF OpenNodeAlarmIsRemembered
  <2> QED
    BY <1>a, <1>b, <2>4, <2>5, <2>7 DEF NInv
<1>3. CASE ProbeClearsNoNodes(n)
  <2>1. /\ UNCHANGED nodeVars /\ noNodes' = FALSE
        /\ probe' = [probe EXCEPT ![n] = "done"]
    BY <1>3 DEF ProbeClearsNoNodes
  <2>2. TypeOK'
    <3>1. probe' \in [Nodes -> {"done", "status", "healthy"}]
      BY <1>a, <2>1 DEF TypeOK
    <3>2. noNodes' \in BOOLEAN /\ UNCHANGED nodeVars
      BY ZenonT(40), <2>1
    <3> QED
      BY SMTT(30), <1>a, <1>b, <3>1, <3>2 DEF TypeOK
  <2> QED
    BY <1>a, <1>b, <2>1, <2>2 DEF NInv, DownTimeIsReal, OpenNodeAlarmIsRemembered
<1> QED
  BY <1>1, <1>2, <1>3 DEF Probe

(* watch's node alarms.                                                    *)
LEMMA WatchNodeStep ==
  ASSUME NInv, NEW n \in Nodes, WatchNode(n) \/ WatchResolvesNode
  PROVE  NInv'
<1> USE DEF nodeVars, chainVars, healthVars, rpcVars, lifeVars
<1>a. TypeOK /\ (stopping => restarts < MaxRestarts) /\ DownTimeIsReal
      /\ OpenNodeAlarmIsRemembered
  BY DEF NInv
<1>b. UNCHANGED <<up, down, downSince, noNodes, hasClient, chainVars, healthVars, rpcVars,
                  watching, noNodesAlarm, noNodesSec, noRpcPaged, lifeVars>>
  BY DEF WatchNode, WatchNodeDown, WatchSeesRecovery, WatchResolvesNode
<1>c. DownTimeIsReal'
  BY <1>a, <1>b DEF DownTimeIsReal
<1>1. CASE WatchNodeDown(n)
  <2>1. TypeOK'
    BY SMTT(30), <1>a, <1>b, <1>1 DEF WatchNodeDown, TypeOK
  <2>2. OpenNodeAlarmIsRemembered'
    BY <1>a, <1>b, <1>1 DEF WatchNodeDown, ReportableDown, OpenNodeAlarmIsRemembered, TypeOK
  <2> QED
    BY <1>a, <1>b, <1>c, <2>1, <2>2 DEF NInv
<1>2. CASE WatchSeesRecovery(n)
  <2>1. n \in 0..N
    BY NodeAssumption DEF Nodes
  <2>2. TypeOK'
    BY SMTT(30), <1>a, <1>b, <1>2, <2>1 DEF WatchSeesRecovery, TypeOK
  <2>3. OpenNodeAlarmIsRemembered'
    BY <1>a, <1>b, <1>2 DEF WatchSeesRecovery, OpenNodeAlarmIsRemembered
  <2> QED
    BY <1>a, <1>b, <1>c, <2>2, <2>3 DEF NInv
<1>3. CASE WatchResolvesNode
  <2>1. /\ wasDown' = [wasDown EXCEPT ![clearing] = FALSE]
        /\ paged' = [paged EXCEPT ![clearing] = @ /\ stopping]
        /\ clearing' = 0 /\ UNCHANGED nodeAlarm
    BY <1>3 DEF WatchResolvesNode
  <2>2. clearing \in Nodes /\ 0 \in 0..N
    BY SMTT(30), <1>a, <1>3, NodeAssumption DEF WatchResolvesNode, TypeOK, Nodes
  <2>3. wasDown' \in [Nodes -> BOOLEAN] /\ paged' \in [Nodes -> BOOLEAN]
    BY <1>a, <2>1, <2>2 DEF TypeOK
  <2>4. TypeOK'
    BY SMTT(30), <1>a, <1>b, <2>1, <2>2, <2>3 DEF TypeOK
  <2>5. \A k \in Nodes : ~stopping /\ paged'[k] => paged[k] /\ wasDown'[k] = wasDown[k]
    BY ZenonT(40), <1>a, <2>1, <2>2 DEF TypeOK
  <2>6. OpenNodeAlarmIsRemembered'
    BY <1>a, <1>b, <2>5 DEF OpenNodeAlarmIsRemembered
  <2> QED
    BY <1>a, <1>b, <1>c, <2>4, <2>6 DEF NInv
<1> QED
  BY <1>1, <1>2, <1>3 DEF WatchNode

(* A clean restart.                                                        *)
LEMMA RestartStep ==
  ASSUME NInv, Restart
  PROVE  NInv'
<1> USE DEF rpcVars
<1>a. TypeOK /\ (stopping => restarts < MaxRestarts) /\ DownTimeIsReal
  BY DEF NInv
<1>1. /\ stopping /\ ~stopping' /\ stopping' \in BOOLEAN /\ restarts' = restarts + 1
      /\ down' = [n \in Nodes |-> Restored(n)]
      /\ wasDown' = [n \in Nodes |-> Restored(n)]
      /\ downSince' = [n \in Nodes |-> IF Restored(n) THEN downSince[n] ELSE "zero"]
      /\ noNodes' = \A n \in Nodes : Restored(n)
      /\ hasClient' = FALSE
      /\ chain' = "connect" /\ via' = 0 /\ health' = "tick" /\ watching' = FALSE
      /\ nodeAlarm' = [n \in Nodes |-> FALSE]
      /\ noNodesAlarm' = FALSE /\ noNodesSec' = 0
      /\ UNCHANGED <<up, probe, rpcVars, clearing, paged, noRpcPaged>>
  BY ZenonT(40) DEF Restart
<1>2. \A n \in Nodes : Restored(n) \in BOOLEAN
  BY <1>a DEF Restored, TypeOK
<1>3. /\ down' \in [Nodes -> BOOLEAN] /\ wasDown' \in [Nodes -> BOOLEAN]
      /\ downSince' \in [Nodes -> Times] /\ noNodes' \in BOOLEAN
  BY <1>a, <1>1, <1>2 DEF TypeOK, Times
<1>4. restarts' \in 0..MaxRestarts /\ restarts' # 0
  BY SMTT(30), <1>a, <1>1, NodeAssumption DEF TypeOK
<1>5. TypeOK'
  <2>1. 0 \in 0..N /\ 0 \in 0..NoNodesTicks \cup 0..StartupTicks
    BY NodeAssumption
  <2> QED
    BY ZenonT(40), <1>a, <1>1, <1>3, <1>4, <2>1 DEF TypeOK
<1>6. DownTimeIsReal'
  <2> SUFFICES ASSUME NEW n \in AlertIfDown, down'[n] PROVE downSince'[n] \in {"recent", "old"}
    BY DEF DownTimeIsReal
  <2>1. n \in Nodes
    BY NodeAssumption
  <2>2. Restored(n)
    BY <1>1, <2>1
  <2> QED
    BY <1>a, <1>1, <2>1, <2>2 DEF Restored, DownTimeIsReal
<1> QED
  BY <1>1, <1>4, <1>5, <1>6 DEF NInv, OpenNodeAlarmIsRemembered

(* Every step keeps the invariant.                                         *)
LEMMA NodeStep == NInv /\ [Next]_vars => NInv'
<1> SUFFICES ASSUME NInv, [Next]_vars PROVE NInv'
  OBVIOUS
<1> USE DEF nodeVars, chainVars, healthVars, rpcVars, watchVars, lifeVars
<1>a. TypeOK /\ (stopping => restarts < MaxRestarts) /\ DownTimeIsReal
      /\ OpenNodeAlarmIsRemembered
  BY DEF NInv
<1>b. ASSUME UNCHANGED <<nodeVars, paged, lifeVars>>, TypeOK' PROVE NInv'
  BY <1>a, <1>b DEF NInv, DownTimeIsReal, OpenNodeAlarmIsRemembered
<1>1. ASSUME NEW e \in Flaky, EndpointChanges(e) PROVE NInv'
  <2>1. TypeOK'
    BY SMTT(30), <1>a, <1>1, NodeAssumption DEF EndpointChanges, TypeOK
  <2> QED
    BY <1>b, <1>1, <2>1 DEF EndpointChanges
<1>2. ASSUME NEW n \in Nodes, DownTimePasses(n) PROVE NInv'
  <2>1. TypeOK'
    BY SMTT(30), <1>a, <1>2 DEF DownTimePasses, TypeOK, Times
  <2>2. DownTimeIsReal'
    BY <1>a, <1>2, NodeAssumption DEF DownTimePasses, DownTimeIsReal, TypeOK
  <2> QED
    BY <1>a, <1>2, <2>1, <2>2 DEF DownTimePasses, NInv, OpenNodeAlarmIsRemembered
<1>3. ASSUME NEW user \in {"chain", "health"}, NewRpcBegin(user) PROVE NInv'
  <2>1. 1 \in 1..(N + 1)
    BY NodeAssumption
  <2>2. TypeOK'
    BY ZenonT(40), <1>a, <1>3, <2>1 DEF NewRpcBegin, TypeOK
  <2> QED
    BY <1>b, <1>3, <2>2 DEF NewRpcBegin
<1>4. CASE WebsocketExits \/ HealthTick \/ ProbesDone \/ WatchStarts
  <2>1. 0 \in 0..NoNodesTicks \cup 0..StartupTicks
    BY NodeAssumption
  <2>2. TypeOK'
    <3>1. CASE WebsocketExits
      BY SMTT(30), <1>a, <3>1 DEF WebsocketExits, TypeOK
    <3>2. CASE HealthTick
      BY SMTT(30), <1>a, <3>2 DEF HealthTick, TypeOK
    <3>3. CASE ProbesDone
      BY SMTT(30), <1>a, <3>3 DEF ProbesDone, TypeOK
    <3>4. CASE WatchStarts
      BY SMTT(30), <1>a, <2>1, <3>4 DEF WatchStarts, TypeOK
    <3> QED
      BY <1>4, <3>1, <3>2, <3>3, <3>4
  <2> QED
    BY <1>b, <1>4, <2>2 DEF WebsocketExits, HealthTick, ProbesDone, WatchStarts
<1>5. CASE WatchStartup \/ WatchNoNodes
  <2>1. noNodesSec' \in 0..NoNodesTicks \cup 0..StartupTicks
    BY SMTT(30), <1>a, <1>5, NodeAssumption DEF WatchStartup, WatchNoNodes, TypeOK
  <2>2. noNodesAlarm' \in BOOLEAN /\ noRpcPaged' \in BOOLEAN
    BY ZenonT(40), <1>a, <1>5 DEF WatchStartup, WatchNoNodes, TypeOK
  <2>3. UNCHANGED <<up, nodeVars, noNodes, hasClient, chainVars, healthVars, rpcVars,
                    watching, nodeAlarm, clearing, paged, lifeVars>>
    BY <1>5 DEF WatchStartup, WatchNoNodes
  <2>4. TypeOK'
    BY SMTT(30), <1>a, <2>1, <2>2, <2>3 DEF TypeOK
  <2> QED
    BY <1>b, <2>3, <2>4
<1>6. CASE Stop
  <2>1. TypeOK'
    BY SMTT(30), <1>a, <1>6 DEF Stop, TypeOK
  <2> QED
    BY <1>a, <1>6, <2>1 DEF Stop, NInv, DownTimeIsReal, OpenNodeAlarmIsRemembered
<1>7. CASE UNCHANGED vars
  <2>1. TypeOK'
    BY SMTT(30), <1>a, <1>7 DEF vars, TypeOK
  <2> QED
    BY <1>b, <1>7, <2>1 DEF vars
<1>8. CASE WatchResolvesNode
  <2>1. 1 \in Nodes
    BY SMTT(30), NodeAssumption DEF Nodes
  <2> QED
    BY <1>8, <2>1, WatchNodeStep
<1> QED
  BY <1>1, <1>2, <1>3, <1>4, <1>5, <1>6, <1>7, <1>8, NewRpcStep, ProbeStep, WatchNodeStep,
     RestartStep DEF Next, NewRpc

(* The inductive invariant holds in every reachable state.                 *)
THEOREM NodeInvariant == Spec => []NInv
BY InitNInv, NodeStep, PTL DEF Spec

(* Type correctness of the endpoints' model.                               *)
THEOREM NodeTypes == Spec => []TypeOK
<1>1. NInv => TypeOK
  BY DEF NInv
<1> QED
  BY NodeInvariant, <1>1, PTL

(* watch never compares NodeDownMin with a time that is not the one its    *)
(* node went down, whichever of newRpc, probe and restart marked it.       *)
THEOREM DownTimesAreReal == Spec => []DownTimeIsReal
<1>1. NInv => DownTimeIsReal
  BY DEF NInv
<1> QED
  BY NodeInvariant, <1>1, PTL

(* An open node-down alarm is not forgotten between the two locks under    *)
(* which watch reads and resets a node's recovery.                         *)
THEOREM OpenNodeAlarmsAreRemembered == Spec => []OpenNodeAlarmIsRemembered
<1>1. NInv => OpenNodeAlarmIsRemembered
  BY DEF NInv
<1> QED
  BY NodeInvariant, <1>1, PTL
=============================================================================
