----------------------------- MODULE NodeHealth -----------------------------
(***************************************************************************)
(* The RPC endpoints of one chain and the goroutines that share their      *)
(* runtime state: monitorChain, which connects through newRpc whenever its *)
(* websocket is gone; monitorHealth, which probes every endpoint once a    *)
(* minute and calls newRpc itself while there is no client; and watch,     *)
(* which raises and resolves the node-down and no-RPC alarms (with         *)
(* alert_if_no_servers on).                                                *)
(*                                                                         *)
(* Endpoint 0 is the public fallback, endpoints 1..N are the configured    *)
(* nodes in order.  downSince is kept as far as the code tells its values  *)
(* apart: Go's zero time, the Unix epoch a healthy probe stores, a recent  *)
(* time, and one more than NodeDownMin minutes old.                        *)
(***************************************************************************)
EXTENDS Naturals, FiniteSets

CONSTANTS
  N,               \* number of configured nodes
  AlertIfDown,     \* nodes with alert_if_down
  PublicFallback,  \* public_fallback of the chain
  Flaky,           \* bound: endpoints that may fail or come back
  NoNodesTicks,    \* ticks of watch's loop a no-RPC alarm is deferred for
  StartupTicks,    \* ticks of its startup loop before a no-RPC alarm
  MaxRestarts      \* bound: clean restarts of the process

Nodes == 1..N
Endpoints == IF PublicFallback THEN 0..N ELSE Nodes

ASSUME NodeAssumption ==
  /\ N \in Nat \ {0}
  /\ AlertIfDown \subseteq Nodes
  /\ PublicFallback \in BOOLEAN
  /\ Flaky \subseteq Endpoints
  /\ NoNodesTicks \in Nat
  /\ StartupTicks \in Nat
  /\ MaxRestarts \in Nat

VARIABLES
  up,          \* up[e]: endpoint e answers, in sync and on the right network
  down,        \* down[n], wasDown[n], downSince[n]: NodeConfig runtime state
  wasDown,
  downSince,
  noNodes,     \* ChainConfig.noNodes
  hasClient,   \* ChainConfig.client is not nil
  chain,       \* monitorChain: "connect", "newRpc" or "ws"
  via,         \* the endpoint of ChainConfig.client
  health,      \* monitorHealth: "tick", "probes", "connect" or "newRpc"
  probe,       \* probe[n]: "done", "status", "healthy"
  rpcUser,     \* holder of rpcMux in newRpc: "none", "chain" or "health"
  rpcAt,       \* the endpoint newRpc tries next; N + 1: the fallback
  anyWorking,  \* newRpc's local, read before its first try
  spent,       \* the ten seconds newRpc has for all its tries are over
  watching,    \* watch has left its startup loop: the moniker is known
  nodeAlarm,   \* watch's local nodeAlarms
  clearing,    \* the node whose recovery watch has seen, or 0
  noNodesAlarm,\* watch's local noNodes
  noNodesSec,  \* watch's local noNodesSec, in ticks
  paged,       \* paged[n]: node-down alarm emitted and not yet resolved
  noRpcPaged,  \* no-RPC alarm emitted and not yet resolved
  stopping,    \* shutdown has closed the alert gate and cancelled ctx
  restarts

nodeVars  == <<down, wasDown, downSince>>
rpcVars   == <<rpcUser, rpcAt, anyWorking, spent>>
chainVars == <<chain, via>>
healthVars == <<health, probe>>
watchVars == <<watching, nodeAlarm, clearing, noNodesAlarm, noNodesSec, paged,
               noRpcPaged>>
lifeVars  == <<stopping, restarts>>
vars == <<up, nodeVars, noNodes, hasClient, chainVars, healthVars, rpcVars,
          watchVars, lifeVars>>

Times == {"zero", "epoch", "recent", "old"}

TypeOK ==
  /\ up \in [Endpoints -> BOOLEAN]
  /\ down \in [Nodes -> BOOLEAN]
  /\ wasDown \in [Nodes -> BOOLEAN]
  /\ downSince \in [Nodes -> Times]
  /\ noNodes \in BOOLEAN
  /\ hasClient \in BOOLEAN
  /\ chain \in {"connect", "newRpc", "ws"}
  /\ via \in 0..N
  /\ health \in {"tick", "probes", "connect", "newRpc"}
  /\ probe \in [Nodes -> {"done", "status", "healthy"}]
  /\ rpcUser \in {"none", "chain", "health"}
  /\ rpcAt \in 1..(N + 1)
  /\ anyWorking \in BOOLEAN
  /\ spent \in BOOLEAN
  /\ watching \in BOOLEAN
  /\ nodeAlarm \in [Nodes -> BOOLEAN]
  /\ clearing \in 0..N
  /\ noNodesAlarm \in BOOLEAN
  /\ noNodesSec \in 0..NoNodesTicks \cup 0..StartupTicks
  /\ paged \in [Nodes -> BOOLEAN]
  /\ noRpcPaged \in BOOLEAN
  /\ stopping \in BOOLEAN
  /\ restarts \in 0..MaxRestarts

Init ==
  /\ up \in [Endpoints -> BOOLEAN]
  /\ down = [n \in Nodes |-> FALSE]
  /\ wasDown = [n \in Nodes |-> FALSE]
  /\ downSince = [n \in Nodes |-> "zero"]
  /\ noNodes = FALSE /\ hasClient = FALSE
  /\ chain = "connect" /\ via = 0
  /\ health = "tick" /\ probe = [n \in Nodes |-> "done"]
  /\ rpcUser = "none" /\ rpcAt = 1 /\ anyWorking = FALSE /\ spent = FALSE
  /\ watching = FALSE
  /\ nodeAlarm = [n \in Nodes |-> FALSE] /\ clearing = 0
  /\ noNodesAlarm = FALSE /\ noNodesSec = 0
  /\ paged = [n \in Nodes |-> FALSE] /\ noRpcPaged = FALSE
  /\ stopping = FALSE /\ restarts = 0

-----------------------------------------------------------------------------
(* The endpoints and the clock.  External.                                 *)

EndpointChanges(e) ==
  /\ up' = [up EXCEPT ![e] = ~@]
  /\ UNCHANGED <<nodeVars, noNodes, hasClient, chainVars, healthVars, rpcVars,
                 watchVars, lifeVars>>

\* NodeDownMin minutes go by.
DownTimePasses(n) ==
  /\ downSince[n] = "recent"
  /\ downSince' = [downSince EXCEPT ![n] = "old"]
  /\ UNCHANGED <<up, down, wasDown, noNodes, hasClient, chainVars, healthVars,
                 rpcVars, watchVars, lifeVars>>

-----------------------------------------------------------------------------
(* newRpc, run by monitorChain or by monitorHealth under rpcMux.           *)

NewRpcBegin(user) ==
  /\ rpcUser = "none" /\ ~stopping
  /\ rpcUser' = user
  /\ rpcAt' = 1
  /\ spent' = FALSE
  /\ anyWorking' = \E n \in Nodes : ~down[n]
  /\ \/ user = "chain" /\ chain = "connect" /\ chain' = "newRpc" /\ UNCHANGED health
     \/ user = "health" /\ health = "connect" /\ health' = "newRpc" /\ UNCHANGED chain
  /\ UNCHANGED <<up, nodeVars, noNodes, hasClient, via, probe, watchVars, lifeVars>>

\* Mutant: a newRpc that found nothing does not say so.
NewRpcReturnsSilently(found) ==
  /\ noNodes' = (noNodes /\ ~found)
  /\ hasClient' = (hasClient \/ found)
  /\ rpcUser' = "none"
  /\ IF rpcUser = "chain"
     THEN chain' = (IF found THEN "ws" ELSE "connect") /\ UNCHANGED health
     ELSE health' = "tick" /\ UNCHANGED chain
  /\ via' = IF found THEN rpcAt % (N + 1) ELSE via
  /\ UNCHANGED <<rpcAt, anyWorking, spent>>

\* newRpc returns; a client it found replaces the chain's.
NewRpcReturns(found) ==
  /\ noNodes' = ~found
  /\ hasClient' = (hasClient \/ found)
  /\ rpcUser' = "none"
  /\ IF rpcUser = "chain"
     THEN chain' = (IF found THEN "ws" ELSE "connect") /\ UNCHANGED health
     ELSE health' = "tick" /\ UNCHANGED chain
  /\ via' = IF found THEN rpcAt % (N + 1) ELSE via
  /\ UNCHANGED <<rpcAt, anyWorking, spent>>

\* tryURL gets a usable status in time from endpoint e.
Reaches(e) == up[e] /\ ~spent /\ ~stopping

\* One turn of the loop over cc.Nodes: skip, markDown after a failed tryURL,
\* which may have used up the ten seconds, or success.
NewRpcTryNode ==
  /\ rpcUser # "none"
  /\ rpcAt <= N
  /\ \/ /\ anyWorking /\ down[rpcAt]
        /\ rpcAt' = rpcAt + 1
        /\ UNCHANGED <<nodeVars, noNodes, hasClient, chainVars, health, rpcUser,
                       anyWorking, spent>>
     \/ /\ ~(anyWorking /\ down[rpcAt])
        /\ ~Reaches(rpcAt)
        /\ downSince' = [downSince EXCEPT ![rpcAt] = IF down[rpcAt] THEN @ ELSE "recent"]
        /\ down' = [down EXCEPT ![rpcAt] = TRUE]
        /\ rpcAt' = rpcAt + 1
        /\ spent' \in {spent, TRUE}
        /\ UNCHANGED <<wasDown, noNodes, hasClient, chainVars, health, rpcUser, anyWorking>>
     \/ /\ ~(anyWorking /\ down[rpcAt])
        /\ Reaches(rpcAt)
        /\ NewRpcReturns(TRUE)
        /\ UNCHANGED nodeVars
  /\ UNCHANGED <<up, probe, watchVars, lifeVars>>

\* The public fallback, and the verdict that no endpoint is usable.
NewRpcFallback ==
  /\ rpcUser # "none"
  /\ rpcAt = N + 1
  /\ NewRpcReturns(PublicFallback /\ Reaches(0))
  /\ UNCHANGED <<up, nodeVars, probe, watchVars, lifeVars>>

\* WsRun returns: the websocket broke or no block came for a minute.
WebsocketExits ==
  /\ chain = "ws"
  /\ chain' = "connect"
  /\ UNCHANGED <<up, nodeVars, noNodes, hasClient, via, healthVars, rpcVars,
                 watchVars, lifeVars>>

-----------------------------------------------------------------------------
(* monitorHealth.                                                          *)

HealthTick ==
  /\ health = "tick"
  /\ health' = "probes"
  /\ probe' = [n \in Nodes |-> "status"]
  /\ UNCHANGED <<up, nodeVars, noNodes, hasClient, chainVars, rpcVars, watchVars, lifeVars>>

\* Mutant: the down time is not started.
ProbeKeepsDownSince(n) ==
  /\ probe[n] = "status"
  /\ ~up[n] \/ stopping
  /\ down' = [down EXCEPT ![n] = TRUE]
  /\ probe' = [probe EXCEPT ![n] = "done"]
  /\ UNCHANGED <<up, wasDown, downSince, noNodes, hasClient, chainVars, health, rpcVars,
                 watchVars, lifeVars>>

\* markUnhealthy, after an error, the wrong network, a node still syncing or
\* the cancelled context: the down time starts only for a node that alerts.
ProbeUnhealthy(n) ==
  /\ probe[n] = "status"
  /\ ~up[n] \/ stopping
  /\ down' = [down EXCEPT ![n] = TRUE]
  /\ downSince' = [downSince EXCEPT ![n] =
                     IF ~down[n] /\ n \in AlertIfDown THEN "recent" ELSE @]
  /\ probe' = [probe EXCEPT ![n] = "done"]
  /\ UNCHANGED <<up, wasDown, noNodes, hasClient, chainVars, health, rpcVars,
                 watchVars, lifeVars>>

\* Mutant: the recovery is not remembered for watch.
ProbeForgetsOutage(n) ==
  /\ probe[n] = "status"
  /\ up[n] /\ ~stopping
  /\ down' = [down EXCEPT ![n] = FALSE]
  /\ downSince' = [downSince EXCEPT ![n] = "epoch"]
  /\ probe' = [probe EXCEPT ![n] = "healthy"]
  /\ UNCHANGED <<up, wasDown, noNodes, hasClient, chainVars, health, rpcVars,
                 watchVars, lifeVars>>

ProbeHealthy(n) ==
  /\ probe[n] = "status"
  /\ up[n] /\ ~stopping
  /\ wasDown' = [wasDown EXCEPT ![n] = @ \/ down[n]]
  /\ down' = [down EXCEPT ![n] = FALSE]
  /\ downSince' = [downSince EXCEPT ![n] = "epoch"]
  /\ probe' = [probe EXCEPT ![n] = "healthy"]
  /\ UNCHANGED <<up, noNodes, hasClient, chainVars, health, rpcVars, watchVars, lifeVars>>

\* setNoNodes(false), under the lock a second time.
ProbeClearsNoNodes(n) ==
  /\ probe[n] = "healthy"
  /\ noNodes' = FALSE
  /\ probe' = [probe EXCEPT ![n] = "done"]
  /\ UNCHANGED <<up, nodeVars, hasClient, chainVars, health, rpcVars, watchVars, lifeVars>>

ProbesDone ==
  /\ health = "probes"
  /\ \A n \in Nodes : probe[n] = "done"
  /\ health' = IF hasClient \/ stopping THEN "tick" ELSE "connect"
  /\ UNCHANGED <<up, nodeVars, noNodes, hasClient, chainVars, probe, rpcVars,
                 watchVars, lifeVars>>

-----------------------------------------------------------------------------
(* The endpoint checks of watch.  The gate refuses alerts while the        *)
(* process stops; what they would change of watch's locals dies with it.   *)

\* The startup loop, every second: noNodesSec counts whatever noNodes says.
WatchStartup ==
  /\ ~watching /\ ~stopping
  /\ noNodesSec' = IF noNodesSec < StartupTicks THEN noNodesSec + 1 ELSE noNodesSec
  /\ IF ~noNodesAlarm /\ noNodes /\ noNodesSec >= StartupTicks
     THEN noNodesAlarm' = TRUE /\ noRpcPaged' = TRUE
     ELSE UNCHANGED <<noNodesAlarm, noRpcPaged>>
  /\ UNCHANGED <<up, nodeVars, noNodes, hasClient, chainVars, healthVars, rpcVars,
                 watching, nodeAlarm, clearing, paged, lifeVars>>

\* Mutant: leaving the startup loop resets the latch of the no-RPC alarm.
WatchStartsAfresh ==
  /\ ~watching /\ ~stopping
  /\ hasClient /\ up[via]
  /\ watching' = TRUE
  /\ noNodesSec' = 0 /\ noNodesAlarm' = FALSE
  /\ UNCHANGED <<up, nodeVars, noNodes, hasClient, chainVars, healthVars, rpcVars,
                 nodeAlarm, clearing, paged, noRpcPaged, lifeVars>>

\* GetValInfo has published the moniker, through a client that works.
WatchStarts ==
  /\ ~watching /\ ~stopping
  /\ hasClient /\ up[via]
  /\ watching' = TRUE
  /\ noNodesSec' = 0
  /\ UNCHANGED <<up, nodeVars, noNodes, hasClient, chainVars, healthVars, rpcVars,
                 nodeAlarm, clearing, noNodesAlarm, paged, noRpcPaged, lifeVars>>

\* Mutant: the alarm is deferred for one tick too many.
WatchDefersLonger ==
  /\ watching /\ clearing = 0 /\ ~stopping
  /\ ~noNodesAlarm /\ noNodes
  /\ IF noNodesSec <= NoNodesTicks
     THEN noNodesSec' = noNodesSec + 1 /\ UNCHANGED <<noNodesAlarm, noRpcPaged>>
     ELSE noNodesSec' = 0 /\ noNodesAlarm' = TRUE /\ noRpcPaged' = TRUE
  /\ UNCHANGED <<up, nodeVars, noNodes, hasClient, chainVars, healthVars, rpcVars,
                 watching, nodeAlarm, clearing, paged, lifeVars>>

\* The main loop, every two seconds.
WatchNoNodes ==
  /\ watching /\ clearing = 0 /\ ~stopping
  /\ \/ /\ ~noNodesAlarm /\ noNodes
        /\ IF noNodesSec < NoNodesTicks
           THEN noNodesSec' = noNodesSec + 1 /\ UNCHANGED <<noNodesAlarm, noRpcPaged>>
           ELSE noNodesSec' = 0 /\ noNodesAlarm' = TRUE /\ noRpcPaged' = TRUE
     \/ /\ noNodesAlarm /\ ~noNodes
        /\ noNodesAlarm' = FALSE /\ noRpcPaged' = FALSE
        /\ UNCHANGED noNodesSec
     \/ /\ noNodesAlarm <=> noNodes
        /\ noNodesSec' = 0
        /\ UNCHANGED <<noNodesAlarm, noRpcPaged>>
  /\ UNCHANGED <<up, nodeVars, noNodes, hasClient, chainVars, healthVars, rpcVars,
                 watching, nodeAlarm, clearing, paged, lifeVars>>

\* Both the epoch and an old time are more than NodeDownMin minutes ago.
ReportableDown(n) ==
  /\ n \in AlertIfDown
  /\ down[n] /\ ~wasDown[n]
  /\ downSince[n] \in {"epoch", "old"}

WatchNodeDown(n) ==
  /\ watching /\ clearing = 0 /\ ~stopping
  /\ ReportableDown(n)
  /\ ~nodeAlarm[n]
  /\ nodeAlarm' = [nodeAlarm EXCEPT ![n] = TRUE]
  /\ paged' = [paged EXCEPT ![n] = TRUE]
  /\ UNCHANGED <<up, nodeVars, noNodes, hasClient, chainVars, healthVars, rpcVars,
                 watching, clearing, noNodesAlarm, noNodesSec, noRpcPaged, lifeVars>>

\* The state is read under one lock and wasDown reset under the next.
WatchSeesRecovery(n) ==
  /\ watching /\ clearing = 0 /\ ~stopping
  /\ n \in AlertIfDown
  /\ ~down[n] /\ wasDown[n]
  /\ nodeAlarm' = [nodeAlarm EXCEPT ![n] = FALSE]
  /\ clearing' = n
  /\ UNCHANGED <<up, nodeVars, noNodes, hasClient, chainVars, healthVars, rpcVars,
                 watching, noNodesAlarm, noNodesSec, paged, noRpcPaged, lifeVars>>

WatchResolvesNode ==
  /\ clearing # 0
  /\ wasDown' = [wasDown EXCEPT ![clearing] = FALSE]
  /\ paged' = [paged EXCEPT ![clearing] = @ /\ stopping]
  /\ clearing' = 0
  /\ UNCHANGED <<up, down, downSince, noNodes, hasClient, chainVars, healthVars,
                 rpcVars, watching, nodeAlarm, noNodesAlarm, noNodesSec, noRpcPaged,
                 lifeVars>>

-----------------------------------------------------------------------------
(* A clean restart: requests under way when shutdown cancels the context   *)
(* fail, the monitors are drained, snapshotSavedState keeps the down nodes *)
(* and restoreSavedState brings them back; watch starts over.              *)
Stop ==
  /\ ~stopping
  /\ restarts < MaxRestarts
  /\ stopping' = TRUE
  /\ UNCHANGED <<up, nodeVars, noNodes, hasClient, chainVars, healthVars, rpcVars,
                 watchVars, restarts>>

Restored(n) == down[n] /\ downSince[n] # "zero"

Restart ==
  /\ stopping
  /\ rpcUser = "none" /\ clearing = 0
  /\ \A n \in Nodes : probe[n] = "done"
  /\ stopping' = FALSE
  /\ restarts' = restarts + 1
  /\ down' = [n \in Nodes |-> Restored(n)]
  /\ wasDown' = [n \in Nodes |-> Restored(n)]
  /\ downSince' = [n \in Nodes |-> IF Restored(n) THEN downSince[n] ELSE "zero"]
  /\ noNodes' = \A n \in Nodes : Restored(n)
  /\ hasClient' = FALSE
  /\ chain' = "connect" /\ via' = 0
  /\ health' = "tick"
  /\ watching' = FALSE
  /\ nodeAlarm' = [n \in Nodes |-> FALSE]
  /\ noNodesAlarm' = FALSE /\ noNodesSec' = 0
  /\ UNCHANGED <<up, probe, rpcVars, clearing, paged, noRpcPaged>>

NewRpc == NewRpcTryNode \/ NewRpcFallback

Probe(n) == ProbeUnhealthy(n) \/ ProbeHealthy(n) \/ ProbeClearsNoNodes(n)

WatchNode(n) == WatchNodeDown(n) \/ WatchSeesRecovery(n)

Next ==
  \/ \E e \in Flaky : EndpointChanges(e)
  \/ \E n \in Nodes : DownTimePasses(n)
  \/ \E user \in {"chain", "health"} : NewRpcBegin(user)
  \/ NewRpc
  \/ WebsocketExits
  \/ HealthTick
  \/ \E n \in Nodes : Probe(n)
  \/ ProbesDone
  \/ WatchStartup
  \/ WatchStarts
  \/ WatchNoNodes
  \/ \E n \in Nodes : WatchNode(n)
  \/ WatchResolvesNode
  \/ Stop
  \/ Restart

Spec == Init /\ [][Next]_vars

(* Time passes and goroutines run; watch looks at everything in each turn  *)
(* of its loop; rpcMux is granted to whoever waits for it; a refresh of    *)
(* the validator through a working client succeeds in the end, and a       *)
(* websocket through a dead endpoint exits.  Nothing obliges an endpoint   *)
(* to change, a live websocket to break or the process to restart.         *)
FairSpec ==
  /\ Spec
  /\ \A n \in Nodes : WF_vars(DownTimePasses(n))
  /\ \A user \in {"chain", "health"} : SF_vars(NewRpcBegin(user))
  /\ WF_vars(NewRpc)
  /\ WF_vars(via \in Endpoints /\ ~up[via] /\ WebsocketExits)
  /\ WF_vars(HealthTick)
  /\ \A n \in Nodes : WF_vars(Probe(n))
  /\ WF_vars(ProbesDone)
  /\ WF_vars(WatchStartup)
  /\ SF_vars(WatchStarts)
  /\ SF_vars(WatchNoNodes)
  /\ \A n \in Nodes : SF_vars(WatchNode(n))
  /\ WF_vars(WatchResolvesNode)
  /\ WF_vars(Restart)

-----------------------------------------------------------------------------
(* A node that alerts is never down since the epoch or since never: the    *)
(* time compared with NodeDownMin is the time it was marked down.          *)
DownTimeIsReal ==
  \A n \in AlertIfDown : down[n] => downSince[n] \in {"recent", "old"}

(* Within one process lifetime, an open node-down alarm is remembered: its *)
(* node is still down, or its recovery is waiting to be resolved.          *)
OpenNodeAlarmIsRemembered ==
  restarts = 0 /\ ~stopping => \A n \in Nodes : paged[n] => down[n] \/ wasDown[n]

(* Every endpoint failing for good ends in a standing no-RPC alarm, whether*)
(* or not the validator was ever reached.                                  *)
OutageIsReported == (\A e \in Endpoints : <>[](~up[e])) => <>[]noRpcPaged

(* A lone configured node that works for good ends the no-RPC state and    *)
(* its alarm.                                                              *)
OutageIsResolved == N = 1 => (<>[]up[1] => <>[](~noNodes /\ ~noRpcPaged))

(* "Alert when no RPC endpoint is usable": with a configured node that     *)
(* works for good, the no-RPC alarm does not stand forever.                *)
UsableNodeEndsAlarm == \A n \in Nodes : <>[]up[n] => []<>(~noRpcPaged)

(* The alarm of a node that works for good is resolved.                    *)
NodeRecoveryIsResolved == \A n \in AlertIfDown : <>[]up[n] => <>[](~paged[n])

(* "NodeDownMin controls how long we wait before sending an alert that a   *)
(* node is not responding": while the validator is watched, the alarm of a *)
(* node that stays down is raised.                                         *)
NodeOutageIsReported ==
  \A n \in AlertIfDown : <>[](~up[n] /\ watching /\ ~stopping) => <>[]paged[n]
=============================================================================
