# NosNode Seer in TLA+

NosNode Seer watches Cosmos validators: one Go process with a set of goroutines
per chain, a shared alarm cache, one notification worker and a state file that
is written once, at a clean shutdown. This directory holds TLA+ models of those
parts, the TLC configurations that check them on small instances, and TLAPS
proofs of what they promise for instances of any size.
`PROJECT.json` maps every definition to the lines it models and lists the runs,
the mutants that show each property can fail, the hazards and the findings.

## The system and its parts

| Part | Source | Model |
|---|---|---|
| Alert fan-out and suppression | `seer/alert.go`, `seer/run.go` | `AlertPipeline`, `AlarmDelivery` |
| Runtime lifecycle, shutdown | `seer/run.go`, `seer/runtime_state.go` | `AlertPipeline` |
| Durable state file | `seer/state.go` | `StateStore`, `StableDocument` |
| Restored runtime state | `seer/state.go`, `seer/types.go` | `SeerRestart`; node state in `NodeHealth`, block row in `BlockMonitor` |
| RPC endpoint selection, health probes | `seer/rpc.go` | `NodeHealth` |
| `watch`: no-RPC and node-down alarms | `seer/alert.go` | `NodeHealth` |
| `watch`: stalled chain, consecutive misses | `seer/alert.go` | `BlockMonitor` |
| Validator refresh | `seer/validator.go`, `seer/runtime_state.go` | `ValidatorWatch` |
| `watch`: inactive validator, missed percentage | `seer/alert.go` | `ValidatorWatch`, composed in `SeerRestart` |
| Websocket sessions | `seer/ws.go`, `seer/rpc_contract.go` | `BlockMonitor` |
| CometBFT adapter | `seer/cometbft_adapter.go` | not modelled: decoding |
| Configuration, encryption | `seer/types.go`, `seer/encryption.go` | not modelled: sequential, before anything runs |
| Dashboard server | `seer/dashboard` | `Serve`'s update loop in `BlockMonitor`; the rest is I/O |
| Prometheus exporter | `seer/prometheus.go` | not modelled: gauges set from a channel |
| Healthcheck ping | `seer/rpc.go` | not modelled: keeps no state |
| Public endpoints, chain table | `seer/chain-details.go`, `seer/init.go` | not modelled: lookups |
| Command line | `main.go` | not modelled: sequential |

How they interact: `monitorChain` connects with `newRpc`, reads the validator
with `GetValInfo` and runs `WsRun`, whose result worker judges blocks and tells
the dashboard; `monitorHealth` probes the endpoints and refreshes the validator
too; `watch` turns
what these leave in `ChainConfig` into alerts; `alert` passes them through the
ingress gate into `alertChan`; the worker delivers each to its destinations and
records it in the alarm cache; `shutdown` drains all of it and saves the cache,
the block rows and the down nodes, and the next process starts from them.

## AlertPipeline

State: the gate (`accepting`, `ingress`, `ctxDone`), one watch goroutine per
chain (`pc`, `arg`), the channel, the worker with one `leg` per destination, the
cache (`sent`, `inFlight`, `flapping`, `allAlarms`), the stage of `shutdown` and
its checkpoint. `taken`, `incidents` and `doubt` record what the destinations
saw and which deliveries were not acknowledged; no action reads them.

| Actions | Code |
|---|---|
| `Emit`, `EmitAtStartup`, `ValidatorKnown`, `WatchExit` | `watch`, in its loop and while it waits for the validator to be known |
| `BeginIngress`, `Enqueue`, `RecordDashboardAlarm`, `FinishIngress` | `alert`, step by step |
| `ClearNoBlocks`, `RefusedStalledResolution` | the end of `checkStalledAlert`, whose clearing goes on when the gate refuses the alert |
| `Receive`, `JoinDeliveries`, `WorkerExit` | `notificationWorker`, `deliverAlert` |
| `ReserveDelivery`, `AttemptAccepted`, `AttemptFailed`, `CompleteDelivery` | `reserveDelivery`, the `notify*` functions, `completeDelivery` |
| `StopAlertIngress` ... `SnapshotSavedState`, `WriteCheckpoint`, `DrainTimeout` | `runtimeLifecycle.shutdown` |

A failed attempt may have been taken by the destination. Map timestamps are
reduced to presence; the flapping window ends with `FlapExpire`. The watch
goroutines may emit any text with either polarity, which includes everything the
checks of `watch` do. Before the validator is known (chains in `Starting`) it has
the no-RPC alarm only, and passes it without an address (`NoKey`). The snapshot
is taken in memory and then written, with the other goroutines free to run in
between; `CheckpointIsFinal` says that none is left to change what it holds.
`PipelineAssumption` says that a chain has one text for the
stalled alarm, which the code makes of the chain's id and its `stalled_minutes`.
The sent maps are keyed by the text alone: `Own(c)` are the texts no other chain
emits, and `DashboardAgreesWithSent` speaks of those.

`AlarmDelivery` is what all this promises one alarm and one destination: the
events alternate, and only one whose acknowledgement was lost is given again. It
has no queue, worker or retry. `ImplementsAlarmDelivery` maps a delivery the
destination accepted and the worker has not yet completed (`Known`) to an
acknowledged one.

- `pipeline_delivery` (one chain, two alarms, PagerDuty and Slack, three
  alerts): type invariant, suppression and dashboard against the destinations,
  and the refinement of `AlarmDelivery`.
  Three alerts are a trigger, its resolution and a repeat, the longest pattern
  `reserveDelivery` tells apart; Slack stands for the three destinations that
  make one attempt.
- `pipeline_shutdown` (two chains, a queue of one, so that one chain blocks
  behind the other; one of them starts without a usable endpoint): the barrier,
  and that nothing hangs.
- `pipeline_shared_id`: expected violation, see Findings.

Fairness: goroutines run, a request ends within its five-second deadline, and
shutdown goes on once begun. Nothing obliges a chain to alert, a signal to
arrive or the drain deadline to fire.

## StateStore and StableDocument

`seen` is what a process reads, `durable` what is left when renames that were
not followed by a directory sync are lost, `unsafe` the files renamed before
their bytes were synced. `LoadState` is `loadState`; `ReadCurrent` to
`SyncDirectory` are the steps of `writeStateAtomic`, first for the backup, then
for the primary. Every step can fail, the process can be killed and the machine
can lose power. Init takes any pair of files: valid, missing, damaged, or of a
future version. A document is its number.

`StableDocument` is the promise: one document, installed all at once, hardened
by the end of a checkpoint, never mixed. `ImplementsStableDocument` maps the
files to it through `loadState`'s choice. `state_store` checks three checkpoints
on top of the initial pair, one more than the two files can hold.

## NodeHealth

One chain's endpoints: `down`, `wasDown` and `downSince` as `monitorHealth`,
`newRpc` and `watch` change them, each critical section an action of its own.
`downSince` has the four values the code tells apart. `spent` says the ten
seconds `newRpc` has for all its tries are over. `Stop` and `Restart` are a clean
restart with the node state saved and restored; requests under way at shutdown
fail and mark nodes down. The dashboard status `newRpc` sends is in
`BlockMonitor`.

- `node_health`: two nodes that fail and recover, one of which alerts, and one
  restart; two nodes are needed for one to be skipped while the other works.
- `node_health_live`: one node and the public fallback, both alarm delays one
  tick, so that waiting and giving up are both seen.
- `node_outage`, `node_starvation`: expected violations, see Findings.

Fairness: time passes, goroutines run, `rpcMux` is granted to whoever keeps
asking (strong, since the mutex is taken between the requests; Go's mutex does
not starve), `watch` looks at everything in each turn (strong, since what it
looks at changes between turns), a refresh through a working client succeeds in
the end and a websocket through a dead endpoint exits. Nothing obliges an
endpoint to change, a live websocket to break or the process to restart.

## BlockMonitor

The goroutines of `WsRun` and the message in the hand of each (the channels are
unbuffered), the result worker's `signState`, the row and the counters, the
stalled latch, and the consecutive-miss latch of `watch`. The chain shows the
validator's votes for the next height and then the block; votes have the four
statuses `classifyVoteEvent` gives them: prevote, precommit, proposal, and none
for an unknown type. `signBy`, `newBlock`, `fresh` and `sentBehind` are history
variables. Sessions open, break and are cancelled at any time, without a bound.

The row may start with the misses an earlier process saved (`Restored`), of
which the counters know nothing. After a block the worker sends the row through
`updateChan`, which outlives the sessions and has room for two updates of a
chain; this send does not heed the session's context. `Serve` takes updates off
it and caches what the dashboard shows. `config` is drawn at the start from
`Configs`, as each check and the dashboard can be switched off. Left out are the
metric sends, which give up with the context.

`newRpc` sends the row too when it finds no endpoint (`NewRpcFails` takes the
row, `NewRpcSends` waits for room). `monitorChain` calls it between sessions,
`monitorHealth` when its tick finds no client, both under `rpcMux`. So
`monitorHealth` can begin before there is a client and still wait for `rpcMux` or
for room when `monitorChain` has found one and opened a session. Its row may then
arrive behind newer ones; `sentBehind` says the last row sent was such a one.

- `block_monitor`: three blocks with a vote each (a precommit, a proposal or one
  of unknown type), a row of two, misses and signs, the validator
  leaving and joining the active set, a restored row: the row overflows and a
  streak can be broken and start again.
- `block_monitor_live`: two blocks, missed or proposed, with the two alarms or
  with the dashboard, whose channel two blocks and the first status fill. Besides
  the liveness, that no recorded row is lost or overtaken on its way to the
  dashboard, but for the row `monitorHealth` sends late (`NewestRowIsOnItsWay`),
  of which `DashboardCatchesUp` is what fairness adds.
  Fairness: goroutines run (`Serve`'s for the life of the process), `watch` looks
  every two seconds, a read on a closed connection fails. Nothing obliges the
  chain to make blocks, a session to open or break, or `newRpc` to get anywhere.
- `block_tags`: expected violation, see Findings.

## ValidatorWatch and SeerRestart

`ValidatorWatch` is one process's knowledge of its validator. `onChain` changes
at any time; `QueryValidator` and `QuerySigningInfo` are the two halves of
`GetValInfo`, called by `monitorHealth` and, with `first` set, by `monitorChain`
at a reconnection, under `rpcMux`; either half can fail. The second publishes the
record, and the previous one with it unless `first` is set. `watch` takes the
pair (`WatchWakes`), and then checks it for a change of the active set
(`CheckInactive`, no latch) and the counter for the percentage
(`CheckPercentage`, latched). The percentage, a float in the code, is compared by
cross-multiplication.

`Emit` is `alert` with its delivery in one step. That is sound for what is
checked here: alerts of a chain come from one goroutine through a FIFO queue to
one worker, and `AlertPipeline` implements `AlarmDelivery`, whose steps `Emit`
takes. A due event may be accepted, taken without acknowledgement, or not taken
at all, for a failure or for PagerDuty's flap suppression; the last two put its
text in `doubt`.

`history` records what the properties need. Its `gap` says a publication hid a
change of the bonded value from `watch`: a reconnection publishes without moving
the previous record on, and a second publication can come before `watch` looked.
The inactive alarm is only claimed to be right without a gap; whether a change in
a gap is reported is left to chance by the code. Its `restored` holds alarms a
restart took over, for which the new process has no latch: one whose condition
ended while no process ran is not resolved.

`SeerRestart` EXTENDS `StateStore` and `ValidatorWatch`: processes that follow
one another. A document holds the sent map and the dashboard alarms. `Start` is
`loadState` (with files that cannot be read) and `restoreSavedState` with any set
of entries found stale; `Stop` is the snapshot at the end of `shutdown`, `Save`
the steps of `writeStateAtomic`, `Crash` a kill or a power loss at any moment.
That the snapshot can be taken in one step is `CheckpointIsFinal` of
`AlertPipeline`. The chain and the destination live on while no process runs.

- `seer_restart`: one validator with either check configured, two changes on
  chain (leaving and returning; over and under), a window of two with its limit
  reached exactly by one miss, and one checkpoint on top of the documents the
  store may start with; kills, power losses and starts are not bounded. No
  fairness: the run checks invariants and one action property,
  `ResolutionNeedsTrigger`, which unlike the others holds whatever was lost or
  went stale between the processes. Both checks at once are left to the
  proofs, to keep the run small: the checks write no state in common but the
  alarm maps, where their texts differ.

## What is proved

Every proof is for all values of the constants that satisfy the module's
assumption.

`AlertControlProofs` and `AlertPipelineProofs` prove, for every set of chains,
texts and destinations and every queue size, from `PipelineAssumption` alone:
`TypeOK`, `NoSendOnClosedChannel`, `CheckpointIsFinal`, `NoNeedlessRepeat`,
`SentAgreesWithDestination`, `ResolutionFollowsTrigger`, and that a goroutine
blocked on the queue has a worker to read it. None is inductive alone.
The invariant `IInv` adds what ties the parts together:

- `HandsInv`: a goroutine in the middle of `alert` holds an alert, and so does
  the worker while any leg is under way;
- `GateInv`: the ingress group is exactly the goroutines inside `alert`, and
  past the barrier there are none and none can enter;
- `WorkerInv`: a worker that returned left the channel closed and empty; from
  the snapshot on there is no worker, and memory is as the snapshot has it;
- `CacheInv`: per destination, what is reserved is what is being delivered, it
  is still eligible, and the sent map is what the destination took, but for one
  delivery accepted and not yet completed.

`StateStoreProofs` proves from `StoreAssumption`, for any number of checkpoints:
`TypeOK`, `AckedCheckpointSurvives`, `GoodBackupStaysGood`,
`ReplacedPrimaryIsBackedUp`, `UnusableFilesUntouched`, and that the store
implements `StableDocument`. `TempInv` says no file is ever renamed before its
bytes are synced; `FilesInv` that the files differ from their durable contents
only as the copy of the primary or as the checkpoint under way; `OrderInv` that
the checkpoint under way is newer than all others.

`AlertPipelineProofs` also proves that the pipeline implements `AlarmDelivery`,
from `CacheInv`: only completing an accepted delivery changes what is known of a
destination, and only a reserved, hence due, event reaches it.

`AlertFeedProofs` proves `DashboardAgreesWithSent`. The dashboard is written when
an alert is emitted and the sent maps when it has been delivered, so the property
says nothing while anything is under way. The invariant says what holds then, for
each alarm of a chain's own and each destination it uses (`FeedInv`): the newest
event in the queue says what the dashboard says; if none is queued, the event
being delivered does; if there is none either, the sent map does, unless the last
delivery was not acknowledged. It rests on three more facts: every queued alert
is of the chain that emitted it and has the id `watch` passes (`EmitInv`); what `alert` has recorded is on or
off the dashboard until `clearNoBlocks` runs (`ShownInv`); a delivery that failed
for good leaves its text in doubt (`FailedInv`). The exception the property makes
for the stalled alarm is needed in exactly one step, `ClearNoBlocks` behind a
closed gate.

It also proves that an alarm whose PagerDuty dedup key no other alarm has, and
which is never raised without it, keeps its incident (`OpenAlarmsHaveIncidents`),
and from this `OpenAlarmHasIncident` under the assumption `KeysApart` that all
alarms are such. `KeyOfItsOwn` says which
alarms have such a key: those of nodes, and those `watch` gives a suffix, where the chain
has one text for it. For the stalled alarm and the no-RPC alarm of a chain the property is false, which is what
`pipeline_shared_id` shows.

`SeerRestartProofs` proves from `StoreAssumption` and `WatchAssumption`, for any
number of restarts, monikers, changes, window and limit: `RestartTypeOK`,
`ReportsInOrder`, `PercentAlarmIsRight`, `AlarmsSurviveRestarts`,
`ResolutionNeedsTrigger`. First, `RestartSpec => Spec` of `StateStore`, so the
files keep the invariant proved there. To that `RInv` adds:

- `RefreshInv`: who fills in a record holds `rpcMux`, and that record is no older
  than the published one; a process that does not run knows nothing;
- `PercentInv`: once `watch` has looked the latch is right, and for the one name
  the validator has had, the sent map is the latch;
- `KeptInv`: while nothing is unsaved the files load the acknowledged document,
  and the alarms, wherever they are (in memory, in the document being written,
  in the files), agree with the destination.

`ResolutionNeedsTrigger` needs `OwedInv` besides: what the sent map or any
document, current or not, holds as sent was taken at some time. A document is
never older than the events it tells of, so no loss can break this.

`InactiveAlarmProofs` proves `InactiveAlarmIsRight` from `RInv` and, also
inductive:

- `TombInv`: once this process or a saved document has the word "tombstoned", no
  record published or being filled in says bonded. Hence a resolution, built from
  the word `watch` has at that moment, takes back the text that was raised;
- `PairInv`: as long as no publication hid a change, the alarm is right, or `watch`
  is about to make it right, or it has not looked yet and the pair of records
  shows it the change.

`BlockMonitorProofs` proves from `BlockAssumption`, for any number of blocks and
sessions and any length of the row: `BlockCountedAsItIs`, `StallResolvedByBlock`,
`TypeOK`, `RowAgreesWithCounter`, `NewestRowIsOnItsWay`. `WorkerInv` says that
between blocks the worker has a sign only from a proposal, and with a block in
hand only from that block or a proposal received since the last; `StalledInv` that a resolution is pending only under an alarm
and after a block. For the others there are:

- `CountInv`: the heights in the hands of the goroutines never run backwards, so
  each block is counted once and the counters stay within the blocks seen;
- `RowInv`: the row has the entries of this process in front, no more than its
  length, and the streak among them is the counter's. The step is a lemma about
  sets of positions (`ShiftCount`, `AgreesStep`): a block moves every entry up by
  one, and the last falls off only when the row is full, where the property
  allows the counter to be ahead;
- `SessionInv`: a goroutine that returned holds nothing, and between sessions
  none does;
- `RpcInv`: `monitorChain` is in `newRpc` only between sessions, and without a
  client none opens, so that the row a caller of `newRpc` holds is the newest, but
  for `monitorHealth`'s once there is a client;
- `FeedInv`: `NewestRowIsOnItsWay`, and the bounds of `updateChan`;
- `ControlInv`: the types of the rest.

`NodeHealthProofs` proves from `NodeAssumption`, for any number of nodes and
restarts: `TypeOK`, `DownTimeIsReal`, `OpenNodeAlarmIsRemembered`, which are
inductive together once a stopping process is known to have a restart left.

Every safety property of the passing runs has a theorem; `OpenAlarmHasIncident` has
it under `KeysApart`, which the instance of `pipeline_delivery` satisfies. Only
model-checked is all liveness (`BlockedEmissionProceeds`, `ShutdownCompletes`,
`OutageIsReported`, `OutageIsResolved`, `NodeRecoveryIsResolved`,
`BlockResolvesStall`, `MissStreakIsReported`, `SessionEnds`,
`DashboardCatchesUp`): fairness and ENABLED are beyond the proof system.

## Findings

- `pipeline_shared_id`: the stalled alarm and the no-RPC alarm of a chain use
  the same PagerDuty dedup key, so resolving one closes the other's incident.
- `node_outage`: a node is reported down only while `wasDown` is false, but a
  restore and a healthy probe set it and only `watch` clears it, when it finds
  the node up. A node that fails again first is never reported.
- `node_starvation`: all tries of `newRpc` share ten seconds. Behind a node that
  hangs, a working node is tried with an expired context and marked down, and
  the no-RPC alarm can stand forever. The shared deadline itself is intended
  (`TestNewRPCPreservesOrderedFallbackAndSharedDeadline`).
- `block_tags`: a block carries the commit of the height before its own, but a
  missed block is tagged with votes for its own height.

Noticed without a run:

- the help text of `tenderduty_missed_blocks` speaks of blocks missed "without
  seeing a precommit or prevote", while `statTotalMiss` counts every miss;
- `clearStale` never logs its note about PagerDuty: its callers pass
  "PagerDuty", the code compares with "pagerduty";
- `validateConfig` uses `fallthrough`, so that one destination's problem prints
  the warnings of destinations that are fine;
- `docs/config.md` says of `alert_if_inactive` "Alert when validator leaves the
  active set, is jailed, or tombstoned."; a change first read by a reconnection
  may not be seen by `watch` (`gap` above);
- a restored alarm whose condition ended while no process ran is never resolved
  (`restored` above);
- the no-RPC alarm raised before the validator is known has an empty PagerDuty
  dedup key (`alert.go:756`), its resolution the real address, so the two do not
  match (`OwnKey` above);
- a proposal event makes the next block count as proposed even when the
  validator missed it (`rpc_contract.go:126`); no CometBFT vote has that type,
  the code and its test do. `BlockCountedAsItIs` states it as it is;
- a row `monitorHealth` took in `newRpc` before there was a client can replace a
  newer one on the dashboard until the next block (`sentBehind` above);
- the sent maps are keyed by the text, and the text of an inactive validator
  (`alert.go:836`) has its moniker in it but not its chain. Two validators of the
  same name on two chains share that alarm: the second trigger is not sent, and
  the first resolution resolves both (`Own` above).

## Not modelled

- `cometbft_adapter.go`: protobuf and JSON decoding behind an interface. What
  the decoded events mean is an input of `BlockMonitor`.
- Configuration, encryption, the command line, chain tables and the registry:
  sequential code that runs once, before anything concurrent starts, or lookups.
- The Prometheus exporter and the healthcheck ping keep no state that anything
  reads back; HTTP handlers and websocket broadcasting of the dashboard likewise.
- The text of messages. Two texts are the same exactly when the code formats the
  same values into the same sentence.
- A composition of `AlertPipeline` with the watch models themselves: `pipeline_delivery`
  alone takes minutes, and `AlarmDelivery` stands for it instead.
- A session opened to a node behind the last one, which would show a height
  again: `BlockMonitor`'s chain only moves on.
- A chain without nodes, which `restoreSavedState` takes for one whose nodes are
  all down: `NodeHealth` has at least one.
