---------------------------- MODULE BlockMonitor ----------------------------
(***************************************************************************)
(* The websocket sessions of one chain (WsRun, seer/ws.go) and what watch  *)
(* makes of their blocks (seer/alert.go):                                  *)
(*                                                                         *)
(*   reader --voteChan-->  handleVotes  --\                                *)
(*          --blockChan--> handleBlocks --resultChan--> result worker      *)
(*                   result worker, newRpc --updateChan--> Serve           *)
(*                                                                         *)
(* The channels of a session are unbuffered, so a message is in the hands  *)
(* of one goroutine at a time, and a vote and the block after it race for  *)
(* the result worker.  updateChan has room for two updates per chain and   *)
(* outlives the sessions, as the dashboard (seer/dashboard/server.go) does.*)
(* A newRpc (seer/rpc.go) that finds no endpoint sends on it too, called   *)
(* by monitorChain between sessions or by monitorHealth before the first,  *)
(* and of newRpc nothing else is kept.                                     *)
(* A status is the number StatusType gives it; of what the dashboard is    *)
(* told, the row of blocks is kept.                                        *)
(*                                                                         *)
(* lastBlockTime is kept as far as checkStalledAlert tells its values      *)
(* apart: never, recently, more than stalled_minutes ago.                  *)
(***************************************************************************)
EXTENDS Integers, Sequences, FiniteSets

CONSTANTS
  MaxHeight,          \* bound: blocks the chain makes
  Outcomes,           \* bound: what a block may say of the validator
  VoteStatuses,       \* bound: what a vote may say of it
  MaxVotes,           \* bound: the validator's votes that are shown for a height
  BondedVaries,       \* bound: the validator may leave the active set or join it
  ShowBlocks,         \* length of blocksResults
  ConsecutiveMissed,  \* consecutive_missed of the chain
  Restored,           \* bound: a restart brought back a row of missed blocks
  Configs,            \* bound: the configurations to start with, subsets of Features
  NoMsg               \* no message in hand

Missed == 0
Prevote == 1
Precommit == 2
Signed == 3
Proposed == 4

Features == {"stalled", "consecutive", "dash"}
Heights == 1..MaxHeight

\* classifyVoteEvent and classifyBlockEvent.  A vote of a type it does not know
\* has the status of a missed block, a proposal that of a proposed one.
Updates == [height : Heights, status : VoteStatuses, final : {FALSE}] \cup
           [height : Heights, status : Outcomes, final : {TRUE}]

ASSUME BlockAssumption ==
  /\ MaxHeight \in Nat \ {0}
  /\ Outcomes \subseteq {Missed, Signed, Proposed}
  /\ VoteStatuses \subseteq {Missed, Prevote, Precommit, Proposed}
  /\ MaxVotes \in Nat
  /\ BondedVaries \in BOOLEAN
  /\ ShowBlocks \in Nat \ {0}
  /\ ConsecutiveMissed \in Nat \ {0}
  /\ Restored \in BOOLEAN
  /\ Configs \subseteq SUBSET Features
  /\ NoMsg \notin Updates

VARIABLES
  config,     \* what is on: stalled_enabled, consecutive_enabled, enable_dashboard
  tip,        \* the chain's height, from the block before the first session
  cast,       \* the validator's votes shown for the block after it
  bonded,     \* valInfo.Bonded
  open,       \* a session runs: WsRun has not returned
  cancelled,  \* its context is cancelled
  connected,  \* its connection is not closed
  reader,     \* the message in the reader's hand
  votes,      \* the update in handleVotes' hand
  blocks,     \* the update in handleBlocks' hand
  worker,     \* the final update the result worker is recording
  exited,     \* goroutines of the session that have returned
  signState,  \* the worker's local
  signBy,     \* the vote or block that set it, or NoMsg
  lastBlockNum,
  blocksResults,        \* newest first, -1 for a block not judged
  fresh,                \* entries of it recorded since the start
  statTotalSigns,
  statTotalProps,
  statTotalMiss,
  statVoteMiss,         \* statVoteMiss[s]: statPrevoteMiss, statPrecommitMiss
  statConsecutiveMiss,
  lastBlockTime,        \* "zero", "recent" or "old"
  lastBlockAlarm,
  stalledResolutionPending,
  missedAlarm,          \* watch's local
  stalledPaged,         \* stalled alarm emitted and not resolved
  missedPaged,          \* consecutive-miss alarm emitted and not resolved
  newBlock,             \* a block was finalised since the stalled alarm
  update,               \* the row in the result worker's hand, or <<>>
  updateChan,           \* rows on their way to the dashboard
  statusCache,          \* the row the dashboard serves, or <<>>
  client,               \* newRpc has connected: cc.client is not nil
  inNewRpc,             \* who is in newRpc, or on the way into it
  rpcUpdate,            \* rpcUpdate[g]: the row in the hand of g's newRpc, or <<>>
  sentBehind            \* monitorHealth sent the last row, though a client was known

chainVars == <<tip, cast>>
sessionVars == <<open, cancelled, connected>>
signVars == <<signState, signBy>>
handVars == <<reader, votes, blocks, worker, exited>>
statVars == <<lastBlockNum, blocksResults, fresh, statTotalSigns, statTotalProps,
              statTotalMiss, statVoteMiss, statConsecutiveMiss>>
stalledVars == <<lastBlockTime, lastBlockAlarm, stalledResolutionPending,
                 stalledPaged, newBlock>>
missVars == <<missedAlarm, missedPaged>>
rpcVars == <<client, inNewRpc, rpcUpdate>>
feedVars == <<update, updateChan, statusCache, config, sentBehind, rpcVars>>
vars == <<chainVars, bonded, sessionVars, handVars, signVars, statVars,
          stalledVars, missVars, feedVars>>

Rows == [1..ShowBlocks -> -1..Proposed]
Room == 2  \* of updateChan, for one chain

Callers == {"monitorChain", "monitorHealth"}  \* of newRpc

Goroutines == {"reader", "votes", "blocks", "worker", "closer"}

TypeOK ==
  /\ config \in Configs
  /\ tip \in 0..MaxHeight
  /\ cast \in 0..MaxVotes
  /\ bonded \in BOOLEAN
  /\ open \in BOOLEAN /\ cancelled \in BOOLEAN /\ connected \in BOOLEAN
  /\ reader \in Updates \cup {NoMsg}
  /\ votes \in {u \in Updates : ~u.final} \cup {NoMsg}
  /\ blocks \in {u \in Updates : u.final} \cup {NoMsg}
  /\ worker \in {u \in Updates : u.final} \cup {NoMsg}
  /\ exited \subseteq Goroutines
  /\ signState \in -1..4
  /\ signBy \in Updates \cup {NoMsg}
  /\ lastBlockNum \in 0..MaxHeight
  /\ blocksResults \in Rows
  /\ fresh \in 0..ShowBlocks
  /\ statTotalSigns \in 0..MaxHeight
  /\ statTotalProps \in 0..MaxHeight
  /\ statTotalMiss \in 0..MaxHeight
  /\ statVoteMiss \in [{Prevote, Precommit} -> 0..MaxHeight]
  /\ statConsecutiveMiss \in 0..MaxHeight
  /\ lastBlockTime \in {"zero", "recent", "old"}
  /\ lastBlockAlarm \in BOOLEAN /\ stalledResolutionPending \in BOOLEAN
  /\ missedAlarm \in BOOLEAN
  /\ stalledPaged \in BOOLEAN /\ missedPaged \in BOOLEAN
  /\ newBlock \in BOOLEAN
  /\ update \in Rows \cup {<<>>}
  /\ Len(updateChan) <= Room /\ \A i \in DOMAIN updateChan : updateChan[i] \in Rows
  /\ statusCache \in Rows \cup {<<>>}
  /\ client \in BOOLEAN
  /\ inNewRpc \subseteq Callers
  /\ rpcUpdate \in [Callers -> Rows \cup {<<>>}]
  /\ sentBehind \in BOOLEAN

(* validateConfig gives a chain without a saved row an empty one, and      *)
(* shows it on the dashboard.                                              *)
Init ==
  /\ config \in Configs
  /\ tip = 0 /\ cast = 0
  /\ bonded \in BOOLEAN
  /\ open = FALSE /\ cancelled = FALSE /\ connected = FALSE
  /\ reader = NoMsg /\ votes = NoMsg /\ blocks = NoMsg /\ worker = NoMsg
  /\ exited = {}
  /\ signState = -1 /\ signBy = NoMsg
  /\ lastBlockNum = 0
  /\ blocksResults = [i \in 1..ShowBlocks |-> IF Restored THEN Missed ELSE -1]
  /\ fresh = 0
  /\ statTotalSigns = 0 /\ statTotalProps = 0 /\ statTotalMiss = 0 /\ statConsecutiveMiss = 0
  /\ statVoteMiss = [s \in {Prevote, Precommit} |-> 0]
  /\ lastBlockTime = "zero"
  /\ lastBlockAlarm = FALSE /\ stalledResolutionPending = FALSE
  /\ missedAlarm = FALSE /\ stalledPaged = FALSE /\ missedPaged = FALSE
  /\ newBlock = FALSE
  /\ update = <<>> /\ statusCache = <<>>
  /\ updateChan = IF "dash" \in config THEN <<blocksResults>> ELSE <<>>
  /\ client = FALSE /\ inNewRpc = {"monitorChain"}
  /\ rpcUpdate = [g \in Callers |-> <<>>]
  /\ sentBehind = FALSE

-----------------------------------------------------------------------------
(* The chain, as its websocket shows it: votes of the validator for the    *)
(* next height, then the block.  External.                                 *)

\* The next message on the wire.
NextEvent(u) ==
  /\ tip < MaxHeight
  /\ u.height = tip + 1
  /\ IF u.final
     THEN tip' = tip + 1 /\ cast' = 0
     ELSE cast < MaxVotes /\ cast' = cast + 1 /\ UNCHANGED tip

\* Nobody reads it.
EventUnseen ==
  /\ ~connected
  /\ \E u \in Updates : NextEvent(u)
  /\ UNCHANGED <<bonded, sessionVars, handVars, signVars, statVars, stalledVars, missVars, feedVars>>

\* GetValInfo publishes a change of the validator's status.
BondedChanges ==
  /\ BondedVaries
  /\ bonded' = ~bonded
  /\ UNCHANGED <<chainVars, sessionVars, handVars, signVars, statVars, stalledVars, missVars, feedVars>>

\* stalled_minutes go by without a block; only checkStalledAlert can tell.
BlockTimeAges ==
  /\ "stalled" \in config
  /\ lastBlockTime = "recent"
  /\ lastBlockTime' = "old"
  /\ UNCHANGED <<chainVars, bonded, sessionVars, handVars, signVars, statVars,
                 lastBlockAlarm, stalledResolutionPending, stalledPaged, newBlock, missVars, feedVars>>

-----------------------------------------------------------------------------
(* WsRun.                                                                  *)

\* The validator becomes known and the connection is made.
WsRunOpens ==
  /\ ~open
  /\ "monitorChain" \notin inNewRpc
  /\ open' = TRUE /\ cancelled' = FALSE /\ connected' = TRUE
  /\ exited' = {}
  /\ signState' = -1 /\ signBy' = NoMsg
  /\ UNCHANGED <<chainVars, bonded, reader, votes, blocks, worker, statVars, stalledVars, missVars, feedVars>>

\* The RPC client quits, a subscription cannot be written or shutdown cancels.
WsRunCancels ==
  /\ open /\ ~cancelled
  /\ cancelled' = TRUE
  /\ UNCHANGED <<chainVars, bonded, open, connected, handVars, signVars, statVars,
                 stalledVars, missVars, feedVars>>

\* Mutant: the connection stays open when the context is cancelled.
CloserReturns ==
  /\ open /\ cancelled
  /\ "closer" \notin exited
  /\ exited' = exited \cup {"closer"}
  /\ UNCHANGED <<chainVars, bonded, sessionVars, reader, votes, blocks, worker,
                 signVars, statVars, stalledVars, missVars, feedVars>>

\* The goroutine waiting for the context, or WsRun's deferred call.
CloseWebSocket ==
  /\ open /\ cancelled
  /\ "closer" \notin exited
  /\ connected' = FALSE
  /\ exited' = exited \cup {"closer"}
  /\ UNCHANGED <<chainVars, bonded, open, cancelled, reader, votes, blocks, worker,
                 signVars, statVars, stalledVars, missVars, feedVars>>

\* workers.Wait; monitorChain starts again.
WsRunReturns ==
  /\ open /\ cancelled
  /\ exited = Goroutines
  /\ open' = FALSE
  /\ inNewRpc' = inNewRpc \cup {"monitorChain"}
  /\ UNCHANGED <<chainVars, bonded, cancelled, connected, handVars, signVars, statVars,
                 stalledVars, missVars, update, updateChan, statusCache, config, sentBehind,
                 client, rpcUpdate>>

ReadMessage ==
  /\ open /\ connected
  /\ "reader" \notin exited /\ reader = NoMsg
  /\ \E u \in Updates : NextEvent(u) /\ reader' = u
  /\ UNCHANGED <<bonded, sessionVars, votes, blocks, worker, exited, signVars, statVars,
                 stalledVars, missVars, feedVars>>

\* The connection breaks, or has been closed.
ReadFails ==
  /\ open
  /\ "reader" \notin exited /\ reader = NoMsg
  /\ cancelled' = TRUE
  /\ exited' = exited \cup {"reader"}
  /\ UNCHANGED <<chainVars, bonded, open, connected, reader, votes, blocks, worker,
                 signVars, statVars, stalledVars, missVars, feedVars>>

\* Each handler drops what it cannot decode, and handleVotes other votes.
HandleVotes ==
  /\ reader # NoMsg /\ ~reader.final
  /\ "votes" \notin exited /\ votes = NoMsg
  /\ votes' \in {reader, NoMsg}
  /\ reader' = NoMsg
  /\ UNCHANGED <<chainVars, bonded, sessionVars, blocks, worker, exited, signVars,
                 statVars, stalledVars, missVars, feedVars>>

HandleBlocks ==
  /\ reader # NoMsg /\ reader.final
  /\ "blocks" \notin exited /\ blocks = NoMsg
  /\ blocks' \in {reader, NoMsg}
  /\ reader' = NoMsg
  /\ UNCHANGED <<chainVars, bonded, sessionVars, votes, worker, exited, signVars,
                 statVars, stalledVars, missVars, feedVars>>

\* handleBlocks saw no block for a minute; its error cancels the session.
WebsocketIdle ==
  /\ open
  /\ "blocks" \notin exited /\ blocks = NoMsg
  /\ cancelled' = TRUE
  /\ exited' = exited \cup {"blocks"}
  /\ UNCHANGED <<chainVars, bonded, open, connected, reader, votes, blocks, worker,
                 signVars, statVars, stalledVars, missVars, feedVars>>

\* A reader with a message in hand gives it up.
ReaderExits ==
  /\ open /\ cancelled
  /\ "reader" \notin exited /\ reader # NoMsg
  /\ reader' = NoMsg
  /\ exited' = exited \cup {"reader"}
  /\ UNCHANGED <<chainVars, bonded, sessionVars, votes, blocks, worker, signVars,
                 statVars, stalledVars, missVars, feedVars>>

VotesExits ==
  /\ open /\ cancelled
  /\ "votes" \notin exited
  /\ votes' = NoMsg
  /\ exited' = exited \cup {"votes"}
  /\ UNCHANGED <<chainVars, bonded, sessionVars, reader, blocks, worker, signVars,
                 statVars, stalledVars, missVars, feedVars>>

BlocksExits ==
  /\ open /\ cancelled
  /\ "blocks" \notin exited
  /\ blocks' = NoMsg
  /\ exited' = exited \cup {"blocks"}
  /\ UNCHANGED <<chainVars, bonded, sessionVars, reader, votes, worker, signVars,
                 statVars, stalledVars, missVars, feedVars>>

-----------------------------------------------------------------------------
(* The result worker.                                                      *)

WorkerIdle == "worker" \notin exited /\ worker = NoMsg /\ update = <<>>

\* The highest status seen since the last block, while the validator is bonded.
Raise(u) ==
  IF u.status > signState /\ bonded
  THEN signState' = u.status /\ signBy' = u
  ELSE UNCHANGED signVars

ReceiveVote ==
  /\ WorkerIdle
  /\ votes # NoMsg
  /\ Raise(votes)
  /\ votes' = NoMsg
  /\ UNCHANGED <<chainVars, bonded, sessionVars, reader, blocks, worker, exited, statVars,
                 stalledVars, missVars, feedVars>>

\* Mutant: the new block itself clears the latch.
FinalBlockWithoutPending ==
  /\ WorkerIdle
  /\ blocks # NoMsg
  /\ Raise(blocks)
  /\ worker' = blocks /\ blocks' = NoMsg
  /\ lastBlockNum' = blocks.height
  /\ lastBlockTime' = "recent"
  /\ lastBlockAlarm' = FALSE
  /\ newBlock' = TRUE
  /\ UNCHANGED <<chainVars, bonded, sessionVars, reader, votes, exited, blocksResults, fresh,
                 statTotalSigns, statTotalProps, statTotalMiss, statVoteMiss,
                 statConsecutiveMiss,
                 stalledResolutionPending, stalledPaged, missVars, feedVars>>

\* The final update, and recordFinalBlock.
ReceiveFinalBlock ==
  /\ WorkerIdle
  /\ blocks # NoMsg
  /\ Raise(blocks)
  /\ worker' = blocks /\ blocks' = NoMsg
  /\ lastBlockNum' = blocks.height
  /\ lastBlockTime' = "recent"
  /\ stalledResolutionPending' = (stalledResolutionPending \/ lastBlockAlarm)
  /\ newBlock' = TRUE
  /\ UNCHANGED <<chainVars, bonded, sessionVars, reader, votes, exited, blocksResults, fresh,
                 statTotalSigns, statTotalProps, statTotalMiss, statVoteMiss,
                 statConsecutiveMiss,
                 lastBlockAlarm, stalledPaged, missVars, feedVars>>

\* Mutant: the row grows with every block.
RowWithoutCut == <<signState>> \o blocksResults

\* recordBlockResult: the new block in front, the oldest one dropped.
NextRow == <<signState>> \o SubSeq(blocksResults, 1, ShowBlocks - 1)

\* Mutant: only a proposed block ends the streak.
CountKeepsStreak ==
  /\ statTotalSigns' = statTotalSigns + (IF signState >= Signed THEN 1 ELSE 0)
  /\ statTotalMiss' = statTotalMiss + (IF signState \in Missed..Precommit THEN 1 ELSE 0)
  /\ statConsecutiveMiss' = IF signState = Proposed THEN 0
                            ELSE IF signState \in Missed..Precommit THEN statConsecutiveMiss + 1
                            ELSE statConsecutiveMiss
  /\ UNCHANGED <<statTotalProps, statVoteMiss>>

\* The counters; -1 is neither a sign nor a miss.
CountBlock ==
  CASE signState \in Missed..Precommit ->
         /\ statTotalMiss' = statTotalMiss + 1
         /\ statConsecutiveMiss' = statConsecutiveMiss + 1
         /\ statVoteMiss' = [s \in DOMAIN statVoteMiss |->
                               statVoteMiss[s] + (IF s = signState THEN 1 ELSE 0)]
         /\ UNCHANGED <<statTotalSigns, statTotalProps>>
    [] signState \in {Signed, Proposed} ->
         /\ statTotalSigns' = statTotalSigns + 1
         /\ statTotalProps' = statTotalProps + (IF signState = Proposed THEN 1 ELSE 0)
         /\ statConsecutiveMiss' = 0
         /\ UNCHANGED <<statTotalMiss, statVoteMiss>>
    [] signState = -1 ->
         UNCHANGED <<statTotalSigns, statTotalProps, statTotalMiss, statVoteMiss,
                     statConsecutiveMiss>>

\* Mutant: what was seen of a block is kept for the next.
RecordWithoutReset ==
  /\ worker # NoMsg
  /\ blocksResults' = NextRow
  /\ fresh' = IF fresh < ShowBlocks THEN fresh + 1 ELSE fresh
  /\ update' = IF "dash" \in config THEN NextRow ELSE <<>>
  /\ CountBlock
  /\ worker' = NoMsg
  /\ UNCHANGED <<chainVars, bonded, sessionVars, reader, votes, blocks, exited, signVars,
                 lastBlockNum, stalledVars, missVars, updateChan, statusCache, config,
                 sentBehind, rpcVars>>

RecordBlockResult ==
  /\ worker # NoMsg
  /\ blocksResults' = NextRow
  /\ fresh' = IF fresh < ShowBlocks THEN fresh + 1 ELSE fresh
  /\ update' = IF "dash" \in config THEN NextRow ELSE <<>>
  /\ CountBlock
  /\ signState' = -1 /\ signBy' = NoMsg
  /\ worker' = NoMsg
  /\ UNCHANGED <<chainVars, bonded, sessionVars, reader, votes, blocks, exited,
                 lastBlockNum, stalledVars, missVars, updateChan, statusCache, config,
                 sentBehind, rpcVars>>

\* Mutant: a cancelled session drops the update.
SendUnlessCancelled ==
  /\ update # <<>>
  /\ \/ Len(updateChan) < Room /\ updateChan' = Append(updateChan, update)
     \/ cancelled /\ UNCHANGED updateChan
  /\ update' = <<>>
  /\ sentBehind' = FALSE
  /\ UNCHANGED <<chainVars, bonded, sessionVars, handVars, signVars, statVars, stalledVars,
                 missVars, statusCache, config, rpcVars>>

\* The worker waits for room whether or not the session is cancelled.
SendUpdate ==
  /\ update # <<>>
  /\ Len(updateChan) < Room
  /\ updateChan' = Append(updateChan, update)
  /\ update' = <<>>
  /\ sentBehind' = FALSE
  /\ UNCHANGED <<chainVars, bonded, sessionVars, handVars, signVars, statVars, stalledVars,
                 missVars, statusCache, config, rpcVars>>

\* At its select, or in emitStat before the block in hand is recorded.
WorkerExits ==
  /\ open /\ cancelled
  /\ "worker" \notin exited /\ update = <<>>
  /\ worker' = NoMsg
  /\ exited' = exited \cup {"worker"}
  /\ UNCHANGED <<chainVars, bonded, sessionVars, reader, votes, blocks, signVars, statVars,
                 stalledVars, missVars, feedVars>>

-----------------------------------------------------------------------------
(* newRpc's side of the status feed.  rpcMux lets one call in at a time,   *)
(* and is held until the row is sent.                                      *)

RpcMuxFree == \A g \in Callers : rpcUpdate[g] = <<>>

\* A tick of monitorHealth; only the dashboard can tell what comes of it.
HealthFindsNoClient ==
  /\ "dash" \in config
  /\ ~client
  /\ inNewRpc' = inNewRpc \cup {"monitorHealth"}
  /\ UNCHANGED <<chainVars, bonded, sessionVars, handVars, signVars, statVars, stalledVars,
                 missVars, update, updateChan, statusCache, config, sentBehind, client,
                 rpcUpdate>>

NewRpcConnects(g) ==
  /\ g \in inNewRpc /\ RpcMuxFree
  /\ client' = TRUE
  /\ inNewRpc' = inNewRpc \ {g}
  /\ UNCHANGED <<chainVars, bonded, sessionVars, handVars, signVars, statVars, stalledVars,
                 missVars, update, updateChan, statusCache, config, sentBehind, rpcUpdate>>

\* No endpoint is usable; the update is made of the row as it stands.
NewRpcFails(g) ==
  /\ "dash" \in config
  /\ g \in inNewRpc /\ RpcMuxFree
  /\ rpcUpdate' = [rpcUpdate EXCEPT ![g] = blocksResults]
  /\ UNCHANGED <<chainVars, bonded, sessionVars, handVars, signVars, statVars, stalledVars,
                 missVars, update, updateChan, statusCache, config, sentBehind, client, inNewRpc>>

\* monitorChain tries again, monitorHealth only if its next tick finds no client.
NewRpcSends(g) ==
  /\ rpcUpdate[g] # <<>>
  /\ Len(updateChan) < Room
  /\ updateChan' = Append(updateChan, rpcUpdate[g])
  /\ rpcUpdate' = [rpcUpdate EXCEPT ![g] = <<>>]
  /\ inNewRpc' = IF g = "monitorHealth" THEN inNewRpc \ {g} ELSE inNewRpc
  /\ sentBehind' = (g = "monitorHealth" /\ client)
  /\ UNCHANGED <<chainVars, bonded, sessionVars, handVars, signVars, statVars, stalledVars,
                 missVars, update, statusCache, config, client>>

\* Serve's loop takes an update and caches what it will serve.
Serve ==
  /\ updateChan # <<>>
  /\ statusCache' = Head(updateChan)
  /\ updateChan' = Tail(updateChan)
  /\ UNCHANGED <<chainVars, bonded, sessionVars, handVars, signVars, statVars, stalledVars,
                 missVars, update, config, sentBehind, rpcVars>>

-----------------------------------------------------------------------------
(* The checks of watch that look at the blocks.                            *)

\* Mutant: an old block is enough to resolve.
CheckStalledHasty ==
  \/ /\ ~lastBlockAlarm /\ lastBlockTime = "old"
     /\ lastBlockAlarm' = TRUE /\ stalledPaged' = TRUE /\ newBlock' = FALSE
     /\ UNCHANGED <<chainVars, bonded, sessionVars, handVars, signVars, statVars,
                    lastBlockTime, stalledResolutionPending, missVars, feedVars>>
  \/ /\ lastBlockAlarm
     /\ lastBlockAlarm' = FALSE /\ stalledPaged' = FALSE
     /\ UNCHANGED <<chainVars, bonded, sessionVars, handVars, signVars, statVars,
                    lastBlockTime, stalledResolutionPending, newBlock, missVars, feedVars>>

CheckStalledAlert ==
  /\ "stalled" \in config
  /\ \/ /\ ~lastBlockAlarm /\ lastBlockTime = "old"
        /\ lastBlockAlarm' = TRUE /\ stalledPaged' = TRUE /\ newBlock' = FALSE
        /\ UNCHANGED stalledResolutionPending
     \/ /\ lastBlockAlarm /\ stalledResolutionPending
        /\ lastBlockAlarm' = FALSE /\ stalledResolutionPending' = FALSE
        /\ stalledPaged' = FALSE
        /\ UNCHANGED newBlock
  /\ UNCHANGED <<chainVars, bonded, sessionVars, handVars, signVars, statVars,
                 lastBlockTime, missVars, feedVars>>

\* Mutant: more misses than consecutive_missed are needed.
WatchConsecutiveLate ==
  /\ "consecutive" \in config
  /\ missedAlarm # (statConsecutiveMiss > ConsecutiveMissed)
  /\ missedAlarm' = ~missedAlarm
  /\ missedPaged' = ~missedAlarm
  /\ UNCHANGED <<chainVars, bonded, sessionVars, handVars, signVars, statVars, stalledVars, feedVars>>

WatchConsecutive ==
  /\ "consecutive" \in config
  /\ missedAlarm # (statConsecutiveMiss >= ConsecutiveMissed)
  /\ missedAlarm' = ~missedAlarm
  /\ missedPaged' = ~missedAlarm
  /\ UNCHANGED <<chainVars, bonded, sessionVars, handVars, signVars, statVars, stalledVars, feedVars>>

-----------------------------------------------------------------------------
Exits == CloseWebSocket \/ ReaderExits \/ VotesExits \/ BlocksExits \/ WorkerExits

Handle == HandleVotes \/ HandleBlocks

Watch == CheckStalledAlert \/ WatchConsecutive

Judge == ReceiveVote \/ ReceiveFinalBlock \/ RecordBlockResult \/ SendUpdate

NewRpc == \E g \in Callers : NewRpcConnects(g) \/ NewRpcFails(g) \/ NewRpcSends(g)

Next ==
  \/ EventUnseen
  \/ BondedChanges
  \/ BlockTimeAges
  \/ WsRunOpens
  \/ WsRunCancels
  \/ WsRunReturns
  \/ ReadMessage
  \/ ReadFails
  \/ Handle
  \/ WebsocketIdle
  \/ Judge
  \/ Exits
  \/ HealthFindsNoClient
  \/ NewRpc
  \/ Serve
  \/ Watch

Spec == Init /\ [][Next]_vars

(* Goroutines run, Serve's for the life of the process, and watch looks at *)
(* everything every two seconds.  A read on a closed connection fails;     *)
(* nothing obliges the chain to make blocks, a session to open or to break.*)
FairSpec ==
  /\ Spec
  /\ WF_vars(~connected /\ ReadFails)
  /\ WF_vars(Handle \/ Judge)
  /\ WF_vars(Exits \/ WsRunReturns)
  /\ WF_vars(Serve)
  /\ WF_vars(Watch)

-----------------------------------------------------------------------------
\* A vote event that classifyVoteEvent takes for a proposal.
Proposal(u) == u # NoMsg /\ ~u.final /\ u.status = Proposed

(* Whatever votes reach the result worker late or early, and whichever     *)
(* session brings them: a sign is counted for a block that has one, or on  *)
(* a proposal of the validator's received since the last block, and on     *)
(* nothing else; no prevote or precommit, and nothing seen before an       *)
(* earlier block, makes a sign.  A bonded validator's block is judged      *)
(* a sign exactly then.                                                    *)
BlockCountedAsItIs ==
  [][/\ statTotalSigns' # statTotalSigns => worker.status >= Signed \/ Proposal(signBy)
     /\ worker' # worker /\ worker' # NoMsg /\ bonded =>
          (signState' >= Signed <=> worker'.status >= Signed \/ Proposal(signBy'))]_vars

(* The row of blocks and the consecutive-miss counter tell the same story, *)
(* whatever sessions ended between the blocks and whatever row a restart   *)
(* brought back, which the counter knows nothing of: among the entries of  *)
(* this process, the misses before the latest sign are the counter's,      *)
(* unless the row is too short to hold them.                               *)
RowAgreesWithCounter ==
  LET signs == {i \in 1..fresh : blocksResults[i] >= Signed}
      newer(i) == \A j \in signs : i < j
      streak == {i \in 1..fresh : newer(i) /\ blocksResults[i] \in Missed..Precommit}
  IN  IF signs = {} /\ fresh = ShowBlocks THEN Cardinality(streak) <= statConsecutiveMiss
      ELSE Cardinality(streak) = statConsecutiveMiss

(* No recorded block is lost to the dashboard and none overtakes another:  *)
(* the row as it stands is the last one on its way, in the result worker's *)
(* hand or at the end of updateChan, or else the one being served; the     *)
(* newRpc calls between sessions disturb none of this.  Only the call      *)
(* monitorHealth began without a client and ends with one known can send a *)
(* row that is no longer the newest, and the next block makes good for it. *)
NewestRowIsOnItsWay ==
  "dash" \in config =>
    IF update # <<>> THEN update = blocksResults
    ELSE \/ sentBehind
         \/ blocksResults = IF updateChan # <<>> THEN updateChan[Len(updateChan)] ELSE statusCache

(* The stalled alarm is resolved only when a block was finalised after it  *)
(* was raised.                                                             *)
StallResolvedByBlock ==
  [][stalledPaged /\ ~stalledPaged' => newBlock]_vars

(* A block finalised under a standing stalled alarm leads to its           *)
(* resolution, however recordFinalBlock and checkStalledAlert interleave.  *)
BlockResolvesStall == stalledPaged /\ newBlock ~> ~stalledPaged

(* A streak of misses that lasts is reported, and its end is too.          *)
MissStreakIsReported ==
  /\ <>[]("consecutive" \in config /\ statConsecutiveMiss >= ConsecutiveMissed) => <>[]missedPaged
  /\ <>[](statConsecutiveMiss < ConsecutiveMissed) => <>[](~missedPaged)

(* A cancelled session ends: workers.Wait never waits for a goroutine that *)
(* is stuck handing a message to one that has returned, nor for a result   *)
(* worker stuck at updateChan, whose send does not heed the context.       *)
SessionEnds == cancelled ~> ~open

(* The dashboard catches up with the row: the update of a recorded block   *)
(* arrives, though its session is cancelled while the result worker waits  *)
(* for room in updateChan, and though newRpc sends beside it; and the last *)
(* one to arrive is the newest, but for the row monitorHealth sends late.  *)
DashboardCatchesUp == []<>("dash" \in config => statusCache = blocksResults \/ sentBehind)

(* "Prevote and Precommit are special cases, where the node monitoring for *)
(* misses did see them, but the proposer did not include in the block":    *)
(* the vote that tags a missed block is for the height whose commit the    *)
(* block carries, its last_commit, the height before its own.              *)
TagIsForMissedHeight ==
  [][statVoteMiss' # statVoteMiss => signBy.height = lastBlockNum - 1]_vars
=============================================================================
