------------------------- MODULE BlockMonitorProofs -------------------------
(***************************************************************************)
(* Proofs about BlockMonitor, for any number of blocks, votes and sessions,*)
(* any length of the row and any configuration: what the result worker     *)
(* counts as a sign is one or a proposal, the stalled alarm is resolved    *)
(* only by a block, the row agrees with the counter and the newest row     *)
(* reaches the dashboard last.                                             *)
(***************************************************************************)
EXTENDS BlockMonitor, FiniteSetTheorems, SequenceTheorems, TLAPS

\* Zenon first: preparing a leaf for SMT takes longer than most leaves do.
USE ZenonT(30), SMTT(30)

Final == {u \in Updates : u.final}
Votes == {u \in Updates : ~u.final}

(* What the goroutines of a session hold.                                  *)
HandsOK ==
  /\ reader \in Updates \cup {NoMsg}
  /\ votes \in Votes \cup {NoMsg}
  /\ blocks \in Final \cup {NoMsg}
  /\ worker \in Final \cup {NoMsg}
  /\ signState \in -1..4
  /\ signBy \in Updates \cup {NoMsg}
  /\ signState = IF signBy = NoMsg THEN -1 ELSE signBy.status

(* Between blocks the result worker has seen votes at most, of which only  *)
(* a proposal counts as a sign, and with a block in hand it has a sign     *)
(* only from that block or from a proposal.                                *)
WorkerInv ==
  /\ "worker" \notin exited /\ worker = NoMsg /\ signState >= Signed => Proposal(signBy)
  /\ worker # NoMsg /\ signState >= Signed => worker.status >= Signed \/ Proposal(signBy)

(* A resolution is only pending under a standing alarm, after a block.     *)
StalledInv == stalledResolutionPending => lastBlockAlarm /\ newBlock

BInv == HandsOK /\ WorkerInv /\ StalledInv

-----------------------------------------------------------------------------
(* The status of an update.                                                *)
LEMMA UpdateStatus ==
  /\ \A u \in Votes : u \in Updates /\ ~u.final /\ u.status \in {0, 1, 2, 4}
  /\ \A u \in Final : u \in Updates /\ u.final /\ u.status \in {0, 3, 4}
  /\ \A u \in Updates : u.status \in 0..4
  /\ NoMsg \notin Updates
<1>1. \A u \in Votes : u \in Updates /\ ~u.final /\ u.status \in {0, 1, 2, 4}
  <2>1. \A u \in Votes : u.status \in VoteStatuses
    BY ZenonT(40) DEF Votes, Updates
  <2> QED
    BY <2>1, BlockAssumption DEF Votes, Missed, Prevote, Precommit, Proposed
<1>2. \A u \in Final : u \in Updates /\ u.final /\ u.status \in {0, 3, 4}
  BY ZenonT(40), BlockAssumption DEF Final, Updates, Missed, Signed, Proposed
<1>3. \A u \in Updates : u.status \in 0..4
  <2>1. \A u \in Updates : u \in Votes \/ u \in Final
    BY DEF Votes, Final
  <2>2. \A n \in {0, 1, 2, 4} \cup {0, 3, 4} : n \in 0..4
    BY SMTT(30)
  <2> QED
    BY <1>1, <1>2, <2>1, <2>2
<1> QED
  BY <1>1, <1>2, <1>3, BlockAssumption

(* At the start of the process nothing is in hand and nothing pending.      *)
LEMMA InitBInv == Init => BInv
BY SMTT(30) DEF Init, BInv, HandsOK, WorkerInv, StalledInv, Signed

(* Raise, at the receipt of a vote or of a block.                          *)
LEMMA RaiseEffect ==
  ASSUME NEW u \in Updates, HandsOK, Raise(u)
  PROVE  /\ \/ signState' = signState /\ signBy' = signBy /\ (bonded => signState >= u.status)
            \/ signState' = u.status /\ signBy' = u
         /\ signState' \in -1..4
         /\ signBy' \in Updates \cup {NoMsg}
         /\ signState' = IF signBy' = NoMsg THEN -1 ELSE signBy'.status
<1>1. u.status \in 0..4 /\ signState \in -1..4 /\ u # NoMsg
  BY UpdateStatus DEF HandsOK
<1>2. CASE u.status > signState /\ bonded
  BY SMTT(30), <1>1, <1>2 DEF Raise
<1>3. CASE ~(u.status > signState /\ bonded)
  BY SMTT(30), <1>1, <1>3 DEF Raise, signVars, HandsOK
<1> QED
  BY <1>2, <1>3

(* What newRpc leaves alone.                                               *)
LEMMA RpcFrame ==
  ASSUME HealthFindsNoClient \/ NewRpc
  PROVE  UNCHANGED <<chainVars, bonded, sessionVars, handVars, signVars, statVars,
                     stalledVars, missVars, update, statusCache, config>>
BY ZenonT(40) DEF HealthFindsNoClient, NewRpc, NewRpcConnects, NewRpcFails, NewRpcSends

(* Every step keeps the invariant.                                         *)
LEMMA BlockStep == BInv /\ [Next]_vars => BInv'
<1> SUFFICES ASSUME BInv, [Next]_vars PROVE BInv'
  OBVIOUS
<1>a. HandsOK /\ WorkerInv /\ StalledInv
  BY DEF BInv
<1> USE DEF chainVars, sessionVars, handVars, signVars, statVars, stalledVars, missVars, feedVars
<1>1. CASE EventUnseen \/ BondedChanges \/ BlockTimeAges \/ WsRunCancels \/ WsRunReturns
           \/ SendUpdate \/ HealthFindsNoClient \/ NewRpc \/ Serve \/ WatchConsecutive
           \/ UNCHANGED vars
  <2>1. UNCHANGED <<reader, votes, blocks, worker, exited, signState, signBy,
                    stalledResolutionPending, lastBlockAlarm, newBlock>>
    BY <1>1, RpcFrame, ZenonT(40) DEF EventUnseen, BondedChanges, BlockTimeAges, WsRunCancels, WsRunReturns,
       SendUpdate, Serve, WatchConsecutive, vars
  <2> QED
    BY <2>1, <1>a, Zenon DEF BInv, HandsOK, WorkerInv, StalledInv, Proposal
<1>2. CASE WsRunOpens
  BY <1>2, <1>a DEF WsRunOpens, BInv, HandsOK, WorkerInv, StalledInv, Signed
<1>3. CASE ReadMessage
  BY <1>3, <1>a DEF ReadMessage, BInv, HandsOK, WorkerInv, StalledInv, Proposal
<1>4. CASE ReadFails \/ WebsocketIdle \/ CloseWebSocket \/ ReaderExits \/ VotesExits
           \/ BlocksExits
  <2>1. /\ UNCHANGED <<worker, signState, signBy, stalledResolutionPending, lastBlockAlarm, newBlock>>
        /\ reader' \in {reader, NoMsg} /\ votes' \in {votes, NoMsg} /\ blocks' \in {blocks, NoMsg}
        /\ "worker" \in exited => "worker" \in exited'
    BY <1>4, Zenon DEF ReadFails, WebsocketIdle, CloseWebSocket, ReaderExits, VotesExits,
       BlocksExits
  <2> QED
    BY <2>1, <1>a, Zenon DEF BInv, HandsOK, WorkerInv, StalledInv, Proposal
<1>5. CASE HandleVotes
  BY <1>5, <1>a DEF HandleVotes, BInv, HandsOK, WorkerInv, StalledInv, Votes, Proposal
<1>6. CASE HandleBlocks
  BY <1>6, <1>a DEF HandleBlocks, BInv, HandsOK, WorkerInv, StalledInv, Final, Proposal
<1>7. CASE WorkerExits
  BY <1>7, <1>a DEF WorkerExits, BInv, HandsOK, WorkerInv, StalledInv
<1>8. CASE ReceiveVote
  <2>1. votes \in Votes /\ Raise(votes) /\ "worker" \notin exited /\ worker = NoMsg
    BY <1>8, <1>a DEF ReceiveVote, WorkerIdle, HandsOK
  <2>2. votes \in Updates /\ votes # NoMsg /\ ~votes.final /\ votes.status \in {0, 1, 2, 4}
    BY <2>1, UpdateStatus
  <2>3. /\ \/ signState' = signState /\ signBy' = signBy
           \/ signState' = votes.status /\ signBy' = votes
        /\ signState' \in -1..4
        /\ signBy' \in Updates \cup {NoMsg}
        /\ signState' = IF signBy' = NoMsg THEN -1 ELSE signBy'.status
    BY <1>a, <2>1, <2>2, RaiseEffect
  <2>4. signState' >= Signed => Proposal(signBy)'
    <3>1. CASE signState' = signState /\ signBy' = signBy
      BY <1>a, <2>1, <3>1, Zenon DEF WorkerInv, Proposal
    <3>2. CASE signState' = votes.status /\ signBy' = votes
      BY SMTT(30), <2>2, <3>2 DEF Proposal, Signed, Proposed
    <3> QED
      BY <2>3, <3>1, <3>2
  <2>5. HandsOK'
    BY <1>8, <1>a, <2>3, Zenon DEF ReceiveVote, HandsOK
  <2> QED
    BY <1>8, <1>a, <2>1, <2>4, <2>5, Zenon DEF ReceiveVote, BInv, WorkerInv, StalledInv
<1>9. CASE ReceiveFinalBlock
  <2>1. blocks \in Final /\ Raise(blocks) /\ "worker" \notin exited /\ worker = NoMsg
    BY <1>9, <1>a DEF ReceiveFinalBlock, WorkerIdle, HandsOK
  <2>2. blocks \in Updates
    BY <2>1, UpdateStatus
  <2>3. /\ \/ signState' = signState /\ signBy' = signBy
           \/ signState' = blocks.status /\ signBy' = blocks
        /\ signState' \in -1..4
        /\ signBy' \in Updates \cup {NoMsg}
        /\ signState' = IF signBy' = NoMsg THEN -1 ELSE signBy'.status
    BY <1>a, <2>1, <2>2, RaiseEffect
  <2>4. worker' = blocks /\ worker' # NoMsg
    BY <1>9 DEF ReceiveFinalBlock
  <2>5. HandsOK'
    BY <1>9, <1>a, <2>1, <2>3, <2>4, Zenon DEF ReceiveFinalBlock, HandsOK
  <2>6. WorkerInv'
    BY <1>a, <2>1, <2>3, <2>4, Zenon DEF WorkerInv, Proposal
  <2>7. StalledInv'
    BY ZenonT(40), <1>9, <1>a DEF ReceiveFinalBlock, StalledInv
  <2> QED
    BY <2>5, <2>6, <2>7 DEF BInv
<1>10. CASE RecordBlockResult
  BY <1>10, <1>a DEF RecordBlockResult, BInv, HandsOK, WorkerInv, StalledInv, Signed
<1>11. CASE CheckStalledAlert
  BY <1>11, <1>a DEF CheckStalledAlert, BInv, HandsOK, WorkerInv, StalledInv, Proposal
<1> QED
  BY <1>1, <1>2, <1>3, <1>4, <1>5, <1>6, <1>7, <1>8, <1>9, <1>10, <1>11
     DEF Next, Handle, Judge, Exits, Watch

(* What the goroutines hold, what the result worker has seen and what the  *)
(* stalled alarm waits for stay consistent over all sessions.              *)
THEOREM BlockInvariant == Spec => []BInv
BY InitBInv, BlockStep, PTL DEF Spec

-----------------------------------------------------------------------------
(* The result worker counts a sign only for a block that carries one or    *)
(* after a proposal of the validator's since the last block, and judges    *)
(* the block of a bonded validator a sign exactly then, in every           *)
(* interleaving of votes, blocks and sessions.                             *)
THEOREM BlocksCountedAsTheyAre == Spec => BlockCountedAsItIs
<1>1. BInv /\ [Next]_vars =>
        [/\ statTotalSigns' # statTotalSigns => worker.status >= Signed \/ Proposal(signBy)
         /\ worker' # worker /\ worker' # NoMsg /\ bonded =>
              (signState' >= Signed <=> worker'.status >= Signed \/ Proposal(signBy'))]_vars
  <2> SUFFICES ASSUME BInv, [Next]_vars
               PROVE  /\ statTotalSigns' # statTotalSigns => worker.status >= Signed \/ Proposal(signBy)
                      /\ worker' # worker /\ worker' # NoMsg /\ bonded =>
                           (signState' >= Signed <=> worker'.status >= Signed \/ Proposal(signBy'))
    OBVIOUS
  <2>a. HandsOK /\ WorkerInv
    BY DEF BInv
  <2> USE DEF chainVars, sessionVars, handVars, signVars, statVars, stalledVars, missVars,
              feedVars
  <2>1. ASSUME statTotalSigns' # statTotalSigns
        PROVE  worker.status >= Signed \/ Proposal(signBy)
    <3>1. RecordBlockResult
      BY ZenonT(40), <2>1, RpcFrame DEF Next, Handle, Judge, Exits, Watch, EventUnseen, BondedChanges,
         BlockTimeAges, WsRunOpens, WsRunCancels, WsRunReturns, ReadMessage, ReadFails,
         HandleVotes, HandleBlocks, WebsocketIdle, CloseWebSocket, ReaderExits, VotesExits,
         BlocksExits, WorkerExits, ReceiveVote, ReceiveFinalBlock, SendUpdate, Serve,
         CheckStalledAlert, WatchConsecutive, vars
    <3>2. worker # NoMsg /\ CountBlock
      BY <3>1 DEF RecordBlockResult
    <3>3. signState \in {Signed, Proposed}
      <4>1. CASE signState \in Missed..Precommit
        BY ZenonT(40), <2>1, <3>2, <4>1 DEF CountBlock, Missed, Precommit, Signed, Proposed
      <4>2. CASE signState = -1
        BY <2>1, <3>2, <4>2 DEF CountBlock, Missed, Precommit, Signed, Proposed
      <4> QED
        BY <2>a, <4>1, <4>2 DEF HandsOK, Missed, Precommit, Signed, Proposed
    <3> QED
      BY <2>a, <3>2, <3>3 DEF WorkerInv, Signed, Proposed
  <2>2. ASSUME worker' # worker, worker' # NoMsg, bonded
        PROVE  signState' >= Signed <=> worker'.status >= Signed \/ Proposal(signBy')
    <3>1. ReceiveFinalBlock
      BY ZenonT(40), <2>2, RpcFrame DEF Next, Handle, Judge, Exits, Watch, EventUnseen, BondedChanges,
         BlockTimeAges, WsRunOpens, WsRunCancels, WsRunReturns, ReadMessage, ReadFails,
         HandleVotes, HandleBlocks, WebsocketIdle, CloseWebSocket, ReaderExits, VotesExits,
         BlocksExits, WorkerExits, ReceiveVote, RecordBlockResult, SendUpdate, Serve,
         CheckStalledAlert, WatchConsecutive, vars
    <3>2. /\ blocks \in Final /\ Raise(blocks) /\ worker' = blocks
          /\ "worker" \notin exited /\ worker = NoMsg
      BY <2>a, <3>1 DEF ReceiveFinalBlock, WorkerIdle, HandsOK
    <3>3. /\ blocks \in Updates /\ blocks.final /\ blocks.status \in 0..4 /\ signState \in -1..4
          /\ signState >= Signed => Proposal(signBy)
          /\ Proposal(signBy) => signState = Proposed
      BY <2>a, <3>2, UpdateStatus, Zenon DEF WorkerInv, HandsOK, Proposal
    <3>4. \/ signState' = signState /\ signBy' = signBy /\ signState >= blocks.status
          \/ signState' = blocks.status /\ signBy' = blocks
      BY <2>2, <2>a, <3>2, <3>3, RaiseEffect
    <3>5. CASE signState' = signState /\ signBy' = signBy /\ signState >= blocks.status
      BY SMTT(30), <3>2, <3>3, <3>5 DEF Signed, Proposed
    <3>6. CASE signState' = blocks.status /\ signBy' = blocks
      BY <3>2, <3>3, <3>6, Zenon DEF Proposal
    <3> QED
      BY <3>4, <3>5, <3>6
  <2> QED
    BY <2>1, <2>2
<1> QED
  BY BlockInvariant, <1>1, PTL DEF Spec, BlockCountedAsItIs

(* The stalled alarm goes only when a block was finalised after it came,   *)
(* however recordFinalBlock and checkStalledAlert interleave.              *)
THEOREM StallsResolvedByBlocks == Spec => StallResolvedByBlock
<1>1. BInv /\ [Next]_vars => [stalledPaged /\ ~stalledPaged' => newBlock]_vars
  <2> SUFFICES ASSUME BInv, [Next]_vars, stalledPaged, ~stalledPaged'
               PROVE  newBlock
    OBVIOUS
  <2>1. CheckStalledAlert
    BY ZenonT(40), RpcFrame DEF Next, Handle, Judge, Exits, Watch, EventUnseen, BondedChanges, BlockTimeAges,
       WsRunOpens, WsRunCancels, WsRunReturns, ReadMessage, ReadFails, HandleVotes,
       HandleBlocks, WebsocketIdle, CloseWebSocket, ReaderExits, VotesExits, BlocksExits,
       WorkerExits, ReceiveVote, ReceiveFinalBlock, RecordBlockResult, SendUpdate, Serve,
       WatchConsecutive, vars, stalledVars
  <2> QED
    BY <2>1 DEF CheckStalledAlert, BInv, StalledInv
<1> QED
  BY BlockInvariant, <1>1, PTL DEF Spec, StallResolvedByBlock

-----------------------------------------------------------------------------
(* The signs among the first n entries of a row, the misses before them    *)
(* and what they say of a counter that stands at m.                        *)
Signs(row, n) == {i \in 1..n : row[i] >= Signed}

Streak(row, n) == {i \in 1..n : /\ \A j \in Signs(row, n) : i < j
                                /\ row[i] \in Missed..Precommit}

Agrees(row, n, m) ==
  IF Signs(row, n) = {} /\ n = ShowBlocks THEN Cardinality(Streak(row, n)) <= m
  ELSE Cardinality(Streak(row, n)) = m

Shift(S) == {i + 1 : i \in S}

(* Moving entries by one keeps their number.                               *)
LEMMA ShiftCount ==
  ASSUME NEW S \in SUBSET Nat, IsFiniteSet(S)
  PROVE  IsFiniteSet(Shift(S)) /\ Cardinality(Shift(S)) = Cardinality(S)
<1> DEFINE f == [i \in S |-> i + 1]
<1>1. f \in [S -> Shift(S)]
  BY DEF Shift
<1>2. \A i, j \in S : f[i] = f[j] => i = j
  OBVIOUS
<1>3. \A k \in Shift(S) : \E i \in S : f[i] = k
  BY Zenon DEF Shift
<1> HIDE DEF f
<1>4. f \in Bijection(S, Shift(S))
  BY <1>1, <1>2, <1>3 DEF Bijection, Injection, Surjection, IsInjective
<1> QED
  BY <1>4, FS_Bijection DEF ExistsBijection

(* recordBlockResult puts the block in front and moves the others by one.  *)
LEMMA NextRowIs ==
  ASSUME blocksResults \in Rows, signState \in -1..Proposed
  PROVE  /\ NextRow \in Rows
         /\ NextRow[1] = signState
         /\ \A i \in 1..ShowBlocks - 1 : NextRow[i + 1] = blocksResults[i]
<1> DEFINE V == -1..Proposed
           old == SubSeq(blocksResults, 1, ShowBlocks - 1)
           new == <<signState>>
<1>a. ShowBlocks \in Nat \ {0}
  BY BlockAssumption
<1>1. \A i \in 1..ShowBlocks - 1 : blocksResults[i] \in V
  BY SMTT(30), <1>a DEF Rows
<1>2. ShowBlocks - 1 \in Int
  BY <1>a
<1>3. /\ old \in Seq(V)
      /\ Len(old) = ShowBlocks - 1
      /\ \A i \in 1..ShowBlocks - 1 : old[i] = blocksResults[i]
  <2> HIDE DEF V
  <2>1. /\ old \in Seq(V)
        /\ Len(old) = IF 1 <= ShowBlocks - 1 THEN ShowBlocks - 1 - 1 + 1 ELSE 0
        /\ \A i \in 1..ShowBlocks - 1 - 1 + 1 : old[i] = blocksResults[1 + i - 1]
    BY SMTT(30), <1>1, <1>2, SubSeqProperties
  <2> QED
    BY <2>1, <1>a
<1>4. new \in Seq(V) /\ Len(new) = 1 /\ new[1] = signState
  OBVIOUS
<1> HIDE DEF V, old, new
<1>5. /\ new \o old \in Seq(V)
      /\ Len(new \o old) = Len(new) + Len(old)
      /\ \A i \in 1..Len(new) + Len(old) :
           (new \o old)[i] = IF i <= Len(new) THEN new[i] ELSE old[i - Len(new)]
  BY <1>3, <1>4, ConcatProperties, Zenon
<1>6. NextRow = new \o old
  BY DEF NextRow, new, old
<1>7. Len(NextRow) = ShowBlocks /\ NextRow \in Seq(V)
  BY SMTT(30), <1>3, <1>4, <1>5, <1>6, <1>a
<1>8. NextRow \in Rows
  BY <1>7, LenProperties, Zenon DEF Rows, V
<1>9. NextRow[1] = signState
  BY SMTT(30), <1>3, <1>4, <1>5, <1>6, <1>a
<1>10. ASSUME NEW i \in 1..ShowBlocks - 1 PROVE NextRow[i + 1] = blocksResults[i]
  <2>1. /\ i + 1 \in 1..Len(new) + Len(old) /\ ~(i + 1 <= Len(new))
        /\ i + 1 - Len(new) = i
    BY <1>3, <1>4, <1>a
  <2> QED
    BY SMTT(30), <2>1, <1>3, <1>5, <1>6
<1> QED
  BY <1>8, <1>9, <1>10

(* A row with a new entry in front agrees with the counter that            *)
(* recordBlockResult made of it, though the oldest entry may have gone.    *)
LEMMA AgreesStep ==
  ASSUME NEW row \in Rows, NEW next \in Rows, NEW n \in 0..ShowBlocks, NEW k, NEW m \in Nat,
         k = IF n < ShowBlocks THEN n + 1 ELSE n,
         \A i \in 1..ShowBlocks - 1 : next[i + 1] = row[i],
         Agrees(row, n, m)
  PROVE  /\ next[1] >= Signed => Agrees(next, k, 0)
         /\ next[1] \in Missed..Precommit => Agrees(next, k, m + 1)
         /\ next[1] = -1 => Agrees(next, k, m)
<1>a. ShowBlocks \in Nat \ {0} /\ k \in 1..ShowBlocks /\ (k = n + 1 \/ (k = n /\ n = ShowBlocks))
  <2>1. ShowBlocks \in Nat \ {0}
    BY BlockAssumption
  <2>2. CASE n < ShowBlocks
    BY <2>1, <2>2
  <2>3. CASE n = ShowBlocks
    BY <2>1, <2>3
  <2> QED
    BY <2>1, <2>2, <2>3
<1>b. /\ \A i \in 1..ShowBlocks : row[i] \in -1..4 /\ next[i] \in -1..4
      /\ next[1] \in -1..4
  BY SMTT(30), <1>a DEF Rows, Proposed
<1>c. \A i \in 1..k : i = 1 \/ (i - 1 \in 1..n /\ i - 1 < k /\ next[i] = row[i - 1])
  <2> SUFFICES ASSUME NEW i \in 1..k, i # 1
               PROVE  i - 1 \in 1..n /\ i - 1 < k /\ next[i] = row[i - 1]
    OBVIOUS
  <2>1. i - 1 \in 1..ShowBlocks - 1 /\ (i - 1) + 1 = i
    BY <1>a
  <2> QED
    BY <2>1, <1>a
<1>d. \A i \in 1..n : i < k => i + 1 \in 1..k /\ next[i + 1] = row[i]
  BY <1>a
<1> DEFINE Kept == {i \in Streak(row, n) : i < k}
<1>1. IsFiniteSet(Streak(row, n)) /\ Kept \subseteq Streak(row, n) /\ Kept \subseteq Nat
  <2>1. IsFiniteSet(1..n)
    BY SMTT(30), FS_Interval
  <2> QED
    BY SMTT(30), <2>1, FS_Subset DEF Streak
<1>2. /\ IsFiniteSet(Kept) /\ Cardinality(Kept) <= Cardinality(Streak(row, n))
      /\ Cardinality(Kept) \in Nat
  BY <1>1, FS_Subset, FS_CardinalityType
<1>3. IsFiniteSet(Shift(Kept)) /\ Cardinality(Shift(Kept)) = Cardinality(Kept)
  <2> HIDE DEF Kept
  <2> QED
    BY <1>1, <1>2, ShiftCount
<1>4. n < ShowBlocks \/ Signs(row, n) # {} => Kept = Streak(row, n)
  BY SMTT(30), <1>a DEF Streak, Signs
<1>5. CASE next[1] >= Signed
  <2>1. 1 \in Signs(next, k)
    BY SMTT(30), <1>5, <1>a DEF Signs
  <2>2. Streak(next, k) = {}
    BY SMTT(30), <2>1, <1>a DEF Streak
  <2> QED
    BY SMTT(30), <2>1, <2>2, <1>5, <1>b, FS_EmptySet DEF Agrees, Missed, Precommit, Signed
<1>6. CASE next[1] < Signed
  <2>1. \A i \in 1..n : i < k => (i \in Signs(row, n) <=> i + 1 \in Signs(next, k))
    BY <1>d DEF Signs
  <2>2. \A i \in Signs(next, k) : i - 1 \in Signs(row, n) /\ i \in 1..k /\ i # 1
    <3> SUFFICES ASSUME NEW i \in Signs(next, k)
                 PROVE  i - 1 \in Signs(row, n) /\ i \in 1..k /\ i # 1
      OBVIOUS
    <3>1. i \in 1..k /\ next[i] >= Signed
      BY DEF Signs
    <3>2. i # 1
      BY SMTT(30), <3>1, <1>6, <1>b DEF Signed
    <3> QED
      BY <3>1, <3>2, <1>c DEF Signs
  <2>3. \A i \in 1..n : i < k => (i \in Streak(row, n) <=> i + 1 \in Streak(next, k))
    <3> SUFFICES ASSUME NEW i \in 1..n, i < k
                 PROVE  i \in Streak(row, n) <=> i + 1 \in Streak(next, k)
      OBVIOUS
    <3>1. i + 1 \in 1..k /\ next[i + 1] = row[i]
      BY <1>d
    <3>2. ASSUME \A j \in Signs(row, n) : i < j, NEW j \in Signs(next, k) PROVE i + 1 < j
      BY SMTT(30), <3>2, <2>2, <1>a
    <3>3. ASSUME \A j \in Signs(next, k) : i + 1 < j, NEW j \in Signs(row, n) PROVE i < j
      <4>1. j \in 1..n
        BY DEF Signs
      <4>2. CASE j < k
        BY <4>1, <4>2, <3>3, <2>1
      <4>3. CASE ~(j < k)
        BY <4>1, <4>3, <1>a
      <4> QED
        BY <4>2, <4>3
    <3> QED
      BY <3>1, <3>2, <3>3 DEF Streak
  <2>4. \A i \in Streak(next, k) : i # 1 => i - 1 \in Kept /\ (i - 1) + 1 = i
    <3> SUFFICES ASSUME NEW i \in Streak(next, k), i # 1
                 PROVE  i - 1 \in Kept /\ (i - 1) + 1 = i
      OBVIOUS
    <3>1. i \in 1..k
      BY DEF Streak
    <3>2. i - 1 \in 1..n /\ i - 1 < k /\ (i - 1) + 1 = i
      BY SMTT(30), <3>1, <1>c, <1>a
    <3> QED
      BY <3>2, <2>3
  <2>5. \A i \in Kept : i + 1 \in Streak(next, k) /\ i + 1 # 1
    <3> SUFFICES ASSUME NEW i \in Kept PROVE i + 1 \in Streak(next, k) /\ i + 1 # 1
      OBVIOUS
    <3>1. i \in 1..n /\ i < k /\ i \in Streak(row, n)
      BY DEF Streak
    <3> QED
      BY <3>1, <2>3
  <2>6. 1 \in Streak(next, k) <=> next[1] \in Missed..Precommit
    <3>1. \A j \in Signs(next, k) : 1 < j
      BY SMTT(30), <2>2, <1>a
    <3> QED
      BY SMTT(30), <3>1, <1>a DEF Streak
  <2> HIDE DEF Kept
  <2>7. Streak(next, k) \ {1} = Shift(Kept) /\ 1 \notin Shift(Kept)
    <3>1. \A i \in Streak(next, k) \ {1} : i \in Shift(Kept)
      BY <2>4 DEF Shift
    <3>2. \A i \in Shift(Kept) : i \in Streak(next, k) /\ i # 1
      BY <2>5 DEF Shift
    <3> QED
      BY <3>1, <3>2, Zenon
  <2>8. Cardinality(Streak(next, k)) =
          Cardinality(Kept) + (IF next[1] \in Missed..Precommit THEN 1 ELSE 0)
    <3>1. CASE next[1] \in Missed..Precommit
      <4>1. Streak(next, k) = Shift(Kept) \cup {1}
        BY <3>1, <2>6, <2>7
      <4> QED
        BY ZenonT(40), <4>1, <3>1, <2>7, <1>3, FS_AddElement
    <3>2. CASE next[1] \notin Missed..Precommit
      <4>1. Streak(next, k) = Shift(Kept)
        BY <3>2, <2>6, <2>7
      <4> QED
        BY <4>1, <3>2, <1>2, <1>3
    <3> QED
      BY <3>1, <3>2
  <2>9. Signs(row, n) = {} => Signs(next, k) = {}
    BY <2>2
  <2>10. Cardinality(Streak(row, n)) \in Nat
    BY <1>1, FS_CardinalityType
  <2>11. CASE Signs(row, n) = {} /\ n = ShowBlocks
    <3>1. Cardinality(Kept) <= m /\ Signs(next, k) = {} /\ k = ShowBlocks
      BY <2>11, <2>9, <2>10, <1>2, <1>a DEF Agrees
    <3> QED
      BY SMTT(30), <3>1, <2>8, <1>2, <1>6, <1>b DEF Agrees, Missed, Precommit, Signed
  <2>12. CASE ~(Signs(row, n) = {} /\ n = ShowBlocks)
    <3>1. Cardinality(Kept) = m
      BY <2>12, <1>4, <1>a DEF Agrees
    <3> QED
      BY SMTT(30), <3>1, <2>8, <1>6, <1>b DEF Agrees, Missed, Precommit, Signed
  <2> QED
    BY <2>11, <2>12
<1> QED
  BY <1>5, <1>6, <1>b DEF Signed

-----------------------------------------------------------------------------
(* The counters against the chain: a block in hand is newer than the last  *)
(* one recorded, no block is judged twice and every counter is bounded by  *)
(* the blocks judged.                                                      *)
CountInv ==
  /\ tip \in 0..MaxHeight /\ lastBlockNum \in 0..tip
  /\ statTotalSigns \in Nat /\ statTotalMiss \in Nat
  /\ statTotalProps \in 0..statTotalSigns
  /\ statConsecutiveMiss \in 0..statTotalMiss
  /\ statVoteMiss \in [{Prevote, Precommit} -> 0..statTotalMiss]
  /\ statTotalSigns + statTotalMiss <= lastBlockNum
  /\ worker # NoMsg => statTotalSigns + statTotalMiss < lastBlockNum
  /\ blocks # NoMsg => lastBlockNum < blocks.height /\ blocks.height <= tip
  /\ reader # NoMsg /\ reader.final =>
       /\ lastBlockNum < reader.height /\ reader.height <= tip
       /\ blocks # NoMsg => blocks.height < reader.height

(* What CountBlock makes of the counters.                                  *)
LEMMA CountEffect ==
  ASSUME signState \in -1..4, CountBlock
  PROVE  \/ /\ signState \in Missed..Precommit
            /\ statTotalMiss' = statTotalMiss + 1
            /\ statConsecutiveMiss' = statConsecutiveMiss + 1
            /\ statVoteMiss' = [s \in DOMAIN statVoteMiss |->
                                  statVoteMiss[s] + (IF s = signState THEN 1 ELSE 0)]
            /\ statTotalSigns' = statTotalSigns /\ statTotalProps' = statTotalProps
         \/ /\ signState >= Signed
            /\ statTotalSigns' = statTotalSigns + 1
            /\ statTotalProps' = statTotalProps + (IF signState = Proposed THEN 1 ELSE 0)
            /\ statConsecutiveMiss' = 0
            /\ statTotalMiss' = statTotalMiss /\ statVoteMiss' = statVoteMiss
         \/ /\ signState = -1
            /\ UNCHANGED <<statTotalSigns, statTotalProps, statTotalMiss, statVoteMiss,
                           statConsecutiveMiss>>
<1>1. CASE signState \in Missed..Precommit
  <2>1. signState \notin {Signed, Proposed} /\ signState # -1
    BY <1>1 DEF Missed, Precommit, Signed, Proposed
  <2> QED
    BY <1>1, <2>1, ZenonT(40) DEF CountBlock
<1>2. CASE signState \in {Signed, Proposed}
  <2>1. signState \notin Missed..Precommit /\ signState # -1 /\ signState >= Signed
    BY <1>2 DEF Missed, Precommit, Signed, Proposed
  <2> QED
    BY <1>2, <2>1, ZenonT(40) DEF CountBlock
<1>3. CASE signState = -1
  <2>1. signState \notin Missed..Precommit /\ signState \notin {Signed, Proposed}
    BY <1>3 DEF Missed, Precommit, Signed, Proposed
  <2> QED
    BY <1>3, <2>1, ZenonT(40) DEF CountBlock
<1> QED
  BY <1>1, <1>2, <1>3 DEF Missed, Precommit, Signed, Proposed

(* Heights of updates.                                                     *)
LEMMA UpdateHeight ==
  \A u \in Updates : u.height \in 1..MaxHeight /\ u.height \in Nat
<1>1. \A u \in Updates : u.height \in 1..MaxHeight
  BY ZenonT(40) DEF Updates, Heights
<1> QED
  BY SMTT(30), <1>1, BlockAssumption

(* No step counts a block twice.                                           *)
LEMMA CountStep == HandsOK /\ CountInv /\ [Next]_vars => CountInv'
<1> SUFFICES ASSUME HandsOK, CountInv, [Next]_vars PROVE CountInv'
  OBVIOUS
<1>a. MaxHeight \in Nat
  BY BlockAssumption
<1> USE DEF chainVars, sessionVars, handVars, signVars, statVars, stalledVars, missVars, feedVars
<1>1. CASE BondedChanges \/ BlockTimeAges \/ WsRunOpens \/ WsRunCancels \/ WsRunReturns
           \/ ReadFails \/ WebsocketIdle \/ SendUpdate \/ HealthFindsNoClient \/ NewRpc \/ Serve
           \/ Watch \/ CloseWebSocket \/ VotesExits \/ ReceiveVote \/ UNCHANGED vars
  <2>1. UNCHANGED <<tip, reader, blocks, worker, lastBlockNum, statTotalSigns, statTotalProps,
                    statTotalMiss, statVoteMiss, statConsecutiveMiss>>
    BY <1>1, RpcFrame, ZenonT(40) DEF BondedChanges, BlockTimeAges, WsRunOpens, WsRunCancels, WsRunReturns,
       ReadFails, WebsocketIdle, SendUpdate, Serve, Watch, CheckStalledAlert, WatchConsecutive,
       CloseWebSocket, VotesExits, ReceiveVote, vars
  <2> QED
    BY <2>1, Zenon DEF CountInv
<1>2. CASE EventUnseen
  <2>1. tip' \in 0..MaxHeight /\ tip' >= tip
    BY <1>2, <1>a DEF EventUnseen, NextEvent, CountInv
  <2>2. UNCHANGED <<reader, blocks, worker, lastBlockNum, statTotalSigns, statTotalProps,
                    statTotalMiss, statVoteMiss, statConsecutiveMiss>>
    BY <1>2 DEF EventUnseen
  <2>3. /\ blocks # NoMsg => blocks.height \in Nat
        /\ reader # NoMsg => reader.height \in Nat
    BY UpdateHeight DEF HandsOK, Final
  <2> QED
    BY <2>1, <2>2, <2>3, <1>a DEF CountInv
<1>3. CASE ReadMessage
  <2>1. PICK u \in Updates : NextEvent(u) /\ reader' = u
    BY <1>3 DEF ReadMessage
  <2>2. /\ tip' \in 0..MaxHeight /\ tip' >= tip
        /\ u.final => u.height = tip + 1 /\ u.height <= tip'
    BY <2>1, <1>a DEF NextEvent, CountInv
  <2>3. UNCHANGED <<blocks, worker, lastBlockNum, statTotalSigns, statTotalProps,
                    statTotalMiss, statVoteMiss, statConsecutiveMiss>>
    BY <1>3 DEF ReadMessage
  <2>4. blocks # NoMsg => blocks.height \in Nat
    BY UpdateHeight DEF HandsOK, Final
  <2> QED
    BY <2>1, <2>2, <2>3, <2>4, <1>a DEF CountInv
<1>4. CASE HandleVotes \/ ReaderExits \/ BlocksExits \/ WorkerExits
  <2>1. /\ UNCHANGED <<tip, lastBlockNum, statTotalSigns, statTotalProps,
                       statTotalMiss, statVoteMiss, statConsecutiveMiss>>
        /\ reader' \in {reader, NoMsg} /\ blocks' \in {blocks, NoMsg}
        /\ worker' \in {worker, NoMsg}
    BY <1>4, ZenonT(40) DEF HandleVotes, ReaderExits, BlocksExits, WorkerExits
  <2> QED
    BY <2>1, ZenonT(40) DEF CountInv
<1>5. CASE HandleBlocks
  <2>1. /\ UNCHANGED <<tip, worker, lastBlockNum, statTotalSigns, statTotalProps,
                       statTotalMiss, statVoteMiss, statConsecutiveMiss>>
        /\ reader # NoMsg /\ reader.final /\ blocks' \in {reader, NoMsg} /\ reader' = NoMsg
    BY <1>5, ZenonT(40) DEF HandleBlocks
  <2> QED
    BY <2>1, ZenonT(40) DEF CountInv
<1>6. CASE ReceiveFinalBlock
  <2>1. /\ UNCHANGED <<tip, reader, statTotalSigns, statTotalProps,
                       statTotalMiss, statVoteMiss, statConsecutiveMiss>>
        /\ blocks # NoMsg /\ blocks' = NoMsg /\ lastBlockNum' = blocks.height
    BY <1>6, ZenonT(40) DEF ReceiveFinalBlock
  <2>2. blocks.height \in Nat
    BY <2>1, UpdateHeight DEF HandsOK, Final
  <2> QED
    BY <2>1, <2>2, <1>a DEF CountInv
<1>7. CASE RecordBlockResult
  <2>1. /\ UNCHANGED <<tip, reader, blocks, lastBlockNum>>
        /\ worker # NoMsg /\ worker' = NoMsg /\ CountBlock
    BY <1>7, ZenonT(40) DEF RecordBlockResult
  <2>2. signState \in -1..4
    BY DEF HandsOK
  <2>3. /\ statTotalSigns' \in Nat /\ statTotalMiss' \in Nat
        /\ statTotalProps' \in 0..statTotalSigns'
        /\ statConsecutiveMiss' \in 0..statTotalMiss'
        /\ statVoteMiss' \in [{Prevote, Precommit} -> 0..statTotalMiss']
        /\ statTotalSigns' + statTotalMiss' <= statTotalSigns + statTotalMiss + 1
    BY <2>1, <2>2, CountEffect DEF CountInv
  <2>4. statTotalSigns' + statTotalMiss' <= lastBlockNum'
    <3>1. /\ statTotalSigns + statTotalMiss < lastBlockNum /\ lastBlockNum \in Nat
          /\ statTotalSigns \in Nat /\ statTotalMiss \in Nat
      BY <2>1, <1>a DEF CountInv
    <3>2. /\ statTotalSigns' \in Nat /\ statTotalMiss' \in Nat /\ lastBlockNum' = lastBlockNum
          /\ statTotalSigns' + statTotalMiss' <= statTotalSigns + statTotalMiss + 1
      BY <2>1, <2>3
    <3>3. \A a, b, c, d, l \in Nat : c + d < l /\ a + b <= c + d + 1 => a + b <= l
      OBVIOUS
    <3> QED
      BY <3>1, <3>2, <3>3, ZenonT(40)
  <2> QED
    BY <2>1, <2>3, <2>4, ZenonT(40) DEF CountInv
<1> QED
  BY <1>1, <1>2, <1>3, <1>4, <1>5, <1>6, <1>7, Zenon DEF Next, Handle, Judge, Exits

-----------------------------------------------------------------------------
(* The row and its way to the dashboard.                                   *)
RowInv ==
  /\ blocksResults \in Rows /\ fresh \in 0..ShowBlocks
  /\ Agrees(blocksResults, fresh, statConsecutiveMiss)

FeedInv ==
  /\ config \in Configs
  /\ update \in Rows \cup {<<>>} /\ statusCache \in Rows \cup {<<>>}
  /\ updateChan \in Seq(Rows) /\ Len(updateChan) <= Room
  /\ NewestRowIsOnItsWay

(* A goroutine that has returned holds nothing, and between sessions none  *)
(* does.                                                                   *)
SessionInv ==
  /\ ~open => reader = NoMsg /\ blocks = NoMsg /\ worker = NoMsg /\ update = <<>>
  /\ "reader" \in exited => reader = NoMsg
  /\ "blocks" \in exited => blocks = NoMsg
  /\ "worker" \in exited => worker = NoMsg /\ update = <<>>

(* monitorChain is in newRpc only between sessions, so that its row is the *)
(* newest; so is monitorHealth's until there is a client, without which no *)
(* session opens.                                                          *)
RpcInv ==
  /\ client \in BOOLEAN /\ inNewRpc \subseteq Callers /\ sentBehind \in BOOLEAN
  /\ rpcUpdate \in [Callers -> Rows \cup {<<>>}]
  /\ "monitorChain" \in inNewRpc => ~open
  /\ "monitorChain" \notin inNewRpc => client
  /\ rpcUpdate["monitorChain"] # <<>> =>
       "monitorChain" \in inNewRpc /\ rpcUpdate["monitorChain"] = blocksResults
  /\ rpcUpdate["monitorHealth"] # <<>> => client \/ rpcUpdate["monitorHealth"] = blocksResults

(* The row and the feed change in four steps only.                         *)
LEMMA RowFrame ==
  ASSUME [Next]_vars, ~RecordBlockResult
  PROVE  /\ UNCHANGED <<blocksResults, fresh, statConsecutiveMiss, config>>
         /\ ~SendUpdate /\ ~NewRpc /\ ~Serve =>
              UNCHANGED <<update, updateChan, statusCache, sentBehind>>
<1>1. CASE NewRpc
  BY <1>1, RpcFrame DEF statVars
<1>2. CASE ~NewRpc
  BY ZenonT(40), <1>2 DEF Next, Handle, Judge, Exits, Watch, EventUnseen, BondedChanges,
     BlockTimeAges, WsRunOpens, WsRunCancels, WsRunReturns, ReadMessage, ReadFails,
     HandleVotes, HandleBlocks, WebsocketIdle, CloseWebSocket, ReaderExits, VotesExits,
     BlocksExits, WorkerExits, ReceiveVote, ReceiveFinalBlock, SendUpdate, HealthFindsNoClient,
     Serve, CheckStalledAlert, WatchConsecutive, vars, statVars, feedVars
<1> QED
  BY <1>1, <1>2

(* Every step keeps what a session holds.                                  *)
LEMMA SessionStep == SessionInv /\ [Next]_vars => SessionInv'
<1> SUFFICES ASSUME SessionInv, [Next]_vars PROVE SessionInv'
  OBVIOUS
<1> USE DEF sessionVars, handVars, feedVars
<1>1. CASE EventUnseen \/ BondedChanges \/ BlockTimeAges \/ WsRunCancels
           \/ HealthFindsNoClient \/ NewRpc \/ Serve \/ Watch \/ UNCHANGED vars
  <2>1. UNCHANGED <<open, reader, blocks, worker, exited, update>>
    BY <1>1, RpcFrame, ZenonT(40) DEF EventUnseen, BondedChanges, BlockTimeAges, WsRunCancels,
       Serve, Watch, CheckStalledAlert, WatchConsecutive, vars
  <2> QED
    BY <2>1, Zenon DEF SessionInv
<1>2. CASE WsRunOpens
  BY <1>2, Zenon DEF WsRunOpens, SessionInv
<1>3. CASE WsRunReturns
  BY <1>3, Zenon DEF WsRunReturns, SessionInv, Goroutines
<1>4. CASE ReadMessage
  BY <1>4, Zenon DEF ReadMessage, SessionInv
<1>5. CASE HandleVotes \/ HandleBlocks
  BY <1>5, ZenonT(40) DEF HandleVotes, HandleBlocks, SessionInv
<1>6. CASE ReadFails \/ WebsocketIdle \/ Exits
  <2>1. UNCHANGED <<open, update>>
    BY <1>6, Zenon DEF ReadFails, WebsocketIdle, Exits, CloseWebSocket, ReaderExits, VotesExits,
       BlocksExits, WorkerExits
  <2>2. /\ reader' \in {reader, NoMsg} /\ blocks' \in {blocks, NoMsg} /\ worker' \in {worker, NoMsg}
    BY <1>6, ZenonT(40) DEF ReadFails, WebsocketIdle, Exits, CloseWebSocket, ReaderExits, VotesExits,
       BlocksExits, WorkerExits
  <2>3. /\ "reader" \in exited' => "reader" \in exited \/ reader' = NoMsg
        /\ "blocks" \in exited' => "blocks" \in exited \/ blocks' = NoMsg
        /\ "worker" \in exited' => "worker" \in exited \/ (worker' = NoMsg /\ update = <<>>)
    BY <1>6, ZenonT(40) DEF ReadFails, WebsocketIdle, Exits, CloseWebSocket, ReaderExits, VotesExits,
       BlocksExits, WorkerExits
  <2> QED
    BY <2>1, <2>2, <2>3, Zenon DEF SessionInv
<1>7. CASE ReceiveVote
  BY <1>7, Zenon DEF ReceiveVote, SessionInv
<1>8. CASE ReceiveFinalBlock
  BY <1>8, ZenonT(40) DEF ReceiveFinalBlock, WorkerIdle, SessionInv
<1>9. CASE RecordBlockResult
  BY <1>9, ZenonT(40) DEF RecordBlockResult, SessionInv
<1>10. CASE SendUpdate
  BY <1>10, Zenon DEF SendUpdate, SessionInv
<1> QED
  BY <1>1, <1>2, <1>3, <1>4, <1>5, <1>6, <1>7, <1>8, <1>9, <1>10 DEF Next, Handle, Judge, Exits

(* A row is not the empty sequence.                                        *)
LEMMA RowNotEmpty == <<>> \notin Rows
<1>1. ShowBlocks \in Nat \ {0}
  BY BlockAssumption
<1>2. DOMAIN <<>> # 1..ShowBlocks
  BY <1>1
<1> QED
  BY <1>2 DEF Rows

(* Every step keeps the row in agreement with the counter.                 *)
LEMMA RowStep == HandsOK /\ CountInv /\ RowInv /\ [Next]_vars => RowInv'
<1> SUFFICES ASSUME HandsOK, CountInv, RowInv, [Next]_vars PROVE RowInv'
  OBVIOUS
<1>1. CASE RecordBlockResult
  <2>1. /\ blocksResults' = NextRow /\ CountBlock
        /\ fresh' = IF fresh < ShowBlocks THEN fresh + 1 ELSE fresh
    BY <1>1 DEF RecordBlockResult
  <2>2. /\ signState \in -1..4 /\ statConsecutiveMiss \in Nat /\ ShowBlocks \in Nat
        /\ blocksResults \in Rows /\ fresh \in 0..ShowBlocks
    BY SMTT(30), BlockAssumption DEF HandsOK, CountInv, RowInv
  <2>3. /\ NextRow \in Rows /\ NextRow[1] = signState
        /\ \A i \in 1..ShowBlocks - 1 : NextRow[i + 1] = blocksResults[i]
    BY <2>2, NextRowIs DEF Proposed
  <2>4. /\ signState >= Signed => Agrees(NextRow, fresh', 0)
        /\ signState \in Missed..Precommit => Agrees(NextRow, fresh', statConsecutiveMiss + 1)
        /\ signState = -1 => Agrees(NextRow, fresh', statConsecutiveMiss)
    BY <2>1, <2>2, <2>3, AgreesStep DEF RowInv
  <2>5. \/ signState \in Missed..Precommit /\ statConsecutiveMiss' = statConsecutiveMiss + 1
        \/ signState >= Signed /\ statConsecutiveMiss' = 0
        \/ signState = -1 /\ statConsecutiveMiss' = statConsecutiveMiss
    BY <2>1, <2>2, CountEffect
  <2>6. Agrees(blocksResults, fresh, statConsecutiveMiss)'
    <3>1. Agrees(NextRow, fresh', statConsecutiveMiss')
      BY <2>4, <2>5, Zenon
    <3> QED
      BY <3>1, <2>1 DEF Agrees, Signs, Streak
  <2>7. fresh' \in 0..ShowBlocks
    BY <2>1, <2>2
  <2> QED
    BY <2>1, <2>3, <2>6, <2>7 DEF RowInv
<1>2. CASE ~RecordBlockResult
  <2>1. UNCHANGED <<blocksResults, fresh, statConsecutiveMiss>>
    BY <1>2, RowFrame
  <2> QED
    BY <2>1, Zenon DEF RowInv, Agrees, Signs, Streak
<1> QED
  BY <1>1, <1>2

(* Every step keeps what is in the hands of newRpc.                        *)
LEMMA RpcStep == RowInv /\ SessionInv /\ RpcInv /\ [Next]_vars => RpcInv'
<1> SUFFICES ASSUME RowInv, SessionInv, RpcInv, [Next]_vars PROVE RpcInv'
  OBVIOUS
<1> USE DEF sessionVars, feedVars, rpcVars, statVars
<1>1. CASE RecordBlockResult
  <2>1. UNCHANGED <<client, inNewRpc, rpcUpdate, sentBehind, open>> /\ worker # NoMsg
    BY <1>1, Zenon DEF RecordBlockResult
  <2>2. open /\ "monitorChain" \notin inNewRpc /\ client /\ rpcUpdate["monitorChain"] = <<>>
    BY <2>1, Zenon DEF SessionInv, RpcInv
  <2> QED
    BY <2>1, <2>2, Zenon DEF RpcInv
<1>2. CASE WsRunOpens
  <2>1. UNCHANGED <<client, inNewRpc, rpcUpdate, sentBehind, blocksResults>>
        /\ "monitorChain" \notin inNewRpc
    BY <1>2, Zenon DEF WsRunOpens
  <2> QED
    BY <2>1, Zenon DEF RpcInv
<1>3. CASE WsRunReturns
  <2>1. /\ UNCHANGED <<client, rpcUpdate, sentBehind, blocksResults>> /\ open' = FALSE
        /\ inNewRpc' = inNewRpc \cup {"monitorChain"}
    BY <1>3, Zenon DEF WsRunReturns
  <2> QED
    BY <2>1, Zenon DEF RpcInv, Callers
<1>4. CASE SendUpdate
  <2>1. UNCHANGED <<client, inNewRpc, rpcUpdate, blocksResults, open>> /\ sentBehind' = FALSE
    BY <1>4, Zenon DEF SendUpdate
  <2> QED
    BY <2>1, Zenon DEF RpcInv
<1>5. CASE HealthFindsNoClient
  <2>1. /\ UNCHANGED <<client, rpcUpdate, sentBehind, blocksResults, open>>
        /\ inNewRpc' = inNewRpc \cup {"monitorHealth"}
    BY <1>5, Zenon DEF HealthFindsNoClient
  <2> QED
    BY <2>1 DEF RpcInv, Callers
<1>6. ASSUME NEW g \in Callers, NewRpcConnects(g) PROVE RpcInv'
  <2>1. /\ UNCHANGED <<rpcUpdate, sentBehind, blocksResults, open>>
        /\ client' = TRUE /\ inNewRpc' = inNewRpc \ {g}
        /\ rpcUpdate["monitorChain"] = <<>>
    BY <1>6, Zenon DEF NewRpcConnects, RpcMuxFree, Callers
  <2> QED
    BY <2>1, Zenon DEF RpcInv
<1>7. ASSUME NEW g \in Callers, NewRpcFails(g) PROVE RpcInv'
  <2>1. /\ UNCHANGED <<client, inNewRpc, sentBehind, blocksResults, open>>
        /\ g \in inNewRpc /\ \A h \in Callers : rpcUpdate[h] = <<>>
        /\ rpcUpdate' = [rpcUpdate EXCEPT ![g] = blocksResults]
    BY <1>7, Zenon DEF NewRpcFails, RpcMuxFree
  <2>2. blocksResults \in Rows
    BY DEF RowInv
  <2>3. rpcUpdate' \in [Callers -> Rows \cup {<<>>}]
        /\ \A h \in Callers : rpcUpdate'[h] = IF h = g THEN blocksResults ELSE <<>>
    BY SMTT(30), <2>1, <2>2 DEF RpcInv
  <2> QED
    BY <2>1, <2>3, Zenon DEF RpcInv, Callers
<1>8. ASSUME NEW g \in Callers, NewRpcSends(g) PROVE RpcInv'
  <2>1. /\ UNCHANGED <<client, blocksResults, open>>
        /\ inNewRpc' = (IF g = "monitorHealth" THEN inNewRpc \ {g} ELSE inNewRpc)
        /\ rpcUpdate' = [rpcUpdate EXCEPT ![g] = <<>>]
        /\ sentBehind' = (g = "monitorHealth" /\ client)
    BY <1>8, Zenon DEF NewRpcSends
  <2>2. /\ rpcUpdate' \in [Callers -> Rows \cup {<<>>}]
        /\ \A h \in Callers : rpcUpdate'[h] = IF h = g THEN <<>> ELSE rpcUpdate[h]
    BY SMTT(30), <2>1 DEF RpcInv
  <2>3. /\ inNewRpc' \subseteq Callers
        /\ "monitorChain" \in inNewRpc' <=> "monitorChain" \in inNewRpc
    BY <2>1, SMTT(30) DEF RpcInv
  <2>4. "monitorChain" \in Callers /\ "monitorHealth" \in Callers
    BY DEF Callers
  <2>5. sentBehind' \in BOOLEAN
    BY <2>1, Zenon
  <2> QED
    BY <2>1, <2>2, <2>3, <2>4, <2>5, ZenonT(40) DEF RpcInv
<1>9. CASE ~RecordBlockResult /\ ~WsRunOpens /\ ~WsRunReturns /\ ~SendUpdate
           /\ ~HealthFindsNoClient /\ ~NewRpc
  <2>1. UNCHANGED <<client, inNewRpc, rpcUpdate, sentBehind, blocksResults, open>>
    BY <1>9, ZenonT(40) DEF Next, Handle, Judge, Exits, Watch, EventUnseen, BondedChanges,
       BlockTimeAges, WsRunCancels, ReadMessage, ReadFails, HandleVotes, HandleBlocks,
       WebsocketIdle, CloseWebSocket, ReaderExits, VotesExits, BlocksExits, WorkerExits,
       ReceiveVote, ReceiveFinalBlock, Serve, CheckStalledAlert, WatchConsecutive, vars
  <2> QED
    BY <2>1, Zenon DEF RpcInv
<1> QED
  BY <1>1, <1>2, <1>3, <1>4, <1>5, <1>6, <1>7, <1>8, <1>9, Zenon DEF NewRpc

(* A row put at the end of updateChan.                                     *)
LEMMA RowAppended ==
  ASSUME NEW row \in Rows, updateChan \in Seq(Rows), Len(updateChan) < Room,
         updateChan' = Append(updateChan, row)
  PROVE  /\ updateChan' \in Seq(Rows) /\ Len(updateChan') <= Room
         /\ updateChan' # <<>> /\ updateChan'[Len(updateChan')] = row
<1>1. /\ Append(updateChan, row) \in Seq(Rows)
      /\ Len(Append(updateChan, row)) = Len(updateChan) + 1
      /\ Append(updateChan, row)[Len(updateChan) + 1] = row
  BY ZenonT(40), AppendProperties
<1>2. Len(updateChan) \in Nat
  BY LenProperties
<1> QED
  BY <1>1, <1>2, EmptySeq DEF Room

(* Every step keeps the newest row last on its way.                        *)
LEMMA FeedStep == HandsOK /\ RowInv /\ RpcInv /\ FeedInv /\ [Next]_vars => FeedInv'
<1> SUFFICES ASSUME HandsOK, RowInv, RpcInv, FeedInv, [Next]_vars PROVE FeedInv'
  OBVIOUS
<1>a. /\ update \in Rows \cup {<<>>} /\ statusCache \in Rows \cup {<<>>}
      /\ updateChan \in Seq(Rows) /\ Len(updateChan) <= Room /\ config \in Configs
      /\ NewestRowIsOnItsWay
  BY DEF FeedInv
<1>b. <<>> \notin Rows
  BY RowNotEmpty
<1>1. CASE RecordBlockResult
  <2>1. /\ blocksResults' = NextRow /\ UNCHANGED <<updateChan, statusCache, config>>
        /\ update' = IF "dash" \in config THEN NextRow ELSE <<>>
    BY <1>1 DEF RecordBlockResult
  <2>2. NextRow \in Rows
    BY NextRowIs DEF HandsOK, RowInv, Proposed
  <2>3. NewestRowIsOnItsWay'
    BY <2>1, <2>2, <1>b, Zenon DEF NewestRowIsOnItsWay
  <2> QED
    BY <2>1, <2>2, <2>3, <1>a, Zenon DEF FeedInv
<1>2. CASE SendUpdate
  <2>1. /\ update # <<>> /\ Len(updateChan) < Room /\ update' = <<>>
        /\ updateChan' = Append(updateChan, update)
        /\ UNCHANGED <<blocksResults, statusCache, config>>
    BY <1>2 DEF SendUpdate, statVars
  <2>2. /\ updateChan' \in Seq(Rows) /\ Len(updateChan') <= Room
        /\ updateChan' # <<>> /\ updateChan'[Len(updateChan')] = update
    <3>1. update \in Rows
      BY <2>1, <1>a
    <3> QED
      BY <2>1, <3>1, <1>a, RowAppended
  <2>3. NewestRowIsOnItsWay'
    BY <2>1, <2>2, <1>a, Zenon DEF NewestRowIsOnItsWay
  <2> QED
    BY <2>1, <2>2, <2>3, <1>a, Zenon DEF FeedInv
<1>3. CASE Serve
  <2>1. /\ updateChan # <<>> /\ statusCache' = Head(updateChan)
        /\ updateChan' = Tail(updateChan)
        /\ UNCHANGED <<blocksResults, update, config, sentBehind>>
    BY <1>3 DEF Serve, statVars
  <2>2. /\ statusCache' \in Rows /\ updateChan' \in Seq(Rows) /\ Len(updateChan') <= Room
        /\ IF updateChan' # <<>>
           THEN updateChan'[Len(updateChan')] = updateChan[Len(updateChan)]
           ELSE statusCache' = updateChan[Len(updateChan)]
    <3>1. /\ Head(updateChan) \in Rows /\ Tail(updateChan) \in Seq(Rows)
          /\ Len(Tail(updateChan)) = Len(updateChan) - 1
          /\ \A i \in 1..Len(Tail(updateChan)) : Tail(updateChan)[i] = updateChan[i + 1]
      BY <2>1, <1>a, HeadTailProperties
    <3>2. Len(updateChan) \in Nat \ {0} /\ Head(updateChan) = updateChan[1]
      BY <2>1, <1>a, EmptySeq
    <3>3. CASE Tail(updateChan) = <<>>
      <4>1. Len(updateChan) = 1
        <5>1. Len(Tail(updateChan)) = 0
          BY <3>3, EmptySeq, Zenon
        <5> QED
          BY <5>1, <3>1, <3>2
      <4> QED
        BY <4>1, <3>1, <3>2, <3>3, <2>1, <1>a DEF Room
    <3>4. CASE Tail(updateChan) # <<>>
      <4>1. Len(Tail(updateChan)) \in Nat \ {0}
        BY <3>1, <3>4, EmptySeq
      <4>2. Len(Tail(updateChan)) + 1 = Len(updateChan)
        BY SMTT(30), <3>1, <3>2
      <4>3. Tail(updateChan)[Len(Tail(updateChan))] = updateChan[Len(updateChan)]
        BY <3>1, <4>1, <4>2
      <4>4. Len(Tail(updateChan)) <= Room
        BY <3>1, <3>2, <1>a DEF Room
      <4> QED
        BY <4>3, <4>4, <3>1, <3>4, <2>1, Zenon
    <3> QED
      BY <3>3, <3>4
  <2>3. NewestRowIsOnItsWay'
    BY <2>1, <2>2, <1>a, Zenon DEF NewestRowIsOnItsWay
  <2> QED
    BY <2>1, <2>2, <2>3, <1>a, Zenon DEF FeedInv
<1>4. ASSUME NEW g \in Callers, NewRpcConnects(g) \/ NewRpcFails(g) PROVE FeedInv'
  <2>1. UNCHANGED <<blocksResults, config, update, updateChan, statusCache, sentBehind>>
    BY <1>4, Zenon DEF NewRpcConnects, NewRpcFails, statVars
  <2> QED
    BY <2>1, <1>a, Zenon DEF FeedInv, NewestRowIsOnItsWay
<1>5. ASSUME NEW g \in Callers, NewRpcSends(g) PROVE FeedInv'
  <2>1. /\ rpcUpdate[g] # <<>> /\ Len(updateChan) < Room
        /\ updateChan' = Append(updateChan, rpcUpdate[g])
        /\ sentBehind' = (g = "monitorHealth" /\ client)
        /\ UNCHANGED <<blocksResults, update, statusCache, config>>
    BY <1>5, Zenon DEF NewRpcSends, statVars
  <2>2. rpcUpdate[g] \in Rows
    BY <2>1 DEF RpcInv
  <2>3. /\ updateChan' \in Seq(Rows) /\ Len(updateChan') <= Room
        /\ updateChan' # <<>> /\ updateChan'[Len(updateChan')] = rpcUpdate[g]
    BY <2>1, <2>2, <1>a, RowAppended
  <2>4. rpcUpdate[g] = blocksResults \/ sentBehind'
    BY <2>1, Zenon DEF RpcInv, Callers
  <2>5. NewestRowIsOnItsWay'
    BY <2>1, <2>3, <2>4, <1>a, Zenon DEF NewestRowIsOnItsWay
  <2> QED
    BY <2>1, <2>3, <2>5, <1>a, Zenon DEF FeedInv
<1>6. CASE ~RecordBlockResult /\ ~SendUpdate /\ ~NewRpc /\ ~Serve
  <2>1. UNCHANGED <<blocksResults, config, update, updateChan, statusCache, sentBehind>>
    BY <1>6, RowFrame
  <2> QED
    BY <2>1, <1>a, Zenon DEF FeedInv, NewestRowIsOnItsWay
<1> QED
  BY <1>1, <1>2, <1>3, <1>4, <1>5, <1>6, Zenon DEF NewRpc

-----------------------------------------------------------------------------
(* The rest of what is typed.                                              *)
ControlInv ==
  /\ cast \in 0..MaxVotes /\ bonded \in BOOLEAN
  /\ open \in BOOLEAN /\ cancelled \in BOOLEAN /\ connected \in BOOLEAN
  /\ exited \subseteq Goroutines
  /\ lastBlockTime \in {"zero", "recent", "old"}
  /\ lastBlockAlarm \in BOOLEAN /\ stalledResolutionPending \in BOOLEAN
  /\ missedAlarm \in BOOLEAN /\ stalledPaged \in BOOLEAN /\ missedPaged \in BOOLEAN
  /\ newBlock \in BOOLEAN

(* Every step keeps it.                                                    *)
LEMMA ControlStep == ControlInv /\ [Next]_vars => ControlInv'
<1> SUFFICES ASSUME ControlInv, [Next]_vars PROVE ControlInv'
  OBVIOUS
<1> USE DEF chainVars, sessionVars, handVars, signVars, statVars, stalledVars, missVars, feedVars
<1>1. cast' \in 0..MaxVotes
  <2>1. CASE UNCHANGED cast
    BY <2>1 DEF ControlInv
  <2>2. CASE \E u \in Updates : NextEvent(u)
    <3>1. cast' = 0 \/ (cast < MaxVotes /\ cast' = cast + 1)
      BY <2>2 DEF NextEvent
    <3> QED
      BY SMTT(30), <3>1, BlockAssumption DEF ControlInv
  <2>3. UNCHANGED cast \/ \E u \in Updates : NextEvent(u)
    BY ZenonT(40), RpcFrame DEF Next, Handle, Judge, Exits, Watch, EventUnseen, BondedChanges,
       BlockTimeAges, WsRunOpens, WsRunCancels, WsRunReturns, ReadMessage, ReadFails,
       HandleVotes, HandleBlocks, WebsocketIdle, CloseWebSocket, ReaderExits, VotesExits,
       BlocksExits, WorkerExits, ReceiveVote, ReceiveFinalBlock, RecordBlockResult,
       SendUpdate, Serve, CheckStalledAlert, WatchConsecutive, vars
  <2> QED
    BY <2>1, <2>2, <2>3
<1>2. exited' \subseteq Goroutines
  BY ZenonT(40), RpcFrame DEF Next, Handle, Judge, Exits, Watch, EventUnseen, BondedChanges,
     BlockTimeAges, WsRunOpens, WsRunCancels, WsRunReturns, ReadMessage, ReadFails,
     HandleVotes, HandleBlocks, WebsocketIdle, CloseWebSocket, ReaderExits, VotesExits,
     BlocksExits, WorkerExits, ReceiveVote, ReceiveFinalBlock, RecordBlockResult,
     SendUpdate, Serve, CheckStalledAlert, WatchConsecutive, vars, ControlInv, Goroutines
<1>3. open' \in BOOLEAN /\ cancelled' \in BOOLEAN /\ connected' \in BOOLEAN
  BY ZenonT(40), RpcFrame DEF Next, Handle, Judge, Exits, Watch, EventUnseen, BondedChanges,
     BlockTimeAges, WsRunOpens, WsRunCancels, WsRunReturns, ReadMessage, ReadFails,
     HandleVotes, HandleBlocks, WebsocketIdle, CloseWebSocket, ReaderExits, VotesExits,
     BlocksExits, WorkerExits, ReceiveVote, ReceiveFinalBlock, RecordBlockResult,
     SendUpdate, Serve, CheckStalledAlert, WatchConsecutive, vars, ControlInv
<1>4. bonded' \in BOOLEAN /\ lastBlockTime' \in {"zero", "recent", "old"}
  BY ZenonT(40), RpcFrame DEF Next, Handle, Judge, Exits, Watch, EventUnseen, BondedChanges,
     BlockTimeAges, WsRunOpens, WsRunCancels, WsRunReturns, ReadMessage, ReadFails,
     HandleVotes, HandleBlocks, WebsocketIdle, CloseWebSocket, ReaderExits, VotesExits,
     BlocksExits, WorkerExits, ReceiveVote, ReceiveFinalBlock, RecordBlockResult,
     SendUpdate, Serve, CheckStalledAlert, WatchConsecutive, vars, ControlInv
<1>5. lastBlockAlarm' \in BOOLEAN /\ stalledResolutionPending' \in BOOLEAN
  BY ZenonT(40), RpcFrame DEF Next, Handle, Judge, Exits, Watch, EventUnseen, BondedChanges,
     BlockTimeAges, WsRunOpens, WsRunCancels, WsRunReturns, ReadMessage, ReadFails,
     HandleVotes, HandleBlocks, WebsocketIdle, CloseWebSocket, ReaderExits, VotesExits,
     BlocksExits, WorkerExits, ReceiveVote, ReceiveFinalBlock, RecordBlockResult,
     SendUpdate, Serve, CheckStalledAlert, WatchConsecutive, vars, ControlInv
<1>6. /\ missedAlarm' \in BOOLEAN /\ stalledPaged' \in BOOLEAN /\ missedPaged' \in BOOLEAN
      /\ newBlock' \in BOOLEAN
  BY ZenonT(40), RpcFrame DEF Next, Handle, Judge, Exits, Watch, EventUnseen, BondedChanges,
     BlockTimeAges, WsRunOpens, WsRunCancels, WsRunReturns, ReadMessage, ReadFails,
     HandleVotes, HandleBlocks, WebsocketIdle, CloseWebSocket, ReaderExits, VotesExits,
     BlocksExits, WorkerExits, ReceiveVote, ReceiveFinalBlock, RecordBlockResult,
     SendUpdate, Serve, CheckStalledAlert, WatchConsecutive, vars, ControlInv
<1> QED
  BY <1>1, <1>2, <1>3, <1>4, <1>5, <1>6 DEF ControlInv

(* The process starts with an empty row, or with the one it restored.      *)
LEMMA InitTyped == Init => CountInv /\ RowInv /\ SessionInv /\ RpcInv /\ FeedInv /\ ControlInv
<1> SUFFICES ASSUME Init PROVE CountInv /\ RowInv /\ SessionInv /\ RpcInv /\ FeedInv /\ ControlInv
  OBVIOUS
<1>a. MaxHeight \in Nat /\ ShowBlocks \in Nat \ {0} /\ Restored \in BOOLEAN
  BY BlockAssumption
<1>1. CountInv
  BY <1>a DEF Init, CountInv
<1>2. blocksResults \in Rows
  BY <1>a DEF Init, Rows, Missed, Proposed
<1>3. RowInv
  <2>1. fresh = 0 /\ statConsecutiveMiss = 0
    BY DEF Init
  <2>2. Streak(blocksResults, 0) = {} /\ ShowBlocks # 0
    BY <1>a DEF Streak
  <2>3. Agrees(blocksResults, 0, 0)
    BY <2>2, FS_EmptySet DEF Agrees
  <2> QED
    BY <2>1, <2>3, <1>2, <1>a DEF RowInv
<1>4. FeedInv
  <2>1. CASE "dash" \in config
    <3>1. updateChan = <<blocksResults>> /\ update = <<>> /\ statusCache = <<>> /\ config \in Configs
      BY <2>1, Zenon DEF Init
    <3>2. /\ <<blocksResults>> \in Seq(Rows) /\ Len(<<blocksResults>>) = 1
          /\ <<blocksResults>>[1] = blocksResults /\ <<blocksResults>> # <<>>
      BY <1>2
    <3> QED
      BY <3>1, <3>2 DEF FeedInv, NewestRowIsOnItsWay, Room
  <2>2. CASE "dash" \notin config
    <3>1. updateChan = <<>> /\ update = <<>> /\ statusCache = <<>> /\ config \in Configs
      BY <2>2 DEF Init
    <3>2. <<>> \in Seq(Rows) /\ Len(<<>>) = 0
      BY EmptySeq
    <3> QED
      BY <2>2, <3>1, <3>2 DEF FeedInv, NewestRowIsOnItsWay, Room
  <2> QED
    BY <2>1, <2>2
<1>5. ControlInv
  <2>1. cast \in 0..MaxVotes
    BY BlockAssumption DEF Init
  <2> QED
    BY <2>1, ZenonT(40) DEF Init, ControlInv
<1>6. SessionInv
  BY Zenon DEF Init, SessionInv
<1>7. RpcInv
  <2>1. rpcUpdate = [g \in Callers |-> <<>>]
    BY DEF Init
  <2>2. rpcUpdate["monitorChain"] = <<>> /\ rpcUpdate["monitorHealth"] = <<>>
    BY <2>1 DEF Callers
  <2>3. rpcUpdate \in [Callers -> Rows \cup {<<>>}]
    BY <2>1
  <2> QED
    BY <2>2, <2>3, Zenon DEF Init, RpcInv, Callers
<1> QED
  BY <1>1, <1>3, <1>4, <1>5, <1>6, <1>7

(* The counters, the row and its way to the dashboard, over all sessions.  *)
THEOREM RowInvariant ==
  Spec => [](HandsOK /\ CountInv /\ RowInv /\ SessionInv /\ RpcInv /\ FeedInv /\ ControlInv)
<1>1. BInv => HandsOK
  BY DEF BInv
<1> QED
  BY <1>1, InitTyped, BlockInvariant, CountStep, RowStep, SessionStep, RpcStep, FeedStep,
     ControlStep, PTL DEF Spec

(* Every variable keeps its type; that the counters never pass the height  *)
(* of the chain needs that no session brings a block again.                *)
THEOREM BlockTypes == Spec => []TypeOK
<1>1. HandsOK /\ CountInv /\ RowInv /\ SessionInv /\ RpcInv /\ FeedInv /\ ControlInv => TypeOK
  <2> SUFFICES ASSUME HandsOK, CountInv, RowInv, RpcInv, FeedInv, ControlInv PROVE TypeOK
    OBVIOUS
  <2>1. MaxHeight \in Nat
    BY BlockAssumption
  <2>2. /\ tip \in 0..MaxHeight /\ lastBlockNum \in 0..MaxHeight
        /\ statTotalSigns \in 0..MaxHeight /\ statTotalProps \in 0..MaxHeight
        /\ statTotalMiss \in 0..MaxHeight /\ statConsecutiveMiss \in 0..MaxHeight
    BY <2>1 DEF CountInv
  <2>3. statVoteMiss \in [{Prevote, Precommit} -> 0..MaxHeight]
    BY SMTT(30), <2>1, <2>2 DEF CountInv
  <2>4. Len(updateChan) <= Room /\ \A i \in DOMAIN updateChan : updateChan[i] \in Rows
    BY DEF FeedInv
  <2> QED
    BY <2>2, <2>3, <2>4, ZenonT(40)
       DEF TypeOK, HandsOK, RowInv, RpcInv, FeedInv, ControlInv, Final, Votes
<1> QED
  BY <1>1, RowInvariant, PTL

(* The misses the row shows before the latest sign are the ones            *)
(* consecutive_missed counts, for a row of any length, over any number of  *)
(* blocks and sessions.                                                    *)
THEOREM RowsAgreeWithCounters == Spec => []RowAgreesWithCounter
<1>1. RowInv => RowAgreesWithCounter
  BY Zenon DEF RowInv, RowAgreesWithCounter, Agrees, Signs, Streak
<1> QED
  BY <1>1, RowInvariant, PTL

(* The row as it stands is the last one sent to the dashboard, whatever    *)
(* newRpc sends between sessions; only a newRpc that monitorHealth began   *)
(* before there was a client comes between.                                *)
THEOREM NewestRowsOnTheirWay == Spec => []NewestRowIsOnItsWay
<1>1. FeedInv => NewestRowIsOnItsWay
  BY DEF FeedInv
<1> QED
  BY <1>1, RowInvariant, PTL
=============================================================================
