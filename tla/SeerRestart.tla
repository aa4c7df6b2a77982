---------------------------- MODULE SeerRestart ----------------------------
(***************************************************************************)
(* Processes that follow one another: the validator watch of a running     *)
(* process composed with the files its state is saved to and restored      *)
(* from.  The sent map and the dashboard alarms are part of a document;    *)
(* validator records, the word for the reason and the latch are not.  The  *)
(* validator and the destination live on while no process runs.            *)
(*                                                                         *)
(* A clean stop saves in one step what CheckpointIsFinal of AlertPipeline  *)
(* says is final; writing it takes the steps of StateStore.                *)
(***************************************************************************)
EXTENDS StateStore, ValidatorWatch

VARIABLES
  content, \* content[n]: the alarms in document n
  unsaved, \* a process has run since the last acknowledged checkpoint
  intact   \* every start took over all that the process before it had

restartVars == <<vars, watchVars, content, unsaved, intact>>

NoAlarms == [sent |-> [d \in Dests |-> {}], shown |-> {}]

RestartTypeOK ==
  /\ WatchTypeOK
  /\ content \in [Docs -> [sent : [Dests -> SUBSET Texts], shown : SUBSET Texts]]
  /\ unsaved \in BOOLEAN
  /\ intact \in BOOLEAN

\* The first start finds a document without alarms and no backup.
RestartInit ==
  /\ Init /\ seen["primary"] = 2 /\ seen["bak"] = Missing
  /\ WatchInit
  /\ content = [n \in Docs |-> NoAlarms]
  /\ unsaved = FALSE
  /\ intact = TRUE

\* Mutant: nothing is restored.
RestoreNothing(n, stale) ==
  /\ sent' = NoAlarms.sent
  /\ shown' = {}

\* Mutant: what the dashboard showed is taken for delivered.
RestoreShownAsSent(n, stale) ==
  LET saved == IF n = 0 THEN NoAlarms ELSE content[n]
  IN /\ stale.sent = {} /\ stale.shown \subseteq saved.shown
     /\ shown' = saved.shown \ stale.shown
     /\ sent' = [d \in Dests |-> shown']

\* restoreSavedState with clearStale: entries older than staleHours, which
\* are dated map by map, are not taken over.
RestoreSavedState(n, stale) ==
  LET saved == IF n = 0 THEN NoAlarms ELSE content[n]
  IN /\ stale.sent \subseteq UNION {saved.sent[d] : d \in Dests}
     /\ stale.shown \subseteq saved.shown
     /\ sent' = [d \in Dests |-> saved.sent[d] \ stale.sent]
     /\ shown' = saved.shown \ stale.shown

Start ==
  \E unreadable \in SUBSET Files, stale \in [sent : SUBSET Texts, shown : SUBSET Texts] :
    /\ LoadStateWithout(unreadable)
    /\ RestoreSavedState(LoadValue(ViewWithout(unreadable)), stale)
    /\ history' = [NoHistory EXCEPT !.restored = shown' \cup UNION {sent'[d] : d \in Dests}]
    /\ unsaved' = TRUE
    /\ intact' = /\ intact /\ ~unsaved
                 /\ unreadable = {} /\ stale = [sent |-> {}, shown |-> {}]
    /\ UNCHANGED <<chainVars, refreshVars, loopVars, taken, doubt, content>>

\* What a process kept in memory is gone.
ProcessEnds ==
  /\ Forget
  /\ sent' = NoAlarms.sent /\ shown' = {}
  /\ history' = NoHistory
  /\ UNCHANGED <<chainVars, taken, doubt>>

\* snapshotSavedState at the end of shutdown.
Stop ==
  /\ BeginCheckpoint
  /\ content' = [content EXCEPT ![doc'] = [sent |-> sent, shown |-> shown]]
  /\ ProcessEnds
  /\ UNCHANGED <<unsaved, intact>>

\* writeStateAtomic; nothing else is left of the process.
Save ==
  /\ ReadCurrent \/ WriteTemp \/ SyncTemp \/ RenameTemp \/ SyncDirectory \/ StepFails
  /\ unsaved' = (unsaved /\ acked' = acked)
  /\ UNCHANGED <<watchVars, content, intact>>

Crash ==
  /\ Killed \/ PowerLoss
  /\ ProcessEnds
  /\ UNCHANGED <<content, unsaved, intact>>

Run ==
  /\ pc = "up"
  /\ ProcessStep
  /\ UNCHANGED <<vars, content, unsaved, intact>>

Meanwhile ==
  /\ ChainChanges
  /\ UNCHANGED <<vars, content, unsaved, intact>>

RestartNext == Start \/ Run \/ Meanwhile \/ Stop \/ Save \/ Crash

RestartSpec == RestartInit /\ [][RestartNext]_restartVars

-----------------------------------------------------------------------------
(* "Restore accepted-delivery and dashboard state to preserve restart      *)
(* deduplication": as long as every process stopped with an acknowledged   *)
(* checkpoint and the next one could read it before its entries went       *)
(* stale, the sent map and the dashboard agree with what the destination   *)
(* took, over any number of restarts, unless an acknowledgement was lost.  *)
AlarmsSurviveRestarts ==
  pc = "up" /\ intact =>
    \A d \in Dests, t \in Texts \ doubt :
      /\ t \in sent[d] <=> taken[d][t] = "trigger"
      /\ t \in shown <=> t \in sent[d]

(* Whatever was lost, went stale, was saved late or restored from the      *)
(* backup, a destination takes a resolution only for an alarm whose        *)
(* trigger it took, from this process or an earlier one: what alert() of   *)
(* any process finds in the sent map was delivered.                        *)
ResolutionNeedsTrigger ==
  [][\A d \in Dests, t \in Texts :
       taken'[d][t] = "resolve" => taken[d][t] # "none"]_restartVars
=============================================================================
