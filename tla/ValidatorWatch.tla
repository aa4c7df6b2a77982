--------------------------- MODULE ValidatorWatch ---------------------------
(***************************************************************************)
(* What Seer knows of its validator and the two alarms it raises from it:  *)
(* GetValInfo (seer/validator.go), called by monitorHealth every minute    *)
(* and by monitorChain at every reconnection, the pair of records it       *)
(* publishes (seer/runtime_state.go), and the inactive and the percentage  *)
(* checks of watch (seer/alert.go).                                        *)
(*                                                                         *)
(* An alert is delivered to one destination in the step that emits it: the *)
(* queue and the worker of AlertPipeline keep the order of alerts and      *)
(* implement AlarmDelivery.  Names are prefixed so that the module can be  *)
(* extended together with StateStore.                                      *)
(***************************************************************************)
EXTENDS Naturals

CONSTANTS
  Configs,      \* sets of checks that may be configured
  Monikers,     \* the names the validator may go by
  Window,       \* the chain's signed-blocks window
  PercentLimit, \* Alerts.Window: the percentage of it that may be missed
  MaxChanges,   \* bound: changes of the validator on chain
  NoInfo        \* a nil *ValInfo

Words == {"jailed", "tombstoned"}
Texts == Monikers \X (Words \cup {"percent"})

\* at: how many changes the validator had been through when it was read.
Infos == [moniker : Monikers, bonded : BOOLEAN, tombstoned : BOOLEAN,
          missed : 0..Window, at : 0..MaxChanges]

\* The record validateConfig publishes before anything is known.
Placeholder == [moniker |-> "not connected", bonded |-> FALSE, tombstoned |-> FALSE,
                missed |-> 0, at |-> 0]

ASSUME WatchAssumption ==
  /\ Configs \subseteq SUBSET {"inactive", "percent"}
  /\ "not connected" \notin Monikers
  /\ Window \in Nat \ {0} /\ PercentLimit \in Nat
  /\ MaxChanges \in Nat
  /\ NoInfo \notin Infos \cup {Placeholder}

VARIABLES
  config,      \* the checks that are on: AlertIfInactive, PercentageAlerts
  onChain,     \* the validator, as the chain has it
  rpcMux,      \* the caller that holds it, inside GetValInfo
  next,        \* next[g]: the record caller g is filling in
  valInfo,     \* ChainConfig.valInfo
  lastValInfo, \* ChainConfig.lastValInfo
  watch,       \* where the watch goroutine is
  snap,        \* the two records it works with
  inactive,    \* its word for the reason
  percentageAlarm,  \* ChainConfig.percentageAlarm
  shown,       \* AllAlarms of the chain
  sent, taken, \* the sent map and the destination, as in AlarmDelivery
  doubt,       \* texts whose last due event was not acknowledged
  history      \* of this process, for the properties (see NoHistory)

chainVars == <<config, onChain>>
refreshVars == <<rpcMux, next, valInfo, lastValInfo>>
loopVars == <<watch, snap, inactive, percentageAlarm>>
alarmVars == <<shown, sent, taken, doubt>>
watchVars == <<chainVars, refreshVars, loopVars, alarmVars, history>>

Dests == {"destination"}
Delivery == INSTANCE AlarmDelivery

\* saw: the monikers and bonded values published so far;
\* looked: watch has taken the last publication in;
\* gap: a publication passed that hides a change of the bonded value;
\* restored: alarms taken over from an earlier process, not raised since.
NoHistory == [saw |-> {}, looked |-> TRUE, gap |-> FALSE, restored |-> {}]

Callers == {"health", "reconnect"}

WatchTypeOK ==
  /\ config \in Configs
  /\ onChain \in Infos
  /\ rpcMux \in Callers \cup {"free"}
  /\ next \in [Callers -> Infos \cup {NoInfo}]
  /\ valInfo \in Infos \cup {Placeholder}
  /\ lastValInfo \in Infos \cup {Placeholder, NoInfo}
  /\ watch \in {"start", "wait", "inactive", "percent"}
  /\ snap \in [now : Infos, last : Infos \cup {Placeholder, NoInfo}] \cup {NoInfo}
  /\ inactive \in Words
  /\ percentageAlarm \in BOOLEAN
  /\ shown \subseteq Texts
  /\ sent \in [Dests -> SUBSET Texts]
  /\ taken \in [Dests -> [Texts -> {"none", "trigger", "resolve"}]]
  /\ doubt \subseteq Texts
  /\ history \in [saw : SUBSET (Monikers \X BOOLEAN), looked : BOOLEAN,
                  gap : BOOLEAN, restored : SUBSET Texts]

-----------------------------------------------------------------------------
(* A process that has just read its configuration knows nothing.           *)
Unstarted ==
  /\ rpcMux = "free" /\ next = [g \in Callers |-> NoInfo]
  /\ valInfo = Placeholder /\ lastValInfo = NoInfo
  /\ watch = "start" /\ snap = NoInfo
  /\ inactive = "jailed" /\ percentageAlarm = FALSE

\* All of that again, for the next process.
Forget ==
  /\ rpcMux' = "free" /\ next' = [g \in Callers |-> NoInfo]
  /\ valInfo' = Placeholder /\ lastValInfo' = NoInfo
  /\ watch' = "start" /\ snap' = NoInfo
  /\ inactive' = "jailed" /\ percentageAlarm' = FALSE

WatchInit ==
  /\ config \in Configs
  /\ onChain \in [moniker : Monikers,
                  bonded : IF "inactive" \in config THEN BOOLEAN ELSE {TRUE},
                  tombstoned : {FALSE}, missed : {0}, at : {0}]
  /\ Unstarted
  /\ shown = {}
  /\ Delivery!Init
  /\ doubt = {}
  /\ history = NoHistory

(* External: what happens to a validator on its chain.  A tombstoned one   *)
(* is jailed in the same block and never returns.  Changes that no         *)
(* configured check can tell are left out.                                 *)
ChainChanges ==
  /\ onChain.at < MaxChanges
  /\ \E b, t \in BOOLEAN, m \in 0..Window, name \in Monikers :
       /\ onChain.tombstoned => t
       /\ t => ~b
       /\ "inactive" \in config \/ <<b, t>> = <<onChain.bonded, onChain.tombstoned>>
       /\ "percent" \in config \/ m = onChain.missed
       /\ onChain' = [moniker |-> name, bonded |-> b, tombstoned |-> t, missed |-> m,
                      at |-> onChain.at + 1]
       /\ onChain' # [onChain EXCEPT !.at = @ + 1]
  /\ UNCHANGED <<config, refreshVars, loopVars, alarmVars, history>>

-----------------------------------------------------------------------------
(* GetValInfo, called with first set by "reconnect" only.                  *)

\* Mutant: a refresh does not take rpcMux.
QueryWithoutLock(g) ==
  /\ next[g] = NoInfo
  /\ rpcMux' = g
  /\ next' = [next EXCEPT ![g] = onChain]
  /\ UNCHANGED <<chainVars, valInfo, lastValInfo, loopVars, alarmVars, history>>

\* The first query: identity, moniker and bonded.
QueryValidator(g) ==
  /\ rpcMux = "free"
  /\ rpcMux' = g
  /\ next' = [next EXCEPT ![g] = onChain]
  /\ UNCHANGED <<chainVars, valInfo, lastValInfo, loopVars, alarmVars, history>>

\* The pair of records shows watch the change.
Shows(last, now) ==
  last # NoInfo /\ last.bonded # now.bonded /\ last.moniker = now.moniker

\* Startup and reconnection do not retain the record they replace.
PublishValidatorInfo(now, retainPrevious) ==
  /\ lastValInfo' = IF retainPrevious THEN valInfo ELSE lastValInfo
  /\ valInfo' = now

\* The second query reads tombstoned and missed, later than the first; the
\* record is then complete and published.
QuerySigningInfo(g) ==
  /\ next[g] # NoInfo
  /\ LET now == [next[g] EXCEPT !.tombstoned = onChain.tombstoned,
                                !.missed = onChain.missed]
     IN /\ PublishValidatorInfo(now, g # "reconnect")
        /\ history' = [history EXCEPT
             !.saw = @ \cup {<<now.moniker, now.bonded>>},
             !.looked = FALSE,
             !.gap = \/ @
                     \/ ~history.looked
                     \/ /\ valInfo # Placeholder
                        /\ valInfo.bonded # now.bonded
                        /\ ~Shows(lastValInfo', now)]
  /\ next' = [next EXCEPT ![g] = NoInfo]
  /\ rpcMux' = "free"
  /\ UNCHANGED <<chainVars, loopVars, alarmVars>>

\* Any query fails: nothing is published.
RefreshFails(g) ==
  /\ next[g] # NoInfo
  /\ next' = [next EXCEPT ![g] = NoInfo]
  /\ rpcMux' = "free"
  /\ UNCHANGED <<chainVars, valInfo, lastValInfo, loopVars, alarmVars, history>>

-----------------------------------------------------------------------------
(* alert: the dashboard entry, and delivery if the sent map makes it due.  *)
Emit(t, resolved) ==
  /\ shown' = IF resolved THEN shown \ {t} ELSE shown \cup {t}
  /\ \A d \in Dests :
       IF resolved <=> t \in sent[d]
       THEN \/ Delivery!Accept(d, t) /\ doubt' = doubt \ {t}
            \/ Delivery!Lose(d, t) /\ doubt' = doubt \cup {t}
            \/ UNCHANGED <<sent, taken>> /\ doubt' = doubt \cup {t}
       ELSE UNCHANGED <<sent, taken, doubt>>
  /\ history' = [history EXCEPT !.restored = @ \ {t}]

\* Mutant: watch does not wait for a moniker.
WatchStartsAtOnce ==
  /\ watch = "start"
  /\ watch' = "wait"
  /\ UNCHANGED <<chainVars, refreshVars, snap, inactive, percentageAlarm, alarmVars, history>>

\* watch leaves its startup loop.
WatchStarts ==
  /\ watch = "start"
  /\ valInfo # Placeholder
  /\ watch' = "wait"
  /\ UNCHANGED <<chainVars, refreshVars, snap, inactive, percentageAlarm, alarmVars, history>>

\* Every two seconds.  The endpoint and stalled-chain alarms come before
\* the next step and may block on the queue.
WatchWakes ==
  /\ watch = "wait"
  /\ snap' = [now |-> valInfo, last |-> lastValInfo]
  /\ watch' = "inactive"
  /\ history' = [history EXCEPT !.looked = TRUE]
  /\ UNCHANGED <<chainVars, refreshVars, inactive, percentageAlarm, alarmVars>>

\* Mutant: a validator that returns is not looked for.
CheckInactiveOneWay ==
  /\ watch = "inactive"
  /\ IF Shows(snap.last, snap.now) /\ ~snap.now.bonded
     THEN Emit(<<snap.now.moniker, inactive>>, FALSE)
     ELSE UNCHANGED <<alarmVars, history>>
  /\ snap' = NoInfo
  /\ watch' = "percent"
  /\ UNCHANGED <<chainVars, refreshVars, inactive, percentageAlarm>>

\* No latch: the alert is emitted again at every tick until the pair of
\* records moves on.  The word for the reason is never taken back.
CheckInactive ==
  /\ watch = "inactive"
  /\ IF "inactive" \in config /\ Shows(snap.last, snap.now)
     THEN /\ inactive' = IF ~snap.now.bonded /\ snap.now.tombstoned
                         THEN "tombstoned" ELSE inactive
          /\ Emit(<<snap.now.moniker, inactive'>>, snap.now.bonded)
     ELSE UNCHANGED <<inactive, alarmVars, history>>
  /\ snap' = NoInfo
  /\ watch' = "percent"
  /\ UNCHANGED <<chainVars, refreshVars, percentageAlarm>>

Over(v) == 100 * v.missed > PercentLimit * Window
Under(v) == 100 * v.missed < PercentLimit * Window

\* Mutant: the latch is released without a resolution.
CheckPercentageSilently ==
  /\ watch = "percent"
  /\ percentageAlarm' = IF percentageAlarm THEN ~Under(valInfo) ELSE Over(valInfo)
  /\ IF "percent" \in config /\ ~percentageAlarm /\ Over(valInfo)
     THEN Emit(<<valInfo.moniker, "percent">>, FALSE)
     ELSE UNCHANGED <<alarmVars, history>>
  /\ watch' = "wait"
  /\ UNCHANGED <<chainVars, refreshVars, snap, inactive>>

\* With a snapshot of its own.  Exactly at the limit nothing changes.
CheckPercentage ==
  /\ watch = "percent"
  /\ \/ /\ "percent" \in config /\ ~percentageAlarm /\ Over(valInfo)
        /\ percentageAlarm' = TRUE
        /\ Emit(<<valInfo.moniker, "percent">>, FALSE)
     \/ /\ "percent" \in config /\ percentageAlarm /\ Under(valInfo)
        /\ percentageAlarm' = FALSE
        /\ Emit(<<valInfo.moniker, "percent">>, TRUE)
     \/ /\ "percent" \notin config
           \/ ~(IF percentageAlarm THEN Under(valInfo) ELSE Over(valInfo))
        /\ UNCHANGED <<percentageAlarm, alarmVars, history>>
  /\ watch' = "wait"
  /\ UNCHANGED <<chainVars, refreshVars, snap, inactive>>

-----------------------------------------------------------------------------
\* What the goroutines of a running process do.
ProcessStep ==
  \/ \E g \in Callers : QueryValidator(g) \/ QuerySigningInfo(g) \/ RefreshFails(g)
  \/ WatchStarts
  \/ WatchWakes
  \/ CheckInactive
  \/ CheckPercentage

WatchNext == ChainChanges \/ ProcessStep

WatchSpec == WatchInit /\ [][WatchNext]_watchVars

-----------------------------------------------------------------------------
(* "one refresh uses one client throughout its network queries", and the   *)
(* two callers of GetValInfo take turns: the previous record is never one  *)
(* that was read after the current one.                                    *)
ReportsInOrder ==
  lastValInfo \in Infos /\ valInfo \in Infos => lastValInfo.at <= valInfo.at

\* watch has worked through the last publication.
CaughtUp == history.looked /\ watch = "wait"

\* The validator has had one name as long as the process knows it.
OneName == \A p \in history.saw : p[1] = valInfo.moniker

InactiveShown == \E w \in Words : <<valInfo.moniker, w>> \in shown

(* docs/config.md, alert_if_inactive: "Alert when validator leaves the     *)
(* active set, is jailed, or tombstoned."  As long as every change passed  *)
(* through the pair of records where watch could see it, the inactive      *)
(* alarm is right: it stands for a validator that was seen to leave, and   *)
(* is gone for one that was seen to return.  The changes that do not pass  *)
(* are those of gap: published by a reconnection over an older previous    *)
(* record, or replaced before watch looked.                                *)
InactiveAlarmIsRight ==
  /\ "inactive" \in config
  /\ CaughtUp /\ OneName /\ ~history.gap
  =>
    /\ ~valInfo.bonded /\ <<valInfo.moniker, TRUE>> \in history.saw => InactiveShown
    /\ valInfo.bonded /\ <<valInfo.moniker, FALSE>> \in history.saw => ~InactiveShown

(* The percentage alarm is held open at the destination for a counter      *)
(* above the limit and not for one below it, unless the last delivery      *)
(* failed or a restart took over an alarm it has no latch for.             *)
PercentAlarmIsRight ==
  LET t == <<valInfo.moniker, "percent">>
  IN /\ "percent" \in config
     /\ CaughtUp /\ OneName /\ t \notin doubt \cup history.restored
     =>
       \A d \in Dests : /\ Over(valInfo) => t \in sent[d]
                        /\ Under(valInfo) => t \notin sent[d]
=============================================================================
