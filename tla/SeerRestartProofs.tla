------------------------- MODULE SeerRestartProofs --------------------------
(***************************************************************************)
(* Proofs about SeerRestart, for any number of processes that follow one   *)
(* another, any monikers, window and limit: the inductive invariant, that  *)
(* a running process keeps it while its validator changes, and that starts *)
(* and ends do.  So the alarms a clean stop saved are right again at the   *)
(* next start, and so is the percentage alarm of a running process.        *)
(***************************************************************************)
EXTENDS SeerRestart, StateStoreProofs

\* Zenon first: preparing a leaf for SMT takes longer than most leaves do.
USE ZenonT(30), SMTT(30)

(* What loadState brings back of document n.                               *)
SavedAlarms(n) == IF n = 0 THEN NoAlarms ELSE content[n]

(* The alarms in a are those the destination holds, but for the texts in   *)
(* doubt, and the dashboard shows the same.                                *)
Agree(a) ==
  \A d \in Dests, t \in Texts \ doubt :
    /\ t \in a.sent[d] <=> taken[d][t] = "trigger"
    /\ t \in a.shown <=> t \in a.sent[d]

(* GetValInfo's two callers take turns, and records only get newer; a      *)
(* process that does not run knows nothing.                                *)
RefreshInv ==
  /\ pc # "up" => Unstarted
  /\ watch = "inactive" => snap \in [now : Infos, last : Infos \cup {Placeholder, NoInfo}]
  /\ watch # "start" \/ lastValInfo \in Infos => valInfo \in Infos
  /\ \A g \in Callers : next[g] # NoInfo =>
       rpcMux = g /\ next[g].at <= onChain.at /\ valInfo.at <= next[g].at
  /\ valInfo.at <= onChain.at
  /\ ReportsInOrder

(* The names a process has published are those of the texts it emits; the  *)
(* latch is right once watch has looked, and the sent map agrees with it.  *)
PercentInv ==
  /\ valInfo \in Infos => <<valInfo.moniker, valInfo.bonded>> \in history.saw
  /\ watch = "start" /\ valInfo \in Infos => ~history.looked
  /\ "percent" \in config /\ history.looked /\ watch = "wait" =>
       (Over(valInfo) => percentageAlarm) /\ (Under(valInfo) => ~percentageAlarm)
  /\ \A m \in Monikers :
       /\ \A p \in history.saw : p[1] = m
       /\ <<m, "percent">> \notin doubt \cup history.restored
       => \A d \in Dests : percentageAlarm <=> <<m, "percent">> \in sent[d]

(* Where the alarms are while processes come and go.                       *)
KeptInv ==
  /\ pc # "down" => unsaved
  /\ ~unsaved => LoadValue(seen) = acked /\ LoadValue(durable) = acked
  /\ intact =>
       /\ pc = "up" => Agree([sent |-> sent, shown |-> shown])
       /\ pc \notin {"up", "down"} => Agree(content[doc])
       /\ ~unsaved => Agree(SavedAlarms(LoadValue(seen)))

RInv == IInv /\ RestartTypeOK /\ RefreshInv /\ PercentInv /\ KeptInv

-----------------------------------------------------------------------------
(* The restart model does to the files what StateStore does.               *)
LEMMA StoreSteps == [RestartNext]_restartVars => [Next]_vars
BY ZenonT(40) DEF RestartNext, restartVars, Start, Run, Meanwhile, Stop, Save, Crash, Next, LoadState

(* So every theorem about StateStore holds while processes come and go.    *)
THEOREM RestartKeepsStore == RestartSpec => Spec
<1>1. RestartInit => Init
  BY DEF RestartInit
<1> QED
  BY <1>1, StoreSteps, PTL DEF RestartSpec, Spec

-----------------------------------------------------------------------------
(* A record of the validator, and its parts.                               *)
LEMMA InfoFields ==
  ASSUME NEW v \in Infos
  PROVE  /\ v.moniker \in Monikers /\ v.bonded \in BOOLEAN /\ v.tombstoned \in BOOLEAN
         /\ v.missed \in 0..Window /\ v.at \in 0..MaxChanges
         /\ v # Placeholder /\ v # NoInfo
<1>1. /\ v.moniker \in Monikers /\ v.bonded \in BOOLEAN /\ v.tombstoned \in BOOLEAN
      /\ v.missed \in 0..Window /\ v.at \in 0..MaxChanges
  BY DEF Infos
<1>2. Placeholder.moniker = "not connected"
  BY DEF Placeholder
<1>3. v # Placeholder /\ v # NoInfo
  BY ZenonT(40), <1>1, <1>2, WatchAssumption
<1> QED
  BY <1>1, <1>3

(* The texts of the two checks are texts, and differ.                      *)
LEMMA TextsOf ==
  ASSUME NEW m \in Monikers
  PROVE  /\ <<m, "percent">> \in Texts
         /\ \A w \in Words : <<m, w>> \in Texts
         /\ \A n \in Monikers, w \in Words : <<m, w>> # <<n, "percent">>
BY DEF Texts, Words

(* What alert does: the text it is about follows the alert, unless its     *)
(* delivery is in doubt, and no other text changes.                        *)
LEMMA EmitEffect ==
  ASSUME RestartTypeOK, NEW t \in Texts, NEW resolved \in BOOLEAN, Emit(t, resolved)
  PROVE  /\ shown' \subseteq Texts
         /\ sent' \in [Dests -> SUBSET Texts]
         /\ taken' \in [Dests -> [Texts -> {"none", "trigger", "resolve"}]]
         /\ doubt' \subseteq Texts
         /\ history' = [history EXCEPT !.restored = @ \ {t}]
         /\ \A u \in Texts \ {t} :
              /\ u \in shown' <=> u \in shown
              /\ u \in doubt' <=> u \in doubt
              /\ \A d \in Dests : /\ u \in sent'[d] <=> u \in sent[d]
                                  /\ taken'[d][u] = taken[d][u]
         /\ t \in shown' <=> ~resolved
         /\ t \notin doubt' => \A d \in Dests :
              /\ t \in sent'[d] <=> ~resolved
              /\ \/ taken'[d][t] = "trigger" <=> ~resolved
                 \/ t \notin doubt /\ sent' = sent /\ taken' = taken
<1> DEFINE D == "destination"
<1>a. /\ shown \subseteq Texts /\ doubt \subseteq Texts
      /\ sent \in [Dests -> SUBSET Texts]
      /\ taken \in [Dests -> [Texts -> {"none", "trigger", "resolve"}]]
  BY DEF RestartTypeOK, WatchTypeOK
<1>b. Dests = {D}
  BY DEF Dests
<1>1. /\ shown' = IF resolved THEN shown \ {t} ELSE shown \cup {t}
      /\ history' = [history EXCEPT !.restored = @ \ {t}]
  BY DEF Emit
<1>2. CASE resolved <=> t \in sent[D]
  <2>1. \/ Delivery!Accept(D, t) /\ doubt' = doubt \ {t}
        \/ Delivery!Lose(D, t) /\ doubt' = doubt \cup {t}
        \/ UNCHANGED <<sent, taken>> /\ doubt' = doubt \cup {t}
    BY <1>2, <1>b DEF Emit
  <2>2. CASE Delivery!Accept(D, t) /\ doubt' = doubt \ {t}
    <3>1. /\ taken' = [taken EXCEPT ![D][t] = IF t \in sent[D] THEN "resolve" ELSE "trigger"]
          /\ sent' = [sent EXCEPT ![D] = IF t \in sent[D] THEN sent[D] \ {t}
                                                         ELSE sent[D] \cup {t}]
      BY <2>2 DEF Delivery!Accept, Delivery!Due, Delivery!Acknowledged
    <3> QED
      BY <1>a, <1>b, <1>1, <1>2, <2>2, <3>1
  <2>3. CASE Delivery!Lose(D, t) /\ doubt' = doubt \cup {t}
    <3>1. /\ taken' = [taken EXCEPT ![D][t] = IF t \in sent[D] THEN "resolve" ELSE "trigger"]
          /\ sent' = sent
      BY <2>3 DEF Delivery!Lose, Delivery!Due
    <3> QED
      BY <1>a, <1>b, <1>1, <1>2, <2>3, <3>1
  <2>4. CASE UNCHANGED <<sent, taken>> /\ doubt' = doubt \cup {t}
    BY <1>a, <1>b, <1>1, <2>4
  <2> QED
    BY <2>1, <2>2, <2>3, <2>4
<1>3. CASE ~(resolved <=> t \in sent[D])
  <2>1. UNCHANGED <<sent, taken, doubt>>
    BY <1>3, <1>b DEF Emit
  <2> QED
    BY <1>a, <1>b, <1>1, <1>3, <2>1
<1> QED
  BY <1>2, <1>3

(* Numbers the provers need apart from the sets of WatchAssumption.        *)
LEMMA BoundIsNat == MaxChanges \in Nat
BY ZenonT(40), WatchAssumption

(* How old the records are that are on chain, published or being filled in. *)
LEMMA Ages ==
  ASSUME RestartTypeOK
  PROVE  /\ onChain \in Infos /\ onChain.at \in Nat
         /\ valInfo \in Infos \cup {Placeholder} /\ valInfo.at \in Nat
         /\ \A g \in Callers : next[g] # NoInfo => next[g] \in Infos /\ next[g].at \in Nat
<1>1. \A v \in Infos : v.at \in Nat
  <2> SUFFICES ASSUME NEW v \in Infos PROVE v.at \in Nat
    OBVIOUS
  <2>1. v.at \in 0..MaxChanges
    BY InfoFields
  <2> QED
    BY <2>1, BoundIsNat
<1>2. Placeholder.at \in Nat
  BY DEF Placeholder
<1>3. /\ onChain \in Infos /\ valInfo \in Infos \cup {Placeholder}
      /\ \A g \in Callers : next[g] # NoInfo => next[g] \in Infos
  BY DEF RestartTypeOK, WatchTypeOK
<1> QED
  BY <1>1, <1>2, <1>3

-----------------------------------------------------------------------------
(* The alarms stay where they are if neither they nor the files change.    *)
LEMMA KeptFrame ==
  ASSUME KeptInv, UNCHANGED <<vars, content, unsaved, intact, sent, shown, taken, doubt>>
  PROVE  KeptInv'
<1>1. UNCHANGED <<pc, seen, durable, doc, acked>>
  BY DEF vars, fsVars
<1>2. LoadValue(seen)' = LoadValue(seen) /\ LoadValue(durable)' = LoadValue(durable)
  BY <1>1 DEF LoadValue, Valid
<1> QED
  BY ZenonT(40), <1>1, <1>2 DEF KeptInv, Agree, SavedAlarms, NoAlarms

(* The validator changes on its chain.                                     *)
LEMMA MeanwhileKeeps ==
  ASSUME RInv, Meanwhile
  PROVE  RestartTypeOK' /\ RefreshInv' /\ PercentInv' /\ KeptInv'
<1> USE DEF refreshVars, loopVars, alarmVars
<1>a. RestartTypeOK /\ RefreshInv /\ PercentInv /\ KeptInv
  BY DEF RInv
<1>b. UNCHANGED <<config, refreshVars, loopVars, alarmVars, history, vars, content,
                  unsaved, intact>>
  BY DEF Meanwhile, ChainChanges
<1>1. onChain' \in Infos /\ onChain'.at = onChain.at + 1
  <2>1. onChain \in Infos /\ onChain.at < MaxChanges
    BY <1>a DEF RestartTypeOK, WatchTypeOK, Meanwhile, ChainChanges
  <2>2. PICK b \in BOOLEAN, t \in BOOLEAN, m \in 0..Window, name \in Monikers :
          onChain' = [moniker |-> name, bonded |-> b, tombstoned |-> t, missed |-> m,
                      at |-> onChain.at + 1]
    BY DEF Meanwhile, ChainChanges
  <2>3. onChain.at + 1 \in 0..MaxChanges
    <3>1. onChain.at \in Nat
      BY <1>a, Ages
    <3> QED
      BY <2>1, <3>1, BoundIsNat
  <2> QED
    BY <2>2, <2>3 DEF Infos
<1>2. RestartTypeOK'
  BY SMTT(30), <1>a, <1>b, <1>1 DEF RestartTypeOK, WatchTypeOK
<1>3. RefreshInv'
  BY SMTT(30), <1>a, <1>b, <1>1, Ages DEF RefreshInv, ReportsInOrder, Unstarted, vars
<1>4. PercentInv'
  BY <1>a, <1>b DEF PercentInv, Over, Under
<1>5. KeptInv'
  BY <1>a, <1>b, KeptFrame
<1> QED
  BY <1>2, <1>3, <1>4, <1>5

(* GetValInfo: its queries, the publication and its failure.               *)
LEMMA RefreshKeeps ==
  ASSUME RInv, pc = "up", UNCHANGED <<vars, content, unsaved, intact>>, NEW g \in Callers,
         QueryValidator(g) \/ QuerySigningInfo(g) \/ RefreshFails(g)
  PROVE  RestartTypeOK' /\ RefreshInv' /\ PercentInv' /\ KeptInv'
<1> USE DEF chainVars, loopVars, alarmVars
<1>a. RestartTypeOK /\ RefreshInv /\ PercentInv /\ KeptInv
  BY DEF RInv
<1>b. UNCHANGED <<chainVars, loopVars, alarmVars>>
  BY DEF QueryValidator, QuerySigningInfo, RefreshFails
<1>c. /\ onChain \in Infos /\ onChain.at \in Nat
      /\ valInfo \in Infos \cup {Placeholder} /\ valInfo.at \in Nat
      /\ next \in [Callers -> Infos \cup {NoInfo}]
  BY <1>a, Ages DEF RestartTypeOK, WatchTypeOK
<1>d. KeptInv'
  BY <1>a, <1>b, KeptFrame
<1>1. CASE QueryValidator(g)
  <2>1. /\ rpcMux = "free" /\ rpcMux' = g
        /\ next' = [next EXCEPT ![g] = onChain]
        /\ UNCHANGED <<valInfo, lastValInfo, history>>
    BY <1>1 DEF QueryValidator
  <2>2. RestartTypeOK'
    BY SMTT(30), <1>a, <1>b, <1>c, <2>1 DEF RestartTypeOK, WatchTypeOK
  <2>3. RefreshInv'
    BY SMTT(30), <1>a, <1>b, <1>c, <2>1 DEF RefreshInv, ReportsInOrder, Callers, vars
  <2>4. PercentInv'
    BY <1>a, <1>b, <2>1 DEF PercentInv, Over, Under
  <2> QED
    BY <1>d, <2>2, <2>3, <2>4
<1>2. CASE RefreshFails(g)
  <2>1. /\ next[g] # NoInfo /\ rpcMux' = "free"
        /\ next' = [next EXCEPT ![g] = NoInfo]
        /\ UNCHANGED <<valInfo, lastValInfo, history>>
    BY <1>2 DEF RefreshFails
  <2>2. RestartTypeOK'
    BY SMTT(30), <1>a, <1>b, <1>c, <2>1 DEF RestartTypeOK, WatchTypeOK
  <2>3. RefreshInv'
    BY <1>a, <1>b, <1>c, <2>1 DEF RefreshInv, ReportsInOrder, Callers, vars
  <2>4. PercentInv'
    BY <1>a, <1>b, <2>1 DEF PercentInv, Over, Under
  <2> QED
    BY <1>d, <2>2, <2>3, <2>4
<1>3. CASE QuerySigningInfo(g)
  <2> DEFINE now == [next[g] EXCEPT !.tombstoned = onChain.tombstoned,
                                    !.missed = onChain.missed]
  <2>1. /\ next[g] # NoInfo /\ rpcMux' = "free"
        /\ next' = [next EXCEPT ![g] = NoInfo]
        /\ valInfo' = now /\ lastValInfo' \in {valInfo, lastValInfo}
        /\ history'.saw = history.saw \cup {<<now.moniker, now.bonded>>}
        /\ history'.looked = FALSE /\ history'.gap \in BOOLEAN
        /\ history'.restored = history.restored
        /\ history' = [saw |-> history'.saw, looked |-> history'.looked,
                       gap |-> history'.gap, restored |-> history'.restored]
    BY ZenonT(40), <1>3, <1>a DEF QuerySigningInfo, PublishValidatorInfo, RestartTypeOK, WatchTypeOK, Shows
  <2>2. next[g] \in Infos /\ next[g].at \in Nat
    BY <1>a, <2>1, Ages
  <2>3. now \in Infos /\ now.at = next[g].at
    BY ZenonT(40), <1>c, <2>2, InfoFields DEF Infos
  <2> HIDE DEF now
  <2>4. now.moniker \in Monikers /\ now.bonded \in BOOLEAN
    BY <2>3, InfoFields
  <2>5. RestartTypeOK'
    <3>1. /\ history'.saw \in SUBSET (Monikers \X BOOLEAN) /\ history'.looked \in BOOLEAN
          /\ history'.gap \in BOOLEAN /\ history'.restored \in SUBSET Texts
      <4>1. /\ history.saw \in SUBSET (Monikers \X BOOLEAN)
            /\ history.restored \in SUBSET Texts
        BY <1>a DEF RestartTypeOK, WatchTypeOK
      <4>2. <<now.moniker, now.bonded>> \in Monikers \X BOOLEAN
        BY <2>4
      <4> QED
        BY ZenonT(40), <2>1, <4>1, <4>2
    <3>2. history' \in [saw : SUBSET (Monikers \X BOOLEAN), looked : BOOLEAN,
                        gap : BOOLEAN, restored : SUBSET Texts]
      BY <2>1, <3>1
    <3> QED
      BY ZenonT(40), <1>a, <1>b, <1>c, <2>1, <2>3, <3>2 DEF RestartTypeOK, WatchTypeOK
  <2>6. RefreshInv'
    <3>1. rpcMux = g /\ next[g].at <= onChain.at /\ valInfo.at <= next[g].at
      BY <1>a, <2>1 DEF RefreshInv
    <3>2. \A h \in Callers : next'[h] = NoInfo
      BY <1>a, <1>c, <2>1, <3>1 DEF RefreshInv
    <3>3. ReportsInOrder'
      <4>1. CASE lastValInfo' = valInfo
        BY <2>1, <2>3, <3>1, <4>1 DEF ReportsInOrder
      <4>2. CASE lastValInfo' = lastValInfo /\ lastValInfo \in Infos
        <5>1. lastValInfo.at <= valInfo.at /\ lastValInfo.at \in Nat
          BY SMTT(30), <1>a, <4>2, InfoFields DEF RefreshInv, ReportsInOrder
        <5> QED
          BY SMTT(30), <1>c, <2>1, <2>2, <2>3, <3>1, <4>2, <5>1 DEF ReportsInOrder
      <4> QED
        BY <2>1, <4>1, <4>2 DEF ReportsInOrder
    <3> QED
      BY <1>a, <1>b, <1>c, <2>1, <2>3, <3>1, <3>2, <3>3 DEF RefreshInv, vars
  <2>7. PercentInv'
    BY <1>a, <1>b, <2>1 DEF PercentInv
  <2> QED
    BY <1>d, <2>5, <2>6, <2>7
<1> QED
  BY <1>1, <1>2, <1>3

-----------------------------------------------------------------------------
(* watch leaves its startup loop with a record in hand, and takes the pair *)
(* of records in at every tick.                                            *)
LEMMA WatchKeeps ==
  ASSUME RInv, pc = "up", UNCHANGED <<vars, content, unsaved, intact>>,
         WatchStarts \/ WatchWakes
  PROVE  RestartTypeOK' /\ RefreshInv' /\ PercentInv' /\ KeptInv'
<1> USE DEF chainVars, refreshVars, alarmVars
<1>a. RestartTypeOK /\ RefreshInv /\ PercentInv /\ KeptInv
  BY DEF RInv
<1>b. UNCHANGED <<chainVars, refreshVars, inactive, percentageAlarm, alarmVars>>
  BY DEF WatchStarts, WatchWakes
<1>c. valInfo \in Infos
  BY <1>a DEF WatchStarts, WatchWakes, RefreshInv, RestartTypeOK, WatchTypeOK
<1>d. KeptInv'
  BY <1>a, <1>b, KeptFrame
<1>1. CASE WatchStarts
  <2>1. watch = "start" /\ watch' = "wait" /\ UNCHANGED <<snap, history>>
    BY <1>1 DEF WatchStarts
  <2>2. RestartTypeOK'
    BY SMTT(30), <1>a, <1>b, <2>1 DEF RestartTypeOK, WatchTypeOK
  <2>3. RefreshInv'
    BY <1>a, <1>b, <1>c, <2>1 DEF RefreshInv, ReportsInOrder, vars
  <2>4. PercentInv'
    BY <1>a, <1>b, <1>c, <2>1 DEF PercentInv
  <2> QED
    BY <1>d, <2>2, <2>3, <2>4
<1>2. CASE WatchWakes
  <2>1. /\ watch = "wait" /\ watch' = "inactive"
        /\ snap' = [now |-> valInfo, last |-> lastValInfo]
        /\ history' = [history EXCEPT !.looked = TRUE]
    BY <1>2 DEF WatchWakes
  <2>2. RestartTypeOK'
    BY ZenonT(40), <1>a, <1>b, <1>c, <2>1 DEF RestartTypeOK, WatchTypeOK
  <2>3. RefreshInv'
    <3>1. lastValInfo \in Infos \cup {Placeholder, NoInfo}
      BY <1>a DEF RestartTypeOK, WatchTypeOK
    <3> QED
      BY <1>a, <1>b, <1>c, <2>1, <3>1 DEF RefreshInv, ReportsInOrder, vars
  <2>4. PercentInv'
    <3>1. history'.saw = history.saw /\ history'.restored = history.restored
      BY <1>a, <2>1 DEF RestartTypeOK, WatchTypeOK
    <3> QED
      BY <1>a, <1>b, <2>1, <3>1 DEF PercentInv
  <2> QED
    BY <1>d, <2>2, <2>3, <2>4
<1> QED
  BY <1>1, <1>2

(* An alert keeps the sent map, the dashboard and the destination agreed.  *)
LEMMA EmitKeeps ==
  ASSUME RInv, pc = "up", UNCHANGED <<vars, content, unsaved, intact>>,
         NEW t \in Texts, NEW resolved \in BOOLEAN, Emit(t, resolved)
  PROVE  KeptInv'
<1>a. RestartTypeOK /\ KeptInv
  BY DEF RInv
<1>1. pc' = "up" /\ unsaved' = unsaved /\ unsaved /\ intact' = intact
  BY <1>a DEF KeptInv, vars
<1>2. Agree([sent |-> sent, shown |-> shown]) => Agree([sent |-> sent, shown |-> shown])'
  <2> SUFFICES ASSUME Agree([sent |-> sent, shown |-> shown]),
                      NEW d \in Dests, NEW u \in Texts \ doubt'
               PROVE  /\ u \in sent'[d] <=> taken'[d][u] = "trigger"
                      /\ u \in shown' <=> u \in sent'[d]
    BY DEF Agree
  <2>1. u \notin doubt => /\ u \in sent[d] <=> taken[d][u] = "trigger"
                          /\ u \in shown <=> u \in sent[d]
    BY DEF Agree
  <2>2. CASE u # t
    BY <1>a, <2>1, <2>2, EmitEffect
  <2>3. CASE u = t
    BY <1>a, <2>1, <2>3, EmitEffect
  <2> QED
    BY <2>2, <2>3
<1> QED
  BY <1>a, <1>1, <1>2 DEF KeptInv

(* An alert is about a text of its check, and leaves the process's other   *)
(* records of itself alone.                                                *)
LEMMA CheckTypes ==
  ASSUME RestartTypeOK, NEW t \in Texts, NEW resolved \in BOOLEAN, Emit(t, resolved)
  PROVE  /\ history' \in [saw : SUBSET (Monikers \X BOOLEAN), looked : BOOLEAN,
                          gap : BOOLEAN, restored : SUBSET Texts]
         /\ history'.saw = history.saw /\ history'.looked = history.looked
         /\ history'.restored = history.restored \ {t}
<1>1. history' = [history EXCEPT !.restored = @ \ {t}]
  BY EmitEffect
<1> QED
  BY ZenonT(40), <1>1 DEF RestartTypeOK, WatchTypeOK

(* The inactive check: no text it emits is the percentage check's.         *)
LEMMA InactiveKeeps ==
  ASSUME RInv, pc = "up", UNCHANGED <<vars, content, unsaved, intact>>, CheckInactive
  PROVE  RestartTypeOK' /\ RefreshInv' /\ PercentInv' /\ KeptInv'
<1> USE DEF chainVars, refreshVars, alarmVars
<1>a. RestartTypeOK /\ RefreshInv /\ PercentInv /\ KeptInv
  BY DEF RInv
<1>b. /\ watch = "inactive" /\ watch' = "percent" /\ snap' = NoInfo
      /\ UNCHANGED <<chainVars, refreshVars, percentageAlarm>>
  BY DEF CheckInactive
<1>c. RefreshInv'
  BY <1>a, <1>b DEF RefreshInv, ReportsInOrder, vars
<1>1. CASE "inactive" \in config /\ Shows(snap.last, snap.now)
  <2> DEFINE t == <<snap.now.moniker, inactive'>>
  <2>1. /\ inactive' = IF ~snap.now.bonded /\ snap.now.tombstoned
                       THEN "tombstoned" ELSE inactive
        /\ Emit(t, snap.now.bonded)
    BY <1>1 DEF CheckInactive
  <2>2. snap.now \in Infos
    BY <1>a, <1>b DEF RefreshInv
  <2>3. inactive' \in Words
    BY <1>a, <2>1 DEF RestartTypeOK, WatchTypeOK, Words
  <2>4. snap.now.moniker \in Monikers /\ snap.now.bonded \in BOOLEAN
    BY <2>2, InfoFields
  <2>5. t \in Texts /\ \A n \in Monikers : t # <<n, "percent">>
    BY ZenonT(40), <2>3, <2>4, TextsOf
  <2> HIDE DEF t
  <2>6. RestartTypeOK'
    BY SMTT(30), <1>a, <1>b, <2>1, <2>3, <2>4, <2>5, EmitEffect, CheckTypes
       DEF RestartTypeOK, WatchTypeOK
  <2>7. PercentInv'
    <3>1. /\ history'.saw = history.saw /\ history'.looked = history.looked
          /\ history'.restored = history.restored \ {t}
      BY <1>a, <2>1, <2>4, <2>5, CheckTypes
    <3>2. \A n \in Monikers :
            /\ <<n, "percent">> \in doubt' <=> <<n, "percent">> \in doubt
            /\ <<n, "percent">> \in history'.restored <=> <<n, "percent">> \in history.restored
            /\ \A d \in Dests : <<n, "percent">> \in sent'[d] <=> <<n, "percent">> \in sent[d]
      <4> SUFFICES ASSUME NEW n \in Monikers
                   PROVE  /\ <<n, "percent">> \in doubt' <=> <<n, "percent">> \in doubt
                          /\ <<n, "percent">> \in history'.restored
                               <=> <<n, "percent">> \in history.restored
                          /\ \A d \in Dests :
                               <<n, "percent">> \in sent'[d] <=> <<n, "percent">> \in sent[d]
        BY ZenonT(40)
      <4>1. <<n, "percent">> \in Texts \ {t}
        BY <2>5, TextsOf
      <4> QED
        BY ZenonT(40), <1>a, <2>1, <2>4, <2>5, <3>1, <4>1, EmitEffect
    <3>3. watch' # "wait" /\ watch' # "start" /\ UNCHANGED <<config, valInfo, percentageAlarm>>
      BY <1>b
    <3> QED
      BY <1>a, <3>1, <3>2, <3>3 DEF PercentInv
  <2>8. KeptInv'
    BY <2>1, <2>4, <2>5, EmitKeeps
  <2> QED
    BY <1>c, <2>6, <2>7, <2>8
<1>2. CASE ~("inactive" \in config /\ Shows(snap.last, snap.now))
  <2>1. UNCHANGED <<inactive, alarmVars, history>>
    BY <1>2 DEF CheckInactive
  <2>2. RestartTypeOK'
    BY <1>a, <1>b, <2>1 DEF RestartTypeOK, WatchTypeOK
  <2>3. PercentInv'
    BY <1>a, <1>b, <2>1 DEF PercentInv
  <2>4. KeptInv'
    BY <1>a, <2>1, KeptFrame
  <2> QED
    BY <1>c, <2>2, <2>3, <2>4
<1> QED
  BY <1>1, <1>2

(* A counter is not on both sides of the limit.                            *)
LEMMA OneSide ==
  ASSUME NEW v \in Infos
  PROVE  ~(Over(v) /\ Under(v))
<1>1. Window \in Nat /\ PercentLimit \in Nat
  BY ZenonT(40), WatchAssumption
<1>2. v.missed \in 0..Window
  BY InfoFields
<1>3. v.missed \in Nat
  BY <1>1, <1>2
<1>4. 100 * v.missed \in Nat /\ PercentLimit * Window \in Nat
  BY <1>1, <1>3
<1> QED
  BY <1>4 DEF Over, Under

(* The percentage check: the text it emits is that of the only name the    *)
(* process has published, if there is only one.                            *)
LEMMA PercentKeeps ==
  ASSUME RInv, pc = "up", UNCHANGED <<vars, content, unsaved, intact>>, CheckPercentage
  PROVE  RestartTypeOK' /\ RefreshInv' /\ PercentInv' /\ KeptInv'
<1> USE DEF chainVars, refreshVars, alarmVars
<1>a. RestartTypeOK /\ RefreshInv /\ PercentInv /\ KeptInv
  BY DEF RInv
<1>b. /\ watch = "percent" /\ watch' = "wait"
      /\ UNCHANGED <<chainVars, refreshVars, snap, inactive>>
  BY DEF CheckPercentage
<1>c. RefreshInv'
  BY <1>a, <1>b DEF RefreshInv, ReportsInOrder, vars
<1>d. valInfo \in Infos
  BY <1>a, <1>b DEF RefreshInv
<1>e. valInfo.moniker \in Monikers /\ ~(Over(valInfo) /\ Under(valInfo))
  BY <1>d, InfoFields, OneSide
<1> DEFINE t == <<valInfo.moniker, "percent">>
<1>f. t \in Texts
  BY <1>e, TextsOf
<1>1. ASSUME NEW resolved \in BOOLEAN, Emit(t, resolved),
             percentageAlarm' = ~resolved,
             IF resolved THEN Under(valInfo) ELSE Over(valInfo)
      PROVE  RestartTypeOK' /\ PercentInv' /\ KeptInv'
  <2>1. RestartTypeOK'
    BY SMTT(30), <1>a, <1>b, <1>f, <1>1, EmitEffect, CheckTypes DEF RestartTypeOK, WatchTypeOK
  <2>2. /\ history'.saw = history.saw /\ history'.looked = history.looked
        /\ <<valInfo.moniker, valInfo.bonded>> \in history.saw
    BY <1>a, <1>d, <1>f, <1>1, CheckTypes DEF PercentInv
  <2>3. (Over(valInfo) => percentageAlarm') /\ (Under(valInfo) => ~percentageAlarm')
    BY ZenonT(40), <1>1, <1>e
  <2>4. t \notin doubt' => \A d \in Dests : percentageAlarm' <=> t \in sent'[d]
    <3> HIDE DEF t
    <3>1. t \notin doubt' => \A d \in Dests : t \in sent'[d] <=> ~resolved
      BY SMTT(30), <1>a, <1>f, <1>1, EmitEffect
    <3>2. percentageAlarm' <=> ~resolved
      BY ZenonT(40), <1>1
    <3> QED
      BY <3>1, <3>2, Zenon
  <2>5. ASSUME NEW m \in Monikers, \A p \in history'.saw : p[1] = m,
               <<m, "percent">> \notin doubt' \cup history'.restored
        PROVE  \A d \in Dests : percentageAlarm' <=> <<m, "percent">> \in sent'[d]
    <3>1. valInfo.moniker = m
      BY <2>2, <2>5
    <3> QED
      BY <2>4, <2>5, <3>1
  <2>6. PercentInv'
    <3>1. UNCHANGED <<config, valInfo>> /\ watch' = "wait"
      BY <1>b
    <3> HIDE DEF t
    <3> QED
      BY <3>1, <2>2, <2>3, <2>5 DEF PercentInv, Over, Under
  <2>7. KeptInv'
    BY <1>f, <1>1, EmitKeeps
  <2> QED
    BY <2>1, <2>6, <2>7
<1>2. CASE "percent" \in config /\ ~percentageAlarm /\ Over(valInfo)
           /\ percentageAlarm' = TRUE /\ Emit(t, FALSE)
  BY ZenonT(40), <1>1, <1>2, <1>c
<1>3. CASE "percent" \in config /\ percentageAlarm /\ Under(valInfo)
           /\ percentageAlarm' = FALSE /\ Emit(t, TRUE)
  BY ZenonT(40), <1>1, <1>3, <1>c
<1>4. CASE /\ "percent" \notin config
              \/ ~(IF percentageAlarm THEN Under(valInfo) ELSE Over(valInfo))
           /\ UNCHANGED <<percentageAlarm, alarmVars, history>>
  <2>1. RestartTypeOK'
    BY ZenonT(40), <1>a, <1>b, <1>4 DEF RestartTypeOK, WatchTypeOK
  <2>2. PercentInv'
    BY ZenonT(40), <1>a, <1>b, <1>4 DEF PercentInv, Over, Under
  <2>3. KeptInv'
    BY <1>a, <1>4, KeptFrame
  <2> QED
    BY <1>c, <2>1, <2>2, <2>3
<1> QED
  BY ZenonT(40), <1>2, <1>3, <1>4 DEF CheckPercentage

-----------------------------------------------------------------------------
(* What loadState brings back is a document or nothing.                    *)
LEMMA LoadedIsDocument ==
  ASSUME NEW v \in Views
  PROVE  LoadValue(v) \in Docs \cup {0}
BY DEF LoadValue, Valid

(* A process takes over what its predecessor saved, with no latch.         *)
LEMMA StartKeeps ==
  ASSUME RInv, Start
  PROVE  RestartTypeOK' /\ RefreshInv' /\ PercentInv' /\ KeptInv'
<1> USE DEF chainVars, refreshVars, loopVars
<1>a. TypeOK /\ RestartTypeOK /\ RefreshInv /\ KeptInv
  BY DEF RInv, IInv
<1>1. PICK unreadable \in SUBSET Files,
           stale \in [sent : SUBSET Texts, shown : SUBSET Texts] :
        /\ LoadStateWithout(unreadable)
        /\ RestoreSavedState(LoadValue(ViewWithout(unreadable)), stale)
        /\ history' = [NoHistory EXCEPT
                         !.restored = shown' \cup UNION {sent'[d] : d \in Dests}]
        /\ unsaved' = TRUE
        /\ intact' = /\ intact /\ ~unsaved
                     /\ unreadable = {} /\ stale = [sent |-> {}, shown |-> {}]
        /\ UNCHANGED <<chainVars, refreshVars, loopVars, taken, doubt, content>>
  BY DEF Start
<1> DEFINE n == LoadValue(ViewWithout(unreadable))
<1> DEFINE saved == SavedAlarms(n)
<1>2. pc = "down" /\ pc' = "up" /\ UNCHANGED <<seen, durable, acked>>
  BY <1>1 DEF LoadStateWithout, fsVars
<1>3. n \in Docs \cup {0}
  <2>1. ViewWithout(unreadable) \in Views
    BY <1>a DEF ViewWithout, TypeOK, Views, Contents
  <2> QED
    BY <2>1, LoadedIsDocument
<1>4. saved.sent \in [Dests -> SUBSET Texts] /\ saved.shown \subseteq Texts
  <2> HIDE DEF n
  <2>1. 0 \notin Docs
    BY DEF Docs
  <2> QED
    BY <1>3, <1>a, <2>1 DEF SavedAlarms, NoAlarms, RestartTypeOK
<1>5. /\ sent' = [d \in Dests |-> saved.sent[d] \ stale.sent]
      /\ shown' = saved.shown \ stale.shown
  BY <1>1 DEF RestoreSavedState, SavedAlarms
<1> HIDE DEF saved, n
<1>6. sent' \in [Dests -> SUBSET Texts] /\ shown' \subseteq Texts
  BY <1>4, <1>5
<1>7. /\ history'.saw = {} /\ history'.looked = TRUE
      /\ history'.restored = shown' \cup UNION {sent'[d] : d \in Dests}
      /\ history' \in [saw : SUBSET (Monikers \X BOOLEAN), looked : BOOLEAN,
                       gap : BOOLEAN, restored : SUBSET Texts]
  BY ZenonT(40), <1>1, <1>6 DEF NoHistory
<1>8. valInfo = Placeholder /\ lastValInfo = NoInfo /\ watch = "start" /\ ~percentageAlarm
      /\ Placeholder \notin Infos
  BY <1>a, <1>2, InfoFields DEF RefreshInv, Unstarted
<1>9. RestartTypeOK'
  BY ZenonT(40), <1>a, <1>1, <1>6, <1>7 DEF RestartTypeOK, WatchTypeOK
<1>10. RefreshInv'
  BY <1>a, <1>1, <1>2, <1>8 DEF RefreshInv, ReportsInOrder
<1>11. PercentInv'
  <2>1. UNCHANGED <<valInfo, watch, percentageAlarm>>
    BY <1>1
  <2>2. \A x, d \in Dests : x \in sent'[d] => x \in history'.restored
    BY SMTT(30), <1>7
  <2> QED
    BY <1>7, <1>8, <2>1, <2>2 DEF PercentInv
<1>12. KeptInv'
  <2>1. ASSUME intact' PROVE Agree([sent |-> sent, shown |-> shown])'
    <3>1. intact /\ ~unsaved /\ unreadable = {} /\ stale.sent = {} /\ stale.shown = {}
      <4>1. /\ intact /\ ~unsaved
            /\ unreadable = {} /\ stale = [sent |-> {}, shown |-> {}]
        BY <1>1, <2>1, Zenon
      <4> QED
        BY <4>1
    <3>2. ViewWithout(unreadable) = seen
      BY <1>a, <3>1 DEF ViewWithout, TypeOK, Views
    <3>3. Agree(saved)
      BY <1>a, <3>1, <3>2 DEF KeptInv, saved, n
    <3>4. sent' = saved.sent /\ shown' = saved.shown
      <4>1. \A d \in Dests : saved.sent[d] \ stale.sent = saved.sent[d]
        BY <3>1
      <4>2. saved.shown \ stale.shown = saved.shown
        BY <3>1
      <4> QED
        BY ZenonT(40), <1>4, <1>5, <4>1, <4>2
    <3> QED
      BY <1>1, <3>3, <3>4 DEF Agree
  <2> QED
    BY <1>1, <1>2, <2>1 DEF KeptInv
<1> QED
  BY <1>9, <1>10, <1>11, <1>12

(* What is left of a process in memory when it ends: nothing.              *)
LEMMA EndsKeep ==
  ASSUME RInv, ProcessEnds, pc' # "up",
         content' \in [Docs -> [sent : [Dests -> SUBSET Texts], shown : SUBSET Texts]],
         UNCHANGED <<unsaved, intact>>
  PROVE  RestartTypeOK' /\ RefreshInv' /\ PercentInv'
<1> USE DEF chainVars
<1>a. RestartTypeOK /\ RefreshInv
  BY DEF RInv
<1>1. /\ Unstarted' /\ sent' = [d \in Dests |-> {}] /\ shown' = {}
      /\ history' = NoHistory /\ UNCHANGED <<chainVars, taken, doubt>>
  BY DEF ProcessEnds, Forget, Unstarted, NoAlarms
<1>2. /\ history'.saw = {} /\ history'.restored = {}
      /\ history' \in [saw : SUBSET (Monikers \X BOOLEAN), looked : BOOLEAN,
                       gap : BOOLEAN, restored : SUBSET Texts]
  BY <1>1 DEF NoHistory
<1>3. Placeholder \notin Infos /\ NoInfo \notin Infos /\ Placeholder.at = 0
  BY ZenonT(40), InfoFields DEF Placeholder
<1>4. RestartTypeOK'
  BY ZenonT(40), <1>a, <1>1, <1>2 DEF RestartTypeOK, WatchTypeOK, Unstarted, Words
<1>5. RefreshInv'
  BY SMTT(30), <1>a, <1>1, <1>3, Ages DEF RefreshInv, ReportsInOrder, Unstarted
<1>6. PercentInv'
  BY <1>1, <1>2, <1>3 DEF PercentInv, Unstarted
<1> QED
  BY <1>4, <1>5, <1>6

(* A clean stop puts the alarms into the document it is about to write.    *)
LEMMA StopKeeps ==
  ASSUME RInv, Stop
  PROVE  RestartTypeOK' /\ RefreshInv' /\ PercentInv' /\ KeptInv'
<1>a. TypeOK /\ RestartTypeOK /\ KeptInv
  BY DEF RInv, IInv
<1>1. pc = "up" /\ pc' = "read" /\ doc' \in Docs
  BY SMTT(30), <1>a, StoreAssumption DEF Stop, BeginCheckpoint, TypeOK, Docs
<1>2. /\ content' = [content EXCEPT ![doc'] = [sent |-> sent, shown |-> shown]]
      /\ UNCHANGED <<unsaved, intact>> /\ ProcessEnds
  BY DEF Stop
<1>3. content' \in [Docs -> [sent : [Dests -> SUBSET Texts], shown : SUBSET Texts]]
  BY <1>a, <1>1, <1>2 DEF RestartTypeOK, WatchTypeOK
<1>4. RestartTypeOK' /\ RefreshInv' /\ PercentInv'
  BY <1>1, <1>2, <1>3, EndsKeep
<1>5. KeptInv'
  <2>1. unsaved /\ (intact => Agree([sent |-> sent, shown |-> shown]))
    BY <1>a, <1>1 DEF KeptInv
  <2>2. content'[doc'] = [sent |-> sent, shown |-> shown]
    BY <1>a, <1>1, <1>2 DEF RestartTypeOK
  <2>3. UNCHANGED <<taken, doubt>>
    BY <1>2 DEF ProcessEnds
  <2>4. intact' => Agree(content[doc])'
    BY <1>2, <2>1, <2>2, <2>3 DEF Agree
  <2> QED
    BY <1>1, <1>2, <2>1, <2>4 DEF KeptInv
<1> QED
  BY <1>4, <1>5

(* A crash saves nothing, but does not undo an acknowledged checkpoint.    *)
LEMMA CrashKeeps ==
  ASSUME RInv, Crash
  PROVE  RestartTypeOK' /\ RefreshInv' /\ PercentInv' /\ KeptInv'
<1>a. IInv /\ TypeOK /\ RestartTypeOK /\ KeptInv
  BY DEF RInv, IInv
<1>1. pc' = "down" /\ ProcessEnds /\ UNCHANGED <<content, unsaved, intact, acked>>
  BY DEF Crash, Killed, PowerLoss
<1>2. RestartTypeOK' /\ RefreshInv' /\ PercentInv'
  BY <1>a, <1>1, EndsKeep DEF RestartTypeOK
<1>3. KeptInv'
  <2>1. CASE unsaved
    BY <1>1, <2>1 DEF KeptInv
  <2>2. CASE ~unsaved
    <3>1. pc = "down" /\ LoadValue(seen) = acked /\ LoadValue(durable) = acked
      BY <1>a, <2>2 DEF KeptInv
    <3>2. PowerLoss
      BY <3>1 DEF Crash, Killed
    <3>3. LoadValue(seen)' = acked /\ LoadValue(durable)' = acked
      <4>1. durable' = seen'
        BY <3>2 DEF PowerLoss
      <4> QED
        BY <1>a, <3>1, <3>2, <4>1, PowerLossLeavesOne DEF LoadValue
    <3>4. UNCHANGED <<taken, doubt>>
      BY <1>1 DEF ProcessEnds
    <3>5. intact => Agree(SavedAlarms(acked))
      BY <1>a, <2>2, <3>1 DEF KeptInv
    <3>6. intact' => Agree(SavedAlarms(LoadValue(seen)))'
      BY ZenonT(40), <1>1, <3>3, <3>4, <3>5 DEF Agree, SavedAlarms, NoAlarms
    <3> QED
      BY <1>1, <3>3, <3>6 DEF KeptInv
  <2> QED
    BY <2>1, <2>2
<1> QED
  BY <1>2, <1>3

(* writeStateAtomic: what it acknowledges is what a start would load.      *)
LEMMA SaveKeeps ==
  ASSUME RInv, Save
  PROVE  RestartTypeOK' /\ RefreshInv' /\ PercentInv' /\ KeptInv'
<1> USE DEF watchVars, chainVars, refreshVars, loopVars, alarmVars
<1>a. /\ IInv /\ TypeOK /\ TempInv
      /\ RestartTypeOK /\ RefreshInv /\ PercentInv /\ KeptInv
  BY DEF RInv, IInv
<1>b. UNCHANGED <<watchVars, content, intact>> /\ unsaved' = (unsaved /\ acked' = acked)
  BY DEF Save
<1>c. pc \notin {"up", "down"} /\ pc' # "up" /\ unsaved /\ doc' = doc
  <2>1. pc \notin {"up", "down"} /\ pc' # "up" /\ doc' = doc
    BY DEF Save, ReadCurrent, WriteTemp, SyncTemp, RenameTemp, SyncDirectory, StepFails
  <2> QED
    BY <1>a, <2>1 DEF KeptInv
<1>1. RestartTypeOK'
  BY SMTT(30), <1>a, <1>b DEF RestartTypeOK, WatchTypeOK
<1>2. RefreshInv'
  BY <1>a, <1>b, <1>c DEF RefreshInv, ReportsInOrder, Unstarted
<1>3. PercentInv'
  BY <1>a, <1>b DEF PercentInv, Over, Under
<1>4. intact => Agree(content[doc])
  BY <1>a, <1>c DEF KeptInv
<1>5. intact' => Agree(content[doc])'
  BY <1>b, <1>c, <1>4 DEF Agree
<1>6. CASE acked' = acked
  <2>1. unsaved'
    BY ZenonT(40), <1>b, <1>c, <1>6
  <2>2. KeptInv'
    BY <1>c, <1>5, <2>1 DEF KeptInv
  <2> QED
    BY <1>1, <1>2, <1>3, <2>2
<1>7. CASE acked' # acked
  <2>1. SyncDirectory /\ target = "primary"
    <3>1. SyncDirectory /\ target # "bak"
      BY <1>7 DEF Save, ReadCurrent, WriteTemp, SyncTemp, RenameTemp, SyncDirectory, StepFails
    <3> QED
      BY <1>a, <3>1 DEF TypeOK, Files
  <2>2. /\ pc = "dirsync" /\ pc' = "down" /\ acked' = doc
        /\ seen' = seen /\ durable' = seen
    BY <2>1 DEF SyncDirectory
  <2>3. seen["primary"] = doc /\ doc \in Docs
    BY <1>a, <2>1, <2>2 DEF TempInv, TypeOK
  <2>4. LoadValue(seen)' = doc /\ LoadValue(durable)' = doc
    BY <2>2, <2>3 DEF LoadValue, Valid
  <2>5. intact' => Agree(SavedAlarms(LoadValue(seen)))'
    <3>1. doc # 0
      BY <2>3 DEF Docs
    <3>2. SavedAlarms(LoadValue(seen))' = content'[doc]
      BY <2>4, <3>1 DEF SavedAlarms
    <3> QED
      BY <1>c, <1>5, <3>2 DEF Agree
  <2>6. KeptInv'
    BY ZenonT(40), <1>b, <1>7, <2>2, <2>4, <2>5 DEF KeptInv
  <2> QED
    BY <1>1, <1>2, <1>3, <2>6
<1> QED
  BY <1>6, <1>7

-----------------------------------------------------------------------------
(* The first start.                                                        *)
LEMMA InitRInv == RestartInit => RInv
<1> SUFFICES ASSUME RestartInit PROVE RInv
  OBVIOUS
<1>1. IInv
  BY InitIInv DEF RestartInit
<1>2. /\ pc = "down" /\ durable = seen /\ acked = LoadValue(seen) /\ LoadValue(seen) = 2
  BY SMTT(30), StoreAssumption DEF RestartInit, Init, LoadValue, Valid, Docs
<1>3. /\ config \in Configs /\ onChain \in Infos /\ Unstarted /\ shown = {} /\ doubt = {}
      /\ sent = [d \in Dests |-> {}]
      /\ taken = [d \in Dests |-> [t \in Texts |-> "none"]]
      /\ history = NoHistory
  <2>1. onChain \in Infos
    <3>1. 0 \in 0..Window /\ 0 \in 0..MaxChanges
      <4>1. Window \in Nat /\ MaxChanges \in Nat
        BY ZenonT(40), WatchAssumption
      <4> QED
        BY <4>1
    <3>2. onChain \in [moniker : Monikers,
                       bonded : IF "inactive" \in config THEN BOOLEAN ELSE {TRUE},
                       tombstoned : {FALSE}, missed : {0}, at : {0}]
      BY ZenonT(40) DEF RestartInit, WatchInit
    <3> QED
      BY ZenonT(40), <3>1, <3>2 DEF Infos
  <2> QED
    BY <2>1 DEF RestartInit, WatchInit, Delivery!Init
<1>4. /\ content = [n \in Docs |-> NoAlarms] /\ unsaved = FALSE /\ intact = TRUE
  BY DEF RestartInit
<1>5. Placeholder \notin Infos /\ NoInfo \notin Infos /\ Placeholder.at = 0
  BY ZenonT(40), InfoFields DEF Placeholder
<1>6. RestartTypeOK
  BY ZenonT(40), <1>3, <1>4 DEF RestartTypeOK, WatchTypeOK, Unstarted, Words, NoHistory, NoAlarms
<1>7. RefreshInv
  BY <1>3, <1>5, <1>6, Ages DEF RefreshInv, ReportsInOrder, Unstarted
<1>8. PercentInv
  BY <1>3, <1>5 DEF PercentInv, Unstarted, NoHistory
<1>9. KeptInv
  <2>1. SavedAlarms(2) = NoAlarms
    BY SMTT(30), <1>4, StoreAssumption DEF SavedAlarms, Docs
  <2>2. Agree(NoAlarms)
    BY <1>3 DEF Agree, NoAlarms
  <2> QED
    BY ZenonT(40), <1>2, <1>4, <2>1, <2>2 DEF KeptInv
<1> QED
  BY <1>1, <1>6, <1>7, <1>8, <1>9 DEF RInv

(* Every step of the composition keeps the invariant.                      *)
LEMMA RestartStep == RInv /\ [RestartNext]_restartVars => RInv'
<1> SUFFICES ASSUME RInv, [RestartNext]_restartVars PROVE RInv'
  OBVIOUS
<1>a. IInv'
  BY StoreSteps, TypeStep, TempStep, FilesStep, OrderStep, AckedStep DEF RInv, IInv
<1>b. RestartTypeOK /\ RefreshInv /\ PercentInv /\ KeptInv
  BY DEF RInv
<1> SUFFICES RestartTypeOK' /\ RefreshInv' /\ PercentInv' /\ KeptInv'
  BY <1>a DEF RInv
<1>1. CASE Start
  BY <1>1, StartKeeps
<1>2. CASE Run
  <2>1. pc = "up" /\ UNCHANGED <<vars, content, unsaved, intact>>
    BY <1>2 DEF Run
  <2>2. CASE \E g \in Callers : QueryValidator(g) \/ QuerySigningInfo(g) \/ RefreshFails(g)
    BY <2>1, <2>2, RefreshKeeps
  <2>3. CASE WatchStarts \/ WatchWakes
    BY <2>1, <2>3, WatchKeeps
  <2>4. CASE CheckInactive
    BY <2>1, <2>4, InactiveKeeps
  <2>5. CASE CheckPercentage
    BY <2>1, <2>5, PercentKeeps
  <2> QED
    BY <1>2, <2>2, <2>3, <2>4, <2>5 DEF Run, ProcessStep
<1>3. CASE Meanwhile
  BY <1>3, MeanwhileKeeps
<1>4. CASE Stop
  BY <1>4, StopKeeps
<1>5. CASE Save
  BY <1>5, SaveKeeps
<1>6. CASE Crash
  BY <1>6, CrashKeeps
<1>7. CASE UNCHANGED restartVars
  <2> USE <1>7 DEF restartVars, watchVars, chainVars, refreshVars, loopVars, alarmVars
  <2>1. RestartTypeOK'
    BY SMTT(30), <1>b DEF RestartTypeOK, WatchTypeOK
  <2>2. RefreshInv'
    BY ZenonT(40), <1>b DEF RefreshInv, ReportsInOrder, Unstarted, vars
  <2>3. PercentInv'
    BY <1>b DEF PercentInv, Over, Under
  <2>4. KeptInv'
    BY <1>b, KeptFrame
  <2> QED
    BY <2>1, <2>2, <2>3, <2>4
<1> QED
  BY <1>1, <1>2, <1>3, <1>4, <1>5, <1>6, <1>7 DEF RestartNext

(* The inductive invariant holds in every reachable state.                 *)
THEOREM RestartInvariant == RestartSpec => []RInv
BY InitRInv, RestartStep, PTL DEF RestartSpec

(* Type correctness of the composition.                                    *)
THEOREM RestartTypes == RestartSpec => []RestartTypeOK
<1>1. RInv => RestartTypeOK
  BY DEF RInv
<1> QED
  BY RestartInvariant, <1>1, PTL

(* GetValInfo never publishes a record behind a newer one, whichever of    *)
(* its callers runs and whatever changes on chain between its queries.     *)
THEOREM RecordsStayInOrder == RestartSpec => []ReportsInOrder
<1>1. RInv => ReportsInOrder
  BY DEF RInv, RefreshInv
<1> QED
  BY RestartInvariant, <1>1, PTL

(* The percentage alarm a destination holds is right whenever watch has    *)
(* caught up, for any window, limit and number of changes on chain.        *)
THEOREM PercentAlarmsAreRight == RestartSpec => []PercentAlarmIsRight
<1>1. RInv => PercentAlarmIsRight
  <2> SUFFICES ASSUME RInv, "percent" \in config, CaughtUp, OneName,
                      <<valInfo.moniker, "percent">> \notin doubt \cup history.restored,
                      NEW d \in Dests
               PROVE  /\ Over(valInfo) => <<valInfo.moniker, "percent">> \in sent[d]
                      /\ Under(valInfo) => <<valInfo.moniker, "percent">> \notin sent[d]
    BY DEF PercentAlarmIsRight
  <2>a. RefreshInv /\ PercentInv
    BY DEF RInv
  <2>1. watch = "wait" /\ history.looked
    BY DEF CaughtUp
  <2>2. valInfo.moniker \in Monikers
    BY <2>a, <2>1, InfoFields DEF RefreshInv
  <2>3. (Over(valInfo) => percentageAlarm) /\ (Under(valInfo) => ~percentageAlarm)
    BY ZenonT(40), <2>a, <2>1 DEF PercentInv
  <2>4. percentageAlarm <=> <<valInfo.moniker, "percent">> \in sent[d]
    BY <2>a, <2>2 DEF PercentInv, OneName
  <2> QED
    BY <2>3, <2>4
<1> QED
  BY RestartInvariant, <1>1, PTL

(* The alarms of a cleanly stopped process are right again in the next     *)
(* one, over any number of restarts.                                       *)
THEOREM RestartsKeepAlarms == RestartSpec => []AlarmsSurviveRestarts
<1>1. RInv => AlarmsSurviveRestarts
  BY ZenonT(40) DEF RInv, KeptInv, Agree, AlarmsSurviveRestarts
<1> QED
  BY RestartInvariant, <1>1, PTL

-----------------------------------------------------------------------------
(* What a sent map or a document holds as sent was taken by the            *)
(* destination at some time.                                               *)
OwedInv ==
  \A d \in Dests, t \in Texts :
    t \in sent[d] \/ (\E n \in Docs : t \in content[n].sent[d]) => taken[d][t] # "none"

(* A running process changes the sent map and the destination by alerts.   *)
LEMMA RunEmits ==
  ASSUME RInv, Run
  PROVE  \/ UNCHANGED <<sent, taken>>
         \/ \E t \in Texts, resolved \in BOOLEAN : Emit(t, resolved)
<1> USE DEF alarmVars
<1>a. pc = "up" /\ RestartTypeOK /\ RefreshInv
  BY DEF Run, RInv
<1>1. CASE CheckInactive
  <2>1. CASE "inactive" \in config /\ Shows(snap.last, snap.now)
    <3>1. /\ inactive' \in Words
          /\ Emit(<<snap.now.moniker, inactive'>>, snap.now.bonded)
      BY <1>1, <1>a, <2>1 DEF CheckInactive, RestartTypeOK, WatchTypeOK, Words
    <3>2. snap.now.moniker \in Monikers /\ snap.now.bonded \in BOOLEAN
      BY <1>1, <1>a, InfoFields DEF CheckInactive, RefreshInv
    <3> QED
      BY <3>1, <3>2, TextsOf, Zenon
  <2>2. CASE ~("inactive" \in config /\ Shows(snap.last, snap.now))
    BY <1>1, <2>2 DEF CheckInactive
  <2> QED
    BY <2>1, <2>2
<1>2. CASE CheckPercentage
  <2>1. valInfo.moniker \in Monikers
    BY <1>2, <1>a, InfoFields DEF CheckPercentage, RefreshInv
  <2> QED
    BY <1>2, <2>1, TextsOf, Zenon DEF CheckPercentage
<1>3. CASE ~(CheckInactive \/ CheckPercentage)
  BY <1>3 DEF Run, ProcessStep, QueryValidator, QuerySigningInfo, RefreshFails, WatchStarts,
     WatchWakes
<1> QED
  BY <1>1, <1>2, <1>3

(* What a step adds to the sent map or takes from the destination, while   *)
(* a process runs.                                                         *)
LEMMA RunOwes ==
  ASSUME RInv, Run, NEW d \in Dests, NEW u \in Texts
  PROVE  /\ u \in sent'[d] => u \in sent[d] \/ taken'[d][u] # "none"
         /\ taken[d][u] # "none" => taken'[d][u] # "none"
         /\ taken'[d][u] = "resolve" => taken[d][u] # "none" \/ u \in sent[d]
<1>1. CASE UNCHANGED <<sent, taken>>
  BY <1>1
<1>2. ASSUME NEW t \in Texts, NEW resolved \in BOOLEAN, Emit(t, resolved)
      PROVE  /\ u \in sent'[d] => u \in sent[d] \/ taken'[d][u] # "none"
             /\ taken[d][u] # "none" => taken'[d][u] # "none"
             /\ taken'[d][u] = "resolve" => taken[d][u] # "none" \/ u \in sent[d]
  <2>a. /\ sent \in [Dests -> SUBSET Texts]
        /\ taken \in [Dests -> [Texts -> {"none", "trigger", "resolve"}]]
    BY DEF RInv, RestartTypeOK, WatchTypeOK
  <2>1. CASE UNCHANGED <<sent, taken>>
    BY <2>1
  <2>2. CASE Delivery!Accept(d, t) \/ Delivery!Lose(d, t)
    <3>1. /\ taken' = [taken EXCEPT ![d][t] = IF t \in sent[d] THEN "resolve" ELSE "trigger"]
          /\ sent'[d] \subseteq sent[d] \cup {t}
      BY ZenonT(40), <2>a, <2>2
         DEF Delivery!Accept, Delivery!Lose, Delivery!Due, Delivery!Acknowledged
    <3>2. taken'[d][t] = IF t \in sent[d] THEN "resolve" ELSE "trigger"
      BY <2>a, <3>1
    <3>3. u # t => taken'[d][u] = taken[d][u]
      BY <2>a, <3>1
    <3> QED
      BY SMTT(30), <3>1, <3>2, <3>3
  <2> QED
    BY <1>2, <2>1, <2>2 DEF Emit
<1> QED
  BY <1>1, <1>2, RunEmits

(* Every step keeps what is owed within what was taken: starts restore     *)
(* documents, stops write them, and nothing else touches either.           *)
LEMMA OwedStep == RInv /\ OwedInv /\ [RestartNext]_restartVars => OwedInv'
<1> SUFFICES ASSUME RInv, OwedInv, [RestartNext]_restartVars,
                    NEW d \in Dests, NEW t \in Texts,
                    t \in sent'[d] \/ (\E n \in Docs : t \in content'[n].sent[d])
             PROVE  taken'[d][t] # "none"
  BY DEF OwedInv
<1>a. RestartTypeOK /\ TypeOK
  BY DEF RInv, IInv
<1>b. t \in sent[d] \/ (\E n \in Docs : t \in content[n].sent[d]) => taken[d][t] # "none"
  BY DEF OwedInv
<1>1. CASE Run
  <2>1. UNCHANGED content
    BY <1>1 DEF Run
  <2> QED
    BY <1>1, <1>b, <2>1, RunOwes
<1>2. CASE Start
  <2>1. PICK unreadable \in SUBSET Files,
             stale \in [sent : SUBSET Texts, shown : SUBSET Texts] :
          RestoreSavedState(LoadValue(ViewWithout(unreadable)), stale)
    BY <1>2 DEF Start
  <2> DEFINE n == LoadValue(ViewWithout(unreadable))
  <2>2. UNCHANGED <<content, taken>>
    BY <1>2 DEF Start
  <2>3. n \in Docs \cup {0}
    <3>1. ViewWithout(unreadable) \in Views
      BY <1>a DEF ViewWithout, TypeOK, Views, Contents
    <3> QED
      BY <3>1, LoadedIsDocument
  <2>4. t \in sent'[d] => t \in SavedAlarms(n).sent[d]
    BY <2>1 DEF RestoreSavedState, SavedAlarms
  <2> HIDE DEF n
  <2>5. t \in SavedAlarms(n).sent[d] => \E k \in Docs : t \in content[k].sent[d]
    BY <2>3 DEF SavedAlarms, NoAlarms
  <2> QED
    BY <1>b, <2>2, <2>4, <2>5
<1>3. CASE Stop
  <2>1. /\ content' = [content EXCEPT ![doc'] = [sent |-> sent, shown |-> shown]]
        /\ UNCHANGED taken /\ sent' = [e \in Dests |-> {}]
    BY <1>3 DEF Stop, ProcessEnds, NoAlarms
  <2>2. \A n \in Docs : content'[n].sent[d] \in {content[n].sent[d], sent[d]}
    BY <1>a, <2>1 DEF RestartTypeOK
  <2>3. sent'[d] = {}
    BY <2>1
  <2> QED
    BY <1>b, <2>1, <2>2, <2>3
<1>4. CASE Crash
  <2>1. UNCHANGED <<content, taken>> /\ sent'[d] = {}
    BY <1>4 DEF Crash, ProcessEnds, NoAlarms
  <2> QED
    BY <1>b, <2>1
<1>5. CASE Meanwhile \/ Save \/ UNCHANGED restartVars
  <2>1. UNCHANGED <<sent, taken, content>>
    BY <1>5 DEF Meanwhile, ChainChanges, Save, restartVars, watchVars, alarmVars
  <2> QED
    BY <1>b, <2>1
<1> QED
  BY <1>1, <1>2, <1>3, <1>4, <1>5 DEF RestartNext

(* Whatever is lost or restored late, a destination takes a resolution     *)
(* only for an alarm whose trigger it took, over any number of processes.  *)
THEOREM ResolutionsNeedTriggers == RestartSpec => ResolutionNeedsTrigger
<1>1. RestartInit => OwedInv
  BY SMTT(30) DEF RestartInit, WatchInit, Delivery!Init, NoAlarms, OwedInv
<1>2. RInv /\ OwedInv /\ [RestartNext]_restartVars =>
        [\A d \in Dests, t \in Texts :
           taken'[d][t] = "resolve" => taken[d][t] # "none"]_restartVars
  <2> SUFFICES ASSUME RInv, OwedInv, [RestartNext]_restartVars, restartVars' # restartVars,
                      NEW d \in Dests, NEW t \in Texts, taken'[d][t] = "resolve"
               PROVE  taken[d][t] # "none"
    BY Zenon
  <2>1. CASE Run
    BY <2>1, RunOwes DEF OwedInv
  <2>2. CASE ~Run
    <3>1. UNCHANGED taken
      BY <2>2 DEF RestartNext, Start, Meanwhile, ChainChanges, alarmVars, Stop, Crash,
         ProcessEnds, Save, watchVars
    <3> QED
      BY <3>1
  <2> QED
    BY <2>1, <2>2
<1> QED
  BY <1>1, <1>2, OwedStep, RestartInvariant, PTL DEF RestartSpec, ResolutionNeedsTrigger
=============================================================================
