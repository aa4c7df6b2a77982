------------------------ MODULE InactiveAlarmProofs -------------------------
(***************************************************************************)
(* Proof that the inactive alarm of SeerRestart is right, for any number   *)
(* of processes, changes on chain, refreshes and ticks of watch.  Two      *)
(* facts are needed beyond the invariant of SeerRestartProofs: that        *)
(* tombstoning is final for all who know of it, which makes the word of a  *)
(* resolution that of its trigger, and what the pair of records still has  *)
(* to tell watch.                                                          *)
(***************************************************************************)
EXTENDS SeerRestartProofs

\* Zenon first: preparing a leaf for SMT takes longer than most leaves do.
USE ZenonT(30), SMTT(30)

(* No query, published or under way, says the validator is bonded.         *)
Buried ==
  /\ onChain.tombstoned /\ ~valInfo.bonded
  /\ \A g \in Callers : next[g] # NoInfo => ~next[g].bonded

Dead(v) == ~v.bonded /\ v.tombstoned

(* The process has the word "tombstoned" from somewhere.                   *)
WordIsOut == inactive = "tombstoned" \/ \E m \in Monikers : <<m, "tombstoned">> \in shown

(* A validator known as tombstoned stays inactive, in this process and in  *)
(* the ones that read its documents.                                       *)
TombInv ==
  /\ onChain.tombstoned => ~onChain.bonded
  /\ Dead(valInfo) \/ WordIsOut => Buried
  /\ watch = "inactive" /\ Dead(snap.now) => Buried
  /\ watch = "inactive" /\ WordIsOut => ~snap.now.bonded
  /\ \A n \in Docs, m \in Monikers :
       <<m, "tombstoned">> \in content[n].shown => onChain.tombstoned

(* The dashboard is right about a validator called m that is bonded or not *)
Right(bonded, m) ==
  LET there == \E w \in Words : <<m, w>> \in shown
  IN /\ ~bonded /\ <<m, TRUE>> \in history.saw => there
     /\ bonded /\ <<m, FALSE>> \in history.saw => ~there

(* As long as nothing was hidden: the alarm is right, or watch is about to *)
(* make it right, or the pair of records shows watch what to do.           *)
PairInv ==
  /\ valInfo = Placeholder => history.saw = {}
  /\ watch = "inactive" => <<snap.now.moniker, snap.now.bonded>> \in history.saw
  /\ "inactive" \in config /\ ~history.gap =>
     \A m \in Monikers : (\A p \in history.saw : p[1] = m) =>
       \/ ~history.looked /\ Shows(lastValInfo, valInfo)
       \/ watch # "inactive" /\ Right(valInfo.bonded, m)
       \/ /\ watch = "inactive" /\ snap.now.bonded = valInfo.bonded
          /\ Shows(snap.last, snap.now) \/ Right(valInfo.bonded, m)

WInv == TombInv /\ PairInv

-----------------------------------------------------------------------------
(* Before the first publication nothing is claimed.                        *)
LEMMA NothingSeen ==
  ASSUME history = NoHistory, watch # "inactive"
  PROVE  PairInv
<1>1. history.saw = {}
  BY DEF NoHistory
<1> QED
  BY <1>1, Zenon DEF PairInv, Right

(* A process that has just been given its configuration.                   *)
LEMMA PlaceholderIsAlive == Placeholder.bonded = FALSE /\ Placeholder.tombstoned = FALSE
BY DEF Placeholder

(* The first start.                                                        *)
LEMMA InitWInv == RestartInit => WInv
<1> SUFFICES ASSUME RestartInit PROVE WInv
  OBVIOUS
<1>1. /\ Unstarted /\ shown = {} /\ history = NoHistory
      /\ content = [n \in Docs |-> NoAlarms]
  BY DEF RestartInit, WatchInit
<1>2. onChain.tombstoned = FALSE
  <2>1. onChain \in [moniker : Monikers,
                     bonded : IF "inactive" \in config THEN BOOLEAN ELSE {TRUE},
                     tombstoned : {FALSE}, missed : {0}, at : {0}]
    BY Zenon DEF RestartInit, WatchInit
  <2> QED
    BY <2>1, Zenon
<1>3. /\ watch = "start" /\ inactive = "jailed" /\ valInfo = Placeholder
  BY <1>1 DEF Unstarted
<1>4. \A n \in Docs : content[n].shown = {}
  BY <1>1 DEF NoAlarms
<1>5. TombInv
  BY <1>1, <1>2, <1>3, <1>4, PlaceholderIsAlive DEF TombInv, WordIsOut, Dead
<1>6. PairInv
  BY <1>1, <1>3, NothingSeen
<1> QED
  BY <1>5, <1>6 DEF WInv

(* What is left of a process when it ends.                                 *)
LEMMA EndsKeepWInv ==
  ASSUME RInv, WInv, ProcessEnds,
         \A n \in Docs, m \in Monikers :
           <<m, "tombstoned">> \in content'[n].shown => onChain.tombstoned
  PROVE  WInv'
<1>1. /\ valInfo' = Placeholder /\ watch' = "start" /\ inactive' = "jailed"
      /\ shown' = {} /\ history' = NoHistory /\ onChain' = onChain
  BY DEF ProcessEnds, Forget, chainVars
<1>2. TombInv'
  BY <1>1, PlaceholderIsAlive DEF WInv, TombInv, WordIsOut, Dead
<1>3. PairInv'
  <2>1. history'.saw = {}
    BY <1>1 DEF NoHistory
  <2> QED
    BY <1>1, <2>1, Zenon DEF PairInv, Right
<1> QED
  BY <1>2, <1>3 DEF WInv

(* A clean stop and a crash.                                               *)
LEMMA StopKeepsWInv ==
  ASSUME RInv, WInv, Stop
  PROVE  WInv'
<1>a. TypeOK /\ RestartTypeOK /\ TombInv
  BY DEF RInv, IInv, WInv
<1>1. doc' \in Docs
  BY SMTT(30), <1>a, StoreAssumption DEF Stop, BeginCheckpoint, TypeOK, Docs
<1>2. /\ content' = [content EXCEPT ![doc'] = [sent |-> sent, shown |-> shown]]
      /\ ProcessEnds
  BY DEF Stop
<1>3. ASSUME NEW n \in Docs, NEW m \in Monikers, <<m, "tombstoned">> \in content'[n].shown
      PROVE  onChain.tombstoned
  <2>1. CASE n = doc'
    <3>1. content'[n].shown = shown
      BY <1>a, <1>1, <1>2, <2>1 DEF RestartTypeOK
    <3> QED
      BY <1>a, <1>3, <3>1 DEF TombInv, WordIsOut, Buried
  <2>2. CASE n # doc'
    <3>1. content'[n] = content[n]
      BY <1>a, <1>2, <2>2 DEF RestartTypeOK
    <3> QED
      BY <1>a, <1>3, <3>1 DEF TombInv
  <2> QED
    BY <2>1, <2>2
<1> QED
  BY <1>2, <1>3, EndsKeepWInv

LEMMA CrashKeepsWInv ==
  ASSUME RInv, WInv, Crash
  PROVE  WInv'
<1>1. ProcessEnds /\ content' = content
  BY DEF Crash
<1> QED
  BY <1>1, EndsKeepWInv DEF WInv, TombInv

(* A process that starts may find the word in its document.                *)
LEMMA StartKeepsWInv ==
  ASSUME RInv, WInv, Start
  PROVE  WInv'
<1>a. TypeOK /\ RestartTypeOK /\ RefreshInv /\ TombInv
  BY DEF RInv, IInv, WInv
<1>1. PICK unreadable \in SUBSET Files,
           stale \in [sent : SUBSET Texts, shown : SUBSET Texts] :
        /\ LoadStateWithout(unreadable)
        /\ RestoreSavedState(LoadValue(ViewWithout(unreadable)), stale)
        /\ history' = [NoHistory EXCEPT
                         !.restored = shown' \cup UNION {sent'[d] : d \in Dests}]
        /\ UNCHANGED <<chainVars, refreshVars, loopVars, content>>
  BY DEF Start
<1> DEFINE n == LoadValue(ViewWithout(unreadable))
<1>2. UNCHANGED <<onChain, valInfo, next, watch, inactive, content>>
  BY <1>1 DEF chainVars, refreshVars, loopVars
<1>3. /\ watch = "start" /\ inactive = "jailed" /\ valInfo = Placeholder
      /\ \A g \in Callers : next[g] = NoInfo
  <2>1. pc = "down"
    BY <1>1 DEF LoadStateWithout
  <2> QED
    BY <1>a, <2>1 DEF RefreshInv, Unstarted
<1>4. n \in Docs \cup {0}
  <2>1. ViewWithout(unreadable) \in Views
    BY <1>a DEF ViewWithout, TypeOK, Views, Contents
  <2> QED
    BY <2>1, LoadedIsDocument
<1>5. shown' \subseteq SavedAlarms(n).shown
  BY <1>1 DEF RestoreSavedState, SavedAlarms
<1> HIDE DEF n
<1>6. ASSUME NEW m \in Monikers, <<m, "tombstoned">> \in shown'
      PROVE  onChain.tombstoned
  <2>1. CASE n = 0
    BY <1>5, <1>6, <2>1 DEF SavedAlarms, NoAlarms
  <2>2. CASE n # 0
    BY <1>a, <1>4, <1>5, <1>6, <2>2 DEF SavedAlarms, TombInv
  <2> QED
    BY <2>1, <2>2
<1>7. TombInv'
  BY <1>a, <1>2, <1>3, <1>6, PlaceholderIsAlive DEF TombInv, WordIsOut, Dead, Buried
<1>8. PairInv'
  <2>1. history'.saw = {}
    BY <1>1 DEF NoHistory
  <2> QED
    BY <1>2, <1>3, <2>1, Zenon DEF PairInv, Right
<1> QED
  BY <1>7, <1>8 DEF WInv

(* The validator changes; a tombstoned one does not return.                *)
LEMMA MeanwhileKeepsWInv ==
  ASSUME RInv, WInv, Meanwhile
  PROVE  WInv'
<1>a. TombInv /\ PairInv
  BY DEF WInv
<1>1. UNCHANGED <<config, next, valInfo, lastValInfo, watch, snap, inactive, shown, history,
                  content>>
  BY DEF Meanwhile, ChainChanges, refreshVars, loopVars, alarmVars
<1>2. /\ onChain'.tombstoned => ~onChain'.bonded
      /\ onChain.tombstoned => onChain'.tombstoned
  <2>1. PICK b \in BOOLEAN, t \in BOOLEAN, m \in 0..Window, name \in Monikers :
          /\ onChain.tombstoned => t
          /\ t => ~b
          /\ onChain' = [moniker |-> name, bonded |-> b, tombstoned |-> t, missed |-> m,
                         at |-> onChain.at + 1]
    BY Zenon DEF Meanwhile, ChainChanges
  <2>2. onChain'.tombstoned = t /\ onChain'.bonded = b
    BY <2>1
  <2> QED
    BY <2>1, <2>2, Zenon
<1>3. TombInv'
  BY <1>a, <1>1, <1>2, Zenon DEF TombInv, WordIsOut, Dead, Buried
<1>4. PairInv'
  BY <1>a, <1>1, Zenon DEF PairInv, Right, Shows
<1> QED
  BY <1>3, <1>4 DEF WInv

(* Nothing the invariant speaks of changes while the document is written.  *)
LEMMA FrameKeepsWInv ==
  ASSUME WInv, UNCHANGED <<watchVars, content>>
  PROVE  WInv'
BY ZenonT(40) DEF WInv, TombInv, PairInv, WordIsOut, Dead, Buried, Right, Shows, watchVars,
   chainVars, refreshVars, loopVars, alarmVars

-----------------------------------------------------------------------------
(* GetValInfo before its publication.                                      *)
LEMMA QueryKeepsWInv ==
  ASSUME RInv, WInv, UNCHANGED content, NEW g \in Callers, QueryValidator(g) \/ RefreshFails(g)
  PROVE  WInv'
<1>a. RestartTypeOK /\ TombInv /\ PairInv
  BY DEF RInv, WInv
<1>1. UNCHANGED <<config, onChain, valInfo, lastValInfo, watch, snap, inactive, shown, history,
                  content>>
  BY DEF QueryValidator, RefreshFails, chainVars, loopVars, alarmVars
<1>2. \A h \in Callers : next'[h] \in {next[h], onChain, NoInfo}
  <2>1. next \in [Callers -> Infos \cup {NoInfo}]
    BY <1>a DEF RestartTypeOK, WatchTypeOK
  <2>2. \/ next' = [next EXCEPT ![g] = onChain]
        \/ next' = [next EXCEPT ![g] = NoInfo]
    BY DEF QueryValidator, RefreshFails
  <2> QED
    BY <2>1, <2>2
<1>3. Buried => Buried'
  BY <1>a, <1>1, <1>2, Zenon DEF TombInv, Buried
<1>4. TombInv'
  BY <1>a, <1>1, <1>3, Zenon DEF TombInv, WordIsOut, Dead
<1>5. PairInv'
  BY <1>a, <1>1, Zenon DEF PairInv, Right, Shows
<1> QED
  BY <1>4, <1>5 DEF WInv

(* The publication: of an unbonded record about a tombstoned validator, of *)
(* a change the pair shows, or of no change.                               *)
LEMMA PublishKeepsWInv ==
  ASSUME RInv, WInv, UNCHANGED content, NEW g \in Callers, QuerySigningInfo(g)
  PROVE  WInv'
<1>a. RestartTypeOK /\ RefreshInv /\ PercentInv /\ TombInv /\ PairInv
  BY DEF RInv, WInv
<1> DEFINE now == [next[g] EXCEPT !.tombstoned = onChain.tombstoned,
                                  !.missed = onChain.missed]
<1>1. /\ next[g] # NoInfo
      /\ next' = [next EXCEPT ![g] = NoInfo]
      /\ valInfo' = now
      /\ UNCHANGED <<config, onChain, watch, snap, inactive, shown, content>>
  BY DEF QuerySigningInfo, PublishValidatorInfo, chainVars, loopVars, alarmVars
<1>2. /\ history'.saw = history.saw \cup {<<now.moniker, now.bonded>>}
      /\ history'.looked = FALSE
      /\ ~history'.gap =>
           /\ ~history.gap /\ history.looked
           /\ \/ valInfo = Placeholder
              \/ valInfo.bonded = now.bonded
              \/ Shows(lastValInfo', now)
  <2>1. history \in [saw : SUBSET (Monikers \X BOOLEAN), looked : BOOLEAN,
                     gap : BOOLEAN, restored : SUBSET Texts]
    BY <1>a DEF RestartTypeOK, WatchTypeOK
  <2>2. history' = [history EXCEPT
             !.saw = @ \cup {<<now.moniker, now.bonded>>},
             !.looked = FALSE,
             !.gap = \/ @
                     \/ ~history.looked
                     \/ /\ valInfo # Placeholder
                        /\ valInfo.bonded # now.bonded
                        /\ ~Shows(lastValInfo', now)]
    BY Zenon DEF QuerySigningInfo
  <2> HIDE DEF now
  <2> QED
    BY <2>1, <2>2, Zenon
<1>3. next[g] \in Infos
  BY <1>a, <1>1 DEF RestartTypeOK, WatchTypeOK
<1>4. /\ now \in Infos
      /\ now.bonded = next[g].bonded /\ now.tombstoned = onChain.tombstoned
  <2>1. onChain \in Infos
    BY <1>a DEF RestartTypeOK, WatchTypeOK
  <2> QED
    BY <1>3, <2>1, InfoFields, Zenon DEF Infos
<1> HIDE DEF now
<1>5. \A h \in Callers : next'[h] = NoInfo
  BY <1>a, <1>1 DEF RefreshInv, RestartTypeOK, WatchTypeOK
<1>6. TombInv'
  <2>1. Buried => Buried'
    BY <1>1, <1>4, <1>5, Zenon DEF Buried
  <2>2. Dead(valInfo)' => Buried'
    BY <1>1, <1>4, <1>5, Zenon DEF Dead, Buried
  <2> QED
    BY <1>a, <1>1, <2>1, <2>2, Zenon DEF TombInv, WordIsOut, Dead
<1>7. PairInv'
  <2>1. watch' = "inactive" => <<snap'.now.moniker, snap'.now.bonded>> \in history'.saw
    BY <1>a, <1>1, <1>2, Zenon DEF PairInv
  <2>2. valInfo' # Placeholder
    BY <1>1, <1>4, InfoFields
  <2>3. ASSUME "inactive" \in config', ~history'.gap, NEW m \in Monikers,
               \A p \in history'.saw : p[1] = m
        PROVE  \/ ~history'.looked /\ Shows(lastValInfo', valInfo')
               \/ watch' # "inactive" /\ Right(valInfo.bonded, m)'
               \/ /\ watch' = "inactive" /\ snap'.now.bonded = valInfo'.bonded
                  /\ Shows(snap'.last, snap'.now) \/ Right(valInfo.bonded, m)'
    <3>1. CASE Shows(lastValInfo', now)
      BY <1>1, <1>2, <3>1, Zenon
    <3>2. CASE valInfo = Placeholder
      <4>1. history'.saw = {<<now.moniker, now.bonded>>}
        BY <1>a, <1>2, <3>2 DEF PairInv
      <4>2. Right(valInfo.bonded, m)'
        <5>1. now.bonded \in BOOLEAN
          BY <1>4, InfoFields
        <5>2. /\ <<m, TRUE>> \in history'.saw => now.bonded
              /\ <<m, FALSE>> \in history'.saw => ~now.bonded
          BY ZenonT(40), <4>1, <5>1
        <5> QED
          BY <1>1, <5>2, Zenon DEF Right
      <4>3. watch # "inactive"
        BY <1>a, <3>2, InfoFields DEF RefreshInv
      <4> QED
        BY <1>1, <4>2, <4>3, Zenon
    <3>3. CASE valInfo # Placeholder /\ valInfo.bonded = now.bonded
      <4>1. <<valInfo.moniker, valInfo.bonded>> \in history.saw
        <5>1. valInfo \in Infos
          BY <1>a, <3>3 DEF RestartTypeOK, WatchTypeOK
        <5> QED
          BY <1>a, <5>1 DEF PercentInv
      <4>2. valInfo.moniker = m /\ now.moniker = m
        <5>1. /\ <<valInfo.moniker, valInfo.bonded>> \in history'.saw
              /\ <<now.moniker, now.bonded>> \in history'.saw
          BY <1>2, <4>1, Zenon
        <5>2. <<valInfo.moniker, valInfo.bonded>>[1] = m /\ <<now.moniker, now.bonded>>[1] = m
          BY <2>3, <5>1, Zenon
        <5> QED
          BY <5>2
      <4>3. history'.saw = history.saw
        BY <1>2, <3>3, <4>1, <4>2
      <4>4. Right(valInfo.bonded, m) <=> Right(valInfo.bonded, m)'
        BY <1>1, <3>3, <4>3, Zenon DEF Right
      <4> QED
        BY <1>a, <1>1, <1>2, <2>3, <3>3, <4>3, <4>4, Zenon DEF PairInv
    <3> QED
      BY <1>2, <2>3, <3>1, <3>2, <3>3
  <2> QED
    BY <2>1, <2>2, <2>3, Zenon DEF PairInv
<1> QED
  BY <1>6, <1>7 DEF WInv

-----------------------------------------------------------------------------
(* watch starts, or takes the pair of records in.                          *)
LEMMA WatchKeepsWInv ==
  ASSUME RInv, WInv, UNCHANGED content, WatchStarts \/ WatchWakes
  PROVE  WInv'
<1>a. RestartTypeOK /\ RefreshInv /\ PercentInv /\ TombInv /\ PairInv
  BY DEF RInv, WInv
<1>1. UNCHANGED <<config, onChain, next, valInfo, lastValInfo, inactive, shown, content>>
  BY DEF WatchStarts, WatchWakes, chainVars, refreshVars, alarmVars
<1>2. CASE WatchStarts
  <2>1. watch = "start" /\ watch' = "wait" /\ UNCHANGED history
    BY <1>2 DEF WatchStarts
  <2>2. TombInv'
    BY <1>a, <1>1, <2>1, Zenon DEF TombInv, WordIsOut, Dead, Buried
  <2>3. PairInv'
    BY ZenonT(40), <1>a, <1>1, <2>1 DEF PairInv, Right, Shows
  <2> QED
    BY <2>2, <2>3 DEF WInv
<1>3. CASE WatchWakes
  <2>1. /\ watch = "wait" /\ watch' = "inactive"
        /\ snap' = [now |-> valInfo, last |-> lastValInfo]
        /\ history' = [history EXCEPT !.looked = TRUE]
    BY <1>3 DEF WatchWakes
  <2>2. snap'.now = valInfo /\ snap'.last = lastValInfo
    BY <2>1
  <2>3. history'.saw = history.saw /\ history'.gap = history.gap
    BY <1>a, <2>1 DEF RestartTypeOK, WatchTypeOK
  <2>4. <<valInfo.moniker, valInfo.bonded>> \in history.saw
    BY <1>a, <2>1 DEF RefreshInv, PercentInv
  <2>5. TombInv'
    BY <1>a, <1>1, <2>2, Zenon DEF TombInv, WordIsOut, Dead, Buried
  <2>6. PairInv'
    <3>1. ASSUME NEW m \in Monikers
          PROVE  Right(valInfo.bonded, m) <=> Right(valInfo.bonded, m)'
      BY <1>1, <2>3, Zenon DEF Right
    <3>2. watch # "inactive"
      BY <2>1
    <3> QED
      BY <1>a, <1>1, <2>1, <2>2, <2>3, <2>4, <3>1, <3>2, Zenon DEF PairInv
  <2> QED
    BY <2>5, <2>6 DEF WInv
<1> QED
  BY <1>2, <1>3

(* The percentage check has texts of its own.                              *)
LEMMA PercentKeepsWInv ==
  ASSUME RInv, WInv, UNCHANGED content, CheckPercentage
  PROVE  WInv'
<1>a. RestartTypeOK /\ RefreshInv /\ TombInv /\ PairInv
  BY DEF RInv, WInv
<1>1. /\ UNCHANGED <<config, onChain, next, valInfo, lastValInfo, inactive, snap, content>>
      /\ watch = "percent" /\ watch' = "wait"
  BY DEF CheckPercentage, chainVars, refreshVars
<1>2. /\ \A m \in Monikers, w \in Words : <<m, w>> \in shown' <=> <<m, w>> \in shown
      /\ history'.saw = history.saw /\ history'.gap = history.gap
      /\ history'.looked = history.looked
  <2>1. CASE UNCHANGED <<alarmVars, history>>
    BY <2>1 DEF alarmVars
  <2>2. ASSUME NEW resolved \in BOOLEAN, Emit(<<valInfo.moniker, "percent">>, resolved)
        PROVE  /\ \A m \in Monikers, w \in Words : <<m, w>> \in shown' <=> <<m, w>> \in shown
               /\ history'.saw = history.saw /\ history'.gap = history.gap
               /\ history'.looked = history.looked
    <3> DEFINE t == <<valInfo.moniker, "percent">>
    <3>1. valInfo.moniker \in Monikers
      BY <1>a, <1>1, InfoFields DEF RefreshInv
    <3>2. t \in Texts /\ \A m \in Monikers, w \in Words : <<m, w>> \in Texts \ {t}
      BY ZenonT(40), <3>1, TextsOf
    <3> HIDE DEF t
    <3>3. Emit(t, resolved)
      BY <2>2 DEF t
    <3>4. \A u \in Texts \ {t} : u \in shown' <=> u \in shown
      BY <1>a, <3>2, <3>3, EmitEffect
    <3>5. history' = [history EXCEPT !.restored = @ \ {t}]
      BY ZenonT(40), <1>a, <3>2, <3>3, EmitEffect
    <3>6. /\ history'.saw = history.saw /\ history'.gap = history.gap
          /\ history'.looked = history.looked
      BY <1>a, <3>5 DEF RestartTypeOK, WatchTypeOK
    <3> QED
      BY <3>2, <3>4, <3>6, Zenon
  <2> QED
    BY <2>1, <2>2, Zenon DEF CheckPercentage
<1>3. WordIsOut' => WordIsOut
  BY ZenonT(40), <1>1, <1>2 DEF WordIsOut, Words
<1>4. TombInv'
  BY <1>a, <1>1, <1>3 DEF TombInv, Dead, Buried
<1>5. PairInv'
  <2>1. ASSUME NEW m \in Monikers
        PROVE  Right(valInfo.bonded, m) <=> Right(valInfo.bonded, m)'
    BY <1>1, <1>2, Zenon DEF Right
  <2>2. watch # "inactive" /\ watch' # "inactive"
    BY <1>1
  <2> QED
    BY <1>a, <1>1, <1>2, <2>1, <2>2, Zenon DEF PairInv
<1> QED
  BY <1>4, <1>5 DEF WInv

-----------------------------------------------------------------------------
(* The inactive check.  A resolution takes back the only word there was:   *)
(* a validator that is bonded was never called tombstoned.                 *)
LEMMA InactiveKeepsWInv ==
  ASSUME RInv, WInv, UNCHANGED content, CheckInactive
  PROVE  WInv'
<1>a. RestartTypeOK /\ RefreshInv /\ TombInv /\ PairInv
  BY DEF RInv, WInv
<1>1. /\ UNCHANGED <<config, onChain, next, valInfo, lastValInfo, content>>
      /\ watch = "inactive" /\ watch' = "percent"
  BY DEF CheckInactive, chainVars, refreshVars
<1>2. CASE "inactive" \in config /\ Shows(snap.last, snap.now)
  <2> DEFINE b == snap.now.bonded
             name == snap.now.moniker
             t == <<name, inactive'>>
  <2>1. /\ inactive' = IF ~b /\ snap.now.tombstoned THEN "tombstoned" ELSE inactive
        /\ Emit(t, b)
    BY <1>2 DEF CheckInactive
  <2>2. name \in Monikers /\ b \in BOOLEAN
    BY <1>a, <1>1, InfoFields DEF RefreshInv
  <2>3. inactive \in Words /\ inactive' \in Words
    BY <1>a, <2>1 DEF RestartTypeOK, WatchTypeOK, Words
  <2>4. t \in Texts
    BY ZenonT(40), <2>2, <2>3, TextsOf
  <2>5. /\ \A u \in Texts \ {t} : u \in shown' <=> u \in shown
        /\ t \in shown' <=> ~b
        /\ history' = [history EXCEPT !.restored = @ \ {t}]
    <3> HIDE DEF t, b, name
    <3> QED
      BY SMTT(30), <1>a, <2>1, <2>2, <2>4, EmitEffect
  <2>6. /\ history'.saw = history.saw /\ history'.gap = history.gap
        /\ history'.looked = history.looked
    <3> HIDE DEF t, b, name
    <3> QED
      BY <1>a, <2>5 DEF RestartTypeOK, WatchTypeOK
  <2>7. TombInv'
    <3>1. inactive' = "tombstoned" => Buried
      BY <1>a, <1>1, <2>1 DEF TombInv, WordIsOut, Dead
    <3>2. ASSUME NEW m \in Monikers, <<m, "tombstoned">> \in shown'
          PROVE  Buried
      <4>1. CASE <<m, "tombstoned">> = t
        BY <3>1, <4>1
      <4>2. CASE <<m, "tombstoned">> # t
        <5>1. <<m, "tombstoned">> \in shown
          BY ZenonT(40), <2>5, <3>2, <4>2, TextsOf DEF Words
        <5> QED
          BY <1>a, <5>1, Zenon DEF TombInv, WordIsOut
      <4> QED
        BY <4>1, <4>2
    <3>3. Buried => Buried'
      BY <1>1 DEF Buried
    <3>4. WordIsOut' => Buried'
      BY <3>1, <3>2, <3>3, Zenon DEF WordIsOut
    <3>5. watch' # "inactive"
      BY <1>1
    <3> QED
      BY <1>a, <1>1, <3>3, <3>4, <3>5, Zenon DEF TombInv, Dead
  <2>8. PairInv'
    <3>1. ASSUME NEW m \in Monikers, b = valInfo.bonded, \A p \in history.saw : p[1] = m
          PROVE  Right(valInfo.bonded, m)'
      <4>1. name = m
        <5>1. <<name, b>> \in history.saw
          BY <1>a, <1>1 DEF PairInv
        <5>2. <<name, b>>[1] = m
          BY <3>1, <5>1, Zenon
        <5> QED
          BY <5>2
      <4>2. CASE ~b
        <5>1. <<m, inactive'>> \in shown'
          BY <2>5, <4>1, <4>2
        <5> QED
          BY <1>1, <2>3, <3>1, <4>2, <5>1, Zenon DEF Right
      <4>3. CASE b
        <5>1. ~WordIsOut
          BY <1>a, <1>1, <4>3, Zenon DEF TombInv
        <5>2. inactive' = "jailed" /\ <<m, "tombstoned">> \notin shown
          BY <2>1, <2>3, <4>3, <5>1 DEF WordIsOut, Words
        <5>3. <<m, "jailed">> \notin shown'
          BY <2>5, <4>1, <4>3, <5>2
        <5>4. <<m, "tombstoned">> \notin shown'
          <6>1. <<m, "tombstoned">> \in Texts
            BY ZenonT(40), TextsOf DEF Words
          <6>2. <<m, "tombstoned">> # t
            BY <5>2
          <6> QED
            BY <2>5, <5>2, <6>1, <6>2, Zenon
        <5>5. \A w \in Words : <<m, w>> \notin shown'
          BY <5>3, <5>4, Zenon DEF Words
        <5> QED
          BY <1>1, <3>1, <4>3, <5>5, Zenon DEF Right
      <4> QED
        BY <2>2, <4>2, <4>3
    <3>2. watch' # "inactive"
      BY <1>1
    <3> QED
      BY <1>a, <1>1, <2>6, <3>1, <3>2, Zenon DEF PairInv
  <2> QED
    BY <2>7, <2>8 DEF WInv
<1>3. CASE ~("inactive" \in config /\ Shows(snap.last, snap.now))
  <2>1. UNCHANGED <<inactive, shown, history>>
    BY <1>3 DEF CheckInactive, alarmVars
  <2>2. watch' # "inactive"
    BY <1>1
  <2>3. TombInv'
    BY <1>a, <1>1, <2>1, <2>2, Zenon DEF TombInv, WordIsOut, Dead, Buried
  <2>4. PairInv'
    <3>1. ASSUME NEW m \in Monikers
          PROVE  Right(valInfo.bonded, m) <=> Right(valInfo.bonded, m)'
      BY <1>1, <2>1, Zenon DEF Right
    <3> QED
      BY <1>a, <1>1, <1>3, <2>1, <2>2, <3>1, Zenon DEF PairInv
  <2> QED
    BY <2>3, <2>4 DEF WInv
<1> QED
  BY <1>2, <1>3

-----------------------------------------------------------------------------
(* Every step keeps it.                                                    *)
LEMMA WatchStep == RInv /\ WInv /\ [RestartNext]_restartVars => WInv'
<1> SUFFICES ASSUME RInv, WInv, [RestartNext]_restartVars PROVE WInv'
  OBVIOUS
<1>1. CASE Start
  BY <1>1, StartKeepsWInv
<1>2. CASE Run
  <2>1. UNCHANGED content /\ ProcessStep
    BY <1>2 DEF Run
  <2>2. ASSUME NEW g \in Callers,
               QueryValidator(g) \/ QuerySigningInfo(g) \/ RefreshFails(g)
        PROVE  WInv'
    BY <2>1, <2>2, QueryKeepsWInv, PublishKeepsWInv
  <2>3. CASE WatchStarts \/ WatchWakes
    BY <2>1, <2>3, WatchKeepsWInv
  <2>4. CASE CheckInactive
    BY <2>1, <2>4, InactiveKeepsWInv
  <2>5. CASE CheckPercentage
    BY <2>1, <2>5, PercentKeepsWInv
  <2> QED
    BY <2>1, <2>2, <2>3, <2>4, <2>5 DEF ProcessStep
<1>3. CASE Meanwhile
  BY <1>3, MeanwhileKeepsWInv
<1>4. CASE Stop
  BY <1>4, StopKeepsWInv
<1>5. CASE Save \/ UNCHANGED restartVars
  <2>1. UNCHANGED <<watchVars, content>>
    BY <1>5, Zenon DEF Save, restartVars
  <2> QED
    BY <2>1, FrameKeepsWInv
<1>6. CASE Crash
  BY <1>6, CrashKeepsWInv
<1> QED
  BY <1>1, <1>2, <1>3, <1>4, <1>5, <1>6 DEF RestartNext

(* What watch and its documents know of the validator, in every reachable  *)
(* state.                                                                  *)
THEOREM WatchInvariant == RestartSpec => []WInv
<1>1. RInv /\ RInv' /\ WInv /\ [RestartNext]_restartVars => WInv'
  BY WatchStep
<1> QED
  BY RestartInvariant, InitWInv, <1>1, PTL DEF RestartSpec

(* The inactive alarm stands for a validator that was seen to leave and is *)
(* gone for one that was seen to return, whenever watch has caught up and  *)
(* no publication hid a change, over any number of restarts and changes.   *)
THEOREM InactiveAlarmsAreRight == RestartSpec => []InactiveAlarmIsRight
<1>1. RInv /\ WInv => InactiveAlarmIsRight
  <2> SUFFICES ASSUME RInv, WInv, "inactive" \in config, CaughtUp, OneName, ~history.gap
               PROVE  Right(valInfo.bonded, valInfo.moniker)
    BY Zenon DEF InactiveAlarmIsRight, InactiveShown, Right
  <2>a. RefreshInv /\ PairInv
    BY DEF RInv, WInv
  <2>1. watch = "wait" /\ history.looked
    BY DEF CaughtUp
  <2>2. valInfo.moniker \in Monikers /\ watch # "inactive"
    BY <2>a, <2>1, InfoFields DEF RefreshInv
  <2>3. \A p \in history.saw : p[1] = valInfo.moniker
    BY DEF OneName
  <2> QED
    BY <2>a, <2>1, <2>2, <2>3, Zenon DEF PairInv
<1> QED
  BY RestartInvariant, WatchInvariant, <1>1, PTL
=============================================================================
