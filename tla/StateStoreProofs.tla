-------------------------- MODULE StateStoreProofs --------------------------
(***************************************************************************)
(* Proofs about StateStore, for any number of checkpoints: the safety of   *)
(* the two files and the refinement of StableDocument.                     *)
(***************************************************************************)
EXTENDS StateStore, TLAPS

\* Zenon first: preparing a leaf for SMT takes longer than most leaves do.
USE ZenonT(30), SMTT(30)

(* atomicReplace is under way, or writeStateAtomic is about to call it.    *)
Replacing == pc \in {"write", "sync", "rename"}

(* The temporary file, and what it is made of.                             *)
TempInv ==
  /\ unsafe = {}
  /\ pc \in {"sync", "rename"} => temp \in [doc : Docs, synced : BOOLEAN] /\ temp.doc = source
  /\ pc = "rename" => temp.synced = TRUE
  /\ Replacing \/ pc = "dirsync" =>
       IF target = "bak" THEN source = seen["primary"] ELSE source = doc
  /\ pc = "dirsync" => seen[target] = source

(* The two files against each other and against what a power loss leaves.  *)
(* The backup is out of step only as a copy of the primary, the primary    *)
(* only ahead of everything acknowledged, and it is replaced only when its *)
(* copy is durable.                                                        *)
FilesInv ==
  /\ seen["bak"] # durable["bak"] => Valid(seen["bak"]) /\ seen["bak"] = seen["primary"]
  /\ seen["primary"] # durable["primary"] =>
       Valid(seen["primary"]) /\ seen["primary"] > acked
  /\ Replacing /\ target = "primary" =>
       /\ seen["bak"] = durable["bak"]
       /\ Valid(seen["primary"]) => durable["bak"] = seen["primary"]
  /\ pc # "down" => Loadable(seen)

(* The checkpoint under way is newer than anything a file holds.           *)
OrderInv ==
  /\ acked <= doc
  /\ \A f \in Files : /\ Valid(seen[f]) => seen[f] <= doc
                      /\ Valid(durable[f]) => durable[f] <= doc
  /\ pc = "read" \/ Replacing \/ (pc = "dirsync" /\ target = "bak") =>
       acked < doc /\ \A f \in Files : Valid(seen[f]) => seen[f] < doc

IInv == TypeOK /\ TempInv /\ FilesInv /\ OrderInv /\ AckedCheckpointSurvives

-----------------------------------------------------------------------------
(* Whatever the earlier history of the files, the invariant holds when the *)
(* first process starts.                                                   *)
LEMMA InitIInv == Init => IInv
<1> SUFFICES ASSUME Init PROVE IInv
  OBVIOUS
<1> USE StoreAssumption DEF Init, Valid, Docs
<1>1. TypeOK
  <2>1. seen \in Views
    BY SMTT(30) DEF Views, Contents, Files
  <2>2. acked \in 0..MaxDocs
    BY SMTT(30), <2>1 DEF Views, Contents, Files, LoadValue
  <2> QED
    BY SMTT(30), <2>1, <2>2 DEF TypeOK, Files
<1>2. TempInv
  BY DEF TempInv, Replacing
<1>3. FilesInv
  BY DEF FilesInv, Replacing
<1>4. OrderInv
  BY SMTT(30) DEF OrderInv, Replacing, LoadValue, Files
<1>5. AckedCheckpointSurvives
  BY SMTT(30), <1>1 DEF AckedCheckpointSurvives, TypeOK
<1> QED
  BY <1>1, <1>2, <1>3, <1>4, <1>5 DEF IInv

(* Every step keeps the types.                                             *)
LEMMA TypeStep == IInv /\ [Next]_vars => TypeOK'
<1> SUFFICES ASSUME IInv, [Next]_vars PROVE TypeOK'
  OBVIOUS
<1> USE StoreAssumption DEF vars, fsVars, TypeOK, IInv
<1>1. CASE LoadState
  BY <1>1 DEF LoadState, LoadStateWithout
<1>2. CASE BeginCheckpoint
  BY SMTT(30), <1>2 DEF BeginCheckpoint, Docs
<1>3. CASE ReadCurrent
  BY <1>3 DEF ReadCurrent, Valid, Files
<1>4. CASE WriteTemp
  BY <1>4 DEF WriteTemp
<1>5. CASE SyncTemp
  BY ZenonT(40), <1>5 DEF SyncTemp, TempInv
<1>6. CASE RenameTemp
  BY <1>6 DEF RenameTemp, TempInv, Views, Contents
<1>7. CASE SyncDirectory
  BY SMTT(30), <1>7 DEF SyncDirectory, Docs, Files
<1>8. CASE StepFails
  BY <1>8 DEF StepFails
<1>9. CASE Killed
  BY <1>9 DEF Killed
<1>10. CASE PowerLoss
  BY <1>10 DEF PowerLoss
<1>11. CASE UNCHANGED vars
  BY <1>11
<1> QED
  BY <1>1, <1>2, <1>3, <1>4, <1>5, <1>6, <1>7, <1>8, <1>9, <1>10, <1>11 DEF Next

(* Every step keeps the temporary file what atomicReplace takes it for.    *)
LEMMA TempStep == IInv /\ [Next]_vars => TempInv'
<1> SUFFICES ASSUME IInv, [Next]_vars PROVE TempInv'
  OBVIOUS
<1>a. TypeOK /\ TempInv
  BY DEF IInv
<1> USE DEF TempInv, Replacing, fsVars
<1>1. CASE LoadState \/ BeginCheckpoint \/ StepFails \/ Killed \/ PowerLoss
  BY <1>1, <1>a DEF LoadState, LoadStateWithout, BeginCheckpoint, StepFails, Killed, PowerLoss
<1>2. CASE ReadCurrent
  BY <1>2, <1>a DEF ReadCurrent
<1>3. CASE WriteTemp
  BY <1>3, <1>a DEF WriteTemp, TypeOK
<1>4. CASE SyncTemp
  BY ZenonT(40), <1>4, <1>a DEF SyncTemp
<1>5. CASE RenameTemp
  BY <1>5, <1>a DEF RenameTemp, TypeOK, Views, Files
<1>6. CASE SyncDirectory
  BY <1>6, <1>a DEF SyncDirectory
<1>7. CASE UNCHANGED vars
  BY <1>7, <1>a DEF vars
<1> QED
  BY ZenonT(40), <1>1, <1>2, <1>3, <1>4, <1>5, <1>6, <1>7 DEF Next

(* A rename puts the document being written in the target's place.         *)
LEMMA RenameEffect ==
  ASSUME IInv, RenameTemp
  PROVE  /\ seen'[target] = source /\ Valid(source)
         /\ \A f \in Files \ {target} : seen'[f] = seen[f]
BY DEF IInv, TypeOK, TempInv, RenameTemp, Valid, Views

(* A power loss keeps or undoes each rename that was not yet durable.      *)
LEMMA PowerLossEffect ==
  ASSUME IInv, PowerLoss
  PROVE  /\ durable' = seen'
         /\ \A f \in Files : seen'[f] \in {durable[f], seen[f]}
BY DEF IInv, TempInv, PowerLoss

(* What loadState finds in a view depends on its two files alone.          *)
LEMMA LoadValueType ==
  ASSUME NEW v \in Views
  PROVE  LoadValue(v) \in Nat /\ (LoadValue(v) # 0 <=> Valid(v["primary"]) \/ Valid(v["bak"]))
BY SMTT(30), StoreAssumption DEF Views, LoadValue, Valid, Docs, Files

(* loadState accepts files it can use, whichever reads fail.               *)
LEMMA StartsOnlyWithUsableFiles ==
  ASSUME IInv, LoadState
  PROVE  Loadable(seen)
<1>1. PICK unreadable \in SUBSET Files :
        Loadable([f \in Files |-> IF f \in unreadable THEN Garbage ELSE seen[f]])
  BY DEF LoadState, LoadStateWithout, ViewWithout
<1> DEFINE view == [f \in Files |-> IF f \in unreadable THEN Garbage ELSE seen[f]]
<1>2. seen \in Views /\ view \in Views
  BY DEF IInv, TypeOK, Views, Contents
<1>3. ASSUME NEW f \in Files, Valid(view[f]) PROVE Valid(seen[f])
  BY SMTT(30), <1>3, StoreAssumption DEF Valid, Docs
<1>4. CASE LoadValue(view) # 0
  <2>1. Valid(view["primary"]) \/ Valid(view["bak"])
    BY <1>2, <1>4, LoadValueType
  <2>2. Valid(seen["primary"]) \/ Valid(seen["bak"])
    BY <2>1, <1>3 DEF Files
  <2> QED
    BY <2>2, <1>2, LoadValueType DEF Loadable
<1>5. CASE view = [f \in Files |-> Missing]
  <2>1. \A f \in Files : seen[f] = Missing
    BY <1>5, StoreAssumption
  <2> QED
    BY <2>1, <1>2 DEF Loadable, Views
<1> QED
  BY <1>1, <1>4, <1>5 DEF Loadable

(* Every step keeps the files in step with each other.                     *)
LEMMA FilesStep == IInv /\ [Next]_vars => FilesInv'
<1> SUFFICES ASSUME IInv, [Next]_vars PROVE FilesInv'
  OBVIOUS
<1>a. TypeOK /\ TempInv /\ FilesInv /\ OrderInv
  BY DEF IInv
<1> USE DEF Replacing, fsVars
<1>1. CASE LoadState
  BY <1>1, <1>a, StartsOnlyWithUsableFiles DEF LoadState, LoadStateWithout, FilesInv
<1>2. CASE BeginCheckpoint
  BY <1>2, <1>a DEF BeginCheckpoint, FilesInv
<1>3. CASE ReadCurrent
  BY <1>3, <1>a DEF ReadCurrent, FilesInv
<1>4. CASE WriteTemp \/ SyncTemp
  BY <1>4, <1>a DEF WriteTemp, SyncTemp, FilesInv
<1>5. CASE RenameTemp
  <2>1. seen' \in Views /\ UNCHANGED <<durable, acked, target, source>> /\ pc' = "dirsync"
    BY <1>5, TypeStep DEF RenameTemp, TypeOK, Next
  <2>2. Valid(seen'[target]) /\ seen'[target] = source
    BY <1>5, RenameEffect
  <2>3. Loadable(seen)'
    BY <2>1, <2>2, <1>a, LoadValueType DEF Loadable, TypeOK, Files
  <2>4. CASE target = "bak"
    <3>1. seen'["primary"] = seen["primary"] /\ seen'["bak"] = seen["primary"]
      BY <1>5, <2>4, <2>2, RenameEffect, <1>a DEF Files, TempInv, RenameTemp
    <3> QED
      BY <3>1, <2>1, <2>2, <2>3, <2>4, <1>a DEF FilesInv
  <2>5. CASE target = "primary"
    <3>1. seen'["primary"] = doc /\ seen'["bak"] = seen["bak"]
      BY <1>5, <2>5, <2>2, RenameEffect, <1>a DEF Files, TempInv, RenameTemp
    <3>2. doc > acked
      BY <1>5, <1>a, StoreAssumption DEF OrderInv, RenameTemp, TypeOK, Docs
    <3>3. seen["bak"] = durable["bak"]
      BY <1>5, <2>5, <1>a DEF FilesInv, RenameTemp
    <3> QED
      BY <3>1, <3>2, <3>3, <2>1, <2>2, <2>3, <2>5 DEF FilesInv
  <2> QED
    BY <2>4, <2>5, <1>a DEF TypeOK, Files
<1>6. CASE SyncDirectory
  BY <1>6, <1>a DEF SyncDirectory, FilesInv, TempInv
<1>7. CASE StepFails \/ Killed
  BY <1>7, <1>a DEF StepFails, Killed, FilesInv
<1>8. CASE PowerLoss
  BY <1>8, PowerLossEffect DEF PowerLoss, FilesInv
<1>9. CASE UNCHANGED vars
  BY <1>9, <1>a DEF vars, FilesInv
<1> QED
  BY <1>1, <1>2, <1>3, <1>4, <1>5, <1>6, <1>7, <1>8, <1>9 DEF Next

(* Every step keeps the checkpoint under way the newest document.          *)
LEMMA OrderStep == IInv /\ [Next]_vars => OrderInv'
<1> SUFFICES ASSUME IInv, [Next]_vars PROVE OrderInv'
  OBVIOUS
<1>a. TypeOK /\ TempInv /\ OrderInv
  BY DEF IInv
<1> USE StoreAssumption DEF Replacing, fsVars, TypeOK, Docs, Files, Valid, Views, Contents
<1>1. CASE LoadState \/ StepFails \/ Killed
  BY <1>1, <1>a DEF LoadState, LoadStateWithout, StepFails, Killed, OrderInv
<1>2. CASE BeginCheckpoint
  BY SMTT(30), <1>2, <1>a DEF BeginCheckpoint, OrderInv
<1>3. CASE ReadCurrent \/ WriteTemp \/ SyncTemp
  BY <1>3, <1>a DEF ReadCurrent, WriteTemp, SyncTemp, OrderInv
<1>4. CASE RenameTemp
  <2>1. seen'[target] = source /\ \A f \in Files \ {target} : seen'[f] = seen[f]
    BY <1>4, RenameEffect
  <2>2. target = "bak" => source = seen["primary"]
    BY <1>4, <1>a DEF RenameTemp, TempInv
  <2>3. target = "primary" => source = doc
    BY <1>4, <1>a DEF RenameTemp, TempInv
  <2> QED
    BY SMTT(30), <1>4, <1>a, <2>1, <2>2, <2>3 DEF RenameTemp, OrderInv
<1>5. CASE SyncDirectory
  BY SMTT(30), <1>5, <1>a DEF SyncDirectory, OrderInv
<1>6. CASE PowerLoss
  BY <1>6, <1>a, PowerLossEffect DEF PowerLoss, OrderInv
<1>7. CASE UNCHANGED vars
  BY <1>7, <1>a DEF vars, OrderInv
<1> QED
  BY <1>1, <1>2, <1>3, <1>4, <1>5, <1>6, <1>7 DEF Next

(* A power loss leaves a reader the document it saw or the durable one.    *)
LEMMA PowerLossLeavesOne ==
  ASSUME IInv, PowerLoss
  PROVE  LoadValue(seen)' \in {LoadValue(seen), LoadValue(durable)}
<1>1. \A f \in Files : seen'[f] \in {durable[f], seen[f]}
  BY PowerLossEffect
<1>2. FilesInv
  BY DEF IInv
<1> QED
  BY <1>1, <1>2 DEF FilesInv, LoadValue, Files

(* What a rename makes visible: nothing new with the backup, the document  *)
(* being written with the primary.                                         *)
LEMMA RenameShows ==
  ASSUME IInv, RenameTemp
  PROVE  LoadValue(seen)' = IF target = "bak" THEN LoadValue(seen) ELSE doc
<1>1. /\ seen'[target] = source /\ Valid(source)
      /\ \A f \in Files \ {target} : seen'[f] = seen[f]
  BY RenameEffect
<1>2. IF target = "bak" THEN source = seen["primary"] ELSE source = doc
  BY DEF IInv, TempInv, RenameTemp, Replacing
<1>3. target \in Files
  BY DEF IInv, TypeOK
<1> QED
  BY <1>1, <1>2, <1>3 DEF LoadValue, Files

(* Every step keeps what was acknowledged.                                 *)
LEMMA AckedStep == IInv /\ [Next]_vars => AckedCheckpointSurvives'
<1> SUFFICES ASSUME IInv, [Next]_vars PROVE AckedCheckpointSurvives'
  OBVIOUS
<1>a. TypeOK /\ TempInv /\ OrderInv /\ AckedCheckpointSurvives
  BY DEF IInv
<1> USE DEF fsVars, AckedCheckpointSurvives
<1>1. CASE LoadState \/ BeginCheckpoint \/ ReadCurrent \/ WriteTemp \/ SyncTemp \/ Killed
  BY <1>1, <1>a DEF LoadState, LoadStateWithout, BeginCheckpoint, ReadCurrent, WriteTemp, SyncTemp,
                    Killed, LoadValue
<1>2. CASE RenameTemp
  <2>1. LoadValue(seen)' >= acked
    BY <1>2, <1>a, RenameShows DEF OrderInv, TypeOK, Docs
  <2>2. UNCHANGED <<durable, acked>>
    BY <1>2 DEF RenameTemp
  <2> QED
    BY <2>1, <2>2, <1>a DEF LoadValue
<1>3. CASE SyncDirectory
  <2>1. durable' = seen /\ seen' = seen
    BY <1>3 DEF SyncDirectory
  <2>2. CASE target = "bak"
    BY <1>3, <2>1, <2>2, <1>a DEF SyncDirectory, LoadValue
  <2>3. CASE target = "primary"
    <3>1. seen["primary"] = doc /\ acked' = doc
      BY <1>3, <2>3, <1>a DEF SyncDirectory, TempInv
    <3>2. LoadValue(seen) = doc /\ doc \in Nat
      BY SMTT(30), <3>1, <1>a DEF LoadValue, Valid, TypeOK, Docs
    <3> QED
      BY <3>1, <3>2, <2>1 DEF LoadValue
  <2> QED
    BY <2>2, <2>3, <1>a DEF TypeOK, Files
<1>4. CASE StepFails
  BY <1>4, <1>a DEF StepFails, LoadValue
<1>5. CASE PowerLoss
  <2>1. LoadValue(seen)' >= acked
    BY <1>5, <1>a, PowerLossLeavesOne
  <2>2. durable' = seen' /\ acked' = acked
    BY <1>5 DEF PowerLoss
  <2> QED
    BY <2>1, <2>2 DEF LoadValue
<1>6. CASE UNCHANGED vars
  BY <1>6, <1>a DEF vars, LoadValue
<1> QED
  BY <1>1, <1>2, <1>3, <1>4, <1>5, <1>6 DEF Next

-----------------------------------------------------------------------------
(* The inductive invariant holds in every state of every behaviour.        *)
THEOREM InductiveInvariant == Spec => []IInv
<1>1. IInv /\ [Next]_vars => IInv'
  BY TypeStep, TempStep, FilesStep, OrderStep, AckedStep DEF IInv
<1> QED
  BY InitIInv, <1>1, PTL DEF Spec

(* Type correctness of the store.                                          *)
THEOREM TypeCorrect == Spec => []TypeOK
<1>1. IInv => TypeOK
  BY DEF IInv
<1> QED
  BY InductiveInvariant, <1>1, PTL

(* A checkpoint writeStateAtomic reported as saved is never lost, whatever *)
(* fails, is killed or loses power afterwards.                             *)
THEOREM NeverLosesAckedCheckpoint == Spec => []AckedCheckpointSurvives
<1>1. IInv => AckedCheckpointSurvives
  BY DEF IInv
<1> QED
  BY InductiveInvariant, <1>1, PTL

(* Only a rename and a power loss change what a process reads.             *)
LEMMA SeenChanges ==
  ASSUME [Next]_vars, seen' # seen
  PROVE  RenameTemp \/ PowerLoss
BY DEF Next, LoadState, LoadStateWithout, BeginCheckpoint, ReadCurrent, WriteTemp, SyncTemp,
       SyncDirectory, StepFails, Killed, vars, fsVars

(* Only a directory sync, a failure after one and a power loss change what *)
(* is durable.                                                             *)
LEMMA DurableChanges ==
  ASSUME [Next]_vars, durable' # durable
  PROVE  (durable' = seen /\ seen' = seen) \/ PowerLoss
BY DEF Next, LoadState, LoadStateWithout, BeginCheckpoint, ReadCurrent, WriteTemp, SyncTemp, RenameTemp,
       SyncDirectory, StepFails, Killed, vars, fsVars

(* A durable backup that decodes is replaced only by one that decodes.     *)
THEOREM BackupStaysGood == Spec => GoodBackupStaysGood
<1>1. IInv /\ [Next]_vars =>
        [Valid(durable["bak"]) => Valid(seen'["bak"]) /\ Valid(durable'["bak"])]_vars
  <2> SUFFICES ASSUME IInv, [Next]_vars, Valid(durable["bak"])
               PROVE  Valid(seen'["bak"]) /\ Valid(durable'["bak"])
    OBVIOUS
  <2>1. Valid(seen["bak"])
    BY DEF IInv, FilesInv
  <2>2. Valid(seen'["bak"])
    <3>1. CASE RenameTemp
      BY <3>1, <2>1, RenameEffect DEF Files, IInv, TypeOK
    <3>2. CASE PowerLoss
      BY <3>2, <2>1, PowerLossEffect DEF Files
    <3> QED
      BY <3>1, <3>2, <2>1, SeenChanges
  <2>3. Valid(durable'["bak"])
    BY <2>1, <2>2, DurableChanges, PowerLossEffect
  <2> QED
    BY <2>2, <2>3
<1> QED
  BY InductiveInvariant, <1>1, PTL DEF Spec, GoodBackupStaysGood

(* A primary that decodes is replaced only when its copy is durable in the *)
(* backup, or by a power loss that undoes an unacknowledged checkpoint.    *)
THEOREM PrimaryIsBackedUp == Spec => ReplacedPrimaryIsBackedUp
<1>1. IInv /\ [Next]_vars =>
        [Valid(seen["primary"]) /\ seen'["primary"] # seen["primary"] =>
           \/ durable["bak"] = seen["primary"]
           \/ seen'["primary"] = durable["primary"] /\ acked # seen["primary"]]_vars
  <2> SUFFICES ASSUME IInv, [Next]_vars, Valid(seen["primary"]),
                      seen'["primary"] # seen["primary"]
               PROVE  \/ durable["bak"] = seen["primary"]
                      \/ seen'["primary"] = durable["primary"] /\ acked # seen["primary"]
    OBVIOUS
  <2>a. TypeOK /\ FilesInv
    BY DEF IInv
  <2>1. CASE RenameTemp
    <3>1. target = "primary"
      BY <2>1, <2>a, RenameEffect DEF TypeOK, Files
    <3> QED
      BY <2>1, <3>1, <2>a DEF RenameTemp, FilesInv, Replacing
  <2>2. CASE PowerLoss
    <3>1. seen'["primary"] = durable["primary"]
      BY <2>2, PowerLossEffect DEF Files
    <3>2. seen["primary"] > acked
      BY <3>1, <2>a DEF FilesInv
    <3> QED
      BY <3>1, <3>2, <2>a DEF TypeOK, Valid, Docs
  <2> QED
    BY <2>1, <2>2, SeenChanges
<1> QED
  BY InductiveInvariant, <1>1, PTL DEF Spec, ReplacedPrimaryIsBackedUp

(* Files loadState refuses are never touched.                              *)
THEOREM UnusableFilesStay == Spec => UnusableFilesUntouched
<1>1. IInv /\ [Next]_vars => [~Loadable(seen) => UNCHANGED seen]_vars
  <2> SUFFICES ASSUME IInv, [Next]_vars, ~Loadable(seen), seen' # seen
               PROVE  FALSE
    OBVIOUS
  <2>a. TypeOK /\ FilesInv
    BY DEF IInv
  <2>1. PowerLoss
    <3>1. pc = "down"
      BY <2>a DEF FilesInv
    <3> QED
      BY <3>1, SeenChanges DEF RenameTemp
  <2>2. seen["primary"] = durable["primary"] /\ seen["bak"] = durable["bak"]
    BY <2>a, LoadValueType DEF FilesInv, Loadable, TypeOK
  <2>3. \A f \in Files : seen'[f] = seen[f]
    BY <2>1, <2>2, PowerLossEffect DEF Files
  <2>4. seen \in Views /\ seen' \in Views
    BY <2>a, TypeStep DEF TypeOK
  <2> QED
    BY <2>3, <2>4 DEF Views
<1> QED
  BY InductiveInvariant, <1>1, PTL DEF Spec, UnusableFilesUntouched

(* The two files implement one document that is replaced all at once: each *)
(* step of the store installs, hardens or loses a document, or is          *)
(* invisible to its reader.                                                *)
THEOREM StoreImplementsDocument == Spec => ImplementsStableDocument
<1>1. Init => Document!Init
  BY InitIInv, LoadValueType DEF Init, IInv, TypeOK, Document!Init
<1>2. IInv /\ [Next]_vars => [Document!Next]_<<LoadValue(seen), LoadValue(durable)>>
  <2> SUFFICES ASSUME IInv, [Next]_vars
               PROVE  \/ Document!Next
                      \/ UNCHANGED <<LoadValue(seen), LoadValue(durable)>>
    OBVIOUS
  <2>a. TypeOK /\ FilesInv /\ OrderInv
    BY DEF IInv
  <2>1. CASE RenameTemp
    <3>1. LoadValue(durable)' = LoadValue(durable)
      BY <2>1 DEF RenameTemp, LoadValue
    <3>2. CASE target = "bak"
      BY <2>1, <3>1, <3>2, RenameShows
    <3>3. CASE target # "bak"
      <4>1. LoadValue(seen)' = doc
        BY <2>1, <3>3, RenameShows
      <4>2. doc \in Nat /\ doc > LoadValue(seen)
        BY SMTT(30), <2>1, <2>a, StoreAssumption
        DEF RenameTemp, OrderInv, Replacing, LoadValue, TypeOK, Docs, Files, Views, Valid
      <4> QED
        BY <3>1, <4>1, <4>2 DEF Document!Next, Document!Install
    <3> QED
      BY <3>2, <3>3
  <2>2. CASE PowerLoss
    <3>1. LoadValue(seen)' \in {LoadValue(seen), LoadValue(durable)}
      BY <2>2, PowerLossLeavesOne
    <3>2. LoadValue(durable)' = LoadValue(seen)'
      BY <2>2 DEF PowerLoss, LoadValue
    <3> QED
      BY <3>1, <3>2 DEF Document!Next, Document!PowerLoss
  <2>3. CASE durable' = seen /\ seen' = seen
    BY <2>3 DEF LoadValue, Document!Next, Document!Harden
  <2>4. CASE UNCHANGED <<seen, durable>>
    BY <2>4 DEF LoadValue
  <2> QED
    BY <2>1, <2>2, <2>3, <2>4, SeenChanges, DurableChanges
<1> QED
  BY InductiveInvariant, <1>1, <1>2, PTL
  DEF Spec, ImplementsStableDocument, Document!Spec
=============================================================================
