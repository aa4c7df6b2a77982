----------------------------- MODULE StateStore -----------------------------
(***************************************************************************)
(* The durable state file (seer/state.go): a primary and a backup in one   *)
(* directory, loaded at startup and replaced by writeStateAtomic at the    *)
(* end of a clean shutdown.                                                *)
(*                                                                         *)
(* A document is its checkpoint number; what else a file may hold is told  *)
(* apart only by what decodeState and os.ReadFile make of it.  The file    *)
(* system keeps what processes see apart from what a power loss leaves: a  *)
(* rename survives for certain only after a directory sync, and a file's   *)
(* bytes only after a file sync.                                           *)
(***************************************************************************)
EXTENDS Naturals

CONSTANTS
  MaxDocs,  \* bound: checkpoints attempted
  Missing,  \* no such file
  Garbage,  \* empty, malformed, or otherwise refused by decodeState
  Future,   \* well formed, of an unsupported version
  NoTemp    \* no temporary file

Docs == 1..MaxDocs
Contents == Docs \cup {Missing, Garbage, Future}
Files == {"primary", "bak"}
Views == [Files -> Contents]

ASSUME StoreAssumption ==
  /\ MaxDocs \in Nat \ {0, 1}
  /\ Missing \notin Nat /\ Garbage \notin Nat /\ Future \notin Nat
  /\ Garbage # Missing /\ Future # Missing
  /\ NoTemp \notin [doc : Docs, synced : BOOLEAN]

VARIABLES
  seen,     \* seen[f]: what a process reads from f
  durable,  \* durable[f]: what f holds if unsynced renames are lost
  unsafe,   \* files renamed into place before their bytes were synced
  temp,     \* the temporary file of the replacement under way
  pc,       \* the process: down, up, or a step of writeStateAtomic
  target,   \* the file atomicReplace is replacing
  source,   \* the document it writes
  doc,      \* the number of the last checkpoint begun
  acked     \* the last document writeStateAtomic reported as saved

fsVars == <<seen, durable, unsafe, temp>>
vars == <<fsVars, pc, target, source, doc, acked>>

\* decodeState accepts the content.
Valid(x) == x \in Docs

\* loadState's choice between the two files; 0 stands for no state.
LoadValue(view) ==
  IF Valid(view["primary"]) THEN view["primary"]
  ELSE IF Valid(view["bak"]) THEN view["bak"]
  ELSE 0

\* loadState returns a state, if only the empty one, rather than an error.
Loadable(view) ==
  \/ LoadValue(view) # 0
  \/ view = [f \in Files |-> Missing]

TypeOK ==
  /\ seen \in Views
  /\ durable \in Views
  /\ unsafe \subseteq Files
  /\ temp \in [doc : Docs, synced : BOOLEAN] \cup {NoTemp}
  /\ pc \in {"down", "up", "read", "write", "sync", "rename", "dirsync"}
  /\ target \in Files
  /\ source \in Docs
  /\ doc \in Docs
  /\ acked \in 0..MaxDocs

-----------------------------------------------------------------------------
(* Any pair of files an earlier version, an operator or a damaged disk may *)
(* have left; document 2 is newer than document 1.                         *)
Init ==
  /\ seen \in [Files -> {1, 2, Missing, Garbage, Future}]
  /\ Valid(seen["primary"]) /\ Valid(seen["bak"]) => seen["bak"] <= seen["primary"]
  /\ durable = seen
  /\ unsafe = {}
  /\ temp = NoTemp
  /\ pc = "down" /\ target = "primary" /\ source = 1
  /\ doc = 2
  /\ acked = LoadValue(seen)

\* What loadState gets from the files if it fails to read some of them.
ViewWithout(unreadable) == [f \in Files |-> IF f \in unreadable THEN Garbage ELSE seen[f]]

\* Mutant: an error of loadState is ignored.
LoadStateAnyway(unreadable) ==
  /\ pc = "down"
  /\ pc' = "up"
  /\ UNCHANGED <<fsVars, target, source, doc, acked>>

\* loadConfig.  With an error from loadState the process does not start.
LoadStateWithout(unreadable) ==
  /\ pc = "down"
  /\ Loadable(ViewWithout(unreadable))
  /\ pc' = "up"
  /\ UNCHANGED <<fsVars, target, source, doc, acked>>

\* A read may fail for a file that is fine.
LoadState == \E unreadable \in SUBSET Files : LoadStateWithout(unreadable)

\* shutdown calls writeStateAtomic with a fresh snapshot.
BeginCheckpoint ==
  /\ pc = "up"
  /\ doc < MaxDocs
  /\ doc' = doc + 1
  /\ pc' = "read"
  /\ UNCHANGED <<fsVars, target, source, acked>>

\* Mutants: whatever the primary holds is backed up; nothing is backed up.
BackUpAnything ==
  /\ pc = "read"
  /\ pc' = "write"
  /\ target' = "bak" /\ source' = seen["primary"]
  /\ UNCHANGED <<fsVars, doc, acked>>

BackUpNothing ==
  /\ pc = "read"
  /\ pc' = "write"
  /\ target' = "primary" /\ source' = doc
  /\ UNCHANGED <<fsVars, doc, acked>>

\* The current primary decides whether a backup is made first.
ReadCurrent ==
  /\ pc = "read"
  /\ pc' = "write"
  /\ IF Valid(seen["primary"])
     THEN target' = "bak" /\ source' = seen["primary"]
     ELSE target' = "primary" /\ source' = doc
  /\ UNCHANGED <<fsVars, doc, acked>>

-----------------------------------------------------------------------------
(* atomicReplace, for the backup and then for the primary.                 *)

\* Mutant: the target itself is truncated and written.
WriteInPlace ==
  /\ pc = "write"
  /\ seen' = [seen EXCEPT ![target] = Garbage]
  /\ temp' = [doc |-> source, synced |-> FALSE]
  /\ pc' = "sync"
  /\ UNCHANGED <<durable, unsafe, target, source, doc, acked>>

\* createTemp, chmod, write, flush.
WriteTemp ==
  /\ pc = "write"
  /\ temp' = [doc |-> source, synced |-> FALSE]
  /\ pc' = "sync"
  /\ UNCHANGED <<seen, durable, unsafe, target, source, doc, acked>>

\* Mutant: the temporary file is closed without a sync.
CloseWithoutSync ==
  /\ pc = "sync"
  /\ pc' = "rename"
  /\ UNCHANGED <<fsVars, target, source, doc, acked>>

\* Sync and Close.
SyncTemp ==
  /\ pc = "sync"
  /\ temp' = [temp EXCEPT !.synced = TRUE]
  /\ pc' = "rename"
  /\ UNCHANGED <<seen, durable, unsafe, target, source, doc, acked>>

RenameTemp ==
  /\ pc = "rename"
  /\ seen' = [seen EXCEPT ![target] = temp.doc]
  /\ unsafe' = IF temp.synced THEN unsafe \ {target} ELSE unsafe \cup {target}
  /\ temp' = NoTemp
  /\ pc' = "dirsync"
  /\ UNCHANGED <<durable, target, source, doc, acked>>

\* The deferred removal of the temporary file finds it gone.
SyncDirectory ==
  /\ pc = "dirsync"
  /\ durable' = seen
  /\ IF target = "bak"
     THEN target' = "primary" /\ source' = doc /\ pc' = "write" /\ UNCHANGED acked
     ELSE pc' = "down" /\ acked' = doc /\ UNCHANGED <<target, source>>
  /\ UNCHANGED <<seen, unsafe, temp, doc>>

\* Any step returns an error: reading the current primary, the steps of
\* atomicReplace, or its deferred removal, in which case the directory is
\* already synced.  The process exits.
StepFails ==
  /\ pc \in {"read", "write", "sync", "rename", "dirsync"}
  /\ durable' = durable \/ (pc = "dirsync" /\ durable' = seen)
  /\ temp' = NoTemp
  /\ pc' = "down"
  /\ UNCHANGED <<seen, unsafe, target, source, doc, acked>>

-----------------------------------------------------------------------------
(* The process is killed; a temporary file left behind is never read.      *)
Killed ==
  /\ pc # "down"
  /\ pc' = "down"
  /\ temp' = NoTemp
  /\ UNCHANGED <<seen, durable, unsafe, target, source, doc, acked>>

(* Each unsynced rename is kept or lost, unsynced bytes become anything.   *)
(* External: the file system.                                              *)
PowerLoss ==
  /\ pc' = "down"
  /\ seen' \in {v \in Views : \A f \in Files :
                  v[f] \in {durable[f], seen[f]} \cup
                           (IF f \in unsafe THEN {Garbage} ELSE {})}
  /\ durable' = seen'
  /\ unsafe' = {}
  /\ temp' = NoTemp
  /\ UNCHANGED <<target, source, doc, acked>>

Next ==
  \/ LoadState
  \/ BeginCheckpoint
  \/ ReadCurrent
  \/ WriteTemp
  \/ SyncTemp
  \/ RenameTemp
  \/ SyncDirectory
  \/ StepFails
  \/ Killed
  \/ PowerLoss

Spec == Init /\ [][Next]_vars

-----------------------------------------------------------------------------
(* A document writeStateAtomic reported as saved is never lost: whatever   *)
(* fails, is killed or loses power afterwards, loadState finds it or a     *)
(* newer one.                                                              *)
AckedCheckpointSurvives == LoadValue(seen) >= acked /\ LoadValue(durable) >= acked

(* "checkpoint repairs primary without overwriting the known-good backup": *)
(* once a backup that decodes is durable, only another one that decodes    *)
(* takes its place, power loss or not.                                     *)
GoodBackupStaysGood ==
  [][Valid(durable["bak"]) => Valid(seen'["bak"]) /\ Valid(durable'["bak"])]_vars

(* "the exact previous primary is first installed atomically as PATH.bak;  *)
(* only then is the new primary installed": a primary that decodes is only *)
(* replaced when its copy is durable in the backup, or by a power loss     *)
(* that undoes a rename nobody was told of.                                *)
ReplacedPrimaryIsBackedUp ==
  [][Valid(seen["primary"]) /\ seen'["primary"] # seen["primary"] =>
       \/ durable["bak"] = seen["primary"]
       \/ seen'["primary"] = durable["primary"] /\ acked # seen["primary"]]_vars

(* "Stop with an error; do not silently discard durable state": files      *)
(* loadState cannot use are left for the operator to look at.              *)
UnusableFilesUntouched == [][~Loadable(seen) => UNCHANGED seen]_vars

(* The two files implement one document that is replaced all at once.      *)
Document == INSTANCE StableDocument
              WITH visible <- LoadValue(seen), stable <- LoadValue(durable)

(* Every behaviour of the files is a behaviour of that document: a reader  *)
(* sees the old or the new checkpoint, after a power loss the last synced  *)
(* or the last installed one, and never a mixture.                         *)
ImplementsStableDocument == Document!Spec
=============================================================================
