--------------------------- MODULE StableDocument ---------------------------
(***************************************************************************)
(* What the state file promises its reader, with no files in it: one       *)
(* document that a checkpoint installs all at once.  Until the checkpoint  *)
(* has been hardened, a power loss may bring back the previous stable      *)
(* document, but never a mixture, an older one or nothing.                 *)
(***************************************************************************)
EXTENDS Naturals

VARIABLES
  visible,  \* the document a process would load now (0: none)
  stable    \* the document it would load after the worst power loss

Init == visible \in Nat /\ stable = visible

\* Documents are numbered in the order in which they are made.
Install == visible' \in Nat /\ visible' > visible /\ UNCHANGED stable

Harden == stable' = visible /\ UNCHANGED visible

PowerLoss == visible' \in {visible, stable} /\ stable' = visible'

Next == Install \/ Harden \/ PowerLoss

Spec == Init /\ [][Next]_<<visible, stable>>
=============================================================================
