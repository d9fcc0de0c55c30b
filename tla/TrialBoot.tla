----------------------------- MODULE TrialBoot -----------------------------
(***************************************************************************)
(* What the A/B update promises: a stable image to fall back on, and at    *)
(* most one candidate, which gets a single boot to prove itself.  The      *)
(* stable image changes only when a candidate that has proven itself takes *)
(* its place; any reset before that ends the trial.                        *)
(***************************************************************************)
CONSTANT Images  \* the possible contents of a slot

VARIABLES
  stable,     \* the image to fall back on
  candidate,  \* what the other slot holds
  stage,      \* of the candidate: none, staged, or running on trial
  proven      \* the candidate on trial has passed its test

vars == <<stable, candidate, stage, proven>>

Init ==
  /\ stable \in Images /\ candidate \in Images
  /\ stage = "none" /\ proven = FALSE

\* With no trial under way the other slot is free to be written.
Prepare ==
  /\ stage = "none"
  /\ candidate' \in Images
  /\ UNCHANGED <<stable, stage, proven>>

Stage == stage = "none" /\ stage' = "staged" /\ UNCHANGED <<stable, candidate, proven>>

Try == stage = "staged" /\ stage' = "running" /\ UNCHANGED <<stable, candidate, proven>>

Prove ==
  /\ stage = "running"
  /\ ~proven /\ proven' = TRUE
  /\ UNCHANGED <<stable, candidate, stage>>

\* Losing power forgets the proof; the trial is already lost.
Forget == proven /\ proven' = FALSE /\ UNCHANGED <<stable, candidate, stage>>

\* The slots trade places: the old stable image becomes the free one.
Confirm ==
  /\ stage = "running" /\ proven
  /\ stage' = "none" /\ proven' = FALSE
  /\ stable' = candidate /\ candidate' = stable

Revert ==
  /\ stage = "running"
  /\ stage' = "none" /\ proven' = FALSE
  /\ UNCHANGED <<stable, candidate>>

Next ==
  \/ Prepare \/ Stage \/ Try \/ Prove \/ Forget \/ Confirm \/ Revert

Spec == Init /\ [][Next]_vars
=============================================================================
