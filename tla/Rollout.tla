------------------------------ MODULE Rollout -------------------------------
(***************************************************************************)
(* What publishing and updating promise together: a device runs a whole    *)
(* build, goes after a version it does not run and that some build had,    *)
(* and changes to a build of that version or stays what it is.             *)
(***************************************************************************)
EXTENDS Naturals, Sequences

CONSTANT Versions

VARIABLES
  releases,  \* the version of every build so far; no build is forgotten
  running,   \* the build the device runs
  phase,     \* idle, asked, or marked for the swap
  target,    \* the version it goes after; 0 if none
  slot       \* the builds the marked image is: one, or none

vars == <<releases, running, phase, target, slot>>

Init ==
  /\ releases \in Seq(Versions) /\ running \in DOMAIN releases
  /\ phase = "idle" /\ target = 0 /\ slot = {}

Release ==
  /\ \E v \in Versions : releases' = Append(releases, v)
  /\ UNCHANGED <<running, phase, target, slot>>

\* A line that was cut behind its first digit reads as that digit; a version has
\* at most two digits here.
Readings(v) == {v, v \div 10} \ {0}

Ask ==
  /\ phase = "idle" /\ phase' = "asked"
  /\ \E b \in DOMAIN releases : target' \in Readings(releases[b]) \ {releases[running]}
  /\ UNCHANGED <<releases, running, slot>>

Mark ==
  /\ phase = "asked" /\ phase' = "marked"
  /\ \E b \in DOMAIN releases : releases[b] = target /\ slot' = {b}
  /\ UNCHANGED <<releases, running, target>>

\* An error, a reset, or a trial that is lost.
GiveUp ==
  /\ phase # "idle" /\ phase' = "idle" /\ target' = 0 /\ slot' = {}
  /\ UNCHANGED <<releases, running>>

Install ==
  /\ phase = "marked" /\ running' \in slot
  /\ phase' = "idle" /\ target' = 0 /\ slot' = {}
  /\ UNCHANGED releases

Next == Release \/ Ask \/ Mark \/ GiveUp \/ Install

Spec == Init /\ [][Next]_vars
=============================================================================
