------------------------------ MODULE BeamLamp ------------------------------
(***************************************************************************)
(* What the lamp promises the person in the garage, with no clock, no      *)
(* queue and no task in sight: it shows a beam fact only while the central *)
(* that stated the fact is still in session, and otherwise admits that it  *)
(* does not know.  LampControl implements this specification.              *)
(***************************************************************************)
CONSTANTS Facts,    \* the beam facts a central can state
          Unknown   \* what the fault pattern stands for

VARIABLES session,  \* a central is being served
          shown     \* the fact on display, or Unknown

vars == <<session, shown>>

Init == session = FALSE /\ shown = Unknown

Open == /\ ~session
        /\ session' = TRUE
        /\ shown' = shown

State(f) == /\ session
            /\ session' = TRUE
            /\ shown' = f

\* The central is connected but has said nothing for too long.
Doubt == /\ session
         /\ session' = TRUE
         /\ shown' = Unknown

\* The session ends, or the device restarts.
Close == session' = FALSE /\ shown' = Unknown

Next == Open \/ (\E f \in Facts : State(f)) \/ Doubt \/ Close

Spec == Init /\ [][Next]_vars
=============================================================================
