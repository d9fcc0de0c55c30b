----------------------------- MODULE MCLampFlap -----------------------------
(***************************************************************************)
(* What a person sees while the fault pattern runs: LampControl with a     *)
(* history variable for how long the pin has been lit in fault.            *)
(***************************************************************************)
EXTENDS MCLampControl

VARIABLE litSince   \* since when the lamp has been in fault and lit

flapVars == <<vars, litSince>>

FaultLit == machine.fault /\ pin

FlapInit == Init /\ litSince = 0
FlapNext ==
  /\ Next
  /\ litSince' = IF FaultLit /\ FaultLit' /\ now' >= now THEN litSince ELSE now'
FlapSpec == FlapInit /\ [][FlapNext]_flapVars

\* The documented fault pattern (README.md:424, docs/design.md:102) is lit for
\* no longer than its first phase, so that "unknown" is told from "broken".
PatternShowsDark == FaultLit => now - litSince <= On1 + TickPeriod + MaxStall
=============================================================================
