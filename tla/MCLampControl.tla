--------------------------- MODULE MCLampControl ---------------------------
(* A small instance of LampControl: one unit of time stands for about five  *)
(* seconds of leash and one phase of the pattern.                           *)
EXTENDS LampControl

\* Both facts, a byte that is neither and a Write Request.
MCArrivals ==
  {[kind |-> "command", data |-> <<1, 0>>],
   [kind |-> "command", data |-> <<1, 1>>],
   [kind |-> "command", data |-> <<1, 2>>],
   [kind |-> "request", data |-> <<1, 1>>]}
=============================================================================
