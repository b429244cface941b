------------------------------- MODULE MCTimer -------------------------------
(* Timer for TLC: interchangeable timers and events.                       *)
EXTENDS Timer, TLC

Symmetry == Permutations(Timers) \cup Permutations(Events)
==============================================================================
