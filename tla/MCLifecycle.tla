---------------------------- MODULE MCLifecycle -----------------------------
(* Small instance of Lifecycle.  Timers of a few ticks are enough for every *)
(* order of the probe, the signal, the end of the drain and the shutdown.   *)
EXTENDS Lifecycle, TLC

Symmetry == Permutations(Requests)
=============================================================================
