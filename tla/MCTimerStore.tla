---------------------------- MODULE MCTimerStore ----------------------------
(* A small instance of TimerStore for TLC.                                  *)
EXTENDS TimerStore, TLC

Symmetric == Permutations(Timers)
=============================================================================
