---------------------------- MODULE ThreadStates ----------------------------
(***************************************************************************)
(* What thread.h promises of an eThread: the states a thread goes through  *)
(* and what sync() may answer in each of them (thread.h:8-24).  State 5,   *)
(* joined, is "same as state 1".                                           *)
(***************************************************************************)

VARIABLES
  state,   \* of the thread
  answer   \* of the last sync(): is the thread alive?

vars == <<state, answer>>

TypeOK ==
  /\ state \in {"none", "starting", "running", "finished"}
  /\ answer \in BOOLEAN

Init == state = "none" /\ answer = FALSE

\* run(), 1 -> 2
Run == state = "none" /\ state' = "starting" /\ UNCHANGED answer

\* hasStarted(), 2 -> 3
HasStarted == state = "starting" /\ state' = "running" /\ UNCHANGED answer

\* the thread ends, perhaps before it has started
Finish ==
  /\ state \in {"starting", "running"}
  /\ state' = "finished"
  /\ UNCHANGED answer

\* kill(), 4 -> 5
Join == state = "finished" /\ state' = "none" /\ UNCHANGED answer

\* "it will wait when state is 2"
Sync ==
  /\ \/ state \in {"none", "finished"} /\ answer' = FALSE
     \/ state \in {"running", "finished"} /\ answer' = TRUE
  /\ UNCHANGED state

Next == Run \/ HasStarted \/ Finish \/ Join \/ Sync

Spec == Init /\ [][Next]_vars
=============================================================================
