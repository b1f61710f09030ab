--------------------------- MODULE MCVolumeTasks ---------------------------
(* VolumeTasks on small instances: which faults may happen, and how often. *)
EXTENDS VolumeTasks

CONSTANTS Crashes, Transients, Errors, GiveUps

FaultBudget == [k \in FaultKinds |->
  CASE k = "crash" -> Crashes
    [] k = "transient" -> Transients
    [] k = "error" -> Errors
    [] k = "giveup" -> GiveUps]
=============================================================================
