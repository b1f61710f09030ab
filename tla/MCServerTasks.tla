--------------------------- MODULE MCServerTasks ---------------------------
(* ServerTasks on small instances: which faults may happen, and how often. *)
EXTENDS ServerTasks

CONSTANTS Crashes, Transients, Errors, Users, GiveUps

FaultBudget == [k \in FaultKinds |->
  CASE k = "crash" -> Crashes
    [] k = "transient" -> Transients
    [] k = "error" -> Errors
    [] k = "user" -> Users
    [] k = "giveup" -> GiveUps]
=============================================================================
