-------------------------- MODULE MCNodeOperation --------------------------
(* NodeOperation on small instances: which faults may happen, and how often. *)
EXTENDS NodeOperation

CONSTANTS Crashes, Transients, LostAnswers, Removals

FaultBudget == [k \in FaultKinds |->
  CASE k = "crash" -> Crashes
    [] k = "transient" -> Transients
    [] k = "lost" -> LostAnswers
    [] k = "removal" -> Removals]
=============================================================================
