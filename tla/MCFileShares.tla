---------------------------- MODULE MCFileShares ----------------------------
(* FileShares on small instances: how often each event may happen. *)
EXTENDS FileShares

CONSTANTS Crashes, Transients, Errors, GiveUps, Removes

EventBudget == [k \in EventKinds |->
  CASE k = "crash" -> Crashes
    [] k = "transient" -> Transients
    [] k = "error" -> Errors
    [] k = "giveup" -> GiveUps
    [] k = "remove" -> Removes]
=============================================================================
