------------------------ MODULE MCVolumeAttachments ------------------------
(* VolumeAttachments on small instances: how often each event may happen. *)
EXTENDS VolumeAttachments

CONSTANTS Crashes, Transients, Errors, GiveUps, OtherStores

FaultBudget == [k \in FaultKinds |->
  CASE k = "crash" -> Crashes
    [] k = "transient" -> Transients
    [] k = "error" -> Errors
    [] k = "giveup" -> GiveUps
    [] k = "store" -> OtherStores]
=============================================================================
