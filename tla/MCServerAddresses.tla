------------------------- MODULE MCServerAddresses -------------------------
(* ServerAddresses on small instances: how often each event may happen. *)
EXTENDS ServerAddresses

CONSTANTS Crashes, Transients, OtherStores, Moves

EventBudget == [k \in EventKinds |->
  CASE k = "crash" -> Crashes
    [] k = "transient" -> Transients
    [] k = "store" -> OtherStores
    [] k = "move" -> Moves]
=============================================================================
