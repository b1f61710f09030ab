--------------------------- MODULE MCSharedLists ---------------------------
(* SharedLists on small instances: entries, and how often each event may   *)
(* happen.                                                                 *)
EXTENDS SharedLists

CONSTANTS n1, n2, k1, k2, k3, own, other, Crashes, Transients, Adds, Removes

AllEntries == {k1, k2, k3} \X {own, other}
SomeWants == {{<<k1, own>>}, {<<k2, other>>}, {<<k1, other>>, <<k2, own>>}}
SomeOthers == {<<k1, own>>, <<k3, other>>}

EventBudget == [k \in EventKinds |->
  CASE k = "crash" -> Crashes
    [] k = "transient" -> Transients
    [] k = "add" -> Adds
    [] k = "remove" -> Removes]
=============================================================================
