--------------------------- MODULE MCServerLinks ---------------------------
(* ServerLinks on small instances: how often faults happen. *)
EXTENDS ServerLinks

CONSTANTS Crashes, Transients

FailureBudget == [k \in FailureKinds |-> IF k = "crash" THEN Crashes ELSE Transients]
=============================================================================
