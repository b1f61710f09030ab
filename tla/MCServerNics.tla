---------------------------- MODULE MCServerNics ----------------------------
(* ServerNics on small instances: three ports, two of them on one network. *)
EXTENDS ServerNics

CONSTANTS n1, n2, p1, p2, p3, Crashes, Transients

NetOfPort == [p \in {p1, p2, p3} |-> IF p = p3 THEN n2 ELSE n1]
FaultBudget == [k \in FaultKinds |-> IF k = "crash" THEN Crashes ELSE Transients]
=============================================================================
