-------------------------- MODULE MCHostAggregate --------------------------
(* A host aggregate for TLC: three hosts, of which two are in the node. *)
EXTENDS HostAggregate, TLC

CONSTANTS h1, h2, h3, Crashes, Transients, LostAnswers

AllHosts == {h1, h2, h3}
HostsOfNode == {h1, h2}
FaultBudget == [k \in FaultKinds |->
  CASE k = "crash" -> Crashes [] k = "transient" -> Transients [] k = "lost" -> LostAnswers]
Symmetric == Permutations(HostsOfNode)
=============================================================================
