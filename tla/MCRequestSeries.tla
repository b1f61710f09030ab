-------------------------- MODULE MCRequestSeries --------------------------
(* RequestSeries on one or two of everything, for TLC.                     *)
EXTENDS RequestSeries

CONSTANTS Crashes, Transients, Removals, Arrivals
FaultBudget == [crash |-> Crashes, transient |-> Transients,
                removal |-> Removals, arrival |-> Arrivals]
=============================================================================
