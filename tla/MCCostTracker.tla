--------------------------- MODULE MCCostTracker ---------------------------
(* Instances of CostTracker for TLC.                                       *)
EXTENDS CostTracker

CONSTANTS gateway, channels, first, second, third

Own == [k \in Tasks |-> IF k = third THEN gateway ELSE channels]
TwoMonths == <<1, 1, 2>>
=============================================================================
