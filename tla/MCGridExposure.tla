---------------------------- MODULE MCGridExposure ----------------------------
(***************************************************************************)
(* Budgets of disturbances for the runs of GridExposure, and the bounded   *)
(* inputs on which the prices of the grid are checked.                     *)
(***************************************************************************)
EXTENDS GridPrices

None     == [k \in Kinds |-> 0]
Burst    == [None EXCEPT !.burst = 1]
Stop     == [None EXCEPT !.stop = 1]
StopCrash == [None EXCEPT !.stop = 1, !.crash = 1]
Faults   == [k \in Kinds |-> IF k = "burst" THEN 0 ELSE 1]

MCPrices   == 20..90
MCSpacings == 1..12
MCTicks    == 1..6

=============================================================================
