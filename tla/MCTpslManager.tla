----------------------------- MODULE MCTpslManager -----------------------------
(***************************************************************************)
(* Fault budgets for the runs of TpslManager.                              *)
(***************************************************************************)
EXTENDS TpslManager

None       == [k \in FaultKinds |-> 0]
Closings   == [None EXCEPT !.close = 1]
Restart    == [None EXCEPT !.crash = 1]
Errors     == [None EXCEPT !.read = 1, !.cancel = 1, !.place = 1, !.close = 1]
Everything == [k \in FaultKinds |-> 1]

=============================================================================
