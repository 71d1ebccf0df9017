---------------------------- MODULE MCOrderManager ----------------------------
(***************************************************************************)
(* Bounds for the safety run of OrderManager: four orders as long as       *)
(* nothing goes wrong, three when an answer is lost, the process restarts  *)
(* or the position is closed.                                              *)
(***************************************************************************)
EXTENDS OrderManager

FourthOrderAlone ==
  faults.timeout + faults.crash + faults.close > 0 => Cardinality({i \in Orders : book[i] # "absent"}) <= 3

===============================================================================
