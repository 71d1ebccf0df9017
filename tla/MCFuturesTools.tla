---------------------------- MODULE MCFuturesTools ----------------------------
(***************************************************************************)
(* Small accounts for the scripts: two pairs, of which an account holds    *)
(* nothing, or a short and a long; balances above and below the thresholds *)
(* of the transfer scripts.  Two accounts in the reports: the second one   *)
(* trades, and both transfer to each other.                                *)
(* Backtests of four levels a tick apart around 10 ticks, with losses of   *)
(* an eighth, which the parameter grid leaves out, and a half: three lots  *)
(* can be held while four orders are left to close them, so that one of    *)
(* these finds a residue.                                                  *)
(***************************************************************************)
EXTENDS FuturesTools

CONSTANTS eth, sol
MCHeld == {[x \in Pairs |-> 0], [x \in Pairs |-> IF x = eth THEN -2 ELSE 1]}

MCBalances ==
  {[a \in Accounts |-> CASE a = "main" -> m [] a = "CM2" -> n [] a = "CMS1" -> s [] OTHER -> 3000] :
     m \in {900, 9000}, n \in {0, 9000}, s \in {0, 3000}}

MCKinds == {<<2, "TRADE">>}

MCLosses == {<<1, 8>>, <<1, 2>>}
===============================================================================
