----------------------------- MODULE FuturesTools -----------------------------
(***************************************************************************)
(* What is run beside the bots of the futures accounts, by hand or by      *)
(* cron: the scripts that close positions, those that move USDT, the       *)
(* net-flow reports and the backtester.  They share no state, so that a    *)
(* behaviour follows one of them and leaves the state of the others alone. *)
(***************************************************************************)
EXTENDS ClosePositions, Funding, NetFlow, Backtest

VARIABLE desk    \* the program that is followed

vars == <<desk, closeVars, fundVars, reportVars, testVars>>

Init ==
  /\ desk \in {"closing", "funding", "reports", "backtest"}
  /\ ClInit /\ FuInit /\ ReportInit /\ TestInit
  /\ desk # "closing" => closer = "bybit" /\ position = [a \in FuturesAccounts |-> Flat] /\ book = {}
  /\ desk # "funding" => usdt = CHOOSE b \in Balances : TRUE
  /\ desk # "backtest" => loss = CHOOSE l \in Losses : Valid(l)

Next ==
  \/ desk = "closing"  /\ ClNext     /\ UNCHANGED <<desk, fundVars, reportVars, testVars>>
  \/ desk = "funding"  /\ FuNext     /\ UNCHANGED <<desk, closeVars, reportVars, testVars>>
  \/ desk = "reports"  /\ ReportNext /\ UNCHANGED <<desk, closeVars, fundVars, testVars>>
  \/ desk = "backtest" /\ TestNext   /\ UNCHANGED <<desk, closeVars, fundVars, reportVars>>

Spec == Init /\ [][Next]_vars
===============================================================================
