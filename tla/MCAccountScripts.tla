-------------------------- MODULE MCAccountScripts --------------------------
(***************************************************************************)
(* The account scripts over small purses.                                   *)
(***************************************************************************)
EXTENDS AccountScripts

None == [c \in Currencies |-> 0]
With(cs) == [c \in Currencies |-> IF c \in DOMAIN cs THEN cs[c] ELSE 0]
MCBot == {<<"main", "USDT">>, <<"main", "XAUT">>, <<"Z1", "USDC">>}

RestockPurses ==
  { [a \in Accounts |->
      CASE a = "main" -> With([ZAR |-> z, USDT |-> u, USDC |-> D(30), BTC |-> b])
        [] a \in Zar -> With([ZAR |-> D(1000), USDC |-> D(12), BTC |-> D(3)])
        [] a \in Usdt -> With([USDT |-> D(45)])
        [] OTHER -> None] :
    z \in {0, D(1000), D(9000)}, u \in {D(20), D(400)}, b \in {0, 3001} }
TopupPurses ==
  { [a \in Accounts |->
      CASE a = "main" -> With([ZAR |-> z, USDT |-> u, USDC |-> D(22), BTC |-> b, JUP |-> 7])
        [] a = "Z1" -> With([ZAR |-> D(3000)])
        [] a = "U1" -> With([USDT |-> u, JUP |-> b, XAUT |-> D(6)])
        [] a = "U2" -> With([USDT |-> D(60), XAUT |-> 401])
        [] OTHER -> None] :
    z \in {0, D(800), D(9000)}, u \in {D(20), D(400)}, b \in {0, 401} }
LiquidatePurses ==
  { [a \in Accounts |->
      CASE a = "main" -> With([ZAR |-> D(50), USDC |-> D(3), BTC |-> D(40), JUP |-> j, EURC |-> e])
        [] a \in Zar -> With([ZAR |-> z, USDT |-> D(1), USDC |-> D(4), BTC |-> D(30), XAUT |-> j])
        [] a \in Usdt -> With([USDT |-> D(45), BTC |-> D(7), JUP |-> D(20), XAUT |-> j])
        [] a \in Usdc -> With([USDC |-> u, EURC |-> e, ZAR |-> z])
        [] OTHER -> With([BTC |-> 31, ETH |-> D(9)])] :
    j \in {0, D(11)}, e \in {0, D(14), D(40)}, z \in {0, D(300)}, u \in {D(5), D(29)} }
ReplenishPurses ==
  { [a \in Accounts |->
      CASE a = "main" -> With([ZAR |-> D(100), USDT |-> u])
        [] a = "Z1" -> With([ZAR |-> D(400), BTC |-> D(60), USDC |-> 15, XAUT |-> x])
        [] a = "Z2" -> With([BTC |-> D(9), ETH |-> D(200)])
        [] a = "U1" -> With([USDT |-> u, JUP |-> D(3), XAUT |-> x, USDC |-> D(1)])
        [] a = "U2" -> With([USDT |-> D(15), USDC |-> d, ZAR |-> D(900), JUP |-> D(90), XAUT |-> D(110)])
        [] a = "C1" -> With([USDC |-> d, EURC |-> D(45)])
        [] OTHER -> With([EURC |-> D(2)])] :
    u \in {D(20), D(120)}, x \in {0, D(5), D(28)}, d \in {D(2), D(60)} }

Log(b, j, x, y) ==
  [p \in Bases \X Quotes |-> CASE p = <<"BTC", "ZAR">> -> b   [] p = <<"JUP", "USDT">> -> j
                               [] p = <<"XAUT", "ZAR">> -> x  [] p = <<"XAUT", "USDT">> -> y
                               [] OTHER -> "absent"]

Run(scripts, purses, darks, logs) ==
  [script : scripts, held : purses, dark : darks, limitOnly : {{}}, log : logs]
Quietly == {Log("trading", "spread", "absent", "absent")}
MCSetups ==
  Run({"auto"}, RestockPurses, {{}, {<<"XAUT", "ZAR">>}},
      {Log(b, j, x, y) : b \in {"insufficient", "trading"}, j \in {"skipping", "spread"},
                         x \in {"insufficient", "absent"}, y \in {"insufficient", "absent"}})
    \cup Run(RestockScripts \ {"auto"}, RestockPurses, {{}, {<<"XAUT", "ZAR">>}}, Quietly)
    \cup Run(TopupScripts, TopupPurses, {{}, {<<"XAUT", "USDT">>}}, Quietly)
    \cup [script : {"reseed"}, held : TopupPurses, dark : {{}}, limitOnly : {{<<"JUP", "USDT">>}},
          log : Quietly]
    \cup Run(LiquidateScripts, LiquidatePurses,
             {{}, {<<"XAUT", "USDT">>, <<"EURC", "USDT">>}, {<<"BTC", "ZAR">>, <<"EURC", "USDC">>}}, Quietly)
    \cup Run(ReplenishScripts, ReplenishPurses, {{}, {<<"XAUT", "USDT">>}}, Quietly)
=============================================================================
