----------------------------- MODULE MCSpotFunds -----------------------------
(***************************************************************************)
(* Small buckets of the spot bot: two pairs that share a shortage, of quote *)
(* or of base, and one pair alone, short of quote or of base or nothing.    *)
(***************************************************************************)
EXTENDS SpotFunds

CONSTANTS x, y

Purse(q, a, b) == [c \in Currencies |-> IF c = Quote THEN q ELSE IF c = x THEN a ELSE b]
Hold(f, g) == [s \in Subs |-> IF s = "A" THEN f ELSE g]
MCSetups ==
  {<<{x, y}, Hold(Purse(2, 8, 4), Purse(12, 4, 4)), 0>>,
   <<{x, y}, Hold(Purse(20, 3, 3), Purse(18, 3, 2)), 1>>,
   <<{x}, Hold(Purse(8, 8, 0), Purse(12, 0, 0)), 1>>,
   <<{x}, Hold(Purse(2, 8, 0), Purse(6, 0, 0)), 1>>,
   <<{x}, Hold(Purse(20, 3, 0), Purse(24, 3, 2)), 1>>,
   <<{x}, Hold(Purse(20, 2, 0), Purse(24, 3, 0)), 1>>}
==============================================================================
