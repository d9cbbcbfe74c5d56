----------------------------- MODULE MCLevelHist -----------------------------
(***************************************************************************)
(* LevelHist for TLC: five trades with ties in volume at three keys, on    *)
(* either side, two of them at prices that share a key, and a degenerate   *)
(* one.                                                                    *)
(***************************************************************************)
EXTENDS LevelHist

T(i, price, qty, maker) == [id |-> i, price |-> price, qty |-> qty, buyerMaker |-> maker]

mcQuote == 1..6
mcTrade == {T(1, 4, 2, FALSE), T(2, 2, 1, TRUE), T(3, 1, 1, FALSE), T(4, 5, 1, TRUE),
            T(5, 0, 1, FALSE)}
=============================================================================
