------------------------------- MODULE MCBooks -------------------------------
(***************************************************************************)
(* Markets for TLC: books of up to four levels on a side, with moves of    *)
(* the market in both directions, changed quantities and empty sides.      *)
(***************************************************************************)
EXTENDS DepthLevels

BookOf(b, a) == [s \in Side |-> IF s = "bid" THEN b ELSE a]

mcPrice == 1..4
mcMarket == {BookOf(<<1, 2, 0, 0>>, <<0, 0, 1, 1>>),
             BookOf(<<1, 1, 1, 0>>, <<0, 0, 0, 2>>),
             BookOf(<<1, 0, 0, 0>>, <<0, 2, 1, 1>>),
             BookOf(<<2, 1, 1, 1>>, <<0, 0, 0, 0>>)}
=============================================================================
