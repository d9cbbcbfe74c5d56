---------------------------- MODULE MCLiqBackfill ----------------------------
(***************************************************************************)
(* LiqBackfill for TLC: hours of two minutes, the first of them with       *)
(* liquidations.                                                           *)
(***************************************************************************)
EXTENDS LiqBackfill

mcLiquidated == [k \in Key |-> 2 * (k % K)]
=============================================================================
