---------------------------- MODULE MCPriceCache ----------------------------
(***************************************************************************)
(* PriceCache for TLC: days of two and months of four minutes.  Ranges:    *)
(* two minutes over the end of a day, one minute within a day, and five    *)
(* minutes over the end of a day and of a month.                           *)
(***************************************************************************)
EXTENDS PriceCache

AskedRanges == {<<0, 2>>, <<1, 2>>, <<2, 7>>}
=============================================================================
