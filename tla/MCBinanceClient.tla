-------------------------- MODULE MCBinanceClient --------------------------
(* BinanceClient for TLC: its constants are numbers and Booleans. *)
EXTENDS BinanceClient
=============================================================================
