------------------------------ MODULE KeptBook ------------------------------
(***************************************************************************)
(* DepthBook and DepthBookTreap side by side: bids and asks are the        *)
(* treaps, the variables of the exchange and the recorder are shared.      *)
(***************************************************************************)
EXTENDS DepthBook, Treap

VARIABLES bids, asks

Kept == INSTANCE DepthBookTreap

\* The treaps implement DepthBook: after any inserts, replacements, removals
\* and resets, lookups, best prices and running depths are those of the levels.
Refines == Kept!Refines
=============================================================================
