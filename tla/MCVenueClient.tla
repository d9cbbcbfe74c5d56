--------------------------- MODULE MCVenueClient ---------------------------
(***************************************************************************)
(* VenueClient for TLC: up to three connections, one failed dial.          *)
(***************************************************************************)
EXTENDS VenueClient
=============================================================================
