---------------------------- MODULE MCLiveStream ----------------------------
(* LiveStream for TLC: symbols and asynchronous flushes are model values.  *)
EXTENDS LiveStream

CONSTANTS s1, s2, a1, a2
=============================================================================
