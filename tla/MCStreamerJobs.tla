--------------------------- MODULE MCStreamerJobs ---------------------------
(***************************************************************************)
(* StreamerJobs for TLC: quarters of an hour; days of two hours, netflow   *)
(* every two hours too.  A run of the order book job may last over its     *)
(* next slot, and the startup run of netflow over the first one.           *)
(***************************************************************************)
EXTENDS StreamerJobs

mcInterval == [ob |-> 4, netflow |-> 8, fred |-> 8]
mcOffset == [ob |-> 1, netflow |-> 3, fred |-> 6]
mcLimit == [ob |-> 5, netflow |-> 3, fred |-> 0]
=============================================================================
