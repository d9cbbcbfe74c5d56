----------------------------- MODULE MCDepthBook -----------------------------
(***************************************************************************)
(* DepthBook and DepthBookTreap for TLC.  The steps are those of the       *)
(* treaps, and book is what the treaps stand for: the properties of        *)
(* DepthBook are checked of it as they are stated there.                   *)
(***************************************************************************)
EXTENDS KeptBook, MCBooks

Shown == book' = [s \in Side |-> Kept!Levels(IF s = "bid" THEN bids' ELSE asks')]

TreapInit == Kept!Init /\ book = Empty

TreapNext ==
  \/ Kept!Recorded /\ UNCHANGED book
  \/ \E new \in Market : Kept!ResetDepth(new) /\ Shown
  \/ \E r \in rows : Kept!ProcessOrderBookUpdate(r) /\ Shown
  \/ \E r \in rows : Kept!ProcessLiveUpdate(r) /\ Shown

TreapSpec == TreapInit /\ [][TreapNext]_<<vars, bids, asks>>
=============================================================================
