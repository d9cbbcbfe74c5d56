------------------------------ MODULE BarLedger ------------------------------
(***************************************************************************)
(* What the live path promises about bars, without its goroutines and      *)
(* buffers: a bar that was built is handed to the database once.  Then it  *)
(* is stored, or dropped because its insert failed, and stays so.          *)
(***************************************************************************)
CONSTANT Id(_)      \* the identity of a bar

VARIABLES
  built,     \* bars FlushAll has built
  stored,    \* bars inserted
  dropped    \* bars whose insert failed

vars == <<built, stored, dropped>>

Init == built = {} /\ stored = {} /\ dropped = {}

\* New bars have identities of their own.
Build ==
  /\ built \subseteq built'
  /\ \A b \in built' \ built : \A c \in built' : Id(b) = Id(c) => b = c
  /\ UNCHANGED <<stored, dropped>>

\* Some bars that were neither stored nor dropped so far are now one of the two.
Settle ==
  /\ UNCHANGED built
  /\ stored \subseteq stored' /\ dropped \subseteq dropped'
  /\ (stored' \ stored) \cup (dropped' \ dropped) \subseteq built \ (stored \cup dropped)
  /\ stored' \cap dropped' = {}

Next == Build \/ Settle

Spec == Init /\ [][Next]_vars
=============================================================================
