-------------------------- MODULE MCGuestTimerQueue --------------------------
(***************************************************************************)
(* GuestTimerQueue for TLC.  Idents and tokens are never reused, so their  *)
(* limits alone make the state space finite.                               *)
(***************************************************************************)
EXTENDS GuestTimerQueue, TLC

Symmetry == Permutations(Key)
=============================================================================
