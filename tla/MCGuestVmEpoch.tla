--------------------------- MODULE MCGuestVmEpoch ---------------------------
(* Two JITs with nested guards, three backings.  *)
EXTENDS GuestVmEpoch
=============================================================================
