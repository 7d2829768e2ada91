----------------------- MODULE MCGuestCallbackExecutor -----------------------
(***************************************************************************)
(* GuestCallbackExecutor for TLC: three submitters, one of which submits a *)
(* release.                                                                *)
(***************************************************************************)
EXTENDS GuestCallbackExecutor
=============================================================================
