------------------------------ MODULE MCGuestVm ------------------------------
(***************************************************************************)
(* GuestVm on three pages, three backings and one JIT thread: enough for   *)
(* an overlapping remap, for an operation over part of a mapping and for a *)
(* JIT that loads a pointer between any two stores.                        *)
(***************************************************************************)
EXTENDS GuestVm, TLC

Symmetry == Permutations(Backing)

(* A cached lookup of an older generation is never taken again. *)
View == <<epochVars, mapVars, guestMemoryLookupGeneration, op,
          [p \in Participant |-> IF lookupCache[p].generation
                                    = guestMemoryLookupGeneration
                                 THEN lookupCache[p] ELSE NoCache]>>

MCPerms == {{"r"}, {"r", "w"}}
=============================================================================
