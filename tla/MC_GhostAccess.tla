--------------------------- MODULE MC_GhostAccess ---------------------------
(***************************************************************************)
(* Instances of GhostAccess for TLC.                                       *)
(***************************************************************************)
EXTENDS GhostAccess, TLC

CONSTANTS memory
Confidential == memory :> 3
SettingsUpdates == {{"enabled", "public"}, {"trust"}, {"blocked"}}
RequestSymmetry == Permutations(Requests)

=============================================================================
