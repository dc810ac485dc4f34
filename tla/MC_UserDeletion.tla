--------------------------- MODULE MC_UserDeletion ---------------------------
(***************************************************************************)
(* Instances of Ratings and UserDeletion for TLC.                          *)
(***************************************************************************)
EXTENDS UserDeletion, TLC

\* The leaver's memory and someone else's.
CONSTANTS mine, other, users_leaver, users_other
HomeOf == (mine :> users_leaver) @@ (other :> users_other)

=============================================================================
