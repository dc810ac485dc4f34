-------------------------- MODULE MC_Relationships --------------------------
(***************************************************************************)
(* Instances of Relationships for TLC.                                     *)
(***************************************************************************)
EXTENDS Relationships

Interchangeable ==
  Permutations(Owned) \cup Permutations(Ids) \cup Permutations(Requests)

=============================================================================
