--------------------------- MODULE MC_Publication ---------------------------
(***************************************************************************)
(* Instances of Publication for TLC.                                       *)
(***************************************************************************)
EXTENDS Publication, TLC

Interchangeable == Permutations(Requests)

=============================================================================
