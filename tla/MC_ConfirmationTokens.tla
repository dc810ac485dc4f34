------------------------ MODULE MC_ConfirmationTokens ------------------------
(***************************************************************************)
(* Instances of ConfirmationTokens for TLC.                                *)
(***************************************************************************)
EXTENDS ConfirmationTokens, TLC

Interchangeable == Permutations(Tokens) \cup Permutations(Callers)

=============================================================================
