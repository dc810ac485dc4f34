------------------------------- MODULE MC_Jobs -------------------------------
(***************************************************************************)
(* Instances of Jobs for TLC.                                              *)
(***************************************************************************)
EXTENDS Jobs

\* Two chunks of the first item, one of the second.
ThreeChunks == <<1, 1, 2>>

=============================================================================
