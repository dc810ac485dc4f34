----------------------------- MODULE MC_RemCycle -----------------------------
(***************************************************************************)
(* Instances of RemCycle for TLC.                                          *)
(***************************************************************************)
EXTENDS RemCycle

\* A memory is insignificant and stirs the mood, a little less insignificant,
\* tense, or could not be scored.
SomeAnswers ==
  {[sig |-> 0, tense |-> FALSE, stirs |-> TRUE],
   [sig |-> 1, tense |-> FALSE, stirs |-> FALSE],
   [sig |-> 0, tense |-> TRUE, stirs |-> FALSE],
   [sig |-> NoScore, tense |-> FALSE, stirs |-> FALSE]}

=============================================================================
