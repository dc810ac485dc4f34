----------------------------- MODULE MC_Listings -----------------------------
(***************************************************************************)
(* Instances of Listings for TLC.                                          *)
(***************************************************************************)
EXTENDS Listings

CONSTANTS g1, g2, f1

\* Spaces and groups together, one collection alone, groups in an order of the
\* reader's, and with friends.
SomeSources == {<<Public>>, <<f1>>, <<Public, g1>>, <<g2, g1>>, <<Public, g1, f1>>}

Preference == <<Public, g1, g2, f1>>

\* An order of its own for each pool of the interleaved listings, and for relevance.
SomeOrders ==
  [f \in Fields |->
     CASE f = "created_at" -> <<2, 3, 1, 4>>
       [] f = "rating_bayesian" -> <<4, 1, 3, 2>>
       [] f = "score" -> <<3, 4, 2, 1>>
       [] OTHER -> <<1, 2, 3, 4>>]

NewAndOld == <<{1, 3}, {2, 4}>>

RelationshipCounts == <<4, 2, 1, 0>>

ManySomeNone == <<2..9, {1}, {0}>>

=============================================================================
