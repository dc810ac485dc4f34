---------------------------- MODULE MC_FollowUps ----------------------------
(***************************************************************************)
(* Instances of BatchedWebhook and FollowUps for TLC.                      *)
(***************************************************************************)
EXTENDS FollowUps, TLC

CONSTANTS m1, m2, url1, s1, s2, w1
OneHasUrl == (m1 :> {}) @@ (m2 :> {url1})
Listed == (m1 :> 1) @@ (m2 :> 2)

=============================================================================
