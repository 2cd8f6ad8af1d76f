---------------------------- MODULE MCUserTimeline ----------------------------
(* Instances of UserTimeline for TLC. *)
EXTENDS UserTimeline, TLC

CONSTANTS p1, p2, p3, d1

ThreePosts == {p1, p2, p3}
ByStamp == (p1 :> 1) @@ (p2 :> 2) @@ (p3 :> 3)
OneReader == {d1}

\* The first post, the ones after it, and all of them.
Pages == {<<0, 1>>, <<1, 3>>, <<0, 3>>}
=============================================================================
