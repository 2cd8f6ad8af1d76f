---------------------------- MODULE MCSocialGraph ----------------------------
(* Instances of SocialGraph for TLC. *)
EXTENDS SocialGraph, TLC

CONSTANTS alice, bob, carol, c1, c2, c3, d1

TwoUsers == {alice, bob}
ThreeUsers == {alice, bob, carol}
OnlyBob == {bob}
BobAndCarol == {bob, carol}
TwoCalls == {c1, c2}
ThreeCalls == {c1, c2, c3}
OneReader == {d1}
None == {}

\* Carol follows Bob.
CarolBob == {<<carol, bob>>}

\* Alice follows him too, and unfollows him.
FollowUnfollow == (c1 :> "follow") @@ (c2 :> "unfollow")
OneEdge == [c \in TwoCalls |-> <<alice, bob>>]

\* Alice follows Bob, unfollows him and follows him again.
FollowAgain == (c1 :> "follow") @@ (c2 :> "unfollow") @@ (c3 :> "follow")
OneEdgeAgain == [c \in ThreeCalls |-> <<alice, bob>>]
=============================================================================
