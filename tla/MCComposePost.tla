---------------------------- MODULE MCComposePost ----------------------------
(* Instances of ComposePost for TLC. *)
EXTENDS ComposePost, TLC

CONSTANTS r1, r2, alice, bob, carol, i1, i2, d1

TwoRequests == {r1, r2}
Users == {alice, bob, carol}
TwoIds == {i1, i2}
OneReader == {d1}

\* Bob follows Alice; r1 and r2 are posts of Alice and Bob, and r2 mentions
\* Carol.
TheAuthor == (r1 :> alice) @@ (r2 :> bob)
TheFollowers == (alice :> {bob}) @@ (bob :> {}) @@ (carol :> {})
TheMentions == (r1 :> {}) @@ (r2 :> {carol})

\* Alice has posted before, Bob has not.
OnlyAlice == {alice}

\* Bob unfollows Alice and follows her again.
TheChanging == {<<alice, bob>>}
=============================================================================
