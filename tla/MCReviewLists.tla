---------------------------- MODULE MCReviewLists ----------------------------
(* Three reviews, whose uploads may come in any order, and one reader.       *)
EXTENDS ReviewLists

CONSTANTS d1

ThreeReviews == 1 .. 3
OneReader == {d1}
TwoPages == {<<0, 1>>, <<1, 3>>}
=============================================================================
