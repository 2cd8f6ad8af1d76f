--------------------------- MODULE MCComposeReview ---------------------------
(* Instances of ComposeReview for TLC. *)
EXTENDS ComposeReview, TLC

CONSTANTS r1, movie, user, text, u1, u2, u3, u4

OneRequest == {r1}
ThreeParts == {movie, user, text}
FourUploads == {u1, u2, u3, u4}

\* Three parts of one review, and the text a second time.
OneReview == [u \in FourUploads |-> r1]
TextTwice == (u1 :> movie) @@ (u2 :> user) @@ (u3 :> text) @@ (u4 :> text)

\* Which of its two uploads brings the text, and which of the other parts is
\* the movie, does not matter.
Identity == [v \in FourUploads \union ThreeParts |-> v]
SwapTexts == (u3 :> u4) @@ (u4 :> u3) @@ Identity
SwapParts == (u1 :> u2) @@ (u2 :> u1) @@ (movie :> user) @@ (user :> movie) @@ Identity
SwapBoth == (u3 :> u4) @@ (u4 :> u3) @@ SwapParts
Symmetry == Permutations(DOMAIN Identity)
              \intersect {Identity, SwapTexts, SwapParts, SwapBoth}
=============================================================================
