---------------------------- MODULE MCReservation ----------------------------
(* Instances of Reservation for TLC. *)
EXTENDS Reservation, TLC

CONSTANTS c1, c2, c3, c4

\* A stay of two nights, one night each of two rooms and of one, and a stay
\* that ends before it begins.
FourCalls == {c1, c2, c3, c4}
FirstOf == (c1 :> 1) @@ (c2 :> 2) @@ (c3 :> 1) @@ (c4 :> 2)
LastOf == (c1 :> 2) @@ (c2 :> 2) @@ (c3 :> 2) @@ (c4 :> 1)
RoomsAsked == (c1 :> 1) @@ (c2 :> 2) @@ (c3 :> 1) @@ (c4 :> 1)

Queries == {{1}, {1, 2}}
=============================================================================
