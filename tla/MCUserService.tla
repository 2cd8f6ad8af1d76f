---------------------------- MODULE MCUserService ----------------------------
(* Two registrations of one name with different passwords, and two lookups   *)
(* with the one password and the other.                                      *)
EXTENDS UserService, TLC

CONSTANTS c1, c2, q1, q2, n1, p1, p2, s1

TwoRegistrations == {c1, c2}
TwoLookups == {q1, q2}
OneName == {n1}
TwoPasswords == {p1, p2}
OneServer == {s1}
SameName == [c \in {c1, c2, q1, q2} |-> n1]
Passwords == (c1 :> p1) @@ (c2 :> p2) @@ (q1 :> p1) @@ (q2 :> p2)
OneHost == [c \in {c1, c2, q1, q2} |-> s1]

\* Who is called the first and who the second does not matter.
Swap == (c1 :> c2) @@ (c2 :> c1) @@ (q1 :> q2) @@ (q2 :> q1) @@ (p1 :> p2) @@ (p2 :> p1)
Symmetry == {f \in Permutations(DOMAIN Swap) : f = Swap \/ \A v \in DOMAIN f : f[v] = v}
=============================================================================
