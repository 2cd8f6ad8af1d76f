---------------------------- MODULE PostVisibility ----------------------------
(***************************************************************************)
(* What composing a post promises to readers, whatever the services, calls *)
(* and failures in between: a post becomes readable in one order only.  It *)
(* is stored before the author's timeline lists it, and the author's       *)
(* timeline lists it before any other user receives it; only its audience  *)
(* receives it, which may grow; and nothing is ever withdrawn.             *)
(***************************************************************************)
CONSTANTS
  Request,    \* the posts, named by the request that composes them
  User

VARIABLES
  audience,   \* audience[r]: who may receive the post of r
  stored,     \* the posts that can be read
  listed,     \* the posts that their author's timeline lists
  delivered   \* the pairs <<r, u>> such that u's home timeline has r's post

vars == <<audience, stored, listed, delivered>>

Init ==
  /\ audience \in [Request -> SUBSET User]
  /\ stored = {} /\ listed = {} /\ delivered = {}

\* Whoever joins the audience of a post stays in it.
Widen ==
  /\ audience' \in [Request -> SUBSET User]
  /\ \A r \in Request : audience[r] \subseteq audience'[r]
  /\ UNCHANGED <<stored, listed, delivered>>

Store(r) ==
  /\ r \notin stored
  /\ stored' = stored \union {r}
  /\ UNCHANGED <<audience, listed, delivered>>

List(r) ==
  /\ r \in stored \ listed
  /\ listed' = listed \union {r}
  /\ UNCHANGED <<audience, stored, delivered>>

Deliver(r, u) ==
  /\ r \in listed
  /\ u \in audience[r]
  /\ delivered' = delivered \union {<<r, u>>}
  /\ UNCHANGED <<audience, stored, listed>>

Next ==
  \/ Widen
  \/ \E r \in Request : Store(r) \/ List(r) \/ \E u \in User : Deliver(r, u)

Spec == Init /\ [][Next]_vars
=============================================================================
