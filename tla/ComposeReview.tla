---------------------------- MODULE ComposeReview ----------------------------
(***************************************************************************)
(* ComposeReviewService of mediaMicroservices (ComposeReviewHandler.h).    *)
(* The parts of a review (movie, user, id, text, rating) arrive in calls   *)
(* of their own, from different services and in any order.  They meet in   *)
(* memcached: every call adds its part and counts it, and the call that    *)
(* counts the last part composes the review and uploads it to three        *)
(* stores.  Calls for one request share nothing but those keys, which      *)
(* expire after ten seconds; a call may be repeated.                       *)
(***************************************************************************)
EXTENDS Naturals, FiniteSets

CONSTANTS
  Component,    \* the parts of a review; NUM_COMPONENTS is 5
  Request,      \* values of req_id
  Upload,       \* the calls of UploadMovieId, UploadUserId, ...
  Req,          \* Req[u]: the req_id of a call
  Part,         \* Part[u]: the part it uploads
  None,         \* no value under a key
  MaxFailures,  \* bound on the failing calls to memcached and to the stores
  MaxLosses     \* bound on the keys that expire or are evicted

ASSUME ReviewAssumption ==
  /\ IsFiniteSet(Component) /\ Component # {}
  /\ Req \in [Upload -> Request]
  /\ Part \in [Upload -> Component]
  /\ None \notin Upload /\ None \notin Nat
  /\ MaxFailures \in Nat
  /\ MaxLosses \in Nat

VARIABLES
  pc,         \* where each call is
  counter,    \* memcached: req_id:counter
  parts,      \* memcached: req_id:movie_id, ..., each the call that added it
  got,        \* counter_value of each call
  fetched,    \* the parts a composing call got from memcached
  pending,    \* the stores it has not heard from
  thrown,     \* the stores whose future threw
  held,       \* held[s]: the calls whose review store s has taken
  failures,
  losses,
  disturbed   \* history: requests for which a call failed or a key was lost

vars == <<pc, counter, parts, got, fetched, pending, thrown, held, failures,
          losses, disturbed>>
cache == <<counter, parts>>
composing == <<fetched, pending, thrown, held>>
faults == <<failures, losses, disturbed>>

NumComponents == Cardinality(Component)
Stores == {"review", "user_review", "movie_review"}
Calls(r) == {u \in Upload : Req[u] = r}
Ended == {"returned", "error"}
NoParts == [c \in Component |-> None]

Init ==
  /\ pc = [u \in Upload |-> "idle"]
  /\ counter = [r \in Request |-> None]
  /\ parts = [r \in Request |-> NoParts]
  /\ got = [u \in Upload |-> 0]
  /\ fetched = [u \in Upload |-> NoParts]
  /\ pending = [u \in Upload |-> {}]
  /\ thrown = [u \in Upload |-> {}]
  /\ held = [s \in Stores |-> {}]
  /\ failures = 0
  /\ losses = 0
  /\ disturbed = {}

Goes(u, from, to) ==
  /\ pc[u] = from
  /\ pc' = [pc EXCEPT ![u] = to]

-----------------------------------------------------------------------------
(* What a call asks of memcached, each a single atomic command there *)

\* Wrong: memcached_set, which starts the count again.
CounterSet(r) == [counter EXCEPT ![r] = 0]

\* memcached_add of "0": nothing happens when the counter is there.
CounterAdded(r) == [counter EXCEPT ![r] = IF @ = None THEN 0 ELSE @]

\* Wrong: memcached_set, where the latest value wins.
PartSet(u) == [parts EXCEPT ![Req[u]] = [@ EXCEPT ![Part[u]] = u]]

PartAdded(u) ==
  IF parts[Req[u]][Part[u]] = None
  THEN [parts EXCEPT ![Req[u]] = [@ EXCEPT ![Part[u]] = u]]
  ELSE parts

CounterIncremented(r) == [counter EXCEPT ![r] = IF @ = None THEN None ELSE @ + 1]

-----------------------------------------------------------------------------
(* Upload...: the steps of one call *)

Begin(u) ==
  /\ Goes(u, "idle", "init")
  /\ UNCHANGED <<cache, got, composing, faults>>

InitCounter(u) ==
  /\ Goes(u, "init", "store")
  /\ counter' = CounterAdded(Req[u])
  /\ UNCHANGED <<parts, got, composing, faults>>

\* Wrong: every call counts.
AlwaysCounts(u) == "count"

\* The call that finds its part stored (MEMCACHED_DATA_EXISTS) reads the
\* counter and does not count.
AfterAdd(u) == IF parts[Req[u]][Part[u]] = None THEN "count" ELSE "peek"

StorePart(u) ==
  /\ Goes(u, "store", AfterAdd(u))
  /\ parts' = PartAdded(u)
  /\ UNCHANGED <<counter, got, composing, faults>>

IncrementCounter(u) ==
  /\ Goes(u, "count", "decide")
  /\ counter[Req[u]] # None
  /\ counter' = CounterIncremented(Req[u])
  /\ got' = [got EXCEPT ![u] = counter[Req[u]] + 1]
  /\ UNCHANGED <<parts, composing, faults>>

\* The return code of memcached_increment is dropped (the test after it looks
\* at the one of memcached_add), so an upload whose increment fails goes on with
\* a counter_value nobody has set: it may or may not be NUM_COMPONENTS.
IncrementFails(u) ==
  /\ Goes(u, "count", "decide")
  /\ \E value \in {0, NumComponents} : got' = [got EXCEPT ![u] = value]
  /\ disturbed' = disturbed \union {Req[u]}
  /\ \/ /\ counter[Req[u]] = None
        /\ UNCHANGED <<counter, failures>>
     \/ /\ failures < MaxFailures
        /\ failures' = failures + 1
        /\ counter' \in {counter, CounterIncremented(Req[u])}
  /\ UNCHANGED <<parts, composing, losses>>

PeekCounter(u) ==
  /\ Goes(u, "peek", "decide")
  /\ counter[Req[u]] # None
  /\ got' = [got EXCEPT ![u] = counter[Req[u]]]
  /\ UNCHANGED <<cache, composing, faults>>

PeekMisses(u) ==
  /\ Goes(u, "peek", "error")
  /\ counter[Req[u]] = None
  /\ UNCHANGED <<cache, got, composing, faults>>

\* Any other failing command makes the call throw, done in memcached or not.
MemcachedFails(u) ==
  /\ failures < MaxFailures
  /\ failures' = failures + 1
  /\ disturbed' = disturbed \union {Req[u]}
  /\ \/ /\ Goes(u, "init", "error")
        /\ counter' \in {counter, CounterAdded(Req[u])}
        /\ UNCHANGED parts
     \/ /\ Goes(u, "store", "error")
        /\ parts' \in {parts, PartAdded(u)}
        /\ UNCHANGED counter
     \/ /\ Goes(u, "peek", "error")
        /\ UNCHANGED cache
     \/ /\ Goes(u, "fetch", "error")
        /\ UNCHANGED cache
  /\ UNCHANGED <<got, composing, losses>>

\* Wrong: the counter is read again instead of kept from the increment.
IsLastNow(u) == counter[Req[u]] = NumComponents

IsLast(u) == got[u] = NumComponents

Decide(u) ==
  /\ Goes(u, "decide", IF IsLast(u) THEN "fetch" ELSE "returned")
  /\ UNCHANGED <<cache, got, composing, faults>>

-----------------------------------------------------------------------------
(* _ComposeAndUpload *)

\* memcached_mget: a part whose key is gone is left out without an error.
Fetch(u) ==
  /\ Goes(u, "fetch", "uploading")
  /\ fetched' = [fetched EXCEPT ![u] = parts[Req[u]]]
  /\ pending' = [pending EXCEPT ![u] = Stores]
  /\ UNCHANGED <<cache, got, thrown, held, faults>>

StoreTakes(u, s) ==
  /\ s \in pending[u]
  /\ pending' = [pending EXCEPT ![u] = @ \ {s}]
  /\ held' = [held EXCEPT ![s] = @ \union {u}]
  /\ UNCHANGED <<pc, cache, got, fetched, thrown, faults>>

\* A future that throws, with its review stored or not.
StoreThrows(u, s) ==
  /\ s \in pending[u]
  /\ failures < MaxFailures
  /\ failures' = failures + 1
  /\ pending' = [pending EXCEPT ![u] = @ \ {s}]
  /\ thrown' = [thrown EXCEPT ![u] = @ \union {s}]
  /\ held' \in {held, [held EXCEPT ![s] = @ \union {u}]}
  /\ UNCHANGED <<pc, cache, got, fetched, losses, disturbed>>

\* get() rethrows; the futures that remain are waited for by their destructors.
Return(u) ==
  /\ Goes(u, "uploading", IF thrown[u] = {} THEN "returned" ELSE "error")
  /\ pending[u] = {}
  /\ UNCHANGED <<cache, got, composing, faults>>

-----------------------------------------------------------------------------
(* Memcached drops a key, ten seconds after it was added or to make room *)
LoseKey(r) ==
  /\ losses < MaxLosses
  /\ losses' = losses + 1
  /\ disturbed' = disturbed \union {r}
  /\ \/ /\ counter[r] # None
        /\ counter' = [counter EXCEPT ![r] = None]
        /\ UNCHANGED parts
     \/ /\ \E c \in Component :
             /\ parts[r][c] # None
             /\ parts' = [parts EXCEPT ![r] = [@ EXCEPT ![c] = None]]
        /\ UNCHANGED counter
  /\ UNCHANGED <<pc, got, composing, failures>>

UploadStep(u) ==
  \/ InitCounter(u) \/ StorePart(u)
  \/ IncrementCounter(u) \/ IncrementFails(u)
  \/ PeekCounter(u) \/ PeekMisses(u) \/ MemcachedFails(u)
  \/ Decide(u) \/ Fetch(u)
  \/ \E s \in Stores : StoreTakes(u, s) \/ StoreThrows(u, s)
  \/ Return(u)

Next ==
  \/ \E u \in Upload : Begin(u) \/ UploadStep(u)
  \/ \E r \in Request : LoseKey(r)

Spec == Init /\ [][Next]_vars

-----------------------------------------------------------------------------
(* Properties *)

\* The calls that compose, or have composed, the review of a request.
Composers(r) == {u \in Calls(r) : fetched[u] # NoParts \/ pc[u] = "fetch"}

\* The calls that added their part, as opposed to the repeated ones.
Adders(r) == {u \in Calls(r) : parts[r][Part[u]] = u}

\* The type invariant: every key, thread and store holds values the code puts
\* there.
TypeOK ==
  /\ pc \in [Upload -> {"idle", "init", "store", "count", "peek", "decide",
                        "fetch", "uploading"} \union Ended]
  /\ counter \in [Request -> Nat \union {None}]
  /\ parts \in [Request -> [Component -> Upload \union {None}]]
  /\ got \in [Upload -> Nat]
  /\ fetched \in [Upload -> [Component -> Upload \union {None}]]
  /\ pending \in [Upload -> SUBSET Stores]
  /\ thrown \in [Upload -> SUBSET Stores]
  /\ held \in [Stores -> SUBSET Upload]
  /\ failures \in Nat
  /\ losses \in Nat
  /\ disturbed \subseteq Request

\* A review goes to the stores with all its parts: whoever composes has seen
\* the counter at NUM_COMPONENTS, and by then every part is in memcached, however
\* the calls overlap and whichever of them are repeated.
WholeReviews ==
  \A r \in Request \ disturbed : \A u \in Composers(r) :
    pc[u] # "fetch" => \A c \in Component : fetched[u][c] # None

\* However often a review is composed, it is the same review: the first value
\* of a part stays.  (A repeated UploadUniqueId brings another review_id.)
SameReview ==
  \A r \in Request \ disturbed : \A u, v \in Composers(r) :
    pc[u] # "fetch" /\ pc[v] # "fetch" => fetched[u] = fetched[v]

\* Of the calls that added a part, at most one composes: a review is listed twice
\* for its movie only if a call has been repeated.
OneComposer ==
  \A r \in Request \ disturbed : \A u, v \in Composers(r) \intersect Adders(r) : u = v

\* When every part has come, and no call for it failed, the review is in the
\* three stores: the call that counted last has put it there.
Delivered ==
  \A r \in Request \ disturbed :
    /\ \A u \in Calls(r) : pc[u] \in {"idle", "returned"}
    /\ \A c \in Component : \E u \in Calls(r) : Part[u] = c /\ pc[u] = "returned"
    => \E u \in Calls(r) : \A s \in Stores : u \in held[s]

\* The code says (ComposeReviewHandler.h:340) that a call that cannot increment
\* the counter throws: the calls that returned have been counted.
ReturnedAreCounted ==
  \A r \in Request : losses = 0 /\ counter[r] # None =>
    counter[r] >= Cardinality({u \in Adders(r) : pc[u] = "returned"})
=============================================================================
