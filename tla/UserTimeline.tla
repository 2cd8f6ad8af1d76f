----------------------------- MODULE UserTimeline -----------------------------
(***************************************************************************)
(* UserTimelineService of socialNetwork (UserTimelineHandler.h), for one   *)
(* user.  MongoDB keeps his posts, the latest push in front; Redis keeps a *)
(* sorted set of as many of them as have been written or read lately, and  *)
(* may lose it.  ReadUserTimeline takes a page from Redis and, when Redis  *)
(* has not enough, goes on in MongoDB at the index where Redis ended.      *)
(* That is right only while Redis holds the newest posts without a gap,    *)
(* although nothing ties the two databases together.  With replication the *)
(* page is asked of a replica, which follows the primary in its own time;  *)
(* without, the two are the same set and never lag.                        *)
(***************************************************************************)
EXTENDS Naturals, Sequences, FiniteSets

CONSTANTS
  Post,         \* the posts of the user; WriteUserTimeline is called once for each
  Stamp,        \* Stamp[p]: its place in the order of Redis, by timestamp and then by id
  Reader,       \* threads that call ReadUserTimeline
  Page,         \* the pairs <<start, stop>> they ask for
  MaxFailures,  \* bound on the calls to the databases that fail
  MaxLosses     \* bound on the times Redis loses the set

ASSUME TimelineAssumption ==
  /\ IsFiniteSet(Post)
  /\ Stamp \in [Post -> Nat]
  /\ \A p, q \in Post : Stamp[p] = Stamp[q] => p = q
  /\ Page \subseteq Nat \X Nat /\ Page # {}
  /\ MaxFailures \in Nat
  /\ MaxLosses \in Nat

VARIABLES
  state,      \* where the call that writes each post is
  posts,      \* MongoDB: the array "posts", empty when there is no document
  cached,     \* Redis: the members of the sorted set
  replica,    \* the set as the replica has it
  phase,      \* where each reader is
  page,       \* what it asks for
  ids,        \* ids[d][p]: how often post p is in its post_ids
  slice,      \* its redis_update_map
  failures,
  losses,
  calm,       \* history: the readers whose reading met no write, no failed find
              \* and no replica that lags
  disturbed   \* history: something has made a gap in Redis possible

vars == <<state, posts, cached, replica, phase, page, ids, slice, failures, losses,
          calm, disturbed>>
readVars == <<phase, page, ids, slice>>
boundVars == <<failures, losses>>

Stored == {posts[i] : i \in 1..Len(posts)}
Writing(p) == state[p] \in {"pushing", "retrying", "pushed"}
NoIds == [p \in Post |-> 0]

Init ==
  /\ state = [p \in Post |-> "idle"]
  /\ posts = <<>>
  /\ cached = {}
  /\ replica = {}
  /\ phase = [d \in Reader |-> "idle"]
  /\ page = [d \in Reader |-> CHOOSE g \in Page : TRUE]
  /\ ids = [d \in Reader |-> NoIds]
  /\ slice = [d \in Reader |-> {}]
  /\ failures = 0
  /\ losses = 0
  /\ calm = {}
  /\ disturbed = FALSE

-----------------------------------------------------------------------------
(* WriteUserTimeline *)

Goes(p, from, to) ==
  /\ state[p] = from
  /\ state' = [state EXCEPT ![p] = to]

Begin(p) ==
  /\ Goes(p, "idle", "pushing")
  /\ calm' = {}
  /\ UNCHANGED <<posts, cached, replica, readVars, boundVars, disturbed>>

\* Without upsert a push does nothing when there is no document, and reports
\* success.
PushedToExisting(p) == IF posts = <<>> THEN posts ELSE <<p>> \o posts

\* $push with $position 0 and upsert: the document is made when there is none.
Pushed(p) == <<p>> \o posts

Push(p) ==
  /\ Goes(p, "pushing", "pushed")
  /\ posts' = Pushed(p)
  /\ UNCHANGED <<cached, replica, readVars, boundVars, calm, disturbed>>

\* The first attempt fails, because two calls insert the document at once or for
\* any other reason, and with or without effect.
PushFails(p) ==
  /\ failures < MaxFailures
  /\ failures' = failures + 1
  /\ Goes(p, "pushing", "retrying")
  /\ posts' \in {posts, Pushed(p)}
  /\ UNCHANGED <<cached, replica, readVars, losses, calm, disturbed>>

\* The second one has no upsert.
PushAgain(p) ==
  /\ Goes(p, "retrying", "pushed")
  /\ posts' = PushedToExisting(p)
  /\ disturbed' = (disturbed \/ p \in Stored \/ posts = <<>>)
  /\ UNCHANGED <<cached, replica, readVars, boundVars, calm>>

PushFailsAgain(p) ==
  /\ failures < MaxFailures
  /\ failures' = failures + 1
  /\ Goes(p, "retrying", "failed")
  /\ posts' \in {posts, PushedToExisting(p)}
  /\ disturbed' = (disturbed \/ p \in Stored \/ posts' # posts)
  /\ UNCHANGED <<cached, replica, readVars, losses, calm>>

Cache(p) ==
  /\ Goes(p, "pushed", "done")
  /\ cached' = cached \union {p}
  /\ UNCHANGED <<posts, replica, readVars, boundVars, calm, disturbed>>

\* zadd fails, and the call with it, with or without effect.
CacheFails(p) ==
  /\ failures < MaxFailures
  /\ failures' = failures + 1
  /\ Goes(p, "pushed", "failed")
  /\ cached' \in {cached, cached \union {p}}
  /\ disturbed' = TRUE
  /\ UNCHANGED <<posts, replica, readVars, losses, calm>>

-----------------------------------------------------------------------------
(* ReadUserTimeline *)

Moves(d, from, to) ==
  /\ phase[d] = from
  /\ phase' = [phase EXCEPT ![d] = to]

\* The rank of a member in zrevrange, the latest first.
Rank(p) == Cardinality({q \in replica : Stamp[q] > Stamp[p]})

\* Wrong: zrevrange includes its last rank, so it has to be stop - 1.
InRedisInclusive(start, stop) == {p \in replica : start <= Rank(p) /\ Rank(p) <= stop}

InRedis(start, stop) == {p \in replica : start <= Rank(p) /\ Rank(p) < stop}

AskRedis(d) ==
  \E g \in Page :
    /\ g[1] < g[2]
    /\ phase[d] = "idle"
    /\ LET found == InRedis(g[1], g[2])
       IN /\ ids' = [ids EXCEPT ![d] = [p \in Post |-> IF p \in found THEN 1 ELSE 0]]
          /\ phase' = [phase EXCEPT ![d] = IF g[1] + Cardinality(found) < g[2]
                                           THEN "mongo" ELSE "posts"]
    /\ page' = [page EXCEPT ![d] = g]
    /\ slice' = [slice EXCEPT ![d] = {}]
    /\ calm' = IF replica # cached \/ \E p \in Post : Writing(p)
               THEN calm \ {d} ELSE calm \union {d}
    /\ UNCHANGED <<state, posts, cached, replica, boundVars, disturbed>>

Found(d) == {p \in Post : ids[d][p] > 0}
MongoStart(d) == page[d][1] + Cardinality(Found(d))
SliceLength(d) == IF Len(posts) < page[d][2] THEN Len(posts) ELSE page[d][2]

\* Wrong: every post from mongo_start on is taken, as if nothing had been
\* written since Redis was asked.
WithAll(d) ==
  [p \in Post |-> ids[d][p] +
     Cardinality({i \in MongoStart(d) + 1 .. SliceLength(d) : posts[i] = p})]

\* From mongo_start on, the posts that are not in post_ids yet.
WithNew(d) ==
  [p \in Post |-> IF \E i \in MongoStart(d) + 1 .. SliceLength(d) : posts[i] = p
                  THEN 1 ELSE ids[d][p]]

\* Wrong: only the posts of this page are kept for Redis.
OnlyPage(d) == {posts[i] : i \in MongoStart(d) + 1 .. SliceLength(d)}

\* All that was read goes to redis_update_map, from the first post on.
Slice(d) == {posts[i] : i \in 1 .. SliceLength(d)}

AskMongo(d) ==
  /\ Moves(d, "mongo", "posts")
  /\ ids' = [ids EXCEPT ![d] = WithNew(d)]
  /\ slice' = [slice EXCEPT ![d] = Slice(d)]
  /\ UNCHANGED <<state, posts, cached, replica, page, boundVars, calm, disturbed>>

\* The cursor gives an error, which nobody looks at: it counts as no document.
FindFails(d) ==
  /\ failures < MaxFailures
  /\ failures' = failures + 1
  /\ Moves(d, "mongo", "posts")
  /\ slice' = [slice EXCEPT ![d] = {}]
  /\ calm' = calm \ {d}
  /\ UNCHANGED <<state, posts, cached, replica, page, ids, losses, disturbed>>

\* ReadPosts runs in a future while Redis takes the map; the handler waits for both.
FillRedis(d) ==
  /\ Moves(d, "posts", "filled")
  /\ cached' = cached \union slice[d]
  /\ UNCHANGED <<state, posts, replica, page, ids, slice, boundVars, calm, disturbed>>

\* The future has its posts, or throws.
Returns(d) ==
  /\ \/ Moves(d, "filled", "answered") \/ Moves(d, "filled", "failed")
  /\ UNCHANGED <<state, posts, cached, replica, page, ids, slice, boundVars, calm, disturbed>>

\* A database throws; Redis may have taken the map all the same.
ReadFails(d) ==
  /\ failures < MaxFailures
  /\ failures' = failures + 1
  /\ \/ phase[d] \in {"idle", "mongo"} /\ UNCHANGED cached
     \/ phase[d] = "posts" /\ slice[d] # {} /\ cached' \in {cached, cached \union slice[d]}
  /\ phase' = [phase EXCEPT ![d] = "failed"]
  /\ UNCHANGED <<state, posts, replica, page, ids, slice, losses, calm, disturbed>>

Again(d) ==
  /\ phase[d] \in {"answered", "failed"}
  /\ phase' = [phase EXCEPT ![d] = "idle"]
  /\ ids' = [ids EXCEPT ![d] = NoIds]
  /\ slice' = [slice EXCEPT ![d] = {}]
  /\ UNCHANGED <<state, posts, cached, replica, page, boundVars, calm, disturbed>>

-----------------------------------------------------------------------------
(* Redis loses the key, in a restart or to make room.  Writes and fills that *)
(* are on their way then put parts of the timeline into an empty set.        *)
OnItsWay ==
  \/ \E p \in Post : state[p] \in {"retrying", "pushed"}
  \/ \E d \in Reader : phase[d] = "posts" /\ slice[d] # {}

LoseCache ==
  /\ losses < MaxLosses
  /\ losses' = losses + 1
  /\ cached # {}
  /\ cached' = {}
  /\ disturbed' = (disturbed \/ OnItsWay)
  /\ UNCHANGED <<state, posts, replica, readVars, failures, calm>>

\* The primary does not wait for the replica.
Replicate ==
  /\ replica # cached
  /\ replica' = cached
  /\ UNCHANGED <<state, posts, cached, readVars, boundVars, calm, disturbed>>

WriteStep(p) ==
  \/ Push(p) \/ PushFails(p) \/ PushAgain(p) \/ PushFailsAgain(p)
  \/ Cache(p) \/ CacheFails(p)

ReadStep(d) == AskMongo(d) \/ FindFails(d) \/ FillRedis(d) \/ Returns(d) \/ ReadFails(d)

Next ==
  \/ \E p \in Post : Begin(p) \/ WriteStep(p)
  \/ \E d \in Reader : AskRedis(d) \/ ReadStep(d) \/ Again(d)
  \/ LoseCache
  \/ Replicate

Spec == Init /\ [][Next]_vars

-----------------------------------------------------------------------------
(* Properties *)

\* The type invariant.
TypeOK ==
  /\ state \in [Post -> {"idle", "pushing", "retrying", "pushed", "done", "failed"}]
  /\ posts \in Seq(Post)
  /\ cached \subseteq Post
  /\ replica \subseteq Post
  /\ phase \in [Reader -> {"idle", "mongo", "posts", "filled", "answered", "failed"}]
  /\ page \in [Reader -> Page]
  /\ ids \in [Reader -> [Post -> Nat]]
  /\ slice \in [Reader -> SUBSET Post]
  /\ failures \in Nat
  /\ losses \in Nat
  /\ calm \subseteq Reader
  /\ disturbed \in BOOLEAN

\* Redis holds the newest posts without a gap: whenever it has a post, it has all
\* that MongoDB lists before it, save those whose zadd is still to come.  Pages
\* are put together from both databases on this condition alone.
NoGap ==
  disturbed \/
  \A i, j \in 1..Len(posts) :
    i < j /\ posts[j] \in cached => posts[i] \in cached \/ Writing(posts[i])

\* Redis lists no post that MongoDB does not have: a timeline can be rebuilt.
CachedAreStored == disturbed \/ cached \subseteq Stored

\* ReadPosts never gets an identifier twice (it would throw), however the writes
\* fall between the two halves of the reading and however far the replica lags.
NoDuplicates == \A d \in Reader, p \in Post : ids[d][p] <= 1

\* A page that is read while nothing is written, nothing fails and no replica lags
\* is complete, wherever Redis ends within it: it has exactly as many posts as
\* there are from start to stop.
FullPages ==
  \A d \in calm :
    phase[d] \in {"posts", "filled", "answered"} /\ ~disturbed =>
      Cardinality(Found(d)) =
        IF page[d][1] < SliceLength(d) THEN SliceLength(d) - page[d][1] ELSE 0

=============================================================================
