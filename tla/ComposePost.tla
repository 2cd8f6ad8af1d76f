------------------------------ MODULE ComposePost ------------------------------
(***************************************************************************)
(* How a post is composed and becomes readable in socialNetwork: the       *)
(* handler of ComposePostService (ComposePostHandler.h), the handlers it   *)
(* calls in PostStorageService, UserTimelineService and                    *)
(* HomeTimelineService, and readers of the timelines.  Users follow and    *)
(* unfollow the authors meanwhile.                                         *)
(*                                                                         *)
(* A call is more than its reply: the caller may get an exception (no      *)
(* client from the pool, a refused or broken connection) before the        *)
(* request is delivered, while the callee runs, or after it has finished,  *)
(* and a callee that was reached goes on whatever the caller does.  In the *)
(* same way a handler may throw while its write is still on the way to the *)
(* database.  The unique ids come from UniqueIdService, which may repeat   *)
(* one.                                                                    *)
(***************************************************************************)
EXTENDS Naturals, FiniteSets

CONSTANTS
  Request,    \* the calls of ComposePost
  User,
  PostId,
  NoId,       \* the id of a request that has none yet
  Author,     \* Author[r]: the user_id of request r
  Followers,  \* Followers[u]: what GetFollowers answers for u at first
  Changing,   \* the pairs <<u, v>> such that v may follow and unfollow u
  Mentions,   \* Mentions[r]: the users the text of r mentions
  Veteran,    \* the users who have posts, which are not followed here, in MongoDB
  Reader      \* threads that read timelines

ASSUME ComposeAssumption ==
  /\ NoId \notin PostId
  /\ Author \in [Request -> User]
  /\ Followers \in [User -> SUBSET User]
  /\ Changing \subseteq User \X User
  /\ Mentions \in [Request -> SUBSET User]
  /\ Veteran \subseteq User

VARIABLES
  pc,        \* where the handler of ComposePost is
  pending,   \* its futures that have not finished
  broken,    \* has one of them thrown?
  id,        \* the post id, once UniqueIdService has answered
  task,      \* task[r][s]: the handler of r's call at service s
  todo,      \* the home timelines the handler has still to write for r
  late,      \* the writes of its handlers that failed and may still take effect
  stored,    \* post collection of MongoDB: the requests whose post is in it
  timeline,  \* user-timeline collection of MongoDB, as sets of post ids
  cache,     \* the Redis sets of UserTimelineService
  home,      \* the Redis sets of HomeTimelineService
  followers, \* what GetFollowers of SocialGraphService answers
  steady,    \* the author's followers at every moment since r began, and
  seen,      \* at some moment since: both observe and constrain nothing
  reading,   \* the ids each reader has found in a timeline
  filling,   \* <<u, i>>: a reader is about to add i to the Redis set of u
  answer     \* what the last ReadPosts answered to it

vars == <<pc, pending, broken, id, task, todo, late, stored, timeline, cache, home,
          followers, steady, seen, reading, filling, answer>>
readVars == <<reading, filling, answer>>
callerVars == <<pc, pending, broken, id>>
jobVars == <<task, todo, late>>
dbVars == <<stored, timeline, cache, home>>
graphVars == <<followers, steady, seen>>

Parts == {"unique_id", "creator", "media", "text"}
Services == {"store", "user", "home"}

Init ==
  /\ pc = [r \in Request |-> "idle"]
  /\ pending = [r \in Request |-> {}]
  /\ broken = [r \in Request |-> FALSE]
  /\ id = [r \in Request |-> NoId]
  /\ task = [r \in Request |-> [s \in Services |-> "none"]]
  /\ todo = [r \in Request |-> {}]
  /\ late = [r \in Request |-> {}]
  /\ stored = {}
  /\ timeline = [u \in User |-> {}]
  /\ cache = [u \in User |-> {}]
  /\ home = [u \in User |-> {}]
  /\ followers = Followers
  /\ steady = [r \in Request |-> {}]
  /\ seen = [r \in Request |-> {}]
  /\ reading = [d \in Reader |-> {}]
  /\ filling = [d \in Reader |-> {}]
  /\ answer = [d \in Reader |-> "none"]

-----------------------------------------------------------------------------
(* ComposePostService *)

\* ComposePost launches the four helpers as asynchronous futures.
Compose(r) ==
  /\ pc[r] = "idle"
  /\ pc' = [pc EXCEPT ![r] = "compose"]
  /\ pending' = [pending EXCEPT ![r] = Parts]
  /\ steady' = [steady EXCEPT ![r] = followers[Author[r]]]
  /\ seen' = [seen EXCEPT ![r] = followers[Author[r]]]
  /\ UNCHANGED <<broken, id, jobVars, dbVars, followers, readVars>>

PartReturns(r, p) ==
  /\ p \in pending[r]
  /\ pending' = [pending EXCEPT ![r] = @ \ {p}]
  /\ IF p = "unique_id"
     THEN \E i \in PostId : id' = [id EXCEPT ![r] = i]
     ELSE UNCHANGED id
  /\ UNCHANGED <<pc, broken, jobVars, dbVars, graphVars, readVars>>

PartThrows(r, p) ==
  /\ p \in pending[r]
  /\ pending' = [pending EXCEPT ![r] = @ \ {p}]
  /\ broken' = [broken EXCEPT ![r] = TRUE]
  /\ UNCHANGED <<pc, id, jobVars, dbVars, graphVars, readVars>>

\* get() on the four futures.  An exception leaves the handler, but not
\* before every future has finished: their destructors wait for them.
Join(r) ==
  /\ pc[r] = "compose"
  /\ pending[r] = {}
  /\ pc' = [pc EXCEPT ![r] = IF broken[r] THEN "failed" ELSE "store"]
  /\ UNCHANGED <<pending, broken, id, jobVars, dbVars, graphVars, readVars>>

\* Wrong: the three uploads start together.
DeliverAsync(r, s) ==
  /\ pc[r] \in Services
  /\ task[r][s] = "none"
  /\ task' = [task EXCEPT ![r][s] = "running"]
  /\ UNCHANGED <<callerVars, todo, late, dbVars, graphVars, readVars>>

\* The request of the current call is sent; its handler may start much later.
Deliver(r, s) ==
  /\ pc[r] = s
  /\ task[r][s] = "none"
  /\ task' = [task EXCEPT ![r][s] = "running"]
  /\ UNCHANGED <<callerVars, todo, late, dbVars, graphVars, readVars>>

\* The caller gets an exception of its own, whatever the callee does.
CallBreaks(r) ==
  /\ pc[r] \in Services
  /\ pc' = [pc EXCEPT ![r] = "failed"]
  /\ UNCHANGED <<pending, broken, id, jobVars, dbVars, graphVars, readVars>>

\* post_future runs at once; the other two are deferred and start, one after
\* the other, when get() is called on them.
After == [store |-> "user", user |-> "home", home |-> "ok"]
Ended == {"done", "error"}

CallReturns(r) ==
  /\ pc[r] \in Services
  /\ task[r][pc[r]] \in Ended
  /\ pc' = [pc EXCEPT ![r] = IF task[r][pc[r]] = "done" THEN After[pc[r]]
                                                        ELSE "failed"]
  /\ UNCHANGED <<pending, broken, id, jobVars, dbVars, graphVars, readVars>>

-----------------------------------------------------------------------------
(* The handlers of the three services *)

HandlerMoves(r, s, from, to) ==
  /\ task[r][s] = from
  /\ task' = [task EXCEPT ![r][s] = to]
  /\ UNCHANGED <<callerVars, graphVars, readVars>>

\* The handler takes write w for failed, or never sends it; once sent, it may
\* reach the database at any later time.
GivesUp(r, s, from, to, w) ==
  /\ HandlerMoves(r, s, from, to)
  /\ late' = [late EXCEPT ![r] = @ \union {w}]
  /\ UNCHANGED <<todo, dbVars>>

\* Wrong: an insert without the unique index.
InsertUnchecked(r) ==
  /\ stored' = stored \union {r}
  /\ UNCHANGED <<todo, timeline, cache, home>>

\* The writes.  The unique index on post_id refuses an id it has.
Insert(r) ==
  /\ \A q \in stored : id[q] # id[r]
  /\ stored' = stored \union {r}
  /\ UNCHANGED <<todo, timeline, cache, home>>

Push(r) ==
  /\ timeline' = [timeline EXCEPT ![Author[r]] = @ \union {id[r]}]
  /\ UNCHANGED <<todo, stored, cache, home>>

Zadd(r) ==
  /\ cache' = [cache EXCEPT ![Author[r]] = @ \union {id[r]}]
  /\ UNCHANGED <<todo, stored, timeline, home>>

\* The zadd of one recipient, in a pipeline, which is no transaction.
ZaddHome(r, u) ==
  /\ u \in todo[r]
  /\ todo' = [todo EXCEPT ![r] = @ \ {u}]
  /\ home' = [home EXCEPT ![u] = @ \union {id[r]}]
  /\ UNCHANGED <<stored, timeline, cache>>

StorePost(r) ==
  /\ HandlerMoves(r, "store", "running", "done")
  /\ Insert(r)
  /\ UNCHANGED late

StorePostFails(r) == GivesUp(r, "store", "running", "error", "insert")

\* WriteUserTimeline: find_and_modify in MongoDB with upsert ...
PushTimeline(r) ==
  /\ HandlerMoves(r, "user", "running", "pushed")
  /\ Push(r)
  /\ UNCHANGED late

UpsertFails(r) == GivesUp(r, "user", "running", "again", "upsert")

\* ... when that fails once more without, which does nothing to a user who has
\* no document and reports success all the same ...
HasTimeline(u) == u \in Veteran \/ timeline[u] # {}

Update(r) ==
  \/ HasTimeline(Author[r]) /\ Push(r)
  \/ ~HasTimeline(Author[r]) /\ UNCHANGED <<todo, dbVars>>

\* Wrong: a failed upsert passes for one that met the upsert of another call, and
\* is not tried again.
UpdateNothing(r) ==
  /\ HandlerMoves(r, "user", "again", "pushed")
  /\ UNCHANGED <<todo, late, dbVars>>

UpdateTimeline(r) ==
  /\ HandlerMoves(r, "user", "again", "pushed")
  /\ Update(r)
  /\ UNCHANGED late

\* ... then zadd in Redis.
CacheTimeline(r) ==
  /\ HandlerMoves(r, "user", "pushed", "done")
  /\ Zadd(r)
  /\ UNCHANGED late

WriteUserTimelineFails(r) ==
  \/ /\ HandlerMoves(r, "user", "running", "error")
     /\ UNCHANGED <<todo, late, dbVars>>
  \/ GivesUp(r, "user", "again", "error", "update")
  \/ GivesUp(r, "user", "pushed", "error", "zadd")

\* WriteHomeTimeline: the followers of the moment and the mentioned users ...
FetchRecipients(r) ==
  /\ followers[Author[r]] # {}
  /\ HandlerMoves(r, "home", "running", "fetched")
  /\ todo' = [todo EXCEPT ![r] = followers[Author[r]] \union Mentions[r]]
  /\ UNCHANGED <<late, dbVars>>

\* ... of whom GetFollowers knows none when the author has no document or its
\* find fails (for a document without followers it throws) ...
FetchNobody(r) ==
  /\ HandlerMoves(r, "home", "running", "fetched")
  /\ todo' = [todo EXCEPT ![r] = Mentions[r]]
  /\ UNCHANGED <<late, dbVars>>

\* ... each get the post.
WriteHome(r, u) ==
  /\ task[r]["home"] = "fetched"
  /\ ZaddHome(r, u)
  /\ UNCHANGED <<callerVars, task, late, graphVars, readVars>>

WriteHomeDone(r) ==
  /\ HandlerMoves(r, "home", "fetched", "done")
  /\ todo[r] = {}
  /\ UNCHANGED <<todo, late, dbVars>>

WriteHomeTimelineFails(r) ==
  /\ \E from \in {"running", "fetched"} : HandlerMoves(r, "home", from, "error")
  /\ UNCHANGED <<todo, late, dbVars>>

\* A write whose handler has given it up reaches the database.
Lands(r, w) ==
  /\ w \in late[r]
  /\ late' = [late EXCEPT ![r] = @ \ {w}]
  /\ UNCHANGED <<callerVars, task, graphVars, readVars>>

LateWrite(r) ==
  \/ Lands(r, "insert") /\ Insert(r)
  \/ Lands(r, "upsert") /\ Push(r)
  \/ Lands(r, "update") /\ Update(r)
  \/ Lands(r, "zadd") /\ Zadd(r)
  \/ /\ task[r]["home"] = "error"
     /\ \E u \in User : ZaddHome(r, u)
     /\ UNCHANGED <<callerVars, task, late, graphVars, readVars>>

-----------------------------------------------------------------------------
(* Followers *)

\* The answer of GetFollowers for u gains v by a write of a Follow, or of a
\* fill of Redis, and loses v by one of an Unfollow or when Redis loses its key:
\* SocialGraph models these one by one.
GainsFollower(u, v) ==
  /\ <<u, v>> \in Changing
  /\ followers' = [followers EXCEPT ![u] = @ \union {v}]
  /\ seen' = [r \in Request |-> IF Author[r] = u /\ pc[r] # "idle"
                               THEN seen[r] \union {v} ELSE seen[r]]
  /\ UNCHANGED <<callerVars, jobVars, dbVars, steady, readVars>>

LosesFollower(u, v) ==
  /\ <<u, v>> \in Changing
  /\ followers' = [followers EXCEPT ![u] = @ \ {v}]
  /\ steady' = [r \in Request |-> IF Author[r] = u THEN steady[r] \ {v}
                                                   ELSE steady[r]]
  /\ UNCHANGED <<callerVars, jobVars, dbVars, seen, readVars>>

-----------------------------------------------------------------------------
(* Readers *)

\* ReadHomeTimeline and ReadUserTimeline take a page of ids, from a Redis
\* replica that may lag or, the second, from Redis and then MongoDB ...
ReadHomeTimeline(d, u) ==
  /\ reading[d] = {}
  /\ filling[d] = {}
  /\ \E page \in SUBSET home[u] : reading' = [reading EXCEPT ![d] = page]
  /\ UNCHANGED <<callerVars, jobVars, dbVars, graphVars, filling, answer>>

ReadUserTimeline(d, u) ==
  /\ reading[d] = {}
  /\ filling[d] = {}
  /\ \E page \in SUBSET (cache[u] \union timeline[u]) :
       reading' = [reading EXCEPT ![d] = page]
  /\ \E found \in SUBSET timeline[u] :
       filling' = [filling EXCEPT ![d] = {u} \X found]
  /\ UNCHANGED <<callerVars, jobVars, dbVars, graphVars, answer>>

\* ... put what MongoDB gave into Redis, which may fail ...
FillCache(d) ==
  /\ filling[d] # {}
  /\ \/ cache' = [u \in User |-> cache[u] \union {i \in PostId : <<u, i>> \in filling[d]}]
     \/ UNCHANGED cache
  /\ filling' = [filling EXCEPT ![d] = {}]
  /\ UNCHANGED <<callerVars, jobVars, stored, timeline, home, graphVars,
                 reading, answer>>

\* ... and call ReadPosts, which throws "Return set incomplete" unless it
\* finds every one of them.
ReadPosts(d) ==
  /\ reading[d] # {}
  /\ answer' = [answer EXCEPT ![d] = IF reading[d] \subseteq {id[r] : r \in stored}
                                     THEN "posts" ELSE "incomplete"]
  /\ reading' = [reading EXCEPT ![d] = {}]
  /\ UNCHANGED <<callerVars, jobVars, dbVars, graphVars, filling>>

-----------------------------------------------------------------------------
\* What the handlers do to completion by themselves.
ComposeStep(r) ==
  \/ \E p \in Parts : PartReturns(r, p) \/ PartThrows(r, p)
  \/ Join(r) \/ CallReturns(r) \/ \E s \in Services : Deliver(r, s)

HandlerStep(r) ==
  \/ StorePost(r) \/ StorePostFails(r)
  \/ PushTimeline(r) \/ UpsertFails(r) \/ UpdateTimeline(r) \/ CacheTimeline(r)
  \/ WriteUserTimelineFails(r)
  \/ FetchRecipients(r) \/ FetchNobody(r) \/ \E u \in User : WriteHome(r, u)
  \/ WriteHomeDone(r) \/ WriteHomeTimelineFails(r)

ReadStep(d) ==
  \/ \E u \in User : ReadHomeTimeline(d, u) \/ ReadUserTimeline(d, u)
  \/ FillCache(d) \/ ReadPosts(d)

Next ==
  \/ \E r \in Request :
       Compose(r) \/ ComposeStep(r) \/ CallBreaks(r) \/ HandlerStep(r)
       \/ LateWrite(r)
  \/ \E u, v \in User : GainsFollower(u, v) \/ LosesFollower(u, v)
  \/ \E d \in Reader : ReadStep(d)

Spec == Init /\ [][Next]_vars

-----------------------------------------------------------------------------
(* Properties *)

TypeOK ==
  /\ pc \in [Request -> {"idle", "compose", "ok", "failed"} \union Services]
  /\ pending \in [Request -> SUBSET Parts]
  /\ broken \in [Request -> BOOLEAN]
  /\ id \in [Request -> PostId \union {NoId}]
  /\ task \in [Request -> [Services ->
                          {"none", "running", "again", "pushed", "fetched"} \union Ended]]
  /\ todo \in [Request -> SUBSET User]
  /\ late \in [Request -> SUBSET {"insert", "upsert", "update", "zadd"}]
  /\ stored \subseteq Request
  /\ timeline \in [User -> SUBSET PostId]
  /\ cache \in [User -> SUBSET PostId]
  /\ home \in [User -> SUBSET PostId]
  /\ followers \in [User -> SUBSET User]
  /\ steady \in [Request -> SUBSET User]
  /\ seen \in [Request -> SUBSET User]
  /\ reading \in [Reader -> SUBSET PostId]
  /\ filling \in [Reader -> SUBSET (User \X PostId)]
  /\ answer \in [Reader -> {"none", "posts", "incomplete"}]

\* A read of a timeline never fails because a post it lists is not stored yet:
\* the reason ComposePostHandler.h gives for deferring the two timeline
\* writes until the post is stored.
NeverIncomplete == \A d \in Reader : answer[d] # "incomplete"

\* An id that UniqueIdService hands out twice never puts one user's post into
\* the timeline of another, nor into the home of a user who is not mentioned
\* and has not followed the author at any moment since the post was composed.
Audience(r) == seen[r] \union Mentions[r]
Posts(i) == {r \in stored : id[r] = i}
RightReaders ==
  \A u \in User :
    /\ \A i \in timeline[u] \union cache[u] :
         \A r \in Posts(i) : Author[r] = u
    /\ \A i \in home[u] : \A r \in Posts(i) : u \in Audience(r)

\* When ComposePost has returned without an exception, the post is stored and
\* in the Redis set of the author, and in MongoDB unless it was among his first.
\* Every mentioned user has it and everyone who has followed the author all
\* along, whoever follows or unfollows between the read of the followers and the
\* writes; or, if GetFollowers took an error for an empty list, the mentioned
\* users and nobody else: no follower is ever left out by himself.
SuccessIsComplete ==
  \A r \in Request : pc[r] = "ok" =>
    /\ r \in stored
    /\ id[r] \in cache[Author[r]]
    /\ Author[r] \in Veteran => id[r] \in timeline[Author[r]]
    /\ \/ \A u \in steady[r] \union Mentions[r] : id[r] \in home[u]
       \/ \A u \in User : id[r] \in home[u] <=> u \in Mentions[r]

\* Composing keeps the order in which a post becomes readable, also when
\* calls break, services fail half way and ids repeat.  A reader of the author's
\* timeline looks into Redis and MongoDB, and either may be the first to have it.
Listed == {r \in stored : id[r] \in timeline[Author[r]] \union cache[Author[r]]}
Delivered == {p \in stored \X User : id[p[1]] \in home[p[2]]}
Visibility == INSTANCE PostVisibility WITH
                audience <- [r \in Request |-> Audience(r)],
                stored <- stored,
                listed <- Listed,
                delivered <- Delivered
ImplementsVisibility == Visibility!Spec
=============================================================================
