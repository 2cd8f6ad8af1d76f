# A TLA+ model of the microservice benchmark suite

This directory holds TLA+ specifications of the programs in this repository,
the TLC configurations that check them on small instances, and TLAPS proofs of
what matters most.  The repository is a fork of DeathStarBench: three
applications made of small services (`socialNetwork`, `mediaMicroservices`,
`hotelReservation`), the load generator `wrk2`, and the scripts that inject
faults and collect traces.  The applications carry the logic, and what is hard
about them is the same everywhere: a request fans out to services that share
nothing but databases and caches, several threads and several requests do so at
once, and any call may fail half way.  That is what the modules are about.

The project has three kinds of results.  TLC checks every module on small
instances, with failures and losses in all orders.  TLAPS proves the safety
properties for all values of the constants.  Two runs show places where the
code does something else than its comments say; they are described under
*Findings*.

`PROJECT.json` lists the components, runs, hazards, findings and theorems, and
gives for every definition that models code the lines it stands for.

## Inventory

### socialNetwork (C++, Thrift, `src/socialNetwork/src`)

| part | state it keeps | operations | talks to |
|---|---|---|---|
| client pool (`ClientPool.h`, `ThriftClient.h`) | free list, connection count, mutex, condition variable | Pop, Push, Keepalive, Remove | used by every handler for every downstream service |
| ComposePostService | none | ComposePost | text, user, media and unique-id services, then post storage, then both timeline services |
| PostStorageService | MongoDB `post` (unique `post_id`), memcached | StorePost, ReadPost, ReadPosts | - |
| UserTimelineService | MongoDB `user-timeline` (one document per user, newest first), Redis sorted set per user | WriteUserTimeline, ReadUserTimeline | post storage |
| HomeTimelineService | Redis sorted set per user only | WriteHomeTimeline, ReadHomeTimeline | social graph, post storage |
| SocialGraphService | MongoDB `social-graph` (one document per user with `followers` and `followees`), Redis sorted sets `u:followers`, `u:followees` | Follow, Unfollow, GetFollowers, GetFollowees, InsertUser, FollowWithUsername, UnfollowWithUsername | user service |
| UserService | MongoDB `user`, memcached, a counter | RegisterUser, RegisterUserWithId, Login, ComposeCreatorWithUsername, GetUserId | social graph |
| UniqueIdService | a counter and the last millisecond seen | ComposeUniqueId | - |
| TextService, UserMentionService, UrlShortenService, MediaService | MongoDB `url-shorten`; memcached and MongoDB of users (read) | ComposeText, ComposeUserMentions, ComposeUrls, ComposeMedia | each other |
| WriteHomeTimelineService, RabbitmqClient | a queue | not built (commented out in `src/CMakeLists.txt`) | - |

### mediaMicroservices (C++, Thrift, `src/mediaMicroservices/src`)

| part | state it keeps | operations |
|---|---|---|
| client pool (another version of `ClientPool.h`) | as above | Pop, Push; Remove and a Push with a timeout have no caller |
| ComposeReviewService | memcached: a counter and five components per request, 10 s expiry | UploadMovieId, UploadUserId, UploadUniqueId, UploadText, UploadRating |
| UserReviewService, MovieReviewService | MongoDB document per user / movie, Redis sorted set | UploadUserReview, ReadUserReviews; UploadMovieReview, ReadMovieReviews |
| ReviewStorageService, MovieIdService, CastInfoService, PlotService, MovieInfoService, RatingService, TextService, UniqueIdService, UserService | MongoDB collection and memcached / Redis each | Store/Read/Upload/Write of one record |
| PageService | none | ReadPage (fan-out of reads) |

### hotelReservation (Go, gRPC, `src/hotelReservation`)

| part | state it keeps | operations |
|---|---|---|
| reservation | MongoDB `reservation`, `number` (capacity); memcached counts | MakeReservation, CheckAvailability |
| rate, profile, review, attractions | MongoDB, memcached (read-through) | GetRates, GetProfiles, GetReviews, Nearby... |
| search, geo, recommendation, user, frontend | in-memory indexes read at start | queries only |

### Others

`wrk2` (open-loop load generator: event loop, rate schedule, histograms),
`ms_collecter`, `chaos-mesh`, `prometheus`, `jaeger`, the nginx Lua front ends,
generated Thrift code and vendored libraries.

### How the parts interact

* **Calls.** A handler takes a client from the pool of the callee
  (`ClientPool`), makes one Thrift or gRPC call, and gives the client back.
  A caller that gets an exception does not know whether the callee was reached,
  and a callee that was reached goes on.  Nothing is retried by the services
  themselves except the second push of `WriteUserTimeline`.
* **Futures.** A handler that starts `std::async` futures and leaves on an
  exception of one of them still waits for the others, in their destructors.
  `std::launch::deferred` futures run one after the other when `get()` is
  called; `ComposePost` uses this to order its uploads.
* **Two databases.** A record is in MongoDB, and a copy is in Redis or
  memcached.  There is no transaction over the two, the copy may vanish at any
  time, and it is written by those who write and by those who read.
* **Meeting in a cache.** The parts of a review meet in memcached only, and
  the calls that bring them share no other state.
* **Panics.** A Go service that gets an unexpected error calls `log.Panic`,
  which ends the process with all the calls it serves.

### What is hard, and what has to hold

| component | what makes it hard | what has to hold |
|---|---|---|
| client pool | notifications after the unlock, absolute deadlines, exceptions between taking and giving back a place | places are neither lost nor counted twice; one user per connection; no wake-up lost; whoever waits in Pop leaves it, even if callees hang |
| ComposePost with post storage and the timelines | a broken call whose callee goes on, writes that come late, errors taken for empty answers, identifiers that repeat, pipelines without transactions | a post is stored before it is listed and listed before it is delivered; only its audience gets it; success leaves out nobody by himself |
| social graph | four copies of one edge, three concurrent futures per call, keys that Redis loses, readers that fill it with old answers | an edge is listed once; copies at rest agree with the latest call; readers are right about edges at rest, whether Redis answers or MongoDB |
| user timeline | pages put together from Redis, or a replica of it that lags, and MongoDB by index | Redis has the newest posts without a gap; no duplicates on a page; pages are full |
| compose review | a counter and five keys that expire one by one, repeated calls | reviews go out whole, in one version, once, and do go out |
| reservation | check and write apart, counts that go stale, dropped errors, panics | nights are not overbooked; counts have no phantom rooms; refusals have a reason; stays are stored whole |
| client pool of mediaMicroservices | a push_back outside the lock, a predicate that looks at half of what Pop waits for, handlers that leave with a client | the count is exact and a connection has one user until two accesses race; whoever sleeps beside a free connection was not notified of it; whoever waits in Pop leaves it |
| user registration and unique id | a check and an insert without an index on the name, two services that must both have the user, two keys for one document, a process that exits | identifiers and names are unique; reported success means a whole user; every lookup gives one identity; owners get in |
| movie and user reviews | a cache that is only written if it was there, texts stored and listed in parallel, first reviews that race | the cache is the newest part of the list; pages are right; nothing that returned is lost or listed twice |

## The modules

Every module takes its parameters as CONSTANTS with a named ASSUME, has one
action for each atomic piece of a handler, and states its properties at the
end.  A definition whose comment begins with *Wrong* is a plausible mistake in
the code; it is not part of the specification and serves to see that a property
notices it.  `MC...` modules hold the instances for TLC, `...Proofs` modules the
theorems.

| module | about | abstract specification |
|---|---|---|
| `ClientPool` | the pool of socialNetwork | `ConnectionLease` |
| `ComposePost` | ComposePostService, with the handlers it calls in post storage, user timeline and home timeline, and readers | `PostVisibility` |
| `SocialGraph` | SocialGraphService over MongoDB and Redis | - |
| `UserTimeline` | UserTimelineService over MongoDB and Redis, page by page | - |
| `ComposeReview` | ComposeReviewService over memcached | - |
| `Reservation` | the reservation service over memcached and MongoDB | - |
| `MediaClientPool` | the pool of mediaMicroservices, and how its handlers use it | `ConnectionLease`, until a race |
| `UniqueId`, `UserService` | how identifiers are made; registration, login and lookups of UserService, which makes its own | - |
| `ReviewLists` | MovieReviewService and UserReviewService over MongoDB and Redis, with ReviewStorageService | - |

`UserService` EXTENDS `UniqueId`, whose steps are part of its own.  `ClientPool`,
`MediaClientPool` and `ComposePost` have their abstract specifications as instances
under a refinement mapping.  The proof modules are named after the modules above;
`MediaProofs` has those of `MediaClientPool` and of `ReviewLists`.

### History variables

Some of what these services promise holds only while certain things do not
happen.  The modules do not leave these things out; they record them.  A history
variable is never read by a guard.

* `disturbed` names the data (edges, requests, nights, names, or the one timeline)
  for which a step has made the promise void.  Each action that adds to it states
  why: two calls overlapped, a failure went unseen, a key was lost.  A property
  about undisturbed data therefore says precisely which events can break it, and
  the theorem says that there are no others.  In `SocialGraph` a call that has
  the edge to itself takes the edge out of `disturbed` again.
* `dropped` (`ClientPool`) and `silent` (`MediaClientPool`) count the wake-ups that
  an exception has swallowed and the connections put back without a notification,
  since a thread last went to sleep; `made`, `leaked` and `raced`
  (`MediaClientPool`) have the connections constructed, those that handlers left
  with, and whether an access to the list has met a push_back outside the lock.
* `wanted` (`SocialGraph`) is what the latest call on each edge asked for.
* `calm` (`UserTimeline`, `ReviewLists`) has the readers whose reading met no write,
  no failed database and no replica that lags.
* `stale` and `gap` (`ReviewLists`) follow a reader that fills Redis, or an upload
  that overlaps one, until what it did not know of has left Redis incomplete.
* `crashed` and `vacant` (`Reservation`) say that the process has panicked, and
  whether there was room when CheckAvailability last answered.
* `issued` and `life` (`UniqueId`) are the identifiers made so far and the process
  of each host; `known` and `garbled` (`UserService`) the registrations that had
  returned when a lookup began, and the lookups that read an unset pointer.

### ClientPool

| in the module | in the code (`ClientPool.h`) |
|---|---|
| `pool`, `curr` | `_pool`, `_curr_pool_size` |
| `client[t]`, `pc[t]` | the pointer in the handler of thread t, and where it is |
| PopEnters, PopBlocks, PopResumes, PopWaitsAgain, PopTimesOut | the locked parts of Pop: `wait_until` is split where it releases the lock |
| WakesSpuriously, DeadlinePasses | the condition variable |
| Connects, ConnectFails | the Connect after the unlock and its error path |
| CallFails, Keepalive (Push or DeleteClient) | what the handlers do after the RPC |
| RemoveUncounts, NotifyOne | the locked part of Remove; `notify_one`, which comes after the unlock |

A critical section is one step.  The age of a connection is a free choice in
Keepalive.  `ClientPool` implements `ConnectionLease`, a budget of `MaxSize`
leases, under the mapping `open <- Live`, `lessee <- client`: a thread may open
a connection only while there are fewer than `MaxSize`, and a connection is
leased to one thread.

### ComposePost

| in the module | in the code |
|---|---|
| `pc`, `pending`, `broken`, `id` | the handler of ComposePost, its four futures, what unique-id answered |
| `task[r][s]`, `todo` | the handlers of StorePost, WriteUserTimeline and WriteHomeTimeline for r, and the recipients still to be written |
| `stored`, `timeline`, `cache`, `home` | MongoDB `post` and `user-timeline`, the Redis sets of both timeline services |
| PartReturns, PartThrows, Join | the four futures and `get()` on them |
| Deliver, CallBreaks, CallReturns | a call of one of the three services: the request arrives, the caller gets an exception of its own, the reply comes |
| StorePost | StorePost |
| PushTimeline, UpsertFails, UpdateTimeline, CacheTimeline | WriteUserTimeline: find_and_modify with upsert, when it fails the same without, then zadd.  The second does nothing to a user who has no document and reports success, so the post may be in Redis only; `Veteran` has the users who have a document at first |
| FetchRecipients, FetchNobody, WriteHome, WriteHomeDone | WriteHomeTimeline.  GetFollowers takes a failed find, or a user without a document, for a user without followers: then only the mentioned get the post |
| StorePostFails, WriteUserTimelineFails, WriteHomeTimelineFails | the other failures of the handlers |
| `late`, LateWrite | a write that its handler has given up reaches its database, at any time or never |
| GainsFollower, LosesFollower, `followers` | what GetFollowers of SocialGraphService answers changes, at any moment |
| ReadHomeTimeline, ReadUserTimeline, FillCache, ReadPosts | readers; the page is any part of the timeline, so a lagging Redis replica is included |

It implements `PostVisibility`: a post is stored, then listed by its author, then
delivered to its audience, and nothing is withdrawn.  Listed means that the
author's timeline has it in Redis or in MongoDB; a reader looks into both, and
neither is always the first to have it.  The followers change while
WriteHomeTimeline, which has read them, writes.  `steady[r]` and `seen[r]` only
observe: who has followed the author of r at every moment, and at some moment,
since the call began.  Between the two the code may deliver or not.

### SocialGraph

| in the module | in the code (`SocialGraphHandler.h`) |
|---|---|
| `entries[s][e]` | how often array `followers` or `followees` of MongoDB has the edge |
| `cached[s]` | the sorted sets of Redis |
| `state`, `todo`, `lost` | a call, its writes that are not done, and those whose future has thrown |
| `asking[d]` | a reader between its zrange, its find and its zadd |
| Follow, Unfollow, MongoWrite, RedisWrite, FutureThrows, WriteVanishes, Return | a call, future by future; a write may take effect after its future has thrown, or never |
| AskRedis, FindDocument, Fill | GetFollowers and GetFollowees: zrange; the find, if that was empty; the zadd of what it found |
| FindNothing, FindFails | no document, or a find that fails, which `mongoc_cursor_next` reports in the same way: GetFollowers answers that there are no followers, GetFollowees throws |
| AskThrows, FillThrows | no client or a zrange that throws; a zadd that throws, as it always does when there is nothing to add |
| InsertUser, LoseKey | InsertUser; Redis loses a key |

What Redis has under a key passes for all of it.  A key that is lost does not
hurt as long as nothing is there: readers turn to MongoDB (`Gone`).  Once a call
on another edge, or a reader whose answer is old, writes something under it, the
edges it does not write are `Omitted` from every answer, and they are disturbed
until a call of their own puts them right.  `Followed` has the edges that are in
all four copies at first.

### UserTimeline

| in the module | in the code (`UserTimelineHandler.h`) |
|---|---|
| `posts`, `cached`, `replica` | the array of MongoDB, the sorted set of Redis, the set as the replica has it that readers ask |
| `state[p]` | the call that writes post p |
| `phase`, `page`, `ids`, `slice` | a reader, what it asks for, its `post_ids` and its `redis_update_map` |
| Push, PushFails, PushAgain, PushFailsAgain, Cache, CacheFails | WriteUserTimeline: push with upsert, again without, then zadd |
| AskRedis, AskMongo, FindFails, FillRedis, Returns, ReadFails, Again | ReadUserTimeline |
| LoseCache, Replicate | Redis loses the set; the replica catches up.  Without replication a Replicate follows each write at once |

### ComposeReview

| in the module | in the code (`ComposeReviewHandler.h`) |
|---|---|
| `counter[r]`, `parts[r][c]` | the keys `req_id:counter`, `req_id:movie_id`, ... |
| `got[u]` | `counter_value` of a call |
| `fetched`, `pending`, `thrown`, `held` | `_ComposeAndUpload` and what the three stores have taken |
| InitCounter, StorePart, IncrementCounter or PeekCounter, Decide | the five Upload handlers, which differ only in the key |
| Fetch, StoreTakes, StoreThrows, Return | `_ComposeAndUpload` |
| IncrementFails, PeekMisses, MemcachedFails, LoseKey | failing commands, expiry and eviction |

### Reservation

| in the module | in the code (`services/reservation/server.go`) |
|---|---|
| `night[c]`, `plan[c]`, `unset[c]` | the date of the loop, `memc_date_num_map`, its keys not written yet |
| `cached[n]`, `stored[n]` | the count in memcached, the documents in MongoDB |
| CountCached, CacheMisses, CountStored, CountsNothing | the check of one night; the last when the dropped error of `curr.All` leaves no documents |
| SetCount, SetFails | the Sets, in the order of a Go map, whose errors are dropped |
| Insert | the document of one night |
| Panic, CheckPanics | `log.Panic`: all active calls die, the databases stay |
| CheckAvailability, Evict | the query; memcached loses a count |

### MediaClientPool

| in the module | in the code (`mediaMicroservices/src/ClientPool.h`) |
|---|---|
| `pool`, `curr`, `client[t]`, `pc[t]` | as in ClientPool |
| PopEnters, PopBlocks, PopResumes, PopWaitsAgain, PopTimesOut, ReturnsNothing | the locked parts of Pop; the last is its `return nullptr`, at a deadline or when the constructor throws |
| ConnectFails, PushBack, Torn | the push_back after the unlock, in two steps; `Torn` is what the list may be when another thread used it in between |
| Push, NotifyOne | Push; its notification comes after the unlock |
| Leak | `sync_commit` throws between Pop and Push, and the handler leaves with the client |

It implements `ConnectionLease` under the mapping `open <- made`, `lessee <- client`
until the first race: every step is a step of the budget of leases, stutters, or is
the one that meets a push_back outside the lock.  After that a connection may have
two users, and what the pool promises ends there.

### UniqueId and UserService

| in the module | in the code (`UniqueIdHandler.h`, `UserHandler.h`) |
|---|---|
| `last`, `count`, `hash` | `current_timestamp`, `counter`, `_machine_id` |
| ComposeUniqueId, IdOf | the call, under its lock; the number made of the parts, each cut to its digits |
| Exits, Restarts | the exit when the clock has gone back; the next process, whose hash may be another because the hash reads past the end of the address |
| `reg`, `uid`, `docs`, `graph` | a registration, its `user_id`, MongoDB `user`, the users that the social graph knows |
| RegisterUser(WithId), FindName, Insert, InsertRefused, MongoFails, InsertUser, InsertUserFails | a registration, call by call |
| `late`, Lands | an insert or InsertUser that has failed takes effect all the same, at any time or never |
| `asks`, `look`, `found`, `answer`, `cached` | a lookup, the document it found, what it returns, the keys `name:user_id` and `name:login` |
| Begins, AskCache, AskMongo, Authenticates, Refuse, Fill, FillKey, Answer and their failures | Login, GetUserId and ComposeCreatorWithUsername |
| Dies | a process that exits or crashes takes its calls with it |

### ReviewLists

| in the module | in the code (`MovieReviewHandler.h`, `ReviewStorageHandler.h`) |
|---|---|
| `store` | the reviews that the storage has |
| `list`, `cached` | the array `reviews` of MongoDB, the sorted set of Redis |
| `state[r]` | UploadMovieReview of r |
| FindMovie, Insert, InsertRefused, PushReview, Count, Add and their failures | the find, the insert of a first review or the push, the zcard, the zadd if there was a set |
| `late`, LateListing, LateAdd | an insert, push or zadd that its upload has given up takes effect, at any time or never |
| AskRedis, AskMongo, ReadReviews, Del, Zadd, Return | ReadMovieReviews: zrevrange, the rest from MongoDB, the future that asks the storage, and the pipeline of del and zadd beside it |
| StoreReview | the other half of ComposeAndUpload, at any time |

UserReviewHandler is the same code under the key `user_id`.

## The runs

States are distinct states; each run takes less than five minutes.

| run | states | instance |
|---|---|---|
| ClientPool | 25 582 | 4 threads, at most 2 connections, 3 client objects |
| ComposePost | 1 121 718 | 2 requests, 3 users of whom 1 has posted before, 1 changing follower, 2 ids, 1 reader |
| SocialGraphWriters | 1 192 271 | 3 calls on one edge, 1 failure, 1 lost key, late registration |
| SocialGraphReaders | 2 371 876 | 3 users, another edge, 2 calls on one edge, 1 reader, 1 failure, 1 lost key |
| ComposeReview | 3 744 758 (with symmetry) | 3 parts, 4 calls, 1 failure, 1 lost key |
| ComposeReviewCounts | violation | 3 parts, 4 calls, 1 failure |
| UserTimeline | 13 009 575 | 3 posts, 1 reader that reads again, 3 pages, 2 failures, 1 loss |
| Reservation | 1 766 084 | 4 stays over 2 nights, 2 rooms, 2 failures, 2 lost counts |
| ReservationCheck | violation | as above, nothing fails |
| MediaClientPool | 82 050 | 3 threads, at most 2 connections |
| UserService | 9 483 404 (with symmetry) | 2 registrations of one name, 2 lookups, 1 failure, 1 clock set back |
| ReviewLists | 3 751 792 | 3 reviews, 1 reader that reads again, 2 pages, 1 failure |

What they show:

* **ClientPool** - `Accounting` (the counter is exactly the free, used and
  half-removed connections), `NoLostWakeup` (while somebody sleeps, every free
  place is matched by a thread that is awake to take it, by a notification still
  to come, or by a constructor that threw for the thread that had been woken),
  `PopReturns` (whoever waits in Pop leaves it, with a client or without, even if
  all callees hang; a Connect that hangs after the wait is not part of it) and
  `ImplementsLease`.  Four threads are two holders, a sleeper and a newcomer,
  which is what an overtaking needs.
* **ComposePost** - two authors, one of whom follows and unfollows the other at
  any time, a mention, and two identifiers that both requests may get.
  `NeverIncomplete` (no reader gets "Return set incomplete"), `RightReaders` (a
  repeated id never shows a post to somebody who is not mentioned and has not
  followed since the post began), `SuccessIsComplete`, `ImplementsVisibility`.
  Success means that the post is stored and in Redis under its author, and in
  MongoDB if he had posted before; and that whoever followed all along has it,
  whoever comes and goes meanwhile, and everyone mentioned, or else just those
  mentioned, when GetFollowers has taken an error for an empty list.  Two requests
  are enough for a clash of ids, three users for a recipient, an author and
  somebody who is neither; one author has a document in MongoDB and the other has
  none, which is what the two pushes tell apart.
* **SocialGraphWriters** - `ListedOnce` and `CopiesAgree` with three calls in any
  overlap; the follower registers at any time.
* **SocialGraphReaders** - `AnswersRight` and `CopiesAgree`.  Alice follows and
  unfollows Bob, whom Carol has followed before, and a reader asks for followers
  and followees.  Carol's edge is at rest throughout: every answer about it has to
  be right, from Redis and, after the key is lost, from MongoDB, until a zadd of
  Alice under Bob's lost key hides it.
* **ComposeReview** - one part sent twice: `WholeReviews` (what is sent on has all
  parts), `SameReview` (all three stores get one version), `OneComposer` (one call
  composes) and `Delivered` (somebody does).
* **UserTimeline** - `NoGap`, `CachedAreStored`, `NoDuplicates`, `FullPages`.
  Pages that begin at the first post, after it, and that hold all posts put the
  end of Redis before, in and behind the page.  The second push of
  `WriteUserTimeline` has no upsert and takes "no document matched" for success;
  it is one of the steps that disturb.
* **Reservation** - `NoPhantomRooms`, `RefusedForWant`, `NotOverbooked`,
  `WholeStays`.  The stays overlap on one night and on two, one asks for two
  rooms, one for no night.  Two calls for one night both pass the check before
  either writes, and both book: `NotOverbooked` says that this, or a failure that
  goes unseen, is the only way.
* **MediaClientPool** - `Accounting` and `Exclusive` hold until an access to the
  list meets a push_back outside the lock, and not after it; `NoLostWakeup` says
  that a sleeper beside a free connection was not notified of it; `LeasesUntilRace`
  is the refinement; `PopReturns` holds also after a race.
* **UserService** - `NoClash` (one process gives one identifier twice only when a
  count or a time no longer fits), `NamesUnique` (two users of one name come from
  two registrations that found it free at once, or one of which failed and had its
  insert come late), `NoHalfUserUnseen`, `OneIdentity` (whichever key or document
  a lookup reads), `TokenIsOwners`, `OwnersGetIn`.  One count fits, so that counts
  run over; the times of the run all fit; one hash fits, so that processes of one
  host share it.
* **ReviewLists** - `ListTypeOK`, with the length of a page, `NoGap`, `PageRight` (a
  reader that meets no upload gets its page, and the storage refuses it only for a
  review that is listed and not stored yet) and `OkAreListed` (no review that
  returned is lost or listed twice, though first reviews race for the document).

The type invariants of the other modules are not in the runs: they are theorems.

**Bounds.** `MaxFailures` and `MaxLosses` bound the failures and losses of a
behaviour, `MaxTime`, `MaxSetBacks` and `MaxIssued` the clock and the identifiers
of `UniqueId`; all orders within them are explored.  A failure and a loss meet in
one behaviour, which is what the `disturbed` conditions are about; the user
timeline has two failures, since its first push may fail and then its second, and
the reservation has two of each, for two nights.  Everything else is finite by
itself, because every request is made once, and so all configurations except
those of the two pools say `CHECK_DEADLOCK FALSE`: the system stops when all
requests are done.  The theorems below have no bounds.  Symmetry is used in
ComposeReview (which of two uploads brings the text, which other part is which)
and UserService (which registration is the first), where no temporal property is
checked.

**Fairness.** Two specifications, those of the pools, state liveness, and only of
threads that wait.  Weak fairness is assumed of the steps that need only the lock:
a thread that can go on does.  Strong fairness is assumed of DeadlinePasses: the
mutex is free again and again, and the deadline is an absolute time, so that waking
up in vain does not postpone it.  Nothing is assumed of Connect and the RPC, which
have no timeout, nor that somebody makes a request or gives a connection back.  So
`PopReturns` covers the waiting: the Connect of Pop, after the unlock, may hang.

The other modules state safety only.  Their handlers have no loop that could fail
to end and wait for nobody but databases and other services, so that what could go
wrong in them is which state they leave.

### Findings

* **ComposeReviewCounts** - an upload drops the return code of
  `memcached_increment` and tests the one of `memcached_add`.  When the
  increment fails the call returns normally, its part is not counted, and the
  review is never composed.
* **ReservationCheck** - CheckAvailability holds a cached count against
  `cacheCap[id]`, but the map has `id_cap` for its keys: once MakeReservation
  has put the count of a night into memcached, the hotel is not available for
  that night, whatever room it has.  Nights that memcached lacks are not looked
  up, as `GetMulti` reports no misses.

## The proofs

The theorems are of the form `Spec => []P` or `Spec => Abstract!Spec`, some with a
condition on the behaviour (see the end of this section), for any
sets of threads, users, calls and bounds that satisfy the module's ASSUME
(`PoolAssumption`, `ComposeAssumption`, `GraphAssumption`,
`TimelineAssumption`, `ReviewAssumption`, `HotelAssumption`,
`MediaPoolAssumption`, `IdAssumption`, `UserAssumption` and `ListAssumption`).
Each specification has an inductive invariant `IInv` (`ListIInv` for `ReviewLists`),
shown to hold initially and to be kept action by action.  Why the properties are not inductive by themselves:

* **ClientPool** (`TypeCorrect`, `AccountingCorrect`, `ExclusiveCorrect`,
  `WakeupsCorrect`, `LeaseImplemented`).  Typing and accounting are inductive together: the bound on
  `curr` needs the guard of Pop, and the guard speaks of what `curr` counts.
  Wake-ups are counted: a step that frees a place also puts one more thread on
  its way, and a thread that stops being on its way took a place, found none, or
  is counted as dropped.  `LeaseImplemented` needs the counter for the budget: a
  thread opens a connection when the free list is empty, and then those in use
  are no more than what `curr` counts.
* **ComposePost** (`Invariance`, `TypeCorrect`, `ReadersCorrect`,
  `RightReadersCorrect`, `SuccessCorrect`, `VisibilityImplemented`).
  `Progress(r)` ties the caller of r to what its handlers have done and to what
  they have given up (`late`), in terms that stay true when the databases grow; a
  write to a timeline that comes late is one whose handler was reached after the
  post had been stored.  `Justified` says that each listed id belongs to a stored
  post of the right author and that stored posts have different ids.  The second
  is what makes repeated identifiers harmless.  The recipients that were read lie
  between `steady[r]` and `seen[r]`, which only shrinks and only grows afterwards;
  so what is still to be written stays within the audience.
* **SocialGraph** (`Invariance`, `TypeCorrect`, `ListedOnceCorrect`,
  `CopiesCorrect`, `AnswersCorrect`).  An undisturbed edge is followed through its
  call: the call is alone, none of its futures has thrown, and each copy it has
  already written says what it wants, or is under a key that is `Gone`.  A reader
  is followed from its zrange on: that it found nothing says that the key is gone
  for each wanted edge at rest, and then MongoDB has them.
* **UserTimeline** (`Invariance`, `TypeCorrect`, `NoGapCorrect`,
  `CachedAreStoredCorrect`, `NoDuplicatesCorrect`, `FullPagesCorrect`).  That
  there is no gap now
  does not exclude one after a zadd still to come or after a reader writes back
  an old map; the invariant says of those too that everything ahead of them is
  accounted for.  For full pages, Redis ranks by timestamp what MongoDB has in the
  order of the pushes: the ranks are a bijection onto the first numbers, so a range
  of Redis has as many posts as the same range of the list, and what a calm reader
  has from Redis lies ahead of the index where it goes on in MongoDB.
* **ComposeReview** (`Invariance`, `TypeCorrect`, `WholeReviewsCorrect`,
  `SameReviewCorrect`, `OneComposerCorrect`, `DeliveredCorrect`).  The counter is
  the number of parts whose call has counted, and those calls hold the numbers
  from one to the counter, each its own.  Whoever holds the number of all parts
  therefore found all of them, and somebody does hold it.
* **Reservation** (`Invariance`, `TypeCorrect`, `NoPhantomRoomsCorrect`,
  `RefusedForWantCorrect`, `NotOverbookedCorrect`, `WholeStaysCorrect`).  `Base`
  places each call in its stay and says what it has inserted.  `NoPhantoms`,
  until a panic, bounds every count in memcached or in a map from above by the
  rooms taken or promised.  `Enough`, on undisturbed nights and across panics,
  bounds them from below by the rooms taken.
* **MediaClientPool** (`TypeCorrect`, `AccountingCorrect`, `ExclusiveCorrect`,
  `WakeupsCorrect`, `LeasesCorrect`).  Until a race, the invariant has the clients
  that are free, held and leaked as three sets that share nothing and were all
  made, and that Pop only waits while the pool has its full number; afterwards only
  typing is left.  A step is one of five moves of a client: taken, given back,
  leaked, let go or still.  `LeasesCorrect` needs one fact more, which a race does
  not end: the counter says how many clients were made, so that whoever makes one
  is within the budget.
* **UserService** (`TypeCorrect`, `IdsCorrect`, `NamesCorrect`,
  `HalfUsersCorrect`, `IdentityCorrect`, `TokenCorrect`, `OwnersCorrect`).  The
  invariant has one part for the identifiers (what a process has issued lies
  before its timestamp and counter), one for the registrations (what each phase
  has done to MongoDB and the graph) and one for the lookups (what a lookup
  carries is a document of its name).  The second is what lets the third say that
  a document once found stays the only one.
* **ReviewLists** (`ListTypeCorrect`, `OkAreListedCorrect`, `NoGapCorrect`,
  `PageRightCorrect`).  `Inside` has what is in Redis, in the map of a reader and
  in the hands of an upload all in the list.  Two parts say that there is no gap
  now and will be none: `NewestFirst` speaks of Redis, and `Known` of those who are
  still going to write to it, a reader with its map or an upload with its review,
  as long as nobody has made them stale.  For the pages, `CachedInOrder` shows that
  the ranks of a Redis that is the newest part of a sorted list are the places in
  the list; `FrontTaken` then carries what a calm reader has from Redis to the
  moment when it asks MongoDB for the rest, which no step between can disturb.

### Without the history variables

Several properties speak of variables that only record what has happened
(`disturbed`, `raced`, `silent`, `gap`, `stale`, `dropped`, `steady`, `seen`).  They
would say little if something common set those.  These theorems say what does set
them, in words of the system's own steps: `Spec => [](Faultless => P)`, or
`Spec /\ []H /\ [][A]_vars => []P` where H says which calls keep apart and A which
failures do not happen.

* **ClientPool**, `NoPlaceForgotten`: unless a constructor throws for a woken
  thread, no wake-up is lost.
* **MediaClientPool**, `ConnectedPoolIsSound`: unless a Connect throws, nothing
  races, and the accounting, the exclusive use and the wake-ups hold outright.
* **ComposePost**, `ExactlyTheAudience`: with a graph that stands still and a
  GetFollowers that takes no error for an empty list, a post composed with success
  is on the home timelines of its audience and on no others.
* **SocialGraph**, `OrderlyAgree`: the four copies of an edge between registered
  users agree with the latest call, but for a key that Redis has lost and has
  nothing under, and readers are right, if its calls come one after the other,
  none of their futures throws, no reader is about to copy the edge into Redis
  during an unfollow, and no other edge comes first under a key with which Redis
  lost it.
* **ComposeReview**, `OnlyFaultsDisturb` and `CountedWithoutFaults`: concurrency and
  repetition alone disturb nothing.  The second is what the comment at
  `ComposeReviewHandler.h:340` says; the run `ComposeReviewCounts` refutes it when
  something fails.
* **UserTimeline**, `OnlyFaultsDisturb` and `RedisCatchesUp`: the same of the
  timeline; without faults, Redis has all of it whenever nobody writes.
* **Reservation**, `ApartNeverOverbooks`: a night whose calls do not overlap is not
  overbooked, if every failure panics.  The two failures that the service does not
  notice (a count read as zero and a `Set` that is not checked) are the exception.
* **UserService**, `ApartHaveOneUser`: a name whose registrations do not stand
  together between their find and their insert, the late insert of one that failed
  included, has one user.
* **ReviewLists**, `ApartHaveNoGap`: Redis has the newest part of the list if no
  upload is on its way while a reader fills Redis, none fails, and the set is not
  lost under one.

Only model-checked: the liveness property `PopReturns` of both pools, which is
beyond the proof system.  The findings are counterexamples and need no proof.

## What is left out

Within the modelled components:

* In ComposePost the answer of GetFollowers changes in one step; the writes of
  Follow and Unfollow that make it change are in SocialGraph only.  Redis keeps
  the sets of the timelines (that it may lose one is in UserTimeline).  The copies
  of posts in memcached are left out of ReadPosts, since posts never change; so is
  a null result of `memcached_pool_pop`.
* A pipeline of Redis is a step per command; that one command of it is answered
  with an error, which its `exec` does not throw, is left out.  `memcached_mget`
  is a single step.
* In SocialGraph readers ask the primary of Redis; with replication
  (`SocialGraphHandler.h:508`, `:646`) they may meet a lag, as in UserTimeline.
* UserTimeline has no writes that take effect after their call has failed (an
  effect at the time of the failure is there, and ComposePost has late ones).
* Reservation has one hotel.  CheckAvailability is one step, the cache of the
  capacity is left out as the capacity never changes, and so is the test data
  that `cmd/reservation/db.go` inserts at every start.
* ClientPool and MediaClientPool do not model the clock: a deadline may pass at any
  time.  Remove and the Push with a timeout of the latter have no caller.
* UserService is the handler of socialNetwork.  The one of mediaMicroservices
  registers and logs in the same way, without a social graph.
* ReviewLists has one movie, and an upload only once for each review.  When the
  pipeline of a reader fails, it has had no effect or that of its del, and nothing
  of it comes late.  Its texts never change, so that the copies of them in
  memcached cannot differ; the storage answers from them and from MongoDB in one
  step.

Not modelled at all:

* ReadPost of PostStorageService and the copies of posts in memcached: a post is
  stored once and never changed, so no copy can differ from it.
* TextService, UserMentionService, UrlShortenService and MediaService: to
  ComposePost they are calls that succeed or fail.  How the text is rewritten is
  regular expressions and string search, and the shortened URLs that are stored
  are never read.
* The rate, profile, review and attractions services of hotelReservation: queries,
  through memcached but for the last, of data that only the start-up code writes;
  a copy cannot go stale and no query depends on another.
* The services that only read what was loaded at start (search, geo,
  recommendation, user and the frontend of hotelReservation) and those of
  mediaMicroservices that store or read a record without any other state (cast
  info, plot, page, movie identifiers, ratings).
* WriteHomeTimelineService and RabbitmqClient, which are not built.
* wrk2, whose arithmetic is in floating point; the nginx front ends, which keep no
  state between requests; generated code, vendored libraries, deployment and
  fault injection scripts.

`PROJECT.json` has the reason for each.  What the project would gain most from
next: a composition of `ClientPool` with the services that share it.
