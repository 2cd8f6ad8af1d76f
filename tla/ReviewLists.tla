----------------------------- MODULE ReviewLists -----------------------------
(***************************************************************************)
(* The reviews of one movie (MovieReviewHandler.h) or of one user          *)
(* (UserReviewHandler.h, the same code under another key), with the        *)
(* storage that keeps their texts (ReviewStorageHandler.h).  MongoDB has a *)
(* document with the reviews, the last to arrive in front; Redis a sorted  *)
(* set that a reader fills and to which an upload adds only if it is there *)
(* already.  ComposeReviewService stores and lists a review in parallel.   *)
(***************************************************************************)
EXTENDS Integers, Sequences, FiniteSets

CONSTANTS
  Review,       \* the reviews, each a number that stands for its timestamp
  Reader, Page, \* who reads, and the pairs <<start, stop>> that are asked for
  MaxFailures   \* bound on failing databases and pools; losing the set is one

ASSUME ListAssumption ==
  /\ Review \subseteq Nat
  /\ Reader \cap Review = {}
  /\ Page \subseteq Nat \X Nat /\ Page # {}
  /\ MaxFailures \in Nat

VARIABLES
  store,     \* the reviews that the storage has
  state,     \* UploadMovieReview of each review
  late,      \* what of a failed upload may still be on its way to a database
  list,      \* MongoDB: array reviews, empty when there is no document
  cached,    \* Redis: the members of the sorted set
  phase,     \* ReadMovieReviews of each reader
  page,      \* what it asks for
  ids,       \* its review_ids
  slice,     \* its redis_update_map
  fill,      \* what it has still to do to Redis
  outcome,   \* what ReadReviews of the storage gave it
  failures,
  calm,      \* history: the readers that met neither upload nor failure
  stale,     \* history: the readers filling Redis and the uploads that overlap
  gap        \* history: one of them, or a failure, has left Redis incomplete

readVars == <<phase, page, ids, slice, fill, outcome>>
listVars == <<store, state, late, list, cached, readVars, failures, calm, stale, gap>>

Listed == {list[i] : i \in 1 .. Len(list)}

\* The uploads arrived in the order of their timestamps.
Sorted == \A i, j \in 1 .. Len(list) : i < j => list[j] < list[i]

ListInit ==
  /\ store = {}
  /\ state = [r \in Review |-> "idle"]
  /\ late = [r \in Review |-> "nothing"]
  /\ list = <<>>
  /\ cached = {}
  /\ phase = [d \in Reader |-> "idle"]
  /\ page = [d \in Reader |-> CHOOSE p \in Page : TRUE]
  /\ ids = [d \in Reader |-> <<>>]
  /\ slice = [d \in Reader |-> {}]
  /\ fill = [d \in Reader |-> "none"]
  /\ outcome = [d \in Reader |-> "none"]
  /\ failures = 0
  /\ calm = {}
  /\ stale = {}
  /\ gap = FALSE

Failure ==
  /\ failures < MaxFailures
  /\ failures' = failures + 1

-----------------------------------------------------------------------------
(* History: who may leave a gap in Redis *)

Fillers == {d \in Reader : fill[d] \in {"del", "zadd"}}
Pending == {r \in Review : state[r] \in {"counting", "adding"}}

\* An upload takes a step: the readers that are filling Redis overlap it.
MeetsFillers(r) ==
  stale' = Fillers \cup IF state'[r] \in {"done", "failed"} THEN stale \ {r} ELSE stale

\* The set is deleted: the uploads that are not over do not know of it.
Vanishes ==
  /\ cached' = {}
  /\ stale' = stale \cup Pending
  /\ gap' = FALSE

\* A review is in MongoDB that nobody is going to add to Redis.
Skipped(r) == MeetsFillers(r) /\ gap' = (gap \/ cached # {})

-----------------------------------------------------------------------------
(* StoreReview *)

\* It may be before, while or after the review is listed; one that fails is one
\* that never happens.
StoreReview(r) ==
  /\ r \notin store
  /\ store' = store \cup {r}
  /\ calm' = {}
  /\ UNCHANGED <<state, late, list, cached, readVars, failures, stale, gap>>

-----------------------------------------------------------------------------
(* UploadMovieReview *)

Goes(r, from, to) ==
  /\ state[r] = from
  /\ state' = [state EXCEPT ![r] = to]

FindMovie(r) ==
  /\ Goes(r, "idle", IF list = <<>> THEN "creating" ELSE "pushing")
  /\ calm' = {}
  /\ UNCHANGED <<store, late, list, cached, readVars, failures, stale, gap>>

\* The error of the cursor is not looked at: it says that there is no movie.
FindMovieFails(r) ==
  /\ Failure
  /\ Goes(r, "idle", "creating")
  /\ calm' = {}
  /\ UNCHANGED <<store, late, list, cached, readVars, stale, gap>>

\* Wrong: without the index the movie gets a second document, which no find
\* returns.
InsertSecond(r) ==
  /\ Goes(r, "creating", "counting")
  /\ list' = IF list = <<>> THEN <<r>> ELSE list
  /\ MeetsFillers(r)
  /\ UNCHANGED <<store, late, cached, readVars, failures, calm, gap>>

Insert(r) ==
  /\ list = <<>>
  /\ Goes(r, "creating", "counting")
  /\ list' = <<r>>
  /\ MeetsFillers(r)
  /\ UNCHANGED <<store, late, cached, readVars, failures, calm, gap>>

\* The index on movie_id: another upload was the first.  Nobody tries again.
InsertRefused(r) ==
  /\ list # <<>>
  /\ Goes(r, "creating", "failed")
  /\ UNCHANGED <<store, late, list, cached, readVars, failures, calm, stale, gap>>

PushReview(r) ==
  /\ Goes(r, "pushing", "counting")
  /\ list' = <<r>> \o list
  /\ MeetsFillers(r)
  /\ UNCHANGED <<store, late, cached, readVars, failures, calm, gap>>

\* The insert or the push fails, with effect now, later or never.
MongoFails(r) ==
  /\ Failure
  /\ state[r] \in {"creating", "pushing"}
  /\ Goes(r, state[r], "failed")
  /\ late' = [late EXCEPT ![r] = IF state[r] = "creating" THEN "insert" ELSE "push"]
  /\ UNCHANGED <<store, list, cached, readVars, calm, stale, gap>>

LateListing(r) ==
  /\ late[r] = "push" \/ (late[r] = "insert" /\ list = <<>>)
  /\ late' = [late EXCEPT ![r] = "nothing"]
  /\ list' = <<r>> \o list
  /\ UNCHANGED <<store, state, cached, readVars, failures>>
  /\ Skipped(r)
  /\ calm' = {}

\* zcard: an empty set is no set.
Count(r) ==
  /\ Goes(r, "counting", IF cached = {} THEN "done" ELSE "adding")
  /\ MeetsFillers(r)
  /\ UNCHANGED <<store, late, list, cached, readVars, failures, calm, gap>>

\* An error in the reply counts as zero; no client and no connection throw.
CountFails(r) ==
  /\ Failure
  /\ \E s \in {"done", "failed"} : Goes(r, "counting", s)
  /\ Skipped(r)
  /\ UNCHANGED <<store, late, list, cached, readVars, calm>>

Add(r) ==
  /\ Goes(r, "adding", "done")
  /\ cached' = cached \cup {r}
  /\ MeetsFillers(r)
  /\ gap' = (gap \/ r \in stale)
  /\ UNCHANGED <<store, late, list, readVars, failures, calm>>

\* The reply of zadd is not looked at: with effect now, later or never.
AddFails(r) ==
  /\ Failure
  /\ \E s \in {"done", "failed"} : Goes(r, "adding", s)
  /\ late' = [late EXCEPT ![r] = "zadd"]
  /\ MeetsFillers(r)
  /\ gap' = (gap \/ cached # {})
  /\ UNCHANGED <<store, list, cached, readVars, calm>>

LateAdd(r) ==
  /\ late[r] = "zadd"
  /\ late' = [late EXCEPT ![r] = "nothing"]
  /\ cached' = cached \cup {r}
  /\ gap' = (gap \/ r \notin cached)
  /\ UNCHANGED <<store, state, list, readVars, failures, calm, stale>>

-----------------------------------------------------------------------------
(* ReadMovieReviews *)

\* The members of S, the latest first.
Descending(S) ==
  [i \in 1 .. Cardinality(S) |->
     CHOOSE x \in S : Cardinality({y \in S : y > x}) = i - 1]

Least(m, n) == IF m < n THEN m ELSE n

\* zrevrange start .. stop - 1
InRedis(start, stop) == SubSeq(Descending(cached), start + 1, Least(stop, Cardinality(cached)))

Quiet ==
  /\ \A r \in Review : state[r] \in {"idle", "done", "failed"}
  /\ Sorted /\ ~gap

AskRedis(d) ==
  /\ phase[d] = "idle"
  /\ \E p \in Page :
       /\ p[1] < p[2]
       /\ page' = [page EXCEPT ![d] = p]
       /\ ids' = [ids EXCEPT ![d] = InRedis(p[1], p[2])]
       /\ phase' = [phase EXCEPT ![d] =
            IF p[1] + Len(ids'[d]) < p[2] THEN "short" ELSE "reading"]
  /\ calm' = IF Quiet THEN calm \cup {d} ELSE calm
  /\ UNCHANGED <<store, state, late, list, cached, slice, fill, outcome, failures,
                 stale, gap>>

\* Wrong: only what Redis did not have goes back to it, though it is emptied.
SliceRest(d) ==
  LET p == page[d] IN
  {list[i] : i \in p[1] + Len(ids[d]) + 1 .. Least(p[2], Len(list))}

\* redis_update_map: all that $slice [0, stop] returns.
Slice(d) == {list[i] : i \in 1 .. Least(page[d][2], Len(list))}

\* Wrong: the page is taken from MongoDB again where it begins.
RestAgain(d) == SubSeq(list, page[d][1] + 1, Least(page[d][2], Len(list)))

\* What follows at index mongo_start; whether Redis had it is not looked at.
Rest(d) ==
  LET p == page[d] IN
  SubSeq(list, p[1] + Len(ids[d]) + 1, Least(p[2], Len(list)))

AskMongo(d) ==
  /\ phase[d] = "short"
  /\ phase' = [phase EXCEPT ![d] = "reading"]
  /\ ids' = [ids EXCEPT ![d] = @ \o Rest(d)]
  /\ slice' = [slice EXCEPT ![d] = Slice(d)]
  /\ fill' = [fill EXCEPT ![d] = IF list = <<>> THEN "none" ELSE "del"]
  /\ stale' = stale \cup Pending
  /\ UNCHANGED <<store, state, late, list, cached, page, outcome, failures, calm, gap>>

\* The error of the cursor is not looked at: the page ends where Redis ended.
AskMongoFails(d) ==
  /\ phase[d] = "short"
  /\ Failure
  /\ phase' = [phase EXCEPT ![d] = "reading"]
  /\ calm' = calm \ {d}
  /\ UNCHANGED <<store, state, late, list, cached, page, ids, slice, fill, outcome,
                 stale, gap>>

\* ReadReviews of the storage, which compares sizes of sets: first for
\* identifiers that come twice, in the end for reviews it did not find.
Repeats(s) == \E i, j \in 1 .. Len(s) : i < j /\ s[i] = s[j]
AllStored(s) == \A i \in 1 .. Len(s) : s[i] \in store

ReadReviews(d) ==
  /\ phase[d] = "reading" /\ outcome[d] = "none"
  /\ outcome' = [outcome EXCEPT ![d] =
       IF Repeats(ids[d]) THEN "duplicated"
       ELSE IF AllStored(ids[d]) THEN "ok" ELSE "incomplete"]
  /\ UNCHANGED <<store, state, late, list, cached, phase, page, ids, slice, fill,
                 failures, calm, stale, gap>>

ReadReviewsFails(d) ==
  /\ phase[d] = "reading" /\ outcome[d] = "none"
  /\ Failure
  /\ outcome' = [outcome EXCEPT ![d] = "failed"]
  /\ UNCHANGED <<store, state, late, list, cached, phase, page, ids, slice, fill, calm,
                 stale, gap>>

Fills(d, from, to) ==
  /\ fill[d] = from
  /\ fill' = [fill EXCEPT ![d] = to]
  /\ UNCHANGED <<store, state, late, list, phase, page, ids, slice, outcome, calm>>

Del(d) == Fills(d, "del", "zadd") /\ Vanishes /\ UNCHANGED failures

Zadd(d) ==
  /\ Fills(d, "zadd", "over")
  /\ cached' = cached \cup slice[d]
  /\ gap' = (gap \/ d \in stale)
  /\ stale' = stale \ {d}
  /\ UNCHANGED failures

\* No client in the pool, or a failing pipeline of the two commands.
FillFails(d) ==
  /\ Failure
  /\ fill[d] \in {"del", "zadd"}
  /\ Fills(d, fill[d], "threw")
  /\ stale' = stale \ {d}
  /\ UNCHANGED <<cached, gap>>

\* Both futures have been waited for.
Return(d) ==
  /\ phase[d] = "reading" /\ outcome[d] # "none"
  /\ fill[d] \in {"none", "over", "threw"}
  /\ phase' = [phase EXCEPT ![d] =
       IF outcome[d] = "ok" /\ fill[d] # "threw" THEN "done" ELSE "failed"]
  /\ fill' = [fill EXCEPT ![d] = "none"]
  /\ slice' = [slice EXCEPT ![d] = {}]
  /\ UNCHANGED <<store, state, late, list, cached, page, ids, outcome, failures, calm,
                 stale, gap>>

\* The next call of the same client.
Again(d) ==
  /\ phase[d] \in {"done", "failed"}
  /\ phase' = [phase EXCEPT ![d] = "idle"]
  /\ ids' = [ids EXCEPT ![d] = <<>>]
  /\ outcome' = [outcome EXCEPT ![d] = "none"]
  /\ calm' = calm \ {d}
  /\ UNCHANGED <<store, state, late, list, cached, page, slice, fill, failures, stale,
                 gap>>

LoseCache ==
  /\ Failure
  /\ cached # {}
  /\ Vanishes
  /\ UNCHANGED <<store, state, late, list, readVars, calm>>

ListNext ==
  \/ \E r \in Review :
       \/ StoreReview(r) \/ FindMovie(r) \/ FindMovieFails(r)
       \/ Insert(r) \/ InsertRefused(r) \/ PushReview(r) \/ MongoFails(r)
       \/ Count(r) \/ CountFails(r) \/ Add(r) \/ AddFails(r)
       \/ LateListing(r) \/ LateAdd(r)
  \/ \E d \in Reader :
       \/ AskRedis(d) \/ AskMongo(d) \/ AskMongoFails(d)
       \/ ReadReviews(d) \/ ReadReviewsFails(d)
       \/ Del(d) \/ Zadd(d) \/ FillFails(d) \/ Return(d) \/ Again(d)
  \/ LoseCache

ListSpec == ListInit /\ [][ListNext]_listVars

-----------------------------------------------------------------------------
(* Properties *)

\* Type invariant; and no page is longer than was asked for.
ListTypeOK ==
  /\ store \subseteq Review
  /\ state \in [Review -> {"idle", "creating", "pushing", "counting", "adding",
                           "done", "failed"}]
  /\ late \in [Review -> {"nothing", "insert", "push", "zadd"}]
  /\ list \in Seq(Review)
  /\ cached \subseteq Review
  /\ phase \in [Reader -> {"idle", "short", "reading", "done", "failed"}]
  /\ page \in [Reader -> Page]
  /\ ids \in [Reader -> Seq(Review)]
  /\ \A d \in Reader : phase[d] # "idle" => Len(ids[d]) <= page[d][2] - page[d][1]
  /\ slice \in [Reader -> SUBSET Review]
  /\ fill \in [Reader -> {"none", "del", "zadd", "over", "threw"}]
  /\ outcome \in [Reader -> {"none", "ok", "duplicated", "incomplete", "failed"}]
  /\ failures \in 0 .. MaxFailures
  /\ calm \subseteq Reader
  /\ stale \subseteq Reader \cup Review
  /\ gap \in BOOLEAN

\* Redis holds the newest reviews of MongoDB, but for those on their way,
\* unless somebody who did not know of a review wrote to Redis after the set was
\* emptied, or reviews arrived out of the order of their timestamps.
NoGap ==
  /\ cached \subseteq Listed
  /\ Sorted /\ ~gap =>
       \A y \in cached : \A x \in Listed \ cached :
         y < x => state[x] \in {"counting", "adding"}

\* A reader that meets no upload and no failure gets its page of MongoDB, and
\* the storage refuses it only for a review that is listed and not stored: by
\* an upload whose ComposeAndUpload is not over, or has failed.
PageRight ==
  \A d \in calm :
    phase[d] \in {"reading", "done", "failed"} =>
      /\ ids[d] = SubSeq(list, page[d][1] + 1, Least(page[d][2], Len(list)))
      /\ outcome[d] # "duplicated"
      /\ outcome[d] = "incomplete" => ~(Listed \subseteq store)

\* An upload that returned has put its review into the list, and once; also
\* when several uploads find no movie and try to be its first.
OkAreListed ==
  /\ \A i, j \in 1 .. Len(list) : list[i] = list[j] => i = j
  /\ \A r \in Review : state[r] \in {"counting", "adding", "done"} => r \in Listed
=============================================================================
