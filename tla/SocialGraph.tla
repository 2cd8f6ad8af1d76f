------------------------------ MODULE SocialGraph ------------------------------
(***************************************************************************)
(* SocialGraphService of socialNetwork (SocialGraphHandler.h).  The fact    *)
(* that one user follows another is kept four times: in the followees of   *)
(* the one and in the followers of the other, and both in MongoDB and in   *)
(* Redis.  Follow and Unfollow write the copies in three concurrent        *)
(* futures; GetFollowers and GetFollowees answer from Redis when it has    *)
(* anything under the key and else from MongoDB, and then fill Redis; a    *)
(* user MongoDB does not find has no followers, but has an error in the    *)
(* place of followees.                                                     *)
(*                                                                         *)
(* Two history variables name what calls want and what may have gone       *)
(* wrong: wanted, the edges that the latest call on them asks for, and     *)
(* disturbed, the edges whose copies may disagree, each for a reason that  *)
(* the action adding it states.                                            *)
(***************************************************************************)
EXTENDS Naturals, FiniteSets

CONSTANTS
  User,
  Registered,   \* the users InsertUser has seen before the model starts
  Followed,     \* the edges that have been followed before
  Call,         \* the calls of Follow and Unfollow
  Kind,         \* Kind[c]: "follow" or "unfollow"
  EdgeOf,       \* EdgeOf[c]: <<user_id, followee_id>>
  Reader,       \* threads that call GetFollowers or GetFollowees
  MaxFailures,  \* bound on the futures that throw
  MaxLosses     \* bound on the keys Redis loses

Edge == User \X User

ASSUME GraphAssumption ==
  /\ User # {} /\ Registered \subseteq User
  /\ Followed \subseteq Registered \X Registered
  /\ Kind \in [Call -> {"follow", "unfollow"}]
  /\ EdgeOf \in [Call -> Edge]
  /\ MaxFailures \in Nat
  /\ MaxLosses \in Nat

VARIABLES
  inserted,   \* the users that have a document in MongoDB
  state,      \* where each call is
  todo,       \* its writes that no database has done
  lost,       \* its writes that one of its futures has given up
  entries,    \* entries[s][e]: how often array s of MongoDB lists edge e
  cached,     \* cached[s]: the edges in the Redis sets of side s
  asking,     \* what each reader does
  failures,   \* the futures that have thrown
  losses,     \* how many keys Redis has lost
  wanted,     \* history: the edges the latest calls ask for
  disturbed   \* history: the edges whose copies may disagree

vars == <<inserted, state, todo, lost, entries, cached, asking, failures,
          losses, wanted, disturbed>>
dbVars == <<inserted, entries, cached>>
boundVars == <<failures, losses>>
historyVars == <<wanted, disturbed>>

Sides == {"followees", "followers"}
Writes == {"mongo", "redis"} \X Sides

\* The user under whose document or key side s keeps edge e.
Key(s, e) == IF s = "followees" THEN e[1] ELSE e[2]
Under(s, u) == {e \in Edge : Key(s, e) = u}
In(s) == {e \in Edge : entries[s][e] > 0}

\* A call is active while it runs and while a write of it is on its way.
Active(c) == state[c] = "running" \/ todo[c] # {}

Asking == [phase : {"idle", "missed", "filling", "answered", "failed"},
           side : Sides, user : User, answer : SUBSET Edge, steady : SUBSET Edge]
NotAsking == [phase |-> "idle", side |-> "followers", user |-> CHOOSE u \in User : TRUE,
              answer |-> {}, steady |-> {}]

Init ==
  /\ inserted = Registered
  /\ state = [c \in Call |-> "idle"]
  /\ todo = [c \in Call |-> {}]
  /\ lost = [c \in Call |-> {}]
  /\ entries = [s \in Sides |-> [e \in Edge |-> IF e \in Followed THEN 1 ELSE 0]]
  /\ cached = [s \in Sides |-> Followed]
  /\ asking = [d \in Reader |-> NotAsking]
  /\ failures = 0
  /\ losses = 0
  /\ wanted = Followed
  /\ disturbed = {}

-----------------------------------------------------------------------------
(* Follow, Unfollow and InsertUser *)

InsertUser(u) ==
  /\ u \notin inserted
  /\ inserted' = inserted \union {u}
  /\ UNCHANGED <<state, todo, lost, entries, cached, asking, boundVars, historyVars>>

\* A call launches its futures.  The copies of its edge may disagree when
\* another call on the edge is active, and when one of the users has no
\* document: find_and_modify then does nothing and reports success.  Whatever
\* happened to the edge before, a call that has it to itself puts it right.
Alone(c) == \A o \in Call \ {c} : EdgeOf[o] = EdgeOf[c] => ~Active(o)

Launch(c) ==
  LET e == EdgeOf[c]
  IN /\ state[c] = "idle"
     /\ state' = [state EXCEPT ![c] = "running"]
     /\ todo' = [todo EXCEPT ![c] = Writes]
     /\ disturbed' = IF Alone(c) /\ {e[1], e[2]} \subseteq inserted
                     THEN disturbed \ {e} ELSE disturbed \union {e}
     /\ asking' = [d \in Reader |-> [asking[d] EXCEPT !.steady = @ \ {e}]]
     /\ UNCHANGED <<lost, dbVars, boundVars>>

Follow(c) ==
  /\ Kind[c] = "follow"
  /\ Launch(c)
  /\ wanted' = wanted \union {EdgeOf[c]}

Unfollow(c) ==
  /\ Kind[c] = "unfollow"
  /\ Launch(c)
  /\ wanted' = wanted \ {EdgeOf[c]}

\* Wrong: $push without looking for the edge first.
PushedAnyway(c, s) == IF Kind[c] = "unfollow" THEN 0 ELSE entries[s][EdgeOf[c]] + 1

\* find_and_modify, which is atomic: $push if $not $elemMatch, or $pull.
Modified(c, s) == IF Kind[c] = "unfollow" THEN 0
                  ELSE IF entries[s][EdgeOf[c]] = 0 THEN 1 ELSE entries[s][EdgeOf[c]]

MongoWrite(c, s) ==
  /\ <<"mongo", s>> \in todo[c]
  /\ todo' = [todo EXCEPT ![c] = @ \ {<<"mongo", s>>}]
  /\ IF Key(s, EdgeOf[c]) \in inserted
     THEN entries' = [entries EXCEPT ![s][EdgeOf[c]] = Modified(c, s)]
     ELSE UNCHANGED entries
  /\ UNCHANGED <<inserted, state, lost, cached, asking, boundVars, historyVars>>

\* Redis has lost the key under which side s keeps e, and has nothing there.
Gone(s, e) == losses > 0 /\ cached[s] \intersect Under(s, Key(s, e)) = {}

\* The edges that side s keeps under u and Redis lacks after a zadd of set.  What
\* it has under a key passes for all of it.
Omitted(s, u, set) ==
  {e \in (wanted \intersect Under(s, u)) \ (cached[s] \union set) :
     \A c \in Call : EdgeOf[c] = e => <<"redis", s>> \notin todo[c]}

Zadd(s, u, set) ==
  /\ cached' = [cached EXCEPT ![s] = @ \union set]
  /\ disturbed' = disturbed \union Omitted(s, u, set)

Zrem(s, e) ==
  /\ cached' = [cached EXCEPT ![s] = @ \ {e}]
  /\ UNCHANGED disturbed

\* Wrong: the second command of the pipeline is forgotten.
RedisWriteFolloweesOnly(c, s) ==
  /\ <<"redis", s>> \in todo[c]
  /\ s = "followees"
  /\ todo' = [todo EXCEPT ![c] = @ \ ({"redis"} \X Sides)]
  /\ \/ Kind[c] = "follow" /\ Zadd(s, Key(s, EdgeOf[c]), {EdgeOf[c]})
     \/ Kind[c] = "unfollow" /\ Zrem(s, EdgeOf[c])
  /\ UNCHANGED <<inserted, state, lost, entries, asking, boundVars, wanted>>

\* zadd or zrem of the followees, then of the followers.
RedisWrite(c, s) ==
  /\ <<"redis", s>> \in todo[c]
  /\ s = "followers" => <<"redis", "followees">> \notin todo[c]
  /\ todo' = [todo EXCEPT ![c] = @ \ {<<"redis", s>>}]
  /\ \/ Kind[c] = "follow" /\ Zadd(s, Key(s, EdgeOf[c]), {EdgeOf[c]})
     \/ Kind[c] = "unfollow" /\ Zrem(s, EdgeOf[c])
  /\ UNCHANGED <<inserted, state, lost, entries, asking, boundVars, wanted>>

\* A future throws; what it has sent may still reach its database, or not.
Futures == {{<<"mongo", "followees">>}, {<<"mongo", "followers">>}, {"redis"} \X Sides}

FutureThrows(c) ==
  /\ state[c] = "running"
  /\ failures < MaxFailures
  /\ \E f \in Futures : f \cap lost[c] = {} /\ lost' = [lost EXCEPT ![c] = @ \union f]
  /\ failures' = failures + 1
  /\ disturbed' = disturbed \union {EdgeOf[c]}
  /\ UNCHANGED <<state, todo, dbVars, asking, losses, wanted>>

WriteVanishes(c) ==
  /\ \E w \in todo[c] \intersect lost[c] : todo' = [todo EXCEPT ![c] = @ \ {w}]
  /\ UNCHANGED <<state, lost, dbVars, asking, boundVars, historyVars>>

\* get() on the three futures, or their destructors, wait for all of them.
Return(c) ==
  /\ state[c] = "running"
  /\ todo[c] \subseteq lost[c]
  /\ state' = [state EXCEPT ![c] = IF lost[c] = {} THEN "ok" ELSE "failed"]
  /\ lost' = [lost EXCEPT ![c] = todo[c]]
  /\ UNCHANGED <<todo, dbVars, asking, boundVars, historyVars>>

-----------------------------------------------------------------------------
(* GetFollowers and GetFollowees *)

Steady == {e \in Edge : \A c \in Call : EdgeOf[c] = e => ~Active(c)}

\* zrange: an answer that is not empty is the answer ...
AskRedis(d, s, u) ==
  LET found == cached[s] \intersect Under(s, u)
  IN /\ asking[d].phase \in {"idle", "answered", "failed"}
     /\ asking' = [asking EXCEPT ![d] =
                     [phase |-> IF found = {} THEN "missed" ELSE "answered",
                      side |-> s, user |-> u, answer |-> found, steady |-> Steady]]
     /\ UNCHANGED <<state, todo, lost, dbVars, boundVars, historyVars>>

\* ... else MongoDB has it.
Finds(d, found) ==
  asking' = [asking EXCEPT ![d].phase = "filling", ![d].answer = found]

\* Wrong: the iterators are not set back to the beginning of the document, so that
\* the loop over the array ends after one entry.
FindFirst(d) ==
  LET a == asking[d]
      all == In(a.side) \intersect Under(a.side, a.user)
  IN /\ a.phase = "missed"
     /\ a.user \in inserted
     /\ \E found \in SUBSET all : Cardinality(found) <= 1 /\ Finds(d, found)
     /\ UNCHANGED <<state, todo, lost, dbVars, boundVars, historyVars>>

FindDocument(d) ==
  LET a == asking[d]
  IN /\ a.phase = "missed"
     /\ a.user \in inserted
     /\ Finds(d, In(a.side) \intersect Under(a.side, a.user))
     /\ UNCHANGED <<state, todo, lost, dbVars, boundVars, historyVars>>

\* No document: nobody follows the user, but whom he follows is an error.
NotFound(side) == IF side = "followers" THEN "answered" ELSE "failed"

FindNothing(d) ==
  /\ asking[d].phase = "missed"
  /\ asking[d].user \notin inserted
  /\ asking' = [asking EXCEPT ![d].phase = NotFound(asking[d].side)]
  /\ UNCHANGED <<state, todo, lost, dbVars, boundVars, historyVars>>

\* mongoc_cursor_next says the same of a find that fails, and nobody asks
\* mongoc_cursor_error: nothing is promised of such an answer.
Fails == failures < MaxFailures /\ failures' = failures + 1

FindFails(d) ==
  /\ asking[d].phase = "missed"
  /\ Fails
  /\ asking' = [asking EXCEPT ![d].phase = NotFound(asking[d].side), ![d].steady = {}]
  /\ UNCHANGED <<state, todo, lost, dbVars, losses, historyVars>>

\* zrange throws, or MongoDB has no client.
AskThrows(d) ==
  /\ asking[d].phase # "filling"
  /\ Fails
  /\ asking' = [asking EXCEPT ![d].phase = "failed"]
  /\ UNCHANGED <<state, todo, lost, dbVars, losses, historyVars>>

\* The answer is copied to Redis, however old it has become: an edge that has
\* been unfollowed meanwhile comes back, and one followed meanwhile is missing.
Ghosts(d) ==
  {e \in asking[d].answer :
     \/ e \notin In(asking[d].side)
     \/ \E c \in Call : /\ EdgeOf[c] = e
                        /\ Kind[c] = "unfollow"
                        /\ Active(c)
                        /\ <<"redis", asking[d].side>> \notin todo[c]}

\* Wrong: the one handler, a copy of the other, keeps the other's key.
FillOtherKey(d) ==
  LET a == asking[d]
      other == CHOOSE s \in Sides : s # a.side
  IN /\ a.phase = "filling"
     /\ a.answer # {}
     /\ cached' = [cached EXCEPT ![other] = @ \union {<<e[2], e[1]>> : e \in a.answer}]
     /\ disturbed' = disturbed \union Ghosts(d)
     /\ asking' = [asking EXCEPT ![d].phase = "answered"]
     /\ UNCHANGED <<inserted, state, todo, lost, entries, boundVars, wanted>>

Fill(d) ==
  LET a == asking[d]
  IN /\ a.phase = "filling"
     /\ a.answer # {}
     /\ cached' = [cached EXCEPT ![a.side] = @ \union a.answer]
     /\ disturbed' = disturbed \union Ghosts(d)
                      \union (Omitted(a.side, a.user, a.answer) \ a.steady)
     /\ asking' = [asking EXCEPT ![d].phase = "answered"]
     /\ UNCHANGED <<inserted, state, todo, lost, entries, boundVars, wanted>>

\* zadd throws when Redis does, and always when there is nothing to add.
FillThrows(d) ==
  /\ asking[d].phase = "filling"
  /\ IF asking[d].answer = {} THEN UNCHANGED failures ELSE Fails
  /\ asking' = [asking EXCEPT ![d].phase = "failed"]
  /\ UNCHANGED <<state, todo, lost, dbVars, losses, historyVars>>

\* Redis loses a key.
LoseKey(s, u) ==
  /\ losses < MaxLosses
  /\ cached[s] \intersect Under(s, u) # {}
  /\ losses' = losses + 1
  /\ cached' = [cached EXCEPT ![s] = @ \ Under(s, u)]
  /\ UNCHANGED <<inserted, state, todo, lost, entries, asking, failures, historyVars>>

-----------------------------------------------------------------------------
CallStep(c) ==
  \/ \E s \in Sides : MongoWrite(c, s) \/ RedisWrite(c, s)
  \/ Return(c)

ReaderStep(d) ==
  \/ \E s \in Sides, u \in User : AskRedis(d, s, u)
  \/ FindDocument(d) \/ FindNothing(d) \/ FindFails(d) \/ AskThrows(d)
  \/ Fill(d) \/ FillThrows(d)

Next ==
  \/ \E u \in User : InsertUser(u)
  \/ \E c \in Call : \/ Follow(c) \/ Unfollow(c) \/ CallStep(c)
                     \/ FutureThrows(c) \/ WriteVanishes(c)
  \/ \E d \in Reader : ReaderStep(d)
  \/ \E s \in Sides, u \in User : LoseKey(s, u)

Spec == Init /\ [][Next]_vars

-----------------------------------------------------------------------------
(* Properties *)

TypeOK ==
  /\ inserted \subseteq User
  /\ state \in [Call -> {"idle", "running", "ok", "failed"}]
  /\ todo \in [Call -> SUBSET Writes]
  /\ lost \in [Call -> SUBSET Writes]
  /\ entries \in [Sides -> [Edge -> Nat]]
  /\ cached \in [Sides -> SUBSET Edge]
  /\ asking \in [Reader -> Asking]
  /\ failures \in 0..MaxFailures
  /\ losses \in 0..MaxLosses
  /\ wanted \subseteq Edge
  /\ disturbed \subseteq Edge

\* A user is listed once among the followers and the followees of another,
\* however many calls, concurrent or repeated, follow: the $not $elemMatch of
\* find_and_modify.
ListedOnce == \A s \in Sides, e \in Edge : entries[s][e] <= 1

\* When no call on an edge is active, its four copies agree with each other
\* and with the latest call, whatever calls on other edges of the same users
\* do; or Redis has lost the key and has nothing there, so that readers turn to
\* MongoDB.  The exceptions: two calls on the edge overlapped, one failed, a user
\* had no document, a reader filled Redis with an answer that an Unfollow had
\* made stale, or another edge came first under a lost key, and no call that
\* had the edge to itself has followed.
CopiesAgree ==
  \A e \in Steady \ disturbed : \A s \in Sides :
    /\ e \in In(s) <=> e \in wanted
    /\ (e \in cached[s] <=> e \in wanted) \/ Gone(s, e)

\* GetFollowers and GetFollowees answer what the latest calls ask for as to
\* every edge on which no call was active while they ran, with the exceptions
\* of CopiesAgree and of a find that fails, wherever the answer came from: from
\* Redis or, after it has lost the key, from MongoDB.
AnswersRight ==
  \A d \in Reader : LET a == asking[d] IN
    a.phase = "answered" =>
      \A e \in (a.steady \intersect Under(a.side, a.user)) \ disturbed :
        e \in a.answer <=> e \in wanted
=============================================================================
