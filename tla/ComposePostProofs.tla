--------------------------- MODULE ComposePostProofs ---------------------------
(***************************************************************************)
(* Proofs about ComposePost, for any requests, users, ids and followers,   *)
(* whoever follows or unfollows meanwhile.                                 *)
(*                                                                         *)
(* The invariant has three parts.  Progress(r) ties the caller of request  *)
(* r to what its handlers have done to the databases; it mentions the      *)
(* databases of others only in ways that stay true as these grow.          *)
(* Justified says that every id in a timeline belongs to a stored post of  *)
(* the right author, and that stored posts have different ids.  Delivery(r) *)
(* says who has the post of r: whoever must have it, or, when the followers *)
(* were not found, those it mentions and nobody else.                      *)
(***************************************************************************)
EXTENDS ComposePost, TLAPS

Sent(r) == pc[r] \in Services \union {"ok"} \/ \E s \in Services : task[r][s] # "none"

Progress(r) ==
  /\ pending[r] # {} => pc[r] = "compose"
  /\ pc[r] = "compose" =>
       broken[r] \/ "unique_id" \in pending[r] \/ id[r] \in PostId
  /\ Sent(r) => pc[r] \notin {"idle", "compose"} /\ id[r] \in PostId
  /\ task[r]["store"] = "done" => r \in stored
  /\ r \in stored => task[r]["store"] \in {"done", "error"}
  /\ pc[r] \in {"user", "home", "ok"} \/ task[r]["user"] # "none"
       => task[r]["store"] = "done"
  /\ "insert" \in late[r] => task[r]["store"] = "error"
  /\ late[r] \intersect {"upsert", "update", "zadd"} # {} => task[r]["user"] # "none"
  /\ task[r]["user"] \in {"pushed", "done"} /\ Author[r] \in Veteran
       => id[r] \in timeline[Author[r]]
  /\ task[r]["user"] = "done" => id[r] \in cache[Author[r]]
  /\ pc[r] \in {"home", "ok"} \/ task[r]["home"] # "none"
       => task[r]["user"] = "done"
  /\ pc[r] = "idle" => seen[r] = {}
  /\ pc[r] # "idle" => steady[r] \subseteq followers[Author[r]]
                       /\ followers[Author[r]] \subseteq seen[r]
  /\ todo[r] \subseteq Audience(r)
  /\ todo[r] # {} => task[r]["home"] # "none"
  /\ task[r]["home"] = "done" => todo[r] = {}
  /\ pc[r] = "ok" => task[r]["home"] = "done"

Justified ==
  /\ \A q, r \in stored : id[q] = id[r] => q = r
  /\ \A u \in User : \A i \in timeline[u] \union cache[u] :
       \E r \in stored : id[r] = i /\ Author[r] = u
  /\ \A u \in User : \A i \in home[u] :
       \E r \in stored : /\ id[r] = i
                         /\ u \in Audience(r)
                         /\ i \in timeline[Author[r]] \union cache[Author[r]]
  /\ \A d \in Reader : \A p \in filling[d] : p[2] \in timeline[p[1]]

ReadersFind ==
  /\ \A d \in Reader : reading[d] \subseteq {id[r] : r \in stored}
  /\ NeverIncomplete

Everyone(r) == \A u \in (steady[r] \union Mentions[r]) \ todo[r] : id[r] \in home[u]

OnlyMentioned(r) ==
  /\ todo[r] \subseteq Mentions[r]
  /\ \A u \in User \ todo[r] : id[r] \in home[u] <=> u \in Mentions[r]

Delivery(r) ==
  /\ r \in stored /\ task[r]["home"] \in {"none", "running"} =>
       \A u \in User : id[r] \notin home[u]
  /\ task[r]["home"] \in {"fetched", "done"} => Everyone(r) \/ OnlyMentioned(r)

IInv == /\ TypeOK
        /\ \A r \in Request : Progress(r) /\ Delivery(r)
        /\ Justified
        /\ ReadersFind

-----------------------------------------------------------------------------
LEMMA InitIInv == Init => IInv
<1> SUFFICES ASSUME Init PROVE IInv  OBVIOUS
<1> USE ComposeAssumption
<1>1. TypeOK  BY DEF Init, TypeOK, Services, Parts
<1>2. \A r \in Request : Progress(r) /\ Delivery(r)
  BY DEF Init, Progress, Delivery, Sent, Services, Audience
<1>3. Justified  BY DEF Init, Justified
<1>4. ReadersFind  BY DEF Init, ReadersFind, NeverIncomplete
<1> QED  BY <1>1, <1>2, <1>3, <1>4 DEF IInv

\* A step of others only adds to the databases and keeps the progress of r.
LEMMA Frame ==
  ASSUME NEW r \in Request, Progress(r),
         pc'[r] = pc[r], pending'[r] = pending[r], broken'[r] = broken[r],
         id'[r] = id[r], task'[r] = task[r], todo'[r] = todo[r], late'[r] = late[r],
         r \in stored' <=> r \in stored,
         timeline[Author[r]] \subseteq timeline'[Author[r]],
         cache[Author[r]] \subseteq cache'[Author[r]],
         \A u \in User : home[u] \subseteq home'[u],
         steady[r] \union Mentions[r] \subseteq User,
         steady'[r] \subseteq steady[r], seen[r] \subseteq seen'[r],
         pc[r] = "idle" => seen'[r] = seen[r],
         pc[r] # "idle" => steady'[r] \subseteq followers'[Author[r]]
                           /\ followers'[Author[r]] \subseteq seen'[r]
  PROVE  Progress(r)'
BY DEF Progress, Sent, Audience

\* Typing is kept by every step.
LEMMA TypeKept ==
  ASSUME IInv, [Next]_vars  PROVE TypeOK'
<1> USE ComposeAssumption
        DEF TypeOK, Ended, dbVars, readVars, callerVars, jobVars, graphVars
<1>0. TypeOK /\ \A r \in Request : Progress(r)  BY DEF IInv
<1>1. ASSUME NEW r \in Request, Compose(r)  PROVE TypeOK'
  BY <1>0, <1>1 DEF Compose, Parts
<1>2. ASSUME NEW r \in Request, ComposeStep(r)  PROVE TypeOK'
  <2>1. ASSUME NEW p \in Parts, PartReturns(r, p)  PROVE TypeOK'
    <3>1. id' \in [Request -> PostId \union {NoId}]
      BY <1>0, <2>1 DEF PartReturns
    <3>2. pending' \in [Request -> SUBSET Parts]
      BY <1>0, <2>1 DEF PartReturns
    <3> QED  BY <1>0, <2>1, <3>1, <3>2 DEF PartReturns
  <2>2. ASSUME NEW p \in Parts, PartThrows(r, p)  PROVE TypeOK'
    BY <1>0, <2>2 DEF PartThrows
  <2>3. CASE Join(r)  BY <1>0, <2>3 DEF Join, Services
  <2>4. CASE CallReturns(r)
    BY <1>0, <2>4 DEF CallReturns, Services, After
  <2>5. ASSUME NEW s \in Services, Deliver(r, s)  PROVE TypeOK'
    BY <1>0, <2>5 DEF Deliver
  <2> QED  BY <1>2, <2>1, <2>2, <2>3, <2>4, <2>5 DEF ComposeStep
<1>3. ASSUME NEW r \in Request, CallBreaks(r)  PROVE TypeOK'
  BY <1>0, <1>3 DEF CallBreaks
<1>4. ASSUME NEW r \in Request, HandlerStep(r)  PROVE TypeOK'
  <2>0. /\ Author[r] \in User
        /\ task[r]["user"] # "none" \/ task[r]["home"] # "none" => id[r] \in PostId
    BY <1>0 DEF Progress, Sent, Services
  <2>1. CASE StorePost(r)
    BY <1>0, <2>1 DEF StorePost, Insert, HandlerMoves, Services
  <2>2. ASSUME NEW s \in Services, NEW from, NEW to \in {"error", "again"},
               NEW w \in {"insert", "upsert", "update", "zadd"}, GivesUp(r, s, from, to, w)
        PROVE  TypeOK'
    BY <1>0, <2>2 DEF GivesUp, HandlerMoves
  <2>3. CASE PushTimeline(r)
    BY <1>0, <2>0, <2>3 DEF PushTimeline, Push, HandlerMoves, Services
  <2>4. CASE CacheTimeline(r)
    BY <1>0, <2>0, <2>4 DEF CacheTimeline, Zadd, HandlerMoves, Services
  <2>5. CASE UpdateTimeline(r)
    <3>1. CASE Push(r)
      BY <1>0, <2>0, <2>5, <3>1 DEF UpdateTimeline, Push, HandlerMoves, Services
    <3>2. CASE UNCHANGED <<todo, dbVars>>
      BY <1>0, <2>5, <3>2 DEF UpdateTimeline, HandlerMoves, Services
    <3> QED  BY <2>5, <3>1, <3>2 DEF UpdateTimeline, Update
  <2>6. CASE FetchRecipients(r)
    BY <1>0, <2>6 DEF FetchRecipients, HandlerMoves, Services
  <2>7. ASSUME NEW u \in User, WriteHome(r, u)  PROVE TypeOK'
    BY <1>0, <2>0, <2>7 DEF WriteHome, ZaddHome, Services
  <2>8. CASE WriteHomeDone(r)
    BY <1>0, <2>8 DEF WriteHomeDone, HandlerMoves, Services
  <2>9. CASE WriteHomeTimelineFails(r)
    BY <1>0, <2>9 DEF WriteHomeTimelineFails, HandlerMoves, Services
  <2>10. CASE FetchNobody(r)
    BY <1>0, <2>10 DEF FetchNobody, HandlerMoves, Services
  <2>11. CASE HandlerMoves(r, "user", "running", "error") /\ UNCHANGED <<todo, late, dbVars>>
    BY <1>0, <2>11 DEF HandlerMoves, Services
  <2>12. CASE StorePostFails(r) \/ UpsertFails(r) \/ WriteUserTimelineFails(r)
    BY <2>2, <2>11, <2>12
       DEF StorePostFails, UpsertFails, WriteUserTimelineFails, Services
  <2> QED
    BY <1>4, <2>1, <2>3, <2>4, <2>5, <2>6, <2>7, <2>8, <2>9, <2>10, <2>12
       DEF HandlerStep
<1>5. ASSUME NEW q \in Request, LateWrite(q)  PROVE TypeOK'
  <2>1. Author[q] \in User /\ (Sent(q) => id[q] \in PostId)
    BY <1>0 DEF Progress
  <2>2. CASE Lands(q, "insert") /\ Insert(q)
    BY <1>0, <2>2 DEF Lands, Insert
  <2>3. ASSUME NEW w \in {"upsert", "update"}, Lands(q, w), Push(q)  PROVE TypeOK'
    <3>1. id[q] \in PostId  BY <1>0, <2>1, <2>3 DEF Lands, Progress, Sent, Services
    <3> QED  BY <1>0, <2>1, <2>3, <3>1 DEF Lands, Push
  <2>4. CASE Lands(q, "zadd") /\ Zadd(q)
    <3>1. id[q] \in PostId  BY <1>0, <2>1, <2>4 DEF Lands, Progress, Sent, Services
    <3> QED  BY <1>0, <2>1, <2>4, <3>1 DEF Lands, Zadd
  <2>5. ASSUME NEW u \in User, task[q]["home"] = "error", ZaddHome(q, u),
               UNCHANGED <<callerVars, task, late, graphVars, readVars>>
        PROVE  TypeOK'
    BY <1>0, <2>1, <2>5 DEF ZaddHome, Services, Sent
  <2>6. CASE Lands(q, "update") /\ UNCHANGED <<todo, dbVars>>
    BY <1>0, <2>6 DEF Lands
  <2> QED  BY <1>5, <2>2, <2>3, <2>4, <2>5, <2>6 DEF LateWrite, Update
<1>6. ASSUME NEW d \in Reader, ReadStep(d)  PROVE TypeOK'
  <2>1. ASSUME NEW u \in User, ReadHomeTimeline(d, u)  PROVE TypeOK'
    BY <1>0, <2>1 DEF ReadHomeTimeline
  <2>2. ASSUME NEW u \in User, ReadUserTimeline(d, u)  PROVE TypeOK'
    BY <1>0, <2>2 DEF ReadUserTimeline
  <2>3. CASE FillCache(d)
    <3>1. UNCHANGED <<callerVars, jobVars, stored, timeline, home, graphVars,
                      reading, answer>>
      BY <2>3 DEF FillCache
    <3>2. cache' \in [User -> SUBSET PostId]
      <4>1. CASE UNCHANGED cache  BY <1>0, <4>1
      <4>2. CASE cache' = [u \in User |-> cache[u] \union
                             {i \in PostId : <<u, i>> \in filling[d]}]
        BY <1>0, <4>2
      <4> QED  BY <2>3, <4>1, <4>2 DEF FillCache
    <3>3. filling' \in [Reader -> SUBSET (User \X PostId)]
      BY <1>0, <2>3 DEF FillCache
    <3> QED  BY <1>0, <3>1, <3>2, <3>3
  <2>4. CASE ReadPosts(d)  BY <1>0, <2>4 DEF ReadPosts
  <2> QED  BY <1>6, <2>1, <2>2, <2>3, <2>4 DEF ReadStep
<1>7. CASE UNCHANGED vars  BY <1>0, <1>7 DEF vars
<1>8. ASSUME NEW u \in User, NEW v \in User, GainsFollower(u, v) \/ LosesFollower(u, v)
      PROVE  TypeOK'
  <2>1. CASE GainsFollower(u, v)  BY <1>0, <2>1 DEF GainsFollower
  <2>2. CASE LosesFollower(u, v)  BY <1>0, <2>2 DEF LosesFollower
  <2> QED  BY <1>8, <2>1, <2>2
<1> QED  BY <1>1, <1>2, <1>3, <1>4, <1>5, <1>6, <1>7, <1>8 DEF Next

\* What one request does leaves the variables of another alone.
RequestStep(q) ==
  Compose(q) \/ ComposeStep(q) \/ CallBreaks(q) \/ HandlerStep(q) \/ LateWrite(q)

OnlyTouches(q) ==
  /\ \A r \in Request \ {q} :
       /\ pc'[r] = pc[r]
       /\ pending'[r] = pending[r]
       /\ broken'[r] = broken[r]
       /\ id'[r] = id[r]
       /\ task'[r] = task[r]
       /\ todo'[r] = todo[r]
       /\ late'[r] = late[r]
       /\ r \in stored' <=> r \in stored
       /\ steady'[r] = steady[r]
       /\ seen'[r] = seen[r]
  /\ UNCHANGED followers
  /\ \A u \in User : /\ timeline[u] \subseteq timeline'[u]
                     /\ cache[u] \subseteq cache'[u]
                     /\ home[u] \subseteq home'[u]

LEMMA OthersAlone ==
  ASSUME TypeOK, NEW q \in Request, RequestStep(q)
  PROVE  OnlyTouches(q)
<1> USE ComposeAssumption
        DEF TypeOK, dbVars, readVars, callerVars, jobVars, graphVars, HandlerMoves,
            OnlyTouches, Insert, Push, Zadd, ZaddHome
<1>1. CASE Compose(q)  BY <1>1 DEF Compose
<1>2. ASSUME NEW p \in Parts, PartReturns(q, p) \/ PartThrows(q, p)
      PROVE  OnlyTouches(q)
  BY <1>2 DEF PartReturns, PartThrows
<1>3. CASE Join(q) \/ CallReturns(q) \/ CallBreaks(q)
  BY <1>3 DEF Join, CallReturns, CallBreaks
<1>4. ASSUME NEW s \in Services, Deliver(q, s)  PROVE OnlyTouches(q)
  BY <1>4 DEF Deliver
<1>5. CASE StorePost(q)  BY <1>5 DEF StorePost
<1>6. CASE PushTimeline(q)  BY <1>6 DEF PushTimeline
<1>7. CASE CacheTimeline(q)  BY <1>7 DEF CacheTimeline
<1>8. CASE FetchRecipients(q) \/ FetchNobody(q) \/ WriteHomeDone(q)
           \/ WriteHomeTimelineFails(q)
  BY <1>8 DEF FetchRecipients, FetchNobody, WriteHomeDone, WriteHomeTimelineFails
<1>9. ASSUME NEW u \in User, WriteHome(q, u)  PROVE OnlyTouches(q)
  BY <1>9 DEF WriteHome
<1>10. CASE LateWrite(q)
  <2>1. CASE Lands(q, "insert") /\ Insert(q)  BY <2>1 DEF Lands
  <2>2. CASE Lands(q, "upsert") /\ Push(q)  BY <2>2 DEF Lands
  <2>3. CASE Lands(q, "zadd") /\ Zadd(q)  BY <2>3 DEF Lands
  <2>4. ASSUME NEW u \in User, ZaddHome(q, u), UNCHANGED <<callerVars, task, late, graphVars>>
        PROVE  OnlyTouches(q)
    BY <2>4
  <2>5. CASE Lands(q, "update") /\ Update(q)
    <3>1. CASE Push(q)  BY <2>5, <3>1 DEF Lands
    <3>2. CASE UNCHANGED <<todo, dbVars>>  BY <2>5, <3>2 DEF Lands
    <3> QED  BY <2>5, <3>1, <3>2 DEF Update
  <2> QED  BY <1>10, <2>1, <2>2, <2>3, <2>4, <2>5 DEF LateWrite
<1>11. ASSUME NEW s, NEW from, NEW to, NEW w, GivesUp(q, s, from, to, w)
       PROVE  OnlyTouches(q)
  BY <1>11 DEF GivesUp
<1>12. CASE StorePostFails(q) \/ UpsertFails(q) \/ WriteUserTimelineFails(q)
  <2>1. CASE HandlerMoves(q, "user", "running", "error") /\ UNCHANGED <<todo, late, dbVars>>
    BY <2>1
  <2> QED  BY <1>11, <1>12, <2>1 DEF StorePostFails, UpsertFails, WriteUserTimelineFails
<1>13. CASE UpdateTimeline(q)
  <2>1. CASE Push(q)  BY <1>13, <2>1 DEF UpdateTimeline
  <2>2. CASE UNCHANGED <<todo, dbVars>>  BY <1>13, <2>2 DEF UpdateTimeline
  <2> QED  BY <1>13, <2>1, <2>2 DEF UpdateTimeline, Update
<1> QED
  BY <1>1, <1>2, <1>3, <1>4, <1>5, <1>6, <1>7, <1>8, <1>9, <1>10, <1>12, <1>13
     DEF RequestStep, ComposeStep, HandlerStep

\* A request's own steps keep its progress.
LEMMA OwnProgress ==
  ASSUME TypeOK, NEW r \in Request, Progress(r), RequestStep(r)
  PROVE  Progress(r)'
<1> USE ComposeAssumption
        DEF TypeOK, Progress, Sent, Services, dbVars, readVars, callerVars, jobVars,
            graphVars, Insert, Push, Zadd, ZaddHome, Audience
<1>0. Author[r] \in User /\ steady[r] \union Mentions[r] \subseteq User
  OBVIOUS
<1>1. CASE Compose(r)  BY <1>0, <1>1 DEF Compose, Parts
<1>2. ASSUME NEW p \in Parts, PartReturns(r, p)  PROVE Progress(r)'
  BY <1>0, <1>2 DEF PartReturns
<1>3. ASSUME NEW p \in Parts, PartThrows(r, p)  PROVE Progress(r)'
  BY <1>0, <1>3 DEF PartThrows
<1>4. CASE Join(r)  BY <1>0, <1>4 DEF Join
<1>5. CASE CallReturns(r)  BY <1>0, <1>5 DEF CallReturns, After, Ended
<1>6. CASE CallBreaks(r)  BY <1>0, <1>6 DEF CallBreaks
<1>7. ASSUME NEW s \in Services, Deliver(r, s)  PROVE Progress(r)'
  BY <1>0, <1>7 DEF Deliver
<1>8. CASE StorePost(r)  BY <1>0, <1>8 DEF StorePost, HandlerMoves
<1>9. CASE StorePostFails(r)  BY <1>0, <1>9 DEF StorePostFails, GivesUp, HandlerMoves
<1>10. CASE PushTimeline(r)  BY <1>0, <1>10 DEF PushTimeline, HandlerMoves
<1>11. CASE CacheTimeline(r)  BY <1>0, <1>11 DEF CacheTimeline, HandlerMoves
<1>12. CASE WriteUserTimelineFails(r)
  BY <1>0, <1>12 DEF WriteUserTimelineFails, GivesUp, HandlerMoves
<1>13. CASE FetchRecipients(r) \/ FetchNobody(r)
  BY <1>0, <1>13 DEF FetchRecipients, FetchNobody, HandlerMoves
<1>14. ASSUME NEW u \in User, WriteHome(r, u)  PROVE Progress(r)'
  BY <1>0, <1>14 DEF WriteHome
<1>15. CASE WriteHomeDone(r)  BY <1>0, <1>15 DEF WriteHomeDone, HandlerMoves
<1>16. CASE WriteHomeTimelineFails(r)
  BY <1>0, <1>16 DEF WriteHomeTimelineFails, HandlerMoves
<1>17. CASE LateWrite(r)
  <2>1. CASE Lands(r, "insert") /\ Insert(r)  BY <1>0, <2>1 DEF Lands
  <2>2. ASSUME NEW w \in {"upsert", "update"}, Lands(r, w), Push(r)  PROVE Progress(r)'
    BY <1>0, <2>2 DEF Lands
  <2>3. CASE Lands(r, "update") /\ UNCHANGED <<todo, dbVars>>  BY <1>0, <2>3 DEF Lands
  <2>4. CASE Lands(r, "zadd") /\ Zadd(r)  BY <1>0, <2>4 DEF Lands
  <2>5. ASSUME NEW u \in User, task[r]["home"] = "error", ZaddHome(r, u),
               UNCHANGED <<callerVars, task, late, graphVars, readVars>>
        PROVE  Progress(r)'
    BY <1>0, <2>5
  <2> QED  BY <1>17, <2>1, <2>2, <2>3, <2>4, <2>5 DEF LateWrite, Update
<1>18. CASE UpsertFails(r)  BY <1>0, <1>18 DEF UpsertFails, GivesUp, HandlerMoves
<1>19. CASE UpdateTimeline(r)
  <2>1. CASE Push(r)  BY <1>0, <1>19, <2>1 DEF UpdateTimeline, HandlerMoves
  <2>2. CASE UNCHANGED <<todo, dbVars>> /\ ~HasTimeline(Author[r])
    BY <1>0, <1>19, <2>2 DEF UpdateTimeline, HandlerMoves, HasTimeline
  <2> QED  BY <1>19, <2>1, <2>2 DEF UpdateTimeline, Update
<1> QED
  BY <1>1, <1>2, <1>3, <1>4, <1>5, <1>6, <1>7, <1>8, <1>9, <1>10, <1>11,
     <1>12, <1>13, <1>14, <1>15, <1>16, <1>17, <1>18, <1>19
     DEF RequestStep, ComposeStep, HandlerStep

LEMMA ProgressKept ==
  ASSUME IInv, [Next]_vars  PROVE \A r \in Request : Progress(r)'
<1> SUFFICES ASSUME NEW r \in Request  PROVE Progress(r)'  OBVIOUS
<1> USE ComposeAssumption
<1>0. /\ TypeOK /\ Progress(r) /\ Author[r] \in User
      /\ steady[r] \union Mentions[r] \subseteq User
      /\ pc[r] # "idle" => steady[r] \subseteq followers[Author[r]]
                          /\ followers[Author[r]] \subseteq seen[r]
  BY DEF IInv, TypeOK, Progress
<1>1. ASSUME NEW q \in Request, RequestStep(q)  PROVE Progress(r)'
  <2>1. CASE q = r  BY <1>0, <1>1, <2>1, OwnProgress
  <2>2. CASE q # r
    <3>1. OnlyTouches(q)  BY <1>0, <1>1, OthersAlone
    <3> QED  BY <1>0, <2>2, <3>1, Frame DEF OnlyTouches
  <2> QED  BY <2>1, <2>2
<1>2. CASE /\ UNCHANGED <<callerVars, jobVars, stored, timeline, home, graphVars>>
           /\ \A u \in User : cache[u] \subseteq cache'[u]
  BY <1>0, <1>2, Frame DEF callerVars, jobVars, graphVars
<1>3. ASSUME NEW d \in Reader, ReadStep(d)  PROVE Progress(r)'
  <2>1. CASE FillCache(d)  BY <1>2, <2>1 DEF FillCache
  <2>2. CASE ~FillCache(d)
    BY <1>2, <1>3, <2>2
       DEF ReadStep, ReadHomeTimeline, ReadUserTimeline, ReadPosts, dbVars
  <2> QED  BY <2>1, <2>2
<1>4. CASE UNCHANGED vars  BY <1>2, <1>4 DEF vars, callerVars, jobVars, dbVars, graphVars
<1>5. ASSUME NEW u \in User, NEW v \in User, GainsFollower(u, v) \/ LosesFollower(u, v)
      PROVE  Progress(r)'
  <2>1. /\ UNCHANGED <<callerVars, jobVars, dbVars>>
        /\ steady'[r] \subseteq steady[r] /\ seen[r] \subseteq seen'[r]
    <3>1. CASE GainsFollower(u, v)  BY <1>0, <3>1 DEF GainsFollower, TypeOK
    <3>2. CASE LosesFollower(u, v)  BY <1>0, <3>2 DEF LosesFollower, TypeOK
    <3> QED  BY <1>5, <3>1, <3>2
  <2>2. /\ pc[r] = "idle" => seen'[r] = seen[r]
        /\ pc[r] # "idle" => steady'[r] \subseteq followers'[Author[r]]
                            /\ followers'[Author[r]] \subseteq seen'[r]
    <3>1. CASE GainsFollower(u, v)
      BY <1>0, <3>1 DEF GainsFollower, TypeOK
    <3>2. CASE LosesFollower(u, v)
      BY <1>0, <3>2 DEF LosesFollower, TypeOK
    <3> QED  BY <1>5, <3>1, <3>2
  <2> QED  BY <1>0, <2>1, <2>2, Frame DEF callerVars, jobVars, dbVars
<1> QED  BY <1>1, <1>2, <1>3, <1>4, <1>5 DEF Next, RequestStep

\* The posts stored stay stored, under the id they have.
LEMMA StoredIdsFixed ==
  ASSUME IInv, [Next]_vars
  PROVE  stored \subseteq stored' /\ \A r \in stored : id'[r] = id[r]
<1> USE DEF dbVars, callerVars, readVars
<1>0. TypeOK /\ \A r \in Request : Progress(r)  BY DEF IInv
<1>1. ASSUME NEW q \in Request, NEW p \in Parts, PartReturns(q, p)
      PROVE  /\ stored' = stored
             /\ \A r \in stored : id'[r] = id[r]
  <2>1. q \notin stored
    BY <1>0, <1>1 DEF PartReturns, Progress, Sent, Services
  <2> QED  BY <1>0, <1>1, <2>1 DEF PartReturns, TypeOK
<1>2. ASSUME NEW q \in Request,
             \/ Compose(q) \/ Join(q) \/ CallReturns(q) \/ CallBreaks(q)
             \/ \E p \in Parts : PartThrows(q, p)
             \/ \E s \in Services : Deliver(q, s)
      PROVE  UNCHANGED <<stored, id>>
  BY <1>2 DEF Compose, Join, CallReturns, CallBreaks, PartThrows, Deliver
<1>3. ASSUME NEW q \in Request, HandlerStep(q) \/ LateWrite(q)
      PROVE  stored \subseteq stored' /\ id' = id
  BY <1>3 DEF HandlerStep, HandlerMoves, GivesUp, Lands, Update, StorePost, StorePostFails,
    PushTimeline, UpsertFails, UpdateTimeline, CacheTimeline, WriteUserTimelineFails,
    FetchRecipients, FetchNobody, WriteHome, WriteHomeDone, WriteHomeTimelineFails, LateWrite,
    Insert, Push, Zadd, ZaddHome
<1>4. ASSUME NEW d \in Reader, ReadStep(d)  PROVE UNCHANGED <<stored, id>>
  BY <1>4 DEF ReadStep, ReadHomeTimeline, ReadUserTimeline, FillCache, ReadPosts
<1>5. CASE UNCHANGED vars  BY <1>5 DEF vars
<1>6. ASSUME NEW u \in User, NEW v \in User, GainsFollower(u, v) \/ LosesFollower(u, v)
      PROVE  UNCHANGED <<stored, id>>
  BY <1>6 DEF GainsFollower, LosesFollower
<1>7. ASSUME NEW q \in Request, RequestStep(q)
      PROVE  stored \subseteq stored' /\ \A r \in stored : id'[r] = id[r]
  BY <1>1, <1>2, <1>3, <1>7 DEF RequestStep, ComposeStep
<1> QED  BY <1>4, <1>5, <1>6, <1>7 DEF Next, RequestStep

\* What a handler does to the databases, and what it then knows.
WriteEffect(q) ==
  \/ Insert(q) /\ q \notin stored
  \/ (Push(q) \/ Zadd(q)) /\ q \in stored
  \/ /\ \E u \in Audience(q) : ZaddHome(q, u)
     /\ q \in stored
     /\ id[q] \in cache[Author[q]]

LEMMA WritesJustified ==
  ASSUME IInv, NEW q \in Request, HandlerStep(q) \/ LateWrite(q)
  PROVE  UNCHANGED <<id, graphVars, readVars>> /\ (WriteEffect(q) \/ UNCHANGED dbVars)
<1> USE DEF callerVars
<1>0. Progress(q)  BY DEF IInv
<1>1. CASE StorePost(q)
  BY <1>0, <1>1 DEF StorePost, HandlerMoves, Progress, WriteEffect
<1>2. CASE PushTimeline(q)
  BY <1>0, <1>2 DEF PushTimeline, HandlerMoves, Progress, WriteEffect
<1>3. CASE CacheTimeline(q)
  BY <1>0, <1>3 DEF CacheTimeline, HandlerMoves, Progress, WriteEffect
<1>4. ASSUME NEW u \in User, WriteHome(q, u)
      PROVE  UNCHANGED <<id, graphVars, readVars>> /\ WriteEffect(q)
  BY <1>0, <1>4 DEF WriteHome, ZaddHome, Progress, WriteEffect
<1>5. CASE LateWrite(q)
  <2>1. CASE Lands(q, "insert") /\ Insert(q)
    BY <1>0, <2>1 DEF Lands, Insert, Progress, WriteEffect
  <2>2. CASE \/ Lands(q, "upsert") /\ Push(q)
             \/ Lands(q, "update") /\ Update(q)
             \/ Lands(q, "zadd") /\ Zadd(q)
    <3>1. q \in stored  BY <1>0, <2>2 DEF Lands, Progress
    <3> QED  BY <2>2, <3>1 DEF Lands, Update, WriteEffect
  <2>3. ASSUME NEW u \in User, task[q]["home"] = "error", ZaddHome(q, u),
               UNCHANGED <<callerVars, task, late, graphVars, readVars>>
        PROVE  UNCHANGED <<id, graphVars, readVars>> /\ WriteEffect(q)
    BY <1>0, <2>3 DEF ZaddHome, Progress, WriteEffect
  <2> QED  BY <1>5, <2>1, <2>2, <2>3 DEF LateWrite
<1>6. CASE StorePostFails(q) \/ UpsertFails(q) \/ WriteUserTimelineFails(q)
           \/ FetchRecipients(q) \/ FetchNobody(q) \/ WriteHomeDone(q)
           \/ WriteHomeTimelineFails(q)
  BY <1>6 DEF StorePostFails, UpsertFails, WriteUserTimelineFails, GivesUp,
     FetchRecipients, FetchNobody, WriteHomeDone, WriteHomeTimelineFails, HandlerMoves
<1>7. CASE UpdateTimeline(q)
  BY <1>0, <1>7 DEF UpdateTimeline, Update, HandlerMoves, Progress, WriteEffect
<1> QED  BY <1>1, <1>2, <1>3, <1>4, <1>5, <1>6, <1>7 DEF HandlerStep

LEMMA CallersLeaveDatabases ==
  ASSUME NEW q \in Request, Compose(q) \/ ComposeStep(q) \/ CallBreaks(q)
  PROVE  UNCHANGED <<dbVars, readVars>>
BY DEF Compose, ComposeStep, CallBreaks, PartReturns, PartThrows, Join,
     CallReturns, Deliver

\* Who has followed the author since r began stays in the audience of r.
LEMMA AudienceGrows ==
  ASSUME IInv, [Next]_vars
  PROVE  \A r \in Request : seen[r] \subseteq seen'[r]
<1>0. TypeOK /\ \A r \in Request : Progress(r)  BY DEF IInv
<1>1. ASSUME NEW q \in Request, HandlerStep(q) \/ LateWrite(q)
      PROVE  UNCHANGED seen
  BY <1>1, WritesJustified DEF graphVars
<1>2. ASSUME NEW q \in Request, Compose(q)
      PROVE  \A r \in Request : seen[r] \subseteq seen'[r]
  BY <1>0, <1>2 DEF TypeOK, Compose, Progress
<1>3. ASSUME NEW q \in Request, ComposeStep(q) \/ CallBreaks(q)
      PROVE  UNCHANGED seen
  BY <1>3 DEF ComposeStep, CallBreaks, PartReturns, PartThrows, Join,
     CallReturns, Deliver, graphVars
<1>4. ASSUME NEW d \in Reader, ReadStep(d)  PROVE UNCHANGED seen
  BY <1>4 DEF ReadStep, ReadHomeTimeline, ReadUserTimeline, FillCache,
     ReadPosts, graphVars
<1>5. ASSUME NEW u \in User, NEW v \in User, GainsFollower(u, v) \/ LosesFollower(u, v)
      PROVE  \A r \in Request : seen[r] \subseteq seen'[r]
  BY <1>0, <1>5 DEF GainsFollower, LosesFollower, TypeOK
<1>6. CASE UNCHANGED vars  BY <1>6 DEF vars
<1> QED  BY <1>1, <1>2, <1>3, <1>4, <1>5, <1>6 DEF Next

LEMMA JustifiedKept ==
  ASSUME IInv, [Next]_vars  PROVE Justified'
<1> USE ComposeAssumption DEF Justified, Audience
<1>0. /\ TypeOK /\ Justified
      /\ stored \subseteq Request
      /\ stored \subseteq stored'
      /\ \A r \in stored : id'[r] = id[r] /\ seen[r] \subseteq seen'[r]
  BY StoredIdsFixed, AudienceGrows DEF IInv, TypeOK
<1>1. CASE UNCHANGED dbVars /\ UNCHANGED filling
  BY <1>0, <1>1 DEF dbVars
<1>2. ASSUME NEW q \in Request, HandlerStep(q) \/ LateWrite(q)
      PROVE  Justified'
  <2>0. /\ UNCHANGED <<id, filling>>
        /\ WriteEffect(q) \/ UNCHANGED dbVars
    BY <1>2, WritesJustified DEF readVars
  <2>1. CASE Insert(q) /\ q \notin stored
    <3>1. /\ stored' = stored \union {q}
          /\ \A r \in stored : id[r] # id[q]
          /\ UNCHANGED <<timeline, cache, home>>
      BY <2>1 DEF Insert
    <3> QED  BY <1>0, <2>0, <3>1
  <2>2. CASE (Push(q) \/ Zadd(q)) /\ q \in stored
    <3>1. /\ UNCHANGED <<stored, home>>
          /\ \A u \in User :
               /\ timeline[u] \subseteq timeline'[u]
               /\ cache[u] \subseteq cache'[u]
               /\ \A i \in timeline'[u] \union cache'[u] :
                    \/ i \in timeline[u] \union cache[u]
                    \/ i = id[q] /\ u = Author[q]
      BY <1>0, <2>2 DEF TypeOK, Push, Zadd
    <3>2. \A u \in User : \A i \in timeline'[u] \union cache'[u] :
            \E r \in stored : id[r] = i /\ Author[r] = u
      BY <1>0, <2>2, <3>1
    <3>3. \A u \in User : \A i \in home[u] :
            \E r \in stored : /\ id[r] = i
                              /\ u \in seen'[r] \union Mentions[r]
                              /\ i \in timeline'[Author[r]] \union cache'[Author[r]]
      <4>1. \A r \in stored : Author[r] \in User  BY <1>0
      <4> QED  BY <1>0, <3>1, <4>1
    <3>4. \A d \in Reader : \A p \in filling[d] : p[2] \in timeline'[p[1]]
      BY <1>0, <3>1 DEF TypeOK
    <3> QED  BY <1>0, <2>0, <3>1, <3>2, <3>3, <3>4
  <2>3. ASSUME NEW v \in Audience(q), ZaddHome(q, v),
               q \in stored, id[q] \in cache[Author[q]]
        PROVE  Justified'
    <3>1. /\ UNCHANGED <<stored, timeline, cache>>
          /\ \A u \in User : \A i \in home'[u] :
               i \in home[u] \/ (i = id[q] /\ u = v)
      BY <1>0, <2>3 DEF TypeOK, ZaddHome
    <3> QED  BY <1>0, <2>0, <2>3, <3>1
  <2> QED  BY <2>0, <2>1, <2>2, <2>3, <1>1 DEF WriteEffect
<1>3. ASSUME NEW q \in Request, Compose(q) \/ ComposeStep(q) \/ CallBreaks(q)
      PROVE  UNCHANGED <<dbVars, filling>>
  BY <1>3, CallersLeaveDatabases DEF readVars
<1>4. ASSUME NEW d \in Reader, ReadStep(d)  PROVE Justified'
  <2>1. CASE FillCache(d)
    <3>1. \A u \in User : \A i \in cache'[u] :
            i \in cache[u] \/ <<u, i>> \in filling[d]
      <4>1. CASE UNCHANGED cache  BY <4>1
      <4>2. CASE cache' = [u \in User |-> cache[u] \union
                             {i \in PostId : <<u, i>> \in filling[d]}]
        BY <4>2
      <4> QED  BY <2>1, <4>1, <4>2 DEF FillCache
    <3>2. \A u \in User : \A i \in cache'[u] : i \in cache[u] \union timeline[u]
      <4> SUFFICES ASSUME NEW u \in User, NEW i \in cache'[u], <<u, i>> \in filling[d]
                   PROVE  i \in timeline[u]
        BY <3>1
      <4> QED  BY <1>0
    <3>3. /\ UNCHANGED <<id, stored, timeline, home>>
          /\ \A e \in Reader : filling'[e] \subseteq filling[e]
      BY <1>0, <2>1 DEF FillCache, callerVars, TypeOK
    <3>4. \A u \in User : \A i \in home[u] :
            \E r \in stored : /\ id[r] = i
                              /\ u \in seen'[r] \union Mentions[r]
                              /\ i \in timeline[Author[r]] \union cache'[Author[r]]
      <4>1. \A u \in User : cache[u] \subseteq cache'[u]  BY <2>1 DEF FillCache
      <4>2. \A r \in stored : Author[r] \in User  BY <1>0
      <4> QED  BY <1>0, <4>1, <4>2
    <3>5. \A u \in User : \A i \in timeline[u] \union cache'[u] :
            \E r \in stored : id[r] = i /\ Author[r] = u
      BY <1>0, <3>2
    <3>6. \A r \in stored' : id'[r] = id[r] /\ r \in stored  BY <3>3
    <3> QED  BY <1>0, <3>3, <3>4, <3>5, <3>6
  <2>2. ASSUME NEW u \in User, ReadUserTimeline(d, u)  PROVE Justified'
    <3>1. /\ UNCHANGED dbVars
          /\ \A e \in Reader : \A p \in filling'[e] :
               p \in filling[e] \/ p[2] \in timeline[p[1]]
      BY <1>0, <2>2 DEF ReadUserTimeline, TypeOK
    <3> QED  BY <1>0, <3>1 DEF dbVars
  <2>3. ASSUME NEW u \in User, ReadHomeTimeline(d, u)  PROVE Justified'
    BY <1>1, <2>3 DEF ReadHomeTimeline
  <2>4. CASE ReadPosts(d)  BY <1>1, <2>4 DEF ReadPosts
  <2> QED  BY <1>4, <2>1, <2>2, <2>3, <2>4 DEF ReadStep
<1>5. CASE UNCHANGED vars  BY <1>1, <1>5 DEF vars, dbVars
<1>6. ASSUME NEW u \in User, NEW v \in User, GainsFollower(u, v) \/ LosesFollower(u, v)
      PROVE  Justified'
  BY <1>1, <1>6 DEF GainsFollower, LosesFollower, readVars
<1> QED  BY <1>1, <1>2, <1>3, <1>4, <1>5, <1>6 DEF Next

\* A step that changes no home timeline, as far as the post of r goes, keeps Delivery.
LEMMA DeliveryFrame ==
  ASSUME NEW r \in Request, Progress(r), Delivery(r),
         r \in stored' <=> r \in stored,
         r \in stored => id'[r] = id[r],
         r \in stored => \A u \in User : id[r] \in home'[u] <=> id[r] \in home[u],
         todo'[r] = todo[r],
         pc[r] # "idle" => steady'[r] \subseteq steady[r],
         task'[r]["home"] \in {"none", "running"} => task[r]["home"] \in {"none", "running"},
         task'[r]["home"] \in {"fetched", "done"} => task[r]["home"] \in {"fetched", "done"},
         steady[r] \union Mentions[r] \subseteq User
  PROVE  Delivery(r)'
<1> USE DEF Delivery
<1>1. r \in stored' /\ task'[r]["home"] \in {"none", "running"} =>
        \A u \in User : id'[r] \notin home'[u]
  OBVIOUS
<1>2. ASSUME task'[r]["home"] \in {"fetched", "done"}
      PROVE  (Everyone(r) \/ OnlyMentioned(r))'
  <2>1. task[r]["home"] \in {"fetched", "done"}  BY <1>2
  <2>2. r \in stored /\ pc[r] # "idle"
    BY <2>1 DEF Progress, Sent, Services
  <2>3. id'[r] = id[r] /\ \A u \in User : id'[r] \in home'[u] <=> id[r] \in home[u]
    BY <2>2
  <2>4. CASE Everyone(r)
    BY <2>2, <2>3, <2>4 DEF Everyone
  <2>5. CASE OnlyMentioned(r)
    BY <2>3, <2>5 DEF OnlyMentioned
  <2> QED  BY <2>1, <2>4, <2>5
<1> QED  BY <1>1, <1>2

\* What the steps of r itself do to its delivery.
LEMMA OwnDelivery ==
  ASSUME IInv, NEW r \in Request, RequestStep(r)
  PROVE  Delivery(r)'
<1> USE ComposeAssumption
<1>0. /\ TypeOK /\ Progress(r) /\ Delivery(r) /\ Justified
      /\ steady[r] \union Mentions[r] \subseteq User
      /\ Author[r] \in User
  BY DEF IInv, TypeOK
<1>1. ASSUME UNCHANGED <<pc, id, todo, stored, home, steady>>,
             \/ task'[r]["home"] = task[r]["home"]
             \/ task'[r]["home"] = "error"
             \/ task'[r]["home"] = "done" /\ task[r]["home"] = "fetched"
      PROVE  Delivery(r)'
  BY <1>0, <1>1, DeliveryFrame
<1>2. ASSUME Insert(r), r \notin stored, id' = id, task'[r]["home"] = task[r]["home"]
      PROVE  Delivery(r)'
  <2>1. task[r]["home"] = "none"
    BY <1>0, <1>2 DEF Progress
  <2>2. \A u \in User : id[r] \notin home[u]
    BY <1>0, <1>2 DEF Insert, Justified
  <2> QED  BY <1>2, <2>1, <2>2 DEF Insert, Delivery
<1>3. CASE Compose(r) \/ ComposeStep(r) \/ CallBreaks(r)
  <2>1. UNCHANGED <<dbVars, todo>>
    BY <1>3, CallersLeaveDatabases
       DEF Compose, ComposeStep, CallBreaks, PartReturns, PartThrows, Join, CallReturns,
           Deliver, jobVars
  <2>2. \/ task[r]["home"] = task'[r]["home"]
        \/ task[r]["home"] = "none" /\ task'[r]["home"] = "running"
    <3>1. UNCHANGED task \/ \E s \in Services : Deliver(r, s)
      BY <1>3 DEF Compose, ComposeStep, CallBreaks, PartReturns, PartThrows, Join,
         CallReturns, jobVars
    <3>2. ASSUME NEW s \in Services, Deliver(r, s), s # "home"
          PROVE  task[r]["home"] = task'[r]["home"]
      BY <1>0, <3>2 DEF Deliver, TypeOK, Services
    <3>3. ASSUME Deliver(r, "home")
          PROVE  task[r]["home"] = "none" /\ task'[r]["home"] = "running"
      BY <1>0, <3>3 DEF Deliver, TypeOK, Services
    <3> QED  BY <3>1, <3>2, <3>3
  <2>3. r \in stored => id'[r] = id[r] /\ steady'[r] \subseteq steady[r]
    <3>1. r \in stored => pc[r] # "idle" /\ pending[r] = {}
      BY <1>0 DEF Progress, Sent, Services
    <3> QED
      BY <1>3, <3>1 DEF Compose, ComposeStep, CallBreaks, PartReturns, PartThrows, Join,
           CallReturns, Deliver, graphVars, callerVars
  <2>4. r \notin stored => task[r]["home"] = "none" /\ task'[r]["home"] \in {"none", "running"}
    BY <1>0, <2>2 DEF Progress
  <2>5. CASE r \in stored
    BY <1>0, <2>1, <2>2, <2>3, <2>5, DeliveryFrame DEF dbVars
  <2>6. CASE r \notin stored
    BY <2>1, <2>4, <2>6 DEF dbVars, Delivery
  <2> QED  BY <2>5, <2>6
<1>4. ASSUME NEW s \in {"store", "user"}, NEW from, NEW to, HandlerMoves(r, s, from, to)
      PROVE  UNCHANGED <<pc, id, steady>> /\ task'[r]["home"] = task[r]["home"]
  BY <1>0, <1>4 DEF HandlerMoves, callerVars, graphVars, TypeOK, Services
<1>5. CASE StorePost(r)
  <2>1. r \notin stored  BY <1>0, <1>5 DEF StorePost, HandlerMoves, Progress
  <2> QED  BY <1>2, <1>4, <1>5, <2>1 DEF StorePost
<1>6. CASE \/ PushTimeline(r) \/ UpdateTimeline(r) \/ CacheTimeline(r)
           \/ StorePostFails(r) \/ UpsertFails(r) \/ WriteUserTimelineFails(r)
  BY <1>1, <1>4, <1>6
     DEF PushTimeline, UpdateTimeline, CacheTimeline, StorePostFails, UpsertFails,
         WriteUserTimelineFails, GivesUp, Update, Push, Zadd, dbVars
<1>7. CASE FetchRecipients(r)
  <2>1. /\ todo'[r] = followers[Author[r]] \union Mentions[r]
        /\ task'[r]["home"] = "fetched"
        /\ steady'[r] = steady[r]
    BY <1>0, <1>7 DEF FetchRecipients, HandlerMoves, TypeOK, Services, graphVars
  <2>2. steady[r] \subseteq followers[Author[r]]
    BY <1>0, <1>7 DEF FetchRecipients, HandlerMoves, Progress, Sent, Services
  <2> QED  BY <2>1, <2>2 DEF Delivery, Everyone
<1>8. CASE FetchNobody(r)
  <2>1. /\ todo'[r] = Mentions[r]
        /\ task'[r]["home"] = "fetched"
        /\ UNCHANGED <<id, home>>
    BY <1>0, <1>8 DEF FetchNobody, HandlerMoves, TypeOK, Services, callerVars, dbVars
  <2>2. \A u \in User : id[r] \notin home[u]
    BY <1>0, <1>8 DEF FetchNobody, HandlerMoves, Progress, Delivery
  <2>3. OnlyMentioned(r)'  BY <2>1, <2>2 DEF OnlyMentioned
  <2> QED  BY <2>1, <2>3 DEF Delivery
<1>9. ASSUME NEW v \in User, ZaddHome(r, v), UNCHANGED <<id, steady>>,
             task[r]["home"] \in {"fetched", "error"}, task'[r] = task[r]
      PROVE  Delivery(r)'
  <2>1. /\ v \in todo[r]
        /\ todo'[r] = todo[r] \ {v}
        /\ \A u \in User : id[r] \in home'[u] <=> id[r] \in home[u] \/ u = v
    BY <1>0, <1>9 DEF ZaddHome, TypeOK
  <2>2. Everyone(r) => Everyone(r)'
    BY <1>0, <1>9, <2>1 DEF Everyone
  <2>3. OnlyMentioned(r) => OnlyMentioned(r)'
    BY <1>0, <1>9, <2>1 DEF OnlyMentioned
  <2> QED  BY <1>0, <1>9, <2>2, <2>3 DEF Delivery
<1>10. CASE WriteHomeDone(r) \/ WriteHomeTimelineFails(r)
  <2>1. \/ task'[r]["home"] = "error"
        \/ task'[r]["home"] = "done" /\ task[r]["home"] = "fetched"
    BY <1>0, <1>10 DEF WriteHomeDone, WriteHomeTimelineFails, HandlerMoves, TypeOK, Services
  <2> QED
    BY <1>1, <1>10, <2>1
       DEF WriteHomeDone, WriteHomeTimelineFails, HandlerMoves, callerVars, graphVars, dbVars
<1>11. ASSUME NEW u \in User, WriteHome(r, u)  PROVE Delivery(r)'
  BY <1>9, <1>11 DEF WriteHome, callerVars, graphVars
<1>12. CASE LateWrite(r)
  <2>1. CASE Lands(r, "insert") /\ Insert(r)
    <3>1. r \notin stored  BY <2>1 DEF Insert
    <3> QED  BY <1>2, <2>1, <3>1 DEF Lands, callerVars
  <2>2. CASE \/ Lands(r, "upsert") /\ Push(r)
             \/ Lands(r, "update") /\ Update(r)
             \/ Lands(r, "zadd") /\ Zadd(r)
    BY <1>1, <2>2 DEF Lands, Update, Push, Zadd, callerVars, graphVars, dbVars
  <2>3. ASSUME NEW u \in User, task[r]["home"] = "error", ZaddHome(r, u),
               UNCHANGED <<callerVars, task, late, graphVars, readVars>>
        PROVE  Delivery(r)'
    BY <1>9, <2>3 DEF callerVars, graphVars
  <2> QED  BY <1>12, <2>1, <2>2, <2>3 DEF LateWrite
<1> QED
  BY <1>3, <1>5, <1>6, <1>7, <1>8, <1>10, <1>11, <1>12 DEF RequestStep, HandlerStep

LEMMA DeliveryKept ==
  ASSUME IInv, [Next]_vars  PROVE \A r \in Request : Delivery(r)'
<1> SUFFICES ASSUME NEW r \in Request  PROVE Delivery(r)'  OBVIOUS
<1> USE ComposeAssumption
<1>0. /\ TypeOK /\ Progress(r) /\ Delivery(r) /\ Justified
      /\ steady[r] \union Mentions[r] \subseteq User
      /\ r \in stored => id'[r] = id[r]
  BY StoredIdsFixed DEF IInv, TypeOK
<1>1. CASE UNCHANGED <<pc, task, todo, stored, home>> /\ steady'[r] \subseteq steady[r]
  BY <1>0, <1>1, DeliveryFrame
<1>2. ASSUME NEW q \in Request, q # r, RequestStep(q)  PROVE Delivery(r)'
  <2>1. OnlyTouches(q)  BY <1>0, <1>2, OthersAlone
  <2>2. ASSUME r \in stored
        PROVE  \A u \in User : id[r] \in home'[u] <=> id[r] \in home[u]
    <3>1. CASE UNCHANGED home  BY <3>1
    <3>2. ASSUME NEW v, ZaddHome(q, v), q \in stored
          PROVE  \A u \in User : id[r] \in home'[u] <=> id[r] \in home[u]
      <4>1. id[q] # id[r]  BY <1>0, <1>2, <2>2, <3>2 DEF Justified
      <4> QED  BY <1>0, <3>2, <4>1 DEF ZaddHome, TypeOK
    <3> QED
      BY <1>2, <3>1, <3>2, WritesJustified, CallersLeaveDatabases
         DEF RequestStep, WriteEffect, Insert, Push, Zadd, dbVars
  <2> QED  BY <1>0, <1>2, <2>1, <2>2, DeliveryFrame DEF OnlyTouches
<1>3. ASSUME NEW d \in Reader, ReadStep(d)  PROVE Delivery(r)'
  BY <1>1, <1>3 DEF ReadStep, ReadHomeTimeline, ReadUserTimeline, FillCache, ReadPosts,
     callerVars, jobVars, dbVars, graphVars
<1>4. CASE UNCHANGED vars  BY <1>1, <1>4 DEF vars
<1>5. ASSUME NEW u \in User, NEW v \in User, GainsFollower(u, v) \/ LosesFollower(u, v)
      PROVE  Delivery(r)'
  BY <1>0, <1>1, <1>5 DEF GainsFollower, LosesFollower, TypeOK, callerVars, jobVars, dbVars
<1> QED  BY <1>2, <1>3, <1>4, <1>5, OwnDelivery DEF Next, RequestStep

LEMMA ReadersFindKept ==
  ASSUME IInv, [Next]_vars  PROVE ReadersFind'
<1> USE DEF ReadersFind, NeverIncomplete
<1>0. /\ TypeOK /\ Justified /\ ReadersFind
      /\ \A r \in Request : Progress(r)
  BY DEF IInv
<1>1. \A i : i \in {id[r] : r \in stored} => i \in {id'[r] : r \in stored'}
  BY StoredIdsFixed
<1>2. CASE UNCHANGED <<reading, answer>>  BY <1>0, <1>1, <1>2
<1>3. ASSUME NEW q \in Request, RequestStep(q)  PROVE UNCHANGED <<reading, answer>>
  BY <1>3, WritesJustified, CallersLeaveDatabases DEF RequestStep, readVars
<1>4. ASSUME NEW d \in Reader, NEW u \in User,
             ReadHomeTimeline(d, u) \/ ReadUserTimeline(d, u)
      PROVE  ReadersFind'
  <2>1. /\ home[u] \subseteq {id[r] : r \in stored}
        /\ cache[u] \union timeline[u] \subseteq {id[r] : r \in stored}
    BY <1>0 DEF Justified
  <2>2. /\ answer' = answer
        /\ \A e \in Reader :
             \/ reading'[e] = reading[e]
             \/ reading'[e] \subseteq home[u]
             \/ reading'[e] \subseteq cache[u] \union timeline[u]
    BY <1>0, <1>4 DEF TypeOK, ReadHomeTimeline, ReadUserTimeline
  <2> QED  BY <1>0, <1>1, <2>1, <2>2
<1>5. ASSUME NEW d \in Reader, ReadPosts(d)  PROVE ReadersFind'
  <2>1. /\ \A e \in Reader : reading'[e] \subseteq reading[e]
        /\ \A e \in Reader : answer'[e] \in {answer[e], "posts"}
    BY <1>0, <1>5 DEF TypeOK, ReadPosts
  <2> QED  BY <1>0, <1>1, <2>1
<1>6. ASSUME NEW d \in Reader, FillCache(d)  PROVE UNCHANGED <<reading, answer>>
  BY <1>6 DEF FillCache
<1>7. CASE UNCHANGED vars  BY <1>2, <1>7 DEF vars
<1>8. ASSUME NEW u \in User, NEW v \in User, GainsFollower(u, v) \/ LosesFollower(u, v)
      PROVE  UNCHANGED <<reading, answer>>
  BY <1>8 DEF GainsFollower, LosesFollower, readVars
<1> QED
  BY <1>2, <1>3, <1>4, <1>5, <1>6, <1>7, <1>8 DEF Next, RequestStep, ReadStep

\* The invariant is inductive.
THEOREM Invariance == Spec => []IInv
<1>1. IInv /\ [Next]_vars => IInv'
  BY TypeKept, ProgressKept, DeliveryKept, JustifiedKept, ReadersFindKept DEF IInv
<1> QED  BY InitIInv, <1>1, PTL DEF Spec

-----------------------------------------------------------------------------
\* The state keeps its type, whatever the requests, users and failures.
THEOREM TypeCorrect == Spec => []TypeOK
<1>1. IInv => TypeOK  BY DEF IInv
<1> QED  BY Invariance, <1>1, PTL

\* No reader of a timeline ever gets "Return set incomplete".
THEOREM ReadersCorrect == Spec => []NeverIncomplete
<1>1. IInv => NeverIncomplete  BY DEF IInv, ReadersFind
<1> QED  BY Invariance, <1>1, PTL

\* Whatever ids UniqueIdService repeats, a timeline lists the posts of its
\* user and a home timeline the posts addressed to its user.
THEOREM RightReadersCorrect == Spec => []RightReaders
<1>1. IInv => RightReaders
  <2> SUFFICES ASSUME IInv, NEW u \in User
               PROVE  /\ \A i \in timeline[u] \union cache[u] :
                           \A r \in Posts(i) : Author[r] = u
                      /\ \A i \in home[u] : \A r \in Posts(i) : u \in Audience(r)
    BY DEF RightReaders
  <2> QED  BY DEF IInv, Justified, Posts
<1> QED  BY Invariance, <1>1, PTL

\* A ComposePost that returned has stored the post and put it into the Redis set
\* of the author; and every mentioned user and every follower who stayed has it, or,
\* where GetFollowers took an error for an empty list, the mentioned users only.
THEOREM SuccessCorrect == Spec => []SuccessIsComplete
<1>1. IInv => SuccessIsComplete
  <2> SUFFICES ASSUME IInv, NEW r \in Request, pc[r] = "ok"
               PROVE  /\ r \in stored
                      /\ id[r] \in cache[Author[r]]
                      /\ Author[r] \in Veteran => id[r] \in timeline[Author[r]]
                      /\ \/ \A u \in steady[r] \union Mentions[r] : id[r] \in home[u]
                         \/ \A u \in User : id[r] \in home[u] <=> u \in Mentions[r]
    BY DEF SuccessIsComplete
  <2>1. Progress(r) /\ Delivery(r)  BY DEF IInv
  <2>2. task[r]["home"] = "done" /\ todo[r] = {} /\ task[r]["user"] = "done"
    BY <2>1 DEF Progress
  <2>3. /\ r \in stored
        /\ id[r] \in cache[Author[r]]
        /\ Author[r] \in Veteran => id[r] \in timeline[Author[r]]
    BY <2>1, <2>2 DEF Progress
  <2>4. Everyone(r) \/ OnlyMentioned(r)  BY <2>1, <2>2 DEF Delivery
  <2> QED  BY <2>2, <2>3, <2>4 DEF Everyone, OnlyMentioned
<1> QED  BY Invariance, <1>1, PTL

-----------------------------------------------------------------------------
\* Composing implements the visibility order: the insert of StorePost is Store,
\* the first of find_and_modify and zadd that takes effect is List, a zadd of the
\* pipeline is Deliver, and everything else leaves the three sets alone.
LEMMA VisibilityStep ==
  ASSUME IInv, [Next]_vars
  PROVE  [Visibility!Next]_(Visibility!vars)
<1> USE ComposeAssumption
        DEF Visibility!Next, Visibility!vars, Listed, Delivered
<1>0. /\ TypeOK /\ Justified
      /\ stored \subseteq Request
  BY DEF IInv, TypeOK
<1> DEFINE A == [r \in Request |-> Audience(r)]
<1>a. ASSUME UNCHANGED seen  PROVE UNCHANGED A
  BY <1>a DEF Audience
<1>b. /\ A' \in [Request -> SUBSET User]
      /\ \A r \in Request : A[r] \subseteq A'[r]
  <2>1. \A r \in Request : seen'[r] \subseteq User
    BY TypeKept DEF TypeOK
  <2> QED  BY <2>1, AudienceGrows DEF Audience
<1>c. \A r \in Request : Audience(r) \subseteq User
  BY <1>0 DEF TypeOK, Audience
<1>1. CASE UNCHANGED <<stored, home>>
           /\ \A u \in User : timeline'[u] \union cache'[u] = timeline[u] \union cache[u]
  <2>1. UNCHANGED <<stored, Listed, Delivered>>
    BY <1>0, <1>1, StoredIdsFixed
  <2> QED  BY <1>b, <2>1 DEF Visibility!Widen
<1>2. ASSUME NEW q \in Request, UNCHANGED <<id, seen>>, Insert(q), q \notin stored
      PROVE  Visibility!Store(q)
  <2>1. /\ stored' = stored \union {q}
        /\ \A r \in stored : id[r] # id[q]
        /\ UNCHANGED <<id, timeline, cache, home>>
    BY <1>2 DEF Insert
  <2>2. /\ id[q] \notin timeline[Author[q]] \union cache[Author[q]]
        /\ \A u \in User : id[q] \notin home[u]
    BY <1>0, <2>1 DEF Justified
  <2>3. UNCHANGED Listed  BY <2>1, <2>2
  <2>4. UNCHANGED Delivered  BY <2>1, <2>2
  <2> QED  BY <1>2, <1>a, <2>1, <2>3, <2>4 DEF Visibility!Store
<1>3. ASSUME NEW q \in Request, UNCHANGED <<id, seen>>, Push(q) \/ Zadd(q), q \in stored
      PROVE  [Visibility!List(q)]_(Visibility!vars)
  <2>1. /\ UNCHANGED <<id, stored, home>>
        /\ \A u \in User : timeline'[u] \union cache'[u] =
             timeline[u] \union cache[u] \union (IF u = Author[q] THEN {id[q]} ELSE {})
    BY <1>0, <1>3 DEF Push, Zadd, TypeOK
  <2>2. \A r \in stored : id[r] \in timeline'[Author[r]] \union cache'[Author[r]]
          <=> id[r] \in timeline[Author[r]] \union cache[Author[r]] \/ r = q
    BY <1>0, <1>3, <2>1 DEF Justified
  <2>3. Listed' = Listed \union {q}  BY <1>3, <2>1, <2>2
  <2>4. UNCHANGED Delivered  BY <2>1
  <2> QED  BY <1>3, <1>a, <2>1, <2>3, <2>4 DEF Visibility!List
<1>4. ASSUME NEW q \in Request, UNCHANGED <<id, seen>>, NEW v \in Audience(q), ZaddHome(q, v),
             q \in stored, id[q] \in cache[Author[q]]
      PROVE  Visibility!Deliver(q, v)
  <2>1. /\ UNCHANGED <<id, stored, timeline, cache>>
        /\ home' = [home EXCEPT ![v] = @ \union {id[q]}]
    BY <1>4 DEF ZaddHome
  <2>2. \A r \in stored : \A u \in User :
          id[r] \in home'[u] <=> id[r] \in home[u] \/ (r = q /\ u = v)
    BY <1>0, <1>4, <2>1 DEF TypeOK, Justified
  <2>3. Delivered' = Delivered \union {<<q, v>>}
    BY <1>4, <1>c, <2>1, <2>2
  <2>4. UNCHANGED Listed  BY <2>1
  <2> QED  BY <1>4, <1>a, <1>c, <2>1, <2>3, <2>4 DEF Visibility!Deliver
<1>5. ASSUME NEW q \in Request, HandlerStep(q) \/ LateWrite(q)
      PROVE  [Visibility!Next]_(Visibility!vars)
  <2>1. UNCHANGED <<id, seen>> /\ (WriteEffect(q) \/ UNCHANGED dbVars)
    BY <1>5, WritesJustified DEF graphVars
  <2>2. Audience(q) \subseteq User  BY <1>c
  <2>3. CASE UNCHANGED dbVars  BY <1>1, <2>3 DEF dbVars
  <2>4. CASE Insert(q) /\ q \notin stored  BY <1>2, <2>1, <2>4
  <2>5. CASE (Push(q) \/ Zadd(q)) /\ q \in stored  BY <1>3, <2>1, <2>5
  <2>6. ASSUME NEW v \in Audience(q), ZaddHome(q, v),
               q \in stored, id[q] \in cache[Author[q]]
        PROVE  Visibility!Next
    BY <1>4, <2>1, <2>2, <2>6
  <2> QED  BY <2>1, <2>3, <2>4, <2>5, <2>6 DEF WriteEffect
<1>6. ASSUME NEW q \in Request, Compose(q) \/ ComposeStep(q) \/ CallBreaks(q)
      PROVE  UNCHANGED dbVars
  BY <1>6, CallersLeaveDatabases
<1>7. ASSUME NEW d \in Reader, ReadStep(d)
      PROVE  [Visibility!Next]_(Visibility!vars)
  <2>1. CASE FillCache(d)
    <3>1. UNCHANGED <<stored, timeline, home>>  BY <2>1 DEF FillCache
    <3>2. \A u \in User : cache[u] \subseteq cache'[u]
      BY <2>1 DEF FillCache
    <3>3. ASSUME NEW u \in User  PROVE cache'[u] \subseteq cache[u] \union timeline[u]
      <4>1. CASE UNCHANGED cache  BY <4>1
      <4>2. CASE cache' = [w \in User |-> cache[w] \union
                             {i \in PostId : <<w, i>> \in filling[d]}]
        <5>1. \A i \in PostId : <<u, i>> \in filling[d] => i \in timeline[u]
          BY <1>0 DEF Justified
        <5> QED  BY <4>2, <5>1
      <4> QED  BY <2>1, <4>1, <4>2 DEF FillCache
    <3> QED  BY <1>1, <3>1, <3>2, <3>3
  <2>2. CASE ~FillCache(d)
    BY <1>1, <1>7, <2>2 DEF ReadStep, ReadHomeTimeline, ReadUserTimeline, ReadPosts, dbVars
  <2> QED  BY <2>1, <2>2
<1>8. CASE UNCHANGED vars  BY <1>1, <1>8 DEF vars
<1>9. ASSUME NEW u \in User, NEW v \in User, GainsFollower(u, v) \/ LosesFollower(u, v)
      PROVE  UNCHANGED dbVars
  BY <1>9 DEF GainsFollower, LosesFollower
<1> QED  BY <1>1, <1>5, <1>6, <1>7, <1>8, <1>9 DEF Next, dbVars

\* A post is stored before its author's timeline lists it, listed there before
\* it is delivered, delivered to its audience only, and never withdrawn.
THEOREM VisibilityImplemented == Spec => ImplementsVisibility
<1>1. Init => Visibility!Init
  BY ComposeAssumption DEF Init, Visibility!Init, Listed, Delivered, Audience
<1>2. IInv /\ [Next]_vars => [Visibility!Next]_(Visibility!vars)
  BY VisibilityStep
<1> QED
  BY Invariance, <1>1, <1>2, PTL DEF Spec, ImplementsVisibility, Visibility!Spec

-----------------------------------------------------------------------------
(* Without the history: followers who stay *)

\* GetFollowers answers all of the followers of the author.
Answered(r) ==
  task[r]["home"] = "running" /\ task'[r]["home"] = "fetched" =>
    todo'[r] = followers[Author[r]] \union Mentions[r]

\* Whoever had to get the post of r still has it or still waits for it.
LEMMA EveryoneKept ==
  ASSUME IInv, [Next]_vars, NEW r \in Request,
         task[r]["home"] \in {"fetched", "done"}, Everyone(r)
  PROVE  Everyone(r)'
<1> USE ComposeAssumption
<1>0. /\ TypeOK /\ r \in stored /\ pc[r] # "idle" /\ id'[r] = id[r]
      /\ steady[r] \union Mentions[r] \subseteq User
  BY StoredIdsFixed DEF IInv, TypeOK, Progress, Sent, Services
<1>1. ASSUME NEW q \in Request, RequestStep(q)
      PROVE  /\ steady'[r] = steady[r]
             /\ \A u \in User : home[u] \subseteq home'[u]
             /\ todo'[r] = todo[r] \/ \E v \in User : ZaddHome(r, v)
  <2>1. OnlyTouches(q)  BY <1>0, <1>1, OthersAlone
  <2>2. CASE q # r  BY <2>1, <2>2 DEF OnlyTouches
  <2>3. CASE q = r
    <3>1. UNCHANGED steady
      <4>1. CASE HandlerStep(r) \/ LateWrite(r)  BY <4>1, WritesJustified DEF graphVars
      <4> QED
        BY <1>0, <1>1, <2>3, <4>1 DEF RequestStep, Compose, ComposeStep, CallBreaks,
           PartReturns, PartThrows, Join, CallReturns, Deliver, graphVars
    <3>2. CASE HandlerStep(r)
      <4>1. UNCHANGED todo \/ \E v \in User : ZaddHome(r, v)
        BY <3>2 DEF HandlerStep, HandlerMoves, GivesUp, Update, Insert, Push, Zadd,
           StorePost, StorePostFails, PushTimeline, UpsertFails, UpdateTimeline,
           CacheTimeline, WriteUserTimelineFails, FetchRecipients, FetchNobody, WriteHome,
           WriteHomeDone, WriteHomeTimelineFails
      <4> QED  BY <2>1, <2>3, <3>1, <4>1 DEF OnlyTouches
    <3>3. CASE LateWrite(r)
      <4>1. UNCHANGED todo \/ \E v \in User : ZaddHome(r, v)
        BY <3>3 DEF LateWrite, Lands, Update, Insert, Push, Zadd
      <4> QED  BY <2>1, <2>3, <3>1, <4>1 DEF OnlyTouches
    <3>4. CASE Compose(r) \/ ComposeStep(r) \/ CallBreaks(r)
      <4>1. UNCHANGED todo
        BY <3>4 DEF Compose, ComposeStep, CallBreaks, PartReturns, PartThrows, Join,
           CallReturns, Deliver, jobVars
      <4> QED  BY <2>1, <2>3, <3>1, <4>1 DEF OnlyTouches
    <3> QED  BY <1>1, <2>3, <3>2, <3>3, <3>4 DEF RequestStep
  <2> QED  BY <2>2, <2>3
<1>2. ASSUME NEW d \in Reader, ReadStep(d)  PROVE UNCHANGED <<home, todo, steady>>
  BY <1>2 DEF ReadStep, ReadHomeTimeline, ReadUserTimeline, FillCache, ReadPosts,
     jobVars, dbVars, graphVars
<1>3. ASSUME NEW u \in User, NEW v \in User, GainsFollower(u, v) \/ LosesFollower(u, v)
      PROVE  UNCHANGED <<home, todo>> /\ steady'[r] \subseteq steady[r]
  BY <1>0, <1>3 DEF GainsFollower, LosesFollower, TypeOK, jobVars, dbVars
<1>4. CASE UNCHANGED vars  BY <1>0, <1>4 DEF vars, Everyone
<1>5. CASE /\ steady'[r] \subseteq steady[r]
           /\ \A u \in User : home[u] \subseteq home'[u]
           /\ todo'[r] = todo[r]
  BY <1>0, <1>5 DEF Everyone
<1>6. ASSUME steady'[r] = steady[r], \A u \in User : home[u] \subseteq home'[u],
             NEW v \in User, ZaddHome(r, v)
      PROVE  Everyone(r)'
  <2>1. todo'[r] = todo[r] \ {v} /\ id[r] \in home'[v]
    BY <1>0, <1>6 DEF ZaddHome, TypeOK
  <2> QED  BY <1>0, <1>6, <2>1 DEF Everyone
<1> QED  BY <1>1, <1>2, <1>3, <1>4, <1>5, <1>6 DEF Next, RequestStep

\* When GetFollowers answers, the recipients are found once and for all.
LEMMA Fetched ==
  ASSUME IInv, [Next]_vars, NEW r \in Request, Answered(r),
         task[r]["home"] \in {"fetched", "done"} => Everyone(r),
         task'[r]["home"] \in {"fetched", "done"}
  PROVE  Everyone(r)'
<1>0. TypeOK /\ Progress(r)  BY DEF IInv
<1>1. CASE task[r]["home"] \in {"fetched", "done"}  BY <1>1, EveryoneKept
<1>2. CASE task[r]["home"] \notin {"fetched", "done"}
  <2>1. task'[r]["home"] # task[r]["home"]  BY <1>2
  <2>2. FetchRecipients(r) \/ FetchNobody(r)
    <3>1. ASSUME NEW q \in Request, q # r, RequestStep(q)  PROVE FALSE
      BY <1>0, <2>1, <3>1, OthersAlone DEF OnlyTouches
    <3>2. ASSUME Compose(r) \/ ComposeStep(r) \/ CallBreaks(r)  PROVE FALSE
      BY <1>0, <2>1, <3>2 DEF Compose, ComposeStep, CallBreaks, PartReturns, PartThrows,
         Join, CallReturns, Deliver, jobVars, TypeOK, Services
    <3>3. ASSUME NEW s \in {"store", "user"}, NEW from, NEW to, HandlerMoves(r, s, from, to)
          PROVE  FALSE
      BY <1>0, <2>1, <3>3 DEF HandlerMoves, TypeOK, Services
    <3>4. ASSUME \/ WriteHomeDone(r) \/ WriteHomeTimelineFails(r)
                 \/ \E u \in User : WriteHome(r, u)
          PROVE  FALSE
      BY <1>0, <1>2, <2>1, <3>4 DEF WriteHomeDone, WriteHomeTimelineFails, WriteHome,
         HandlerMoves, TypeOK, Services
    <3>5. CASE HandlerStep(r)
      BY <3>3, <3>4, <3>5 DEF HandlerStep, StorePost, StorePostFails, PushTimeline, UpsertFails,
         UpdateTimeline, CacheTimeline, WriteUserTimelineFails, GivesUp
    <3>6. ASSUME LateWrite(r)  PROVE FALSE
      BY <2>1, <3>6 DEF LateWrite, Lands
    <3>7. ASSUME NEW d \in Reader, ReadStep(d)  PROVE FALSE
      BY <2>1, <3>7 DEF ReadStep, ReadHomeTimeline, ReadUserTimeline, FillCache, ReadPosts,
         jobVars
    <3>8. ASSUME NEW u \in User, NEW v \in User, GainsFollower(u, v) \/ LosesFollower(u, v)
          PROVE  FALSE
      BY <2>1, <3>8 DEF GainsFollower, LosesFollower, jobVars
    <3>9. ~UNCHANGED vars  BY <2>1 DEF vars
    <3> QED  BY <3>1, <3>2, <3>5, <3>6, <3>7, <3>8, <3>9 DEF Next, RequestStep
  <2>3. /\ task[r]["home"] = "running" /\ task'[r]["home"] = "fetched"
        /\ UNCHANGED steady
    BY <1>0, <2>2 DEF FetchRecipients, FetchNobody, HandlerMoves, graphVars, TypeOK, Services
  <2>4. steady[r] \subseteq followers[Author[r]]
    BY <1>0, <2>3 DEF Progress, Sent, Services
  <2> QED  BY <2>3, <2>4 DEF Answered, Everyone
<1> QED  BY <1>1, <1>2

\* If nobody follows or unfollows, and GetFollowers takes no error for an empty
\* list, a post that has been composed with success is on the home timelines of
\* the followers of its author and of those it mentions, and on no others,
\* whatever fails for other posts and whether or not ids repeat.
THEOREM ExactlyTheAudience ==
  Spec /\ [][followers' = followers /\ \A r \in Request : Answered(r)]_vars =>
    [](\A r \in Request : pc[r] = "ok" =>
         \A u \in User :
           id[r] \in home[u] <=> u \in Followers[Author[r]] \union Mentions[r])
<1> DEFINE F == followers' = followers /\ \A r \in Request : Answered(r)
           J == /\ followers = Followers
                /\ \A r \in Request : pc[r] # "idle" =>
                     /\ steady[r] = Followers[Author[r]]
                     /\ seen[r] = Followers[Author[r]]
           K == \A r \in Request : task[r]["home"] \in {"fetched", "done"} => Everyone(r)
           Right == \A r \in Request : pc[r] = "ok" =>
                      \A u \in User :
                        id[r] \in home[u] <=> u \in Followers[Author[r]] \union Mentions[r]
<1>1. Init => J /\ K  BY DEF Init, Services
<1>2. IInv /\ J /\ [Next]_vars /\ [F]_vars => J'
  <2> SUFFICES ASSUME IInv, J, [Next]_vars, followers' = followers PROVE J'
    BY DEF vars, graphVars, callerVars
  <2> USE ComposeAssumption
  <2>0. TypeOK  BY DEF IInv
  <2>1. ASSUME UNCHANGED graphVars, \A r \in Request : pc[r] = "idle" => pc'[r] = "idle"
        PROVE  J'
    BY <2>1 DEF graphVars
  <2>2. ASSUME NEW r \in Request, Compose(r) PROVE J'
    BY <2>0, <2>2 DEF Compose, TypeOK
  <2>3. ASSUME NEW r \in Request, ComposeStep(r) PROVE J'
    <3>1. ASSUME NEW p \in Parts, PartReturns(r, p) \/ PartThrows(r, p) PROVE J'
      BY <2>1, <3>1 DEF PartReturns, PartThrows
    <3>2. CASE Join(r)  BY <2>0, <2>1, <3>2 DEF Join, TypeOK
    <3>3. CASE CallReturns(r)
      BY <2>0, <2>1, <3>3 DEF CallReturns, Services, TypeOK
    <3>4. ASSUME NEW s \in Services, Deliver(r, s) PROVE J'
      BY <2>1, <3>4 DEF Deliver, callerVars
    <3> QED  BY <2>3, <3>1, <3>2, <3>3, <3>4 DEF ComposeStep
  <2>4. ASSUME NEW r \in Request, CallBreaks(r) PROVE J'
    BY <2>0, <2>1, <2>4 DEF CallBreaks, Services, TypeOK
  <2>5. ASSUME NEW r \in Request, HandlerStep(r) \/ LateWrite(r) PROVE J'
    <3>1. UNCHANGED graphVars /\ UNCHANGED callerVars
      BY <2>5 DEF HandlerStep, LateWrite, StorePost, StorePostFails, PushTimeline,
           UpsertFails, UpdateTimeline, CacheTimeline, WriteUserTimelineFails,
           FetchRecipients, FetchNobody, WriteHome, WriteHomeDone, WriteHomeTimelineFails,
           HandlerMoves, GivesUp, Lands
    <3> QED  BY <2>1, <3>1 DEF callerVars
  <2>6. ASSUME NEW u \in User, NEW v \in User, GainsFollower(u, v) PROVE J'
    <3>1. v \in followers[u]
      BY <2>0, <2>6 DEF GainsFollower, TypeOK
    <3>2. UNCHANGED <<pc, steady>>  BY <2>6 DEF GainsFollower, callerVars
    <3>3. ASSUME NEW r \in Request, pc[r] # "idle" PROVE seen'[r] = seen[r]
      BY <2>0, <2>6, <3>1, <3>3 DEF GainsFollower, TypeOK
    <3> QED  BY <3>2, <3>3
  <2>7. ASSUME NEW u \in User, NEW v \in User, LosesFollower(u, v) PROVE J'
    <3>1. v \notin followers[u]
      BY <2>0, <2>7 DEF LosesFollower, TypeOK
    <3>2. UNCHANGED <<pc, seen>>  BY <2>7 DEF LosesFollower, callerVars
    <3>3. ASSUME NEW r \in Request, pc[r] # "idle" PROVE steady'[r] = steady[r]
      BY <2>0, <2>7, <3>1, <3>3 DEF LosesFollower, TypeOK
    <3> QED  BY <3>2, <3>3
  <2>8. ASSUME NEW d \in Reader, ReadStep(d) PROVE J'
    BY <2>1, <2>8 DEF ReadStep, ReadHomeTimeline, ReadUserTimeline, FillCache, ReadPosts,
                      callerVars
  <2>9. CASE UNCHANGED vars  BY <2>1, <2>9 DEF vars, callerVars
  <2> QED  BY <2>2, <2>3, <2>4, <2>5, <2>6, <2>7, <2>8, <2>9 DEF Next
<1>3. IInv /\ K /\ [Next]_vars /\ [F]_vars => K'
  <2>1. ASSUME UNCHANGED vars, K  PROVE K'  BY <2>1 DEF vars, Everyone
  <2>2. ASSUME IInv, K, [Next]_vars, F  PROVE K'  BY <2>2, Fetched
  <2> QED  BY <2>1, <2>2
<1>4. IInv /\ RightReaders /\ J /\ K => Right
  <2> SUFFICES ASSUME IInv, RightReaders, J, K, NEW r \in Request, pc[r] = "ok",
                      NEW u \in User
               PROVE  id[r] \in home[u] <=> u \in Followers[Author[r]] \union Mentions[r]
    OBVIOUS
  <2>1. Progress(r)  BY DEF IInv
  <2>2. task[r]["home"] = "done" /\ todo[r] = {} /\ r \in stored
    BY <2>1 DEF Progress
  <2>3. Everyone(r)  BY <2>2
  <2> QED  BY <2>2, <2>3 DEF RightReaders, Posts, Audience, Everyone
<1> HIDE DEF F, J, K, Right
<1>5. Spec /\ [][F]_vars => []Right
  BY <1>1, <1>2, <1>3, <1>4, Invariance, RightReadersCorrect, PTL DEF Spec
<1> QED  BY <1>5 DEF F, Right
=============================================================================
