-------------------------- MODULE UserTimelineProofs --------------------------
(***************************************************************************)
(* Proofs about UserTimeline, for any posts, readers, pages and bounds.    *)
(*                                                                         *)
(* That Redis has no gap is not inductive: a zadd that is still to come    *)
(* and a map that a reader is about to write must not make one either.     *)
(* The invariant says of the cached posts, of those on their way and of    *)
(* every such map that all posts ahead of them are accounted for.          *)
(***************************************************************************)
EXTENDS UserTimeline, FiniteSetTheorems, FunctionTheorems, TLAPS

Occurs(q) == {q[i] : i \in 1..Len(q)}

\* What is ahead in q of a post of T is in S.
Ahead(q, T, S) ==
  \A i, j \in 1..Len(q) : i < j /\ q[j] \in T => q[i] \in S

InWriting == {p \in Post : Writing(p)}
OnWay == {p \in Post : state[p] \in {"retrying", "pushed"}}
Held == cached \union InWriting

Once == \A i, j \in 1..Len(posts) : posts[i] = posts[j] => i = j
Fresh == \A p \in Post : state[p] \in {"idle", "pushing"} => p \notin Stored
CacheGood == cached \subseteq Stored /\ Ahead(posts, cached, Held)
WayGood == Ahead(posts, OnWay, Held)
SliceGood(d) ==
  phase[d] = "posts" => /\ slice[d] \subseteq Stored
                        /\ Ahead(posts, slice[d], Held \union slice[d])
Written == \A p \in Post : state[p] = "pushed" => p \in Stored

Sound == Once /\ Fresh /\ CacheGood /\ WayGood /\ \A d \in Reader : SliceGood(d)

IInv ==
  /\ TypeOK
  /\ NoDuplicates
  /\ ~disturbed => Sound /\ Written

-----------------------------------------------------------------------------
(* Pushing to the front *)

LEMMA FrontIs ==
  ASSUME NEW q \in Seq(Post), NEW p \in Post, NEW r, r = <<p>> \o q
  PROVE /\ r \in Seq(Post)
        /\ Len(r) = Len(q) + 1
        /\ r[1] = p
        /\ \A i \in 2..Len(r) : r[i] = q[i - 1] /\ i - 1 \in 1..Len(q)
        /\ \A i \in 1..Len(q) : r[i + 1] = q[i] /\ i + 1 \in 1..Len(r)
<1>1. <<p>> \in Seq(Post) /\ Len(<<p>>) = 1 /\ <<p>>[1] = p  OBVIOUS
<1>2. r \in Seq(Post) /\ Len(r) = Len(q) + 1  BY <1>1
<1>3. \A i \in 1..Len(r) : r[i] = IF i <= 1 THEN <<p>>[i] ELSE q[i - 1]  BY <1>1, <1>2
<1>4. Len(q) \in Nat  OBVIOUS
<1> QED  BY <1>1, <1>2, <1>3, <1>4

LEMMA FrontOccurs ==
  ASSUME NEW q \in Seq(Post), NEW p \in Post, NEW r, r = <<p>> \o q
  PROVE Occurs(r) = Occurs(q) \union {p}
<1>1. Len(r) \in Nat /\ Len(q) \in Nat /\ 1 \in 1..Len(r)  BY FrontIs
<1>2. Occurs(q) \union {p} \subseteq Occurs(r)  BY <1>1, FrontIs DEF Occurs
<1>3. ASSUME NEW i \in 1..Len(r) PROVE r[i] \in Occurs(q) \union {p}
  <2>1. CASE i = 1  BY <2>1, FrontIs
  <2>2. CASE i # 1
    <3>1. i \in 2..Len(r)  BY <1>1, <2>2
    <3> QED  BY <3>1, FrontIs DEF Occurs
  <2> QED  BY <2>1, <2>2
<1> QED  BY <1>2, <1>3 DEF Occurs

LEMMA AheadMore ==
  ASSUME NEW q, NEW T, NEW S, Ahead(q, T, S), NEW T2, NEW S2,
         T2 \intersect Occurs(q) \subseteq T, S \intersect Occurs(q) \subseteq S2
  PROVE Ahead(q, T2, S2)
BY DEF Ahead, Occurs

LEMMA AheadFront ==
  ASSUME NEW q \in Seq(Post), NEW p \in Post, NEW r, r = <<p>> \o q,
         NEW T, NEW S, Ahead(q, T, S), NEW T2, NEW S2,
         T2 \intersect Occurs(q) \subseteq T, S \intersect Occurs(q) \subseteq S2, p \in S2
  PROVE Ahead(r, T2, S2)
<1> SUFFICES ASSUME NEW i \in 1..Len(r), NEW j \in 1..Len(r), i < j, r[j] \in T2
             PROVE r[i] \in S2
  BY DEF Ahead
<1>1. j \in 2..Len(r)  OBVIOUS
<1>2. r[j] = q[j - 1] /\ j - 1 \in 1..Len(q)  BY <1>1, FrontIs
<1>3. CASE i = 1  BY <1>3, FrontIs
<1>4. CASE i # 1
  <2>1. i \in 2..Len(r)  BY <1>4
  <2>2. r[i] = q[i - 1] /\ i - 1 \in 1..Len(q)  BY <2>1, FrontIs
  <2>3. q[j - 1] \in T  BY <1>2 DEF Occurs
  <2>4. q[i - 1] \in S  BY <1>2, <2>2, <2>3 DEF Ahead
  <2> QED  BY <2>2, <2>4 DEF Occurs
<1> QED  BY <1>3, <1>4

-----------------------------------------------------------------------------
LEMMA InitIInv == Init => IInv
<1> SUFFICES ASSUME Init PROVE IInv  OBVIOUS
<1> USE TimelineAssumption DEF Init, NoIds
<1>1. TypeOK
  <2> DEFINE g0 == CHOOSE g \in Page : TRUE
  <2>1. g0 \in Page  OBVIOUS
  <2>2. page = [d \in Reader |-> g0]  OBVIOUS
  <2> HIDE DEF g0
  <2>3. page \in [Reader -> Page]  BY <2>1, <2>2
  <2>4. posts \in Seq(Post)  OBVIOUS
  <2> QED  BY <2>3, <2>4 DEF TypeOK
<1>2. NoDuplicates  BY DEF NoDuplicates
<1>3. Sound
  BY DEF Sound, Once, Fresh, CacheGood, WayGood, SliceGood, Ahead, Stored
<1>4. Written  BY DEF Written
<1> QED  BY <1>1, <1>2, <1>3, <1>4 DEF IInv

LEMMA SliceType ==
  ASSUME TypeOK, NEW d \in Reader
  PROVE /\ SliceLength(d) \in Nat /\ SliceLength(d) <= Len(posts)
        /\ Slice(d) \subseteq Stored /\ Stored \subseteq Post
        /\ WithNew(d) \in [Post -> Nat]
<1>1. page[d] \in Page /\ page[d][2] \in Nat /\ Len(posts) \in Nat
  BY TimelineAssumption DEF TypeOK
<1>2. SliceLength(d) \in Nat /\ SliceLength(d) <= Len(posts)
  BY <1>1 DEF SliceLength
<1>3. Slice(d) \subseteq Stored  BY <1>1, <1>2 DEF Slice, Stored
<1>4. Stored \subseteq Post  BY DEF Stored, TypeOK
<1>5. WithNew(d) \in [Post -> Nat]  BY DEF WithNew, TypeOK
<1> QED  BY <1>2, <1>3, <1>4, <1>5

LEMMA TypeKept ==
  ASSUME TypeOK, [Next]_vars PROVE TypeOK'
<1> USE DEF TypeOK, readVars, boundVars, Goes, Moves
<1>1. CASE UNCHANGED vars  BY <1>1 DEF vars
<1>2. ASSUME NEW p \in Post, Begin(p) \/ WriteStep(p) PROVE TypeOK'
  <2>1. Pushed(p) \in Seq(Post) /\ PushedToExisting(p) \in Seq(Post)
    BY FrontIs DEF Pushed, PushedToExisting
  <2>2. CASE Begin(p)  BY <2>2 DEF Begin
  <2>3. CASE Push(p)  BY <2>1, <2>3 DEF Push
  <2>4. CASE PushFails(p)  BY <2>1, <2>4 DEF PushFails
  <2>5. CASE PushAgain(p)  BY <2>1, <2>5 DEF PushAgain
  <2>6. CASE PushFailsAgain(p)  BY <2>1, <2>6 DEF PushFailsAgain
  <2>7. CASE Cache(p)  BY <2>7 DEF Cache
  <2>8. CASE CacheFails(p)  BY <2>8 DEF CacheFails
  <2> QED  BY <1>2, <2>2, <2>3, <2>4, <2>5, <2>6, <2>7, <2>8 DEF WriteStep
<1>3. ASSUME NEW d \in Reader, AskRedis(d) PROVE TypeOK'
  <2>1. PICK g \in Page :
          /\ ids' = [ids EXCEPT ![d] = [p \in Post |-> IF p \in InRedis(g[1], g[2]) THEN 1 ELSE 0]]
          /\ phase' = [phase EXCEPT ![d] = IF g[1] + Cardinality(InRedis(g[1], g[2])) < g[2]
                                           THEN "mongo" ELSE "posts"]
          /\ page' = [page EXCEPT ![d] = g]
    BY <1>3 DEF AskRedis
  <2>2. calm' \subseteq Reader  BY <1>3 DEF AskRedis
  <2>3. slice' \in [Reader -> SUBSET Post]  BY <1>3 DEF AskRedis
  <2> QED  BY <1>3, <2>1, <2>2, <2>3 DEF AskRedis
<1>4. ASSUME NEW d \in Reader, AskMongo(d) PROVE TypeOK'
  BY <1>4, SliceType DEF AskMongo
<1>5. ASSUME NEW d \in Reader, FillRedis(d) PROVE TypeOK'  BY <1>5 DEF FillRedis
<1>10. ASSUME NEW d \in Reader, FindFails(d) PROVE TypeOK'  BY <1>10 DEF FindFails
<1>6. ASSUME NEW d \in Reader, Returns(d) PROVE TypeOK'  BY <1>6 DEF Returns
<1>7. ASSUME NEW d \in Reader, ReadFails(d) PROVE TypeOK'  BY <1>7 DEF ReadFails
<1>8. ASSUME NEW d \in Reader, Again(d) PROVE TypeOK'  BY <1>8 DEF Again, NoIds
<1>9. CASE LoseCache  BY <1>9 DEF LoseCache
<1>11. CASE Replicate  BY <1>11 DEF Replicate
<1> QED  BY <1>1, <1>2, <1>3, <1>4, <1>5, <1>6, <1>7, <1>8, <1>9, <1>10, <1>11
  DEF Next, ReadStep

LEMMA NoDuplicatesKept ==
  ASSUME TypeOK, NoDuplicates, [Next]_vars PROVE NoDuplicates'
<1> USE DEF TypeOK, NoDuplicates, readVars
<1>1. CASE UNCHANGED ids  BY <1>1
<1>2. ASSUME NEW d \in Reader, AskRedis(d) PROVE NoDuplicates'  BY <1>2 DEF AskRedis
<1>3. ASSUME NEW d \in Reader, AskMongo(d) PROVE NoDuplicates'  BY <1>3 DEF AskMongo, WithNew
<1>4. ASSUME NEW d \in Reader, Again(d) PROVE NoDuplicates'  BY <1>4 DEF Again, NoIds
<1> QED  BY <1>1, <1>2, <1>3, <1>4 DEF Next, vars, Begin, WriteStep, Push, PushFails, PushAgain,
            PushFailsAgain, Cache, CacheFails, ReadStep, FindFails, FillRedis, Returns, ReadFails,
            LoseCache, Replicate

-----------------------------------------------------------------------------
(* No gap, action by action, while nothing disturbs *)

\* A first push: the post comes to the front and is on its way.
LEMMA PushSound ==
  ASSUME TypeOK, TypeOK', Sound, NEW p \in Post, NEW to \in {"retrying", "pushed"},
         Writing(p), p \notin Stored, state' = [state EXCEPT ![p] = to],
         posts' = Pushed(p), UNCHANGED <<cached, phase, slice>>
  PROVE Sound'
<1> USE DEF TypeOK
<1>1. posts' = <<p>> \o posts /\ posts \in Seq(Post)  BY DEF Pushed
<1>2. Stored = Occurs(posts) /\ Stored' = Stored \union {p}
  BY <1>1, FrontOccurs DEF Stored, Occurs
<1>3. /\ Held' = Held /\ p \in Held
      /\ OnWay' \subseteq OnWay \union {p}
  BY DEF Held, InWriting, Writing, OnWay
<1>4. Once'
  <2> SUFFICES ASSUME NEW i \in 1..Len(posts'), NEW j \in 1..Len(posts'),
                      posts'[i] = posts'[j]
               PROVE i = j
    BY DEF Once
  <2>1. \A k \in 1..Len(posts') :
          k # 1 => k \in 2..Len(posts') /\ posts'[k] = posts[k - 1] /\ k - 1 \in 1..Len(posts)
    BY <1>1, FrontIs
  <2>2. posts'[1] = p  BY <1>1, FrontIs
  <2>3. \A k \in 1..Len(posts) : posts[k] # p  BY DEF Stored
  <2>4. \A k \in 1..Len(posts') : k # 1 => posts'[k] # p  BY <2>1, <2>3
  <2>5. CASE i # 1 /\ j # 1
    <3>1. i - 1 = j - 1  BY <2>1, <2>5 DEF Sound, Once
    <3> QED  BY <3>1
  <2>6. CASE i = 1  BY <2>2, <2>4, <2>6
  <2>7. CASE j = 1  BY <2>2, <2>4, <2>7
  <2> QED  BY <2>5, <2>6, <2>7
<1>5. Fresh'  BY <1>2 DEF Sound, Fresh
<1>6. CacheGood'
  <2>1. Ahead(posts, cached, Held)  BY DEF Sound, CacheGood
  <2>2. Ahead(posts', cached', Held')  BY <1>1, <1>3, <2>1, AheadFront
  <2> QED  BY <1>2, <2>2 DEF Sound, CacheGood
<1>7. WayGood'
  <2>1. Ahead(posts, OnWay, Held)  BY DEF Sound, WayGood
  <2>2. OnWay' \intersect Occurs(posts) \subseteq OnWay  BY <1>2, <1>3
  <2>3. Ahead(posts', OnWay', Held')  BY <1>1, <1>3, <2>1, <2>2, AheadFront
  <2> QED  BY <2>3 DEF WayGood
<1>8. ASSUME NEW d \in Reader PROVE SliceGood(d)'
  <2> SUFFICES ASSUME phase[d] = "posts"
               PROVE slice[d] \subseteq Stored' /\ Ahead(posts', slice[d], Held' \union slice[d])
    BY DEF SliceGood
  <2>1. slice[d] \subseteq Stored /\ Ahead(posts, slice[d], Held \union slice[d])
    BY DEF Sound, SliceGood
  <2>2. Ahead(posts', slice[d], Held' \union slice[d])
    <3> DEFINE S == Held \union slice[d]
    <3>1. Ahead(posts, slice[d], S) /\ p \in S  BY <1>3, <2>1
    <3> HIDE DEF S
    <3>2. Ahead(posts', slice[d], S)  BY <1>1, <3>1, AheadFront
    <3> QED  BY <1>3, <3>2 DEF S
  <2> QED  BY <1>2, <2>1, <2>2
<1> QED  BY <1>4, <1>5, <1>6, <1>7, <1>8 DEF Sound

\* A step that pushes nothing: the cache may take posts, from a writer or a map.
LEMMA StillSound ==
  ASSUME TypeOK, Sound, posts' = posts,
         cached \subseteq cached', cached' \subseteq Stored,
         \A p \in Stored : p \in Held => p \in Held',
         \A p \in Stored : p \in cached' => p \in cached \/ p \in OnWay
           \/ \E d \in Reader : phase[d] = "posts" /\ p \in slice[d] /\ slice[d] \subseteq cached',
         OnWay' \intersect Stored \subseteq OnWay, Fresh',
         \A d \in Reader : phase'[d] = "posts" =>
           slice'[d] = {} \/ slice'[d] = Slice(d) \/ (phase[d] = "posts" /\ slice'[d] = slice[d])
  PROVE Sound'
<1>1. Stored' = Stored /\ Stored = Occurs(posts)  BY DEF Stored, Occurs
<1>2. Once'  BY DEF Sound, Once
<1>3. CacheGood'
  <2> SUFFICES ASSUME NEW i \in 1..Len(posts), NEW j \in 1..Len(posts), i < j,
                      posts[j] \in cached'
               PROVE posts[i] \in Held'
    BY <1>1 DEF CacheGood, Ahead
  <2>1. posts[i] \in Stored /\ posts[j] \in Stored  BY DEF Stored
  <2>2. CASE posts[j] \in cached \/ posts[j] \in OnWay
    <3>1. posts[i] \in Held  BY <2>2 DEF Sound, CacheGood, WayGood, Ahead
    <3> QED  BY <2>1, <3>1
  <2>3. ASSUME NEW d \in Reader, phase[d] = "posts", posts[j] \in slice[d],
               slice[d] \subseteq cached'
        PROVE posts[i] \in Held'
    <3>1. posts[i] \in Held \union slice[d]  BY <2>3 DEF Sound, SliceGood, Ahead
    <3> QED  BY <2>1, <2>3, <3>1 DEF Held
  <2> QED  BY <2>1, <2>2, <2>3
<1>4. WayGood'
  <2> SUFFICES ASSUME NEW i \in 1..Len(posts), NEW j \in 1..Len(posts), i < j,
                      posts[j] \in OnWay'
               PROVE posts[i] \in Held'
    BY DEF WayGood, Ahead
  <2>1. posts[i] \in Stored /\ posts[j] \in Stored  BY DEF Stored
  <2>2. posts[i] \in Held  BY <2>1 DEF Sound, WayGood, Ahead
  <2> QED  BY <2>1, <2>2
<1>5. ASSUME NEW d \in Reader PROVE SliceGood(d)'
  <2> SUFFICES ASSUME phase'[d] = "posts"
               PROVE /\ slice'[d] \subseteq Stored
                     /\ \A i, j \in 1..Len(posts) : i < j /\ posts[j] \in slice'[d] =>
                          posts[i] \in Held' \union slice'[d]
    BY <1>1 DEF SliceGood, Ahead
  <2>1. CASE slice'[d] = {}  BY <2>1
  <2>2. CASE slice'[d] = Slice(d)
    <3>1. Slice(d) \subseteq Stored /\ SliceLength(d) \in Nat /\ SliceLength(d) <= Len(posts)
          /\ Len(posts) \in Nat
      BY SliceType DEF TypeOK
    <3>2. ASSUME NEW i \in 1..Len(posts), NEW j \in 1..Len(posts), i < j, posts[j] \in Slice(d)
          PROVE posts[i] \in Slice(d)
      <4>1. PICK k \in 1..SliceLength(d) : posts[k] = posts[j]  BY <3>2 DEF Slice
      <4>2. k = j  BY <3>1, <4>1 DEF Sound, Once
      <4>3. i \in 1..SliceLength(d)  BY <3>1, <3>2, <4>1, <4>2
      <4> QED  BY <4>3 DEF Slice
    <3> QED  BY <2>2, <3>1, <3>2
  <2>3. CASE phase[d] = "posts" /\ slice'[d] = slice[d]
    <3>1. slice[d] \subseteq Stored /\ Ahead(posts, slice[d], Held \union slice[d])
      BY <2>3 DEF Sound, SliceGood
    <3>2. \A i \in 1..Len(posts) : posts[i] \in Held => posts[i] \in Held'  BY DEF Stored
    <3> QED  BY <2>3, <3>1, <3>2 DEF Ahead
  <2> QED  BY <2>1, <2>2, <2>3
<1> QED  BY <1>2, <1>3, <1>4, <1>5 DEF Sound

LEMMA PushAgainOnce ==
  ASSUME TypeOK, TypeOK', Sound, NEW p \in Post, PushAgain(p), ~disturbed'
  PROVE Sound'
<1>1. p \notin Stored /\ posts # <<>>  BY DEF PushAgain, TypeOK
<1>2. posts' = Pushed(p)  BY <1>1 DEF PushAgain, PushedToExisting, Pushed
<1>3. Writing(p) /\ state' = [state EXCEPT ![p] = "pushed"]  BY DEF PushAgain, Goes, Writing
<1>4. UNCHANGED <<cached, phase, slice>>  BY DEF PushAgain, readVars
<1> QED  BY <1>1, <1>2, <1>3, <1>4, PushSound

LEMMA PushKept ==
  ASSUME TypeOK, TypeOK', Sound, NEW p \in Post, Push(p) \/ PushFails(p)
  PROVE Sound'
<1> USE DEF TypeOK
<1>1. p \notin Stored  BY DEF Push, PushFails, Goes, Sound, Fresh
<1>2. Writing(p)  BY DEF Push, PushFails, Goes, Writing
<1>3. UNCHANGED <<cached, phase, slice>>  BY DEF Push, PushFails, readVars
<1>4. PICK to \in {"retrying", "pushed"} : state' = [state EXCEPT ![p] = to]
  BY DEF Push, PushFails, Goes
<1>5. CASE posts' = Pushed(p)  BY <1>1, <1>2, <1>3, <1>4, <1>5, PushSound
<1>6. CASE posts' = posts
  <2>1. cached' = cached /\ cached \subseteq Stored  BY <1>3 DEF Sound, CacheGood
  <2>2. Held' = Held  BY <1>2, <1>3, <1>4 DEF Held, InWriting, Writing
  <2>3. OnWay' \intersect Stored \subseteq OnWay  BY <1>1, <1>4 DEF OnWay
  <2>4. Fresh'  BY <1>4, <1>6 DEF Sound, Fresh, Stored
  <2> QED  BY <1>3, <1>6, <2>1, <2>2, <2>3, <2>4, StillSound
<1> QED  BY <1>5, <1>6 DEF Push, PushFails

\* A second attempt that fails counts as no disturbance only if the post never came.
LEMMA PushFailsAgainKept ==
  ASSUME TypeOK, TypeOK', Sound, NEW p \in Post, PushFailsAgain(p), ~disturbed'
  PROVE Sound'
<1> USE DEF TypeOK
<1>1. p \notin Stored /\ posts' = posts  BY DEF PushFailsAgain
<1>2. UNCHANGED <<cached, phase, slice>>  BY DEF PushFailsAgain, readVars
<1>3. state' = [state EXCEPT ![p] = "failed"]  BY DEF PushFailsAgain, Goes
<1>4. cached' = cached /\ cached \subseteq Stored  BY <1>2 DEF Sound, CacheGood
<1>5. \A q \in Stored : q \in Held => q \in Held'
  BY <1>1, <1>2, <1>3 DEF Held, InWriting, Writing
<1>6. OnWay' \intersect Stored \subseteq OnWay  BY <1>3 DEF OnWay
<1>7. Fresh'  BY <1>1, <1>3 DEF Sound, Fresh, Stored
<1> QED  BY <1>1, <1>2, <1>4, <1>5, <1>6, <1>7, StillSound

LEMMA BeginKept ==
  ASSUME TypeOK, TypeOK', Sound, NEW p \in Post, Begin(p)
  PROVE Sound'
<1> USE DEF TypeOK
<1>1. state[p] = "idle" /\ state' = [state EXCEPT ![p] = "pushing"]  BY DEF Begin, Goes
<1>2. UNCHANGED <<posts, cached, phase, slice>>  BY DEF Begin, readVars
<1>3. cached' = cached /\ cached \subseteq Stored  BY <1>2 DEF Sound, CacheGood
<1>4. \A q \in Stored : q \in Held => q \in Held'
  BY <1>1, <1>2 DEF Held, InWriting, Writing
<1>5. OnWay' \intersect Stored \subseteq OnWay  BY <1>1 DEF OnWay
<1>6. Fresh'  BY <1>1, <1>2 DEF Sound, Fresh, Stored
<1> QED  BY <1>2, <1>3, <1>4, <1>5, <1>6, StillSound

LEMMA CacheKept ==
  ASSUME TypeOK, TypeOK', Sound, NEW p \in Post, Cache(p), p \in Stored
  PROVE Sound'
<1> USE DEF TypeOK
<1>1. state[p] = "pushed" /\ state' = [state EXCEPT ![p] = "done"]  BY DEF Cache, Goes
<1>2. UNCHANGED <<posts, phase, slice>> /\ cached' = cached \union {p}  BY DEF Cache, readVars
<1>3. cached \subseteq cached' /\ cached' \subseteq Stored  BY <1>2 DEF Sound, CacheGood
<1>4. \A q \in Stored : q \in Held => q \in Held'
  BY <1>1, <1>2 DEF Held, InWriting, Writing
<1>5. OnWay' \intersect Stored \subseteq OnWay /\ p \in OnWay  BY <1>1 DEF OnWay
<1>6. Fresh'  BY <1>1, <1>2 DEF Sound, Fresh, Stored
<1> QED  BY <1>2, <1>3, <1>4, <1>5, <1>6, StillSound

\* What a reader does: the cache stays or takes the reader's map.
LEMMA ReadKept ==
  ASSUME TypeOK, TypeOK', Sound, NEW d \in Reader,
         AskRedis(d) \/ ReadStep(d) \/ Again(d)
  PROVE Sound'
<1> USE DEF TypeOK, Moves
<1>1. UNCHANGED <<state, posts>>
  BY DEF AskRedis, ReadStep, AskMongo, FindFails, FillRedis, Returns, ReadFails, Again
<1>2. \/ cached' = cached
      \/ phase[d] = "posts" /\ cached' = cached \union slice[d]
  BY DEF AskRedis, ReadStep, AskMongo, FindFails, FillRedis, Returns, ReadFails, Again
<1>3. cached \subseteq cached' /\ cached' \subseteq Stored
  BY <1>2 DEF Sound, CacheGood, SliceGood
<1>4. Held \subseteq Held' /\ OnWay' = OnWay
  BY <1>1, <1>3 DEF Held, InWriting, Writing, OnWay
<1>5. Fresh'  BY <1>1 DEF Sound, Fresh, Stored
<1>6. ASSUME NEW e \in Reader, phase'[e] = "posts"
      PROVE slice'[e] = {} \/ slice'[e] = Slice(e) \/ (phase[e] = "posts" /\ slice'[e] = slice[e])
  <2>1. CASE AskRedis(d)  BY <1>6, <2>1 DEF AskRedis
  <2>2. CASE AskMongo(d)
    <3>1. slice' = [slice EXCEPT ![d] = Slice(d)] /\ phase' = [phase EXCEPT ![d] = "posts"]
      BY <2>2 DEF AskMongo
    <3>2. CASE e = d  BY <3>1, <3>2
    <3>3. CASE e # d  BY <1>6, <3>1, <3>3
    <3> QED  BY <3>2, <3>3
  <2>3. CASE FindFails(d)  BY <1>6, <2>3 DEF FindFails
  <2>4. CASE FillRedis(d)  BY <1>6, <2>4 DEF FillRedis
  <2>5. CASE Returns(d)  BY <1>6, <2>5 DEF Returns
  <2>6. CASE ReadFails(d)  BY <1>6, <2>6 DEF ReadFails
  <2>7. CASE Again(d)  BY <1>6, <2>7 DEF Again
  <2> QED  BY <2>1, <2>2, <2>3, <2>4, <2>5, <2>6, <2>7 DEF ReadStep
<1> QED  BY <1>1, <1>2, <1>3, <1>4, <1>5, <1>6, StillSound

LEMMA LoseCacheKept ==
  TypeOK /\ TypeOK' /\ Sound /\ LoseCache /\ ~disturbed' => Sound'
<1> SUFFICES ASSUME TypeOK, TypeOK', Sound, LoseCache, ~disturbed' PROVE Sound'
  OBVIOUS
<1> USE DEF TypeOK
<1>1. UNCHANGED <<state, posts, phase, slice>> /\ cached' = {}  BY DEF LoseCache, readVars
<1>2. OnWay = {} /\ \A d \in Reader : phase[d] = "posts" => slice[d] = {}
  BY DEF LoseCache, OnItsWay, OnWay
<1>3. Once' /\ Fresh'  BY <1>1 DEF Sound, Once, Fresh, Stored
<1>4. CacheGood' /\ WayGood'  BY <1>1, <1>2 DEF CacheGood, WayGood, OnWay, Ahead
<1>5. \A d \in Reader : SliceGood(d)'  BY <1>1, <1>2 DEF SliceGood, Ahead
<1> QED  BY <1>3, <1>4, <1>5 DEF Sound

LEMMA WrittenKept ==
  ASSUME TypeOK, Written, [Next]_vars, ~disturbed'
  PROVE Written'
<1> USE DEF TypeOK, Written, Goes
<1>1. CASE UNCHANGED <<state, posts>>  BY <1>1 DEF Stored
<1>2. ASSUME NEW p \in Post, posts' = Pushed(p), \A q \in Post \ {p} : state'[q] = state[q]
      PROVE Written'
  <2>1. Stored' = Stored \union {p}
    BY <1>2, FrontOccurs DEF Stored, Occurs, Pushed
  <2> QED  BY <1>2, <2>1
<1>3. ASSUME NEW p \in Post, posts' = posts, state'[p] # "pushed",
             \A q \in Post \ {p} : state'[q] = state[q]
      PROVE Written'
  BY <1>3 DEF Stored
<1>4. ASSUME NEW p \in Post, Begin(p) \/ WriteStep(p) PROVE Written'
  <2>1. CASE Begin(p)  BY <1>3, <2>1 DEF Begin
  <2>2. CASE Push(p)  BY <1>2, <2>2 DEF Push
  <2>3. CASE PushFails(p)
    <3>1. \A q \in Post \ {p} : state'[q] = state[q]  BY <2>3 DEF PushFails
    <3>2. state'[p] # "pushed" /\ (posts' = posts \/ posts' = Pushed(p))  BY <2>3 DEF PushFails
    <3> QED  BY <1>2, <1>3, <3>1, <3>2
  <2>4. CASE PushAgain(p)
    <3>1. posts' = Pushed(p)  BY <2>4 DEF PushAgain, PushedToExisting, Pushed
    <3> QED  BY <1>2, <2>4, <3>1 DEF PushAgain
  <2>5. CASE PushFailsAgain(p)
    <3>1. posts' = posts  BY <2>5 DEF PushFailsAgain
    <3> QED  BY <1>3, <2>5, <3>1 DEF PushFailsAgain
  <2>6. CASE Cache(p)  BY <1>3, <2>6 DEF Cache
  <2>7. CASE CacheFails(p)  BY <2>7 DEF CacheFails
  <2> QED  BY <1>4, <2>1, <2>2, <2>3, <2>4, <2>5, <2>6, <2>7 DEF WriteStep
<1>5. CASE UNCHANGED vars  BY <1>1, <1>5 DEF vars
<1> QED  BY <1>1, <1>4, <1>5 DEF Next, AskRedis, ReadStep, AskMongo, FindFails, FillRedis,
            Returns, ReadFails, Again, LoseCache, Replicate

LEMMA DisturbedStays ==
  ASSUME TypeOK, [Next]_vars, disturbed PROVE disturbed'
BY DEF TypeOK, Next, vars, Begin, WriteStep, Push, PushFails, PushAgain, PushFailsAgain, Cache,
       CacheFails, AskRedis, ReadStep, AskMongo, FindFails, FillRedis, Returns, ReadFails,
       Again, LoseCache, Replicate

LEMMA StepIInv == IInv /\ [Next]_vars => IInv'
<1> SUFFICES ASSUME IInv, [Next]_vars PROVE IInv'  OBVIOUS
<1>1. TypeOK /\ TypeOK'  BY TypeKept DEF IInv
<1>2. NoDuplicates'  BY NoDuplicatesKept DEF IInv
<1>3. ASSUME ~disturbed' PROVE Sound' /\ Written'
  <2>1. ~disturbed  BY <1>1, <1>3, DisturbedStays
  <2>2. Sound /\ Written  BY <2>1 DEF IInv
  <2>3. Written'  BY <1>1, <1>3, <2>2, WrittenKept
  <2>4. CASE UNCHANGED vars \/ Replicate
    <3>0. UNCHANGED <<state, posts, cached, phase, slice>>
      BY <2>4 DEF vars, Replicate, readVars
    <3>1. Once' /\ Fresh'  BY <2>2, <3>0 DEF Sound, Once, Fresh, Stored
    <3>2. Held' = Held /\ OnWay' = OnWay /\ Stored' = Stored
      BY <3>0 DEF Held, InWriting, Writing, OnWay, Stored
    <3>3. CacheGood' /\ WayGood'
      BY <2>2, <3>0, <3>2 DEF Sound, CacheGood, WayGood, Ahead
    <3>4. \A d \in Reader : SliceGood(d)'
      BY <2>2, <3>0, <3>2 DEF Sound, SliceGood, Ahead
    <3> QED  BY <2>3, <3>1, <3>3, <3>4 DEF Sound
  <2>5. ASSUME NEW p \in Post, Begin(p) \/ WriteStep(p) PROVE Sound'
    <3>1. CASE Begin(p)  BY <1>1, <2>2, <3>1, BeginKept
    <3>2. CASE Push(p) \/ PushFails(p)  BY <1>1, <2>2, <3>2, PushKept
    <3>3. CASE PushAgain(p)  BY <1>1, <1>3, <2>2, <3>3, PushAgainOnce
    <3>4. CASE PushFailsAgain(p)  BY <1>1, <1>3, <2>2, <3>4, PushFailsAgainKept
    <3>5. CASE Cache(p)
      <4>1. p \in Stored  BY <2>2, <3>5 DEF Written, Cache, Goes
      <4> QED  BY <1>1, <2>2, <3>5, <4>1, CacheKept
    <3>6. CASE CacheFails(p)  BY <1>3, <3>6 DEF CacheFails
    <3> QED  BY <2>5, <3>1, <3>2, <3>3, <3>4, <3>5, <3>6 DEF WriteStep
  <2>6. ASSUME NEW d \in Reader, AskRedis(d) \/ ReadStep(d) \/ Again(d) PROVE Sound'
    BY <1>1, <2>2, <2>6, ReadKept
  <2>7. CASE LoseCache  
    <3>1. Sound  BY <2>2
    <3> QED  BY <1>1, <1>3, <2>3, <2>7, <3>1, LoseCacheKept
  <2> QED  BY <2>3, <2>4, <2>5, <2>6, <2>7 DEF Next
<1> QED  BY <1>1, <1>2, <1>3 DEF IInv

-----------------------------------------------------------------------------
(* The theorems *)

\* The inductive invariant holds in every reachable state.
THEOREM Invariance == Spec => []IInv
BY InitIInv, StepIInv, PTL DEF Spec

\* The type invariant.
THEOREM TypeCorrect == Spec => []TypeOK
<1>1. IInv => TypeOK  BY DEF IInv
<1> QED  BY <1>1, Invariance, PTL

\* While nothing has disturbed it, Redis holds the newest posts without a gap.
THEOREM NoGapCorrect == Spec => []NoGap
<1>1. IInv => NoGap
  <2> SUFFICES ASSUME IInv, ~disturbed PROVE NoGap  BY DEF NoGap
  <2>1. Ahead(posts, cached, Held) /\ TypeOK  BY DEF IInv, Sound, CacheGood
  <2>2. \A i \in 1..Len(posts) : posts[i] \in Held => posts[i] \in cached \/ Writing(posts[i])
    BY DEF Held, InWriting
  <2> QED  BY <2>1, <2>2 DEF NoGap, Ahead
<1> QED  BY <1>1, Invariance, PTL

\* While nothing has disturbed it, Redis lists no post that MongoDB does not have.
THEOREM CachedAreStoredCorrect == Spec => []CachedAreStored
<1>1. IInv => CachedAreStored  BY DEF IInv, Sound, CacheGood, CachedAreStored
<1> QED  BY <1>1, Invariance, PTL

\* ReadPosts never gets an identifier twice, for any number of writers and readers.
THEOREM NoDuplicatesCorrect == Spec => []NoDuplicates
<1>1. IInv => NoDuplicates  BY DEF IInv
<1> QED  BY <1>1, Invariance, PTL

-----------------------------------------------------------------------------
(* Full pages.  A reader is calm only while nothing is written, so the list   *)
(* it pages through stands still.  What Redis has of it is the front of the   *)
(* list; Redis ranks that by stamp, and the list is in the order of the       *)
(* pushes, so the two agree on how many posts a range has, though not on      *)
(* which.                                                                     *)

Quiet == calm # {} => \A p \in Post : ~Writing(p)

\* What Redis has given is from the part of the list ahead of mongo_start.
FrontTaken(d) ==
  phase[d] = "mongo" =>
    /\ MongoStart(d) < page[d][2]
    /\ Found(d) # {} => MongoStart(d) <= Len(posts)
    /\ \A i \in 1..Len(posts) : MongoStart(d) < i => posts[i] \notin Found(d)

Full(d) ==
  phase[d] \in {"posts", "filled", "answered"} =>
    Cardinality(Found(d)) =
      IF page[d][1] < SliceLength(d) THEN SliceLength(d) - page[d][1] ELSE 0

PInv == Quiet /\ (disturbed \/ \A d \in calm : FrontTaken(d) /\ Full(d))

\* A range of the list has as many posts as positions, as none is listed twice.
LEMMA RangeOfList ==
  ASSUME TypeOK, Once, NEW a \in Nat, NEW b \in Nat, b <= Len(posts)
  PROVE  /\ IsFiniteSet({posts[i] : i \in a + 1 .. b})
         /\ Cardinality({posts[i] : i \in a + 1 .. b}) = IF a < b THEN b - a ELSE 0
<1> DEFINE I == a + 1 .. b
           S == {posts[i] : i \in I}
           f == [i \in I |-> posts[i]]
<1>1. IsFiniteSet(I) /\ Cardinality(I) = IF a < b THEN b - a ELSE 0
  BY FS_Interval
<1>2. I \subseteq 1..Len(posts)  BY DEF TypeOK
<1>3. \A i, j \in I : f[i] = f[j] => i = j  BY <1>2 DEF Once
<1>4. f \in [I -> S]  OBVIOUS
<1>5. \A p \in S : \E i \in I : f[i] = p  OBVIOUS
<1> HIDE DEF I, S, f
<1>6. IsFiniteSet(S) /\ Cardinality(S) = Cardinality(I)
  <2>1. f \in Injection(I, S)  BY <1>3, <1>4, Fun_IsInj
  <2>2. f \in Surjection(I, S)  BY <1>4, <1>5, Fun_IsSurj
  <2> QED  BY <1>1, <2>1, <2>2, FS_Surjection
<1> QED  BY <1>1, <1>6 DEF I, S

\* The ranks of the members of the sorted set are the numbers from zero on.
LEMMA RanksAreNumbers ==
  ASSUME TypeOK
  PROVE  /\ IsFiniteSet(replica)
         /\ [p \in replica |-> Rank(p)] \in Bijection(replica, 0 .. Cardinality(replica) - 1)
<1> DEFINE k == Cardinality(replica)
           Above(p) == {q \in replica : Stamp[q] > Stamp[p]}
           f == [p \in replica |-> Rank(p)]
           K == 0 .. k - 1
<1>1. IsFiniteSet(replica) /\ k \in Nat
  BY TimelineAssumption, FS_Subset, FS_CardinalityType DEF TypeOK
<1>2. \A p \in replica : p \in Post /\ Stamp[p] \in Nat
  BY TimelineAssumption DEF TypeOK
<1>3. \A p \in replica : IsFiniteSet(Above(p)) /\ Rank(p) \in Nat
  BY <1>1, FS_Subset, FS_CardinalityType DEF Rank
<1>4. ASSUME NEW p \in replica  PROVE Rank(p) < k
  <2>1. Above(p) \subseteq replica /\ p \notin Above(p)  BY <1>2
  <2>2. Rank(p) <= k /\ Rank(p) # k  BY <1>1, <2>1, FS_Subset DEF Rank
  <2>3. Rank(p) \in Nat  BY <1>3
  <2> HIDE DEF k
  <2> QED  BY <1>1, <2>2, <2>3
<1>5. ASSUME NEW p \in replica, NEW q \in replica, Stamp[q] > Stamp[p]
      PROVE  Rank(p) # Rank(q)
  <2>1. Above(q) \subseteq Above(p)  BY <1>2, <1>5
  <2>2. q \in Above(p) /\ q \notin Above(q)  BY <1>2, <1>5
  <2> QED  BY <1>3, <2>1, <2>2, FS_Subset DEF Rank
<1>6. ASSUME NEW p \in replica, NEW q \in replica, Rank(p) = Rank(q)  PROVE p = q
  <2>1. ~(Stamp[q] > Stamp[p]) /\ ~(Stamp[p] > Stamp[q])  BY <1>5, <1>6
  <2>2. Stamp[p] = Stamp[q]  BY <1>2, <2>1
  <2> QED  BY <1>2, <2>2, TimelineAssumption
<1>7. f \in Injection(replica, K)
  <2>1. ASSUME NEW p \in replica  PROVE f[p] \in K
    <3>1. f[p] = Rank(p) /\ Rank(p) \in Nat /\ Rank(p) < k
      BY <1>3, <1>4
    <3> HIDE DEF k, f
    <3> QED  BY <1>1, <3>1
  <2>2. \A p, q \in replica : f[p] = f[q] => p = q  BY <1>6
  <2>3. f \in [replica -> K]
    <3> HIDE DEF K
    <3> QED  BY <2>1
  <2> HIDE DEF f, K
  <2> QED  BY <2>2, <2>3, Fun_IsInj
<1>8. IsFiniteSet(K) /\ Cardinality(K) = k
  BY <1>1, FS_Interval
<1> HIDE DEF k, f, K
<1>9. f \in Surjection(replica, K)
  BY <1>7, <1>8, FS_Injection DEF k
<1> QED  BY <1>1, <1>7, <1>9 DEF Bijection, f, K, k

\* zrevrange gives the whole range, or what there is of it.
LEMMA RangeOfRedis ==
  ASSUME TypeOK, NEW a \in Nat, NEW b \in Nat, a < b
  PROVE  LET k == Cardinality(replica)
             m == IF k < b THEN k ELSE b
         IN  Cardinality(InRedis(a, b)) = IF a < m THEN m - a ELSE 0
<1> DEFINE k == Cardinality(replica)
           m == IF k < b THEN k ELSE b
           R == InRedis(a, b)
           I == a .. m - 1
           f == [p \in replica |-> Rank(p)]
           g == [p \in R |-> f[p]]
<1>1. k \in Nat /\ m \in Nat /\ m <= k
  BY RanksAreNumbers, FS_CardinalityType
<1>2. f \in Bijection(replica, 0 .. k - 1)
  BY RanksAreNumbers
<1>3. IsFiniteSet(I) /\ Cardinality(I) = IF a < m THEN m - a ELSE 0
  <2> DEFINE h == m - 1
  <2>1. m \in Nat  BY <1>1
  <2> HIDE DEF m
  <2>2. h \in Int /\ a \in Int  BY <2>1
  <2> HIDE DEF h
  <2>3. /\ IsFiniteSet(a .. h)
        /\ Cardinality(a .. h) = IF a > h THEN 0 ELSE h - a + 1
    BY <2>2, FS_Interval
  <2> QED  BY <2>1, <2>3 DEF h
<1>4. R = {p \in replica : a <= f[p] /\ f[p] < b}  BY DEF InRedis
<1> HIDE DEF k, m, f, R
<1>5. /\ \A p \in replica : f[p] \in 0 .. k - 1
      /\ \A p, q \in replica : f[p] = f[q] => p = q
      /\ \A i \in 0 .. k - 1 : \E p \in replica : f[p] = i
  <2> DEFINE K == 0 .. k - 1
  <2>1. f \in Bijection(replica, K)  BY <1>2
  <2> HIDE DEF K
  <2>2. /\ f \in [replica -> K]
        /\ \A p, q \in replica : f[p] = f[q] => p = q
        /\ \A i \in K : \E p \in replica : f[p] = i
    BY <2>1, Fun_BijectionProperties
  <2> QED  BY <2>2 DEF K
<1>6. R = {p \in replica : f[p] \in I}
  BY <1>1, <1>4, <1>5 DEF m
<1>7. \A p, q \in R : g[p] = g[q] => p = q  BY <1>5, <1>6
<1>8. \A i \in I : \E p \in R : g[p] = i
  <2> SUFFICES ASSUME NEW i \in I  PROVE \E p \in R : g[p] = i
    OBVIOUS
  <2>1. i \in 0 .. k - 1  BY <1>1
  <2>2. PICK p \in replica : f[p] = i  BY <1>5, <2>1
  <2> QED  BY <1>6, <2>2
<1>9. g \in [R -> I]  BY <1>6
<1> HIDE DEF g, I
<1>10. g \in Injection(R, I) /\ g \in Surjection(R, I)
  BY <1>7, <1>8, <1>9, Fun_IsInj, Fun_IsSurj
<1>11. Cardinality(R) = Cardinality(I)  BY <1>3, <1>10, FS_Injection
<1> QED  BY <1>3, <1>11 DEF k, m, R

\* While nothing is written, Redis has the front of the list.
LEMMA CachedIsFront ==
  ASSUME TypeOK, Sound, \A p \in Post : ~Writing(p)
  PROVE  /\ Cardinality(cached) \in Nat
         /\ Cardinality(cached) <= Len(posts)
         /\ \A i \in 1..Len(posts) : posts[i] \in cached => i <= Cardinality(cached)
<1> DEFINE n == Len(posts)
           K == {i \in 1..n : posts[i] \in cached}
           f == [i \in K |-> posts[i]]
           k == Cardinality(cached)
<1>0. n \in Nat /\ Once /\ cached \subseteq Stored
  BY DEF TypeOK, Sound, CacheGood
<1>1. IsFiniteSet(1..n) /\ Cardinality(1..n) = n  BY <1>0, FS_Interval
<1>2. IsFiniteSet(K) /\ Cardinality(K) <= n /\ Cardinality(K) \in Nat
  BY <1>1, FS_Subset, FS_CardinalityType
<1>3. \A i, j \in 1..n : i < j /\ posts[j] \in cached => posts[i] \in cached
  BY DEF Sound, CacheGood, Ahead, Held, InWriting
<1>4. k = Cardinality(K)
  <2>1. f \in [K -> cached]  OBVIOUS
  <2>2. \A i, j \in K : f[i] = f[j] => i = j  BY <1>0 DEF Once
  <2>3. \A p \in cached : \E i \in K : f[i] = p
    <3> SUFFICES ASSUME NEW p \in cached  PROVE \E i \in K : f[i] = p
      OBVIOUS
    <3>1. PICK i \in 1..n : posts[i] = p  BY <1>0 DEF Stored
    <3> QED  BY <3>1
  <2> HIDE DEF K, f
  <2>4. f \in Surjection(K, cached) /\ f \in Injection(K, cached)
    BY <2>1, <2>2, <2>3, Fun_IsInj, Fun_IsSurj
  <2> QED  BY <1>2, <2>4, FS_Surjection
<1>5. ASSUME NEW i \in 1..n, posts[i] \in cached  PROVE i <= k
  <2>1. 1..i \subseteq K
    <3> SUFFICES ASSUME NEW j \in 1..i  PROVE j \in K
      OBVIOUS
    <3>1. j \in 1..n /\ (j < i \/ j = i)  BY <1>0
    <3> QED  BY <1>3, <1>5, <3>1
  <2>2. Cardinality(1..i) = i  BY <1>0, FS_Interval
  <2>3. Cardinality(1..i) <= Cardinality(K)
    <3> HIDE DEF K
    <3> QED  BY <1>2, <2>1, FS_Subset
  <2> QED  BY <1>4, <2>2, <2>3
<1> QED  BY <1>2, <1>4, <1>5

\* Redis answers: the reader has its page, or what is ahead of mongo_start.
LEMMA AskRedisFull ==
  ASSUME TypeOK, TypeOK', Sound, NEW d \in Reader, AskRedis(d),
         replica = cached, \A p \in Post : ~Writing(p)
  PROVE  FrontTaken(d)' /\ Full(d)'
<1>1. PICK g \in Page :
        /\ g[1] < g[2]
        /\ ids' = [ids EXCEPT ![d] = [p \in Post |-> IF p \in InRedis(g[1], g[2]) THEN 1 ELSE 0]]
        /\ phase' = [phase EXCEPT ![d] = IF g[1] + Cardinality(InRedis(g[1], g[2])) < g[2]
                                         THEN "mongo" ELSE "posts"]
        /\ page' = [page EXCEPT ![d] = g]
  BY DEF AskRedis
<1> DEFINE a == g[1]
           b == g[2]
           k == Cardinality(cached)
           R == InRedis(a, b)
           c == Cardinality(R)
           n == Len(posts)
<1>2. a \in Nat /\ b \in Nat /\ a < b /\ n \in Nat
  BY <1>1, TimelineAssumption DEF TypeOK
<1>3. k \in Nat /\ k <= n /\ \A i \in 1..n : posts[i] \in cached => i <= k
  BY CachedIsFront
<1>4. c = IF k < b THEN (IF a < k THEN k - a ELSE 0) ELSE b - a
  BY <1>2, <1>3, RangeOfRedis
<1>5. R \subseteq cached /\ cached \subseteq Post
  BY DEF InRedis, TypeOK
<1>6. Found(d)' = R
  <2>1. \A p \in Post : ids'[d][p] = IF p \in R THEN 1 ELSE 0
    BY <1>1 DEF TypeOK
  <2> QED  BY <1>5, <2>1 DEF Found
<1>7. page'[d][1] = a /\ page'[d][2] = b /\ posts' = posts
  BY <1>1 DEF TypeOK, AskRedis
<1>8. MongoStart(d)' = a + c  BY <1>6, <1>7 DEF MongoStart
<1>9. phase'[d] = IF a + c < b THEN "mongo" ELSE "posts"
  BY <1>1 DEF TypeOK
<1>10. SliceLength(d)' = IF n < b THEN n ELSE b  BY <1>7 DEF SliceLength
<1>11. c = 0 => R = {}
  <2>1. IsFiniteSet(R)  BY <1>5, RanksAreNumbers, FS_Subset
  <2> HIDE DEF R
  <2> QED  BY <2>1, FS_EmptySet
<1> HIDE DEF a, b, k, R, c, n
<1>12. ASSUME a + c < b
       PROVE  /\ R # {} => a + c <= n
              /\ \A i \in 1..n : a + c < i => posts[i] \notin R
  <2>1. c = IF a < k THEN k - a ELSE 0  BY <1>2, <1>3, <1>4, <1>12
  <2>2. CASE a < k
    <3>1. a + c = k  BY <1>2, <1>3, <2>1, <2>2
    <3>2. \A i \in 1..n : k < i => posts[i] \notin R
      BY <1>3, <1>2, <1>5
    <3> QED  BY <1>3, <3>1, <3>2
  <2>3. CASE ~(a < k)
    BY <1>11, <2>1, <2>3
  <2> QED  BY <2>2, <2>3
<1>13. ASSUME ~(a + c < b)  PROVE c = b - a /\ b <= n
  BY <1>2, <1>3, <1>4, <1>13
<1>14. FrontTaken(d)'
  <2>1. CASE a + c < b
    BY <1>6, <1>7, <1>8, <1>12, <2>1 DEF FrontTaken, n
  <2>2. CASE ~(a + c < b)  BY <1>9, <2>2 DEF FrontTaken
  <2> QED  BY <2>1, <2>2
<1>15. Full(d)'
  <2>1. CASE a + c < b  BY <1>9, <2>1 DEF Full
  <2>2. CASE ~(a + c < b)
    <3>1. SliceLength(d)' = b  BY <1>2, <1>10, <1>13, <2>2
    <3>2. Cardinality(Found(d)') = b - a  BY <1>6, <1>13, <2>2 DEF c
    <3> QED  BY <1>2, <1>7, <3>1, <3>2 DEF Full
  <2> QED  BY <2>1, <2>2
<1> QED  BY <1>14, <1>15

\* MongoDB adds the rest of the page, none of which is there already.
LEMMA AskMongoFull ==
  ASSUME TypeOK, Once, NEW d \in Reader, AskMongo(d), FrontTaken(d)
  PROVE  FrontTaken(d)' /\ Full(d)'
<1> DEFINE a == page[d][1]
           b == page[d][2]
           n == Len(posts)
           m == SliceLength(d)
           s == MongoStart(d)
           F == Found(d)
           N == {posts[i] : i \in s + 1 .. m}
<1>1. /\ phase[d] = "mongo" /\ phase'[d] = "posts"
      /\ UNCHANGED <<posts, page>>
      /\ ids' = [ids EXCEPT ![d] = WithNew(d)]
  BY DEF AskMongo, Moves, TypeOK
<1>2. a \in Nat /\ b \in Nat /\ n \in Nat
  BY TimelineAssumption DEF TypeOK
<1>3. IsFiniteSet(F) /\ Cardinality(F) \in Nat
  <2>1. F \subseteq Post  BY DEF Found
  <2> QED  BY <2>1, TimelineAssumption, FS_Subset, FS_CardinalityType
<1>4. s = a + Cardinality(F) /\ s \in Nat  BY <1>2, <1>3 DEF MongoStart
<1>5. m = IF n < b THEN n ELSE b  BY DEF SliceLength
<1>6. m \in Nat /\ m <= n  BY <1>2, <1>5
<1>7. IsFiniteSet(N) /\ Cardinality(N) = IF s < m THEN m - s ELSE 0
  BY <1>4, <1>6, RangeOfList
<1>8. F \intersect N = {}
  <2>1. \A i \in s + 1 .. m : i \in 1..n /\ s < i  BY <1>2, <1>4, <1>6
  <2> QED  BY <1>1, <2>1 DEF FrontTaken
<1>9. Found(d)' = F \union N
  <2>1. \A p \in Post : ids'[d][p] = IF p \in N THEN 1 ELSE ids[d][p]
    BY <1>1 DEF TypeOK, WithNew
  <2>2. N \subseteq Post
    <3>1. \A i \in s + 1 .. m : i \in 1..n  BY <1>2, <1>4, <1>6
    <3> QED  BY <3>1 DEF TypeOK
  <2> HIDE DEF N
  <2> QED  BY <2>1, <2>2 DEF Found
<1>10. s < b /\ (F # {} => s <= n)  BY <1>1 DEF FrontTaken
<1>11. SliceLength(d)' = m /\ page'[d][1] = a
  BY <1>1 DEF SliceLength
<1> HIDE DEF a, b, n, m, s, F, N
<1>12. Cardinality(F \union N) = Cardinality(F) + Cardinality(N)
  <2>1. Cardinality(F \union N) = Cardinality(F) + Cardinality(N) - Cardinality({})
    BY <1>3, <1>7, <1>8, FS_Union
  <2>2. Cardinality(N) \in Nat  BY <1>7, FS_CardinalityType
  <2> QED  BY <1>3, <2>1, <2>2, FS_EmptySet
<1>13. Cardinality(F \union N) = IF a < m THEN m - a ELSE 0
  <2>1. CASE F = {}
    <3>1. Cardinality(F) = 0  BY <2>1, FS_EmptySet
    <3> QED  BY <1>2, <1>4, <1>6, <1>7, <1>12, <3>1
  <2>2. CASE F # {}
    <3>1. s <= m  BY <1>2, <1>4, <1>5, <1>10, <2>2
    <3>2. Cardinality(F) # 0  BY <1>3, <2>2, FS_EmptySet
    <3> QED  BY <1>2, <1>3, <1>4, <1>6, <1>7, <1>12, <3>1, <3>2
  <2> QED  BY <2>1, <2>2
<1>14. Full(d)'  BY <1>9, <1>11, <1>13 DEF Full
<1>15. FrontTaken(d)'  BY <1>1 DEF FrontTaken
<1> QED  BY <1>14, <1>15

\* What a step leaves of a reader that it does not touch.
LEMMA FullStays ==
  ASSUME NEW d \in Reader, UNCHANGED posts, ids'[d] = ids[d], page'[d] = page[d],
         \/ phase'[d] = phase[d]
         \/ phase'[d] = "failed" \/ phase'[d] = "idle"
         \/ phase[d] \in {"posts", "filled", "answered"} /\ phase'[d] \in {"filled", "answered"},
         FrontTaken(d), Full(d)
  PROVE  FrontTaken(d)' /\ Full(d)'
<1>1. Found(d)' = Found(d)  BY DEF Found
<1>2. MongoStart(d)' = MongoStart(d) /\ SliceLength(d)' = SliceLength(d)
  BY <1>1 DEF MongoStart, SliceLength
<1>3. FrontTaken(d)'
  <2> SUFFICES ASSUME phase'[d] = "mongo"  PROVE FrontTaken(d)'
    BY DEF FrontTaken
  <2>1. phase[d] = "mongo"  OBVIOUS
  <2> QED  BY <1>1, <1>2, <2>1 DEF FrontTaken
<1>4. Full(d)'
  <2> SUFFICES ASSUME phase'[d] \in {"posts", "filled", "answered"}  PROVE Full(d)'
    BY DEF Full
  <2>1. phase[d] \in {"posts", "filled", "answered"}  OBVIOUS
  <2> QED  BY <1>1, <1>2, <2>1 DEF Full
<1> QED  BY <1>3, <1>4

LEMMA QuietKept ==
  ASSUME TypeOK, Quiet, [Next]_vars  PROVE Quiet'
<1> USE DEF TypeOK, Quiet, Writing
<1>1. ASSUME NEW p \in Post, Begin(p)  PROVE Quiet'
  BY <1>1 DEF Begin
<1>2. ASSUME NEW p \in Post, WriteStep(p)  PROVE Quiet'
  <2>1. Writing(p) /\ calm' = calm
    BY <1>2 DEF WriteStep, Push, PushFails, PushAgain, PushFailsAgain, Cache,
                CacheFails, Goes
  <2> QED  BY <2>1
<1>3. ASSUME NEW d \in Reader, AskRedis(d)  PROVE Quiet'
  <2>1. state' = state  BY <1>3 DEF AskRedis
  <2>2. calm' = IF replica # cached \/ \E p \in Post : Writing(p)
                THEN calm \ {d} ELSE calm \union {d}
    BY <1>3 DEF AskRedis
  <2> QED  BY <2>1, <2>2
<1>4. ASSUME NEW d \in Reader, ReadStep(d) \/ Again(d)  PROVE Quiet'
  <2>1. state' = state /\ calm' \subseteq calm
    BY <1>4 DEF ReadStep, AskMongo, FindFails, FillRedis, Returns, ReadFails, Again
  <2> QED  BY <2>1
<1>5. CASE LoseCache \/ Replicate \/ UNCHANGED vars
  BY <1>5 DEF LoseCache, Replicate, vars
<1> QED  BY <1>1, <1>2, <1>3, <1>4, <1>5 DEF Next

LEMMA FullKept ==
  ASSUME IInv, TypeOK', Quiet, [Next]_vars, ~disturbed,
         \A d \in calm : FrontTaken(d) /\ Full(d)
  PROVE  \A d \in calm' : FrontTaken(d)' /\ Full(d)'
<1>0. TypeOK /\ Sound /\ Once /\ calm \subseteq Reader
  BY DEF IInv, Sound, TypeOK
<1>1. ASSUME NEW p \in Post, Begin(p) \/ WriteStep(p)
      PROVE  calm' = {}
  <2>1. CASE Begin(p)  BY <2>1 DEF Begin
  <2>2. CASE WriteStep(p)
    <3>1. Writing(p) /\ calm' = calm
      BY <2>2 DEF WriteStep, Push, PushFails, PushAgain, PushFailsAgain, Cache,
                  CacheFails, Goes, Writing
    <3> QED  BY <3>1 DEF Quiet
  <2> QED  BY <1>1, <2>1, <2>2
<1>2. ASSUME NEW e \in Reader, AskRedis(e), NEW d \in calm'
      PROVE  FrontTaken(d)' /\ Full(d)'
  <2>1. calm' = IF replica # cached \/ \E p \in Post : Writing(p)
                THEN calm \ {e} ELSE calm \union {e}
    BY <1>2 DEF AskRedis
  <2>2. \A p \in Post : ~Writing(p)
    BY <1>2, <2>1 DEF Quiet
  <2>3. CASE d = e
    <3>1. replica = cached  BY <1>2, <2>1, <2>3
    <3> QED  BY <1>0, <1>2, <2>2, <2>3, <3>1, AskRedisFull
  <2>4. CASE d # e
    <3>1. d \in calm /\ d \in Reader  BY <1>0, <1>2, <2>1, <2>4
    <3>2. /\ ids'[d] = ids[d] /\ page'[d] = page[d] /\ phase'[d] = phase[d]
          /\ posts' = posts
      BY <1>0, <1>2, <2>4, <3>1 DEF AskRedis, TypeOK
    <3> QED  BY <3>1, <3>2, FullStays
  <2> QED  BY <2>3, <2>4
<1>3. ASSUME NEW e \in Reader, AskMongo(e), NEW d \in calm'
      PROVE  FrontTaken(d)' /\ Full(d)'
  <2>1. d \in calm /\ d \in Reader  BY <1>0, <1>3 DEF AskMongo
  <2>2. CASE d = e  BY <1>0, <1>3, <2>1, <2>2, AskMongoFull
  <2>3. CASE d # e
    <3>1. /\ ids'[d] = ids[d] /\ page'[d] = page[d] /\ phase'[d] = phase[d]
          /\ posts' = posts
      BY <1>0, <1>3, <2>1, <2>3 DEF AskMongo, Moves, TypeOK
    <3> QED  BY <2>1, <3>1, FullStays
  <2> QED  BY <2>2, <2>3
<1>4. ASSUME NEW e \in Reader, FindFails(e), NEW d \in calm'
      PROVE  FrontTaken(d)' /\ Full(d)'
  <2>1. d \in calm /\ d \in Reader /\ d # e  BY <1>0, <1>4 DEF FindFails
  <2>2. /\ ids'[d] = ids[d] /\ page'[d] = page[d] /\ phase'[d] = phase[d]
        /\ posts' = posts
    BY <1>0, <1>4, <2>1 DEF FindFails, Moves, TypeOK
  <2> QED  BY <2>1, <2>2, FullStays
<1>5. ASSUME NEW e \in Reader, FillRedis(e) \/ Returns(e) \/ ReadFails(e),
             NEW d \in calm'
      PROVE  FrontTaken(d)' /\ Full(d)'
  <2>1. d \in calm /\ d \in Reader
    BY <1>0, <1>5 DEF FillRedis, Returns, ReadFails
  <2>2. ids' = ids /\ page' = page /\ posts' = posts
    BY <1>5 DEF FillRedis, Returns, ReadFails
  <2>3. \/ phase'[d] = phase[d] \/ phase'[d] = "failed"
        \/ phase[d] \in {"posts", "filled"} /\ phase'[d] \in {"filled", "answered"}
    BY <1>0, <1>5, <2>1 DEF FillRedis, Returns, ReadFails, Moves, TypeOK
  <2> QED  BY <2>1, <2>2, <2>3, FullStays
<1>6. ASSUME NEW e \in Reader, Again(e), NEW d \in calm'
      PROVE  FrontTaken(d)' /\ Full(d)'
  <2>1. d \in calm /\ d \in Reader  BY <1>0, <1>6 DEF Again
  <2>2. CASE d = e
    <3>1. phase'[d] = "idle"  BY <1>0, <1>6, <2>1, <2>2 DEF Again, TypeOK
    <3> QED  BY <3>1 DEF FrontTaken, Full
  <2>3. CASE d # e
    <3>1. /\ ids'[d] = ids[d] /\ page'[d] = page[d] /\ phase'[d] = phase[d]
          /\ posts' = posts
      BY <1>0, <1>6, <2>1, <2>3 DEF Again, TypeOK
    <3> QED  BY <2>1, <3>1, FullStays
  <2> QED  BY <2>2, <2>3
<1>7. ASSUME LoseCache \/ Replicate \/ UNCHANGED vars, NEW d \in calm'
      PROVE  FrontTaken(d)' /\ Full(d)'
  <2>1. d \in calm /\ d \in Reader  BY <1>0, <1>7 DEF LoseCache, Replicate, vars
  <2>2. ids' = ids /\ page' = page /\ phase' = phase /\ posts' = posts
    BY <1>7 DEF LoseCache, Replicate, readVars, vars
  <2> QED  BY <2>1, <2>2, FullStays
<1> QED  BY <1>1, <1>2, <1>3, <1>4, <1>5, <1>6, <1>7 DEF Next, ReadStep

\* A page that is read while nothing is written, nothing fails and no replica lags
\* is complete, wherever Redis ends within it, whether or not it loses the set
\* meanwhile.
THEOREM FullPagesCorrect == Spec => []FullPages
<1>1. Init => PInv
  BY DEF Init, PInv, Quiet
<1>2. IInv /\ IInv' /\ PInv /\ [Next]_vars => PInv'
  <2> SUFFICES ASSUME IInv, IInv', PInv, [Next]_vars  PROVE PInv'
    OBVIOUS
  <2>1. TypeOK /\ TypeOK'  BY DEF IInv
  <2>2. Quiet'  BY <2>1, QuietKept DEF PInv
  <2>3. CASE disturbed'  BY <2>2, <2>3 DEF PInv
  <2>4. CASE ~disturbed'
    <3>1. ~disturbed  BY <2>1, <2>4, DisturbedStays
    <3> QED  BY <2>1, <2>2, <3>1, FullKept DEF PInv
  <2> QED  BY <2>3, <2>4
<1>3. PInv => FullPages
  BY DEF PInv, Full, FullPages
<1> QED  BY <1>1, <1>2, <1>3, Invariance, PTL DEF Spec

-----------------------------------------------------------------------------
(* Without the history: what concurrency alone can do *)

Faultless == failures = 0 /\ losses = 0

\* Without a fault, no write is tried again, and each is in the databases as far
\* as it has got.
Straight ==
  /\ ~disturbed
  /\ \A p \in Post : /\ state[p] \in {"idle", "pushing", "pushed", "done"}
                     /\ p \in Stored => state[p] \in {"pushed", "done"}
                     /\ state[p] = "done" => p \in cached

LEMMA FaultlessIsStraight == Spec => [](Faultless => Straight)
<1> DEFINE J == Faultless => Straight
<1>1. Init => J  BY DEF Init, Straight, Stored
<1>2. IInv /\ J /\ [Next]_vars => J'
  <2> SUFFICES ASSUME IInv, J, [Next]_vars, Faultless' PROVE Straight'
    OBVIOUS
  <2>0. /\ failures \in Nat /\ losses \in Nat
        /\ state \in [Post -> {"idle", "pushing", "retrying", "pushed", "done", "failed"}]
        /\ posts \in Seq(Post)
    BY DEF IInv, TypeOK
  <2>1. CASE Replicate \/ UNCHANGED vars
    BY <2>1 DEF Replicate, vars, boundVars, Faultless, Straight, Stored
  <2>2. ASSUME NEW p \in Post, Begin(p) \/ Cache(p) PROVE Straight'
    BY <2>0, <2>2 DEF Begin, Cache, Goes, boundVars, Faultless, Straight, Stored
  <2>3. ASSUME NEW p \in Post, Push(p) PROVE Straight'
    <3>1. posts' = <<p>> \o posts  BY <2>3 DEF Push, Pushed
    <3>2. Occurs(posts') = Occurs(posts) \union {p}  BY <2>0, <3>1, FrontOccurs
    <3>3. Stored' = Stored \union {p}  BY <3>2 DEF Stored, Occurs
    <3> QED  BY <2>0, <2>3, <3>3 DEF Push, Goes, boundVars, Faultless, Straight
  <2>4. ASSUME NEW p \in Post, PushFails(p) \/ PushFailsAgain(p) \/ CacheFails(p)
        PROVE Straight'
    BY <2>0, <2>4 DEF PushFails, PushFailsAgain, CacheFails, Faultless
  <2>5. ASSUME NEW p \in Post, PushAgain(p) PROVE Straight'
    BY <2>0, <2>5 DEF PushAgain, Goes, boundVars, Faultless, Straight
  <2>6. ASSUME NEW d \in Reader, AskRedis(d) \/ AskMongo(d) \/ Returns(d) \/ Again(d)
        PROVE Straight'
    BY <2>6 DEF AskRedis, AskMongo, Returns, Again, boundVars, Faultless, Straight, Stored
  <2>7. ASSUME NEW d \in Reader, FindFails(d) \/ ReadFails(d) PROVE Straight'
    BY <2>0, <2>7 DEF FindFails, ReadFails, Faultless
  <2>8. ASSUME NEW d \in Reader, FillRedis(d) PROVE Straight'
    BY <2>8 DEF FillRedis, boundVars, Faultless, Straight, Stored
  <2>9. CASE LoseCache  BY <2>0, <2>9 DEF LoseCache, Faultless
  <2> QED
    BY <2>1, <2>2, <2>3, <2>4, <2>5, <2>6, <2>7, <2>8, <2>9 DEF Next, WriteStep, ReadStep
<1> HIDE DEF J
<1>3. Spec => []J  BY <1>1, <1>2, Invariance, PTL DEF Spec
<1> QED  BY <1>3, PTL DEF J

\* It takes a failure or a lost key to disturb the timeline: no overlap of
\* writes and readers does.
THEOREM OnlyFaultsDisturb == Spec => [](Faultless => ~disturbed)
<1>1. (Faultless => Straight) => (Faultless => ~disturbed)  BY DEF Straight
<1> QED  BY <1>1, FaultlessIsStraight, PTL

\* Without failures and lost keys, whenever nobody writes Redis has the whole
\* timeline, though nothing ties the two databases together.
THEOREM RedisCatchesUp ==
  Spec => [](Faultless /\ (\A p \in Post : ~Writing(p)) => cached = Stored)
<1>1. IInv /\ (Faultless => Straight) =>
        (Faultless /\ (\A p \in Post : ~Writing(p)) => cached = Stored)
  <2> SUFFICES ASSUME IInv, Straight, \A p \in Post : ~Writing(p)
               PROVE  cached = Stored
    OBVIOUS
  <2>1. cached \subseteq Stored  BY DEF IInv, Sound, CacheGood, Straight
  <2>2. Stored \subseteq Post  BY DEF IInv, TypeOK, Stored
  <2>3. Stored \subseteq cached  BY <2>2 DEF Straight, Writing
  <2> QED  BY <2>1, <2>3
<1> QED  BY <1>1, FaultlessIsStraight, Invariance, PTL
=============================================================================
