-------------------------- MODULE SocialGraphProofs --------------------------
(***************************************************************************)
(* Proofs about SocialGraph, for any users, calls, readers and bounds.     *)
(*                                                                         *)
(* CopiesAgree speaks of edges at rest; the invariant follows an edge that *)
(* is not disturbed through its call: the call has the edge to itself, no  *)
(* future of it has thrown, and a copy that it does not have to write any  *)
(* more says what the call wants.                                          *)
(***************************************************************************)
EXTENDS SocialGraph, TLAPS

On(e) == {c \in Call : EdgeOf[c] = e /\ Active(c)}

FollowsCall(e) ==
  /\ \A c, o \in On(e) : c = o
  /\ \A c \in On(e) : /\ lost[c] = {}
                      /\ e \in wanted <=> Kind[c] = "follow"
                      /\ {e[1], e[2]} \subseteq inserted
  /\ \A s \in Sides :
       /\ (\A c \in On(e) : <<"mongo", s>> \notin todo[c]) =>
            (e \in In(s) <=> e \in wanted)
       /\ (\A c \in On(e) : <<"redis", s>> \notin todo[c]) =>
            (e \in cached[s] <=> e \in wanted) \/ Gone(s, e)

\* What an array lists is in a document.
HasDocument == \A s \in Sides, e \in Edge : entries[s][e] > 0 => Key(s, e) \in inserted

IdleDoesNothing == \A c \in Call : state[c] = "idle" => todo[c] = {} /\ lost[c] = {}

\* The edges a reader may rely on have no active call, and its answer has them
\* right as soon as it has one.
ReaderKnows(d) ==
  LET a == asking[d] IN
    /\ a.steady \subseteq Steady
    /\ a.answer \subseteq Under(a.side, a.user)
    /\ a.phase = "missed" => a.answer = {}
    /\ a.phase \in {"filling", "answered"} =>
         \A e \in (a.steady \intersect Under(a.side, a.user)) \ disturbed :
           e \in a.answer <=> e \in wanted

IInv ==
  /\ TypeOK
  /\ ListedOnce
  /\ HasDocument
  /\ IdleDoesNothing
  /\ \A e \in Edge \ disturbed : FollowsCall(e)
  /\ \A d \in Reader : ReaderKnows(d)

-----------------------------------------------------------------------------
LEMMA InitIInv == Init => IInv
<1> SUFFICES ASSUME Init PROVE IInv  OBVIOUS
<1> USE GraphAssumption
<1>0. Followed \subseteq Edge  BY DEF Edge
<1>1. TypeOK
  <2>1. NotAsking \in Asking
    <3>1. (CHOOSE u \in User : TRUE) \in User  OBVIOUS
    <3> QED  BY <3>1 DEF NotAsking, Asking, Sides
  <2>2. entries \in [Sides -> [Edge -> Nat]]  BY DEF Init
  <2> QED  BY <1>0, <2>1, <2>2 DEF Init, TypeOK
<1>2. ListedOnce /\ HasDocument  BY DEF Init, ListedOnce, HasDocument, Key
<1>3. IdleDoesNothing  BY DEF Init, IdleDoesNothing
<1>4. \A e \in Edge \ disturbed : FollowsCall(e)
  <2>1. \A s \in Sides : In(s) = Followed
    <3> TAKE s \in Sides
    <3>1. \A e \in Edge : entries[s][e] = IF e \in Followed THEN 1 ELSE 0  BY DEF Init
    <3> QED  BY <1>0, <3>1 DEF In
  <2> QED  BY <2>1 DEF Init, FollowsCall, On, Active
<1>5. \A d \in Reader : ReaderKnows(d)
  BY DEF Init, ReaderKnows, NotAsking
<1> QED  BY <1>1, <1>2, <1>3, <1>4, <1>5 DEF IInv

LEMMA TypeKept ==
  ASSUME IInv, [Next]_vars  PROVE TypeOK'
<1> USE GraphAssumption DEF TypeOK, dbVars, boundVars, historyVars
<1>0. TypeOK  BY DEF IInv
<1>1. ASSUME NEW u \in User, InsertUser(u)  PROVE TypeOK'
  BY <1>0, <1>1 DEF InsertUser
<1>2. ASSUME NEW c \in Call, Follow(c) \/ Unfollow(c)  PROVE TypeOK'
  <2>1. EdgeOf[c] \in Edge  OBVIOUS
  <2>2. wanted' \subseteq Edge  BY <1>0, <1>2, <2>1 DEF Follow, Unfollow
  <2>3. Launch(c)  BY <1>2 DEF Follow, Unfollow
  <2>4. disturbed' \subseteq Edge  BY <1>0, <2>1, <2>3 DEF Launch
  <2>5. asking' \in [Reader -> Asking]
    BY <1>0, <2>3 DEF Launch, Asking
  <2> QED  BY <1>0, <2>2, <2>3, <2>4, <2>5 DEF Launch
<1>3. ASSUME NEW c \in Call, NEW s \in Sides, MongoWrite(c, s)  PROVE TypeOK'
  <2>1. EdgeOf[c] \in Edge  OBVIOUS
  <2>2. Modified(c, s) \in Nat  BY <1>0, <2>1 DEF Modified
  <2>3. entries' \in [Sides -> [Edge -> Nat]]
    BY <1>0, <1>3, <2>1, <2>2 DEF MongoWrite
  <2> QED  BY <1>0, <1>3, <2>3 DEF MongoWrite
<1>4. ASSUME NEW c \in Call, NEW s \in Sides, RedisWrite(c, s)  PROVE TypeOK'
  <2>1. EdgeOf[c] \in Edge  OBVIOUS
  <2>2. Omitted(s, Key(s, EdgeOf[c]), {EdgeOf[c]}) \subseteq Edge
    BY <1>0 DEF Omitted
  <2>3. cached' \in [Sides -> SUBSET Edge] /\ disturbed' \subseteq Edge
    BY <1>0, <1>4, <2>1, <2>2 DEF RedisWrite, Zadd, Zrem
  <2> QED  BY <1>0, <1>4, <2>3 DEF RedisWrite
<1>5. ASSUME NEW c \in Call, Return(c)  PROVE TypeOK'
  BY <1>0, <1>5 DEF Return
<1>6. ASSUME NEW c \in Call, FutureThrows(c)  PROVE TypeOK'
  <2>1. EdgeOf[c] \in Edge  OBVIOUS
  <2>2. \A f \in Futures : f \subseteq Writes  BY DEF Futures, Writes, Sides
  <2>3. lost' \in [Call -> SUBSET Writes]  BY <1>0, <1>6, <2>2 DEF FutureThrows
  <2> QED  BY <1>0, <1>6, <2>1, <2>3 DEF FutureThrows
<1>7. ASSUME NEW c \in Call, WriteVanishes(c)  PROVE TypeOK'
  BY <1>0, <1>7 DEF WriteVanishes
<1>8. ASSUME NEW d \in Reader, NEW s \in Sides, NEW u \in User, AskRedis(d, s, u)
      PROVE  TypeOK'
  <2>1. cached[s] \intersect Under(s, u) \subseteq Edge  BY <1>0
  <2>2. Steady \subseteq Edge  BY DEF Steady
  <2>3. asking' \in [Reader -> Asking]
    BY <1>0, <1>8, <2>1, <2>2 DEF AskRedis, Asking
  <2> QED  BY <1>0, <1>8, <2>3 DEF AskRedis
<1>9. ASSUME NEW d \in Reader, FindDocument(d)  PROVE TypeOK'
  <2>1. In(asking[d].side) \intersect Under(asking[d].side, asking[d].user) \subseteq Edge
    BY DEF In
  <2>2. asking[d] \in Asking  BY <1>0
  <2>3. asking'[d] \in Asking  BY <1>0, <1>9, <2>1, <2>2 DEF FindDocument, Finds, Asking
  <2>4. asking' \in [Reader -> Asking]  BY <1>0, <1>9, <2>3 DEF FindDocument, Finds
  <2> QED  BY <1>0, <1>9, <2>4 DEF FindDocument
<1>10. ASSUME NEW d \in Reader, Fill(d)  PROVE TypeOK'
  <2>1. /\ Ghosts(d) \subseteq Edge /\ asking[d].answer \subseteq Edge
        /\ Omitted(asking[d].side, asking[d].user, asking[d].answer) \subseteq Edge
    BY <1>0 DEF Ghosts, Omitted, Asking
  <2>2. asking' \in [Reader -> Asking]  BY <1>0, <1>10 DEF Fill, Asking
  <2>3. asking[d].side \in Sides  BY <1>0 DEF Asking
  <2> QED  BY <1>0, <1>10, <2>1, <2>2, <2>3 DEF Fill
<1>11. ASSUME NEW d \in Reader, FindNothing(d) \/ FindFails(d) \/ AskThrows(d) \/ FillThrows(d)
       PROVE  TypeOK'
  <2>1. asking' \in [Reader -> Asking]
    <3>1. CASE FindNothing(d)  BY <1>0, <3>1 DEF FindNothing, NotFound, Asking
    <3>2. CASE FindFails(d)
      <4>1. asking'[d] \in Asking  BY <1>0, <3>2 DEF FindFails, NotFound, Asking
      <4> QED  BY <1>0, <3>2, <4>1 DEF FindFails
    <3>3. CASE AskThrows(d) \/ FillThrows(d)
      <4>1. asking'[d] \in Asking
        <5>1. asking[d] \in Asking  BY <1>0
        <5>2. asking'[d] = [asking[d] EXCEPT !.phase = "failed"]
          BY <1>0, <3>3 DEF AskThrows, FillThrows
        <5> QED  BY <5>1, <5>2 DEF Asking
      <4> QED  BY <1>0, <3>3, <4>1 DEF AskThrows, FillThrows
    <3> QED  BY <1>11, <3>1, <3>2, <3>3
  <2>2. failures' \in 0..MaxFailures
    BY <1>0, <1>11 DEF FindNothing, FindFails, AskThrows, FillThrows, Fails
  <2> QED
    BY <1>0, <1>11, <2>1, <2>2 DEF FindNothing, FindFails, AskThrows, FillThrows
<1>12. ASSUME NEW s \in Sides, NEW u \in User, LoseKey(s, u)  PROVE TypeOK'
  <2>1. Under(s, u) \subseteq Edge  BY DEF Under
  <2> QED  BY <1>0, <1>12, <2>1 DEF LoseKey
<1>13. CASE UNCHANGED vars  BY <1>0, <1>13 DEF vars
<1> QED
  BY <1>1, <1>2, <1>3, <1>4, <1>5, <1>6, <1>7, <1>8, <1>9, <1>10, <1>11,
     <1>12, <1>13 DEF Next, CallStep, ReaderStep

\* Only MongoWrite changes the arrays, and it leaves no entry twice.
LEMMA ListedOnceKept ==
  ASSUME IInv, [Next]_vars  PROVE ListedOnce' /\ HasDocument'
<1> USE GraphAssumption DEF dbVars
<1>0. TypeOK /\ ListedOnce /\ HasDocument  BY DEF IInv
<1>1. ASSUME NEW c \in Call, NEW s \in Sides, MongoWrite(c, s)
      PROVE  ListedOnce' /\ HasDocument'
  <2>1. EdgeOf[c] \in Edge  OBVIOUS
  <2>2. Modified(c, s) <= 1  BY <1>0, <2>1 DEF Modified, ListedOnce, TypeOK
  <2>3. ListedOnce'  BY <1>0, <1>1, <2>1, <2>2 DEF MongoWrite, ListedOnce, TypeOK
  <2>4. HasDocument'  BY <1>0, <1>1, <2>1 DEF MongoWrite, HasDocument, Key, TypeOK
  <2> QED  BY <2>3, <2>4
<1>2. CASE UNCHANGED entries /\ inserted \subseteq inserted'
  BY <1>0, <1>2 DEF ListedOnce, HasDocument, Key
<1>3. ASSUME NEW c \in Call, Follow(c) \/ Unfollow(c) \/ Return(c)
                             \/ FutureThrows(c) \/ WriteVanishes(c)
      PROVE  UNCHANGED entries /\ inserted \subseteq inserted'
  BY <1>3 DEF Follow, Unfollow, Launch, Return, FutureThrows, WriteVanishes
<1>4. ASSUME NEW c \in Call, NEW s \in Sides, RedisWrite(c, s)
      PROVE  UNCHANGED entries /\ inserted \subseteq inserted'
  BY <1>4 DEF RedisWrite
<1>5. ASSUME NEW d \in Reader, NEW s \in Sides, NEW u \in User, AskRedis(d, s, u)
      PROVE  UNCHANGED entries /\ inserted \subseteq inserted'
  BY <1>5 DEF AskRedis
<1>6. ASSUME NEW d \in Reader, ReaderStep(d)  PROVE UNCHANGED entries /\ inserted \subseteq inserted'
  BY <1>6 DEF ReaderStep, AskRedis, FindDocument, FindNothing, FindFails, AskThrows, Fill, FillThrows
<1>7. ASSUME NEW s \in Sides, NEW u \in User, InsertUser(u) \/ LoseKey(s, u)
      PROVE  UNCHANGED entries /\ inserted \subseteq inserted'
  BY <1>7 DEF InsertUser, LoseKey
<1>8. Sides # {}  BY DEF Sides
<1>9. CASE UNCHANGED vars  BY <1>2, <1>9 DEF vars
<1> QED
  BY <1>1, <1>2, <1>3, <1>4, <1>5, <1>6, <1>7, <1>8, <1>9 DEF Next, CallStep

LEMMA IdleKept ==
  ASSUME IInv, [Next]_vars  PROVE IdleDoesNothing'
<1> USE GraphAssumption DEF IdleDoesNothing, TypeOK, dbVars
<1>0. TypeOK /\ IdleDoesNothing  BY DEF IInv
<1>1. ASSUME NEW c \in Call, Follow(c) \/ Unfollow(c)  PROVE IdleDoesNothing'
  BY <1>0, <1>1 DEF Follow, Unfollow, Launch
<1>2. ASSUME NEW c \in Call, NEW s \in Sides, MongoWrite(c, s) \/ RedisWrite(c, s)
      PROVE  IdleDoesNothing'
  BY <1>0, <1>2 DEF MongoWrite, RedisWrite
<1>3. ASSUME NEW c \in Call, Return(c)  PROVE IdleDoesNothing'
  BY <1>0, <1>3 DEF Return
<1>4. ASSUME NEW c \in Call, FutureThrows(c)  PROVE IdleDoesNothing'
  BY <1>0, <1>4 DEF FutureThrows
<1>5. ASSUME NEW c \in Call, WriteVanishes(c)  PROVE IdleDoesNothing'
  BY <1>0, <1>5 DEF WriteVanishes
<1>6. CASE UNCHANGED <<state, todo, lost>>  BY <1>0, <1>6
<1>7. ASSUME NEW d \in Reader, NEW s \in Sides, NEW u \in User, AskRedis(d, s, u)
      PROVE  UNCHANGED <<state, todo, lost>>
  BY <1>7 DEF AskRedis
<1>8. ASSUME NEW d \in Reader, ReaderStep(d)  PROVE UNCHANGED <<state, todo, lost>>
  BY <1>8 DEF ReaderStep, AskRedis, FindDocument, FindNothing, FindFails, AskThrows, Fill, FillThrows
<1>9. ASSUME NEW s \in Sides, NEW u \in User, InsertUser(u) \/ LoseKey(s, u)
      PROVE  UNCHANGED <<state, todo, lost>>
  BY <1>9 DEF InsertUser, LoseKey
<1>10. Sides # {}  BY DEF Sides
<1>11. CASE UNCHANGED vars  BY <1>6, <1>11 DEF vars
<1> QED
  BY <1>1, <1>2, <1>3, <1>4, <1>5, <1>6, <1>7, <1>8, <1>9, <1>10, <1>11
     DEF Next, CallStep


\* A step after which the calls on e are as before keeps what is known of e,
\* if it adds no disturbance silently and leaves the copies of e alone.
LEMMA EdgeAlone ==
  ASSUME NEW e \in Edge, FollowsCall(e),
         \A c \in Call : EdgeOf[c] = e =>
           /\ state'[c] = state[c] /\ todo'[c] = todo[c] /\ lost'[c] = lost[c],
         e \in wanted' <=> e \in wanted,
         inserted \subseteq inserted',
         \A s \in Sides : /\ entries'[s][e] = entries[s][e]
                          /\ e \in cached'[s] <=> e \in cached[s]
                          /\ /\ Gone(s, e) /\ e \in wanted
                             /\ \A c \in On(e) : <<"redis", s>> \notin todo[c]
                             => Gone(s, e)'
  PROVE  FollowsCall(e)'
<1>1. On(e)' = On(e)  BY DEF On, Active
<1>2. \A c \in On(e) : todo'[c] = todo[c] /\ lost'[c] = lost[c]  BY DEF On
<1>3. \A s \in Sides : e \in In(s)' <=> e \in In(s)  BY DEF In
<1>4. ASSUME NEW s \in Sides, \A c \in On(e) : <<"redis", s>> \notin todo[c]
      PROVE  (e \in cached'[s] <=> e \in wanted') \/ Gone(s, e)'
  <2>1. (e \in cached[s] <=> e \in wanted) \/ Gone(s, e)  BY <1>4 DEF FollowsCall
  <2>2. Gone(s, e) => e \notin cached[s]  BY DEF Gone, Under
  <2> QED  BY <1>4, <2>1, <2>2
<1> QED  BY <1>1, <1>2, <1>3, <1>4 DEF FollowsCall

LEMMA EdgeFollowsCall ==
  ASSUME IInv, [Next]_vars, NEW e \in Edge \ disturbed'
  PROVE  FollowsCall(e)'
<1> USE GraphAssumption DEF dbVars, boundVars, historyVars
<1>0. /\ TypeOK /\ ListedOnce /\ IdleDoesNothing
      /\ e \in Edge
      /\ e \notin disturbed => FollowsCall(e)
  BY DEF IInv
<1>1. ASSUME NEW u \in User, InsertUser(u)  PROVE FollowsCall(e)'
  BY <1>0, <1>1, EdgeAlone DEF InsertUser, Gone
<1>2. ASSUME NEW q \in Call, Follow(q) \/ Unfollow(q)  PROVE FollowsCall(e)'
  <2>0. Launch(q)  BY <1>2 DEF Follow, Unfollow
  <2>1. CASE EdgeOf[q] # e
    <3>1. e \notin disturbed  BY <2>0, <2>1 DEF Launch
    <3>2. e \in wanted' <=> e \in wanted  BY <1>2, <2>1 DEF Follow, Unfollow
    <3> QED  BY <1>0, <2>0, <2>1, <3>1, <3>2, EdgeAlone DEF Launch, TypeOK, Gone
  <2>2. CASE EdgeOf[q] = e
    <3>1. Alone(q) /\ {e[1], e[2]} \subseteq inserted
      BY <2>0, <2>2 DEF Launch
    <3>2. /\ state'[q] = "running"
          /\ todo'[q] = Writes
          /\ lost'[q] = {}
          /\ \A o \in Call \ {q} : state'[o] = state[o] /\ todo'[o] = todo[o]
          /\ inserted' = inserted
      BY <1>0, <2>0 DEF Launch, TypeOK, IdleDoesNothing
    <3>3. On(e)' = {q}
      BY <2>2, <3>1, <3>2 DEF On, Active, Alone
    <3>4. e \in wanted' <=> Kind[q] = "follow"
      BY <1>2, <2>2 DEF Follow, Unfollow
    <3>5. \A s \in Sides : <<"mongo", s>> \in Writes /\ <<"redis", s>> \in Writes
      BY DEF Writes
    <3> QED  BY <3>1, <3>2, <3>3, <3>4, <3>5 DEF FollowsCall
  <2> QED  BY <2>1, <2>2
<1>3. ASSUME NEW q \in Call, NEW z \in Sides, MongoWrite(q, z)  PROVE FollowsCall(e)'
  <2>0. FollowsCall(e)  BY <1>0, <1>3 DEF MongoWrite
  <2>1. CASE EdgeOf[q] # e
    <3>1. \A s \in Sides : entries'[s][e] = entries[s][e]
      <4>1. CASE UNCHANGED entries  BY <4>1
      <4>2. CASE entries' = [entries EXCEPT ![z][EdgeOf[q]] = Modified(q, z)]
        BY <1>0, <2>1, <4>2 DEF TypeOK
      <4> QED  BY <1>3, <4>1, <4>2 DEF MongoWrite
    <3>2. /\ UNCHANGED <<inserted, state, lost, cached, losses, wanted>>
          /\ \A c \in Call \ {q} : todo'[c] = todo[c]
      BY <1>0, <1>3 DEF MongoWrite, TypeOK
    <3> QED  BY <2>0, <2>1, <3>1, <3>2, EdgeAlone DEF Gone
  <2>2. CASE EdgeOf[q] = e
    <3>1. q \in On(e)  BY <1>3, <2>2 DEF MongoWrite, On, Active
    <3>2. /\ On(e) = {q}
          /\ lost[q] = {}
          /\ e \in wanted <=> Kind[q] = "follow"
          /\ Key(z, e) \in inserted
      BY <2>0, <3>1 DEF FollowsCall, Key
    <3>3. /\ entries' = [entries EXCEPT ![z][e] = Modified(q, z)]
          /\ todo' = [todo EXCEPT ![q] = @ \ {<<"mongo", z>>}]
          /\ UNCHANGED <<inserted, state, lost, cached, losses, wanted>>
      BY <1>3, <2>2, <3>2 DEF MongoWrite
    <3>4. On(e)' \subseteq {q}
      BY <1>0, <3>2, <3>3 DEF On, Active, TypeOK
    <3>5. Modified(q, z) > 0 <=> Kind[q] = "follow"
      BY <1>0, <2>2 DEF Modified, TypeOK
    <3>6. \A s \in Sides : entries'[s][e] = IF s = z THEN Modified(q, z) ELSE entries[s][e]
      BY <1>0, <3>3 DEF TypeOK
    <3>7. e \in In(z)' <=> e \in wanted
      BY <3>2, <3>5, <3>6 DEF In
    <3>8. \A s \in Sides \ {z} : e \in In(s)' <=> e \in In(s)
      BY <3>6 DEF In
    <3>9. \A w : w # <<"mongo", z>> => (w \in todo'[q] <=> w \in todo[q])
      BY <1>0, <3>3 DEF TypeOK
    <3>10. \A s \in Sides : <<"redis", s>> # <<"mongo", z>>  OBVIOUS
    <3>11. state'[q] = "running" \/ todo'[q] # {} => q \in On(e)'
      BY <2>2 DEF On, Active
    <3>12. ASSUME NEW s \in Sides,
                  \A c \in On(e)' : <<"mongo", s>> \notin todo'[c]
           PROVE  e \in In(s)' <=> e \in wanted
      <4>1. CASE s = z  BY <3>7, <4>1
      <4>2. CASE s # z
        <5>1. <<"mongo", s>> \notin todo[q]
          BY <3>9, <3>11, <3>12, <4>2
        <5> QED  BY <2>0, <3>2, <3>8, <4>2, <5>1 DEF FollowsCall
      <4> QED  BY <4>1, <4>2
    <3>13. ASSUME NEW s \in Sides,
                  \A c \in On(e)' : <<"redis", s>> \notin todo'[c]
           PROVE  (e \in cached[s] <=> e \in wanted) \/ Gone(s, e)
      <4>1. <<"redis", s>> \notin todo[q]
        BY <3>9, <3>10, <3>11, <3>13
      <4> QED  BY <2>0, <3>2, <4>1 DEF FollowsCall
    <3>14. \A s \in Sides : Gone(s, e)' <=> Gone(s, e)  BY <3>3 DEF Gone
    <3> QED  BY <2>0, <3>2, <3>3, <3>4, <3>12, <3>13, <3>14 DEF FollowsCall
  <2> QED  BY <2>1, <2>2
<1>4. ASSUME NEW q \in Call, NEW z \in Sides, RedisWrite(q, z)  PROVE FollowsCall(e)'
  <2>0. /\ FollowsCall(e)
        /\ UNCHANGED <<inserted, state, lost, entries, losses, wanted>>
        /\ todo' = [todo EXCEPT ![q] = @ \ {<<"redis", z>>}]
        /\ <<"redis", z>> \in todo[q]
    BY <1>0, <1>4 DEF RedisWrite, Zadd, Zrem
  <2>c. \/ /\ Kind[q] = "follow"
           /\ cached' = [cached EXCEPT ![z] = @ \union {EdgeOf[q]}]
           /\ e \notin Omitted(z, Key(z, EdgeOf[q]), {EdgeOf[q]})
        \/ /\ Kind[q] # "follow"
           /\ cached' = [cached EXCEPT ![z] = @ \ {EdgeOf[q]}]
    BY <1>4 DEF RedisWrite, Zadd, Zrem
  <2>1. CASE EdgeOf[q] # e
    <3>1. \A s \in Sides : e \in cached'[s] <=> e \in cached[s]
      BY <1>0, <2>c, <2>1 DEF TypeOK
    <3>2. ASSUME NEW s \in Sides, Gone(s, e), e \in wanted,
                 \A c \in On(e) : <<"redis", s>> \notin todo[c]
          PROVE  Gone(s, e)'
      <4>1. CASE s # z \/ Kind[q] # "follow"
        <5>1. cached'[s] \subseteq cached[s]  BY <1>0, <2>c, <4>1 DEF TypeOK
        <5> QED  BY <2>0, <3>2, <5>1 DEF Gone
      <4>2. CASE s = z /\ Kind[q] = "follow"
        <5>1. \A c \in Call : EdgeOf[c] = e => <<"redis", z>> \notin todo[c]
          BY <3>2, <4>2 DEF On, Active
        <5>2. e \in Under(z, Key(z, e)) /\ e \notin cached[z]
          BY <1>0, <3>2, <4>2 DEF Gone, Under
        <5>3. Key(z, EdgeOf[q]) # Key(z, e)
          BY <1>0, <2>c, <2>1, <3>2, <4>2, <5>1, <5>2 DEF Omitted
        <5>4. EdgeOf[q] \notin Under(z, Key(z, e))  BY <5>3 DEF Under
        <5>5. cached'[z] = cached[z] \union {EdgeOf[q]}  BY <1>0, <2>c, <4>2 DEF TypeOK
        <5> QED  BY <2>0, <3>2, <4>2, <5>4, <5>5 DEF Gone
      <4> QED  BY <4>1, <4>2
    <3>3. \A c \in Call : EdgeOf[c] = e => todo'[c] = todo[c]
      BY <1>0, <2>0, <2>1 DEF TypeOK
    <3> QED  BY <1>0, <2>0, <3>1, <3>2, <3>3, EdgeAlone
  <2>2. CASE EdgeOf[q] = e
    <3>1. q \in On(e)  BY <2>0, <2>2 DEF On, Active
    <3>2. /\ On(e) = {q}
          /\ lost[q] = {}
          /\ e \in wanted <=> Kind[q] = "follow"
      BY <2>0, <3>1 DEF FollowsCall
    <3>4. On(e)' \subseteq {q}
      BY <1>0, <2>0, <3>2 DEF On, Active, TypeOK
    <3>5. /\ e \in cached'[z] <=> e \in wanted
          /\ \A s \in Sides \ {z} : cached'[s] = cached[s] /\ (Gone(s, e) => Gone(s, e)')
      BY <1>0, <2>0, <2>2, <2>c, <3>2 DEF TypeOK, Gone
    <3>6. \A s \in Sides : In(s)' = In(s)  BY <2>0 DEF In
    <3>7. \A w : w # <<"redis", z>> => (w \in todo'[q] <=> w \in todo[q])
      BY <1>0, <2>0 DEF TypeOK
    <3>8. todo'[q] # {} => q \in On(e)'
      BY <2>2 DEF On, Active
    <3>9. ASSUME NEW s \in Sides,
                 \A c \in On(e)' : <<"mongo", s>> \notin todo'[c]
          PROVE  e \in In(s)' <=> e \in wanted
      <4>1. <<"mongo", s>> \notin todo[q]  BY <3>7, <3>8, <3>9
      <4> QED  BY <2>0, <3>2, <3>6, <4>1 DEF FollowsCall
    <3>10. ASSUME NEW s \in Sides,
                  \A c \in On(e)' : <<"redis", s>> \notin todo'[c]
           PROVE  (e \in cached'[s] <=> e \in wanted) \/ Gone(s, e)'
      <4>1. CASE s = z  BY <3>5, <4>1
      <4>2. CASE s # z
        <5>1. <<"redis", s>> \notin todo[q]  BY <3>7, <3>8, <3>10, <4>2
        <5> QED  BY <2>0, <3>2, <3>5, <4>2, <5>1 DEF FollowsCall
      <4> QED  BY <4>1, <4>2
    <3> QED  BY <2>0, <3>2, <3>4, <3>9, <3>10 DEF FollowsCall
  <2> QED  BY <2>1, <2>2
<1>5. ASSUME NEW q \in Call, Return(q)  PROVE FollowsCall(e)'
  <2>0. FollowsCall(e)  BY <1>0, <1>5 DEF Return
  <2>1. CASE EdgeOf[q] # e
    BY <1>0, <1>5, <2>0, <2>1, EdgeAlone DEF Return, TypeOK, Gone
  <2>2. CASE EdgeOf[q] = e
    <3>1. q \in On(e)  BY <1>5, <2>2 DEF Return, On, Active
    <3>2. On(e) = {q} /\ todo[q] = {}
      BY <1>5, <2>0, <3>1 DEF FollowsCall, Return
    <3>3. /\ On(e)' = {}
          /\ \A s \in Sides : /\ In(s)' = In(s) /\ cached'[s] = cached[s]
                              /\ Gone(s, e)' <=> Gone(s, e)
          /\ wanted' = wanted
      BY <1>0, <1>5, <3>2 DEF On, Active, Return, In, Gone, TypeOK
    <3>4. \A s \in Sides : /\ e \in In(s) <=> e \in wanted
                           /\ (e \in cached[s] <=> e \in wanted) \/ Gone(s, e)
      <4>1. \A c \in On(e) : \A w : w \notin todo[c]  BY <3>2
      <4> QED  BY <2>0, <4>1 DEF FollowsCall
    <3> QED  BY <3>3, <3>4 DEF FollowsCall
  <2> QED  BY <2>1, <2>2
<1>6. ASSUME NEW q \in Call, FutureThrows(q)  PROVE FollowsCall(e)'
  BY <1>0, <1>6, EdgeAlone DEF FutureThrows, TypeOK, Gone
<1>7. ASSUME NEW q \in Call, WriteVanishes(q)  PROVE FollowsCall(e)'
  <2>0. FollowsCall(e)  BY <1>0, <1>7 DEF WriteVanishes
  <2>1. EdgeOf[q] # e
    BY <1>7, <2>0 DEF WriteVanishes, FollowsCall, On, Active
  <2> QED  BY <1>0, <1>7, <2>0, <2>1, EdgeAlone DEF WriteVanishes, TypeOK, Gone
<1>8. CASE UNCHANGED <<inserted, state, todo, lost, entries, cached, losses, wanted, disturbed>>
  BY <1>0, <1>8, EdgeAlone DEF Gone
<1>9. ASSUME NEW d \in Reader, NEW s \in Sides, NEW u \in User, AskRedis(d, s, u)
      PROVE  FollowsCall(e)'
  BY <1>8, <1>9 DEF AskRedis
<1>10. ASSUME NEW d \in Reader,
              FindDocument(d) \/ FindNothing(d) \/ FindFails(d) \/ AskThrows(d) \/ FillThrows(d)
       PROVE  FollowsCall(e)'
  BY <1>8, <1>10 DEF FindDocument, FindNothing, FindFails, AskThrows, FillThrows
<1>11. ASSUME NEW d \in Reader, Fill(d)  PROVE FollowsCall(e)'
  <2> DEFINE z == asking[d].side
  <2>0. /\ FollowsCall(e) /\ e \notin disturbed
        /\ e \notin Ghosts(d)
        /\ e \in Omitted(z, asking[d].user, asking[d].answer) => e \in asking[d].steady
        /\ UNCHANGED <<inserted, state, todo, lost, entries, losses, wanted>>
    BY <1>0, <1>11 DEF Fill
  <2>1. \A s \in Sides :
          /\ s = z => cached'[s] = cached[s] \union asking[d].answer
          /\ s # z => cached'[s] = cached[s]
    BY <1>0, <1>11 DEF Fill, TypeOK
  <2>3. z \in Sides /\ ReaderKnows(d) /\ asking[d].phase = "filling"
    BY <1>0, <1>11 DEF IInv, TypeOK, Asking, Fill
  <2>4. CASE e \notin asking[d].answer
    <3>1. ASSUME NEW s \in Sides, Gone(s, e), e \in wanted,
                 \A c \in On(e) : <<"redis", s>> \notin todo[c]
          PROVE  Gone(s, e)'
      <4>1. CASE s # z  BY <2>0, <2>1, <3>1, <4>1 DEF Gone
      <4>2. CASE s = z
        <5>1. \A c \in Call : EdgeOf[c] = e => <<"redis", z>> \notin todo[c]
          BY <3>1, <4>2 DEF On, Active
        <5>2. e \notin cached[z]
          BY <1>0, <3>1, <4>2 DEF Gone, Under
        <5>3. Key(z, e) # asking[d].user
          <6>1. SUFFICES ASSUME Key(z, e) = asking[d].user  PROVE FALSE
            OBVIOUS
          <6>2. e \in Under(z, asking[d].user)  BY <1>0, <6>1 DEF Under
          <6>3. e \in Omitted(z, asking[d].user, asking[d].answer)
            BY <1>0, <2>4, <3>1, <5>1, <5>2, <6>2 DEF Omitted
          <6>4. e \in asking[d].answer
            BY <1>0, <2>0, <2>3, <3>1, <6>2, <6>3 DEF ReaderKnows
          <6> QED  BY <2>4, <6>4
        <5>4. asking[d].answer \intersect Under(z, Key(z, e)) = {}
          BY <2>3, <5>3 DEF ReaderKnows, Under
        <5> QED  BY <2>0, <2>1, <2>3, <3>1, <4>2, <5>4 DEF Gone
      <4> QED  BY <4>1, <4>2
    <3>2. \A s \in Sides : e \in cached'[s] <=> e \in cached[s]  BY <2>1, <2>4
    <3> QED  BY <1>0, <2>0, <3>1, <3>2, EdgeAlone
  <2>5. CASE e \in asking[d].answer
    <3>1. e \in In(z) /\ \A c \in Call : EdgeOf[c] = e /\ Kind[c] = "unfollow" /\ Active(c)
                                       => <<"redis", z>> \in todo[c]
      BY <2>0, <2>5 DEF Ghosts
    <3>2. On(e)' = On(e) /\ \A s \in Sides : In(s)' = In(s)
      BY <2>0 DEF On, Active, In
    <3>4. ASSUME \A c \in On(e) : <<"redis", z>> \notin todo[c]
          PROVE  e \in wanted
      <4>1. CASE On(e) = {}  BY <2>0, <2>3, <3>1, <4>1 DEF FollowsCall
      <4>2. ASSUME NEW c \in On(e)  PROVE e \in wanted
        BY <2>0, <3>1, <3>4, <4>2 DEF FollowsCall, On
      <4> QED  BY <4>1, <4>2
    <3>5. ASSUME NEW s \in Sides, \A c \in On(e) : <<"redis", s>> \notin todo[c]
          PROVE  (e \in cached'[s] <=> e \in wanted) \/ Gone(s, e)'
      <4>1. CASE s = z  BY <2>1, <2>5, <3>4, <3>5, <4>1
      <4>2. CASE s # z
        <5>1. Gone(s, e) => Gone(s, e)'  BY <2>0, <2>1, <4>2 DEF Gone
        <5> QED  BY <2>0, <2>1, <3>5, <4>2, <5>1 DEF FollowsCall
      <4> QED  BY <4>1, <4>2
    <3> QED  BY <2>0, <3>2, <3>5 DEF FollowsCall
  <2> QED  BY <2>4, <2>5
<1>12. ASSUME NEW s \in Sides, NEW u \in User, LoseKey(s, u)  PROVE FollowsCall(e)'
  <2>1. /\ FollowsCall(e)
        /\ UNCHANGED <<inserted, state, todo, lost, entries, wanted>>
        /\ losses' > 0
        /\ \A z \in Sides : cached'[z] = IF z = s THEN cached[z] \ Under(s, u) ELSE cached[z]
    <3>1. losses' > 0  BY <1>0, <1>12 DEF LoseKey, TypeOK
    <3>2. \A z \in Sides : cached'[z] = IF z = s THEN cached[z] \ Under(s, u) ELSE cached[z]
      BY <1>0, <1>12 DEF LoseKey, TypeOK
    <3> QED  BY <1>0, <1>12, <3>1, <3>2 DEF LoseKey
  <2>2. \A z \in Sides : Gone(z, e) => Gone(z, e)'
    BY <2>1 DEF Gone
  <2>3. CASE e \notin Under(s, u)
    BY <1>0, <2>1, <2>2, <2>3, EdgeAlone
  <2>4. CASE e \in Under(s, u)
    <3>1. Gone(s, e)'  BY <2>1, <2>4 DEF Gone, Under
    <3>2. On(e)' = On(e) /\ \A z \in Sides : In(z)' = In(z)
      BY <2>1 DEF On, Active, In
    <3>3. \A z \in Sides : z # s => cached'[z] = cached[z]  BY <2>1
    <3> QED  BY <2>1, <2>2, <3>1, <3>2, <3>3 DEF FollowsCall
  <2> QED  BY <2>3, <2>4
<1>13. CASE UNCHANGED vars  BY <1>8, <1>13 DEF vars
<1> QED
  BY <1>1, <1>2, <1>3, <1>4, <1>5, <1>6, <1>7, <1>9, <1>10, <1>11, <1>12, <1>13
     DEF Next, CallStep, ReaderStep

\* Only a launch makes a call active, and only a return, a write or a
\* vanished write can make it less so.
LEMMA SteadyGrows ==
  ASSUME IInv, [Next]_vars, NEW e \in Steady,
         \A c \in Call : EdgeOf[c] = e => ~Follow(c) /\ ~Unfollow(c)
  PROVE  e \in Steady' /\ (e \in wanted' <=> e \in wanted)
<1> USE GraphAssumption DEF dbVars, historyVars
<1>0. /\ TypeOK /\ e \in Edge
      /\ \A c \in Call : EdgeOf[c] = e => state[c] # "running" /\ todo[c] = {}
  BY DEF IInv, Steady, Active
<1> SUFFICES /\ \A c \in Call : EdgeOf[c] = e => state'[c] # "running" /\ todo'[c] = {}
             /\ e \in wanted' <=> e \in wanted
  BY <1>0 DEF Steady, Active
<1>1. ASSUME NEW q \in Call, Follow(q) \/ Unfollow(q)
      PROVE  /\ \A c \in Call : EdgeOf[c] = e => state'[c] # "running" /\ todo'[c] = {}
             /\ e \in wanted' <=> e \in wanted
  BY <1>0, <1>1 DEF Follow, Unfollow, Launch, TypeOK
<1>2. ASSUME NEW q \in Call, NEW z \in Sides, MongoWrite(q, z) \/ RedisWrite(q, z)
      PROVE  /\ \A c \in Call : state'[c] = state[c] /\ todo'[c] \subseteq todo[c]
             /\ wanted' = wanted
  BY <1>0, <1>2 DEF MongoWrite, RedisWrite, TypeOK
<1>3. ASSUME NEW q \in Call, Return(q) \/ FutureThrows(q) \/ WriteVanishes(q)
      PROVE  /\ \A c \in Call : /\ state'[c] = "running" => state[c] = "running"
                              /\ todo'[c] \subseteq todo[c]
             /\ wanted' = wanted
  BY <1>0, <1>3 DEF Return, FutureThrows, WriteVanishes, TypeOK
<1>4. ASSUME NEW d \in Reader, NEW s \in Sides, NEW u \in User, AskRedis(d, s, u)
      PROVE  UNCHANGED <<state, todo, wanted>>
  BY <1>4 DEF AskRedis
<1>5. ASSUME NEW d \in Reader, ReaderStep(d)  PROVE UNCHANGED <<state, todo, wanted>>
  BY <1>5 DEF ReaderStep, AskRedis, FindDocument, FindNothing, FindFails, AskThrows, Fill, FillThrows
<1>6. ASSUME NEW s \in Sides, NEW u \in User, InsertUser(u) \/ LoseKey(s, u)
      PROVE  UNCHANGED <<state, todo, wanted>>
  BY <1>6 DEF InsertUser, LoseKey
<1>7. Sides # {}  BY DEF Sides
<1>8. CASE UNCHANGED vars  BY <1>0, <1>8 DEF vars
<1>9. CASE \E q \in Call, z \in Sides : MongoWrite(q, z) \/ RedisWrite(q, z)
  BY <1>0, <1>2, <1>9
<1>10. CASE \E q \in Call : Return(q) \/ FutureThrows(q) \/ WriteVanishes(q)
  BY <1>0, <1>3, <1>10
<1>11. CASE UNCHANGED <<state, todo, wanted>>  BY <1>0, <1>11
<1> QED
  BY <1>1, <1>4, <1>5, <1>6, <1>7, <1>8, <1>9, <1>10, <1>11 DEF Next, CallStep

LEMMA ReadersKnow ==
  ASSUME IInv, [Next]_vars, NEW d \in Reader
  PROVE  ReaderKnows(d)'
<1> USE GraphAssumption DEF dbVars, historyVars, boundVars
<1>0. /\ TypeOK /\ ReaderKnows(d)
      /\ \A e \in Edge \ disturbed : FollowsCall(e)
      /\ asking[d] \in Asking
  BY DEF IInv, TypeOK
<1>1. \A e \in Steady \ disturbed : \A s \in Sides :
        /\ e \in In(s) <=> e \in wanted
        /\ (e \in cached[s] <=> e \in wanted) \/ Gone(s, e)
  BY <1>0 DEF Steady, FollowsCall, On
\* The disturbance of an edge ends only when a call on it is launched.
<1>2. ASSUME NEW e \in disturbed \ disturbed'
      PROVE  \E c \in Call : EdgeOf[c] = e /\ (Follow(c) \/ Unfollow(c))
  BY <1>2 DEF Next, CallStep, ReaderStep, vars, InsertUser, Follow, Unfollow,
     Launch, MongoWrite, RedisWrite, Zadd, Zrem, Return, FutureThrows, WriteVanishes,
     AskRedis, FindDocument, FindNothing, FindFails, AskThrows, Fill, FillThrows, LoseKey
<1>3. ASSUME NEW q \in Call, Follow(q) \/ Unfollow(q)  PROVE ReaderKnows(d)'
  <2>1. /\ asking'[d] = [asking[d] EXCEPT !.steady = @ \ {EdgeOf[q]}]
        /\ \A e \in Edge : e # EdgeOf[q] => (e \in disturbed' <=> e \in disturbed)
    BY <1>0, <1>3 DEF Follow, Unfollow, Launch, TypeOK
  <2>2. /\ asking'[d].steady = asking[d].steady \ {EdgeOf[q]}
        /\ asking'[d].phase = asking[d].phase
        /\ asking'[d].answer = asking[d].answer
        /\ asking'[d].side = asking[d].side
        /\ asking'[d].user = asking[d].user
    BY <1>0, <2>1 DEF Asking
  <2>3. ASSUME NEW e \in asking'[d].steady
        PROVE  e \in Steady' /\ (e \in wanted' <=> e \in wanted)
    <3>1. e \in Steady /\ e # EdgeOf[q]  BY <1>0, <2>2, <2>3 DEF ReaderKnows
    <3>2. ASSUME NEW c \in Call, EdgeOf[c] = e  PROVE ~Follow(c) /\ ~Unfollow(c)
      <4>1. state'[q] = "running" /\ state[q] = "idle"
        BY <1>0, <1>3 DEF Follow, Unfollow, Launch, TypeOK
      <4>2. state'[c] = state[c]
        BY <1>0, <1>3, <3>1, <3>2 DEF Follow, Unfollow, Launch, TypeOK
      <4>3. Follow(c) \/ Unfollow(c) => state[c] = "idle" /\ state'[c] = "running"
        BY <1>0 DEF Follow, Unfollow, Launch, TypeOK
      <4> QED  BY <4>2, <4>3
    <3> QED  BY <3>1, <3>2, SteadyGrows
  <2>4. asking[d].steady \subseteq Edge  BY <1>0 DEF Asking
  <2> QED  BY <1>0, <2>1, <2>2, <2>3, <2>4 DEF ReaderKnows, Under
<1>4. ASSUME ~ \E c \in Call : Follow(c) \/ Unfollow(c)
      PROVE  /\ disturbed \subseteq disturbed'
             /\ \A e \in Steady : e \in Steady' /\ (e \in wanted' <=> e \in wanted)
  BY <1>2, <1>4, SteadyGrows
<1>5. ASSUME ~ \E c \in Call : Follow(c) \/ Unfollow(c), UNCHANGED asking
      PROVE  ReaderKnows(d)'
  BY <1>0, <1>4, <1>5 DEF ReaderKnows, Under
<1>6. ASSUME NEW q \in Call, CallStep(q) \/ FutureThrows(q) \/ WriteVanishes(q)
      PROVE  UNCHANGED asking
  BY <1>6 DEF CallStep, MongoWrite, RedisWrite, Return, FutureThrows, WriteVanishes
<1>7. ASSUME NEW s \in Sides, NEW u \in User, InsertUser(u) \/ LoseKey(s, u)
      PROVE  UNCHANGED asking
  BY <1>7 DEF InsertUser, LoseKey
<1>8. ASSUME NEW f \in Reader, NEW s \in Sides, NEW u \in User, AskRedis(f, s, u),
             ~ \E c \in Call : Follow(c) \/ Unfollow(c)
      PROVE  ReaderKnows(d)'
  <2>1. CASE f # d
    <3>1. asking'[d] = asking[d]  BY <1>0, <1>8, <2>1 DEF AskRedis, TypeOK
    <3> QED  BY <1>0, <1>4, <1>8, <3>1 DEF ReaderKnows, Under
  <2>2. CASE f = d
    <3>1. /\ asking'[d].side = s
          /\ asking'[d].user = u
          /\ asking'[d].steady = Steady
          /\ asking'[d].answer = cached[s] \intersect Under(s, u)
          /\ asking'[d].phase = IF cached[s] \intersect Under(s, u) = {} THEN "missed"
                                                                     ELSE "answered"
      BY <1>0, <1>8, <2>2 DEF AskRedis, TypeOK
    <3>2. ASSUME NEW e \in Under(s, u), cached[s] \intersect Under(s, u) # {}
          PROVE  ~Gone(s, e)
      BY <3>2 DEF Gone, Under
    <3>3. Under(s, u)' = Under(s, u)  BY DEF Under
    <3> QED  BY <1>1, <1>4, <1>8, <3>1, <3>2, <3>3 DEF ReaderKnows
  <2> QED  BY <2>1, <2>2
<1>9. ASSUME NEW f \in Reader, FindDocument(f), ~ \E c \in Call : Follow(c) \/ Unfollow(c)
      PROVE  ReaderKnows(d)'
  <2>1. CASE f # d
    <3>1. asking'[d] = asking[d]  BY <1>0, <1>9, <2>1 DEF FindDocument, Finds, TypeOK
    <3> QED  BY <1>0, <1>4, <1>9, <3>1 DEF ReaderKnows, Under
  <2>2. CASE f = d
    <3>1. /\ asking'[d].side = asking[d].side
          /\ asking'[d].user = asking[d].user
          /\ asking'[d].steady = asking[d].steady
          /\ asking'[d].phase = "filling"
          /\ asking'[d].answer = In(asking[d].side) \intersect
                                   Under(asking[d].side, asking[d].user)
      BY <1>0, <1>9, <2>2 DEF FindDocument, Finds, TypeOK, Asking
    <3>2. asking[d].side \in Sides  BY <1>0 DEF Asking
    <3> QED  BY <1>0, <1>1, <1>4, <1>9, <3>1, <3>2 DEF ReaderKnows, Under
  <2> QED  BY <2>1, <2>2
<1>10. ASSUME NEW f \in Reader, Fill(f) \/ FillThrows(f) \/ AskThrows(f),
              ~ \E c \in Call : Follow(c) \/ Unfollow(c)
       PROVE  ReaderKnows(d)'
  <2>1. /\ asking'[d].side = asking[d].side
        /\ asking'[d].user = asking[d].user
        /\ asking'[d].steady = asking[d].steady
        /\ asking'[d].answer = asking[d].answer
        /\ asking'[d].phase = "missed" => asking[d].phase = "missed"
        /\ asking'[d].phase \in {"filling", "answered"} =>
             asking[d].phase \in {"filling", "answered"}
    <3>1. CASE f # d
      BY <1>0, <1>10, <3>1 DEF Fill, FillThrows, AskThrows, TypeOK
    <3>2. CASE f = d /\ Fill(f)
      BY <1>0, <3>2 DEF Fill, TypeOK, Asking
    <3>3. CASE f = d /\ (FillThrows(f) \/ AskThrows(f))
      BY <1>0, <3>3 DEF FillThrows, AskThrows, TypeOK, Asking
    <3> QED  BY <1>10, <3>1, <3>2, <3>3
  <2> QED  BY <1>0, <1>4, <1>10, <2>1 DEF ReaderKnows, Under
<1>12. ASSUME NEW f \in Reader, FindNothing(f) \/ FindFails(f),
              ~ \E c \in Call : Follow(c) \/ Unfollow(c)
       PROVE  ReaderKnows(d)'
  <2>1. CASE f # d
    <3>1. asking'[d] = asking[d]
      BY <1>0, <1>12, <2>1 DEF FindNothing, FindFails, TypeOK
    <3> QED  BY <1>0, <1>4, <1>12, <3>1 DEF ReaderKnows, Under
  <2>2. CASE f = d
    <3>1. /\ asking'[d].side = asking[d].side
          /\ asking'[d].user = asking[d].user
          /\ asking'[d].answer = asking[d].answer
          /\ asking'[d].phase \in {"answered", "failed"}
          /\ asking'[d].steady = IF FindNothing(f) THEN asking[d].steady ELSE {}
      <4>1. CASE FindNothing(f)
        BY <1>0, <2>2, <4>1 DEF FindNothing, NotFound, TypeOK, Asking
      <4>2. CASE FindFails(f) /\ ~FindNothing(f)
        BY <1>0, <2>2, <4>2 DEF FindFails, NotFound, TypeOK, Asking
      <4> QED  BY <1>12, <4>1, <4>2
    <3>2. asking[d].answer = {}
      BY <1>0, <1>12, <2>2 DEF ReaderKnows, FindNothing, FindFails
    <3>3. ASSUME FindNothing(f),
                 NEW e \in (asking[d].steady \intersect Under(asking[d].side, asking[d].user))
                             \ disturbed
          PROVE  e \notin wanted
      <4>1. asking[d].side \in Sides /\ e \in Edge /\ e \in Steady
        BY <1>0, <3>3 DEF Asking, ReaderKnows, Steady
      <4>2. e \notin In(asking[d].side)
        BY <2>2, <3>3, <4>1 DEF IInv, HasDocument, FindNothing, Under, In
      <4> QED  BY <1>1, <3>3, <4>1, <4>2
    <3>4. Under(asking[d].side, asking[d].user)' = Under(asking'[d].side, asking'[d].user)
      BY DEF Under
    <3> QED  BY <1>0, <1>4, <1>12, <3>1, <3>2, <3>3, <3>4 DEF ReaderKnows
  <2> QED  BY <2>1, <2>2
<1>11. CASE UNCHANGED vars
  <2>1. UNCHANGED <<state, todo, asking, wanted, disturbed>>  BY <1>11 DEF vars
  <2>2. Steady' = Steady  BY <2>1 DEF Steady, Active
  <2> QED  BY <1>0, <2>1, <2>2 DEF ReaderKnows, Under
<1> QED
  BY <1>3, <1>5, <1>6, <1>7, <1>8, <1>9, <1>10, <1>11, <1>12 DEF Next, ReaderStep, Sides

-----------------------------------------------------------------------------
\* The invariant is inductive.
THEOREM Invariance == Spec => []IInv
<1>1. IInv /\ [Next]_vars => IInv'
  BY TypeKept, ListedOnceKept, IdleKept, EdgeFollowsCall, ReadersKnow DEF IInv
<1> QED  BY InitIInv, <1>1, PTL DEF Spec

\* The state keeps its type.
THEOREM TypeCorrect == Spec => []TypeOK
<1>1. IInv => TypeOK  BY DEF IInv
<1> QED  BY Invariance, <1>1, PTL

\* No array of MongoDB ever lists a user twice, however many calls overlap.
THEOREM ListedOnceCorrect == Spec => []ListedOnce
<1>1. IInv => ListedOnce  BY DEF IInv
<1> QED  BY Invariance, <1>1, PTL

\* An edge at rest that is not disturbed has four copies that agree with the
\* latest call on it, but for a key that Redis has lost and has nothing under.
THEOREM CopiesCorrect == Spec => []CopiesAgree
<1>1. IInv => CopiesAgree
  <2> SUFFICES ASSUME IInv, NEW e \in Steady \ disturbed, NEW s \in Sides
               PROVE  /\ e \in In(s) <=> e \in wanted
                      /\ (e \in cached[s] <=> e \in wanted) \/ Gone(s, e)
    BY DEF CopiesAgree
  <2>1. On(e) = {} /\ e \in Edge  BY DEF Steady, On
  <2> QED  BY <2>1 DEF IInv, FollowsCall
<1> QED  BY Invariance, <1>1, PTL


\* GetFollowers and GetFollowees are right about the edges that no call
\* touches while they run, whether Redis answers or MongoDB.
THEOREM AnswersCorrect == Spec => []AnswersRight
<1>1. IInv => AnswersRight
  BY DEF IInv, ReaderKnows, AnswersRight
<1> QED  BY Invariance, <1>1, PTL

-----------------------------------------------------------------------------
(* Without the history: edges that nothing gets in the way of *)

\* One call on the edge at a time, by users that are registered, and no Unfollow
\* of it while a reader is about to copy it to Redis.
Orderly(e) ==
  /\ \A c, o \in On(e) : c = o
  /\ \A c \in On(e) : {e[1], e[2]} \subseteq inserted
  /\ \A d \in Reader : asking[d].phase = "filling" /\ e \in asking[d].answer =>
       \A c \in On(e) : Kind[c] = "follow"

\* A future of a call on the edge throws, or another edge comes first under a key
\* with which Redis has lost it.
Fault(e) ==
  \/ \E c \in Call : EdgeOf[c] = e /\ FutureThrows(c)
  \/ \E s \in Sides : /\ e \in Omitted(s, Key(s, e), {})
                      /\ e \notin cached'[s]
                      /\ ~Gone(s, e)'

\* What a reader is about to copy is still in MongoDB.
Fresh(e) ==
  \A d \in Reader : asking[d].phase = "filling" /\ e \in asking[d].answer =>
    e \in In(asking[d].side)

LEMMA OrderlyIsUndisturbed ==
  ASSUME NEW e \in Edge
  PROVE  Spec /\ []Orderly(e) /\ [][~Fault(e)]_vars => [](e \notin disturbed)
<1> DEFINE J == e \notin disturbed /\ Fresh(e)
<1>1. Init => J  BY DEF Init, Fresh, NotAsking
<1>2. IInv /\ J /\ Orderly(e) /\ Orderly(e)' /\ [Next]_vars /\ [~Fault(e)]_vars => J'
  <2> SUFFICES ASSUME IInv, J, Orderly(e), Orderly(e)', [Next]_vars, [~Fault(e)]_vars
               PROVE  J'
    OBVIOUS
  <2> USE GraphAssumption
  <2>0. TypeOK  BY DEF IInv
  <2>1. CASE UNCHANGED vars
    BY <2>1 DEF vars, Fresh, In
  <2>2. ASSUME NEW c \in Call, Follow(c) \/ Unfollow(c) PROVE J'
    <3>1. Launch(c)  BY <2>2 DEF Follow, Unfollow
    <3>2. Fresh(e)'
      BY <2>0, <3>1 DEF Launch, dbVars, Fresh, In, TypeOK, Asking
    <3>3. CASE EdgeOf[c] # e  BY <3>1, <3>2, <3>3 DEF Launch
    <3>4. CASE EdgeOf[c] = e
      <4>1. c \in On(e)'  BY <2>0, <3>1, <3>4 DEF Launch, On, Active, TypeOK
      <4>2. {e[1], e[2]} \subseteq inserted
        BY <3>1, <4>1 DEF Orderly, Launch, dbVars
      <4>3. ASSUME NEW o \in Call \ {c}, EdgeOf[o] = e, Active(o) PROVE FALSE
        <5>1. o \in On(e)'  BY <2>0, <3>1, <4>3 DEF Launch, On, Active, TypeOK
        <5> QED  BY <4>1, <4>3, <5>1 DEF Orderly
      <4>4. Alone(c)  BY <3>4, <4>3 DEF Alone
      <4> QED  BY <3>1, <3>2, <3>4, <4>2, <4>4 DEF Launch
    <3> QED  BY <3>3, <3>4
  <2>3. ASSUME NEW c \in Call, NEW s \in Sides, MongoWrite(c, s) PROVE J'
    <3>1. disturbed' = disturbed /\ asking' = asking
      BY <2>3 DEF MongoWrite, historyVars
    <3>2. ASSUME NEW d \in Reader, asking[d].phase = "filling", e \in asking[d].answer
          PROVE  e \in In(asking[d].side)'
      <4>1. e \in In(asking[d].side) /\ asking[d].side \in Sides
        BY <2>0, <3>2 DEF Fresh, TypeOK, Asking
      <4>2. CASE entries'[asking[d].side][e] = entries[asking[d].side][e]
        BY <3>1, <4>1, <4>2 DEF In
      <4>3. CASE entries'[asking[d].side][e] # entries[asking[d].side][e]
        <5>1. EdgeOf[c] = e /\ s = asking[d].side
              /\ entries' = [entries EXCEPT ![s][EdgeOf[c]] = Modified(c, s)]
          BY <2>0, <2>3, <4>1, <4>3 DEF MongoWrite, TypeOK
        <5>2. Kind[c] = "follow"
          <6>1. c \in On(e)  BY <2>3, <5>1 DEF On, Active, MongoWrite
          <6> QED  BY <3>2, <6>1 DEF Orderly
        <5>3. Modified(c, s) > 0
          BY <2>0, <4>1, <5>1, <5>2 DEF Modified, In, TypeOK
        <5>4. entries'[s][e] = Modified(c, s)
          BY <2>0, <5>1 DEF TypeOK
        <5> QED  BY <3>1, <5>1, <5>3, <5>4 DEF In
      <4> QED  BY <4>2, <4>3
    <3> QED  BY <3>1, <3>2 DEF Fresh
  <2>4. ASSUME NEW c \in Call, NEW s \in Sides, RedisWrite(c, s) PROVE J'
    <3>1. Fresh(e)'  BY <2>4 DEF RedisWrite, Fresh, In
    <3>2. CASE Zadd(s, Key(s, EdgeOf[c]), {EdgeOf[c]})
      <4>1. CASE e \in Omitted(s, Key(s, EdgeOf[c]), {EdgeOf[c]})
        <5>1. /\ e \in Omitted(s, Key(s, e), {}) /\ e \notin cached[s]
              /\ Key(s, e) = Key(s, EdgeOf[c]) /\ e # EdgeOf[c]
          BY <4>1 DEF Omitted, Under
        <5>2. cached'[s] = cached[s] \union {EdgeOf[c]}
          BY <2>0, <3>2 DEF Zadd, TypeOK
        <5>3. EdgeOf[c] \in Under(s, Key(s, e))  BY <5>1 DEF Under
        <5>4. ~Gone(s, e)'  BY <5>2, <5>3 DEF Gone, Under
        <5>5. Fault(e)  BY <5>1, <5>2, <5>4 DEF Fault
        <5> QED  BY <2>1, <5>5
      <4>2. CASE e \notin Omitted(s, Key(s, EdgeOf[c]), {EdgeOf[c]})
        BY <3>1, <3>2, <4>2 DEF Zadd
      <4> QED  BY <4>1, <4>2
    <3> QED  BY <2>4, <3>1, <3>2 DEF RedisWrite, Zrem
  <2>5. ASSUME NEW c \in Call, Return(c) \/ WriteVanishes(c) PROVE J'
    BY <2>5 DEF Return, WriteVanishes, dbVars, historyVars, Fresh, In
  <2>6. ASSUME NEW c \in Call, FutureThrows(c) PROVE J'
    <3>1. EdgeOf[c] # e \/ UNCHANGED vars  BY <2>6 DEF Fault
    <3>2. CASE EdgeOf[c] # e  BY <2>6, <3>2 DEF FutureThrows, dbVars, Fresh, In
    <3> QED  BY <2>1, <3>1, <3>2
  <2>7. ASSUME NEW d \in Reader, NEW s \in Sides, NEW u \in User, AskRedis(d, s, u) PROVE J'
    <3>1. \A f \in Reader : asking'[f].phase = "filling" => f # d /\ asking'[f] = asking[f]
      BY <2>0, <2>7 DEF AskRedis, TypeOK
    <3> QED  BY <2>7, <3>1 DEF AskRedis, dbVars, historyVars, Fresh, In
  <2>8. ASSUME NEW d \in Reader, FindDocument(d) PROVE J'
    <3>1. \A f \in Reader : f # d => asking'[f] = asking[f]
      BY <2>0, <2>8 DEF FindDocument, Finds, TypeOK
    <3>2. /\ asking'[d].side = asking[d].side
          /\ asking'[d].answer \subseteq In(asking[d].side)
      BY <2>0, <2>8 DEF FindDocument, Finds, TypeOK, Asking
    <3> QED  BY <2>8, <3>1, <3>2 DEF FindDocument, dbVars, historyVars, Fresh, In
  <2>9. ASSUME NEW d \in Reader, Fill(d) PROVE J'
    <3>1. e \notin Ghosts(d)
      <4>1. asking[d].phase = "filling"  BY <2>9 DEF Fill
      <4>2. CASE e \in asking[d].answer
        <5>1. e \in In(asking[d].side)  BY <4>1, <4>2 DEF Fresh
        <5>2. \A c \in On(e) : Kind[c] = "follow"  BY <4>1, <4>2 DEF Orderly
        <5> QED  BY <5>1, <5>2 DEF Ghosts, On
      <4> QED  BY <4>2 DEF Ghosts
    <3>2. \A f \in Reader : asking'[f].phase = "filling" => asking'[f] = asking[f]
      BY <2>0, <2>9 DEF Fill, TypeOK, Asking
    <3>3. Fresh(e)'  BY <2>9, <3>2 DEF Fill, Fresh, In
    <3>4. CASE e \notin Omitted(asking[d].side, asking[d].user, asking[d].answer)
      BY <2>9, <3>1, <3>3, <3>4 DEF Fill
    <3>5. CASE e \in Omitted(asking[d].side, asking[d].user, asking[d].answer)
      <4>1. asking[d].side \in Sides  BY <2>0 DEF TypeOK, Asking
      <4>2. /\ e \in Omitted(asking[d].side, Key(asking[d].side, e), {})
            /\ e \notin cached[asking[d].side] \union asking[d].answer
            /\ Key(asking[d].side, e) = asking[d].user
        BY <3>5 DEF Omitted, Under
      <4>3. cached'[asking[d].side] = cached[asking[d].side] \union asking[d].answer
        BY <2>0, <2>9, <4>1 DEF Fill, TypeOK
      <4>4. asking[d].answer \subseteq Under(asking[d].side, Key(asking[d].side, e))
        BY <2>9, <4>2 DEF IInv, ReaderKnows, Fill
      <4>5. asking[d].answer # {}  BY <2>9 DEF Fill
      <4>6. ~Gone(asking[d].side, e)'
        <5> DEFINE s == asking[d].side
        <5>1. cached'[s] \intersect Under(s, Key(s, e)) # {}  BY <4>3, <4>4, <4>5
        <5>2. asking'[d].side = s  BY <2>0, <2>9 DEF Fill, TypeOK, Asking
        <5> QED  BY <5>1, <5>2 DEF Gone, Under
      <4>7. Fault(e)
        <5>1. asking'[d].side = asking[d].side  BY <2>0, <2>9 DEF Fill, TypeOK, Asking
        <5> QED  BY <4>1, <4>2, <4>3, <4>6, <5>1 DEF Fault
      <4> QED  BY <2>1, <4>7
    <3> QED  BY <3>4, <3>5
  <2>10. ASSUME NEW d \in Reader,
                FindNothing(d) \/ FindFails(d) \/ AskThrows(d) \/ FillThrows(d)
         PROVE  J'
    <3>1. \A f \in Reader : asking'[f].phase = "filling" => asking'[f] = asking[f]
      BY <2>0, <2>10
      DEF FindNothing, FindFails, AskThrows, FillThrows, NotFound, TypeOK, Asking
    <3> QED
      BY <2>10, <3>1
      DEF FindNothing, FindFails, AskThrows, FillThrows, dbVars, historyVars, Fresh, In
  <2>11. ASSUME NEW s \in Sides, NEW u \in User, LoseKey(s, u) PROVE J'
    BY <2>11 DEF LoseKey, historyVars, Fresh, In
  <2>12. ASSUME NEW u \in User, InsertUser(u) PROVE J'
    BY <2>12 DEF InsertUser, historyVars, Fresh, In
  <2> QED
    BY <2>1, <2>2, <2>3, <2>4, <2>5, <2>6, <2>7, <2>8, <2>9, <2>10, <2>11, <2>12
    DEF Next, CallStep, ReaderStep
<1> HIDE DEF J
<1>3. Spec /\ []Orderly(e) /\ [][~Fault(e)]_vars => []J
  BY <1>1, <1>2, Invariance, PTL DEF Spec
<1> QED  BY <1>3, PTL DEF J

\* An edge on which calls follow one another, by registered users and without a
\* fault, has four copies that agree with the latest call whenever it is at rest,
\* but for a key that Redis has lost and has nothing under; and every reader that
\* meets no call on it is right about it.
THEOREM OrderlyAgree ==
  ASSUME NEW e \in Edge
  PROVE  Spec /\ []Orderly(e) /\ [][~Fault(e)]_vars =>
           []( /\ e \in Steady => \A s \in Sides :
                    /\ e \in In(s) <=> e \in wanted
                    /\ (e \in cached[s] <=> e \in wanted) \/ Gone(s, e)
               /\ \A d \in Reader :
                    /\ asking[d].phase = "answered"
                    /\ e \in asking[d].steady
                    /\ e \in Under(asking[d].side, asking[d].user)
                    => (e \in asking[d].answer <=> e \in wanted) )
<1> DEFINE Right ==
      /\ e \in Steady => \A s \in Sides :
           /\ e \in In(s) <=> e \in wanted
           /\ (e \in cached[s] <=> e \in wanted) \/ Gone(s, e)
      /\ \A d \in Reader :
           /\ asking[d].phase = "answered"
           /\ e \in asking[d].steady
           /\ e \in Under(asking[d].side, asking[d].user)
           => (e \in asking[d].answer <=> e \in wanted)
<1>1. CopiesAgree /\ AnswersRight /\ e \notin disturbed => Right
  BY DEF CopiesAgree, AnswersRight
<1> HIDE DEF Right
<1>2. Spec /\ []Orderly(e) /\ [][~Fault(e)]_vars => []Right
  BY <1>1, OrderlyIsUndisturbed, CopiesCorrect, AnswersCorrect, PTL
<1> QED  BY <1>2 DEF Right
=============================================================================
