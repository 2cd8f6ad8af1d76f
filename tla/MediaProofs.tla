------------------------------ MODULE MediaProofs ------------------------------
(***************************************************************************)
(* Proofs about two components of mediaMicroservices that share no         *)
(* variable.                                                               *)
(*                                                                         *)
(* MediaClientPool, for any finite set of threads and any pool sizes:      *)
(* until a push_back outside the lock has met another access to _pool, the *)
(* pool knows where every connection is, a connection has one user, and a  *)
(* thread sleeps beside a free one only when it was put back without       *)
(* notice.                                                                 *)
(*                                                                         *)
(* ReviewLists, for any reviews, readers and pages: no review is listed    *)
(* twice or lost, Redis has the newest of the list but for the gaps that   *)
(* the history variables account for, and a reader that meets nobody gets  *)
(* its page.                                                               *)
(***************************************************************************)
EXTENDS MediaClientPool, ReviewLists, FiniteSetTheorems, FunctionTheorems,
        SequenceTheorems, TLAPS

-----------------------------------------------------------------------------
(* Sequences *)

\* What a sequence holds, and what it holds in its first places.
Members(s) == {s[i] : i \in 1 .. Len(s)}
Front(s, n) == {s[i] : i \in 1 .. n}

\* SubSeq from a + 1 to b, place by place.
LEMMA PartOfSeq ==
  ASSUME NEW S, NEW s \in Seq(S), NEW a \in Nat, NEW b \in Nat, b <= Len(s)
  PROVE  /\ SubSeq(s, a + 1, b) \in Seq(S)
         /\ Len(SubSeq(s, a + 1, b)) = IF a < b THEN b - a ELSE 0
         /\ \A i \in 1 .. Len(SubSeq(s, a + 1, b)) :
              a + i \in 1 .. Len(s) /\ SubSeq(s, a + 1, b)[i] = s[a + i]
<1>1. a + 1 \in 1 .. Len(s) + 1 \/ b < a + 1  OBVIOUS
<1>2. CASE a < b
  <2>1. SubSeq(s, a + 1, b) \in Seq(S) /\ Len(SubSeq(s, a + 1, b)) = b - a
    BY <1>2
  <2>2. \A i \in 1 .. b - a : SubSeq(s, a + 1, b)[i] = s[a + i] /\ a + i \in 1 .. Len(s)
    BY <1>2
  <2> QED  BY <1>2, <2>1, <2>2
<1>3. CASE ~(a < b)
  <2>1. SubSeq(s, a + 1, b) = <<>>  BY <1>3
  <2> QED  BY <1>3, <2>1
<1> QED  BY <1>2, <1>3

\* A sequence with one more element in front.
LEMMA InFront ==
  ASSUME NEW S, NEW s \in Seq(S), NEW x \in S
  PROVE  LET t == <<x>> \o s IN
         /\ t \in Seq(S)
         /\ Len(t) = Len(s) + 1 /\ Len(s) \in Nat
         /\ t[1] = x
         /\ \A i \in 1 .. Len(s) : t[i + 1] = s[i] /\ i + 1 \in 1 .. Len(t)
         /\ \A i \in 1 .. Len(t) : i # 1 => t[i] = s[i - 1] /\ i - 1 \in 1 .. Len(s)
         /\ Members(t) = Members(s) \cup {x}
<1> DEFINE t == <<x>> \o s
<1>1. <<x>> \in Seq(S) /\ Len(<<x>>) = 1 /\ <<x>>[1] = x  OBVIOUS
<1>2. t \in Seq(S) /\ Len(t) = Len(s) + 1 /\ Len(s) \in Nat  BY <1>1
<1>3. \A i \in 1 .. Len(t) : t[i] = IF i <= 1 THEN <<x>>[i] ELSE s[i - 1]
  BY <1>1, <1>2
<1>4. t[1] = x /\ 1 \in 1 .. Len(t)  BY <1>1, <1>2, <1>3
<1>5. \A i \in 1 .. Len(s) : t[i + 1] = s[i] /\ i + 1 \in 1 .. Len(t)
  BY <1>2, <1>3
<1>6. \A i \in 1 .. Len(t) : i # 1 => t[i] = s[i - 1] /\ i - 1 \in 1 .. Len(s)
  BY <1>2, <1>3
<1>7. Members(t) = Members(s) \cup {x}
  <2> HIDE DEF t
  <2>1. x \in Members(t)  BY <1>4 DEF Members
  <2>2. ASSUME NEW i \in 1 .. Len(s)  PROVE s[i] \in Members(t)
    BY <1>5 DEF Members
  <2>3. ASSUME NEW i \in 1 .. Len(t)  PROVE t[i] \in Members(s) \cup {x}
    BY <1>4, <1>6 DEF Members
  <2>4. Members(s) \subseteq Members(t)  BY <2>2 DEF Members
  <2>5. Members(t) \subseteq Members(s) \cup {x}  BY <2>3 DEF Members
  <2> QED  BY <2>1, <2>4, <2>5
<1> QED  BY <1>2, <1>4, <1>5, <1>6, <1>7

\* A part of a list without repeats has as many members as places.
LEMMA PartCounted ==
  ASSUME NEW S, NEW s \in Seq(S), NEW n \in Nat, n <= Len(s),
         \A i, j \in 1 .. Len(s) : s[i] = s[j] => i = j
  PROVE  IsFiniteSet(Front(s, n)) /\ Cardinality(Front(s, n)) = n
<1> DEFINE I == 1 .. n
           T == {s[i] : i \in I}
           f == [i \in I |-> s[i]]
<1>1. IsFiniteSet(I) /\ Cardinality(I) = n  BY FS_Interval
<1>2. \A i, j \in I : f[i] = f[j] => i = j  OBVIOUS
<1>3. f \in [I -> T] /\ \A p \in T : \E i \in I : f[i] = p  OBVIOUS
<1> HIDE DEF I, T, f
<1>4. f \in Injection(I, T) /\ f \in Surjection(I, T)
  BY <1>2, <1>3, Fun_IsInj, Fun_IsSurj
<1>5. IsFiniteSet(T) /\ Cardinality(T) = n  BY <1>1, <1>4, FS_Surjection
<1> QED  BY <1>5 DEF T, I, Front

-----------------------------------------------------------------------------
(* The client pool *)

\* A set of threads, and what it counts with one thread more or less.
LEMMA CountThreads ==
  ASSUME NEW S \in SUBSET Thread, NEW t
  PROVE  /\ IsFiniteSet(S) /\ Cardinality(S) \in Nat
         /\ t \notin S => Cardinality(S \union {t}) = Cardinality(S) + 1
         /\ t \in S => Cardinality(S \ {t}) = Cardinality(S) - 1
<1>1. IsFiniteSet(S)  BY MediaPoolAssumption, FS_Subset
<1> QED  BY <1>1, FS_CardinalityType, FS_AddElement, FS_RemoveElement

-----------------------------------------------------------------------------
(* Typing *)

\* What TypeOK says, and what follows for the threads outside the lock.
LEMMA TypeFacts ==
  ASSUME TypeOK
  PROVE  /\ pool \in Seq(Client) /\ Len(pool) \in Nat
         /\ curr \in 0 .. MaxSize /\ MaxSize \in Nat /\ silent \in 0 .. MaxSize
         /\ pc \in [Thread -> PCs]
         /\ client \in [Thread -> Client \union {NoClient}]
         /\ \A t \in Holders : client[t] \in Client
         /\ NoClient \notin Client
BY MediaPoolAssumption DEF TypeOK, Holders

\* _pool after a push_back that raced still holds clients.
LEMMA TornTyped ==
  ASSUME TypeOK, NEW c \in Client  PROVE Torn(c) \subseteq Seq(Client)
<1>0. pool \in Seq(Client) /\ Len(pool) \in Nat /\ made \subseteq Client
  BY DEF TypeOK
<1>1. Append(pool, c) \in Seq(Client)  BY <1>0
<1>2. \A i \in DOMAIN pool : [pool EXCEPT ![Len(pool)] = c] \in Seq(Client)
  BY <1>0
<1>3. \A x \in Client : pool \o <<x, c>> \in Seq(Client)
  <2> SUFFICES ASSUME NEW x \in Client PROVE pool \o <<x, c>> \in Seq(Client)
    OBVIOUS
  <2>1. <<x, c>> \in Seq(Client)  OBVIOUS
  <2> QED  BY <1>0, <2>1
<1> QED  BY <1>0, <1>1, <1>2, <1>3 DEF Torn

LEMMA StepKeepsTypeOK ==
  ASSUME TypeOK, NEW t \in Thread, Step(t)
  PROVE  TypeOK'
<1>0. /\ pool \in Seq(Client) /\ Len(pool) \in Nat
      /\ curr \in 0 .. MaxSize /\ MaxSize \in Nat /\ silent \in 0 .. MaxSize
      /\ pc \in [Thread -> PCs]
      /\ client \in [Thread -> Client \union {NoClient}]
      /\ \A u \in Holders : client[u] \in Client
      /\ NoClient \notin Client
      /\ made \subseteq Client /\ leaked \subseteq Client
      /\ racing \subseteq {u \in Thread : pc[u] = "pushback"}
      /\ raced \in BOOLEAN
      /\ \A u \in Thread : client[u] # NoClient <=> u \in Holders
  BY TypeFacts DEF TypeOK
<1>1. ASSUME Uses(t), pc[t] # "pushback", NEW p \in PCs, pc' = [pc EXCEPT ![t] = p]
      PROVE  /\ racing' \subseteq {u \in Thread : pc'[u] = "pushback"}
             /\ raced' \in BOOLEAN
             /\ pc' \in [Thread -> PCs]
  BY <1>0, <1>1 DEF Uses
<1>2. ASSUME UNCHANGED <<pool, curr, client, made, leaked>>,
             pc' \in [Thread -> PCs], Holders' = Holders,
             racing' \subseteq {u \in Thread : pc'[u] = "pushback"},
             raced' \in BOOLEAN, silent' \in 0 .. MaxSize
      PROVE  TypeOK'
  BY <1>0, <1>2 DEF TypeOK
<1>3. ASSUME Acquire(t), pc[t] \in {"idle", "woken", "timedout"},
             TakeFront(t) \/ CreateClient(t)
      PROVE  TypeOK'
  <2>1. /\ racing' \subseteq {u \in Thread : pc'[u] = "pushback"}
        /\ raced' \in BOOLEAN
        /\ pc' \in [Thread -> PCs]
        /\ UNCHANGED <<leaked, silent>>
    BY <1>1, <1>3 DEF Acquire, PCs
  <2>2. PICK c \in Client : client' = [client EXCEPT ![t] = c]
    <3>1. CASE TakeFront(t)
      <4>1. Head(pool) \in Client  BY <1>0, <3>1 DEF TakeFront
      <4> QED  BY <3>1, <4>1 DEF TakeFront
    <3>2. CASE CreateClient(t)  BY <3>2 DEF CreateClient
    <3> QED  BY <1>3, <3>1, <3>2
  <2>3. pool' \in Seq(Client) /\ curr' \in 0 .. MaxSize /\ made' \subseteq Client
    <3>1. CASE TakeFront(t)
      <4>1. Tail(pool) \in Seq(Client)  BY <1>0, <3>1 DEF TakeFront
      <4> QED  BY <1>0, <3>1, <4>1 DEF TakeFront
    <3>2. CASE CreateClient(t)  BY <1>0, <3>2 DEF CreateClient
    <3> QED  BY <1>3, <3>1, <3>2
  <2>4. \A u \in Thread : client'[u] # NoClient <=> u \in Holders'
    <3>1. Holders' = Holders \union {t}
      BY <1>0, <1>3 DEF Acquire, Holders
    <3> QED  BY <1>0, <2>2, <3>1
  <2>5. client' \in [Thread -> Client \union {NoClient}]  BY <1>0, <2>2
  <2> QED  BY <1>0, <2>1, <2>3, <2>4, <2>5 DEF TypeOK
<1>4. ASSUME pc[t] \in {"call", "pushback"}, NEW p \in {"idle", "notify"},
             pc' = [pc EXCEPT ![t] = p],
             client' = [client EXCEPT ![t] = NoClient],
             pool' \in Seq(Client), leaked' \subseteq Client,
             UNCHANGED <<curr, made>>, silent' \in 0 .. MaxSize,
             racing' \subseteq {u \in Thread : pc'[u] = "pushback"},
             raced' \in BOOLEAN
      PROVE  TypeOK'
  <2>1. Holders' = Holders \ {t}  BY <1>0, <1>4 DEF Holders
  <2>2. pc' \in [Thread -> PCs]  BY <1>0, <1>4 DEF PCs
  <2>3. client' \in [Thread -> Client \union {NoClient}]  BY <1>0, <1>4
  <2>4. \A u \in Thread : client'[u] # NoClient <=> u \in Holders'
    BY <1>0, <1>4, <2>1
  <2> QED  BY <1>0, <1>4, <2>2, <2>3, <2>4 DEF TypeOK
<1>5. CASE PopEnters(t)  BY <1>3, <1>5 DEF PopEnters
<1>6. CASE PopResumes(t)  BY <1>3, <1>6 DEF PopResumes
<1>7. CASE CtorThrows(t) \/ PopTimesOut(t)
  <2>1. Holders' = Holders
    BY <1>0, <1>7 DEF CtorThrows, PopTimesOut, ReturnsNothing, Holders
  <2> QED
    BY <1>0, <1>1, <1>2, <1>7, <2>1 DEF CtorThrows, PopTimesOut, ReturnsNothing, PCs
<1>8. CASE PopBlocks(t) \/ PopWaitsAgain(t)
  <2>1. Holders' = Holders
    BY <1>0, <1>8 DEF PopBlocks, PopWaitsAgain, Holders
  <2> QED
    BY <1>0, <1>1, <1>2, <1>8, <2>1 DEF PopBlocks, PopWaitsAgain, PCs
<1>9. CASE WakesSpuriously(t) \/ DeadlinePasses(t) \/ Connects(t)
  <2>1. PICK p \in {"woken", "timedout", "call"} : pc' = [pc EXCEPT ![t] = p]
    BY <1>9 DEF WakesSpuriously, DeadlinePasses, Wakes, Connects
  <2>2. Holders' = Holders /\ pc[t] # "pushback"
    BY <1>0, <1>9 DEF WakesSpuriously, DeadlinePasses, Wakes, Connects, Holders
  <2>3. pc' \in [Thread -> PCs]  BY <1>0, <2>1 DEF PCs
  <2>4. racing' = racing /\ raced' = raced /\ silent' = silent
        /\ UNCHANGED <<pool, curr, client, made, leaked>>
    BY <1>9 DEF WakesSpuriously, DeadlinePasses, Wakes, Connects, raceVars
  <2> QED  BY <1>0, <1>2, <2>1, <2>2, <2>3, <2>4
<1>10. CASE ConnectFails(t)
  <2>1. Holders' = Holders  BY <1>0, <1>10 DEF ConnectFails, Holders
  <2>2. pc' \in [Thread -> PCs]  BY <1>0, <1>10 DEF ConnectFails, PCs
  <2>3. racing' \subseteq {u \in Thread : pc'[u] = "pushback"}
    BY <1>0, <1>10 DEF ConnectFails
  <2>4. raced' \in BOOLEAN  BY <1>0, <1>10 DEF ConnectFails
  <2> QED  BY <1>0, <1>2, <1>10, <2>1, <2>2, <2>3, <2>4 DEF ConnectFails
<1>11. CASE Push(t)
  <2>1. client[t] \in Client  BY <1>0, <1>11 DEF Push, Holders
  <2>2. pool' \in Seq(Client)  BY <1>0, <1>11, <2>1 DEF Push
  <2> QED  BY <1>0, <1>1, <1>4, <1>11, <2>2 DEF Push, PCs
<1>12. CASE Leak(t)
  <2>1. client[t] \in Client  BY <1>0, <1>12 DEF Leak, Holders
  <2>2. racing' \subseteq {u \in Thread : pc'[u] = "pushback"}
    BY <1>0, <1>12 DEF Leak, raceVars
  <2>3. raced' = raced  BY <1>12 DEF Leak, raceVars
  <2> QED  BY <1>0, <1>4, <1>12, <2>1, <2>2, <2>3 DEF Leak
<1>13. CASE PushBack(t)
  <2>1. client[t] \in Client  BY <1>0, <1>13 DEF PushBack, Holders
  <2>2. pool' \in Seq(Client)
    <3>1. Append(pool, client[t]) \in Seq(Client)  BY <1>0, <2>1
    <3>2. Torn(client[t]) \subseteq Seq(Client)  BY <2>1, TornTyped
    <3> QED  BY <1>13, <3>1, <3>2 DEF PushBack
  <2>3. racing' \subseteq {u \in Thread : pc'[u] = "pushback"}
    BY <1>0, <1>13 DEF PushBack
  <2>4. silent' \in 0 .. MaxSize  BY <1>0, <1>13 DEF PushBack
  <2> QED  BY <1>0, <1>4, <1>13, <2>2, <2>3, <2>4 DEF PushBack
<1>14. CASE NotifyOne(t)
  <2>1. Holders' = Holders  BY <1>0, <1>14 DEF NotifyOne, Holders, Waiters
  <2>2. pc' \in [Thread -> PCs]  BY <1>0, <1>14 DEF NotifyOne, PCs
  <2>3. racing' \subseteq {u \in Thread : pc'[u] = "pushback"}
    <3>1. CASE Waiters = {}
      BY <1>0, <1>14, <3>1 DEF NotifyOne, raceVars
    <3>2. ASSUME NEW w \in Waiters, pc' = [pc EXCEPT ![t] = "idle", ![w] = "woken"]
          PROVE  racing' \subseteq {u \in Thread : pc'[u] = "pushback"}
      BY <1>0, <1>14, <3>2 DEF NotifyOne, raceVars, Waiters
    <3> QED  BY <1>14, <3>1, <3>2 DEF NotifyOne
  <2> QED  BY <1>0, <1>2, <1>14, <2>1, <2>2, <2>3 DEF NotifyOne, raceVars
<1> QED
  BY <1>5, <1>6, <1>7, <1>8, <1>9, <1>10, <1>11, <1>12, <1>13, <1>14
     DEF Step, PoolStep

-----------------------------------------------------------------------------
(* Where every connection is *)

\* Every connection anybody has was made by CreateClient.
Hands == {client[t] : t \in Holders}
AllMade == Pooled \union Hands \union leaked \subseteq made

\* Nobody waits while a place is free, for places never get free.
FullWhenInPop == \A t \in Thread : InPop(t) => curr = MaxSize

IInv ==
  /\ TypeOK
  /\ AllMade
  /\ FullWhenInPop
  /\ IsFiniteSet(leaked)
  /\ ~raced => racing = {}
  /\ Accounting
  /\ Exclusive

\* The four ways in which a connection changes hands.
Still ==
  /\ UNCHANGED <<pool, curr, client, made, leaked>>
  /\ Holders' = Holders

Takes(t) ==
  /\ t \notin Holders
  /\ TakeFront(t) \/ CreateClient(t)
  /\ pc' = [pc EXCEPT ![t] = "connect"]
  /\ leaked' = leaked

Gives(t) ==
  /\ pool' = Append(pool, client[t])
  /\ UNCHANGED <<curr, made, leaked>>

Loses(t) ==
  /\ leaked' = leaked \union {client[t]}
  /\ UNCHANGED <<pool, curr, made>>

LetsGo(t) ==
  /\ t \in Holders
  /\ client' = [client EXCEPT ![t] = NoClient]
  /\ pc' \in {[pc EXCEPT ![t] = "idle"], [pc EXCEPT ![t] = "notify"]}

\* Every step is one of them, but for a push_back that has raced.
LEMMA StepMoves ==
  ASSUME IInv, NEW t \in Thread, Step(t)
  PROVE  /\ raced => raced'
         /\ ~raced' => racing' = {}
         /\ ~raced' \/ ~PushBack(t) =>
              Still \/ Takes(t) \/ (LetsGo(t) /\ (Gives(t) \/ Loses(t)))
<1>0. /\ pc \in [Thread -> PCs]
      /\ ~raced => racing = {}
      /\ raced \in BOOLEAN
  BY DEF IInv, TypeOK
<1>1. ASSUME Uses(t)
      PROVE  (raced => raced') /\ (~raced' => racing' = {})
  BY <1>0, <1>1 DEF Uses
<1>2. ASSUME UNCHANGED raceVars
      PROVE  (raced => raced') /\ (~raced' => racing' = {})
  BY <1>0, <1>2 DEF raceVars
<1>3. CASE PopEnters(t) \/ PopResumes(t)
  BY <1>1, <1>3 DEF PopEnters, PopResumes, Acquire, Takes, Holders
<1>4. CASE CtorThrows(t) \/ PopTimesOut(t)
  <2>1. Holders' = Holders
    BY <1>0, <1>4 DEF CtorThrows, PopTimesOut, ReturnsNothing, Holders
  <2> QED  BY <1>1, <1>4, <2>1 DEF CtorThrows, PopTimesOut, ReturnsNothing, Still
<1>5. CASE PopBlocks(t) \/ PopWaitsAgain(t)
  <2>1. Holders' = Holders  BY <1>0, <1>5 DEF PopBlocks, PopWaitsAgain, Holders
  <2> QED  BY <1>1, <1>5, <2>1 DEF PopBlocks, PopWaitsAgain, Still
<1>6. CASE WakesSpuriously(t) \/ DeadlinePasses(t) \/ Connects(t)
  <2>1. Holders' = Holders
    BY <1>0, <1>6 DEF WakesSpuriously, DeadlinePasses, Wakes, Connects, Holders
  <2> QED
    BY <1>2, <1>6, <2>1 DEF WakesSpuriously, DeadlinePasses, Wakes, Connects, Still
<1>7. CASE ConnectFails(t)
  <2>1. Holders' = Holders  BY <1>0, <1>7 DEF ConnectFails, Holders
  <2>2. (raced => raced') /\ (~raced' => racing' = {})
    BY <1>0, <1>7 DEF ConnectFails
  <2> QED  BY <1>7, <2>1, <2>2 DEF ConnectFails, Still
<1>8. CASE Push(t)
  BY <1>1, <1>8 DEF Push, LetsGo, Gives, Holders
<1>9. CASE Leak(t)
  BY <1>2, <1>9 DEF Leak, LetsGo, Loses, Holders
<1>10. CASE PushBack(t)
  <2>1. raced' = raced /\ racing' = racing \ {t}  BY <1>10 DEF PushBack
  <2>2. ~raced => pool' = Append(pool, client[t])
    BY <1>0, <1>10 DEF PushBack
  <2> QED  BY <1>0, <1>10, <2>1, <2>2 DEF PushBack, LetsGo, Gives, Holders
<1>11. CASE NotifyOne(t)
  <2>1. Holders' = Holders  BY <1>0, <1>11 DEF NotifyOne, Holders, Waiters
  <2> QED  BY <1>2, <1>11, <2>1 DEF NotifyOne, Still
<1> QED
  BY <1>3, <1>4, <1>5, <1>6, <1>7, <1>8, <1>9, <1>10, <1>11 DEF Step, PoolStep

\* A race mixes up only connections that were made.
LEMMA StepKeepsAllMade ==
  ASSUME IInv, NEW t \in Thread, Step(t)
  PROVE  AllMade' /\ IsFiniteSet(leaked')
<1>0. /\ pool \in Seq(Client) /\ Len(pool) \in Nat
      /\ pc \in [Thread -> PCs]
      /\ client \in [Thread -> Client \union {NoClient}]
      /\ made \subseteq Client
      /\ \A i \in DOMAIN pool : pool[i] \in made
      /\ \A u \in Holders : client[u] \in made
      /\ leaked \subseteq made
      /\ IsFiniteSet(leaked)
  BY DEF IInv, TypeOK, AllMade, Pooled, Hands
<1>1. ASSUME Still \/ Takes(t) \/ (LetsGo(t) /\ (Gives(t) \/ Loses(t)))
      PROVE  AllMade' /\ IsFiniteSet(leaked')
  <2>1. CASE Still
    <3>1. Pooled' = Pooled /\ Hands' = Hands
      BY <2>1 DEF Still, Pooled, Hands
    <3> QED  BY <1>0, <2>1, <3>1 DEF Still, AllMade, IInv
  <2>2. CASE Takes(t)
    <3>1. Holders' = Holders \union {t}  BY <1>0, <2>2 DEF Takes, Holders
    <3>2. CASE TakeFront(t)
      <4>1. Head(pool) = pool[1] /\ 1 \in DOMAIN pool
        BY <1>0, <3>2 DEF TakeFront
      <4>2. \A i \in DOMAIN pool' : i + 1 \in DOMAIN pool /\ pool'[i] = pool[i + 1]
        BY <1>0, <3>2 DEF TakeFront
      <4>3. \A u \in Holders' : client'[u] \in made
        BY <1>0, <2>2, <3>1, <3>2, <4>1 DEF TakeFront, Takes
      <4> QED  BY <1>0, <2>2, <3>2, <4>2, <4>3 DEF TakeFront, Takes, AllMade, Pooled, Hands
    <3>3. CASE CreateClient(t)
      <4>1. PICK c \in Client \ made : /\ client' = [client EXCEPT ![t] = c]
                                       /\ made' = made \union {c}
        BY <3>3 DEF CreateClient
      <4>2. \A u \in Holders' : client'[u] \in made'
        BY <1>0, <3>1, <4>1
      <4> QED  BY <1>0, <2>2, <3>3, <4>1, <4>2 DEF CreateClient, Takes, AllMade, Pooled, Hands
    <3> QED  BY <2>2, <3>2, <3>3 DEF Takes
  <2>3. CASE LetsGo(t) /\ (Gives(t) \/ Loses(t))
    <3>1. /\ Holders' = Holders \ {t}
          /\ \A u \in Holders' : client'[u] = client[u] /\ client[u] \in made
          /\ client[t] \in Client /\ client[t] \in made
      BY <1>0, <2>3 DEF LetsGo, Holders
    <3>2. CASE Gives(t)
      <4>1. \A i \in DOMAIN pool' : pool'[i] \in made
        BY <1>0, <3>1, <3>2 DEF Gives
      <4> QED  BY <1>0, <3>1, <3>2, <4>1 DEF Gives, AllMade, Pooled, Hands
    <3>3. CASE Loses(t)
      <4>1. IsFiniteSet(leaked')  BY <1>0, <3>3, FS_AddElement DEF Loses
      <4> QED  BY <1>0, <3>1, <3>3, <4>1 DEF Loses, AllMade, Pooled, Hands
    <3> QED  BY <2>3, <3>2, <3>3
  <2> QED  BY <1>1, <2>1, <2>2, <2>3
<1>2. CASE PushBack(t)
  <2>1. /\ Holders' = Holders \ {t}
        /\ \A u \in Holders' : client'[u] = client[u] /\ client[u] \in made
        /\ client[t] \in Client /\ client[t] \in made
        /\ UNCHANGED <<made, leaked>>
    BY <1>0, <1>2 DEF PushBack, Holders
  <2>2. \A i \in DOMAIN Append(pool, client[t]) : Append(pool, client[t])[i] \in made
    BY <1>0, <2>1
  <2>3. \A p \in Torn(client[t]) : \A i \in DOMAIN p : p[i] \in made
    <3> SUFFICES ASSUME NEW p \in Torn(client[t]), NEW i \in DOMAIN p
                 PROVE  p[i] \in made
      OBVIOUS
    <3>1. CASE p \in {pool, Append(pool, client[t])}  BY <1>0, <2>2, <3>1
    <3>2. CASE p = [pool EXCEPT ![Len(pool)] = client[t]]
      BY <1>0, <2>1, <3>2
    <3>3. ASSUME NEW x \in made, p = pool \o <<x, client[t]>>
          PROVE  p[i] \in made
      <4>1. /\ DOMAIN p = 1 .. Len(pool) + 2
            /\ \A j \in 1 .. Len(pool) : p[j] = pool[j]
            /\ p[Len(pool) + 1] = x
            /\ p[Len(pool) + 2] = client[t]
        BY <1>0, <2>1, <3>3
      <4>2. i \in 1 .. Len(pool) \/ i = Len(pool) + 1 \/ i = Len(pool) + 2
        BY <1>0, <4>1
      <4> QED  BY <1>0, <2>1, <4>1, <4>2
    <3> QED  BY <3>1, <3>2, <3>3 DEF Torn
  <2>4. \A i \in DOMAIN pool' : pool'[i] \in made
    BY <1>2, <2>2, <2>3 DEF PushBack
  <2> QED  BY <1>0, <2>1, <2>4 DEF AllMade, Pooled, Hands
<1>3. CASE ~PushBack(t)  BY <1>1, <1>3, StepMoves
<1> QED  BY <1>2, <1>3

\* While a thread is in Pop with nothing, or goes in, all places are taken, and
\* no step but CreateClient changes _curr_pool_size.
LEMMA StepKeepsFull ==
  ASSUME IInv, NEW t \in Thread, Step(t)
  PROVE  FullWhenInPop' /\ (curr' = curr \/ (curr < MaxSize /\ pc[t] = "idle"))
<1>0. /\ pc \in [Thread -> PCs]
      /\ curr \in 0 .. MaxSize /\ MaxSize \in Nat
      /\ \A u \in Thread : InPop(u) => curr = MaxSize
  BY MediaPoolAssumption DEF IInv, TypeOK, FullWhenInPop
<1>1. CASE PopBlocks(t)
  <2>1. curr' = MaxSize  BY <1>0, <1>1 DEF PopBlocks
  <2> QED  BY <1>1, <2>1 DEF PopBlocks, FullWhenInPop
<1>2. CASE PopEnters(t) \/ PopResumes(t)
  <2>1. \A u \in Thread : InPop(u)' => InPop(u)
    BY <1>0, <1>2 DEF PopEnters, PopResumes, Acquire, InPop
  <2>2. CASE TakeFront(t)
    BY <1>0, <2>1, <2>2 DEF TakeFront, FullWhenInPop
  <2>3. CASE CreateClient(t)
    <3>1. pool = <<>> /\ curr < MaxSize  BY <2>3 DEF CreateClient
    <3>2. \A u \in Thread : ~InPop(u)  BY <1>0, <3>1
    <3>3. pc[t] = "idle"  BY <1>0, <1>2, <3>2 DEF PopEnters, PopResumes, InPop
    <3> QED  BY <2>1, <3>1, <3>2, <3>3 DEF FullWhenInPop
  <2> QED  BY <1>2, <2>2, <2>3 DEF PopEnters, PopResumes
<1>3. CASE CtorThrows(t) \/ PopTimesOut(t) \/ PopWaitsAgain(t) \/ WakesSpuriously(t)
           \/ DeadlinePasses(t) \/ Connects(t) \/ ConnectFails(t) \/ Push(t)
           \/ Leak(t) \/ PushBack(t) \/ NotifyOne(t)
  <2>1. \A u \in Thread : InPop(u)' => InPop(u)
    BY <1>0, <1>3 DEF CtorThrows, PopTimesOut, ReturnsNothing, PopWaitsAgain,
       WakesSpuriously, DeadlinePasses, Wakes, Connects, ConnectFails, Push, Leak,
       PushBack, NotifyOne, Waiters, InPop
  <2>2. curr' = curr
    BY <1>3 DEF CtorThrows, PopTimesOut, ReturnsNothing, PopWaitsAgain,
       WakesSpuriously, DeadlinePasses, Wakes, Connects, ConnectFails, Push, Leak,
       PushBack, NotifyOne
  <2> QED  BY <1>0, <2>1, <2>2 DEF FullWhenInPop
<1> QED  BY <1>1, <1>2, <1>3 DEF Step, PoolStep

\* A connection that changes hands is counted once more and once less.
LEMMA MoveKeepsAccounting ==
  ASSUME IInv, ~raced, NEW t \in Thread,
         Still \/ Takes(t) \/ (LetsGo(t) /\ (Gives(t) \/ Loses(t)))
  PROVE  curr' = Len(pool') + Cardinality(Holders') + Cardinality(leaked')
<1> DEFINE h == Cardinality(Holders)
           l == Cardinality(leaked)
<1>0. /\ pool \in Seq(Client) /\ Len(pool) \in Nat
      /\ pc \in [Thread -> PCs]
      /\ curr \in 0 .. MaxSize /\ MaxSize \in Nat
      /\ curr = Len(pool) + h + l
      /\ h \in Nat /\ l \in Nat
      /\ \A u \in Holders : client[u] \in Client
      /\ \A u \in Holders : client[u] \notin leaked
      /\ Holders \in SUBSET Thread
  <2>1. Holders \in SUBSET Thread  BY DEF Holders
  <2>2. h \in Nat /\ l \in Nat
    BY <2>1, CountThreads, FS_CardinalityType DEF IInv
  <2> QED  BY <2>1, <2>2, TypeFacts DEF IInv, Accounting, Exclusive
<1>1. CASE Still  BY <1>0, <1>1 DEF Still
<1>2. CASE Takes(t)
  <2>1. Holders' = Holders \union {t}  BY <1>0, <1>2 DEF Takes, Holders
  <2>2. Cardinality(Holders') = h + 1
    BY <1>0, <1>2, <2>1, CountThreads DEF Takes
  <2>3. Cardinality(leaked') = l  BY <1>2 DEF Takes
  <2> HIDE DEF h, l
  <2>4. CASE TakeFront(t)
    <3>1. curr' = curr /\ Len(pool') = Len(pool) - 1
      BY <1>0, <2>4 DEF TakeFront
    <3> QED  BY <1>0, <2>2, <2>3, <3>1
  <2>5. CASE CreateClient(t)
    <3>1. curr' = curr + 1 /\ pool' = pool  BY <2>5 DEF CreateClient
    <3> QED  BY <1>0, <2>2, <2>3, <3>1
  <2> QED  BY <1>2, <2>4, <2>5 DEF Takes
<1>3. CASE LetsGo(t) /\ (Gives(t) \/ Loses(t))
  <2>1. Holders' = Holders \ {t}  BY <1>0, <1>3 DEF LetsGo, Holders
  <2>2. Cardinality(Holders') = h - 1
    BY <1>0, <1>3, <2>1, CountThreads DEF LetsGo
  <2>3. t \in Holders  BY <1>3 DEF LetsGo
  <2>4. CASE Gives(t)
    <3>1. /\ curr' = curr /\ Cardinality(leaked') = l
          /\ Len(pool') = Len(pool) + 1
      BY <1>0, <2>3, <2>4 DEF Gives
    <3> HIDE DEF h, l
    <3> QED  BY <1>0, <2>2, <3>1
  <2>5. CASE Loses(t)
    <3>1. curr' = curr /\ pool' = pool  BY <2>5 DEF Loses
    <3>2. Cardinality(leaked') = l + 1
      BY <1>0, <2>3, <2>5, FS_AddElement DEF Loses, IInv
    <3> HIDE DEF h, l
    <3> QED  BY <1>0, <2>2, <3>1, <3>2
  <2> QED  BY <1>3, <2>4, <2>5
<1> QED  BY <1>1, <1>2, <1>3

\* It is nobody else's: a free one leaves the list, a new one is not made yet.
LEMMA MoveKeepsExclusive ==
  ASSUME IInv, ~raced, NEW t \in Thread,
         Still \/ Takes(t) \/ (LetsGo(t) /\ (Gives(t) \/ Loses(t)))
  PROVE  Exclusive'
<1> DEFINE n == Len(pool)
<1>0. /\ pool \in Seq(Client) /\ n \in Nat /\ DOMAIN pool = 1 .. n
      /\ pc \in [Thread -> PCs]
      /\ client \in [Thread -> Client \union {NoClient}]
      /\ \A u \in Holders : client[u] \in Client
  BY TypeFacts DEF IInv
<1>1. /\ \A i, j \in 1 .. n : pool[i] = pool[j] => i = j
      /\ \A u, v \in Holders : client[u] = client[v] => u = v
      /\ \A u \in Holders : client[u] \notin Pooled /\ client[u] \notin leaked
      /\ \A i \in 1 .. n : pool[i] \in Pooled /\ pool[i] \notin leaked
      /\ \A i \in 1 .. n : pool[i] \in made
      /\ \A u \in Holders : client[u] \in made
      /\ leaked \subseteq made
  BY <1>0 DEF IInv, Exclusive, AllMade, Pooled, Hands
<1>2. ASSUME NEW m \in Nat, DOMAIN pool' = 1 .. m,
             \A i, j \in 1 .. m : pool'[i] = pool'[j] => i = j,
             \A u, v \in Holders' : client'[u] = client'[v] => u = v,
             \A u \in Holders' : /\ \A i \in 1 .. m : pool'[i] # client'[u]
                                 /\ client'[u] \notin leaked',
             \A i \in 1 .. m : pool'[i] \notin leaked'
      PROVE  Exclusive'
  BY <1>2 DEF Exclusive, Pooled
<1> HIDE DEF n
<1>3. CASE Still
  BY <1>3 DEF Still, IInv, Exclusive, Pooled
<1>4. CASE Takes(t) /\ TakeFront(t)
  <2>1. /\ n # 0 /\ Head(pool) = pool[1]
        /\ DOMAIN pool' = 1 .. n - 1
        /\ \A i \in 1 .. n - 1 : pool'[i] = pool[i + 1] /\ i + 1 \in 1 .. n
        /\ 1 \in 1 .. n
    BY <1>0, <1>4 DEF TakeFront, n
  <2>2. /\ client'[t] = pool[1]
        /\ \A u \in Holders : client'[u] = client[u] /\ u # t
    BY <1>0, <1>4, <2>1 DEF TakeFront, Takes, Holders
  <2>3. Holders' = Holders \union {t} /\ leaked' = leaked
    BY <1>0, <1>4 DEF Takes, Holders
  <2>4. \A i, j \in 1 .. n - 1 : pool'[i] = pool'[j] => i = j
    <3> SUFFICES ASSUME NEW i \in 1 .. n - 1, NEW j \in 1 .. n - 1,
                        pool'[i] = pool'[j]
                 PROVE  i = j
      OBVIOUS
    <3>1. i + 1 = j + 1  BY <1>1, <2>1
    <3> QED  BY <1>0, <3>1
  <2>5. \A i \in 1 .. n - 1 : pool'[i] # pool[1]
    <3> SUFFICES ASSUME NEW i \in 1 .. n - 1, pool'[i] = pool[1]  PROVE FALSE
      OBVIOUS
    <3>1. i + 1 = 1  BY <1>1, <2>1
    <3> QED  BY <1>0, <3>1
  <2>6. \A u \in Holders : \A i \in 1 .. n : client[u] # pool[i]  BY <1>1
  <2>7. \A u, v \in Holders' : client'[u] = client'[v] => u = v
    BY <1>1, <2>1, <2>2, <2>3, <2>6
  <2>8. \A u \in Holders' : /\ \A i \in 1 .. n - 1 : pool'[i] # client'[u]
                            /\ client'[u] \notin leaked'
    BY <1>1, <2>1, <2>2, <2>3, <2>5, <2>6
  <2>9. \A i \in 1 .. n - 1 : pool'[i] \notin leaked'  BY <1>1, <2>1, <2>3
  <2>10. n - 1 \in Nat  BY <1>0, <2>1
  <2> QED  BY <1>2, <2>1, <2>4, <2>7, <2>8, <2>9, <2>10
<1>5. CASE Takes(t) /\ CreateClient(t)
  <2>1. PICK c \in Client \ made : client' = [client EXCEPT ![t] = c]
    BY <1>5 DEF CreateClient
  <2>2. /\ client'[t] = c
        /\ \A u \in Holders : client'[u] = client[u] /\ u # t /\ client[u] # c
        /\ pool' = pool /\ leaked' = leaked
        /\ Holders' = Holders \union {t}
    BY <1>0, <1>1, <1>5, <2>1 DEF CreateClient, Takes, Holders
  <2>3. c \notin leaked /\ \A i \in 1 .. n : pool[i] # c  BY <1>1, <2>1
  <2>4. \A u, v \in Holders' : client'[u] = client'[v] => u = v
    BY <1>1, <2>2
  <2>5. \A u \in Holders' : /\ \A i \in 1 .. n : pool'[i] # client'[u]
                            /\ client'[u] \notin leaked'
    BY <1>1, <2>2, <2>3
  <2>6. /\ n \in Nat /\ DOMAIN pool' = 1 .. n
        /\ \A i, j \in 1 .. n : pool'[i] = pool'[j] => i = j
        /\ \A i \in 1 .. n : pool'[i] \notin leaked'
    BY <1>0, <1>1, <2>2
  <2> QED  BY <1>2, <2>4, <2>5, <2>6
<1>6. CASE LetsGo(t) /\ (Gives(t) \/ Loses(t))
  <2>1. /\ t \in Holders /\ Holders' = Holders \ {t}
        /\ \A u \in Holders' : /\ client'[u] = client[u] /\ u \in Holders
                               /\ client[u] # client[t]
    BY <1>0, <1>1, <1>6 DEF LetsGo, Holders
  <2>2. \A u, v \in Holders' : client'[u] = client'[v] => u = v
    BY <1>1, <2>1
  <2>3. CASE Gives(t)
    <3>1. /\ DOMAIN pool' = 1 .. n + 1
          /\ \A i \in 1 .. n : pool'[i] = pool[i]
          /\ pool'[n + 1] = client[t]
          /\ leaked' = leaked
          /\ \A i \in 1 .. n + 1 : i \in 1 .. n \/ i = n + 1
      BY <1>0, <2>1, <2>3 DEF Gives, n
    <3>2. \A i \in 1 .. n : pool[i] # client[t]  BY <1>1, <2>1
    <3>3. \A i, j \in 1 .. n + 1 : pool'[i] = pool'[j] => i = j
      BY <1>1, <3>1, <3>2
    <3>4. \A u \in Holders' : /\ \A i \in 1 .. n + 1 : pool'[i] # client'[u]
                              /\ client'[u] \notin leaked'
      BY <1>1, <2>1, <3>1
    <3>5. \A i \in 1 .. n + 1 : pool'[i] \notin leaked'  BY <1>1, <2>1, <3>1
    <3> QED  BY <1>0, <1>2, <2>2, <3>1, <3>3, <3>4, <3>5
  <2>4. CASE Loses(t)
    <3>1. leaked' = leaked \union {client[t]} /\ pool' = pool  BY <2>4 DEF Loses
    <3>2. \A u \in Holders' : /\ \A i \in 1 .. n : pool'[i] # client'[u]
                              /\ client'[u] \notin leaked'
      BY <1>1, <2>1, <3>1
    <3>3. \A i \in 1 .. n : pool'[i] \notin leaked'  BY <1>1, <2>1, <3>1
    <3> QED  BY <1>0, <1>1, <1>2, <2>2, <3>1, <3>2, <3>3 DEF n
  <2> QED  BY <1>6, <2>3, <2>4
<1> QED  BY <1>3, <1>4, <1>5, <1>6 DEF Takes

LEMMA NextKeepsIInv == IInv /\ [Next]_vars => IInv'
<1> SUFFICES ASSUME IInv, [Next]_vars PROVE IInv'  OBVIOUS
<1>1. ASSUME NEW t \in Thread, Step(t)  PROVE IInv'
  <2>1. TypeOK'  BY <1>1, StepKeepsTypeOK DEF IInv
  <2>2. AllMade' /\ IsFiniteSet(leaked') /\ FullWhenInPop'
    BY <1>1, StepKeepsAllMade, StepKeepsFull
  <2>3. /\ ~raced' => racing' = {}
        /\ ~raced' => ~raced
        /\ ~raced' => Still \/ Takes(t) \/ (LetsGo(t) /\ (Gives(t) \/ Loses(t)))
    BY <1>1, StepMoves
  <2>4. Accounting'  BY <2>3, MoveKeepsAccounting DEF Accounting
  <2>5. Exclusive'
    <3>1. CASE raced'  BY <3>1 DEF Exclusive
    <3>2. CASE ~raced'  BY <2>3, <3>2, MoveKeepsExclusive
    <3> QED  BY <3>1, <3>2
  <2> QED  BY <2>1, <2>2, <2>3, <2>4, <2>5 DEF IInv
<1>2. CASE UNCHANGED vars
  BY <1>2 DEF vars, IInv, TypeOK, AllMade, Pooled, Hands, Holders, FullWhenInPop,
              InPop, Accounting, Exclusive
<1> QED  BY <1>1, <1>2 DEF Next

\* At start the MinSize clients are in the list, each once.
LEMMA InitIInv == Init => IInv
<1> SUFFICES ASSUME Init PROVE IInv  OBVIOUS
<1> USE MediaPoolAssumption
<1>1. /\ pool \in Seq(Client) /\ Len(pool) = MinSize /\ DOMAIN pool = 1 .. MinSize
      /\ \A i, j \in 1 .. MinSize : pool[i] = pool[j] => i = j
  BY DEF Init
<1>2. Holders = {}  BY DEF Init, Holders
<1>3. Cardinality({}) = 0 /\ IsFiniteSet({})  BY FS_EmptySet
<1>4. TypeOK
  <2>1. Pooled \subseteq Client  BY <1>1 DEF Pooled
  <2>2. /\ curr = MinSize /\ silent = 0 /\ racing = {} /\ raced = FALSE
        /\ made = Pooled /\ leaked = {}
    BY DEF Init
  <2>3. /\ pc \in [Thread -> PCs]
        /\ client \in [Thread -> Client \union {NoClient}]
        /\ \A t \in Thread : client[t] = NoClient
    BY DEF Init, PCs
  <2>4. curr \in 0 .. MaxSize /\ silent \in 0 .. MaxSize  BY <2>2
  <2>5. \A t \in Thread : client[t] # NoClient <=> t \in Holders
    BY <1>2, <2>3
  <2> QED  BY <1>1, <2>1, <2>2, <2>3, <2>4, <2>5 DEF TypeOK
<1>5. AllMade  BY <1>2 DEF Init, AllMade, Hands
<1>6. FullWhenInPop  BY DEF Init, FullWhenInPop, InPop
<1>7. Accounting  BY <1>1, <1>2, <1>3 DEF Init, Accounting
<1>8. Exclusive  BY <1>1, <1>2 DEF Init, Exclusive
<1> QED  BY <1>3, <1>4, <1>5, <1>6, <1>7, <1>8 DEF Init, IInv

LEMMA InvariantIInv == Spec => []IInv
BY InitIInv, NextKeepsIInv, PTL DEF Spec

\* The members of the pool and the client pointers of the handlers keep their
\* types, also after a race in push_back, and a thread has a client exactly
\* between Pop and Push.
THEOREM TypeCorrect == Spec => []TypeOK
<1>1. IInv => TypeOK  BY DEF IInv
<1> QED  BY <1>1, InvariantIInv, PTL

\* _curr_pool_size is the number of connections that are free, in use, or left
\* behind by a handler, until a push_back outside the lock races.
THEOREM AccountingCorrect == Spec => []Accounting
<1>1. IInv => Accounting  BY DEF IInv
<1> QED  BY <1>1, InvariantIInv, PTL

\* Until then Pop gives a connection to one thread, and never one that a
\* handler left behind.
THEOREM ExclusiveCorrect == Spec => []Exclusive
<1>1. IInv => Exclusive  BY DEF IInv
<1> QED  BY <1>1, InvariantIInv, PTL

-----------------------------------------------------------------------------
(* Wake-ups *)

Awake(x) == IF x \in {"woken", "timedout", "notify"} THEN 1 ELSE 0

\* A connection that gets free is notified or put back without notice, and who
\* is on its way takes one, passes the notice on, or finds nothing.
LEMMA StepLosesNoWakeup ==
  ASSUME IInv, NoLostWakeup, NEW t \in Thread, Step(t), ~raced', Waiters' # {},
         Accounting', TypeOK'
  PROVE  Len(pool') <= Cardinality(OnTheWay') + silent' /\ curr' = MaxSize
<1> DEFINE o == Cardinality(OnTheWay)
           p == Cardinality(OnTheWay')
<1>0. /\ pool \in Seq(Client) /\ Len(pool) \in Nat
      /\ pc \in [Thread -> PCs]
      /\ MaxSize \in Nat /\ silent \in 0 .. MaxSize /\ silent' \in 0 .. MaxSize
      /\ o \in Nat /\ p \in Nat
      /\ OnTheWay \in SUBSET Thread
      /\ ~raced
      /\ \A u \in Thread : InPop(u) => curr = MaxSize
      /\ \A u \in Holders : client[u] \in Client
  <2>1. OnTheWay \in SUBSET Thread /\ OnTheWay' \in SUBSET Thread  BY DEF OnTheWay
  <2>2. o \in Nat /\ p \in Nat  BY <2>1, CountThreads
  <2>3. ~raced  BY StepMoves
  <2> QED  BY <2>1, <2>2, <2>3, TypeFacts DEF IInv, FullWhenInPop, TypeOK
<1>1. Waiters # {} => Len(pool) <= o + silent /\ curr = MaxSize
  BY <1>0 DEF NoLostWakeup
<1>2. ASSUME NEW y \in PCs, pc' = [pc EXCEPT ![t] = y]
      PROVE  /\ p = o + Awake(y) - Awake(pc[t])
             /\ y # "waiting" => Waiters # {}
  <2>1. OnTheWay' = IF y \in {"woken", "timedout", "notify"}
                    THEN OnTheWay \union {t} ELSE OnTheWay \ {t}
    BY <1>0, <1>2 DEF OnTheWay
  <2>2. t \in OnTheWay <=> pc[t] \in {"woken", "timedout", "notify"}
    BY DEF OnTheWay
  <2>3. t \in OnTheWay => OnTheWay \union {t} = OnTheWay  OBVIOUS
  <2>4. t \notin OnTheWay => OnTheWay \ {t} = OnTheWay  OBVIOUS
  <2>5. y # "waiting" => Waiters # {}  BY <1>0, <1>2 DEF Waiters
  <2>6. /\ t \notin OnTheWay => Cardinality(OnTheWay \union {t}) = o + 1
        /\ t \in OnTheWay => Cardinality(OnTheWay \ {t}) = o - 1
    BY <1>0, CountThreads
  <2>7. p = o + Awake(y) - Awake(pc[t])
    <3>1. CASE y \in {"woken", "timedout", "notify"}
      <4>1. Cardinality(OnTheWay') = IF t \in OnTheWay THEN o ELSE o + 1
        BY <2>1, <2>3, <2>6, <3>1
      <4>2. Awake(y) = 1 /\ Awake(pc[t]) = IF t \in OnTheWay THEN 1 ELSE 0
        BY <2>2, <3>1 DEF Awake
      <4> HIDE DEF o
      <4> QED  BY <1>0, <4>1, <4>2
    <3>2. CASE y \notin {"woken", "timedout", "notify"}
      <4>1. Cardinality(OnTheWay') = IF t \in OnTheWay THEN o - 1 ELSE o
        BY <2>1, <2>4, <2>6, <3>2
      <4>2. Awake(y) = 0 /\ Awake(pc[t]) = IF t \in OnTheWay THEN 1 ELSE 0
        BY <2>2, <3>2 DEF Awake
      <4> HIDE DEF o
      <4> QED  BY <1>0, <4>1, <4>2
    <3> QED  BY <3>1, <3>2
  <2> QED  BY <2>5, <2>7
<1> HIDE DEF o, p
<1>3. CASE PopEnters(t)
  <2>0. /\ pc[t] = "idle"
        /\ pc' = [pc EXCEPT ![t] = "connect"]
        /\ silent' = silent
    BY <1>3 DEF PopEnters, Acquire
  <2>1. p = o /\ Waiters # {} /\ silent' = silent
    BY <1>0, <1>2, <2>0 DEF Awake, PCs
  <2>2. TakeFront(t)
    BY <1>0, <1>1, <1>3, <2>1 DEF PopEnters, CreateClient
  <2>3. Len(pool') = Len(pool) - 1 /\ curr' = curr  BY <1>0, <2>2 DEF TakeFront
  <2> QED  BY <1>0, <1>1, <2>1, <2>3 DEF p
<1>4. CASE PopResumes(t)
  <2>0. /\ pc[t] \in {"woken", "timedout"}
        /\ pc' = [pc EXCEPT ![t] = "connect"]
        /\ silent' = silent
    BY <1>4 DEF PopResumes, Acquire
  <2>1. p = o - 1 /\ Waiters # {} /\ silent' = silent
    BY <1>0, <1>2, <2>0 DEF Awake, PCs
  <2>2. Len(pool') = Len(pool) - 1 /\ curr' = curr
    BY <1>0, <1>4 DEF PopResumes, TakeFront
  <2> QED  BY <1>0, <1>1, <2>1, <2>2 DEF p
<1>5. CASE PopBlocks(t) \/ PopWaitsAgain(t) \/ PopTimesOut(t)
  <2>1. pool' = <<>> /\ curr' = MaxSize
    <3>1. CASE PopBlocks(t)
      <4>1. curr \in 0 .. MaxSize  BY DEF IInv, TypeOK
      <4> QED  BY <1>0, <3>1, <4>1 DEF PopBlocks
    <3>2. CASE PopWaitsAgain(t)  BY <1>0, <3>2 DEF PopWaitsAgain, InPop
    <3>3. CASE PopTimesOut(t)  BY <1>0, <3>3 DEF PopTimesOut, ReturnsNothing, InPop
    <3> QED  BY <1>5, <3>1, <3>2, <3>3
  <2>2. Len(pool') = 0  BY <2>1
  <2> QED  BY <1>0, <2>1, <2>2 DEF p
<1>6. CASE CtorThrows(t)
  <2>1. p = o /\ Waiters # {}
    BY <1>0, <1>2, <1>6 DEF CtorThrows, ReturnsNothing, Awake, PCs
  <2> QED  BY <1>0, <1>1, <1>6, <2>1 DEF CtorThrows, ReturnsNothing, p
<1>7. CASE WakesSpuriously(t) \/ DeadlinePasses(t)
  <2>1. PICK y \in {"woken", "timedout"} : pc' = [pc EXCEPT ![t] = y]
    BY <1>7 DEF WakesSpuriously, DeadlinePasses, Wakes
  <2>0. pc[t] = "waiting"  BY <1>7 DEF WakesSpuriously, DeadlinePasses, Wakes
  <2>2. p = o + 1 /\ Waiters # {}
    <3>1. y \in PCs /\ y # "waiting" /\ Awake(y) = 1  BY <2>1 DEF Awake, PCs
    <3>2. Awake(pc[t]) = 0  BY <2>0 DEF Awake
    <3>3. p = o + Awake(y) - Awake(pc[t]) /\ Waiters # {}
      BY <1>2, <2>1, <3>1
    <3> QED  BY <1>0, <3>1, <3>2, <3>3
  <2>3. UNCHANGED <<pool, curr, silent>>
    BY <1>7 DEF WakesSpuriously, DeadlinePasses, Wakes
  <2> QED  BY <1>0, <1>1, <2>2, <2>3 DEF p
<1>8. CASE Connects(t) \/ ConnectFails(t) \/ Leak(t)
  <2>1. PICK y \in {"call", "pushback", "idle"} : pc' = [pc EXCEPT ![t] = y]
    BY <1>8 DEF Connects, ConnectFails, Leak
  <2>0. pc[t] \in {"connect", "call"}  BY <1>8 DEF Connects, ConnectFails, Leak
  <2>2. p = o /\ Waiters # {}
    <3>1. y \in PCs /\ y # "waiting" /\ Awake(y) = 0  BY <2>1 DEF Awake, PCs
    <3>2. Awake(pc[t]) = 0  BY <2>0 DEF Awake
    <3>3. p = o + Awake(y) - Awake(pc[t]) /\ Waiters # {}
      BY <1>2, <2>1, <3>1
    <3> QED  BY <1>0, <3>1, <3>2, <3>3
  <2>3. UNCHANGED <<pool, curr, silent>>  BY <1>8 DEF Connects, ConnectFails, Leak
  <2> QED  BY <1>0, <1>1, <2>2, <2>3 DEF p
<1>9. CASE Push(t)
  <2>0. pc[t] = "call" /\ pc' = [pc EXCEPT ![t] = "notify"]  BY <1>9 DEF Push
  <2>1. p = o + 1 /\ Waiters # {}  BY <1>0, <1>2, <2>0 DEF Awake, PCs
  <2>2. client[t] \in Client  BY <1>0, <1>9 DEF Push, Holders
  <2>3. Len(pool') = Len(pool) + 1 /\ curr' = curr /\ silent' = silent
    BY <1>0, <1>9, <2>2 DEF Push
  <2> QED  BY <1>0, <1>1, <2>1, <2>3 DEF p
<1>10. CASE PushBack(t)
  <2>0. pc[t] = "pushback" /\ pc' = [pc EXCEPT ![t] = "idle"]
    BY <1>10 DEF PushBack
  <2>1. p = o /\ Waiters # {}  BY <1>0, <1>2, <2>0 DEF Awake, PCs
  <2>2. client[t] \in Client  BY <1>0, <1>10 DEF PushBack, Holders
  <2>3. /\ Len(pool') = Len(pool) + 1
        /\ curr' = curr
        /\ silent' = IF silent < MaxSize THEN silent + 1 ELSE silent
    <3>1. t \notin racing  BY <1>0 DEF IInv
    <3> QED  BY <1>0, <1>10, <2>2, <3>1 DEF PushBack
  <2>4. CASE silent < MaxSize  BY <1>0, <1>1, <2>1, <2>3, <2>4 DEF p
  <2>5. CASE silent = MaxSize
    <3>1. /\ curr' = Len(pool') + Cardinality(Holders') + Cardinality(leaked')
          /\ curr' \in 0 .. MaxSize
      BY DEF Accounting, TypeOK
    <3>2. Cardinality(Holders') \in Nat /\ Cardinality(leaked') \in Nat
      <4>1. Holders' \in SUBSET Thread  BY DEF Holders
      <4>2. IsFiniteSet(leaked')  BY StepKeepsAllMade
      <4> QED  BY <4>1, <4>2, CountThreads, FS_CardinalityType
    <3>3. Len(pool') \in Nat  BY <1>0, <2>3
    <3>4. Len(pool') <= MaxSize  BY <1>0, <3>1, <3>2, <3>3
    <3> QED  BY <1>0, <1>1, <2>1, <2>3, <2>5, <3>3, <3>4 DEF p
  <2> QED  BY <1>0, <2>4, <2>5
<1>11. CASE NotifyOne(t)
  <2>1. Waiters # {}  BY <1>0, <1>11 DEF NotifyOne, Waiters
  <2>2. PICK w \in Waiters : pc' = [pc EXCEPT ![t] = "idle", ![w] = "woken"]
    BY <1>11, <2>1 DEF NotifyOne
  <2>3. /\ t \in OnTheWay /\ w \notin OnTheWay /\ w # t
        /\ OnTheWay' = (OnTheWay \ {t}) \union {w}
    BY <1>0, <1>11, <2>2 DEF NotifyOne, OnTheWay, Waiters
  <2>4. Cardinality(OnTheWay \ {t}) = o - 1
    BY <1>0, <2>3, CountThreads DEF o
  <2>5. p = o
    <3> DEFINE A == OnTheWay \ {t}
    <3>1. A \in SUBSET Thread /\ w \notin A  BY <1>0, <2>3
    <3>2. Cardinality(A \union {w}) = Cardinality(A) + 1
      <4> HIDE DEF A
      <4> QED  BY <3>1, CountThreads
    <3> QED  BY <1>0, <2>3, <2>4, <3>2 DEF p
  <2>6. UNCHANGED <<pool, curr, silent>>  BY <1>11 DEF NotifyOne
  <2> QED  BY <1>0, <1>1, <2>1, <2>5, <2>6 DEF p
<1> QED
  BY <1>3, <1>4, <1>5, <1>6, <1>7, <1>8, <1>9, <1>10, <1>11 DEF Step, PoolStep

\* Until a race, a thread sleeps in Pop beside a free connection only when
\* another is about to take it or a failed Connect has put it back without
\* notify_one, and never while the pool may still grow.
THEOREM WakeupsCorrect == Spec => []NoLostWakeup
<1>1. Init => NoLostWakeup  BY DEF Init, NoLostWakeup, Waiters
<1>2. IInv /\ IInv' /\ NoLostWakeup /\ [Next]_vars => NoLostWakeup'
  <2> SUFFICES ASSUME IInv, IInv', NoLostWakeup, [Next]_vars
               PROVE  NoLostWakeup'
    OBVIOUS
  <2>1. CASE Next
    BY <2>1, StepLosesNoWakeup DEF Next, IInv, NoLostWakeup
  <2>2. CASE UNCHANGED vars
    BY <2>2 DEF vars, NoLostWakeup, Waiters, OnTheWay
  <2> QED  BY <2>1, <2>2
<1> QED  BY <1>1, <1>2, InvariantIInv, PTL DEF Spec

-----------------------------------------------------------------------------
(* The leases, until a race *)

\* Also after a race: a connection is constructed for every count, and never
\* another one in its place.
MadeCounted == IsFiniteSet(made) /\ Cardinality(made) = curr

LEMMA InitMadeCounted == Init => MadeCounted
<1> SUFFICES ASSUME Init  PROVE MadeCounted
  OBVIOUS
<1>1. /\ pool \in Seq(Client) /\ Len(pool) = MinSize /\ DOMAIN pool = 1 .. MinSize
      /\ \A i, j \in 1 .. MinSize : pool[i] = pool[j] => i = j
      /\ made = Pooled /\ curr = MinSize /\ MinSize \in Nat
  BY MediaPoolAssumption DEF Init
<1>2. made = Front(pool, MinSize)  BY <1>1 DEF Pooled, Front
<1>3. IsFiniteSet(Front(pool, MinSize)) /\ Cardinality(Front(pool, MinSize)) = MinSize
  BY <1>1, PartCounted
<1> QED  BY <1>1, <1>2, <1>3 DEF MadeCounted

LEMMA StepKeepsMadeCounted ==
  ASSUME MadeCounted, NEW t \in Thread, Step(t)
  PROVE  MadeCounted'
<1>1. CASE CreateClient(t)
  <2>1. PICK c \in Client \ made : made' = made \union {c}  BY <1>1 DEF CreateClient
  <2>2. curr' = curr + 1  BY <1>1 DEF CreateClient
  <2> QED  BY <2>1, <2>2, FS_AddElement DEF MadeCounted
<1>2. CASE ~CreateClient(t)
  <2>1. UNCHANGED <<curr, made>>
    BY <1>2 DEF Step, PoolStep, PopEnters, TakeFront, CtorThrows, ReturnsNothing,
       PopBlocks, WakesSpuriously, DeadlinePasses, Wakes, Connects, ConnectFails, Push,
       Leak, PopResumes, PopWaitsAgain, PopTimesOut, PushBack, NotifyOne
  <2> QED  BY <2>1 DEF MadeCounted
<1> QED  BY <1>1, <1>2

\* The two modules count alike.
LEMMA LeaseCounts ==
  ASSUME NEW S  PROVE Lease!Cardinality(S) = Cardinality(S)
BY Zenon DEF Lease!Cardinality, Cardinality

LEMMA InitLeases == Init => Lease!Init
<1> SUFFICES ASSUME Init  PROVE Lease!Init
  OBVIOUS
<1>1. TypeOK /\ MadeCounted  BY InitIInv, InitMadeCounted DEF IInv
<1>2. made \subseteq Client /\ Cardinality(made) <= MaxSize
  BY <1>1, MediaPoolAssumption DEF TypeOK, MadeCounted
<1> QED  BY <1>2, LeaseCounts DEF Init, Lease!Init

\* A step that meets nobody takes a lease of a free connection, opens one within
\* the budget, or gives the lease back: a handler that leaves with a connection
\* does not use it any more.
LEMMA StepLeases ==
  ASSUME IInv, MadeCounted, NEW t \in Thread, Step(t), ~raced'
  PROVE  Lease!Next \/ UNCHANGED <<made, client>>
<1>0. /\ ~raced /\ Exclusive
      /\ Still \/ Takes(t) \/ (LetsGo(t) /\ (Gives(t) \/ Loses(t)))
  BY StepMoves DEF IInv
<1>1. /\ \A u \in Thread : client[u] # NoClient <=> u \in Holders
      /\ pool \in Seq(Client) /\ NoClient \notin Client
      /\ curr \in 0 .. MaxSize /\ MaxSize \in Nat
  BY MediaPoolAssumption DEF IInv, TypeOK
<1>2. CASE Still  BY <1>2 DEF Still
<1>3. CASE Takes(t) /\ TakeFront(t)
  <2> DEFINE c == Head(pool)
  <2>1. c \in Pooled /\ client' = [client EXCEPT ![t] = c] /\ made' = made
    BY <1>1, <1>3 DEF TakeFront, Pooled
  <2>2. client[t] = NoClient  BY <1>1, <1>3 DEF Takes
  <2>3. c \in made  BY <2>1 DEF IInv, AllMade
  <2>4. c \notin Lease!Leased
    <3> SUFFICES ASSUME NEW u \in Thread, client[u] = c, client[u] # NoClient
                 PROVE  FALSE
      BY DEF Lease!Leased
    <3>1. u \in Holders  BY <1>1
    <3> QED  BY <1>0, <2>1, <3>1 DEF Exclusive
  <2> HIDE DEF c
  <2> QED  BY <2>1, <2>2, <2>3, <2>4 DEF Lease!Lease, Lease!Next
<1>4. CASE Takes(t) /\ CreateClient(t)
  <2>1. Cardinality(made) < MaxSize  BY <1>4 DEF CreateClient, MadeCounted
  <2>2. client[t] = NoClient  BY <1>1, <1>4 DEF Takes
  <2>3. \E c \in Client \ made : /\ client' = [client EXCEPT ![t] = c]
                                 /\ made' = made \union {c}
    BY <1>4 DEF CreateClient
  <2> QED  BY <2>1, <2>2, <2>3, LeaseCounts DEF Lease!OpenAndLease, Lease!Next
<1>5. CASE LetsGo(t) /\ (Gives(t) \/ Loses(t))
  <2>1. made' = made  BY <1>5 DEF Gives, Loses
  <2>2. client[t] # NoClient /\ client' = [client EXCEPT ![t] = NoClient]
    BY <1>1, <1>5 DEF LetsGo
  <2> QED  BY <2>1, <2>2 DEF Lease!Return, Lease!Next
<1> QED  BY <1>0, <1>2, <1>3, <1>4, <1>5 DEF Takes

\* Until a push_back outside the lock races, the pool implements the leases that
\* the pool of socialNetwork implements: never more than MaxSize connections,
\* those that handlers have left with included, each with one thread.
THEOREM LeasesCorrect == Spec => LeasesUntilRace
<1>1. MadeCounted /\ [Next]_vars => MadeCounted'
  <2> SUFFICES ASSUME MadeCounted, [Next]_vars  PROVE MadeCounted'
    OBVIOUS
  <2>1. CASE Next  BY <2>1, StepKeepsMadeCounted DEF Next
  <2>2. CASE UNCHANGED vars  BY <2>2 DEF vars, MadeCounted
  <2> QED  BY <2>1, <2>2
<1>2. Spec => []MadeCounted  BY <1>1, InitMadeCounted, PTL DEF Spec
<1>3. IInv /\ MadeCounted /\ [Next]_vars => [raced' \/ Lease!Next]_<<made, client>>
  <2> SUFFICES ASSUME IInv, MadeCounted, [Next]_vars, ~raced'
               PROVE  Lease!Next \/ UNCHANGED <<made, client>>
    OBVIOUS
  <2>1. CASE Next  BY <2>1, StepLeases DEF Next
  <2>2. CASE UNCHANGED vars  BY <2>2 DEF vars
  <2> QED  BY <2>1, <2>2
<1> QED
  BY <1>2, <1>3, InitLeases, InvariantIInv, PTL DEF Spec, LeasesUntilRace

-----------------------------------------------------------------------------
(* Without the history: a pool whose connections can be made *)

\* As long as no Connect throws, nothing races: a connection is in one place and
\* nobody sleeps beside one that he is not going to be told of.
THEOREM ConnectedPoolIsSound ==
  Spec /\ [](\A t \in Thread : pc[t] # "pushback") =>
    []( /\ curr = Len(pool) + Cardinality(Holders) + Cardinality(leaked)
        /\ \A i, j \in DOMAIN pool : pool[i] = pool[j] => i = j
        /\ \A t, u \in Holders : client[t] = client[u] => t = u
        /\ \A t \in Holders : client[t] \notin Pooled
        /\ Waiters # {} => Len(pool) <= Cardinality(OnTheWay) )
<1> DEFINE Connecting == \A t \in Thread : pc[t] # "pushback"
           J == ~raced /\ silent = 0
           Right == /\ curr = Len(pool) + Cardinality(Holders) + Cardinality(leaked)
                    /\ \A i, j \in DOMAIN pool : pool[i] = pool[j] => i = j
                    /\ \A t, u \in Holders : client[t] = client[u] => t = u
                    /\ \A t \in Holders : client[t] \notin Pooled
                    /\ Waiters # {} => Len(pool) <= Cardinality(OnTheWay)
<1>1. Init => J  BY DEF Init
<1>2. TypeOK /\ J /\ Connecting /\ Connecting' /\ [Next]_vars => J'
  <2> SUFFICES ASSUME TypeOK, J, Connecting, Connecting', [Next]_vars PROVE J'
    OBVIOUS
  <2>1. CASE UNCHANGED vars  BY <2>1 DEF vars
  <2>2. ASSUME NEW t \in Thread, Uses(t) PROVE ~raced'
    <3>1. {u \in Thread \ {t} : pc[u] = "pushback"} = {}  OBVIOUS
    <3> QED  BY <2>2, <3>1, Zenon DEF Uses
  <2>3. ASSUME NEW t \in Thread, PopEnters(t) \/ PopResumes(t) \/ CtorThrows(t) \/ PopTimesOut(t)
        PROVE J'
    <3>1. Uses(t) /\ silent' = silent
      BY <2>3 DEF PopEnters, PopResumes, Acquire, CtorThrows, PopTimesOut, ReturnsNothing
    <3> QED  BY <2>2, <3>1
  <2>4. ASSUME NEW t \in Thread, PopBlocks(t) \/ PopWaitsAgain(t) PROVE J'
    <3>1. Uses(t) /\ silent' = 0  BY <2>4 DEF PopBlocks, PopWaitsAgain
    <3> QED  BY <2>2, <3>1
  <2>5. ASSUME NEW t \in Thread, Push(t) PROVE J'
    <3>1. Uses(t) /\ silent' = silent  BY <2>5 DEF Push
    <3> QED  BY <2>2, <3>1
  <2>6. ASSUME NEW t \in Thread,
               \/ WakesSpuriously(t) \/ DeadlinePasses(t) \/ Connects(t)
               \/ Leak(t) \/ NotifyOne(t)
        PROVE J'
    BY <2>6 DEF WakesSpuriously, DeadlinePasses, Wakes, Connects, Leak, NotifyOne, raceVars
  <2>7. ASSUME NEW t \in Thread, ConnectFails(t) \/ PushBack(t) PROVE FALSE
    BY <2>7 DEF ConnectFails, PushBack, TypeOK
  <2> QED
    BY <2>1, <2>3, <2>4, <2>5, <2>6, <2>7 DEF Next, Step, PoolStep
<1>3. TypeOK /\ Accounting /\ Exclusive /\ NoLostWakeup /\ J => Right
  <2> SUFFICES ASSUME TypeOK, Accounting, Exclusive, NoLostWakeup, J PROVE Right
    OBVIOUS
  <2>1. Waiters # {} => Len(pool) <= Cardinality(OnTheWay)
    <3>1. Cardinality(OnTheWay) \in Nat  BY CountThreads DEF OnTheWay
    <3> QED  BY <3>1 DEF NoLostWakeup
  <2> QED  BY <2>1 DEF Accounting, Exclusive
<1> HIDE DEF Connecting, J, Right
<1>4. Spec /\ []Connecting => []Right
  BY <1>1, <1>2, <1>3, TypeCorrect, AccountingCorrect, ExclusiveCorrect, WakeupsCorrect,
     PTL DEF Spec
<1> QED  BY <1>4 DEF Connecting, Right

-----------------------------------------------------------------------------
(***************************************************************************)
(* The lists of reviews: the inductive invariant.  NoGap asks only that    *)
(* what Redis lacks is on its way.  To keep it, the reviews on their way   *)
(* have to be in order too (NewestFirst), unless a reader or a deletion    *)
(* that they do not know of has made them stale, and who is not stale has  *)
(* to know the list as it is (Known).  PageRight rests on what a reader    *)
(* has after Redis and before MongoDB (FrontTaken).                        *)
(***************************************************************************)

\* The reviews that are not in the list yet.
Early == {r \in Review : state[r] \in {"idle", "creating", "pushing"}}

\* No review twice, and each in the list from its insert or push on, the one of
\* an upload that has failed included.
Arrived ==
  /\ OkAreListed
  /\ Early \cap Listed = {}
  /\ \A r \in Review :
       /\ late[r] # "nothing" => state[r] \in {"done", "failed"}
       /\ late[r] \in {"insert", "push"} => r \notin Listed
       /\ late[r] = "zadd" => r \in Listed

\* Redis, and what a reader is going to put into it, is in MongoDB.
Inside ==
  /\ cached \subseteq Listed
  /\ \A d \in Reader : slice[d] \subseteq Listed

\* A reader fills Redis while it reads, and the storage answers it only then.
Busy ==
  \A d \in Reader :
    /\ fill[d] # "none" => phase[d] = "reading"
    /\ phase[d] \in {"idle", "short"} => outcome[d] = "none"

\* Who does not count as stale knows of all that Redis has to have.
Known ==
  /\ \A d \in Fillers \ stale : slice[d] = Slice(d) /\ Pending \subseteq stale
  /\ \A r \in Review \ stale : state[r] = "adding" => cached # {}

\* No gap, neither now nor when the uploads on their way have been added.
NewestFirst ==
  Sorted /\ ~gap /\ cached # {} =>
    \A y \in cached \cup (Pending \ stale) : \A x \in Listed \ cached :
      y < x => x \in Pending

\* Nothing goes on beside a calm reader.
CalmIsStill ==
  calm # {} => Sorted /\ \A r \in Review : state[r] \in {"idle", "done", "failed"}

\* What Redis gave a calm reader is where its page of MongoDB begins.
FrontTaken ==
  \A d \in calm :
    /\ phase[d] # "idle"
    /\ phase[d] = "short" =>
         /\ page[d][1] + Len(ids[d]) < page[d][2]
         /\ ids[d] = <<>> \/ page[d][1] + Len(ids[d]) <= Len(list)
         /\ ids[d] = SubSeq(list, page[d][1] + 1, page[d][1] + Len(ids[d]))

ListIInv ==
  /\ ListTypeOK /\ Arrived /\ Inside /\ Busy /\ Known /\ NewestFirst
  /\ CalmIsStill /\ FrontTaken /\ PageRight

-----------------------------------------------------------------------------
(* zrevrange *)

\* What zrevrange gives before x.
Above(S, x) == {y \in S : y > x}

\* The ranks of the members of a finite set of numbers are 0, 1, 2, ...
LEMMA RanksCount ==
  ASSUME NEW S \in SUBSET Nat, IsFiniteSet(S)
  PROVE  /\ Cardinality(S) \in Nat
         /\ \A i \in 1 .. Cardinality(S) : \E x \in S : Cardinality(Above(S, x)) = i - 1
         /\ \A x, y \in S : Cardinality(Above(S, x)) = Cardinality(Above(S, y)) => x = y
<1> DEFINE k == Cardinality(S)
           R(x) == Cardinality(Above(S, x))
           f == [x \in S |-> R(x) + 1]
           K == 1 .. k
<1>1. k \in Nat  BY FS_CardinalityType
<1>2. \A x \in S : IsFiniteSet(Above(S, x)) /\ R(x) \in Nat
  BY FS_Subset, FS_CardinalityType DEF Above
<1>3. ASSUME NEW x \in S  PROVE R(x) < k
  <2>1. Above(S, x) \subseteq S /\ x \notin Above(S, x)  BY DEF Above
  <2>2. R(x) <= k /\ R(x) # k  BY <2>1, FS_Subset
  <2>3. R(x) \in Nat  BY <1>2
  <2> HIDE DEF k, R
  <2> QED  BY <1>1, <2>2, <2>3
<1>4. ASSUME NEW x \in S, NEW y \in S, y > x  PROVE R(x) # R(y)
  <2>1. Above(S, y) \subseteq Above(S, x)
    <3> SUFFICES ASSUME NEW z \in S, z > y  PROVE z > x
      BY DEF Above
    <3>1. x \in Nat /\ y \in Nat /\ z \in Nat  OBVIOUS
    <3> QED  BY <1>4, <3>1
  <2>2. y \in Above(S, x) /\ y \notin Above(S, y)  BY <1>4 DEF Above
  <2> QED  BY <1>2, <2>1, <2>2, FS_Subset
<1>5. \A x, y \in S : R(x) = R(y) => x = y
  <2> SUFFICES ASSUME NEW x \in S, NEW y \in S, R(x) = R(y)  PROVE x = y
    OBVIOUS
  <2>1. ~(x > y) /\ ~(y > x)  BY <1>4
  <2> QED  BY <2>1
<1>6. f \in Injection(S, K)
  <2>1. ASSUME NEW x \in S  PROVE f[x] \in K
    <3>1. f[x] = R(x) + 1 /\ R(x) \in Nat /\ R(x) < k  BY <1>2, <1>3
    <3> HIDE DEF k, f, R
    <3> QED  BY <1>1, <3>1
  <2>2. ASSUME NEW x \in S, NEW y \in S, f[x] = f[y]  PROVE x = y
    <3>1. R(x) \in Nat /\ R(y) \in Nat /\ f[x] = R(x) + 1 /\ f[y] = R(y) + 1
      BY <1>2
    <3> DEFINE m == R(x)
               n == R(y)
    <3>2. m \in Nat /\ n \in Nat /\ m + 1 = n + 1  BY <2>2, <3>1
    <3>3. m = n
      <4> HIDE DEF m, n
      <4> QED  BY <3>2
    <3> QED  BY <1>5, <3>3
  <2>3. f \in [S -> K]
    <3> HIDE DEF K, R
    <3> QED  BY <2>1
  <2> HIDE DEF f, K
  <2> QED  BY <2>2, <2>3, Fun_IsInj
<1>7. IsFiniteSet(K) /\ Cardinality(K) = k
  BY <1>1, FS_Interval
<1>8. f \in Surjection(S, K)
  <2> HIDE DEF k, f, K
  <2> QED  BY <1>6, <1>7, FS_Injection DEF k
<1>9. ASSUME NEW i \in K  PROVE \E x \in S : R(x) = i - 1
  <2>1. \E x \in S : f[x] = i
    <3> HIDE DEF f, K
    <3> QED  BY <1>8, Fun_IsSurj DEF Surjection
  <2>2. PICK x \in S : f[x] = i  BY <2>1
  <2>3. f[x] = R(x) + 1 /\ R(x) \in Nat  BY <1>2
  <2> HIDE DEF f, R
  <2> QED  BY <2>2, <2>3
<1> QED  BY <1>1, <1>5, <1>9

\* Descending is the sequence that has every member at the place of its rank.
LEMMA DescendingIs ==
  ASSUME NEW S \in SUBSET Nat, IsFiniteSet(S)
  PROVE  /\ Descending(S) \in Seq(S)
         /\ Len(Descending(S)) = Cardinality(S)
         /\ \A i \in 1 .. Cardinality(S) : \A x \in S :
              Cardinality(Above(S, x)) = i - 1 => Descending(S)[i] = x
<1> DEFINE k == Cardinality(S)
           g(i) == CHOOSE x \in S : Cardinality({y \in S : y > x}) = i - 1
           D == [i \in 1 .. k |-> g(i)]
<1>1. k \in Nat  BY FS_CardinalityType
<1>2. ASSUME NEW i \in 1 .. k
      PROVE  g(i) \in S /\ Cardinality(Above(S, g(i))) = i - 1
  <2>1. \E x \in S : Cardinality({y \in S : y > x}) = i - 1
    BY RanksCount DEF Above
  <2> QED  BY <2>1 DEF Above
<1>3. Descending(S) = D  BY DEF Descending
<1>4. D \in Seq(S) /\ Len(D) = k
  <2>1. \A i \in 1 .. k : g(i) \in S  BY <1>2
  <2> HIDE DEF k, g
  <2> QED  BY <1>1, <2>1
<1>5. ASSUME NEW i \in 1 .. k, NEW x \in S, Cardinality(Above(S, x)) = i - 1
      PROVE  D[i] = x
  <2>1. D[i] = g(i)  OBVIOUS
  <2>2. g(i) \in S /\ Cardinality(Above(S, g(i))) = Cardinality(Above(S, x))
    BY <1>2, <1>5
  <2> HIDE DEF D, g
  <2> QED  BY <2>1, <2>2, RanksCount
<1> HIDE DEF D
<1> QED  BY <1>3, <1>4, <1>5

\* Redis ranks by timestamp what it has of the front of a sorted list, and so
\* gives it in the order of the list.
LEMMA CachedInOrder ==
  ASSUME ListTypeOK, OkAreListed, cached \subseteq Listed
  PROVE  /\ IsFiniteSet(cached) /\ Cardinality(cached) \in Nat
         /\ Sorted /\ (\A y \in cached : \A x \in Listed \ cached : ~(y < x))
              => /\ Cardinality(cached) <= Len(list)
                 /\ \A i \in 1 .. Cardinality(cached) : Descending(cached)[i] = list[i]
<1> DEFINE n == Len(list)
           k == Cardinality(cached)
           K == {i \in 1 .. n : list[i] \in cached}
           f == [i \in K |-> list[i]]
<1>0. /\ n \in Nat /\ list \in Seq(Review) /\ Review \subseteq Nat
      /\ \A i \in 1 .. n : list[i] \in Review /\ list[i] \in Nat
      /\ \A i, j \in 1 .. n : list[i] = list[j] => i = j
  <2>1. list \in Seq(Review) /\ Review \subseteq Nat
    BY ListAssumption DEF ListTypeOK
  <2>2. \A i, j \in 1 .. n : list[i] = list[j] => i = j
    BY DEF OkAreListed
  <2>3. n \in Nat /\ \A i \in 1 .. n : list[i] \in Review
    BY <2>1
  <2>4. \A i \in 1 .. n : list[i] \in Nat
    BY <2>1, <2>3
  <2> QED  BY <2>1, <2>2, <2>3, <2>4
<1>1. IsFiniteSet(cached) /\ k \in Nat
  <2>1. IsFiniteSet(Listed)  BY <1>0, PartCounted DEF Listed, Front
  <2> QED  BY <2>1, FS_Subset, FS_CardinalityType
<1> SUFFICES ASSUME Sorted, \A y \in cached : \A x \in Listed \ cached : ~(y < x)
             PROVE  k <= n /\ \A i \in 1 .. k : Descending(cached)[i] = list[i]
  BY <1>1
<1>2. \A i, j \in 1 .. n : i < j /\ list[j] \in cached => list[i] \in cached
  <2> SUFFICES ASSUME NEW i \in 1 .. n, NEW j \in 1 .. n, i < j, list[j] \in cached,
                      list[i] \notin cached
               PROVE  FALSE
    OBVIOUS
  <2>1. list[i] \in Listed \ cached  BY DEF Listed
  <2>2. list[j] < list[i]  BY DEF Sorted
  <2> QED  BY <2>1, <2>2
<1>3. IsFiniteSet(K) /\ Cardinality(K) <= n /\ Cardinality(K) \in Nat
  <2>1. IsFiniteSet(1 .. n) /\ Cardinality(1 .. n) = n  BY <1>0, FS_Interval
  <2> QED  BY <2>1, FS_Subset, FS_CardinalityType
<1>4. k = Cardinality(K)
  <2>1. f \in [K -> cached]  OBVIOUS
  <2>2. \A i, j \in K : f[i] = f[j] => i = j  BY <1>0
  <2>3. \A p \in cached : \E i \in K : f[i] = p
    <3> SUFFICES ASSUME NEW p \in cached  PROVE \E i \in K : f[i] = p
      OBVIOUS
    <3>1. PICK i \in 1 .. n : list[i] = p  BY DEF Listed
    <3> QED  BY <3>1
  <2> HIDE DEF K, f
  <2>4. f \in Surjection(K, cached) /\ f \in Injection(K, cached)
    BY <2>1, <2>2, <2>3, Fun_IsInj, Fun_IsSurj
  <2> QED  BY <1>3, <2>4, FS_Surjection
<1>5. ASSUME NEW i \in K  PROVE i <= k
  <2>1. 1 .. i \subseteq K
    <3> SUFFICES ASSUME NEW j \in 1 .. i  PROVE j \in K
      OBVIOUS
    <3>1. j \in 1 .. n /\ (j < i \/ j = i)  BY <1>0
    <3> QED  BY <1>2, <3>1
  <2>2. Cardinality(1 .. i) = i  BY <1>0, FS_Interval
  <2>3. Cardinality(1 .. i) <= Cardinality(K)
    <3> HIDE DEF K
    <3> QED  BY <1>3, <2>1, FS_Subset
  <2> QED  BY <1>4, <2>2, <2>3
<1>6. K = 1 .. k
  <2>1. K \subseteq 1 .. k  BY <1>1, <1>5
  <2>2. IsFiniteSet(1 .. k) /\ Cardinality(1 .. k) = k  BY <1>1, FS_Interval
  <2> HIDE DEF K, k
  <2> QED  BY <1>4, <2>1, <2>2, FS_Subset
<1>7. k <= n
  <2> HIDE DEF K, k
  <2> QED  BY <1>3, <1>4
<1>8. ASSUME NEW i \in 1 .. k  PROVE Descending(cached)[i] = list[i]
  <2>1. i \in K /\ i \in 1 .. n /\ i - 1 \in Nat /\ i - 1 <= n
    BY <1>0, <1>1, <1>6, <1>7
  <2>2. Above(cached, list[i]) = Front(list, i - 1)
    <3>1. ASSUME NEW j \in 1 .. i - 1  PROVE list[j] \in Above(cached, list[i])
      <4>1. j \in 1 .. n /\ j < i  BY <2>1
      <4>2. list[j] \in cached  BY <1>2, <2>1, <4>1
      <4>3. list[i] < list[j]  BY <2>1, <4>1 DEF Sorted
      <4>4. list[i] \in Nat /\ list[j] \in Nat  BY <1>0, <2>1, <4>1
      <4> QED  BY <4>2, <4>3, <4>4 DEF Above
    <3>2. ASSUME NEW y \in Above(cached, list[i])
          PROVE  y \in {list[j] : j \in 1 .. i - 1}
      <4>1. y \in cached /\ y > list[i]  BY DEF Above
      <4>2. PICK j \in 1 .. n : list[j] = y  BY <4>1 DEF Listed
      <4>3. list[i] \in Nat /\ list[j] \in Nat  BY <1>0, <2>1
      <4>4. ~(i < j)  BY <2>1, <4>1, <4>2, <4>3 DEF Sorted
      <4>5. i # j  BY <4>1, <4>2, <4>3
      <4>6. j \in 1 .. i - 1  BY <2>1, <4>4, <4>5
      <4> QED  BY <4>2, <4>6
    <3> QED  BY <3>1, <3>2 DEF Front
  <2>3. Cardinality(Front(list, i - 1)) = i - 1
    <3> HIDE DEF K, k, f
    <3>1. i - 1 \in Nat /\ i - 1 <= Len(list) /\ list \in Seq(Review)
      BY <1>0, <2>1
    <3>2. \A p, q \in 1 .. Len(list) : list[p] = list[q] => p = q
      BY <1>0
    <3> QED  BY <3>1, <3>2, PartCounted
  <2>4. list[i] \in cached  BY <2>1
  <2>5. cached \in SUBSET Nat  BY <1>0 DEF ListTypeOK
  <2>6. Cardinality(Above(cached, list[i])) = i - 1  BY <2>2, <2>3
  <2>7. i \in 1 .. Cardinality(cached)  OBVIOUS
  <2> HIDE DEF k, K, f
  <2>8. \A p \in 1 .. Cardinality(cached) : \A x \in cached :
          Cardinality(Above(cached, x)) = p - 1 => Descending(cached)[p] = x
    BY <1>1, <2>5, DescendingIs
  <2> QED  BY <2>4, <2>6, <2>7, <2>8
<1> QED  BY <1>7, <1>8

\* A page of Redis.
LEMMA RedisPage ==
  ASSUME ListTypeOK, OkAreListed, cached \subseteq Listed,
         NEW a \in Nat, NEW b \in Nat, a < b
  PROVE  /\ InRedis(a, b) \in Seq(Review)
         /\ Len(InRedis(a, b)) <= b - a
         /\ Sorted /\ (\A y \in cached : \A x \in Listed \ cached : ~(y < x))
              => /\ InRedis(a, b) = <<>> \/ a + Len(InRedis(a, b)) <= Len(list)
                 /\ InRedis(a, b) = SubSeq(list, a + 1, a + Len(InRedis(a, b)))
<1> DEFINE k == Cardinality(cached)
           D == Descending(cached)
           m == Least(b, k)
           P == SubSeq(D, a + 1, m)
<1>1. /\ k \in Nat /\ IsFiniteSet(cached) /\ cached \in SUBSET Nat
      /\ list \in Seq(Review) /\ Len(list) \in Nat
  BY CachedInOrder, ListAssumption DEF ListTypeOK
<1>2. D \in Seq(Review) /\ Len(D) = k
  <2>1. D \in Seq(cached) /\ Len(D) = k  BY <1>1, DescendingIs
  <2>2. cached \subseteq Review  BY DEF ListTypeOK
  <2> QED  BY <2>1, <2>2
<1>3. m \in Nat /\ m <= k /\ m <= b  BY <1>1 DEF Least
<1>4. InRedis(a, b) = P  BY DEF InRedis
<1> HIDE DEF k, D, m
<1>5. /\ P \in Seq(Review)
      /\ Len(P) = IF a < m THEN m - a ELSE 0
      /\ \A i \in 1 .. Len(P) : a + i \in 1 .. k /\ P[i] = D[a + i]
  BY <1>2, <1>3, PartOfSeq
<1>6. Len(P) <= b - a  BY <1>3, <1>5
<1>7. ASSUME Sorted, \A y \in cached : \A x \in Listed \ cached : ~(y < x)
      PROVE  (P = <<>> \/ a + Len(P) <= Len(list)) /\ P = SubSeq(list, a + 1, a + Len(P))
  <2>1. k <= Len(list) /\ \A i \in 1 .. k : D[i] = list[i]
    BY <1>7, CachedInOrder DEF k, D
  <2>2. CASE a < m
    <3>1. a + Len(P) = m /\ m <= Len(list)  BY <1>1, <1>3, <1>5, <2>1, <2>2
    <3> DEFINE Q == SubSeq(list, a + 1, m)
    <3>2. /\ Q \in Seq(Review) /\ Len(Q) = m - a
          /\ \A i \in 1 .. Len(Q) : Q[i] = list[a + i]
      BY <1>1, <1>3, <2>2, <3>1, PartOfSeq
    <3> HIDE DEF P, Q
    <3>3. \A i \in 1 .. Len(P) : P[i] = Q[i]
      BY <1>5, <2>1, <2>2, <3>2
    <3>4. P = Q
      <4>1. Len(P) = Len(Q) /\ P \in Seq(Review) /\ Q \in Seq(Review)
        BY <1>5, <2>2, <3>2
      <4> QED  BY <3>3, <4>1, SeqEqual
    <3> QED  BY <3>1, <3>4 DEF Q
  <2>3. CASE ~(a < m)
    <3>1. Len(P) = 0 /\ P = <<>>  BY <1>5, <2>3
    <3>2. SubSeq(list, a + 1, a + 0) = <<>>  BY SubSeqEmpty
    <3> QED  BY <3>1, <3>2
  <2> QED  BY <2>2, <2>3
<1> QED  BY <1>4, <1>5, <1>6, <1>7

\* What a reader takes from MongoDB begins where Redis ended.
LEMMA RestIs ==
  ASSUME ListTypeOK, NEW d \in Reader,
         page[d][1] + Len(ids[d]) <= page[d][2]
  PROVE  /\ page[d][1] \in Nat /\ page[d][2] \in Nat
         /\ Rest(d) \in Seq(Review)
         /\ Len(ids[d] \o Rest(d)) <= page[d][2] - page[d][1]
         /\ ids[d] \o Rest(d) \in Seq(Review)
         /\ /\ ids[d] = <<>> \/ page[d][1] + Len(ids[d]) <= Len(list)
            /\ ids[d] = SubSeq(list, page[d][1] + 1, page[d][1] + Len(ids[d]))
            => ids[d] \o Rest(d) =
                 SubSeq(list, page[d][1] + 1, Least(page[d][2], Len(list)))
<1> DEFINE a == page[d][1]
           b == page[d][2]
           L == Len(ids[d])
           m == Least(b, Len(list))
<1>1. /\ a \in Nat /\ b \in Nat /\ L \in Nat /\ Len(list) \in Nat
      /\ list \in Seq(Review) /\ ids[d] \in Seq(Review)
  BY ListAssumption DEF ListTypeOK
<1>2. m \in Nat /\ m <= b /\ m <= Len(list)  BY <1>1 DEF Least
<1>3. Rest(d) = SubSeq(list, a + L + 1, m)  BY DEF Rest
<1> HIDE DEF a, b, L, m
<1>4. /\ Rest(d) \in Seq(Review)
      /\ Len(Rest(d)) = IF a + L < m THEN m - (a + L) ELSE 0
  BY <1>1, <1>2, <1>3, PartOfSeq
<1>5. /\ ids[d] \o Rest(d) \in Seq(Review)
      /\ Len(ids[d] \o Rest(d)) = L + Len(Rest(d))
  <2>1. Rest(d) \in Seq(Review) /\ ids[d] \in Seq(Review)  BY <1>1, <1>4
  <2> HIDE DEF L
  <2>2. Len(ids[d]) = L  BY DEF L
  <2> QED  BY <2>1, <2>2
<1>6. L + Len(Rest(d)) <= b - a
  BY <1>1, <1>2, <1>4 DEF a, b, L
<1>7. ASSUME ids[d] = <<>> \/ a + L <= Len(list), ids[d] = SubSeq(list, a + 1, a + L)
      PROVE  ids[d] \o Rest(d) = SubSeq(list, a + 1, m)
  <2>1. CASE ids[d] = <<>>
    <3>1. L = 0  BY <2>1 DEF L
    <3>2. ids[d] \o Rest(d) = Rest(d)  BY <1>4, <2>1, ConcatEmptySeq
    <3>3. a + L + 1 = a + 1  BY <1>1, <3>1
    <3> QED  BY <1>3, <3>2, <3>3
  <2>2. CASE ids[d] # <<>>
    <3>1. a + L <= Len(list) /\ L > 0
      BY <1>1, <1>7, <2>2 DEF L
    <3>2. a + L <= m  BY <1>1, <3>1 DEF m, Least, a, b, L
    <3>3. /\ a + 1 \in 1 .. Len(list) + 1
          /\ a + L \in (a + 1) - 1 .. Len(list)
          /\ m \in a + L .. Len(list)
      BY <1>1, <1>2, <3>1, <3>2
    <3>4. SubSeq(list, a + 1, a + L) \o SubSeq(list, (a + L) + 1, m) = SubSeq(list, a + 1, m)
      BY <1>1, <3>3, ConcatAdjacentSubSeq
    <3> QED  BY <1>3, <1>7, <3>4
  <2> QED  BY <2>1, <2>2
<1> QED  BY <1>1, <1>4, <1>5, <1>6, <1>7 DEF a, b, L, m

-----------------------------------------------------------------------------
(* The type invariant *)

\* A review in front of the list.
LEMMA Listing ==
  ASSUME ListTypeOK, NEW r \in Review, list' = <<r>> \o list
  PROVE  /\ list' \in Seq(Review)
         /\ Listed' = Listed \cup {r}
         /\ Sorted' => Sorted /\ \A x \in Listed : x < r
         /\ r \notin Listed /\ (\A i, j \in 1 .. Len(list) : list[i] = list[j] => i = j)
              => \A i, j \in 1 .. Len(list') : list'[i] = list'[j] => i = j
<1>0. list \in Seq(Review)  BY DEF ListTypeOK
<1>1. /\ list' \in Seq(Review)
      /\ Len(list') = Len(list) + 1 /\ Len(list) \in Nat
      /\ list'[1] = r
      /\ \A i \in 1 .. Len(list) : list'[i + 1] = list[i] /\ i + 1 \in 1 .. Len(list')
      /\ \A i \in 1 .. Len(list') : i # 1 => list'[i] = list[i - 1] /\ i - 1 \in 1 .. Len(list)
      /\ Members(list') = Members(list) \cup {r}
  <2> DEFINE t == list'
  <2>1. t = <<r>> \o list  OBVIOUS
  <2> HIDE DEF t
  <2>2. /\ t \in Seq(Review)
        /\ Len(t) = Len(list) + 1 /\ Len(list) \in Nat
        /\ t[1] = r
        /\ \A i \in 1 .. Len(list) : t[i + 1] = list[i] /\ i + 1 \in 1 .. Len(t)
        /\ \A i \in 1 .. Len(t) : i # 1 => t[i] = list[i - 1] /\ i - 1 \in 1 .. Len(list)
        /\ Members(t) = Members(list) \cup {r}
    BY <1>0, <2>1, InFront
  <2> QED  BY <2>2 DEF t
<1>2. Listed' = Listed \cup {r}  BY <1>1 DEF Listed, Members
<1>3. ASSUME Sorted'  PROVE Sorted /\ \A x \in Listed : x < r
  <2>1. \A i, j \in 1 .. Len(list') : i < j => list'[j] < list'[i]
    BY <1>3 DEF Sorted
  <2>2. ASSUME NEW i \in 1 .. Len(list), NEW j \in 1 .. Len(list), i < j
        PROVE  list[j] < list[i]
    <3>1. i + 1 < j + 1  BY <2>2
    <3> QED  BY <1>1, <2>1, <3>1
  <2>3. ASSUME NEW x \in Listed  PROVE x < r
    <3>1. PICK i \in 1 .. Len(list) : x = list[i]  BY DEF Listed
    <3>2. 1 \in 1 .. Len(list') /\ i + 1 \in 1 .. Len(list') /\ 1 < i + 1
      BY <1>1
    <3> QED  BY <1>1, <2>1, <3>1, <3>2
  <2> QED  BY <2>2, <2>3 DEF Sorted
<1>4. ASSUME r \notin Listed, \A i, j \in 1 .. Len(list) : list[i] = list[j] => i = j,
             NEW i \in 1 .. Len(list'), NEW j \in 1 .. Len(list'), list'[i] = list'[j]
      PROVE  i = j
  <2>1. ASSUME NEW p \in 1 .. Len(list'), p # 1  PROVE list'[p] # r
    BY <1>1, <1>4, <2>1 DEF Listed
  <2>2. CASE i = 1 \/ j = 1  BY <1>1, <1>4, <2>1, <2>2
  <2>3. CASE i # 1 /\ j # 1
    <3>1. list[i - 1] = list[j - 1] /\ i - 1 \in 1 .. Len(list) /\ j - 1 \in 1 .. Len(list)
      BY <1>1, <1>4, <2>3
    <3>2. i - 1 = j - 1  BY <1>4, <3>1
    <3> QED  BY <3>2
  <2> QED  BY <2>2, <2>3
<1> QED  BY <1>1, <1>2, <1>3, <1>4

\* The steps that put a review into the list.
Lists(r) ==
  /\ state[r] \in {"creating", "pushing"} \/ late[r] \in {"insert", "push"}
  /\ list' = <<r>> \o list

LEMMA InsertLists ==
  ASSUME NEW r \in Review, Insert(r)
  PROVE  Lists(r)
<1>1. <<r>> = <<r>> \o <<>>  OBVIOUS
<1> QED  BY <1>1 DEF Insert, Goes, Lists

LEMMA UploadKeepsType ==
  ASSUME ListTypeOK, NEW r \in Review,
         \/ StoreReview(r) \/ FindMovie(r) \/ FindMovieFails(r)
         \/ Insert(r) \/ InsertRefused(r) \/ PushReview(r) \/ MongoFails(r)
         \/ Count(r) \/ CountFails(r) \/ Add(r) \/ AddFails(r)
         \/ LateListing(r) \/ LateAdd(r)
  PROVE  ListTypeOK'
<1> USE ListAssumption DEF ListTypeOK, readVars
<1>0. Fillers \subseteq Reader /\ failures + 1 \in Nat
  BY DEF Fillers
<1>1. CASE StoreReview(r)  BY <1>1 DEF StoreReview
<1>2. CASE FindMovie(r)  BY <1>2 DEF FindMovie, Goes
<1>3. CASE FindMovieFails(r)  BY <1>0, <1>3 DEF FindMovieFails, Goes, Failure
<1>4. CASE Insert(r)
  <2>1. list' \in Seq(Review)  BY <1>4, InsertLists, Listing DEF Lists
  <2> QED  BY <1>0, <1>4, <2>1 DEF Insert, Goes, MeetsFillers
<1>5. CASE InsertRefused(r)  BY <1>5 DEF InsertRefused, Goes
<1>6. CASE PushReview(r)
  <2>1. list' \in Seq(Review)  BY <1>6, Listing DEF PushReview
  <2> QED  BY <1>0, <1>6, <2>1 DEF PushReview, Goes, MeetsFillers
<1>7. CASE MongoFails(r)  BY <1>0, <1>7 DEF MongoFails, Goes, Failure
<1>8. CASE Count(r)  BY <1>0, <1>8 DEF Count, Goes, MeetsFillers
<1>9. CASE CountFails(r)
  BY <1>0, <1>9 DEF CountFails, Goes, Skipped, MeetsFillers, Failure
<1>10. CASE Add(r)  BY <1>0, <1>10 DEF Add, Goes, MeetsFillers
<1>11. CASE AddFails(r)
  BY <1>0, <1>11 DEF AddFails, Goes, MeetsFillers, Failure
<1>12. CASE LateListing(r)
  <2>1. list' \in Seq(Review)  BY <1>12, Listing DEF LateListing
  <2>2. stale' \subseteq Reader \cup Review /\ gap' \in BOOLEAN
    BY <1>0, <1>12 DEF LateListing, Skipped, MeetsFillers
  <2> QED  BY <1>12, <2>1, <2>2 DEF LateListing
<1>13. CASE LateAdd(r)  BY <1>13 DEF LateAdd
<1> QED
  BY <1>1, <1>2, <1>3, <1>4, <1>5, <1>6, <1>7, <1>8, <1>9, <1>10, <1>11, <1>12, <1>13

LEMMA ReaderKeepsType ==
  ASSUME ListTypeOK, OkAreListed, Inside, NEW d \in Reader,
         \/ AskRedis(d) \/ AskMongo(d) \/ AskMongoFails(d)
         \/ ReadReviews(d) \/ ReadReviewsFails(d)
         \/ Del(d) \/ Zadd(d) \/ FillFails(d) \/ Return(d) \/ Again(d)
  PROVE  ListTypeOK'
<1> USE ListAssumption DEF ListTypeOK
<1>0. Pending \subseteq Review /\ failures + 1 \in Nat
  BY DEF Pending
<1>1. CASE AskRedis(d)
  <2>1. PICK p \in Page :
          /\ p[1] < p[2]
          /\ page' = [page EXCEPT ![d] = p]
          /\ ids' = [ids EXCEPT ![d] = InRedis(p[1], p[2])]
          /\ phase' = [phase EXCEPT ![d] =
               IF p[1] + Len(ids'[d]) < p[2] THEN "short" ELSE "reading"]
    BY <1>1 DEF AskRedis
  <2>2. p[1] \in Nat /\ p[2] \in Nat  OBVIOUS
  <2>3. InRedis(p[1], p[2]) \in Seq(Review) /\ Len(InRedis(p[1], p[2])) <= p[2] - p[1]
    BY <2>1, <2>2, RedisPage DEF Inside
  <2>4. ids' \in [Reader -> Seq(Review)] /\ page' \in [Reader -> Page]
    BY <2>1, <2>3
  <2>5. phase' \in [Reader -> {"idle", "short", "reading", "done", "failed"}]
    BY <2>1
  <2>6. ASSUME NEW e \in Reader, phase'[e] # "idle"
        PROVE  Len(ids'[e]) <= page'[e][2] - page'[e][1]
    <3>1. CASE e = d  BY <2>1, <2>3, <3>1
    <3>2. CASE e # d
      <4>1. ids'[e] = ids[e] /\ page'[e] = page[e] /\ phase'[e] = phase[e]
        BY <2>1, <3>2
      <4> QED  BY <2>6, <4>1
    <3> QED  BY <3>1, <3>2
  <2>7. calm' \subseteq Reader  BY <1>1 DEF AskRedis
  <2> QED  BY <1>1, <2>4, <2>5, <2>6, <2>7 DEF AskRedis
<1>2. CASE AskMongo(d)
  <2>1. phase[d] = "short" /\ phase' = [phase EXCEPT ![d] = "reading"]
        /\ ids' = [ids EXCEPT ![d] = ids[d] \o Rest(d)]
    BY <1>2 DEF AskMongo
  <2>2. /\ page[d][1] \in Nat /\ page[d][2] \in Nat
        /\ Len(ids[d]) \in Nat
        /\ page[d][1] + Len(ids[d]) <= page[d][2]
    <3>1. page[d] \in Nat \X Nat /\ ids[d] \in Seq(Review)  OBVIOUS
    <3>2. Len(ids[d]) <= page[d][2] - page[d][1]  BY <2>1
    <3> QED  BY <3>1, <3>2
  <2>3. /\ ids[d] \o Rest(d) \in Seq(Review)
        /\ Len(ids[d] \o Rest(d)) <= page[d][2] - page[d][1]
    BY <2>2, RestIs
  <2>4. ids' \in [Reader -> Seq(Review)]  BY <2>1, <2>3
  <2>5. phase' \in [Reader -> {"idle", "short", "reading", "done", "failed"}]
    BY <2>1
  <2>6. ASSUME NEW e \in Reader, phase'[e] # "idle"
        PROVE  Len(ids'[e]) <= page'[e][2] - page'[e][1]
    <3>0. page' = page  BY <1>2 DEF AskMongo
    <3>1. CASE e = d  BY <2>1, <2>3, <3>0, <3>1
    <3>2. CASE e # d
      <4>1. ids'[e] = ids[e] /\ phase'[e] = phase[e]
        BY <2>1, <3>2
      <4> QED  BY <2>6, <3>0, <4>1
    <3> QED  BY <3>1, <3>2
  <2>7. Slice(d) \subseteq Review
    BY DEF Slice, Least
  <2>8. slice' \in [Reader -> SUBSET Review]
    BY <1>2, <2>7 DEF AskMongo
  <2>9. fill' \in [Reader -> {"none", "del", "zadd", "over", "threw"}]
    BY <1>2 DEF AskMongo
  <2>10. stale' \subseteq Reader \cup Review  BY <1>0, <1>2 DEF AskMongo
  <2> QED
    BY <1>2, <2>4, <2>5, <2>6, <2>8, <2>9, <2>10 DEF AskMongo
<1>3. CASE AskMongoFails(d)  BY <1>0, <1>3 DEF AskMongoFails, Failure
<1>4. CASE ReadReviews(d)  BY <1>4 DEF ReadReviews
<1>5. CASE ReadReviewsFails(d)  BY <1>0, <1>5 DEF ReadReviewsFails, Failure
<1>6. CASE Del(d)  BY <1>0, <1>6 DEF Del, Fills, Vanishes
<1>7. CASE Zadd(d)  BY <1>7 DEF Zadd, Fills
<1>8. CASE FillFails(d)  BY <1>0, <1>8 DEF FillFails, Fills, Failure
<1>9. CASE Return(d)  BY <1>9 DEF Return
<1>10. CASE Again(d)
  <2>1. /\ ids' = [ids EXCEPT ![d] = <<>>] /\ phase' = [phase EXCEPT ![d] = "idle"]
        /\ page' = page
    BY <1>10 DEF Again
  <2>2. ids' \in [Reader -> Seq(Review)]  BY <2>1
  <2>3. ASSUME NEW e \in Reader, phase'[e] # "idle"
        PROVE  Len(ids'[e]) <= page'[e][2] - page'[e][1]
    <3>1. e # d  BY <2>1, <2>3
    <3>2. ids'[e] = ids[e] /\ phase'[e] = phase[e]  BY <2>1, <3>1
    <3> QED  BY <2>1, <2>3, <3>2
  <2> QED  BY <1>10, <2>2, <2>3 DEF Again
<1> QED
  BY <1>1, <1>2, <1>3, <1>4, <1>5, <1>6, <1>7, <1>8, <1>9, <1>10

LEMMA LosingKeepsType ==
  ASSUME ListTypeOK, LoseCache
  PROVE  ListTypeOK'
<1>1. failures' \in 0 .. MaxFailures
  BY ListAssumption DEF ListTypeOK, LoseCache, Failure
<1>2. Pending \subseteq Review  BY DEF Pending
<1> QED
  BY <1>1, <1>2 DEF ListTypeOK, LoseCache, Vanishes, readVars

LEMMA ListNextKeepsType ==
  ASSUME ListIInv, ListNext
  PROVE  ListTypeOK'
<1>1. ListTypeOK /\ OkAreListed /\ Inside  BY DEF ListIInv, Arrived
<1> QED
  BY <1>1, UploadKeepsType, ReaderKeepsType, LosingKeepsType DEF ListNext

-----------------------------------------------------------------------------
(* What the steps leave alone *)

\* The steps of an upload and of a reader.
Uploads(r) ==
  \/ StoreReview(r) \/ FindMovie(r) \/ FindMovieFails(r)
  \/ Insert(r) \/ InsertRefused(r) \/ PushReview(r) \/ MongoFails(r)
  \/ Count(r) \/ CountFails(r) \/ Add(r) \/ AddFails(r)
  \/ LateListing(r) \/ LateAdd(r)

Reads(d) ==
  \/ AskRedis(d) \/ AskMongo(d) \/ AskMongoFails(d)
  \/ ReadReviews(d) \/ ReadReviewsFails(d)
  \/ Del(d) \/ Zadd(d) \/ FillFails(d) \/ Return(d) \/ Again(d)

LEMMA ListNextIs ==
  ASSUME ListNext
  PROVE  (\E r \in Review : Uploads(r)) \/ (\E d \in Reader : Reads(d)) \/ LoseCache
BY DEF ListNext, Uploads, Reads

LEMMA UploadsLeave ==
  ASSUME NEW r \in Review, Uploads(r)
  PROVE  UNCHANGED readVars
BY DEF Uploads, StoreReview, FindMovie, FindMovieFails, Insert, InsertRefused,
       PushReview, MongoFails, Count, CountFails, Add, AddFails, LateListing, LateAdd

LEMMA ReadsLeave ==
  ASSUME NEW d \in Reader, Reads(d)
  PROVE  UNCHANGED <<store, state, late, list>>
BY DEF Reads, AskRedis, AskMongo, AskMongoFails, ReadReviews, ReadReviewsFails,
       Del, Zadd, FillFails, Return, Again, Fills

\* An upload either leaves the list or puts its own review in front of it.
LEMMA UploadsList ==
  ASSUME NEW r \in Review, Uploads(r)
  PROVE  \/ list' = list
         \/ Lists(r) /\ state[r] \in {"creating", "pushing"}
              /\ state' = [state EXCEPT ![r] = "counting"] /\ MeetsFillers(r)
              /\ UNCHANGED <<store, late, cached, calm, gap>>
         \/ Lists(r) /\ late[r] \in {"insert", "push"}
              /\ late' = [late EXCEPT ![r] = "nothing"] /\ Skipped(r)
              /\ UNCHANGED <<store, state, cached>>
<1>1. CASE Insert(r)
  BY <1>1, InsertLists DEF Insert, Goes
<1>2. CASE PushReview(r)  BY <1>2 DEF PushReview, Goes, Lists
<1>3. CASE LateListing(r)  BY <1>3 DEF LateListing, Lists
<1>4. CASE \/ StoreReview(r) \/ FindMovie(r) \/ FindMovieFails(r) \/ InsertRefused(r)
           \/ MongoFails(r) \/ Count(r) \/ CountFails(r) \/ Add(r) \/ AddFails(r)
           \/ LateAdd(r)
  BY <1>4 DEF StoreReview, FindMovie, FindMovieFails, InsertRefused, MongoFails,
              Count, CountFails, Add, AddFails, LateAdd
<1> QED  BY <1>1, <1>2, <1>3, <1>4 DEF Uploads

\* The members of the list stay members.
LEMMA ListGrows ==
  ASSUME ListTypeOK, ListNext
  PROVE  Listed \subseteq Listed'
<1>1. ASSUME NEW r \in Review, Uploads(r)  PROVE Listed \subseteq Listed'
  <2>1. CASE list' = list  BY <2>1 DEF Listed
  <2>2. CASE Lists(r)  BY <2>2, Listing DEF Lists
  <2> QED  BY <1>1, <2>1, <2>2, UploadsList
<1>2. ASSUME NEW d \in Reader, Reads(d)  PROVE Listed \subseteq Listed'
  BY <1>2, ReadsLeave DEF Listed
<1>3. ASSUME LoseCache  PROVE Listed \subseteq Listed'
  BY <1>3 DEF LoseCache, Listed
<1> QED  BY <1>1, <1>2, <1>3, ListNextIs

-----------------------------------------------------------------------------
(* No review twice, and none that arrived lost *)

LEMMA UploadKeepsArrived ==
  ASSUME ListTypeOK, Arrived, NEW r \in Review, Uploads(r)
  PROVE  Arrived'
<1> USE DEF Arrived, OkAreListed, Early
<1>0. /\ state \in [Review -> {"idle", "creating", "pushing", "counting", "adding",
                               "done", "failed"}]
      /\ late \in [Review -> {"nothing", "insert", "push", "zadd"}]
  BY DEF ListTypeOK
<1>1. CASE list' = list
  <2>0. Listed' = Listed  BY <1>1 DEF Listed
  <2>1. CASE StoreReview(r)  BY <1>1, <2>0, <2>1 DEF StoreReview
  <2>2. CASE FindMovie(r) \/ FindMovieFails(r)
    BY <1>0, <1>1, <2>0, <2>2 DEF FindMovie, FindMovieFails, Goes
  <2>3. CASE Insert(r) \/ PushReview(r)
    <3>1. Listed' = Listed \cup {r} /\ r \notin Listed
      BY <2>3, InsertLists, Listing DEF Lists, Insert, PushReview, Goes
    <3> QED  BY <2>0, <3>1
  <2>4. CASE InsertRefused(r) \/ CountFails(r)
    <3>1. /\ \/ state' = [state EXCEPT ![r] = "failed"]
             \/ state' = [state EXCEPT ![r] = "done"] /\ r \in Listed
          /\ late' = late
      BY <2>4 DEF InsertRefused, CountFails, Goes
    <3> QED  BY <1>0, <1>1, <2>0, <3>1
  <2>5. CASE Count(r) \/ Add(r)
    <3>1. /\ \E s \in {"done", "adding"} : state' = [state EXCEPT ![r] = s] /\ r \in Listed
          /\ late' = late /\ late[r] = "nothing"
      BY <1>0, <2>5 DEF Count, Add, Goes
    <3> QED  BY <1>0, <1>1, <2>0, <3>1
  <2>6. CASE MongoFails(r)
    <3>1. /\ state' = [state EXCEPT ![r] = "failed"] /\ r \notin Listed
          /\ \E l \in {"insert", "push"} : late' = [late EXCEPT ![r] = l]
      BY <2>6 DEF MongoFails, Goes
    <3> QED  BY <1>0, <1>1, <2>0, <3>1
  <2>7. CASE AddFails(r)
    <3>1. /\ \E s \in {"done", "failed"} : state' = [state EXCEPT ![r] = s]
          /\ r \in Listed /\ late' = [late EXCEPT ![r] = "zadd"]
      BY <2>7 DEF AddFails, Goes
    <3> QED  BY <1>0, <1>1, <2>0, <3>1
  <2>8. CASE LateListing(r)
    <3>1. Listed' = Listed \cup {r} /\ r \notin Listed
      BY <2>8, Listing DEF LateListing
    <3> QED  BY <2>0, <3>1
  <2>9. CASE LateAdd(r)
    BY <1>0, <1>1, <2>0, <2>9 DEF LateAdd
  <2> QED
    BY <2>1, <2>2, <2>3, <2>4, <2>5, <2>6, <2>7, <2>8, <2>9 DEF Uploads
<1>2. CASE Lists(r) /\ \/ /\ state[r] \in {"creating", "pushing"} /\ late' = late
                          /\ state' = [state EXCEPT ![r] = "counting"]
                       \/ /\ late[r] \in {"insert", "push"} /\ state' = state
                          /\ late' = [late EXCEPT ![r] = "nothing"]
  <2>1. r \notin Listed  BY <1>2 DEF Lists
  <2>2. /\ Listed' = Listed \cup {r}
        /\ \A i, j \in 1 .. Len(list') : list'[i] = list'[j] => i = j
    BY <1>2, <2>1, Listing DEF Lists
  <2>3. \A x \in Review : state'[x] \in {"counting", "adding", "done"} => x \in Listed'
    BY <1>0, <1>2, <2>2
  <2>4. {x \in Review : state'[x] \in {"idle", "creating", "pushing"}} \cap Listed' = {}
    BY <1>0, <1>2, <2>2
  <2>5. \A x \in Review :
          /\ late'[x] # "nothing" => state'[x] \in {"done", "failed"}
          /\ late'[x] \in {"insert", "push"} => x \notin Listed'
          /\ late'[x] = "zadd" => x \in Listed'
    BY <1>0, <1>2, <2>2
  <2> QED  BY <2>2, <2>3, <2>4, <2>5
<1> QED  BY <1>1, <1>2, UploadsList

LEMMA NextKeepsArrived ==
  ASSUME ListTypeOK, Arrived, ListNext
  PROVE  Arrived'
<1>1. ASSUME UNCHANGED <<state, late, list>>  PROVE Arrived'
  BY <1>1 DEF Arrived, OkAreListed, Early, Listed
<1>2. ASSUME NEW d \in Reader, Reads(d)  PROVE Arrived'
  BY <1>1, <1>2, ReadsLeave
<1>3. ASSUME LoseCache  PROVE Arrived'
  BY <1>1, <1>3 DEF LoseCache
<1> QED  BY <1>2, <1>3, UploadKeepsArrived, ListNextIs

-----------------------------------------------------------------------------
(* Redis has nothing that MongoDB does not have *)

LEMMA NextKeepsInside ==
  ASSUME ListTypeOK, Arrived, Inside, ListNext
  PROVE  Inside'
<1>0. Listed \subseteq Listed'  BY ListGrows
<1>1. ASSUME NEW r \in Review, Uploads(r)  PROVE Inside'
  <2>1. slice' = slice  BY <1>1, UploadsLeave DEF readVars
  <2>2. cached' \subseteq cached \cup {r}
    BY <1>1 DEF Uploads, StoreReview, FindMovie, FindMovieFails, Insert, InsertRefused,
                PushReview, MongoFails, Count, CountFails, Add, AddFails,
                LateListing, LateAdd
  <2>3. cached' = cached \/ r \in Listed
    BY <1>1 DEF Uploads, StoreReview, FindMovie, FindMovieFails, Insert, InsertRefused,
                PushReview, MongoFails, Count, CountFails, Add, AddFails,
                LateListing, LateAdd, Goes, Arrived, OkAreListed
  <2> QED  BY <1>0, <2>1, <2>2, <2>3 DEF Inside
<1>2. ASSUME NEW d \in Reader, Reads(d)  PROVE Inside'
  <2>1. \/ slice' = slice
        \/ \E s \in {{}, Slice(d)} : slice' = [slice EXCEPT ![d] = s]
    BY <1>2 DEF Reads, AskRedis, AskMongo, AskMongoFails, ReadReviews, ReadReviewsFails,
                Del, Zadd, FillFails, Return, Again, Fills
  <2>2. Slice(d) \subseteq Listed
    <3>1. Len(list) \in Nat /\ page[d][2] \in Nat
      BY ListAssumption DEF ListTypeOK
    <3>2. 1 .. Least(page[d][2], Len(list)) \subseteq 1 .. Len(list)
      BY <3>1 DEF Least
    <3> QED  BY <3>2 DEF Slice, Listed
  <2>3. slice \in [Reader -> SUBSET Review]  BY DEF ListTypeOK
  <2>4. \A e \in Reader : slice'[e] \subseteq Listed
    BY <2>1, <2>2, <2>3 DEF Inside
  <2>5. cached' \in {cached, {}, cached \cup slice[d]}
    BY <1>2 DEF Reads, AskRedis, AskMongo, AskMongoFails, ReadReviews, ReadReviewsFails,
                Del, Zadd, FillFails, Return, Again, Fills, Vanishes
  <2> QED  BY <1>0, <2>4, <2>5 DEF Inside
<1>3. ASSUME LoseCache  PROVE Inside'
  BY <1>0, <1>3 DEF LoseCache, Vanishes, Inside, readVars
<1> QED  BY <1>1, <1>2, <1>3, ListNextIs

-----------------------------------------------------------------------------
(* Readers that fill Redis *)

LEMMA NextKeepsBusy ==
  ASSUME ListTypeOK, Busy, ListNext
  PROVE  Busy'
<1>1. ASSUME UNCHANGED <<phase, fill, outcome>>  PROVE Busy'
  BY <1>1 DEF Busy
<1>2. ASSUME NEW r \in Review, Uploads(r)  PROVE Busy'
  BY <1>1, <1>2, UploadsLeave DEF readVars
<1>3. ASSUME NEW d \in Reader, Reads(d)  PROVE Busy'
  <2>0. /\ phase \in [Reader -> {"idle", "short", "reading", "done", "failed"}]
        /\ fill \in [Reader -> {"none", "del", "zadd", "over", "threw"}]
        /\ outcome \in [Reader -> {"none", "ok", "duplicated", "incomplete", "failed"}]
    BY DEF ListTypeOK
  <2>1. CASE AskRedis(d)  BY <2>0, <2>1 DEF AskRedis, Busy
  <2>2. CASE AskMongo(d)  BY <2>0, <2>2 DEF AskMongo, Busy
  <2>3. CASE AskMongoFails(d)  BY <2>0, <2>3 DEF AskMongoFails, Busy
  <2>4. CASE ReadReviews(d)  BY <2>0, <2>4 DEF ReadReviews, Busy
  <2>5. CASE ReadReviewsFails(d)  BY <2>0, <2>5 DEF ReadReviewsFails, Busy
  <2>6. CASE Del(d) \/ Zadd(d) \/ FillFails(d)
    BY <2>0, <2>6 DEF Del, Zadd, FillFails, Fills, Busy
  <2>7. CASE Return(d)  BY <2>0, <2>7 DEF Return, Busy
  <2>8. CASE Again(d)  BY <2>0, <2>8 DEF Again, Busy
  <2> QED  BY <1>3, <2>1, <2>2, <2>3, <2>4, <2>5, <2>6, <2>7, <2>8 DEF Reads
<1>4. ASSUME LoseCache  PROVE Busy'
  BY <1>1, <1>4 DEF LoseCache, readVars
<1> QED  BY <1>2, <1>3, <1>4, ListNextIs

\* The steps of an upload: those before its review is in MongoDB, which nobody
\* meets, and the others.
LEMMA UploadsAre ==
  ASSUME ListTypeOK, NEW r \in Review, Uploads(r)
  PROVE  \/ /\ UNCHANGED <<list, cached, stale, gap>>
            /\ Pending' = Pending
            /\ \A x \in Review : state'[x] = "adding" => state[x] = "adding"
         \/ /\ MeetsFillers(r) /\ cached \subseteq cached'
            /\ \E s \in {"counting", "adding", "done", "failed"} :
                 /\ state' = [state EXCEPT ![r] = s]
                 /\ s = "adding" => cached # {}
         \/ MeetsFillers(r) /\ UNCHANGED <<state, cached>>
         \/ cached \subseteq cached' /\ UNCHANGED <<state, list, stale>>
<1> DEFINE Before ==
             /\ UNCHANGED <<list, cached, stale, gap>>
             /\ Pending' = Pending
             /\ \A x \in Review : state'[x] = "adding" => state[x] = "adding"
<1>0. state \in [Review -> {"idle", "creating", "pushing", "counting", "adding",
                             "done", "failed"}]
  BY DEF ListTypeOK
<1>1. ASSUME UNCHANGED <<list, cached, stale, gap>>,
             \/ state' = state
             \/ /\ state[r] \in {"idle", "creating", "pushing"}
                /\ \E s \in {"creating", "pushing", "failed"} : state' = [state EXCEPT ![r] = s]
      PROVE  Before
  <2>1. \A x \in Review : /\ state'[x] = "adding" <=> state[x] = "adding"
                          /\ state'[x] = "counting" <=> state[x] = "counting"
    BY <1>0, <1>1
  <2> QED  BY <1>1, <2>1 DEF Pending
<1>2. CASE StoreReview(r)
  <2>1. UNCHANGED <<state, list, cached, stale, gap>>  BY <1>2 DEF StoreReview
  <2> QED  BY <1>1, <2>1
<1>3. CASE FindMovie(r) \/ FindMovieFails(r)
  <2>1. /\ UNCHANGED <<list, cached, stale, gap>> /\ state[r] = "idle"
        /\ \E s \in {"creating", "pushing"} : state' = [state EXCEPT ![r] = s]
    BY <1>3 DEF FindMovie, FindMovieFails, Goes
  <2> QED  BY <1>1, <2>1
<1>4. CASE InsertRefused(r)
  <2>1. /\ UNCHANGED <<list, cached, stale, gap>> /\ state[r] = "creating"
        /\ state' = [state EXCEPT ![r] = "failed"]
    BY <1>4 DEF InsertRefused, Goes
  <2> QED  BY <1>1, <2>1
<1>5. CASE MongoFails(r)
  <2>1. /\ UNCHANGED <<list, cached, stale, gap>> /\ state[r] \in {"creating", "pushing"}
        /\ state' = [state EXCEPT ![r] = "failed"]
    BY <1>5 DEF MongoFails, Goes
  <2> QED  BY <1>1, <2>1
<1>6. CASE Insert(r) \/ PushReview(r)
  BY <1>6 DEF Insert, PushReview, Goes
<1>7. CASE Count(r)  BY <1>7 DEF Count, Goes
<1>8. CASE CountFails(r)  BY <1>8 DEF CountFails, Goes, Skipped
<1>9. CASE Add(r)  BY <1>9 DEF Add, Goes
<1>10. CASE AddFails(r)  BY <1>10 DEF AddFails, Goes
<1>11. CASE LateListing(r)  BY <1>11 DEF LateListing, Skipped
<1>12. CASE LateAdd(r)  BY <1>12 DEF LateAdd
<1> QED
  BY <1>2, <1>3, <1>4, <1>5, <1>6, <1>7, <1>8, <1>9, <1>10, <1>11, <1>12 DEF Uploads

LEMMA UploadKeepsKnown ==
  ASSUME ListTypeOK, Known, NEW r \in Review, Uploads(r)
  PROVE  Known'
<1>0. /\ state \in [Review -> {"idle", "creating", "pushing", "counting", "adding",
                               "done", "failed"}]
      /\ UNCHANGED <<page, slice, fill>>
  BY UploadsLeave DEF ListTypeOK, readVars
<1>1. ASSUME UNCHANGED <<list, cached, stale>>, Pending' = Pending,
             \A x \in Review : state'[x] = "adding" => state[x] = "adding"
      PROVE  Known'
  <2>1. Fillers' = Fillers /\ \A d \in Reader : Slice(d)' = Slice(d)
    BY <1>0, <1>1 DEF Fillers, Slice
  <2>2. Fillers \subseteq Reader  BY DEF Fillers
  <2> QED  BY <1>0, <1>1, <2>1, <2>2 DEF Known
<1>2. ASSUME MeetsFillers(r), cached \subseteq cached',
             \E s \in {"counting", "adding", "done", "failed"} :
               /\ state' = [state EXCEPT ![r] = s]
               /\ s = "adding" => cached # {}
      PROVE  Known'
  <2>1. Fillers' = Fillers /\ Fillers \subseteq stale'
    BY <1>0, <1>2 DEF Fillers, MeetsFillers
  <2>2. ASSUME NEW x \in Review, x \notin stale', state'[x] = "adding"
        PROVE  cached' # {}
    <3>1. CASE x = r  BY <1>0, <1>2, <2>2, <3>1
    <3>2. CASE x # r
      <4>1. x \notin stale /\ state[x] = "adding"
        BY <1>0, <1>2, <2>2, <3>2 DEF MeetsFillers
      <4> QED  BY <1>2, <4>1 DEF Known
    <3> QED  BY <3>1, <3>2
  <2> QED  BY <2>1, <2>2 DEF Known
<1>3. ASSUME MeetsFillers(r), UNCHANGED <<state, cached>>  PROVE Known'
  <2>1. Fillers' = Fillers /\ Fillers \subseteq stale'
    BY <1>0, <1>3 DEF Fillers, MeetsFillers
  <2>2. ASSUME NEW x \in Review, x \notin stale', state'[x] = "adding"
        PROVE  cached' # {}
    <3>1. x \notin stale  BY <1>3, <2>2 DEF MeetsFillers
    <3> QED  BY <1>3, <2>2, <3>1 DEF Known
  <2> QED  BY <2>1, <2>2 DEF Known
<1>4. ASSUME cached \subseteq cached', UNCHANGED <<state, list, stale>>  PROVE Known'
  <2>1. Fillers' = Fillers /\ Pending' = Pending /\ \A d \in Reader : Slice(d)' = Slice(d)
    BY <1>0, <1>4 DEF Fillers, Pending, Slice
  <2>2. Fillers \subseteq Reader  BY DEF Fillers
  <2> QED  BY <1>0, <1>4, <2>1, <2>2 DEF Known
<1> QED  BY <1>1, <1>2, <1>3, <1>4, UploadsAre

\* The set goes, and the uploads on their way do not count any more.
LEMMA VanishingKeepsKnown ==
  ASSUME Known, Vanishes, UNCHANGED <<state, list, page, slice>>, Fillers' = Fillers
  PROVE  Known'
<1>1. stale \subseteq stale' /\ Pending \subseteq stale' /\ Pending' = Pending
  BY DEF Vanishes, Pending
<1>2. \A d \in Reader : Slice(d)' = Slice(d)  BY DEF Slice
<1>3. Fillers \subseteq Reader  BY DEF Fillers
<1>4. \A r \in Review \ stale' : state'[r] # "adding"
  BY <1>1 DEF Pending
<1> QED  BY <1>1, <1>2, <1>3, <1>4 DEF Known

LEMMA ReadKeepsKnown ==
  ASSUME ListTypeOK, Busy, Known, NEW d \in Reader, Reads(d)
  PROVE  Known'
<1>0. /\ fill \in [Reader -> {"none", "del", "zadd", "over", "threw"}]
      /\ slice \in [Reader -> SUBSET Review] /\ page \in [Reader -> Page]
      /\ Fillers \subseteq Reader /\ d \notin Review
      /\ Pending \subseteq Review
  BY ListAssumption DEF ListTypeOK, Fillers, Pending
<1>1. UNCHANGED <<state, list>> /\ Pending' = Pending
  BY ReadsLeave DEF Pending
\* The readers that fill Redis go on, but for this one.
<1>2. ASSUME Fillers' \ {d} \subseteq Fillers, d \notin Fillers',
             \A e \in Reader \ {d} : slice'[e] = slice[e] /\ page'[e] = page[e],
             cached \subseteq cached', stale \ {d} \subseteq stale'
      PROVE  Known'
  <2>1. ASSUME NEW e \in Fillers', e \notin stale'
        PROVE  slice'[e] = Slice(e)' /\ Pending' \subseteq stale'
    <3>1. e # d /\ e \in Fillers /\ e \in Reader /\ e \notin stale
      BY <1>0, <1>2, <2>1
    <3>2. slice[e] = Slice(e) /\ Pending \subseteq stale  BY <3>1 DEF Known
    <3>3. Slice(e)' = Slice(e)  BY <1>1, <1>2, <3>1 DEF Slice
    <3> QED  BY <1>0, <1>1, <1>2, <3>1, <3>2, <3>3
  <2>2. ASSUME NEW r \in Review, r \notin stale', state'[r] = "adding"
        PROVE  cached' # {}
    BY <1>0, <1>1, <1>2, <2>2 DEF Known
  <2> QED  BY <2>1, <2>2 DEF Known
<1>3. ASSUME UNCHANGED <<page, slice, fill, cached, stale>>  PROVE Known'
  <2>1. Fillers' = Fillers /\ \A e \in Reader : Slice(e)' = Slice(e)
    BY <1>1, <1>3 DEF Fillers, Slice
  <2> QED  BY <1>0, <1>1, <1>3, <2>1 DEF Known
<1>4. CASE AskRedis(d)
  <2>1. d \notin Fillers  BY <1>4 DEF AskRedis, Busy, Fillers
  <2>2. Fillers' = Fillers  BY <1>4 DEF AskRedis, Fillers
  <2>3. /\ \A e \in Reader \ {d} : slice'[e] = slice[e] /\ page'[e] = page[e]
        /\ UNCHANGED <<cached, stale>>
    BY <1>0, <1>4 DEF AskRedis
  <2> QED  BY <1>2, <2>1, <2>2, <2>3
<1>5. CASE AskMongo(d)
  <2>1. /\ slice' = [slice EXCEPT ![d] = Slice(d)] /\ UNCHANGED <<page, cached>>
        /\ stale' = stale \cup Pending
        /\ \E f \in {"none", "del"} : fill' = [fill EXCEPT ![d] = f]
    BY <1>5 DEF AskMongo
  <2>2. \A e \in Reader : Slice(e)' = Slice(e)  BY <1>1, <2>1 DEF Slice
  <2>3. Fillers' \subseteq Fillers \cup {d}  BY <1>0, <2>1 DEF Fillers
  <2>4. ASSUME NEW e \in Fillers', e \notin stale'
        PROVE  slice'[e] = Slice(e)' /\ Pending' \subseteq stale'
    <3>1. CASE e = d  BY <1>0, <1>1, <2>1, <2>2, <3>1
    <3>2. CASE e # d
      <4>1. e \in Fillers /\ e \notin stale /\ e \in Reader
        BY <1>0, <2>1, <2>3, <2>4, <3>2
      <4> QED  BY <1>0, <1>1, <2>1, <2>2, <3>2, <4>1 DEF Known
    <3> QED  BY <3>1, <3>2
  <2>5. \A r \in Review \ stale' : state'[r] = "adding" => cached' # {}
    BY <1>1, <2>1 DEF Known
  <2> QED  BY <2>4, <2>5 DEF Known
<1>6. CASE AskMongoFails(d)  BY <1>3, <1>6 DEF AskMongoFails
<1>7. CASE ReadReviews(d)  BY <1>3, <1>7 DEF ReadReviews
<1>8. CASE ReadReviewsFails(d)  BY <1>3, <1>8 DEF ReadReviewsFails
<1>9. CASE Del(d)
  <2>1. fill[d] = "del" /\ fill' = [fill EXCEPT ![d] = "zadd"] /\ Vanishes
        /\ UNCHANGED <<state, list, page, slice>>
    BY <1>9 DEF Del, Fills
  <2>2. Fillers' = Fillers  BY <1>0, <2>1 DEF Fillers
  <2> QED  BY <2>1, <2>2, VanishingKeepsKnown
<1>10. CASE Zadd(d) \/ FillFails(d)
  <2>1. /\ \E f \in {"over", "threw"} : fill' = [fill EXCEPT ![d] = f]
        /\ UNCHANGED <<page, slice>> /\ cached \subseteq cached' /\ stale' = stale \ {d}
    BY <1>10 DEF Zadd, FillFails, Fills
  <2>2. Fillers' = Fillers \ {d}  BY <1>0, <2>1 DEF Fillers
  <2> QED  BY <1>2, <2>1, <2>2
<1>11. CASE Return(d)
  <2>1. /\ fill' = [fill EXCEPT ![d] = "none"] /\ slice' = [slice EXCEPT ![d] = {}]
        /\ UNCHANGED <<page, cached, stale>>
    BY <1>11 DEF Return
  <2>2. Fillers' = Fillers \ {d}  BY <1>0, <2>1 DEF Fillers
  <2>3. \A e \in Reader \ {d} : slice'[e] = slice[e]  BY <1>0, <2>1
  <2> QED  BY <1>2, <2>1, <2>2, <2>3
<1>12. CASE Again(d)  BY <1>3, <1>12 DEF Again
<1> QED
  BY <1>4, <1>5, <1>6, <1>7, <1>8, <1>9, <1>10, <1>11, <1>12 DEF Reads

LEMMA NextKeepsKnown ==
  ASSUME ListTypeOK, Busy, Known, ListNext
  PROVE  Known'
<1>1. ASSUME LoseCache  PROVE Known'
  BY <1>1, VanishingKeepsKnown DEF LoseCache, readVars, Fillers
<1> QED  BY <1>1, UploadKeepsKnown, ReadKeepsKnown, ListNextIs

-----------------------------------------------------------------------------
(* Redis has the newest *)

LEMMA UploadKeepsNewestFirst ==
  ASSUME ListTypeOK, Arrived, Inside, Known, NewestFirst, NEW r \in Review, Uploads(r)
  PROVE  NewestFirst'
<1>0. /\ state \in [Review -> {"idle", "creating", "pushing", "counting", "adding",
                               "done", "failed"}]
      /\ Review \subseteq Nat /\ cached \subseteq Listed /\ cached \subseteq Review
      /\ Fillers \cap Review = {} /\ Pending \subseteq Review
  BY ListAssumption DEF ListTypeOK, Inside, Fillers, Pending
<1>1. ASSUME UNCHANGED <<list, cached, stale, gap>>, Pending' = Pending
      PROVE  NewestFirst'
  BY <1>1 DEF NewestFirst, Sorted, Listed
<1>2. ASSUME gap' = (gap \/ cached' # {}) \/ cached' = {}  PROVE NewestFirst'
  BY <1>2 DEF NewestFirst, ListTypeOK
\* The review comes in front, and is on its way.
<1>3. ASSUME Lists(r), state' = [state EXCEPT ![r] = "counting"], MeetsFillers(r),
             UNCHANGED <<cached, gap>>
      PROVE  NewestFirst'
  <2>1. Pending' = Pending \cup {r} /\ stale \subseteq stale'
    BY <1>0, <1>3 DEF Pending, MeetsFillers, Lists
  <2>2. Listed' = Listed \cup {r} /\ r \notin Listed
    BY <1>3, Listing DEF Lists, Arrived, Early
  <2> SUFFICES ASSUME Sorted', ~gap', cached' # {},
                      NEW y \in cached' \cup (Pending' \ stale'),
                      NEW x \in Listed' \ cached', y < x
               PROVE  x \in Pending'
    BY DEF NewestFirst
  <2>3. Sorted /\ \A z \in Listed : z < r  BY <1>3, Listing DEF Lists
  <2>4. CASE x = r  BY <2>1, <2>4
  <2>5. CASE x # r
    <3>0. Listed \subseteq Review  BY DEF ListTypeOK, Listed
    <3>1. x \in Listed \ cached /\ x < r /\ x \in Nat
      BY <1>0, <1>3, <2>2, <2>3, <2>5, <3>0
    <3>2. y # r  BY <1>0, <3>1
    <3>3. y \in cached \cup (Pending \ stale)  BY <1>3, <2>1, <3>2
    <3> QED  BY <1>3, <2>1, <2>3, <3>1, <3>3 DEF NewestFirst
  <2> QED  BY <2>4, <2>5
<1>4. CASE Count(r)
  <2>1. CASE cached = {}
    BY <1>2, <1>4, <2>1 DEF Count
  <2>2. CASE cached # {}
    <3>1. state' = [state EXCEPT ![r] = "adding"] /\ state[r] = "counting"
      BY <1>4, <2>2 DEF Count, Goes
    <3>2. Pending' = Pending /\ stale \subseteq stale'
      BY <1>0, <1>4, <3>1 DEF Count, Pending, MeetsFillers
    <3>3. UNCHANGED <<list, cached, gap>>  BY <1>4 DEF Count
    <3>4. Sorted' = Sorted /\ Listed' = Listed  BY <3>3 DEF Sorted, Listed
    <3> QED  BY <3>2, <3>3, <3>4 DEF NewestFirst
  <2> QED  BY <2>1, <2>2
<1>5. CASE Add(r)
  <2>1. /\ state[r] = "adding" /\ state' = [state EXCEPT ![r] = "done"]
        /\ cached' = cached \cup {r} /\ gap' = (gap \/ r \in stale) /\ list' = list
        /\ MeetsFillers(r)
    BY <1>5 DEF Add, Goes
  <2>2. Pending' = Pending \ {r} /\ r \in Pending /\ stale' = Fillers \cup (stale \ {r})
    BY <1>0, <2>1 DEF Pending, MeetsFillers
  <2>3. Sorted' = Sorted /\ Listed' = Listed  BY <2>1 DEF Sorted, Listed
  <2> SUFFICES ASSUME Sorted', ~gap', cached' # {},
                      NEW y \in cached' \cup (Pending' \ stale'),
                      NEW x \in Listed' \ cached', y < x
               PROVE  x \in Pending'
    BY DEF NewestFirst
  <2>4. ~gap /\ r \notin stale  BY <2>1
  <2>5. cached # {}  BY <2>1, <2>4 DEF Known
  <2>6. y \in cached \cup (Pending \ stale)  BY <2>1, <2>2, <2>4
  <2>7. x \in Listed \ cached /\ x # r  BY <2>1, <2>3
  <2> QED  BY <2>2, <2>3, <2>4, <2>5, <2>6, <2>7 DEF NewestFirst
<1>6. CASE CountFails(r) \/ AddFails(r) \/ LateListing(r)
  <2>1. gap' = (gap \/ cached # {}) /\ cached' = cached
    BY <1>6 DEF CountFails, AddFails, LateListing, Skipped
  <2>2. gap' = (gap \/ cached' # {})  BY <2>1
  <2> QED  BY <1>2, <2>2
<1>7. CASE MongoFails(r)
  <2>1. /\ state[r] \in {"creating", "pushing"} /\ state' = [state EXCEPT ![r] = "failed"]
        /\ UNCHANGED <<list, cached, stale, gap>>
    BY <1>7 DEF MongoFails, Goes
  <2>2. Pending' = Pending  BY <1>0, <2>1 DEF Pending
  <2> QED  BY <1>1, <2>1, <2>2
<1>8. CASE Insert(r) \/ PushReview(r)
  <2>1. Lists(r)  BY <1>8, InsertLists DEF PushReview, Goes, Lists
  <2> QED  BY <1>3, <1>8, <2>1 DEF Insert, PushReview, Goes
<1>9. CASE StoreReview(r) \/ FindMovie(r) \/ FindMovieFails(r) \/ InsertRefused(r)
  <2>1. UNCHANGED <<list, cached, stale, gap>>
    BY <1>9 DEF StoreReview, FindMovie, FindMovieFails, InsertRefused
  <2>2. \/ state' = state
        \/ /\ state[r] \in {"idle", "creating"}
           /\ \E s \in {"creating", "pushing", "failed"} : state' = [state EXCEPT ![r] = s]
    BY <1>9 DEF StoreReview, FindMovie, FindMovieFails, InsertRefused, Goes
  <2>3. Pending' = Pending  BY <1>0, <2>2 DEF Pending
  <2> QED  BY <1>1, <2>1, <2>3
<1>10. CASE LateAdd(r)
  <2>1. /\ UNCHANGED <<state, list, stale>> /\ cached' = cached \cup {r}
        /\ gap' = (gap \/ r \notin cached)
    BY <1>10 DEF LateAdd
  <2>2. CASE r \in cached
    <3>1. cached' = cached  BY <2>1, <2>2
    <3>2. gap' = (gap \/ FALSE)  BY <2>1, <2>2
    <3>3. gap' = gap  BY <3>2 DEF ListTypeOK
    <3>4. Pending' = Pending  BY <2>1 DEF Pending
    <3> QED  BY <1>1, <2>1, <3>1, <3>3, <3>4
  <2>3. CASE r \notin cached
    <3>1. gap'  BY <2>1, <2>3
    <3> QED  BY <3>1 DEF NewestFirst
  <2> QED  BY <2>2, <2>3
<1> QED  BY <1>4, <1>5, <1>6, <1>7, <1>8, <1>9, <1>10 DEF Uploads

LEMMA ReadKeepsNewestFirst ==
  ASSUME ListTypeOK, Known, NewestFirst, NEW d \in Reader, Reads(d)
  PROVE  NewestFirst'
<1>0. d \notin Review /\ Pending \subseteq Review /\ Review \subseteq Nat
  BY ListAssumption DEF Pending
<1>1. Pending' = Pending /\ Listed' = Listed /\ Sorted' = Sorted
  BY ReadsLeave DEF Pending, Listed, Sorted
<1>2. ASSUME UNCHANGED <<cached, gap>>, stale \ {d} \subseteq stale'
      PROVE  NewestFirst'
  <2>1. Pending' \ stale' \subseteq Pending \ stale  BY <1>0, <1>1, <1>2
  <2> QED  BY <1>1, <1>2, <2>1 DEF NewestFirst
<1>3. CASE Del(d)  BY <1>3 DEF Del, Vanishes, NewestFirst
<1>4. CASE Zadd(d)
  <2>1. /\ d \in Fillers /\ cached' = cached \cup slice[d]
        /\ gap' = (gap \/ d \in stale) /\ stale' = stale \ {d}
    BY <1>4 DEF Zadd, Fills, Fillers
  <2> SUFFICES ASSUME Sorted', ~gap', cached' # {},
                      NEW y \in cached' \cup (Pending' \ stale'),
                      NEW x \in Listed' \ cached', y < x
               PROVE  x \in Pending'
    BY DEF NewestFirst
  <2>2. ~gap /\ d \notin stale  BY <2>1
  <2>3. slice[d] = Slice(d) /\ Pending \subseteq stale  BY <2>1, <2>2 DEF Known
  <2>4. y \in cached \cup Slice(d)  BY <1>0, <1>1, <2>1, <2>3
  <2>5. x \in Listed /\ x \notin cached /\ x \notin Slice(d)
    BY <1>1, <2>1, <2>3
  <2>6. CASE y \in cached
    BY <1>1, <2>2, <2>5, <2>6 DEF NewestFirst
  <2>7. CASE y \in Slice(d)
    <3>1. /\ list \in Seq(Review) /\ Len(list) \in Nat
          /\ page[d][2] \in Nat
      BY ListAssumption DEF ListTypeOK
    <3> DEFINE m == Least(page[d][2], Len(list))
    <3>2. m \in Nat /\ m <= Len(list)  BY <3>1 DEF Least
    <3>3. PICK i \in 1 .. m : y = list[i]  BY <2>7 DEF Slice
    <3>4. PICK j \in 1 .. Len(list) : x = list[j]  BY <2>5 DEF Listed
    <3>5. j \notin 1 .. m  BY <2>5, <3>4 DEF Slice
    <3> HIDE DEF m
    <3>6. i \in 1 .. Len(list) /\ i < j  BY <3>1, <3>2, <3>5
    <3>7. x < y  BY <1>1, <3>3, <3>4, <3>6 DEF Sorted
    <3>8. x \in Review /\ y \in Review  BY <3>1, <3>3, <3>4, <3>6
    <3>9. x \in Nat /\ y \in Nat  BY <1>0, <3>8
    <3> QED  BY <3>7, <3>9
  <2> QED  BY <2>4, <2>6, <2>7
<1>5. CASE \/ AskRedis(d) \/ AskMongo(d) \/ AskMongoFails(d) \/ ReadReviews(d)
           \/ ReadReviewsFails(d) \/ FillFails(d) \/ Return(d) \/ Again(d)
  <2>1. UNCHANGED <<cached, gap>> /\ stale \ {d} \subseteq stale'
    BY <1>5 DEF AskRedis, AskMongo, AskMongoFails, ReadReviews, ReadReviewsFails,
                FillFails, Return, Again
  <2> QED  BY <1>2, <2>1
<1> QED  BY <1>3, <1>4, <1>5 DEF Reads

LEMMA NextKeepsNewestFirst ==
  ASSUME ListTypeOK, Arrived, Inside, Known, NewestFirst, ListNext
  PROVE  NewestFirst'
<1>1. ASSUME LoseCache  PROVE NewestFirst'
  BY <1>1 DEF LoseCache, Vanishes, NewestFirst
<1> QED  BY <1>1, UploadKeepsNewestFirst, ReadKeepsNewestFirst, ListNextIs

-----------------------------------------------------------------------------
(* Readers that meet nobody *)

LEMMA UploadsEndCalm ==
  ASSUME CalmIsStill, NEW r \in Review, Uploads(r)
  PROVE  calm' = {} \/ UNCHANGED <<store, state, list, calm>>
<1>1. CASE StoreReview(r) \/ FindMovie(r) \/ FindMovieFails(r) \/ LateListing(r)
  BY <1>1 DEF StoreReview, FindMovie, FindMovieFails, LateListing
<1>2. CASE \/ Insert(r) \/ InsertRefused(r) \/ PushReview(r) \/ MongoFails(r)
           \/ Count(r) \/ CountFails(r) \/ Add(r) \/ AddFails(r)
  <2>1. state[r] \in {"creating", "pushing", "counting", "adding"} /\ calm' = calm
    BY <1>2 DEF Insert, InsertRefused, PushReview, MongoFails, Count, CountFails,
                Add, AddFails, Goes
  <2> QED  BY <2>1 DEF CalmIsStill
<1>3. CASE LateAdd(r)  BY <1>3 DEF LateAdd
<1> QED  BY <1>1, <1>2, <1>3 DEF Uploads

LEMMA ReadsCalm ==
  ASSUME NEW d \in Reader, Reads(d)
  PROVE  calm' \ {d} \subseteq calm /\ (d \in calm' /\ d \notin calm => AskRedis(d) /\ Quiet)
BY DEF Reads, AskRedis, AskMongo, AskMongoFails, ReadReviews, ReadReviewsFails,
       Del, Zadd, FillFails, Return, Again, Fills

LEMMA NextKeepsCalmIsStill ==
  ASSUME CalmIsStill, ListNext
  PROVE  CalmIsStill'
<1>1. ASSUME NEW r \in Review, Uploads(r)  PROVE CalmIsStill'
  BY <1>1, UploadsEndCalm DEF CalmIsStill, Sorted
<1>2. ASSUME UNCHANGED <<state, list>>, calm' \subseteq calm \/ Quiet  PROVE CalmIsStill'
  BY <1>2 DEF CalmIsStill, Quiet, Sorted
<1>3. ASSUME NEW d \in Reader, Reads(d)  PROVE CalmIsStill'
  <2>1. CASE d \in calm' /\ d \notin calm  BY <1>2, <1>3, <2>1, ReadsLeave, ReadsCalm
  <2>2. CASE ~(d \in calm' /\ d \notin calm)  BY <1>2, <1>3, <2>2, ReadsLeave, ReadsCalm
  <2> QED  BY <2>1, <2>2
<1>4. ASSUME LoseCache  PROVE CalmIsStill'
  BY <1>2, <1>4 DEF LoseCache
<1> QED  BY <1>1, <1>3, <1>4, ListNextIs

\* What the properties say of one calm reader.
Prepared(d) ==
  /\ phase[d] # "idle"
  /\ phase[d] = "short" =>
       /\ page[d][1] + Len(ids[d]) < page[d][2]
       /\ ids[d] = <<>> \/ page[d][1] + Len(ids[d]) <= Len(list)
       /\ ids[d] = SubSeq(list, page[d][1] + 1, page[d][1] + Len(ids[d]))

Served(d) ==
  phase[d] \in {"reading", "done", "failed"} =>
    /\ ids[d] = SubSeq(list, page[d][1] + 1, Least(page[d][2], Len(list)))
    /\ outcome[d] # "duplicated"
    /\ outcome[d] = "incomplete" => ~(Listed \subseteq store)

LEMMA CalmReaders ==
  FrontTaken /\ PageRight <=> \A d \in calm : Prepared(d) /\ Served(d)
BY DEF FrontTaken, PageRight, Prepared, Served

LEMMA AskRedisServes ==
  ASSUME ListTypeOK, OkAreListed, Inside, Busy, NewestFirst, Quiet,
         NEW d \in Reader, AskRedis(d)
  PROVE  Prepared(d)' /\ Served(d)'
<1>0. /\ phase[d] = "idle" /\ outcome[d] = "none" /\ UNCHANGED <<list, outcome>>
      /\ phase \in [Reader -> {"idle", "short", "reading", "done", "failed"}]
      /\ ids \in [Reader -> Seq(Review)] /\ page \in [Reader -> Page]
      /\ list \in Seq(Review) /\ Len(list) \in Nat
  BY DEF ListTypeOK, AskRedis, Busy
<1>1. PICK p \in Page :
        /\ p[1] < p[2]
        /\ page' = [page EXCEPT ![d] = p]
        /\ ids' = [ids EXCEPT ![d] = InRedis(p[1], p[2])]
        /\ phase' = [phase EXCEPT ![d] =
             IF p[1] + Len(ids'[d]) < p[2] THEN "short" ELSE "reading"]
  BY DEF AskRedis
<1> DEFINE a == p[1]
           b == p[2]
           Q == InRedis(p[1], p[2])
<1>2. a \in Nat /\ b \in Nat /\ a < b  BY <1>1, ListAssumption
<1>3. page'[d][1] = a /\ page'[d][2] = b /\ ids'[d] = Q
      /\ phase'[d] = IF a + Len(Q) < b THEN "short" ELSE "reading"
  BY <1>0, <1>1
<1>4. Sorted /\ \A y \in cached : \A x \in Listed \ cached : ~(y < x)
  <2>1. Pending = {}  BY DEF Quiet, Pending
  <2>2. Sorted /\ ~gap  BY DEF Quiet
  <2> QED  BY <2>1, <2>2 DEF NewestFirst
<1>5. /\ Q \in Seq(Review) /\ Len(Q) <= b - a
      /\ Q = <<>> \/ a + Len(Q) <= Len(list)
      /\ Q = SubSeq(list, a + 1, a + Len(Q))
  BY <1>2, <1>4, RedisPage DEF Inside
<1>6. Len(Q) \in Nat /\ (Q = <<>> => Len(Q) = 0)  BY <1>5
<1> HIDE DEF a, b, Q
<1>7. CASE a + Len(Q) < b
  BY <1>0, <1>3, <1>5, <1>7 DEF Prepared, Served
<1>8. CASE ~(a + Len(Q) < b)
  <2>1. a + Len(Q) = b /\ Len(Q) # 0  BY <1>2, <1>5, <1>6, <1>8
  <2>2. b <= Len(list)  BY <1>5, <1>6, <2>1
  <2>3. Least(b, Len(list)) = b  BY <1>0, <1>2, <2>2 DEF Least
  <2>4. Q = SubSeq(list, a + 1, Least(b, Len(list)))  BY <1>5, <2>1, <2>3
  <2> QED  BY <1>0, <1>3, <1>8, <2>4 DEF Prepared, Served
<1> QED  BY <1>7, <1>8

LEMMA AskMongoServes ==
  ASSUME ListTypeOK, Busy, NEW d \in Reader, Prepared(d), AskMongo(d)
  PROVE  Prepared(d)' /\ Served(d)'
<1>1. /\ phase[d] = "short" /\ outcome[d] = "none" /\ UNCHANGED <<list, outcome, page>>
      /\ phase'[d] = "reading" /\ ids'[d] = ids[d] \o Rest(d)
  BY DEF ListTypeOK, AskMongo, Busy
<1>2. /\ page[d][1] + Len(ids[d]) <= page[d][2]
      /\ ids[d] = <<>> \/ page[d][1] + Len(ids[d]) <= Len(list)
      /\ ids[d] = SubSeq(list, page[d][1] + 1, page[d][1] + Len(ids[d]))
  <2>1. page[d] \in Nat \X Nat /\ ids[d] \in Seq(Review)
    BY ListAssumption DEF ListTypeOK
  <2>2. page[d][1] \in Nat /\ page[d][2] \in Nat /\ Len(ids[d]) \in Nat  BY <2>1
  <2>3. /\ page[d][1] + Len(ids[d]) < page[d][2]
        /\ ids[d] = <<>> \/ page[d][1] + Len(ids[d]) <= Len(list)
        /\ ids[d] = SubSeq(list, page[d][1] + 1, page[d][1] + Len(ids[d]))
    BY <1>1 DEF Prepared
  <2> QED  BY <2>2, <2>3
<1>3. ids'[d] = SubSeq(list, page[d][1] + 1, Least(page[d][2], Len(list)))
  BY <1>1, <1>2, RestIs
<1> QED  BY <1>1, <1>3 DEF Prepared, Served

LEMMA ReadReviewsServes ==
  ASSUME ListTypeOK, OkAreListed, NEW d \in Reader, Prepared(d), Served(d), ReadReviews(d)
  PROVE  Prepared(d)' /\ Served(d)'
<1>1. /\ phase[d] = "reading" /\ UNCHANGED <<store, list, phase, page, ids>>
      /\ outcome'[d] = IF Repeats(ids[d]) THEN "duplicated"
                       ELSE IF AllStored(ids[d]) THEN "ok" ELSE "incomplete"
  BY DEF ListTypeOK, ReadReviews
<1> DEFINE a == page[d][1]
           m == Least(page[d][2], Len(list))
           s == ids[d]
<1>2. s = SubSeq(list, a + 1, m)  BY <1>1 DEF Served
<1>3. /\ a \in Nat /\ m \in Nat /\ m <= Len(list)
      /\ list \in Seq(Review)
  <2>1. page[d] \in Nat \X Nat /\ list \in Seq(Review) /\ Len(list) \in Nat
    BY ListAssumption DEF ListTypeOK
  <2> QED  BY <2>1 DEF Least
<1>4. Len(s) \in Nat /\ \A i \in 1 .. Len(s) : a + i \in 1 .. Len(list) /\ s[i] = list[a + i]
  <2> HIDE DEF a, m, s
  <2>1. s \in Seq(Review)  BY <1>2, <1>3, PartOfSeq
  <2> QED  BY <1>2, <1>3, <2>1, PartOfSeq
<1>5. ~Repeats(s)
  <2> SUFFICES ASSUME NEW i \in 1 .. Len(s), NEW j \in 1 .. Len(s), i < j, s[i] = s[j]
               PROVE  FALSE
    BY DEF Repeats
  <2> HIDE DEF a, m, s
  <2>1. a + i = a + j  BY <1>4 DEF OkAreListed
  <2> QED  BY <1>3, <1>4, <2>1
<1>6. ASSUME ~AllStored(s)  PROVE ~(Listed \subseteq store)
  <2>1. PICK i \in 1 .. Len(s) : s[i] \notin store  BY <1>6 DEF AllStored
  <2>2. s[i] \in Listed  BY <1>4 DEF Listed
  <2> QED  BY <2>1, <2>2
<1>7. Prepared(d)' = Prepared(d) /\ Listed' = Listed  BY <1>1 DEF Prepared, Listed
<1>8. Served(d)'  BY <1>1, <1>5, <1>6, <1>7 DEF Served
<1> QED  BY <1>7, <1>8

LEMMA ReadKeepsServed ==
  ASSUME ListTypeOK, OkAreListed, Inside, Busy, NewestFirst,
         NEW d \in Reader, Reads(d), \A e \in calm : Prepared(e) /\ Served(e)
  PROVE  \A e \in calm' : Prepared(e)' /\ Served(e)'
<1> SUFFICES ASSUME NEW e \in calm'  PROVE Prepared(e)' /\ Served(e)'
  OBVIOUS
<1>0. /\ phase \in [Reader -> {"idle", "short", "reading", "done", "failed"}]
      /\ ids \in [Reader -> Seq(Review)] /\ page \in [Reader -> Page]
      /\ outcome \in [Reader -> {"none", "ok", "duplicated", "incomplete", "failed"}]
  BY DEF ListTypeOK
<1>1. UNCHANGED <<store, list>> /\ Listed' = Listed  BY ReadsLeave DEF Listed
<1>2. CASE e # d
  <2>1. e \in calm /\ e \in Reader  BY <1>2, ReadsCalm DEF ListTypeOK
  <2>2. phase'[e] = phase[e] /\ ids'[e] = ids[e] /\ page'[e] = page[e] /\ outcome'[e] = outcome[e]
    BY <1>0, <1>2, <2>1 DEF Reads, AskRedis, AskMongo, AskMongoFails, ReadReviews,
       ReadReviewsFails, Del, Zadd, FillFails, Return, Again, Fills
  <2>3. (Prepared(e)' <=> Prepared(e)) /\ (Served(e)' <=> Served(e))
    BY <1>1, <2>2 DEF Prepared, Served
  <2> QED  BY <2>1, <2>3
<1>3. CASE e = d
  <2>1. CASE AskRedis(d)
    <3>1. Quiet
      <4>1. phase[d] = "idle"  BY <2>1 DEF AskRedis
      <4>2. d \notin calm  BY <4>1 DEF Prepared
      <4> QED  BY <1>3, <4>2, ReadsCalm
    <3> QED  BY <1>3, <2>1, <3>1, AskRedisServes
  <2>2. ASSUME ~AskRedis(d)  PROVE d \in calm /\ Prepared(d) /\ Served(d)
    BY <1>3, <2>2, ReadsCalm
  <2>3. CASE AskMongo(d)
    <3>1. ~AskRedis(d)  BY <2>3 DEF AskMongo, AskRedis
    <3> QED  BY <1>3, <2>2, <2>3, <3>1, AskMongoServes
  <2>4. CASE ReadReviews(d)
    <3>1. ~AskRedis(d)  BY <2>4 DEF ReadReviews, AskRedis
    <3> QED  BY <1>3, <2>2, <2>4, <3>1, ReadReviewsServes
  <2>5. CASE ReadReviewsFails(d) /\ ~AskRedis(d)
    <3>1. /\ phase'[d] = phase[d] /\ ids'[d] = ids[d] /\ page'[d] = page[d]
          /\ outcome'[d] = "failed"
      BY <1>0, <2>5 DEF ReadReviewsFails
    <3> QED  BY <1>1, <1>3, <2>2, <2>5, <3>1 DEF Prepared, Served
  <2>6. CASE (Del(d) \/ Zadd(d) \/ FillFails(d)) /\ ~AskRedis(d)
    <3>1. UNCHANGED <<phase, ids, page, outcome>>
      BY <2>6 DEF Del, Zadd, FillFails, Fills
    <3> QED  BY <1>1, <1>3, <2>2, <2>6, <3>1 DEF Prepared, Served
  <2>7. CASE Return(d) /\ ~AskRedis(d)
    <3>1. /\ phase[d] = "reading" /\ phase'[d] \in {"done", "failed"}
          /\ ids'[d] = ids[d] /\ page'[d] = page[d] /\ outcome'[d] = outcome[d]
      BY <1>0, <2>7 DEF Return
    <3> QED  BY <1>1, <1>3, <2>2, <2>7, <3>1 DEF Prepared, Served
  <2>8. CASE AskMongoFails(d) \/ Again(d)
    BY <1>3, <2>8 DEF AskMongoFails, Again
  <2> QED
    BY <2>1, <2>3, <2>4, <2>5, <2>6, <2>7, <2>8 DEF Reads
<1> QED  BY <1>2, <1>3

LEMMA NextKeepsServed ==
  ASSUME ListIInv, ListNext
  PROVE  FrontTaken' /\ PageRight'
<1>0. /\ ListTypeOK /\ OkAreListed /\ Inside /\ Busy /\ NewestFirst /\ CalmIsStill
      /\ \A d \in calm : Prepared(d) /\ Served(d)
  BY CalmReaders DEF ListIInv, Arrived
<1>1. ASSUME NEW r \in Review, Uploads(r)  PROVE FrontTaken' /\ PageRight'
  <2>1. CASE calm' = {}  BY <2>1 DEF FrontTaken, PageRight
  <2>2. CASE UNCHANGED <<store, list, calm>>
    BY <1>1, <2>2, UploadsLeave DEF readVars, ListIInv, FrontTaken, PageRight, Listed
  <2> QED  BY <1>0, <1>1, <2>1, <2>2, UploadsEndCalm
<1>2. ASSUME NEW d \in Reader, Reads(d)  PROVE FrontTaken' /\ PageRight'
  <2>1. \A e \in calm' : Prepared(e)' /\ Served(e)'
    BY <1>0, <1>2, ReadKeepsServed
  <2> QED  BY <2>1 DEF Prepared, Served, FrontTaken, PageRight
<1>3. ASSUME LoseCache  PROVE FrontTaken' /\ PageRight'
  BY <1>3 DEF LoseCache, readVars, ListIInv, FrontTaken, PageRight, Listed
<1> QED  BY <1>1, <1>2, <1>3, ListNextIs

-----------------------------------------------------------------------------
(* Theorems *)

LEMMA InitListIInv ==
  ASSUME ListInit
  PROVE  ListIInv
<1>1. Len(<<>>) = 0 /\ Listed = {}  BY DEF ListInit, Listed
<1>2. ListTypeOK
  <2>1. (CHOOSE p \in Page : TRUE) \in Page  BY ListAssumption
  <2>2. page \in [Reader -> Page]  BY <2>1 DEF ListInit
  <2>3. list \in Seq(Review) /\ ids \in [Reader -> Seq(Review)]  BY DEF ListInit
  <2>4. \A d \in Reader : phase[d] = "idle"  BY DEF ListInit
  <2>5. failures \in 0 .. MaxFailures  BY ListAssumption DEF ListInit
  <2> QED  BY <2>2, <2>3, <2>4, <2>5 DEF ListInit, ListTypeOK
<1>3. Arrived  BY <1>1 DEF ListInit, Arrived, OkAreListed, Early
<1>4. Inside /\ Busy  BY <1>1 DEF ListInit, Inside, Busy
<1>5. Known  BY DEF ListInit, Known, Fillers
<1>6. NewestFirst /\ CalmIsStill /\ FrontTaken /\ PageRight
  BY DEF ListInit, NewestFirst, CalmIsStill, FrontTaken, PageRight
<1> QED  BY <1>2, <1>3, <1>4, <1>5, <1>6 DEF ListIInv

LEMMA NextKeepsListIInv ==
  ASSUME ListIInv, [ListNext]_listVars
  PROVE  ListIInv'
<1>1. CASE ListNext
  <2>1. ListTypeOK'  BY <1>1, ListNextKeepsType
  <2>2. Arrived'  BY <1>1, NextKeepsArrived DEF ListIInv
  <2>3. Inside'  BY <1>1, NextKeepsInside DEF ListIInv
  <2>4. Busy'  BY <1>1, NextKeepsBusy DEF ListIInv
  <2>5. Known'  BY <1>1, NextKeepsKnown DEF ListIInv
  <2>6. NewestFirst'  BY <1>1, NextKeepsNewestFirst DEF ListIInv
  <2>7. CalmIsStill'  BY <1>1, NextKeepsCalmIsStill DEF ListIInv
  <2>8. FrontTaken' /\ PageRight'  BY <1>1, NextKeepsServed
  <2> QED  BY <2>1, <2>2, <2>3, <2>4, <2>5, <2>6, <2>7, <2>8 DEF ListIInv
<1>2. CASE UNCHANGED listVars
  <2>1. /\ Listed' = Listed /\ Sorted' = Sorted /\ Pending' = Pending /\ Fillers' = Fillers
        /\ \A d \in Reader : Slice(d)' = Slice(d)
    BY <1>2 DEF listVars, readVars, Listed, Sorted, Pending, Fillers, Slice
  <2>2. ListTypeOK'  BY <1>2 DEF ListIInv, listVars, readVars, ListTypeOK
  <2>3. Arrived'  BY <1>2, <2>1 DEF ListIInv, listVars, Arrived, OkAreListed, Early
  <2>4. Inside' /\ Busy'
    BY <1>2, <2>1 DEF ListIInv, listVars, readVars, Inside, Busy
  <2>5. Known'
    <3>1. Fillers \subseteq Reader  BY DEF Fillers
    <3> QED  BY <1>2, <2>1, <3>1 DEF ListIInv, listVars, readVars, Known
  <2>6. NewestFirst' /\ CalmIsStill'
    BY <1>2, <2>1 DEF ListIInv, listVars, NewestFirst, CalmIsStill
  <2>7. FrontTaken' /\ PageRight'
    BY <1>2, <2>1 DEF ListIInv, listVars, readVars, FrontTaken, PageRight
  <2> QED  BY <2>2, <2>3, <2>4, <2>5, <2>6, <2>7 DEF ListIInv
<1> QED  BY <1>1, <1>2

LEMMA ListInvariance == ListSpec => []ListIInv
<1>1. ListInit => ListIInv  BY InitListIInv
<1>2. ListIInv /\ [ListNext]_listVars => ListIInv'  BY NextKeepsListIInv
<1> QED  BY <1>1, <1>2, PTL DEF ListSpec

\* The type invariant, and that no page is longer than was asked for: what
\* zrevrange and $slice give a reader together.
THEOREM ListTypeCorrect == ListSpec => []ListTypeOK
<1>1. ListIInv => ListTypeOK  BY DEF ListIInv
<1> QED  BY <1>1, ListInvariance, PTL

\* An upload that returned is in the list of MongoDB, and once, however many
\* find no document and try to insert the first.
THEOREM OkAreListedCorrect == ListSpec => []OkAreListed
<1>1. ListIInv => OkAreListed  BY DEF ListIInv, Arrived
<1> QED  BY <1>1, ListInvariance, PTL

\* Redis has the newest reviews of MongoDB, but for those on their way and for
\* the gaps that a reader or an upload leaves that missed the other.
THEOREM NoGapCorrect == ListSpec => []NoGap
<1>1. ListIInv => NoGap
  BY DEF ListIInv, NoGap, Inside, NewestFirst, Pending
<1> QED  BY <1>1, ListInvariance, PTL

\* A reader that meets no upload and no failure gets its page of the list, the
\* part that Redis has and the rest from MongoDB.
THEOREM PageRightCorrect == ListSpec => []PageRight
<1>1. ListIInv => PageRight  BY DEF ListIInv
<1> QED  BY <1>1, ListInvariance, PTL

-----------------------------------------------------------------------------
(* Without the history: uploads and readers that keep apart *)

\* No upload is between its push and its end while a reader fills Redis.
Apart == Fillers = {} \/ Pending = {}

\* An upload fails, and may then have its effect at any time, or Redis loses the
\* set while one is on its way.
Mishap ==
  \/ \E r \in Review : MongoFails(r) \/ CountFails(r) \/ AddFails(r)
  \/ LoseCache /\ Pending # {}

\* If uploads and fills keep apart, Redis has the newest reviews of a sorted list
\* but for those on their way, whatever fails for readers and whatever is lost
\* while nobody uploads.
THEOREM ApartHaveNoGap ==
  ListSpec /\ []Apart /\ [][~Mishap]_listVars =>
    [](Sorted => \A y \in cached : \A x \in Listed \ cached :
                   y < x => state[x] \in {"counting", "adding"})
<1> DEFINE J == stale = {} /\ ~gap /\ \A r \in Review : late[r] = "nothing"
           Right == Sorted => \A y \in cached : \A x \in Listed \ cached :
                                y < x => state[x] \in {"counting", "adding"}
<1>1. ListInit => J  BY DEF ListInit
<1>2. ListIInv /\ J /\ Apart /\ Apart' /\ [ListNext]_listVars /\ [~Mishap]_listVars => J'
  <2> SUFFICES ASSUME ListIInv, J, Apart, Apart', [ListNext]_listVars,
                      [~Mishap]_listVars
               PROVE  J'
    OBVIOUS
  <2>0. /\ state \in [Review -> {"idle", "creating", "pushing", "counting", "adding",
                                 "done", "failed"}]
        /\ fill \in [Reader -> {"none", "del", "zadd", "over", "threw"}]
    BY DEF ListIInv, ListTypeOK
  <2>1. CASE UNCHANGED <<stale, gap, late>>  BY <2>1
  <2>2. ASSUME NEW r \in Review,
               \/ StoreReview(r) \/ FindMovie(r) \/ FindMovieFails(r) \/ InsertRefused(r)
        PROVE J'
    BY <2>1, <2>2 DEF StoreReview, FindMovie, FindMovieFails, InsertRefused
  <2>3. ASSUME NEW r \in Review, Insert(r) \/ PushReview(r) PROVE J'
    <3>1. state'[r] = "counting" /\ fill' = fill
      BY <2>0, <2>3 DEF Insert, PushReview, Goes, readVars
    <3>2. Fillers' = {} /\ Fillers' = Fillers
      BY <3>1 DEF Apart, Pending, Fillers
    <3> QED  BY <2>3, <3>2 DEF Insert, PushReview, MeetsFillers
  <2>4. ASSUME NEW r \in Review, Count(r) \/ Add(r) PROVE J'
    <3>1. Fillers = {}
      BY <2>4 DEF Count, Add, Goes, Apart, Pending
    <3>2. MeetsFillers(r)  BY <2>4 DEF Count, Add
    <3>3. stale' = {}  BY <3>1, <3>2 DEF MeetsFillers
    <3>4. gap' = gap \/ gap' = (gap \/ r \in stale)  BY <2>4 DEF Count, Add
    <3>5. ~gap'  BY <3>4, Zenon
    <3>6. late' = late  BY <2>4 DEF Count, Add
    <3> QED  BY <3>3, <3>5, <3>6
  <2>5. ASSUME NEW r \in Review, MongoFails(r) \/ CountFails(r) \/ AddFails(r) PROVE J'
    <3>1. UNCHANGED listVars  BY <2>5 DEF Mishap
    <3> QED  BY <2>1, <3>1 DEF listVars
  <2>6. ASSUME NEW d \in Reader,
               \/ AskRedis(d) \/ AskMongoFails(d) \/ ReadReviews(d) \/ ReadReviewsFails(d)
               \/ Return(d) \/ Again(d)
        PROVE J'
    BY <2>1, <2>6 DEF AskRedis, AskMongoFails, ReadReviews, ReadReviewsFails, Return, Again
  <2>7. ASSUME NEW d \in Reader, AskMongo(d) PROVE J'
    <3>1. Pending = {}
      <4>1. CASE list = <<>>
        <5>1. Listed = {}  BY <4>1 DEF Listed
        <5> QED  BY <5>1 DEF ListIInv, Arrived, OkAreListed, Pending
      <4>2. CASE list # <<>>
        <5>1. fill'[d] = "del" /\ state' = state
          BY <2>0, <2>7, <4>2 DEF AskMongo
        <5> QED  BY <5>1 DEF Apart, Fillers, Pending
      <4> QED  BY <4>1, <4>2
    <3> QED  BY <2>7, <3>1 DEF AskMongo
  <2>8. ASSUME NEW d \in Reader, Del(d) PROVE J'
    <3>1. Pending = {}  BY <2>8 DEF Del, Fills, Apart, Fillers
    <3> QED  BY <2>8, <3>1 DEF Del, Fills, Vanishes
  <2>9. ASSUME NEW d \in Reader, Zadd(d) \/ FillFails(d) PROVE J'
    <3>1. stale' = stale \ {d}  BY <2>9 DEF Zadd, FillFails
    <3>2. gap' = gap \/ gap' = (gap \/ d \in stale)  BY <2>9 DEF Zadd, FillFails
    <3>3. ~gap'  BY <3>2, Zenon
    <3>4. late' = late  BY <2>9 DEF Zadd, FillFails, Fills
    <3> QED  BY <3>1, <3>3, <3>4
  <2>10. CASE LoseCache
    <3>1. Pending = {} \/ UNCHANGED listVars  BY <2>10 DEF Mishap
    <3> QED  BY <2>1, <2>10, <3>1 DEF LoseCache, Vanishes, listVars
  <2>11. CASE UNCHANGED listVars  BY <2>1, <2>11 DEF listVars
  <2>12. ASSUME NEW r \in Review, LateListing(r) \/ LateAdd(r) PROVE J'
    BY <2>12 DEF LateListing, LateAdd
  <2> QED
    BY <2>2, <2>3, <2>4, <2>5, <2>6, <2>7, <2>8, <2>9, <2>10, <2>11, <2>12 DEF ListNext
<1>3. NoGap /\ J => Right  BY DEF NoGap
<1> HIDE DEF J, Right
<1>4. ListSpec /\ []Apart /\ [][~Mishap]_listVars => []Right
  BY <1>1, <1>2, <1>3, ListInvariance, NoGapCorrect, PTL DEF ListSpec
<1> QED  BY <1>4 DEF Right
=============================================================================
