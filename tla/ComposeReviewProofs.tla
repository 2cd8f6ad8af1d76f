------------------------- MODULE ComposeReviewProofs -------------------------
(***************************************************************************)
(* Proofs about ComposeReview, for any parts, requests, calls and bounds.  *)
(*                                                                         *)
(* The properties speak of who composes; the invariant says why: the       *)
(* counter is the number of parts whose call has counted, the calls that   *)
(* counted got the numbers from one to the counter, each a different one,  *)
(* and the repeated calls got no greater one.  So whoever got the number   *)
(* of all parts found all of them, and of those who counted one did.       *)
(***************************************************************************)
EXTENDS ComposeReview, FiniteSetTheorems, TLAPS

Beyond == {"decide", "fetch", "uploading"} \union Ended
Full(r) == \A c \in Component : parts[r][c] # None
Counted(r) == {c \in Component : parts[r][c] # None /\ pc[parts[r][c]] # "count"}
Incremented(r) == {u \in Adders(r) : pc[u] \in Beyond}

\* A part under a key was added by a call for that request and that part.
Placed ==
  \A r \in Request, c \in Component :
    parts[r][c] # None => Req[parts[r][c]] = r /\ Part[parts[r][c]] = c

Local(u) ==
  /\ fetched[u] # NoParts => pc[u] \in {"uploading"} \union Ended
  /\ pc[u] \in {"idle", "init", "store", "peek"} => parts[Req[u]][Part[u]] # u
  /\ pending[u] # {} => pc[u] = "uploading"

\* The counter of a request that nothing has disturbed.
Counts(r) ==
  /\ counter[r] = None => \A c \in Component : parts[r][c] = None
  /\ counter[r] # None => counter[r] = Cardinality(Counted(r))
  /\ counter[r] # None =>
       \A k \in 1..counter[r] : \E u \in Incremented(r) : got[u] = k
  /\ \A u, v \in Incremented(r) : got[u] = got[v] => u = v

\* What each of its calls knows.
Knows(r, u) ==
  /\ pc[u] \notin {"idle", "init"} => counter[r] # None
  /\ pc[u] = "count" => parts[r][Part[u]] = u
  /\ pc[u] \in Beyond \union {"count", "peek"} => parts[r][Part[u]] # None
  /\ pc[u] \in Beyond => got[u] <= counter[r]
  /\ pc[u] \in {"fetch", "uploading"} \/ fetched[u] # NoParts => got[u] = NumComponents
  /\ pc[u] \in {"uploading"} \union Ended /\ got[u] = NumComponents => fetched[u] = parts[r]
  /\ pc[u] = "uploading" =>
       \A s \in Stores : s \in pending[u] \/ s \in thrown[u] \/ u \in held[s]
  /\ pc[u] = "returned" /\ got[u] = NumComponents => \A s \in Stores : u \in held[s]

Steady(r) == Counts(r) /\ \A u \in Calls(r) : Knows(r, u)

IInv ==
  /\ TypeOK
  /\ Placed
  /\ \A u \in Upload : Local(u)
  /\ \A r \in Request \ disturbed : Steady(r)

-----------------------------------------------------------------------------
(* Counting parts *)

LEMMA NumType == NumComponents \in Nat \ {0}
<1>1. NumComponents \in Nat  BY ReviewAssumption, FS_CardinalityType DEF NumComponents
<1>2. NumComponents # 0  BY ReviewAssumption, FS_EmptySet DEF NumComponents
<1> QED  BY <1>1, <1>2

LEMMA CountedFinite ==
  ASSUME NEW S \in SUBSET Component
  PROVE /\ IsFiniteSet(S)
        /\ Cardinality(S) \in Nat
        /\ Cardinality(S) <= NumComponents
        /\ Cardinality(S) = NumComponents => S = Component
<1>1. IsFiniteSet(S)  BY ReviewAssumption, FS_Subset
<1> QED  BY <1>1, ReviewAssumption, FS_Subset, FS_CardinalityType DEF NumComponents

LEMMA OneMore ==
  ASSUME NEW S \in SUBSET Component, NEW c \in Component \ S
  PROVE Cardinality(S \union {c}) = Cardinality(S) + 1
<1>1. IsFiniteSet(S)  BY CountedFinite
<1> QED  BY <1>1, FS_AddElement

LEMMA UpToNext ==
  ASSUME NEW n \in Nat, NEW k \in 1..(n + 1) PROVE k \in 1..n \/ k = n + 1
OBVIOUS

\* Whoever has got the number of parts may rely on all of them.
LEMMA LastSeesAll ==
  ASSUME TypeOK, NEW r \in Request, Counts(r), NEW u \in Upload, counter[r] # None,
         got[u] = NumComponents, got[u] <= counter[r]
  PROVE Full(r) /\ counter[r] = NumComponents
<1>1. Counted(r) \in SUBSET Component  BY DEF Counted
<1>2. Cardinality(Counted(r)) <= NumComponents /\ Cardinality(Counted(r)) \in Nat
  BY <1>1, CountedFinite
<1>3. counter[r] = Cardinality(Counted(r))  BY DEF Counts
<1>4. counter[r] = NumComponents  BY <1>2, <1>3, NumType
<1>5. Counted(r) = Component  BY <1>1, <1>3, <1>4, CountedFinite
<1>6. Full(r)  BY <1>5 DEF Full, Counted
<1> QED  BY <1>4, <1>6

-----------------------------------------------------------------------------
LEMMA InitIInv == Init => IInv
<1> SUFFICES ASSUME Init PROVE IInv  OBVIOUS
<1> USE ReviewAssumption DEF Init, NoParts
<1>1. TypeOK  BY DEF TypeOK, Ended
<1>2. Placed  BY DEF Placed
<1>3. \A u \in Upload : Local(u)  BY DEF Local
<1>4. ASSUME NEW r \in Request PROVE Steady(r)
  <2>1. Counts(r)  BY DEF Counts, Incremented, Adders, Calls
  <2>2. \A u \in Calls(r) : Knows(r, u)  BY DEF Knows, Calls, Beyond, Ended
  <2> QED  BY <2>1, <2>2 DEF Steady
<1> QED  BY <1>1, <1>2, <1>3, <1>4 DEF IInv

\* One key of one request changes.
LEMMA OneKey ==
  ASSUME NEW V, NEW P \in [Request -> [Component -> V]],
         NEW r \in Request, NEW c \in Component, NEW x \in V,
         NEW Q, Q = [P EXCEPT ![r] = [@ EXCEPT ![c] = x]]
  PROVE /\ Q \in [Request -> [Component -> V]]
        /\ \A r2 \in Request, c2 \in Component :
             Q[r2][c2] = IF r2 = r /\ c2 = c THEN x ELSE P[r2][c2]
<1> DEFINE Row == [P[r] EXCEPT ![c] = x]
<1>1. Row \in [Component -> V] /\ \A c2 \in Component : Row[c2] = IF c2 = c THEN x ELSE P[r][c2]
  OBVIOUS
<1>2. Q = [P EXCEPT ![r] = Row]  OBVIOUS
<1> HIDE DEF Row
<1>3. Q \in [Request -> [Component -> V]]  BY <1>1, <1>2
<1>4. \A r2 \in Request : Q[r2] = IF r2 = r THEN Row ELSE P[r2]  BY <1>2
<1> QED  BY <1>1, <1>3, <1>4

LEMMA PartAddedIs ==
  ASSUME TypeOK, NEW u \in Upload
  PROVE /\ PartAdded(u) \in [Request -> [Component -> Upload \union {None}]]
        /\ \A r \in Request, c \in Component :
             PartAdded(u)[r][c] = IF r = Req[u] /\ c = Part[u] /\ parts[r][c] = None
                                  THEN u ELSE parts[r][c]
<1>1. Req[u] \in Request /\ Part[u] \in Component  BY ReviewAssumption
<1>2. parts \in [Request -> [Component -> Upload \union {None}]]  BY DEF TypeOK
<1>3. CASE parts[Req[u]][Part[u]] = None
  <2>1. PartAdded(u) = [parts EXCEPT ![Req[u]] = [@ EXCEPT ![Part[u]] = u]]
    BY <1>3 DEF PartAdded
  <2>2. /\ PartAdded(u) \in [Request -> [Component -> Upload \union {None}]]
        /\ \A r \in Request, c \in Component :
             PartAdded(u)[r][c] = IF r = Req[u] /\ c = Part[u] THEN u ELSE parts[r][c]
    BY <1>1, <1>2, <2>1, OneKey
  <2> QED  BY <1>3, <2>2
<1>4. CASE parts[Req[u]][Part[u]] # None
  BY <1>2, <1>4 DEF PartAdded
<1> QED  BY <1>3, <1>4

LEMMA PartDroppedIs ==
  ASSUME TypeOK, NEW r \in Request, NEW c \in Component,
         parts' = [parts EXCEPT ![r] = [@ EXCEPT ![c] = None]]
  PROVE /\ parts' \in [Request -> [Component -> Upload \union {None}]]
        /\ \A r2 \in Request, c2 \in Component :
             parts'[r2][c2] = IF r2 = r /\ c2 = c THEN None ELSE parts[r2][c2]
<1>1. parts \in [Request -> [Component -> Upload \union {None}]]  BY DEF TypeOK
<1> QED  BY <1>1, OneKey

LEMMA AddedType ==
  ASSUME TypeOK, NEW u \in Upload
  PROVE /\ PartAdded(u) \in [Request -> [Component -> Upload \union {None}]]
        /\ CounterAdded(Req[u]) \in [Request -> Nat \union {None}]
        /\ CounterIncremented(Req[u]) \in [Request -> Nat \union {None}]
<1>1. Req[u] \in Request /\ counter \in [Request -> Nat \union {None}]
  BY ReviewAssumption DEF TypeOK
<1>2. CounterAdded(Req[u]) \in [Request -> Nat \union {None}]  BY <1>1 DEF CounterAdded
<1>3. CounterIncremented(Req[u]) \in [Request -> Nat \union {None}]
  <2>1. counter[Req[u]] # None => counter[Req[u]] + 1 \in Nat  BY <1>1
  <2> QED  BY <1>1, <2>1 DEF CounterIncremented
<1> QED  BY <1>2, <1>3, PartAddedIs

LEMMA TypeKept ==
  ASSUME TypeOK, [Next]_vars PROVE TypeOK'
<1> USE ReviewAssumption, AddedType DEF TypeOK, cache, composing, faults, Goes, Ended
<1>1. CASE UNCHANGED vars  BY <1>1 DEF vars
<1>2. ASSUME NEW u \in Upload, Begin(u) PROVE TypeOK'  BY <1>2 DEF Begin
<1>3. ASSUME NEW u \in Upload, UploadStep(u) PROVE TypeOK'
  <2>1. CASE InitCounter(u)  BY <2>1 DEF InitCounter
  <2>2. CASE StorePart(u)  BY <2>2 DEF StorePart, AfterAdd
  <2>3. CASE IncrementCounter(u)  BY <2>3 DEF IncrementCounter
  <2>4. CASE IncrementFails(u)  BY <2>4, NumType DEF IncrementFails
  <2>5. CASE PeekCounter(u)  BY <2>5 DEF PeekCounter
  <2>6. CASE PeekMisses(u)  BY <2>6 DEF PeekMisses
  <2>7. CASE MemcachedFails(u)
    <3>1. pc' = [pc EXCEPT ![u] = "error"]
      BY <2>7 DEF MemcachedFails
    <3>4. /\ failures' \in Nat /\ disturbed' \subseteq Request
          /\ UNCHANGED <<got, composing, losses>>
      BY <2>7 DEF MemcachedFails
    <3>2. counter' \in [Request -> Nat \union {None}]
      BY <2>7 DEF MemcachedFails
    <3>3. parts' \in [Request -> [Component -> Upload \union {None}]]
      BY <2>7 DEF MemcachedFails
    <3> QED  BY <3>1, <3>2, <3>3, <3>4
  <2>8. CASE Decide(u)  BY <2>8 DEF Decide
  <2>9. CASE Fetch(u)  BY <2>9 DEF Fetch
  <2>10. ASSUME NEW s \in Stores, StoreTakes(u, s) PROVE TypeOK'  BY <2>10 DEF StoreTakes
  <2>11. ASSUME NEW s \in Stores, StoreThrows(u, s) PROVE TypeOK'
    <3>1. held' \in [Stores -> SUBSET Upload]
      <4>1. CASE held' = held  BY <4>1
      <4>2. CASE held' = [held EXCEPT ![s] = @ \union {u}]  BY <4>2
      <4> QED  BY <2>11, <4>1, <4>2 DEF StoreThrows
    <3>2. /\ pending' \in [Upload -> SUBSET Stores]
          /\ thrown' \in [Upload -> SUBSET Stores]
          /\ failures' \in Nat
      BY <2>11 DEF StoreThrows
    <3> QED  BY <2>11, <3>1, <3>2 DEF StoreThrows
  <2>12. CASE Return(u)  BY <2>12 DEF Return
  <2> QED  BY <1>3, <2>1, <2>2, <2>3, <2>4, <2>5, <2>6, <2>7, <2>8, <2>9, <2>10,
              <2>11, <2>12 DEF UploadStep
<1>4. ASSUME NEW r \in Request, LoseKey(r) PROVE TypeOK'
  <2>1. /\ losses' \in Nat /\ disturbed' \subseteq Request
        /\ UNCHANGED <<pc, got, composing, failures>>
    BY <1>4 DEF LoseKey
  <2>2. counter' \in [Request -> Nat \union {None}]  BY <1>4 DEF LoseKey
  <2>3. parts' \in [Request -> [Component -> Upload \union {None}]]
    BY <1>4, PartDroppedIs DEF LoseKey
  <2> QED  BY <2>1, <2>2, <2>3
<1> QED  BY <1>1, <1>2, <1>3, <1>4 DEF Next

-----------------------------------------------------------------------------
(* Where parts come from *)

\* What a step of u may do to the keys: add the part of u when it stores, or
\* drop one.
PartsStep ==
  \/ parts' = parts
  \/ \E u \in Upload : pc[u] = "store" /\ pc'[u] \notin {"idle", "init", "store", "peek"}
                       /\ parts' = PartAdded(u)
  \/ \E r \in Request, c \in Component :
       parts' = [parts EXCEPT ![r] = [@ EXCEPT ![c] = None]]

LEMMA StepsOnParts ==
  ASSUME TypeOK, [Next]_vars PROVE PartsStep
<1> USE DEF cache, composing, PartsStep
<1>1. CASE UNCHANGED vars  BY <1>1 DEF vars
<1>2. ASSUME NEW u \in Upload, Begin(u) PROVE PartsStep  BY <1>2 DEF Begin
<1>3. ASSUME NEW u \in Upload, UploadStep(u) PROVE PartsStep
  <2>2. CASE StorePart(u)
    <3>1. CASE parts[Req[u]][Part[u]] = None
      BY <2>2, <3>1, ReviewAssumption DEF StorePart, AfterAdd, Goes, TypeOK
    <3>2. CASE parts[Req[u]][Part[u]] # None
      <4>1. \A r \in Request, c \in Component : PartAdded(u)[r][c] = parts[r][c]
        BY <3>2, PartAddedIs
      <4>2. PartAdded(u) = parts  BY <4>1, PartAddedIs DEF TypeOK
      <4> QED  BY <2>2, <4>2 DEF StorePart
    <3> QED  BY <3>1, <3>2
  <2>7. CASE MemcachedFails(u)
    <3>1. CASE UNCHANGED parts  BY <3>1
    <3>2. CASE Goes(u, "store", "error") /\ parts' \in {parts, PartAdded(u)}
      BY <3>2 DEF Goes, TypeOK
    <3> QED  BY <2>7, <3>1, <3>2 DEF MemcachedFails
  <2> QED  BY <1>3, <2>2, <2>7 DEF UploadStep, InitCounter, IncrementCounter, IncrementFails,
              PeekCounter, PeekMisses, Decide, Fetch, StoreTakes, StoreThrows, Return
<1>4. ASSUME NEW r \in Request, LoseKey(r) PROVE PartsStep
  BY <1>4 DEF LoseKey
<1> QED  BY <1>1, <1>2, <1>3, <1>4 DEF Next

LEMMA PlacedKept ==
  ASSUME TypeOK, Placed, [Next]_vars PROVE Placed'
<1> USE ReviewAssumption DEF TypeOK, Placed
<1>1. CASE parts' = parts  BY <1>1
<1>2. ASSUME NEW u \in Upload, parts' = PartAdded(u) PROVE Placed'
  <2> SUFFICES ASSUME NEW r \in Request, NEW c \in Component, parts'[r][c] # None
               PROVE Req[parts'[r][c]] = r /\ Part[parts'[r][c]] = c
    OBVIOUS
  <2>1. parts'[r][c] = IF r = Req[u] /\ c = Part[u] /\ parts[r][c] = None
                       THEN u ELSE parts[r][c]
    BY <1>2, PartAddedIs
  <2> QED  BY <2>1
<1>3. ASSUME NEW r \in Request, NEW c \in Component,
             parts' = [parts EXCEPT ![r] = [@ EXCEPT ![c] = None]]
      PROVE Placed'
  BY <1>3, PartDroppedIs
<1> QED  BY <1>1, <1>2, <1>3, StepsOnParts DEF PartsStep

\* The calls only move forward, only Fetch gives one its parts, and no call
\* ends before it has heard from the stores.
Forward(v) ==
  /\ pc'[v] \in {"idle", "init", "store", "peek"} =>
       pc[v] \in {"idle", "init", "store", "peek"}
  /\ fetched'[v] # fetched[v] => pc'[v] = "uploading"
  /\ pc[v] \in {"uploading"} \union Ended => pc'[v] \in {"uploading"} \union Ended
  /\ pending'[v] # {} => pc'[v] = "uploading"

LEMMA StepsOnCalls ==
  ASSUME TypeOK, [Next]_vars, NEW v \in Upload, Local(v) PROVE Forward(v)
<1> USE DEF TypeOK, cache, composing, faults, Goes, Ended, Forward, Local
<1>1. CASE UNCHANGED vars  BY <1>1 DEF vars
<1>2. ASSUME NEW u \in Upload, Begin(u) PROVE Forward(v)  BY <1>2 DEF Begin
<1>3. ASSUME NEW u \in Upload, UploadStep(u) PROVE Forward(v)
  <2>1. CASE InitCounter(u)  BY <2>1 DEF InitCounter
  <2>2. CASE StorePart(u)  BY <2>2 DEF StorePart, AfterAdd
  <2>3. CASE IncrementCounter(u)  BY <2>3 DEF IncrementCounter
  <2>4. CASE IncrementFails(u)  BY <2>4 DEF IncrementFails
  <2>5. CASE PeekCounter(u)  BY <2>5 DEF PeekCounter
  <2>6. CASE PeekMisses(u)  BY <2>6 DEF PeekMisses
  <2>7. CASE MemcachedFails(u)  BY <2>7 DEF MemcachedFails
  <2>8. CASE Decide(u)  BY <2>8 DEF Decide
  <2>9. CASE Fetch(u)  BY <2>9 DEF Fetch
  <2>10. ASSUME NEW s \in Stores, StoreTakes(u, s) PROVE Forward(v)  BY <2>10 DEF StoreTakes
  <2>11. ASSUME NEW s \in Stores, StoreThrows(u, s) PROVE Forward(v)  BY <2>11 DEF StoreThrows
  <2>12. CASE Return(u)  BY <2>12 DEF Return
  <2> QED  BY <1>3, <2>1, <2>2, <2>3, <2>4, <2>5, <2>6, <2>7, <2>8, <2>9, <2>10,
              <2>11, <2>12 DEF UploadStep
<1>4. ASSUME NEW r \in Request, LoseKey(r) PROVE Forward(v)  BY <1>4 DEF LoseKey
<1> QED  BY <1>1, <1>2, <1>3, <1>4 DEF Next

LEMMA LocalKept ==
  ASSUME TypeOK, Placed, NEW v \in Upload, Local(v), [Next]_vars PROVE Local(v)'
<1> USE DEF Local
<1>1. Forward(v)  BY StepsOnCalls
<1>2. Req[v] \in Request /\ Part[v] \in Component  BY ReviewAssumption
<1>3. ASSUME parts'[Req[v]][Part[v]] = v, parts[Req[v]][Part[v]] # v
      PROVE pc'[v] \notin {"idle", "init", "store", "peek"}
  <2>1. CASE parts' = parts  BY <1>3, <2>1
  <2>2. ASSUME NEW u \in Upload, pc'[u] \notin {"idle", "init", "store", "peek"},
               parts' = PartAdded(u)
        PROVE pc'[v] \notin {"idle", "init", "store", "peek"}
    BY <1>2, <1>3, <2>2, PartAddedIs
  <2>3. ASSUME NEW r \in Request, NEW c \in Component,
               parts' = [parts EXCEPT ![r] = [@ EXCEPT ![c] = None]]
        PROVE FALSE
    BY <1>2, <1>3, <2>3, PartDroppedIs, ReviewAssumption
  <2> QED  BY <2>1, <2>2, <2>3, StepsOnParts DEF PartsStep
<1>4. pc'[v] \in {"idle", "init", "store", "peek"} => parts'[Req[v]][Part[v]] # v
  BY <1>1, <1>3 DEF Forward
<1>5. fetched'[v] # NoParts => pc'[v] \in {"uploading"} \union Ended
  BY <1>1 DEF Forward
<1>6. pending'[v] # {} => pc'[v] = "uploading"
  BY <1>1 DEF Forward
<1> QED  BY <1>4, <1>5, <1>6

-----------------------------------------------------------------------------
(* Requests that nothing disturbs *)

LEMMA CountsSame ==
  ASSUME NEW r \in Request, Counts(r), counter'[r] = counter[r],
         Counted(r)' = Counted(r), Incremented(r)' = Incremented(r),
         counter[r] # None \/ parts'[r] = parts[r],
         \A v \in Incremented(r) : got'[v] = got[v]
  PROVE Counts(r)'
BY DEF Counts

LEMMA SamePlaces ==
  ASSUME TypeOK, Placed, NEW r \in Request, parts'[r] = parts[r],
         \A v \in Calls(r) : pc'[v] = "count" <=> pc[v] = "count",
         \A v \in Adders(r) : pc'[v] \in Beyond <=> pc[v] \in Beyond
  PROVE Counted(r)' = Counted(r) /\ Incremented(r)' = Incremented(r)
<1>1. \A c \in Component : parts[r][c] # None => parts[r][c] \in Calls(r)
  BY DEF TypeOK, Placed, Calls
<1>2. Counted(r)' = Counted(r)  BY <1>1 DEF Counted
<1>3. Adders(r)' = Adders(r)  BY DEF Adders, Calls
<1>4. Incremented(r)' = Incremented(r)  BY <1>3 DEF Incremented
<1> QED  BY <1>2, <1>4

\* What another call knows stays true when the counter grows and parts come.
LEMMA OthersKnow ==
  ASSUME TypeOK, TypeOK', NEW r \in Request, Counts(r), NEW v \in Calls(r), Knows(r, v),
         UNCHANGED <<pc[v], got[v], fetched[v], pending[v], thrown[v]>>,
         counter[r] # None => counter'[r] # None /\ counter'[r] >= counter[r],
         \A c \in Component : parts[r][c] # None => parts'[r][c] = parts[r][c],
         \A s \in Stores : v \in held[s] => v \in held'[s]
  PROVE Knows(r, v)'
<1> USE DEF TypeOK, Calls, Knows, Ended, Beyond
<1>1. v \in Upload /\ Part[v] \in Component  BY ReviewAssumption
<1>2. pc[v] \in {"uploading"} \union Ended /\ got[v] = NumComponents => parts'[r] = parts[r]
  <2> HAVE pc[v] \in {"uploading"} \union Ended /\ got[v] = NumComponents
  <2>1. counter[r] # None /\ got[v] <= counter[r]  OBVIOUS
  <2>2. Full(r)  BY <1>1, <2>1, LastSeesAll
  <2> QED  BY <2>2 DEF Full
<1>3. got[v] \in Nat /\ counter[r] \in Nat \union {None} /\ counter'[r] \in Nat \union {None}
  BY <1>1
<1>4. pc'[v] \in Beyond => got'[v] <= counter'[r]  BY <1>3
<1> HIDE DEF Beyond
<1>5. (pc[v] \notin {"idle", "init"} => counter[r] # None)'  OBVIOUS
<1>6. (pc[v] = "count" => parts[r][Part[v]] = v)'  BY <1>1, ReviewAssumption
<1>7. (pc[v] \in Beyond \union {"count", "peek"} => parts[r][Part[v]] # None)'  BY <1>1
<1>8. (pc[v] \in {"fetch", "uploading"} \/ fetched[v] # NoParts => got[v] = NumComponents)'
  BY DEF NoParts, NumComponents
<1>9. (pc[v] \in {"uploading"} \union Ended /\ got[v] = NumComponents => fetched[v] = parts[r])'
  BY <1>2 DEF NumComponents
<1>10. /\ (pc[v] = "uploading" =>
             \A s \in Stores : s \in pending[v] \/ s \in thrown[v] \/ v \in held[s])'
       /\ (pc[v] = "returned" /\ got[v] = NumComponents => \A s \in Stores : v \in held[s])'
  BY DEF NumComponents, Stores
<1> QED  BY <1>4, <1>5, <1>6, <1>7, <1>8, <1>9, <1>10

LEMMA Elsewhere ==
  ASSUME TypeOK, TypeOK', Placed, NEW r \in Request, Steady(r),
         counter'[r] = counter[r], parts'[r] = parts[r],
         \A v \in Calls(r) : UNCHANGED <<pc[v], got[v], fetched[v], pending[v], thrown[v]>>,
         \A v \in Calls(r), s \in Stores : v \in held[s] => v \in held'[s]
  PROVE Steady(r)'
<1>1. Counts(r)'
  <2>1. Counted(r)' = Counted(r) /\ Incremented(r)' = Incremented(r)
    BY SamePlaces DEF Adders
  <2> QED  BY <2>1, CountsSame DEF Steady, Incremented, Adders
<1>2. ASSUME NEW v \in Calls(r) PROVE Knows(r, v)'
  <2>1. counter[r] # None => counter'[r] >= counter[r]  BY DEF TypeOK
  <2> QED  BY <2>1, OthersKnow DEF Steady
<1>3. Calls(r)' = Calls(r)  BY DEF Calls
<1> QED  BY <1>1, <1>2, <1>3 DEF Steady

\* A step of one call: what the counter says, what that call knows, and, by the
\* lemmas above, what the others do.
LEMMA OneMoves ==
  ASSUME TypeOK, TypeOK', NEW r \in Request, Steady(r), NEW u \in Calls(r),
         Counts(r)', Knows(r, u)',
         \A v \in Upload \ {u} : UNCHANGED <<pc[v], got[v], fetched[v], pending[v], thrown[v]>>,
         counter[r] # None => counter'[r] # None /\ counter'[r] >= counter[r],
         \A c \in Component : parts[r][c] # None => parts'[r][c] = parts[r][c],
         \A v \in Calls(r), s \in Stores : v \in held[s] => v \in held'[s]
  PROVE Steady(r)'
<1>1. ASSUME NEW v \in Calls(r), v # u PROVE Knows(r, v)'
  BY <1>1, OthersKnow DEF Steady, Calls
<1>2. Calls(r)' = Calls(r)  BY DEF Calls
<1> QED  BY <1>1, <1>2 DEF Steady

-----------------------------------------------------------------------------
(* The steps of a call for a request that nothing disturbs *)

Ready(u) ==
  /\ TypeOK /\ Placed /\ Local(u) /\ Steady(Req[u])
  /\ Req[u] \in Request /\ Part[u] \in Component /\ u \in Calls(Req[u])

LEMMA BeginSteady ==
  ASSUME NEW u \in Upload, Ready(u), TypeOK', Begin(u) PROVE Steady(Req[u])'
<1> DEFINE r == Req[u]
<1> USE DEF Ready, TypeOK, Goes, cache, composing, faults
<1>1. pc'[u] = "init" /\ parts'[r] = parts[r] /\ counter'[r] = counter[r] /\ got' = got
  BY DEF Begin
<1>2. Counts(r)'
  <2>1. Counted(r)' = Counted(r) /\ Incremented(r)' = Incremented(r)
    BY SamePlaces, <1>1 DEF Begin, Beyond, Ended, Adders, Calls
  <2> QED  BY <1>1, <2>1, CountsSame DEF Steady
<1>3. Knows(r, u)'
  BY <1>1 DEF Begin, Knows, Steady, Beyond, Ended, Local, NoParts
<1> QED  BY <1>1, <1>2, <1>3, OneMoves DEF Begin, Calls

LEMMA InitCounterSteady ==
  ASSUME NEW u \in Upload, Ready(u), TypeOK', InitCounter(u) PROVE Steady(Req[u])'
<1> DEFINE r == Req[u]
<1> USE DEF Ready, TypeOK, Goes, cache, composing, faults
<1>1. /\ pc'[u] = "store" /\ parts' = parts /\ got' = got
      /\ counter'[r] = IF counter[r] = None THEN 0 ELSE counter[r]
      /\ counter'[r] # None
  BY ReviewAssumption DEF InitCounter, CounterAdded
<1>2. Counts(r)'
  <2>1. Counted(r)' = Counted(r) /\ Incremented(r)' = Incremented(r)
    BY SamePlaces, <1>1 DEF InitCounter, Beyond, Ended, Adders, Calls
  <2>2. CASE counter[r] # None
    BY <1>1, <2>1, <2>2, CountsSame DEF Steady
  <2>3. CASE counter[r] = None
    <3>1. Counted(r) = {}  BY <2>3 DEF Steady, Counts, Counted
    <3>2. counter'[r] = 0  BY <1>1, <2>3
    <3>3. Cardinality(Counted(r)') = 0  BY <2>1, <3>1, FS_EmptySet
    <3>4. Incremented(r) = {}
      BY <2>3, ReviewAssumption DEF Steady, Counts, Incremented, Adders, Calls
    <3> QED  BY <1>1, <2>1, <3>2, <3>3, <3>4 DEF Counts
  <2> QED  BY <2>2, <2>3
<1>3. Knows(r, u)'
  BY <1>1 DEF InitCounter, Knows, Steady, Beyond, Ended, Local, NoParts
<1>4. counter[r] # None => counter'[r] >= counter[r]  BY <1>1
<1> QED  BY <1>1, <1>2, <1>3, <1>4, OneMoves DEF InitCounter, Calls

LEMMA StorePartSteady ==
  ASSUME NEW u \in Upload, Ready(u), TypeOK', StorePart(u) PROVE Steady(Req[u])'
<1> DEFINE r == Req[u]
<1> USE DEF Ready, TypeOK, Goes, cache, composing, faults
<1>1. /\ pc[u] = "store" /\ got' = got /\ counter' = counter
      /\ pc' = [pc EXCEPT ![u] = IF parts[r][Part[u]] = None THEN "count" ELSE "peek"]
      /\ counter[r] # None
      /\ parts[r][Part[u]] # u
  BY DEF StorePart, AfterAdd, Steady, Knows, Local
<1>2. \A c \in Component :
        parts'[r][c] = IF c = Part[u] /\ parts[r][c] = None THEN u ELSE parts[r][c]
  BY PartAddedIs DEF StorePart
<1>3. \A c \in Component : parts[r][c] # u
  BY <1>1, ReviewAssumption DEF Placed
<1>4. Counted(r)' = Counted(r)
  <2>1. ASSUME NEW c \in Component
        PROVE parts'[r][c] # None /\ pc'[parts'[r][c]] # "count" <=>
              parts[r][c] # None /\ pc[parts[r][c]] # "count"
    <3>1. CASE c = Part[u] /\ parts[r][c] = None
      BY <1>1, <1>2, <3>1
    <3>2. CASE parts[r][c] # None
      <4>1. parts'[r][c] = parts[r][c]  BY <1>2, <3>2
      <4>2. parts[r][c] \in Upload \ {u}  BY <1>3, <3>2
      <4>3. pc'[parts[r][c]] = pc[parts[r][c]]  BY <1>1, <4>2
      <4> QED  BY <4>1, <4>3
    <3>3. CASE c # Part[u] /\ parts[r][c] = None
      BY <1>2, <3>3
    <3> QED  BY <3>1, <3>2, <3>3
  <2> QED  BY <2>1 DEF Counted
<1>5. Incremented(r)' = Incremented(r)
  <2>1. ASSUME NEW v \in Calls(r), v # u
        PROVE v \in Incremented(r)' <=> v \in Incremented(r)
    <3>1. Part[v] \in Component /\ v \in Upload  BY ReviewAssumption DEF Calls
    <3>2. parts'[r][Part[v]] = v <=> parts[r][Part[v]] = v
      BY <1>2, <2>1, <3>1, ReviewAssumption
    <3>3. pc'[v] = pc[v]  BY <1>1, <2>1, <3>1
    <3> QED  BY <3>2, <3>3 DEF Incremented, Adders, Calls
  <2>2. u \notin Incremented(r)  BY <1>1 DEF Incremented, Beyond, Ended
  <2>3. u \notin Incremented(r)'  BY <1>1 DEF Incremented, Beyond, Ended
  <2> QED  BY <2>1, <2>2, <2>3 DEF Incremented, Adders, Calls
<1>6. Counts(r)'  BY <1>1, <1>4, <1>5, CountsSame DEF Steady
<1>7. Knows(r, u)'
  <2>1. parts'[r][Part[u]] # None  BY <1>2, ReviewAssumption
  <2>2. fetched'[u] = NoParts  BY <1>1 DEF StorePart, Local, Ended
  <2>3. pc'[u] = "count" => parts'[r][Part[u]] = u  BY <1>1, <1>2
  <2> QED  BY <1>1, <2>1, <2>2, <2>3 DEF Knows, Beyond, Ended, NoParts
<1> QED  BY <1>1, <1>2, <1>6, <1>7, OneMoves DEF StorePart, Calls

LEMMA IncrementSteady ==
  ASSUME NEW u \in Upload, Ready(u), TypeOK', IncrementCounter(u) PROVE Steady(Req[u])'
<1> DEFINE r == Req[u]
           n == counter[r]
<1> USE DEF Ready, TypeOK, Goes, cache, composing, faults
<1>1. /\ pc[u] = "count" /\ parts' = parts /\ n # None /\ n \in Nat
      /\ pc' = [pc EXCEPT ![u] = "decide"]
      /\ got' = [got EXCEPT ![u] = n + 1]
      /\ counter'[r] = n + 1 /\ counter'[r] # None
      /\ parts[r][Part[u]] = u
  BY ReviewAssumption DEF IncrementCounter, CounterIncremented, Steady, Knows
<1>2. \A c \in Component : parts[r][c] = u => c = Part[u]
  BY ReviewAssumption DEF Placed
<1>3. Counted(r)' = Counted(r) \union {Part[u]} /\ Part[u] \notin Counted(r)
  <2>1. ASSUME NEW c \in Component, c # Part[u]
        PROVE parts[r][c] # None => pc'[parts[r][c]] = pc[parts[r][c]]
    BY <1>1, <1>2, <2>1
  <2>2. parts[r][Part[u]] # None /\ pc'[parts[r][Part[u]]] # "count"
    BY <1>1, ReviewAssumption
  <2>3. Part[u] \notin Counted(r)  BY <1>1 DEF Counted
  <2> QED  BY <1>1, <2>1, <2>2, <2>3 DEF Counted
<1>4. Incremented(r)' = Incremented(r) \union {u} /\ u \notin Incremented(r)
  BY <1>1 DEF Incremented, Adders, Calls, Beyond, Ended
<1>5. \A v \in Incremented(r) : got'[v] = got[v] /\ got[v] \in Nat /\ got[v] <= n
  BY <1>1, <1>4 DEF Steady, Knows, Incremented, Adders, Calls
<1>6. Counts(r)'
  <2>1. counter'[r] = Cardinality(Counted(r)')
    <3>1. Counted(r) \in SUBSET Component  BY DEF Counted
    <3>2. n = Cardinality(Counted(r))  BY <1>1 DEF Steady, Counts
    <3> QED  BY <1>1, <1>3, <3>1, <3>2, OneMore
  <2>2. ASSUME NEW k \in 1..counter'[r]
        PROVE \E v \in Incremented(r)' : got'[v] = k
    <3>1. CASE k = n + 1  BY <1>1, <1>4, <3>1
    <3>2. CASE k \in 1..n
      <4>1. PICK v \in Incremented(r) : got[v] = k  BY <1>1, <3>2 DEF Steady, Counts
      <4> QED  BY <1>4, <1>5, <4>1
    <3>3. k \in 1..(n + 1)  BY <1>1
    <3>4. k \in 1..n \/ k = n + 1  BY <1>1, <3>3, UpToNext
    <3> QED  BY <3>1, <3>2, <3>4
  <2>3. ASSUME NEW v \in Incremented(r)', NEW w \in Incremented(r)', got'[v] = got'[w]
        PROVE v = w
    <3>1. CASE v # u /\ w # u
      BY <1>4, <1>5, <2>3, <3>1 DEF Steady, Counts
    <3>2. got'[u] = n + 1  BY <1>1
    <3> QED  BY <1>1, <1>4, <1>5, <2>3, <3>1, <3>2
  <2> QED  BY <1>1, <2>1, <2>2, <2>3 DEF Counts
<1>7. Knows(r, u)'
  <2>1. fetched'[u] = NoParts  BY <1>1 DEF IncrementCounter, Local, Ended
  <2> QED  BY <1>1, <2>1, ReviewAssumption DEF Knows, Beyond, Ended, NoParts
<1> QED  BY <1>1, <1>6, <1>7, OneMoves DEF IncrementCounter, Calls

LEMMA PeekSteady ==
  ASSUME NEW u \in Upload, Ready(u), TypeOK', PeekCounter(u) PROVE Steady(Req[u])'
<1> DEFINE r == Req[u]
<1> USE DEF Ready, TypeOK, Goes, cache, composing, faults
<1>1. /\ pc[u] = "peek" /\ parts' = parts /\ counter' = counter /\ counter[r] # None
      /\ pc' = [pc EXCEPT ![u] = "decide"]
      /\ got' = [got EXCEPT ![u] = counter[r]]
      /\ u \notin Adders(r)
  BY DEF PeekCounter, Local, Adders
<1>2. Counts(r)'
  <2>1. Counted(r)' = Counted(r) /\ Incremented(r)' = Incremented(r)
    BY SamePlaces, <1>1 DEF Beyond, Ended, Adders, Calls
  <2>2. \A v \in Incremented(r) : got'[v] = got[v]
    BY <1>1 DEF Incremented, Adders, Calls
  <2> QED  BY <1>1, <2>1, <2>2, CountsSame DEF Steady
<1>3. Knows(r, u)'
  <2>1. fetched'[u] = NoParts  BY <1>1 DEF PeekCounter, Local, Ended
  <2>2. parts[r][Part[u]] # None  BY <1>1 DEF Steady, Knows
  <2> QED  BY <1>1, <2>1, <2>2 DEF Knows, Beyond, Ended, NoParts
<1> QED  BY <1>1, <1>2, <1>3, OneMoves DEF PeekCounter, Calls

LEMMA DecideSteady ==
  ASSUME NEW u \in Upload, Ready(u), TypeOK', Decide(u) PROVE Steady(Req[u])'
<1> DEFINE r == Req[u]
<1> USE DEF Ready, TypeOK, Goes, cache, composing, faults
<1>1. /\ pc[u] = "decide" /\ parts' = parts /\ counter' = counter /\ got' = got
      /\ pc' = [pc EXCEPT ![u] = IF got[u] = NumComponents THEN "fetch" ELSE "returned"]
  BY DEF Decide, IsLast
<1>2. Counts(r)'
  <2>1. Counted(r)' = Counted(r) /\ Incremented(r)' = Incremented(r)
    BY SamePlaces, <1>1 DEF Beyond, Ended, Adders, Calls
  <2> QED  BY <1>1, <2>1, CountsSame DEF Steady
<1>3. Knows(r, u)'
  <2>1. fetched'[u] = NoParts  BY <1>1 DEF Decide, Local, Ended
  <2>2. /\ parts[r][Part[u]] # None /\ counter[r] # None /\ got[u] <= counter[r]
    BY <1>1 DEF Steady, Knows, Beyond
  <2> QED  BY <1>1, <2>1, <2>2 DEF Knows, Beyond, Ended, NoParts
<1> QED  BY <1>1, <1>2, <1>3, OneMoves DEF Decide, Calls

LEMMA FetchSteady ==
  ASSUME NEW u \in Upload, Ready(u), TypeOK', Fetch(u) PROVE Steady(Req[u])'
<1> DEFINE r == Req[u]
<1> USE DEF Ready, TypeOK, Goes, cache, composing, faults
<1>1. /\ pc[u] = "fetch" /\ parts' = parts /\ counter' = counter /\ got' = got
      /\ pc' = [pc EXCEPT ![u] = "uploading"]
      /\ fetched'[u] = parts[r] /\ pending'[u] = Stores
  BY DEF Fetch
<1>2. Counts(r)'
  <2>1. Counted(r)' = Counted(r) /\ Incremented(r)' = Incremented(r)
    BY SamePlaces, <1>1 DEF Beyond, Ended, Adders, Calls
  <2> QED  BY <1>1, <2>1, CountsSame DEF Steady
<1>3. Knows(r, u)'
  <2>1. /\ parts[r][Part[u]] # None /\ counter[r] # None /\ got[u] <= counter[r]
        /\ got[u] = NumComponents
    BY <1>1 DEF Steady, Knows, Beyond
  <2> QED  BY <1>1, <2>1 DEF Knows, Beyond, Ended, Stores, NumComponents
<1> QED  BY <1>1, <1>2, <1>3, OneMoves DEF Fetch, Calls

LEMMA StoreSteady ==
  ASSUME NEW u \in Upload, Ready(u), TypeOK', NEW s \in Stores,
         StoreTakes(u, s) \/ StoreThrows(u, s)
  PROVE Steady(Req[u])'
<1> DEFINE r == Req[u]
<1> USE DEF Ready, TypeOK, Goes, cache, composing, faults
<1>1. /\ pc[u] = "uploading" /\ UNCHANGED <<pc, parts, counter, got, fetched>>
      /\ pending' = [pending EXCEPT ![u] = @ \ {s}]
  BY DEF StoreTakes, StoreThrows, Local
<1>2. Counts(r)'
  <2>1. Counted(r)' = Counted(r) /\ Incremented(r)' = Incremented(r)
    BY SamePlaces, <1>1 DEF Adders
  <2> QED  BY <1>1, <2>1, CountsSame DEF Steady
<1>3. \A v \in Upload, t \in Stores : v \in held[t] => v \in held'[t]
  <2>1. CASE held' = held  BY <2>1
  <2>2. CASE held' = [held EXCEPT ![s] = @ \union {u}]  BY <2>2
  <2> QED  BY <2>1, <2>2 DEF StoreTakes, StoreThrows
<1>4. /\ s \in thrown'[u] \/ u \in held'[s]
      /\ \A v \in Upload : thrown[v] \subseteq thrown'[v]
      /\ \A v \in Upload \ {u} : thrown'[v] = thrown[v]
  <2>0. /\ thrown \in [Upload -> SUBSET Stores]
        /\ held \in [Stores -> SUBSET Upload]
    BY DEF Ready, TypeOK
  <2>1. CASE StoreTakes(u, s)
    BY <2>0, <2>1 DEF StoreTakes
  <2>2. CASE StoreThrows(u, s)
    <3>1. thrown' = [thrown EXCEPT ![u] = thrown[u] \union {s}]
      BY <2>2 DEF StoreThrows
    <3> QED  BY <2>0, <3>1
  <2> QED  BY <2>1, <2>2
<1>5. Knows(r, u)'
  <2>1. Knows(r, u)  BY DEF Steady
  <2>2. \A t \in Stores : t \in pending'[u] \/ t \in thrown'[u] \/ u \in held'[t]
    BY <1>1, <1>3, <1>4, <2>1 DEF Knows
  <2> QED  BY <1>1, <2>1, <2>2 DEF Knows, NumComponents, NoParts, Stores, Beyond, Ended
<1>6. \A v \in Upload \ {u} :
        UNCHANGED <<pc[v], got[v], fetched[v], pending[v], thrown[v]>>
  BY <1>1, <1>4
<1>7. counter[r] # None => counter'[r] # None /\ counter'[r] >= counter[r]
  BY <1>1
<1>8. \A v \in Calls(r), t \in Stores : v \in held[t] => v \in held'[t]
  BY <1>3 DEF Calls
<1>9. \A c \in Component : parts[r][c] # None => parts'[r][c] = parts[r][c]
  BY <1>1
<1>10. Steady(r) /\ r \in Request /\ u \in Calls(r) /\ TypeOK  OBVIOUS
<1> QED  BY <1>2, <1>5, <1>6, <1>7, <1>8, <1>9, <1>10, OneMoves

LEMMA ReturnSteady ==
  ASSUME NEW u \in Upload, Ready(u), TypeOK', Return(u) PROVE Steady(Req[u])'
<1> DEFINE r == Req[u]
<1> USE DEF Ready, TypeOK, Goes, cache, composing, faults
<1>1. /\ pc[u] = "uploading" /\ pending[u] = {}
      /\ UNCHANGED <<parts, counter, got, fetched, pending, thrown, held>>
      /\ pc' = [pc EXCEPT ![u] = IF thrown[u] = {} THEN "returned" ELSE "error"]
  BY DEF Return
<1>2. Counts(r)'
  <2>1. Counted(r)' = Counted(r) /\ Incremented(r)' = Incremented(r)
    BY SamePlaces, <1>1 DEF Beyond, Ended, Adders, Calls
  <2> QED  BY <1>1, <2>1, CountsSame DEF Steady
<1>3. Knows(r, u)'
  <2>1. /\ parts[r][Part[u]] # None /\ counter[r] # None /\ got[u] <= counter[r]
        /\ got[u] = NumComponents /\ fetched[u] = parts[r]
        /\ \A t \in Stores : t \in thrown[u] \/ u \in held[t]
    BY <1>1 DEF Steady, Knows, Beyond
  <2> QED  BY <1>1, <2>1 DEF Knows, Beyond, Ended, NumComponents, Stores
<1> QED  BY <1>1, <1>2, <1>3, OneMoves DEF Calls

-----------------------------------------------------------------------------
(* The invariant *)

LEMMA StepSteady ==
  ASSUME NEW u \in Upload, Ready(u), TypeOK', UploadStep(u), Req[u] \notin disturbed'
  PROVE Steady(Req[u])'
<1>1. ~ IncrementFails(u) /\ ~ MemcachedFails(u)
  BY DEF IncrementFails, MemcachedFails
<1>2. ~ PeekMisses(u)
  BY DEF PeekMisses, Goes, Ready, Steady, Knows
<1>3. \A s \in Stores : StoreTakes(u, s) \/ StoreThrows(u, s) => Steady(Req[u])'
  BY StoreSteady
<1> QED  BY <1>1, <1>2, <1>3, InitCounterSteady, StorePartSteady, IncrementSteady, PeekSteady,
            DecideSteady, FetchSteady, ReturnSteady DEF UploadStep

\* What a step of u leaves alone.
LEMMA StepLeavesOthers ==
  ASSUME TypeOK, NEW u \in Upload, Begin(u) \/ UploadStep(u), NEW r \in Request, r # Req[u]
  PROVE /\ counter'[r] = counter[r]
        /\ parts'[r] = parts[r]
        /\ \A v \in Calls(r) : UNCHANGED <<pc[v], got[v], fetched[v], pending[v], thrown[v]>>
        /\ \A v \in Calls(r), s \in Stores : v \in held[s] => v \in held'[s]
<1>1. Req[u] \in Request /\ \A v \in Calls(r) : v \in Upload /\ v # u
  BY ReviewAssumption DEF Calls
<1>2. CounterAdded(Req[u])[r] = counter[r] /\ CounterIncremented(Req[u])[r] = counter[r]
  BY <1>1 DEF CounterAdded, CounterIncremented, TypeOK
<1>3. PartAdded(u)[r] = parts[r]
  BY <1>1 DEF PartAdded, TypeOK
<1> USE <1>1, <1>2, <1>3 DEF TypeOK, Goes, cache, composing, faults
<1>4. CASE Begin(u)  BY <1>4 DEF Begin
<1>5. CASE InitCounter(u)  BY <1>5 DEF InitCounter
<1>6. CASE StorePart(u)  BY <1>6 DEF StorePart
<1>7. CASE IncrementCounter(u)  BY <1>7 DEF IncrementCounter
<1>8. CASE IncrementFails(u)  BY <1>8 DEF IncrementFails
<1>9. CASE PeekCounter(u)  BY <1>9 DEF PeekCounter
<1>10. CASE PeekMisses(u)  BY <1>10 DEF PeekMisses
<1>11. CASE MemcachedFails(u)  BY <1>11 DEF MemcachedFails
<1>12. CASE Decide(u)  BY <1>12 DEF Decide
<1>13. CASE Fetch(u)  BY <1>13 DEF Fetch
<1>14. CASE \E s \in Stores : StoreTakes(u, s)  BY <1>14 DEF StoreTakes
<1>15. CASE \E s \in Stores : StoreThrows(u, s)  BY <1>15 DEF StoreThrows
<1>16. CASE Return(u)  BY <1>16 DEF Return
<1> QED  BY <1>4, <1>5, <1>6, <1>7, <1>8, <1>9, <1>10, <1>11, <1>12, <1>13, <1>14, <1>15,
            <1>16 DEF UploadStep

LEMMA SteadyKept ==
  ASSUME IInv, TypeOK', [Next]_vars, NEW r \in Request \ disturbed'
  PROVE Steady(r)'
<1>1. disturbed \subseteq disturbed'
  <2>1. CASE UNCHANGED vars  BY <2>1 DEF vars
  <2>2. ASSUME NEW u \in Upload, Begin(u) PROVE disturbed \subseteq disturbed'
    BY <2>2 DEF Begin, faults
  <2>3. ASSUME NEW u \in Upload, UploadStep(u) PROVE disturbed \subseteq disturbed'
    BY <2>3 DEF UploadStep, InitCounter, StorePart, IncrementCounter, IncrementFails,
       PeekCounter, PeekMisses, MemcachedFails, Decide, Fetch, StoreTakes, StoreThrows,
       Return, faults
  <2>4. ASSUME NEW q \in Request, LoseKey(q) PROVE disturbed \subseteq disturbed'
    BY <2>4 DEF LoseKey
  <2> QED  BY <2>1, <2>2, <2>3, <2>4 DEF Next
<1>2. TypeOK /\ Placed /\ Steady(r) /\ r \in Request  BY <1>1 DEF IInv
<1>3. CASE UNCHANGED vars
  BY <1>2, <1>3, Elsewhere DEF vars
<1>4. ASSUME NEW u \in Upload, Begin(u) \/ UploadStep(u) PROVE Steady(r)'
  <2>1. CASE Req[u] = r
    <3>1. Ready(u)  BY <1>2, <2>1, ReviewAssumption DEF IInv, Ready, Calls
    <3> QED  BY <1>4, <2>1, <3>1, BeginSteady, StepSteady
  <2>2. CASE Req[u] # r
    BY <1>2, <1>4, <2>2, StepLeavesOthers, Elsewhere
  <2> QED  BY <2>1, <2>2
<1>5. ASSUME NEW q \in Request, LoseKey(q) PROVE Steady(r)'
  <2>1. q # r  BY <1>5 DEF LoseKey
  <2>2. /\ counter'[r] = counter[r]
        /\ parts'[r] = parts[r]
        /\ UNCHANGED <<pc, got, fetched, pending, thrown, held>>
    BY <1>2, <1>5, <2>1 DEF LoseKey, composing, TypeOK
  <2> QED  BY <1>2, <2>2, Elsewhere
<1> QED  BY <1>3, <1>4, <1>5 DEF Next

LEMMA StepIInv == IInv /\ [Next]_vars => IInv'
<1> SUFFICES ASSUME IInv, [Next]_vars PROVE IInv'  OBVIOUS
<1>1. TypeOK'  BY TypeKept DEF IInv
<1>2. Placed'  BY PlacedKept DEF IInv
<1>3. \A u \in Upload : Local(u)'  BY LocalKept DEF IInv
<1>4. \A r \in Request \ disturbed' : Steady(r)'  BY <1>1, SteadyKept
<1> QED  BY <1>1, <1>2, <1>3, <1>4 DEF IInv

\* The counter of a request nothing disturbs counts the parts, and the calls that
\* counted hold the numbers up to it: the reason why the protocol of
\* ComposeReviewHandler works, in every state.
THEOREM Invariance == Spec => []IInv
<1>1. Init => IInv  BY InitIInv
<1>2. IInv /\ [Next]_vars => IInv'  BY StepIInv
<1> QED  BY <1>1, <1>2, PTL DEF Spec

\* Keys, threads and stores hold values of their types.
THEOREM TypeCorrect == Spec => []TypeOK
<1>1. IInv => TypeOK  BY DEF IInv
<1> QED  BY <1>1, Invariance, PTL

LEMMA ComposersKnow ==
  ASSUME IInv, NEW r \in Request \ disturbed, NEW u \in Composers(r)
  PROVE /\ u \in Calls(r) /\ pc[u] \in Beyond /\ got[u] = NumComponents
        /\ pc[u] # "fetch" => fetched[u] = parts[r] /\ Full(r)
<1>1. u \in Calls(r) /\ u \in Upload /\ TypeOK /\ Counts(r) /\ Knows(r, u) /\ Local(u)
  BY DEF IInv, Composers, Calls, Steady
<1>2. pc[u] \in Beyond /\ got[u] = NumComponents
  BY <1>1 DEF Composers, Knows, Local, Beyond
<1>3. Full(r)
  <2>1. counter[r] # None /\ got[u] <= counter[r]
    BY <1>1, <1>2 DEF Knows, Beyond, Ended
  <2> QED  BY <1>1, <1>2, <2>1, LastSeesAll
<1>4. pc[u] # "fetch" => fetched[u] = parts[r]
  BY <1>1, <1>2 DEF Composers, Knows, Local
<1> QED  BY <1>1, <1>2, <1>3, <1>4

\* Composed reviews have all their parts, for any number of parts and calls.
THEOREM WholeReviewsCorrect == Spec => []WholeReviews
<1>1. IInv => WholeReviews  BY ComposersKnow DEF WholeReviews, Full
<1> QED  BY <1>1, Invariance, PTL

\* Calls that compose the same request compose the same review.
THEOREM SameReviewCorrect == Spec => []SameReview
<1>1. IInv => SameReview  BY ComposersKnow DEF SameReview
<1> QED  BY <1>1, Invariance, PTL

\* Without a repeated call a review is composed once.
THEOREM OneComposerCorrect == Spec => []OneComposer
<1>1. IInv => OneComposer
  <2> SUFFICES ASSUME IInv, NEW r \in Request \ disturbed,
                      NEW u \in Composers(r) \intersect Adders(r),
                      NEW v \in Composers(r) \intersect Adders(r)
               PROVE u = v
    BY DEF OneComposer
  <2>1. u \in Incremented(r) /\ v \in Incremented(r) /\ got[u] = got[v]
    BY ComposersKnow DEF Incremented
  <2>2. Counts(r)  BY DEF IInv, Steady
  <2> QED  BY <2>1, <2>2 DEF Counts
<1> QED  BY <1>1, Invariance, PTL

\* When every part has come and no call failed, the review is in the stores.
THEOREM DeliveredCorrect == Spec => []Delivered
<1>1. IInv => Delivered
  <2> SUFFICES ASSUME IInv, NEW r \in Request \ disturbed,
                      \A u \in Calls(r) : pc[u] \in {"idle", "returned"},
                      \A c \in Component : \E u \in Calls(r) : Part[u] = c /\ pc[u] = "returned"
               PROVE \E u \in Calls(r) : \A s \in Stores : u \in held[s]
    BY DEF Delivered
  <2>1. TypeOK /\ Placed /\ Counts(r) /\ \A u \in Calls(r) : Knows(r, u)
    BY DEF IInv, Steady
  <2>2. Full(r)
    BY <2>1 DEF Full, Knows, Beyond, Ended
  <2>3. Counted(r) = Component
    <3>1. \A c \in Component : parts[r][c] \in Calls(r)
      BY <2>1, <2>2 DEF Full, TypeOK, Placed, Calls
    <3> QED  BY <2>2, <3>1 DEF Full, Counted
  <2>4. counter[r] # None /\ counter[r] = NumComponents
    BY <2>1, <2>2, <2>3, ReviewAssumption DEF Counts, Full, NumComponents
  <2>5. NumComponents \in 1..counter[r]  BY <2>4, NumType
  <2>6. PICK u \in Incremented(r) : got[u] = NumComponents
    BY <2>1, <2>4, <2>5 DEF Counts
  <2>7. u \in Calls(r) /\ pc[u] = "returned"
    BY <2>6 DEF Incremented, Adders, Beyond, Ended
  <2> QED  BY <2>1, <2>6, <2>7 DEF Knows
<1> QED  BY <1>1, Invariance, PTL

-----------------------------------------------------------------------------
(* Without the history: what concurrency alone can do *)

Faultless == failures = 0 /\ losses = 0

\* It takes a failure or a lost key to disturb a request: no overlap of calls
\* and no repetition does, because an increment always finds the counter that
\* the call has added before.
THEOREM OnlyFaultsDisturb == Spec => [](Faultless => disturbed = {})
<1> DEFINE J == Faultless => disturbed = {}
<1>1. Init => J  BY DEF Init
<1>2. IInv /\ J /\ [Next]_vars => J'
  <2> SUFFICES ASSUME IInv, J, [Next]_vars, Faultless' PROVE disturbed' = {}
    BY DEF Faultless
  <2>0. failures \in Nat /\ losses \in Nat  BY DEF IInv, TypeOK
  <2>1. ASSUME NEW u \in Upload,
               \/ Begin(u) \/ InitCounter(u) \/ StorePart(u) \/ IncrementCounter(u)
               \/ PeekCounter(u) \/ PeekMisses(u) \/ Decide(u) \/ Fetch(u) \/ Return(u)
        PROVE disturbed' = {}
    BY <2>1 DEF Faultless, faults, Begin, InitCounter, StorePart, IncrementCounter,
                PeekCounter, PeekMisses, Decide, Fetch, Return
  <2>2. ASSUME NEW u \in Upload, NEW s \in Stores, StoreTakes(u, s) \/ StoreThrows(u, s)
        PROVE disturbed' = {}
    BY <2>0, <2>2 DEF Faultless, faults, StoreTakes, StoreThrows
  <2>3. ASSUME NEW u \in Upload, MemcachedFails(u) PROVE disturbed' = {}
    BY <2>0, <2>3 DEF Faultless, MemcachedFails
  <2>4. ASSUME NEW u \in Upload, IncrementFails(u) PROVE disturbed' = {}
    <3>1. counter[Req[u]] = None /\ failures' = failures /\ losses' = losses
      BY <2>0, <2>4 DEF Faultless, IncrementFails
    <3>2. Req[u] \in Request \ disturbed  BY <3>1, ReviewAssumption DEF Faultless
    <3>3. Knows(Req[u], u)  BY <3>2 DEF IInv, Steady, Calls
    <3>4. pc[u] = "count"  BY <2>4 DEF IncrementFails, Goes
    <3> QED  BY <3>1, <3>3, <3>4 DEF Knows
  <2>5. ASSUME NEW r \in Request, LoseKey(r) PROVE disturbed' = {}
    BY <2>0, <2>5 DEF Faultless, LoseKey
  <2>6. CASE UNCHANGED vars  BY <2>6 DEF Faultless, vars, faults
  <2> QED  BY <2>1, <2>2, <2>3, <2>4, <2>5, <2>6 DEF Next, UploadStep
<1> HIDE DEF J
<1>3. Spec => []J  BY <1>1, <1>2, Invariance, PTL DEF Spec
<1> QED  BY <1>3, PTL DEF J

\* What ComposeReviewHandler.h:340 says of an increment that fails is right as
\* long as none does: the calls that returned with their part have been counted.
THEOREM CountedWithoutFaults == Spec => [](Faultless => ReturnedAreCounted)
<1>1. IInv /\ (Faultless => disturbed = {}) => (Faultless => ReturnedAreCounted)
  <2> SUFFICES ASSUME IInv, disturbed = {}, NEW r \in Request, counter[r] # None
               PROVE  counter[r] >= Cardinality({u \in Adders(r) : pc[u] = "returned"})
    BY DEF ReturnedAreCounted
  <2> DEFINE Home == {u \in Adders(r) : pc[u] = "returned"}
  <2>1. counter[r] = Cardinality(Counted(r))  BY DEF IInv, Steady, Counts
  <2>2. IsFiniteSet(Counted(r))  BY CountedFinite DEF Counted
  <2>3. \A u \in Home : Part[u] \in Counted(r) /\ parts[r][Part[u]] = u
    BY ReviewAssumption DEF Adders, Calls, Counted
  <2>4. [u \in Home |-> Part[u]] \in Injection(Home, Counted(r))
    BY <2>3 DEF Injection, IsInjective
  <2>5. Cardinality(Home) <= Cardinality(Counted(r))
    BY <2>2, <2>4, FS_Injection
  <2>6. Cardinality(Home) \in Nat /\ Cardinality(Counted(r)) \in Nat
    BY <2>2, <2>4, FS_Injection, FS_CardinalityType
  <2> QED  BY <2>1, <2>5, <2>6
<1> QED  BY <1>1, OnlyFaultsDisturb, Invariance, PTL
=============================================================================
