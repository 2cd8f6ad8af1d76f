--------------------------- MODULE ClientPoolProofs ---------------------------
(***************************************************************************)
(* Proofs about ClientPool, for any finite set of threads and any pool     *)
(* sizes: the counter of the pool is exact, a connection has one user, and *)
(* no wake-up is lost.                                                     *)
(***************************************************************************)
EXTENDS ClientPool, FiniteSetTheorems, TLAPS

\* How many threads satisfy P(pc) changes by at most one when one thread moves.
Number(S, f) == Cardinality({u \in Thread : f[u] \in S})
In(p, S) == IF p \in S THEN 1 ELSE 0

\* A thread that moves leaves the count of S if it was in S, and joins it if
\* its new place is in S.
LEMMA MoveOne ==
  ASSUME NEW S, NEW f, NEW g, NEW t \in Thread,
         \A u \in Thread \ {t} : g[u] = f[u]
  PROVE  /\ Number(S, f) \in Nat
         /\ Number(S, g) \in Nat
         /\ Number(S, g) = Number(S, f) + In(g[t], S) - In(f[t], S)
<1> DEFINE A == {u \in Thread : f[u] \in S}
           B == {u \in Thread : g[u] \in S}
<1>1. IsFiniteSet(A) /\ Cardinality(A) \in Nat
  <2>1. A \subseteq Thread  OBVIOUS
  <2>2. IsFiniteSet(A)  BY <2>1, PoolAssumption, FS_Subset
  <2> QED  BY <2>2, FS_CardinalityType
<1>2. B = IF g[t] \in S THEN A \union {t} ELSE A \ {t}
  OBVIOUS
<1>3. t \in A <=> f[t] \in S
  OBVIOUS
<1>4. /\ Cardinality(A \union {t}) = IF t \in A THEN Cardinality(A)
                                              ELSE Cardinality(A) + 1
      /\ Cardinality(A \ {t}) = IF t \in A THEN Cardinality(A) - 1
                                           ELSE Cardinality(A)
      /\ IsFiniteSet(A \union {t})
      /\ IsFiniteSet(A \ {t})
  BY <1>1, FS_AddElement, FS_RemoveElement
<1>5. IsFiniteSet(B)  BY <1>2, <1>4
<1>6. Cardinality(B) \in Nat  BY <1>5, FS_CardinalityType
<1>7. Cardinality(B) = Cardinality(A) + In(g[t], S) - In(f[t], S)
  <2> HIDE DEF A, B
  <2> QED  BY <1>1, <1>2, <1>3, <1>4 DEF In
<1> QED  BY <1>1, <1>6, <1>7 DEF Number

LEMMA NumberIsNat ==
  ASSUME NEW S, NEW f, NEW t \in Thread  PROVE Number(S, f) \in Nat
<1>1. \A u \in Thread \ {t} : f[u] = f[u]  OBVIOUS
<1> QED  BY <1>1, MoveOne

\* The same for two threads that move together (a notifier and its waiter).
LEMMA MoveTwo ==
  ASSUME NEW S, NEW f, NEW g, NEW t \in Thread, NEW w \in Thread, t # w,
         \A u \in Thread \ {t, w} : g[u] = f[u]
  PROVE  Number(S, g) = Number(S, f) + In(g[t], S) - In(f[t], S)
                                     + In(g[w], S) - In(f[w], S)
<1> DEFINE h == [u \in Thread |-> IF u = t THEN g[t] ELSE f[u]]
<1>1. /\ h[t] = g[t]
      /\ h[w] = f[w]
      /\ \A u \in Thread \ {t} : h[u] = f[u]
      /\ \A u \in Thread \ {w} : g[u] = h[u]
  OBVIOUS
<1> HIDE DEF h
<1>2. /\ Number(S, h) \in Nat
      /\ Number(S, f) \in Nat
      /\ Number(S, h) = Number(S, f) + In(g[t], S) - In(f[t], S)
  BY <1>1, MoveOne
<1>3. Number(S, g) = Number(S, h) + In(g[w], S) - In(f[w], S)
  BY <1>1, MoveOne
<1>4. \A x : In(x, S) \in Nat  BY DEF In
<1> QED  BY <1>2, <1>3, <1>4

-----------------------------------------------------------------------------
(* Typing and accounting *)

CountedPCs == {"connect", "call", "remove"}

IInv == TypeOK /\ Accounting

LEMMA CountedIsNumber == Accounting <=> curr = Len(pool) + Number(CountedPCs, pc)
BY DEF Accounting, Counted, Number, CountedPCs

\* What each way of leaving the locked part of Pop does to the state.
LEMMA AcquireEffect ==
  ASSUME IInv, NEW t \in Thread, t \notin Holders, ~Blocked, Acquire(t)
  PROVE  /\ pc' = [pc EXCEPT ![t] = "connect"]
         /\ client' \in [Thread -> Client \union {NoClient}]
         /\ client'[t] # NoClient
         /\ \A u \in Thread \ {t} : client'[u] = client[u]
         /\ pool' \in Seq(Client)
         /\ curr' \in 0 .. MaxSize
         /\ curr' - Len(pool') = (curr - Len(pool)) + 1
<1>1. CASE TakeFront(t)
  <2>1. /\ Head(pool) \in Client
        /\ Tail(pool) \in Seq(Client)
        /\ Len(Tail(pool)) = Len(pool) - 1
    BY <1>1 DEF TakeFront, IInv, TypeOK
  <2>2. /\ pool' = Tail(pool)
        /\ curr' = curr
        /\ client' = [client EXCEPT ![t] = Head(pool)]
        /\ pc' = [pc EXCEPT ![t] = "connect"]
    BY <1>1 DEF TakeFront, Acquire
  <2>3. Len(pool) \in Nat /\ curr \in 0 .. MaxSize  BY DEF IInv, TypeOK
  <2>4. /\ client' \in [Thread -> Client \union {NoClient}]
        /\ client'[t] # NoClient
        /\ \A u \in Thread \ {t} : client'[u] = client[u]
    BY <2>1, <2>2, PoolAssumption DEF IInv, TypeOK
  <2> QED  BY <2>1, <2>2, <2>3, <2>4, PoolAssumption
<1>2. CASE CreateClient(t)
  <2>1. curr < MaxSize
    BY <1>2, PoolAssumption DEF CreateClient, Blocked, IInv, TypeOK
  <2>2. /\ pool' = pool
        /\ curr' = curr + 1
        /\ pc' = [pc EXCEPT ![t] = "connect"]
    BY <1>2 DEF CreateClient, Acquire
  <2>3. /\ pool \in Seq(Client)
        /\ Len(pool) \in Nat
        /\ curr \in 0 .. MaxSize
    BY DEF IInv, TypeOK
  <2>4. /\ client' \in [Thread -> Client \union {NoClient}]
        /\ client'[t] # NoClient
        /\ \A u \in Thread \ {t} : client'[u] = client[u]
    BY <1>2, PoolAssumption DEF CreateClient, IInv, TypeOK
  <2> QED  BY <2>1, <2>2, <2>3, <2>4, PoolAssumption
<1> QED  BY <1>1, <1>2 DEF Acquire

\* The number of dropped wake-ups keeps its type; only a thread that goes to
\* sleep and a constructor that throws for a woken thread change it.
LEMMA DroppedTyped ==
  ASSUME TypeOK, NEW t \in Thread, Step(t)
  PROVE  dropped' \in 0 .. MaxSize
<1> USE PoolAssumption DEF TypeOK
<1>1. CASE \/ PopEnters(t) \/ WakesSpuriously(t) \/ DeadlinePasses(t)
           \/ Connects(t) \/ ConnectFails(t) \/ CallFails(t) \/ Keepalive(t)
           \/ PopTimesOut(t) \/ RemoveUncounts(t) \/ NotifyOne(t)
  BY <1>1 DEF PopEnters, WakesSpuriously, DeadlinePasses, Connects,
              ConnectFails, CallFails, Keepalive, PopTimesOut, RemoveUncounts,
              NotifyOne, DeleteClient, Push
<1>2. CASE PopBlocks(t) \/ PopWaitsAgain(t)
  BY <1>2 DEF PopBlocks, PopWaitsAgain, Sleep
<1>3. CASE PopResumes(t)
  BY <1>3 DEF PopResumes, WakeupDropped
<1> QED  BY <1>1, <1>2, <1>3 DEF Step, PoolStep

\* A step of a thread that is not a notification moves that thread alone,
\* and keeps the typing and the accounting.
LEMMA StepKeepsIInv ==
  ASSUME IInv, NEW t \in Thread, Step(t)
  PROVE  IInv'
<1> USE PoolAssumption
<1> DEFINE n == Number(CountedPCs, pc)
           m == Number(CountedPCs, pc')
<1>0. /\ n \in Nat
      /\ curr = Len(pool) + n
      /\ Len(pool) \in Nat
      /\ curr \in 0 .. MaxSize
      /\ DOMAIN pc = Thread
  BY MoveOne, CountedIsNumber DEF IInv, TypeOK
<1>d. dropped' \in 0 .. MaxSize  BY DroppedTyped DEF IInv
<1>1. ASSUME NEW p \in PCs, pc' = [pc EXCEPT ![t] = p]
      PROVE  /\ pc' \in [Thread -> PCs]
             /\ m \in Nat
             /\ m = n + In(p, CountedPCs) - In(pc[t], CountedPCs)
  <2>1. pc' \in [Thread -> PCs]  BY <1>1 DEF IInv, TypeOK
  <2>2. pc'[t] = p /\ \A u \in Thread \ {t} : pc'[u] = pc[u]
    BY <1>1 DEF IInv, TypeOK
  <2> QED  BY <2>1, <2>2, MoveOne DEF m, n
<1>2. ASSUME curr' = Len(pool') + m  PROVE Accounting'
  BY <1>2 DEF Accounting, Counted, Number, CountedPCs
<1> HIDE DEF n, m
<1>3. ASSUME Acquire(t), pc[t] \in {"idle", "woken", "timedout"}, ~Blocked
      PROVE  IInv'
  <2>1. t \notin Holders  BY <1>3 DEF Holders
  <2>2. /\ client' \in [Thread -> Client \union {NoClient}]
        /\ client'[t] # NoClient
        /\ \A u \in Thread \ {t} : client'[u] = client[u]
    BY <1>3, <2>1, AcquireEffect
  <2>3. /\ pc' = [pc EXCEPT ![t] = "connect"]
        /\ pool' \in Seq(Client)
        /\ curr' \in 0 .. MaxSize
        /\ curr' - Len(pool') = (curr - Len(pool)) + 1
    BY <1>3, <2>1, AcquireEffect
  <2>4. m = n + 1 /\ pc' \in [Thread -> PCs]
    BY <1>0, <1>1, <1>3, <2>3 DEF In, CountedPCs, PCs
  <2>5. Len(pool') \in Nat  BY <2>3
  <2>6. curr' = Len(pool') + m  BY <1>0, <2>3, <2>4, <2>5
  <2>7. TypeOK'
    BY <1>d, <2>2, <2>3, <2>4 DEF TypeOK, IInv, Holders
  <2> QED  BY <1>2, <2>6, <2>7 DEF IInv
<1>4. ASSUME NEW p \in PCs \ {"connect", "call", "remove"},
             pc[t] \notin {"connect", "call", "remove"},
             pc' = [pc EXCEPT ![t] = p],
             UNCHANGED <<pool, curr, client>>
      PROVE  IInv'
  <2>0. /\ pc' \in [Thread -> PCs]
        /\ m = n + In(p, CountedPCs) - In(pc[t], CountedPCs)
    BY <1>1, <1>4
  <2>1. m = n /\ pc' \in [Thread -> PCs]
    BY <1>0, <1>4, <2>0 DEF In, CountedPCs
  <2>2. Accounting'  BY <1>0, <1>2, <1>4, <2>1
  <2>3. TypeOK'  BY <1>d, <1>4, <2>1 DEF TypeOK, IInv, Holders
  <2> QED  BY <2>2, <2>3 DEF IInv
<1>5. ASSUME pc[t] \in {"connect", "call"}, DeleteClient(t)  PROVE IInv'
  <2>1. m = n /\ pc' \in [Thread -> PCs]
    BY <1>0, <1>1, <1>5 DEF In, CountedPCs, PCs, DeleteClient
  <2>2. Accounting'  BY <1>0, <1>2, <1>5, <2>1 DEF DeleteClient
  <2>3. TypeOK'  BY <1>d, <1>5, <2>1 DEF TypeOK, IInv, Holders, DeleteClient
  <2> QED  BY <2>2, <2>3 DEF IInv
<1>6. CASE PopEnters(t)
  <2>1. CASE Acquire(t)  BY <1>3, <1>6, <2>1 DEF PopEnters
  <2>2. CASE CtorThrows(t)
    BY <1>4, <1>6, <2>2 DEF PopEnters, CtorThrows, PCs
  <2> QED  BY <1>6, <2>1, <2>2 DEF PopEnters
<1>7. CASE PopBlocks(t)  BY <1>4, <1>7 DEF PopBlocks, Sleep, PCs
<1>8. CASE WakesSpuriously(t)  BY <1>4, <1>8 DEF WakesSpuriously, PCs
<1>9. CASE DeadlinePasses(t)  BY <1>4, <1>9 DEF DeadlinePasses, PCs
<1>10. CASE PopResumes(t)
  <2>0. ~Blocked  BY <1>0, <1>10 DEF PopResumes, Available, Blocked
  <2>1. CASE Acquire(t)  BY <1>3, <1>10, <2>0, <2>1 DEF PopResumes
  <2>2. CASE WakeupDropped(t)
    BY <1>4, <1>10, <2>2 DEF PopResumes, WakeupDropped, CtorThrows, PCs
  <2> QED  BY <1>10, <2>1, <2>2 DEF PopResumes
<1>11. CASE PopWaitsAgain(t)  BY <1>4, <1>11 DEF PopWaitsAgain, Sleep, PCs
<1>12. CASE PopTimesOut(t)  BY <1>4, <1>12 DEF PopTimesOut, PCs
<1>13. CASE Connects(t)
  <2>1. m = n /\ pc' \in [Thread -> PCs]
    BY <1>0, <1>1, <1>13 DEF In, CountedPCs, PCs, Connects
  <2>2. Accounting'  BY <1>0, <1>2, <1>13, <2>1 DEF Connects
  <2>3. TypeOK'  BY <1>d, <1>13, <2>1 DEF TypeOK, IInv, Holders, Connects
  <2> QED  BY <2>2, <2>3 DEF IInv
<1>14. CASE ConnectFails(t)  BY <1>5, <1>14 DEF ConnectFails
<1>15. CASE CallFails(t)  BY <1>5, <1>15 DEF CallFails
<1>16. CASE Keepalive(t)
  <2>1. CASE Push(t)
    <3>1. client[t] \in Client
      BY <1>16 DEF Keepalive, IInv, TypeOK, Holders
    <3>2. /\ m = n - 1
          /\ pc' \in [Thread -> PCs]
      BY <1>0, <1>1, <1>16, <2>1 DEF In, CountedPCs, PCs, Push, Keepalive
    <3>3. pool' \in Seq(Client) /\ Len(pool') = Len(pool) + 1
      BY <2>1, <3>1 DEF Push, IInv, TypeOK
    <3>4. Accounting'  BY <1>0, <1>2, <2>1, <3>2, <3>3 DEF Push
    <3>5. TypeOK'
      BY <1>d, <1>16, <2>1, <3>2, <3>3 DEF TypeOK, IInv, Holders, Push, Keepalive
    <3> QED  BY <3>4, <3>5 DEF IInv
  <2>2. CASE DeleteClient(t)  BY <1>5, <1>16, <2>2 DEF Keepalive
  <2> QED  BY <1>16, <2>1, <2>2 DEF Keepalive
<1>17. CASE RemoveUncounts(t)
  <2>1. /\ m \in Nat /\ m = n - 1
        /\ pc' \in [Thread -> PCs]
    BY <1>0, <1>1, <1>17 DEF In, CountedPCs, PCs, RemoveUncounts
  <2>2. Accounting'  BY <1>0, <1>2, <1>17, <2>1 DEF RemoveUncounts
  <2>3. curr' \in 0 .. MaxSize
    BY <1>0, <1>17, <2>1 DEF RemoveUncounts
  <2>4. TypeOK'
    BY <1>d, <1>17, <2>1, <2>3 DEF TypeOK, IInv, Holders, RemoveUncounts
  <2> QED  BY <2>2, <2>4 DEF IInv
<1>18. CASE NotifyOne(t)
  <2>1. CASE Waiters = {}  BY <1>4, <1>18, <2>1 DEF NotifyOne, PCs
  <2>2. ASSUME NEW w \in Waiters,
               pc' = [pc EXCEPT ![t] = "idle", ![w] = "woken"]
        PROVE  IInv'
    <3>1. /\ w \in Thread
          /\ w # t
          /\ pc[t] = "notify"
          /\ pc[w] = "waiting"
          /\ UNCHANGED <<pool, curr, client>>
      BY <1>18, <2>2 DEF NotifyOne, Waiters
    <3>2. m = n + In("idle", CountedPCs) - In(pc[t], CountedPCs)
                + In("woken", CountedPCs) - In(pc[w], CountedPCs)
      <4>1. /\ pc'[t] = "idle"
            /\ pc'[w] = "woken"
            /\ \A u \in Thread \ {t, w} : pc'[u] = pc[u]
        BY <1>0, <2>2, <3>1
      <4> QED  BY <3>1, <4>1, MoveTwo DEF m, n
    <3>6. m = n  BY <1>0, <3>1, <3>2 DEF In, CountedPCs
    <3>7. pc' \in [Thread -> PCs]
      BY <2>2, <3>1 DEF IInv, TypeOK, PCs
    <3>8. Accounting'  BY <1>0, <1>2, <3>1, <3>6
    <3>9. TypeOK'
      BY <1>d, <2>2, <3>1, <3>7 DEF TypeOK, IInv, Holders
    <3> QED  BY <3>8, <3>9 DEF IInv
  <2> QED  BY <1>18, <2>1, <2>2 DEF NotifyOne
<1> QED
  BY <1>6, <1>7, <1>8, <1>9, <1>10, <1>11, <1>12, <1>13, <1>14, <1>15,
     <1>16, <1>17, <1>18 DEF Step, PoolStep

\* At start the pool holds its MinSize clients and nobody holds one.
LEMMA InitIInv == Init => IInv
<1> SUFFICES ASSUME Init PROVE IInv  OBVIOUS
<1> USE PoolAssumption
<1>1. pool \in Seq(Client) /\ Len(pool) = MinSize  BY DEF Init
<1>2. Counted = {} /\ Holders = {}  BY DEF Init, Counted, Holders
<1>3. Cardinality(Counted) = 0  BY <1>2, FS_EmptySet
<1>4. Accounting  BY <1>1, <1>3 DEF Accounting, Init
<1>5. TypeOK  BY <1>1, <1>2 DEF TypeOK, Init, PCs
<1> QED  BY <1>4, <1>5 DEF IInv

LEMMA NextKeepsIInv == IInv /\ [Next]_vars => IInv'
<1> SUFFICES ASSUME IInv, [Next]_vars PROVE IInv'  OBVIOUS
<1>1. CASE Next  BY <1>1, StepKeepsIInv DEF Next
<1>2. CASE UNCHANGED vars
  BY <1>2 DEF vars, IInv, TypeOK, Accounting, Counted, Holders
<1> QED  BY <1>1, <1>2

LEMMA InvariantIInv == Spec => []IInv
BY InitIInv, NextKeepsIInv, PTL DEF Spec

\* The state of the pool keeps its type; in particular _curr_pool_size never
\* leaves 0 .. _max_pool_size, so the "==" in the loop condition of Pop is as
\* good as ">=".
THEOREM TypeCorrect == Spec => []TypeOK
<1>1. IInv => TypeOK  BY DEF IInv
<1> QED  BY <1>1, InvariantIInv, PTL

\* _curr_pool_size is exactly the clients that are free, in use or being
\* removed, whatever the interleaving of Pop, Push and Remove and whichever
\* of Connect, the constructor or the RPC throws.
THEOREM AccountingCorrect == Spec => []Accounting
<1>1. IInv => Accounting  BY DEF IInv
<1> QED  BY <1>1, InvariantIInv, PTL
-----------------------------------------------------------------------------
(* One user per connection *)

\* A step keeps connections in the hands of one thread.
LEMMA StepKeepsExclusive ==
  ASSUME IInv, Exclusive, NEW t \in Thread, Step(t)
  PROVE  Exclusive'
<1> USE PoolAssumption
<1>0. /\ pool \in Seq(Client)
      /\ pc \in [Thread -> PCs]
      /\ client \in [Thread -> Client \union {NoClient}]
  BY DEF IInv, TypeOK
<1>1. ASSUME pool' = pool, client' = client, Holders' = Holders
      PROVE  Exclusive'
  BY <1>1 DEF Exclusive, Pooled
<1>2. ASSUME pool' = pool, Holders' = Holders \ {t},
             \A u \in Thread \ {t} : client'[u] = client[u]
      PROVE  Exclusive'
  BY <1>2 DEF Exclusive, Pooled, Holders
<1>3. ASSUME t \notin Holders, Acquire(t)  PROVE Exclusive'
  <2>1. pc' = [pc EXCEPT ![t] = "connect"]  BY <1>3 DEF Acquire
  <2>2. Holders' = Holders \union {t}  BY <1>0, <2>1 DEF Holders
  <2>3. CASE TakeFront(t)
    <3> DEFINE n == Len(pool)
    <3>1. /\ n \in Nat
          /\ n # 0
          /\ DOMAIN pool = 1 .. n
          /\ DOMAIN pool' = 1 .. n - 1
          /\ \A i \in 1 .. n - 1 : pool'[i] = pool[i + 1]
          /\ Head(pool) = pool[1]
      BY <1>0, <2>3 DEF TakeFront
    <3>2. /\ client'[t] = pool[1]
          /\ \A u \in Thread \ {t} : client'[u] = client[u]
      BY <1>0, <2>3, <3>1 DEF TakeFront
    <3> HIDE DEF n
    <3>3. \A i, j \in DOMAIN pool' : pool'[i] = pool'[j] => i = j
      <4> SUFFICES ASSUME NEW i \in 1 .. n - 1, NEW j \in 1 .. n - 1,
                          pool'[i] = pool'[j]
                   PROVE  i = j
        BY <3>1
      <4>1. /\ i + 1 \in 1 .. n
            /\ j + 1 \in 1 .. n
            /\ pool[i + 1] = pool[j + 1]
        BY <3>1
      <4>2. i + 1 = j + 1  BY <3>1, <4>1 DEF Exclusive
      <4> QED  BY <3>1, <4>2
    <3>4. Pooled' \subseteq Pooled
      <4> SUFFICES ASSUME NEW i \in 1 .. n - 1  PROVE pool'[i] \in Pooled
        BY <3>1 DEF Pooled
      <4>1. i + 1 \in DOMAIN pool /\ pool'[i] = pool[i + 1]  BY <3>1
      <4> QED  BY <4>1 DEF Pooled
    <3>5. pool[1] \in Pooled  BY <3>1 DEF Pooled
    <3>6. pool[1] \notin Pooled'
      <4> SUFFICES ASSUME NEW i \in 1 .. n - 1, pool'[i] = pool[1]
                   PROVE  FALSE
        BY <3>1 DEF Pooled
      <4>1. i + 1 \in 1 .. n /\ 1 \in 1 .. n /\ pool[i + 1] = pool[1]
        BY <3>1
      <4>2. i + 1 = 1  BY <3>1, <4>1 DEF Exclusive
      <4> QED  BY <3>1, <4>2
    <3>7. \A u \in Holders : u # t /\ client'[u] = client[u] /\ client[u] \notin Pooled
      BY <1>3, <3>2 DEF Exclusive, Holders
    <3>8. \A u, v \in Holders' : client'[u] = client'[v] => u = v
      BY <2>2, <3>2, <3>5, <3>7 DEF Exclusive
    <3>9. \A u \in Holders' : client'[u] \notin Pooled'
      BY <2>2, <3>2, <3>4, <3>6, <3>7
    <3> QED  BY <3>3, <3>8, <3>9 DEF Exclusive
  <2>4. CASE CreateClient(t)
    <3>1. PICK c \in Client \ Live : client' = [client EXCEPT ![t] = c]
      BY <2>4 DEF CreateClient
    <3>2. /\ pool' = pool
          /\ Pooled' = Pooled
          /\ client'[t] = c
          /\ \A u \in Thread \ {t} : client'[u] = client[u]
      BY <1>0, <2>4, <3>1 DEF CreateClient, Pooled
    <3>3. c \notin Pooled /\ \A u \in Holders : u # t /\ client[u] # c
      BY <1>3, <3>1 DEF Live
    <3>4. \A u \in Holders : client'[u] = client[u]
      BY <3>2, <3>3 DEF Holders
    <3> QED  BY <2>2, <3>2, <3>3, <3>4 DEF Exclusive
  <2> QED  BY <1>3, <2>3, <2>4 DEF Acquire
<1>4. ASSUME t \in Holders, DeleteClient(t)  PROVE Exclusive'
  <2>1. Holders' = Holders \ {t}  BY <1>0, <1>4 DEF DeleteClient, Holders
  <2> QED  BY <1>0, <1>2, <1>4, <2>1 DEF DeleteClient
<1>5. CASE PopEnters(t)
  <2>1. t \notin Holders  BY <1>5 DEF PopEnters, Holders
  <2>2. CASE CtorThrows(t)
    <3>1. Holders' = Holders  BY <1>0, <1>5, <2>2 DEF PopEnters, CtorThrows, Holders
    <3> QED  BY <1>1, <2>2, <3>1 DEF CtorThrows
  <2> QED  BY <1>3, <1>5, <2>1, <2>2 DEF PopEnters
<1>6. CASE PopResumes(t)
  <2>1. t \notin Holders  BY <1>6 DEF PopResumes, Holders
  <2>2. CASE WakeupDropped(t)
    <3>1. Holders' = Holders
      BY <1>0, <1>6, <2>2 DEF PopResumes, WakeupDropped, CtorThrows, Holders
    <3> QED  BY <1>1, <2>2, <3>1 DEF WakeupDropped, CtorThrows
  <2> QED  BY <1>3, <1>6, <2>1, <2>2 DEF PopResumes
<1>7. CASE PopBlocks(t) \/ WakesSpuriously(t) \/ DeadlinePasses(t)
           \/ PopWaitsAgain(t) \/ PopTimesOut(t) \/ Connects(t)
  <2>1. Holders' = Holders
    BY <1>0, <1>7 DEF Holders, PopBlocks, Sleep, WakesSpuriously, DeadlinePasses,
                      PopWaitsAgain, PopTimesOut, Connects
  <2> QED  BY <1>1, <1>7, <2>1
             DEF PopBlocks, Sleep, WakesSpuriously, DeadlinePasses, PopWaitsAgain,
                 PopTimesOut, Connects
<1>8. CASE ConnectFails(t) \/ CallFails(t)
  BY <1>4, <1>8 DEF ConnectFails, CallFails, Holders
<1>9. CASE Keepalive(t)
  <2>0. t \in Holders  BY <1>9 DEF Keepalive, Holders
  <2>1. CASE Push(t)
    <3> DEFINE n == Len(pool)
    <3>1. client[t] \in Client  BY <2>0 DEF IInv, TypeOK
    <3>2. /\ n \in Nat
          /\ DOMAIN pool = 1 .. n
          /\ DOMAIN pool' = 1 .. n + 1
          /\ \A i \in 1 .. n : pool'[i] = pool[i]
          /\ pool'[n + 1] = client[t]
      BY <1>0, <2>1, <3>1 DEF Push
    <3>3. /\ Holders' = Holders \ {t}
          /\ \A u \in Thread \ {t} : client'[u] = client[u]
      BY <1>0, <2>1 DEF Push, Holders
    <3> HIDE DEF n
    <3>4. \A i \in 1 .. n : pool[i] # client[t]
      BY <2>0, <3>2 DEF Exclusive, Pooled
    <3>5. \A i \in DOMAIN pool' : i = n + 1 \/ i \in 1 .. n
      BY <3>2
    <3>6. \A i, j \in DOMAIN pool' : pool'[i] = pool'[j] => i = j
      BY <3>2, <3>4, <3>5 DEF Exclusive
    <3>7. Pooled' \subseteq Pooled \union {client[t]}
      BY <3>2, <3>5 DEF Pooled
    <3>8. \A u \in Holders' : /\ u \in Holders
                              /\ client'[u] = client[u]
                              /\ client[u] # client[t]
      BY <2>0, <3>3 DEF Exclusive, Holders
    <3> QED  BY <3>6, <3>7, <3>8 DEF Exclusive
  <2> QED  BY <1>4, <1>9, <2>0, <2>1 DEF Keepalive
<1>10. CASE RemoveUncounts(t)
  <2>1. Holders' = Holders  BY <1>0, <1>10 DEF RemoveUncounts, Holders
  <2> QED  BY <1>1, <1>10, <2>1 DEF RemoveUncounts
<1>11. CASE NotifyOne(t)
  <2>1. Holders' = Holders
    BY <1>0, <1>11 DEF NotifyOne, Holders, Waiters
  <2> QED  BY <1>1, <1>11, <2>1 DEF NotifyOne
<1> QED
  BY <1>5, <1>6, <1>7, <1>8, <1>9, <1>10, <1>11 DEF Step, PoolStep

\* No connection is ever used by two threads, or free and used at once.
THEOREM ExclusiveCorrect == Spec => []Exclusive
<1>1. Init => Exclusive
  <2> SUFFICES ASSUME Init PROVE Exclusive  OBVIOUS
  <2>1. Holders = {} /\ DOMAIN pool = 1 .. MinSize
    BY PoolAssumption DEF Init, Holders
  <2> QED  BY <2>1 DEF Init, Exclusive
<1>2. IInv /\ Exclusive /\ [Next]_vars => Exclusive'
  <2> SUFFICES ASSUME IInv, Exclusive, [Next]_vars PROVE Exclusive'  OBVIOUS
  <2>1. CASE Next  BY <2>1, StepKeepsExclusive DEF Next
  <2>2. CASE UNCHANGED vars
    BY <2>2 DEF vars, Exclusive, Pooled, Holders
  <2> QED  BY <2>1, <2>2
<1> QED  BY <1>1, <1>2, InvariantIInv, PTL DEF Spec
-----------------------------------------------------------------------------
(* No lost wake-up *)

AwakePCs == {"woken", "timedout", "notify"}

\* Every step that frees a connection or a place adds a thread that is on its
\* way, and a thread stops being on its way only by taking one, by throwing,
\* which is counted, by handing over to a sleeper, or when there is nothing to
\* take.
LEMMA StepLosesNoWakeup ==
  ASSUME IInv, NoLostWakeup, NEW t \in Thread, Step(t)
  PROVE  NoLostWakeup'
<1> USE PoolAssumption
<1> DEFINE o == Number(AwakePCs, pc)
           p == Number(AwakePCs, pc')
<1>0. /\ o \in Nat
      /\ p \in Nat
      /\ Len(pool) \in Nat
      /\ curr \in 0 .. MaxSize
      /\ MaxSize \in Nat
      /\ pool \in Seq(Client)
      /\ pc \in [Thread -> PCs]
      /\ Free = Len(pool) + (MaxSize - curr)
      /\ Free' = Len(pool') + (MaxSize - curr')
      /\ dropped \in 0 .. MaxSize
      /\ dropped' \in 0 .. MaxSize
      /\ Free <= MaxSize
  <2>1. o \in Nat /\ p \in Nat  BY NumberIsNat
  <2>2. dropped' \in 0 .. MaxSize  BY DroppedTyped DEF IInv
  <2>3. curr = Len(pool) + Number(CountedPCs, pc)
    BY CountedIsNumber DEF IInv
  <2>4. Number(CountedPCs, pc) \in Nat  BY NumberIsNat
  <2> QED  BY <2>1, <2>2, <2>3, <2>4 DEF IInv, TypeOK, Free
<1>1. NoLostWakeup <=> (Waiters # {} => Free <= o + dropped)
  BY DEF NoLostWakeup, OnTheWay, AwakePCs, Number
<1>2. NoLostWakeup' <=> (Waiters' # {} => Free' <= p + dropped')
  BY DEF NoLostWakeup, OnTheWay, AwakePCs, Number
<1>3. ASSUME NEW q \in PCs, pc' = [pc EXCEPT ![t] = q]
      PROVE  p = o + In(q, AwakePCs) - In(pc[t], AwakePCs)
  <2>1. pc'[t] = q /\ \A u \in Thread \ {t} : pc'[u] = pc[u]
    BY <1>0, <1>3
  <2> QED  BY <2>1, MoveOne
<1>4. ASSUME ~Available  PROVE Free = 0
  BY <1>0, <1>4 DEF Available
<1> HIDE DEF o, p
<1>5. ASSUME Acquire(t), t \notin Holders, ~Blocked
      PROVE  /\ Free' = Free - 1
             /\ Free \in Int
             /\ pc' = [pc EXCEPT ![t] = "connect"]
             /\ Waiters' \subseteq Waiters
  <2>1. /\ pc' = [pc EXCEPT ![t] = "connect"]
        /\ curr' \in 0 .. MaxSize
        /\ pool' \in Seq(Client)
        /\ curr' - Len(pool') = (curr - Len(pool)) + 1
    BY <1>5, AcquireEffect
  <2>2. Len(pool') \in Nat  BY <2>1
  <2>3. Waiters' \subseteq Waiters  BY <1>0, <2>1 DEF Waiters
  <2> QED  BY <1>0, <2>1, <2>2, <2>3
<1>6. CASE PopEnters(t)
  <2>0. /\ t \notin Holders /\ ~Blocked
        /\ dropped' = dropped /\ pc[t] = "idle"
    BY <1>6 DEF PopEnters, Holders
  <2>1. CASE Acquire(t)
    <3>1. p = o
      BY <1>0, <1>3, <1>5, <2>0, <2>1 DEF In, AwakePCs, PCs
    <3> QED  BY <1>0, <1>1, <1>2, <1>5, <2>0, <2>1, <3>1
  <2>2. CASE CtorThrows(t)
    <3>1. p = o
      BY <1>0, <1>3, <2>0, <2>2 DEF CtorThrows, In, AwakePCs, PCs
    <3>2. Free' = Free /\ Waiters' \subseteq Waiters
      BY <1>0, <2>0, <2>2 DEF CtorThrows, Waiters
    <3> QED  BY <1>0, <1>1, <1>2, <2>0, <3>1, <3>2
  <2> QED  BY <1>6, <2>1, <2>2 DEF PopEnters
<1>7. CASE PopResumes(t)
  <2>0. t \notin Holders /\ ~Blocked /\ pc[t] \in {"woken", "timedout"}
    BY <1>0, <1>7 DEF PopResumes, Holders, Available, Blocked
  <2>1. CASE Acquire(t) /\ dropped' = dropped
    <3>1. p = o - 1
      BY <1>0, <1>3, <1>5, <2>0, <2>1 DEF In, AwakePCs, PCs
    <3> QED  BY <1>0, <1>1, <1>2, <1>5, <2>0, <2>1, <3>1
  <2>2. CASE WakeupDropped(t)
    <3>1. p = o - 1
      BY <1>0, <1>3, <2>0, <2>2
         DEF WakeupDropped, CtorThrows, In, AwakePCs, PCs
    <3>2. Free' = Free /\ Waiters' \subseteq Waiters
      BY <1>0, <2>0, <2>2 DEF WakeupDropped, CtorThrows, Waiters
    <3>3. dropped' = IF dropped < MaxSize THEN dropped + 1 ELSE dropped
      BY <2>2 DEF WakeupDropped
    <3> QED  BY <1>0, <1>1, <1>2, <3>1, <3>2, <3>3
  <2> QED  BY <1>7, <2>1, <2>2 DEF PopResumes
<1>8. CASE PopBlocks(t) \/ PopWaitsAgain(t) \/ PopTimesOut(t)
  <2>1. Free' = 0
    BY <1>0, <1>4, <1>8
       DEF PopBlocks, PopWaitsAgain, PopTimesOut, Sleep, Blocked, Available
  <2> QED  BY <1>0, <1>2, <2>1
<1>9. CASE WakesSpuriously(t) \/ DeadlinePasses(t)
  <2>1. PICK q \in {"woken", "timedout"} : pc' = [pc EXCEPT ![t] = q]
    BY <1>9 DEF WakesSpuriously, DeadlinePasses
  <2>2. /\ Free' = Free /\ dropped' = dropped
        /\ pc[t] = "waiting" /\ t \in Waiters
    BY <1>0, <1>9 DEF WakesSpuriously, DeadlinePasses, Waiters
  <2>3. p = o + In(q, AwakePCs) - In("waiting", AwakePCs)
    BY <1>3, <2>1, <2>2 DEF PCs
  <2>4. p = o + 1  BY <1>0, <2>1, <2>3 DEF In, AwakePCs
  <2> QED  BY <1>0, <1>1, <1>2, <2>2, <2>4
<1>10. ASSUME pc[t] \in {"connect", "call"},
              NEW q \in {"call", "remove"}, pc' = [pc EXCEPT ![t] = q],
              UNCHANGED <<pool, curr, dropped>>
       PROVE  NoLostWakeup'
  <2>1. Free' = Free /\ dropped' = dropped /\ Waiters' = Waiters
    BY <1>0, <1>10 DEF Waiters
  <2>2. p = o + In(q, AwakePCs) - In(pc[t], AwakePCs)
    BY <1>3, <1>10 DEF PCs
  <2>3. p = o  BY <1>0, <1>10, <2>2 DEF In, AwakePCs
  <2> QED  BY <1>1, <1>2, <2>1, <2>3
<1>11. CASE Connects(t)  BY <1>10, <1>11 DEF Connects
<1>12. CASE ConnectFails(t)
  BY <1>10, <1>12 DEF ConnectFails, DeleteClient
<1>13. CASE CallFails(t)  BY <1>10, <1>13 DEF CallFails, DeleteClient
<1>14. CASE Keepalive(t)
  <2>1. CASE Push(t)
    <3>1. client[t] \in Client
      BY <1>14 DEF Keepalive, IInv, TypeOK, Holders
    <3>2. Free' = Free + 1 /\ dropped' = dropped /\ Waiters' = Waiters
      BY <1>0, <1>14, <2>1, <3>1 DEF Keepalive, Push, Waiters
    <3>3. p = o + 1
      BY <1>0, <1>3, <1>14, <2>1 DEF Keepalive, Push, In, AwakePCs, PCs
    <3> QED  BY <1>0, <1>1, <1>2, <3>2, <3>3
  <2>2. CASE DeleteClient(t)
    BY <1>10, <1>14, <2>2 DEF Keepalive, DeleteClient
  <2> QED  BY <1>14, <2>1, <2>2 DEF Keepalive
<1>15. CASE RemoveUncounts(t)
  <2>1. curr' \in 0 .. MaxSize
    BY StepKeepsIInv DEF IInv, TypeOK
  <2>2. Free' = Free + 1 /\ dropped' = dropped /\ Waiters' = Waiters
    BY <1>0, <1>15, <2>1 DEF RemoveUncounts, Waiters
  <2>3. p = o + 1
    BY <1>0, <1>3, <1>15 DEF RemoveUncounts, In, AwakePCs, PCs
  <2> QED  BY <1>0, <1>1, <1>2, <2>2, <2>3
<1>16. CASE NotifyOne(t)
  <2>1. CASE Waiters = {}
    <3>1. Waiters' = {}  BY <1>0, <1>16, <2>1 DEF NotifyOne, Waiters
    <3> QED  BY <1>2, <3>1
  <2>2. ASSUME NEW w \in Waiters,
               pc' = [pc EXCEPT ![t] = "idle", ![w] = "woken"]
        PROVE  NoLostWakeup'
    <3>1. /\ w \in Thread
          /\ w # t
          /\ pc[t] = "notify"
          /\ pc[w] = "waiting"
          /\ Free' = Free
          /\ dropped' = dropped
      BY <1>0, <1>16, <2>2 DEF NotifyOne, Waiters
    <3>2. /\ pc'[t] = "idle"
          /\ pc'[w] = "woken"
          /\ \A u \in Thread \ {t, w} : pc'[u] = pc[u]
      BY <1>0, <2>2, <3>1
    <3>3. p = o + In("idle", AwakePCs) - In("notify", AwakePCs)
                + In("woken", AwakePCs) - In("waiting", AwakePCs)
      BY <3>1, <3>2, MoveTwo DEF o, p
    <3>4. p = o  BY <1>0, <3>3 DEF In, AwakePCs
    <3> QED  BY <1>1, <1>2, <2>2, <3>1, <3>4
  <2> QED  BY <1>16, <2>1, <2>2 DEF NotifyOne
<1> QED
  BY <1>6, <1>7, <1>8, <1>9, <1>11, <1>12, <1>13, <1>14, <1>15, <1>16
     DEF Step, PoolStep

\* No wake-up of the pool is lost but by a constructor that throws: while a
\* thread sleeps in Pop, every free connection or free place has a thread, or a
\* pending notify_one, that will deal with it, or was dropped with an exception.
THEOREM WakeupsCorrect == Spec => []NoLostWakeup
<1>1. Init => NoLostWakeup
  BY DEF Init, NoLostWakeup, Waiters
<1>2. IInv /\ NoLostWakeup /\ [Next]_vars => NoLostWakeup'
  <2> SUFFICES ASSUME IInv, NoLostWakeup, [Next]_vars
               PROVE  NoLostWakeup'
    OBVIOUS
  <2>1. CASE Next  BY <2>1, StepLosesNoWakeup DEF Next
  <2>2. CASE UNCHANGED vars
    BY <2>2 DEF vars, NoLostWakeup, Waiters, Free, OnTheWay
  <2> QED  BY <2>1, <2>2
<1> QED  BY <1>1, <1>2, InvariantIInv, PTL DEF Spec

-----------------------------------------------------------------------------
(* The pool implements the leases *)

\* The open connections are the free ones and the leased ones.
LEMMA LiveIs ==
  ASSUME TypeOK  PROVE Live = Pooled \union Lease!Leased
<1>1. \A t \in Thread : t \in Holders <=> client[t] # NoClient
  BY DEF TypeOK
<1>2. Holders \subseteq Thread  BY DEF Holders
<1>3. {client[t] : t \in Holders} = Lease!Leased
  BY <1>1, <1>2 DEF Lease!Leased
<1> QED  BY <1>3 DEF Live

LEMMA LiveIsNext ==
  ASSUME TypeOK'  PROVE Live' = Pooled' \union Lease!Leased'
<1>1. \A t \in Thread : t \in Holders' <=> client'[t] # NoClient
  BY DEF TypeOK
<1>2. Holders' \subseteq Thread  BY DEF Holders
<1>3. {client'[t] : t \in Holders'} = Lease!Leased'
  BY <1>1, <1>2 DEF Lease!Leased
<1> QED  BY <1>3 DEF Live

\* The two modules count alike.
LEMMA LeaseCounts ==
  ASSUME NEW S  PROVE Lease!Cardinality(S) = Cardinality(S)
BY Zenon DEF Lease!Cardinality, Cardinality

\* The values of a function on a finite set are no more than its arguments.
LEMMA ImageIsSmaller ==
  ASSUME NEW S, IsFiniteSet(S), NEW f
  PROVE  Cardinality({f[x] : x \in S}) <= Cardinality(S)
<1> DEFINE T == {f[x] : x \in S}
           g == [x \in S |-> f[x]]
<1>1. g \in Surjection(S, T)  BY DEF Surjection
<1> QED  BY <1>1, FS_Surjection

\* The constructor of the pool opens no more than the budget.
LEMMA InitIsLease == Init => Lease!Init
<1> SUFFICES ASSUME Init  PROVE Lease!Init
  OBVIOUS
<1>1. IInv  BY InitIInv
<1>2. client = [t \in Thread |-> NoClient]  BY DEF Init
<1>3. Lease!Leased = {}  BY <1>2 DEF Lease!Leased
<1>4. Live = Pooled  BY <1>1, <1>3, LiveIs DEF IInv
<1>5. pool \in [1 .. MinSize -> Client]  BY DEF Init
<1>6. Pooled \subseteq Client  BY <1>5 DEF Pooled
<1>7. Cardinality(Pooled) <= MaxSize
  <2>1. /\ IsFiniteSet(1 .. MinSize)
        /\ Cardinality(1 .. MinSize) = MinSize
    BY PoolAssumption, FS_Interval
  <2>2. Pooled = {pool[i] : i \in 1 .. MinSize}  BY <1>5 DEF Pooled
  <2>3. Cardinality(Pooled) <= MinSize
    BY <2>1, <2>2, ImageIsSmaller
  <2>4. Cardinality(Pooled) \in Nat
    <3>1. IsFiniteSet(Pooled)
      <4> DEFINE g == [i \in 1 .. MinSize |-> pool[i]]
      <4>1. g \in Surjection(1 .. MinSize, Pooled)
        BY <2>2 DEF Surjection
      <4> QED  BY <2>1, <4>1, FS_Surjection
    <3> QED  BY <3>1, FS_CardinalityType
  <2> QED  BY <2>3, <2>4, PoolAssumption
<1> QED  BY <1>2, <1>4, <1>6, <1>7, LeaseCounts DEF Lease!Init

\* Steps that leave the free list and the clients alone do not show.
LEMMA StillIsLease ==
  ASSUME TypeOK, TypeOK', pool' = pool, client' = client
  PROVE  UNCHANGED <<Live, client>>
<1>1. Pooled' = Pooled /\ Lease!Leased' = Lease!Leased
  BY DEF Pooled, Lease!Leased
<1>2. Live' = Live  BY <1>1, LiveIs, LiveIsNext
<1> QED  BY <1>2

\* A pop takes a lease, of a free connection or of one that it opens within
\* the budget: with an empty free list the open connections are those in use,
\* and the counter has each of them.
LEMMA AcquireIsLease ==
  ASSUME IInv, Exclusive, TypeOK', NEW t \in Thread, t \notin Holders,
         ~Blocked, Acquire(t)
  PROVE  Lease!Lease(t) \/ Lease!OpenAndLease(t)
<1>0. /\ client[t] = NoClient
      /\ client \in [Thread -> Client \union {NoClient}]
      /\ pool \in Seq(Client)
      /\ curr \in 0 .. MaxSize
  BY DEF IInv, TypeOK
<1>1. Live = Pooled \union Lease!Leased  BY LiveIs DEF IInv
<1>2. Live' = Pooled' \union Lease!Leased'
  BY LiveIsNext
<1>3. CASE TakeFront(t)
  <2> DEFINE n == Len(pool)
  <2>1. /\ n \in Nat
        /\ n # 0
        /\ DOMAIN pool = 1 .. n
        /\ DOMAIN pool' = 1 .. n - 1
        /\ \A i \in 1 .. n - 1 : pool'[i] = pool[i + 1]
        /\ Head(pool) = pool[1]
    BY <1>0, <1>3 DEF TakeFront
  <2>2. client' = [client EXCEPT ![t] = pool[1]]
    BY <1>3, <2>1 DEF TakeFront
  <2>3. pool[1] \in Pooled /\ pool[1] # NoClient
    BY <1>0, <2>1, PoolAssumption DEF Pooled
  <2> HIDE DEF n
  <2>4. Pooled = Pooled' \union {pool[1]}
    <3>1. Pooled' \subseteq Pooled
      <4> SUFFICES ASSUME NEW i \in 1 .. n - 1  PROVE pool'[i] \in Pooled
        BY <2>1 DEF Pooled
      <4>1. i + 1 \in DOMAIN pool /\ pool'[i] = pool[i + 1]  BY <2>1
      <4> QED  BY <4>1 DEF Pooled
    <3>2. \A i \in 1 .. n : pool[i] \in Pooled' \union {pool[1]}
      <4> SUFFICES ASSUME NEW i \in 1 .. n, i # 1
                   PROVE  pool[i] \in Pooled'
        OBVIOUS
      <4>1. i - 1 \in DOMAIN pool' /\ pool'[i - 1] = pool[i]
        BY <2>1
      <4> QED  BY <4>1 DEF Pooled
    <3> QED  BY <2>1, <2>3, <3>1, <3>2 DEF Pooled
  <2>5. Lease!Leased' = Lease!Leased \union {pool[1]}
    BY <1>0, <2>2, <2>3 DEF Lease!Leased
  <2>6. Live' = Live
    BY <1>1, <1>2, <2>4, <2>5
  <2>7. pool[1] \notin Lease!Leased
    BY <2>3 DEF Lease!Leased, Exclusive, IInv, TypeOK
  <2> QED  BY <1>0, <1>1, <2>2, <2>3, <2>6, <2>7 DEF Lease!Lease
<1>4. CASE CreateClient(t)
  <2>1. PICK c \in Client \ Live : client' = [client EXCEPT ![t] = c]
    BY <1>4 DEF CreateClient
  <2>2. pool = <<>> /\ pool' = pool /\ Pooled' = Pooled
    BY <1>4 DEF CreateClient, Pooled
  <2>3. Lease!Leased' = Lease!Leased \union {c}
    BY <1>0, <2>1, PoolAssumption DEF Lease!Leased
  <2>4. Live' = Live \union {c}
    BY <1>1, <1>2, <2>2, <2>3
  <2>5. Cardinality(Live) < MaxSize
    <3>1. curr < MaxSize
      BY <1>0, <2>2, PoolAssumption DEF Blocked
    <3>2. Live = {client[u] : u \in Holders}
      BY <2>2 DEF Live, Pooled
    <3>3. /\ IsFiniteSet(Holders)
          /\ IsFiniteSet(Counted)
          /\ Holders \subseteq Counted
      BY PoolAssumption, FS_Subset DEF Holders, Counted
    <3>4. Cardinality(Live) <= Cardinality(Holders)
      BY <3>2, <3>3, ImageIsSmaller
    <3>5. Cardinality(Holders) <= Cardinality(Counted)
      BY <3>3, FS_Subset
    <3>6. Cardinality(Counted) = curr
      <4>1. Len(pool) = 0  BY <2>2
      <4>2. Cardinality(Counted) \in Nat  BY <3>3, FS_CardinalityType
      <4> QED  BY <1>0, <4>1, <4>2 DEF IInv, Accounting
    <3>7. /\ Cardinality(Holders) \in Nat
          /\ Cardinality(Live) \in Nat
      <4>1. IsFiniteSet(Live)
        <5> DEFINE g == [u \in Holders |-> client[u]]
        <5>1. g \in Surjection(Holders, Live)
          BY <3>2 DEF Surjection
        <5> QED  BY <3>3, <5>1, FS_Surjection
      <4> QED  BY <3>3, <4>1, FS_CardinalityType
    <3> QED  BY <1>0, <3>1, <3>4, <3>5, <3>6, <3>7, PoolAssumption
  <2> QED  BY <1>0, <2>1, <2>4, <2>5, LeaseCounts DEF Lease!OpenAndLease
<1> QED  BY <1>3, <1>4 DEF Acquire

\* A connection that is deleted is not open any more.
LEMMA DeleteIsClose ==
  ASSUME IInv, Exclusive, TypeOK', NEW t \in Holders, DeleteClient(t)
  PROVE  Lease!Close(t)
<1>0. /\ client[t] # NoClient
      /\ t \in Thread
      /\ client \in [Thread -> Client \union {NoClient}]
  BY DEF IInv, TypeOK, Holders
<1>1. Live = Pooled \union Lease!Leased  BY LiveIs DEF IInv
<1>2. Live' = Pooled' \union Lease!Leased'  BY LiveIsNext
<1>3. Pooled' = Pooled /\ client' = [client EXCEPT ![t] = NoClient]
  BY DEF DeleteClient, Pooled
<1>4. client[t] \notin Pooled  BY DEF Exclusive
<1>5. \A u \in Thread \ {t} : client[u] # NoClient => client[u] # client[t]
  BY <1>0 DEF Exclusive, IInv, TypeOK
<1>6. Lease!Leased' = Lease!Leased \ {client[t]}
  BY <1>0, <1>3, <1>5 DEF Lease!Leased
<1>7. Live' = Live \ {client[t]}
  BY <1>1, <1>2, <1>3, <1>4, <1>6
<1> QED  BY <1>0, <1>3, <1>7 DEF Lease!Close

\* A connection that is pushed stays open.
LEMMA PushIsReturn ==
  ASSUME IInv, TypeOK', NEW t \in Holders, Push(t)
  PROVE  Lease!Return(t)
<1>0. /\ client[t] # NoClient
      /\ client[t] \in Client
      /\ t \in Thread
      /\ client \in [Thread -> Client \union {NoClient}]
      /\ pool \in Seq(Client)
  BY DEF IInv, TypeOK, Holders
<1>1. Live = Pooled \union Lease!Leased  BY LiveIs DEF IInv
<1>2. Live' = Pooled' \union Lease!Leased'  BY LiveIsNext
<1>3. client' = [client EXCEPT ![t] = NoClient]  BY DEF Push
<1>4. Pooled' = Pooled \union {client[t]}
  <2> DEFINE n == Len(pool)
  <2>1. /\ n \in Nat
        /\ DOMAIN pool = 1 .. n
        /\ DOMAIN pool' = 1 .. n + 1
        /\ \A i \in 1 .. n : pool'[i] = pool[i]
        /\ pool'[n + 1] = client[t]
    BY <1>0 DEF Push
  <2> HIDE DEF n
  <2>2. \A i \in 1 .. n + 1 : i = n + 1 \/ i \in 1 .. n  BY <2>1
  <2>3. 1 .. n \subseteq 1 .. n + 1 /\ n + 1 \in 1 .. n + 1  BY <2>1
  <2> QED  BY <2>1, <2>2, <2>3 DEF Pooled
<1>5. Lease!Leased \subseteq Lease!Leased' \union {client[t]}
  BY <1>0, <1>3 DEF Lease!Leased
<1>6. Lease!Leased' \subseteq Lease!Leased
  BY <1>0, <1>3 DEF Lease!Leased
<1>7. client[t] \in Lease!Leased  BY <1>0 DEF Lease!Leased
<1>8. Live' = Live
  BY <1>1, <1>2, <1>4, <1>5, <1>6, <1>7
<1> QED  BY <1>0, <1>3, <1>8 DEF Lease!Return

LEMMA StepIsLease ==
  ASSUME IInv, Exclusive, TypeOK', NEW t \in Thread, Step(t)
  PROVE  Lease!Next \/ UNCHANGED <<Live, client>>
<1>0. TypeOK  BY DEF IInv
<1>1. CASE PopEnters(t)
  <2>1. t \notin Holders  BY <1>1 DEF PopEnters, Holders
  <2>2. CASE Acquire(t)
    BY <1>1, <2>1, <2>2, AcquireIsLease DEF PopEnters, Lease!Next
  <2>3. CASE CtorThrows(t)
    BY <1>0, <2>3, StillIsLease DEF CtorThrows
  <2> QED  BY <1>1, <2>2, <2>3 DEF PopEnters
<1>2. CASE PopResumes(t)
  <2>1. t \notin Holders  BY <1>2 DEF PopResumes, Holders
  <2>2. ~Blocked
    BY <1>0, <1>2, PoolAssumption DEF PopResumes, Available, Blocked, TypeOK
  <2>3. CASE Acquire(t)
    BY <2>1, <2>2, <2>3, AcquireIsLease DEF Lease!Next
  <2>4. CASE WakeupDropped(t)
    BY <1>0, <2>4, StillIsLease DEF WakeupDropped, CtorThrows
  <2> QED  BY <1>2, <2>3, <2>4 DEF PopResumes
<1>3. CASE ConnectFails(t) \/ CallFails(t)
  <2>1. t \in Holders  BY <1>3 DEF ConnectFails, CallFails, Holders
  <2>2. DeleteClient(t)  BY <1>3 DEF ConnectFails, CallFails
  <2> QED  BY <2>1, <2>2, DeleteIsClose DEF Lease!Next
<1>4. CASE Keepalive(t)
  <2>1. t \in Holders  BY <1>4 DEF Keepalive, Holders
  <2> QED  BY <1>4, <2>1, DeleteIsClose, PushIsReturn DEF Keepalive, Lease!Next
<1>5. CASE \/ PopBlocks(t) \/ WakesSpuriously(t) \/ DeadlinePasses(t)
           \/ Connects(t) \/ PopWaitsAgain(t) \/ PopTimesOut(t)
           \/ RemoveUncounts(t) \/ NotifyOne(t)
  <2>1. pool' = pool /\ client' = client
    BY <1>5 DEF PopBlocks, Sleep, WakesSpuriously, DeadlinePasses, Connects,
                PopWaitsAgain, PopTimesOut, RemoveUncounts, NotifyOne
  <2> QED  BY <1>0, <2>1, StillIsLease
<1> QED  BY <1>1, <1>2, <1>3, <1>4, <1>5 DEF Step, PoolStep

\* The pool keeps the promise its callers rely on: never more than MaxSize
\* open connections, each leased to one thread at a time, through every
\* failure of the constructor, of Connect and of a call.
THEOREM LeaseImplemented == Spec => ImplementsLease
<1>1. IInv /\ IInv' /\ Exclusive /\ [Next]_vars
        => [Lease!Next]_<<Live, client>>
  <2> SUFFICES ASSUME IInv, IInv', Exclusive, [Next]_vars
               PROVE  Lease!Next \/ UNCHANGED <<Live, client>>
    OBVIOUS
  <2>0. TypeOK /\ TypeOK'  BY DEF IInv
  <2>1. CASE Next  BY <2>0, <2>1, StepIsLease DEF Next
  <2>2. CASE UNCHANGED vars  BY <2>0, <2>2, StillIsLease DEF vars
  <2> QED  BY <2>1, <2>2
<1> QED
  BY <1>1, InitIsLease, InvariantIInv, ExclusiveCorrect, PTL
     DEF Spec, ImplementsLease, Lease!Spec, Lease!vars

-----------------------------------------------------------------------------
(* Without the history: a pool whose constructors do not throw *)

\* As long as no constructor throws for a thread that has been woken, no wake-up is
\* lost: there are never more free places, while somebody sleeps, than threads on
\* their way to take them or to notify a sleeper.
THEOREM NoPlaceForgotten ==
  Spec /\ [][~ \E t \in Thread : WakeupDropped(t)]_vars =>
    [](Waiters # {} => Free <= Cardinality(OnTheWay))
<1> DEFINE J == dropped = 0
           Right == Waiters # {} => Free <= Cardinality(OnTheWay)
<1>1. Init => J  BY DEF Init
<1>2. J /\ [Next]_vars /\ [~ \E t \in Thread : WakeupDropped(t)]_vars => J'
  <2> SUFFICES ASSUME J, [Next]_vars, [~ \E t \in Thread : WakeupDropped(t)]_vars
               PROVE  J'
    OBVIOUS
  <2>1. CASE UNCHANGED vars  BY <2>1 DEF vars
  <2>2. ASSUME NEW t \in Thread, PopResumes(t) PROVE J'
    BY <2>1, <2>2 DEF PopResumes
  <2>3. ASSUME NEW t \in Thread, PopBlocks(t) \/ PopWaitsAgain(t) PROVE J'
    BY <2>3 DEF PopBlocks, PopWaitsAgain, Sleep
  <2>4. ASSUME NEW t \in Thread,
               \/ PopEnters(t) \/ WakesSpuriously(t) \/ DeadlinePasses(t) \/ Connects(t)
               \/ PopTimesOut(t) \/ NotifyOne(t)
        PROVE J'
    BY <2>4 DEF PopEnters, WakesSpuriously, DeadlinePasses, Connects, PopTimesOut,
                NotifyOne
  <2>5. ASSUME NEW t \in Thread,
               ConnectFails(t) \/ CallFails(t) \/ Keepalive(t) \/ RemoveUncounts(t)
        PROVE J'
    BY <2>5 DEF ConnectFails, CallFails, Keepalive, DeleteClient, Push, RemoveUncounts
  <2> QED  BY <2>1, <2>2, <2>3, <2>4, <2>5 DEF Next, Step, PoolStep
<1>3. NoLostWakeup /\ J => Right
  <2>1. OnTheWay \in SUBSET Thread  BY DEF OnTheWay
  <2>2. Cardinality(OnTheWay) \in Nat
    BY <2>1, PoolAssumption, FS_Subset, FS_CardinalityType
  <2> QED  BY <2>2 DEF NoLostWakeup
<1> HIDE DEF J, Right
<1>4. Spec /\ [][~ \E t \in Thread : WakeupDropped(t)]_vars => []Right
  BY <1>1, <1>2, <1>3, WakeupsCorrect, PTL DEF Spec
<1> QED  BY <1>4 DEF Right
=============================================================================
