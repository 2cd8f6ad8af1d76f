---------------------------- MODULE MediaClientPool ----------------------------
(***************************************************************************)
(* The pool of connections of mediaMicroservices                           *)
(* (src/mediaMicroservices/src/ClientPool.h) and what the handlers do with *)
(* it.  It differs from the pool of socialNetwork in three ways.  A thread *)
(* that waits looks at the free list only.  A client that cannot be        *)
(* connected is put back outside the lock, and nobody is notified.  A      *)
(* handler never calls Remove: after an exception of the callee it pushes  *)
(* the client back, and when Redis throws between Pop and Push it keeps    *)
(* the client for ever.                                                    *)
(*                                                                         *)
(* A critical section of _mtx is one step.  The push_back outside the lock *)
(* is two, and while a thread is between them, another one that uses _pool *)
(* races with it: then the slot may hold either client, or both may be in  *)
(* the list with a slot between them that holds what it held before.       *)
(***************************************************************************)
EXTENDS Naturals, Sequences, FiniteSets

CONSTANTS
  Thread,    \* the handler threads
  Client,    \* identities of TClient objects
  NoClient,  \* the null pointer
  MinSize,   \* _min_pool_size
  MaxSize    \* _max_pool_size

ASSUME MediaPoolAssumption ==
  /\ IsFiniteSet(Thread)
  /\ NoClient \notin Client
  /\ MinSize \in Nat
  /\ MaxSize \in Nat \ {0}
  /\ MinSize <= MaxSize

VARIABLES
  pool,       \* _pool: the free clients, the next to be popped first
  curr,       \* _curr_pool_size
  pc,         \* what each thread is doing
  client,     \* the client each thread holds, NoClient if none
  racing,     \* the threads whose push_back outside the lock has met another
  made,       \* history: the clients constructed
  leaked,     \* history: the clients handlers have left with
  raced,      \* history: an access to _pool has met a push_back outside the lock
  silent      \* history: the clients put back without notice since a thread
              \* last went to sleep

vars == <<pool, curr, pc, client, racing, made, leaked, raced, silent>>
raceVars == <<racing, raced>>

(* The values of pc[t]:                                                     *)
(*   idle      outside the pool, holding nothing                            *)
(*   waiting   in wait_until, lock released                                 *)
(*   woken     notified or spuriously woken, not yet holding the lock       *)
(*   timedout  past its deadline, not yet holding the lock                  *)
(*   connect   has a client, about to Connect it outside the lock           *)
(*   call      Pop returned a client, the call is under way                 *)
(*   pushback  Connect threw, in the push_back outside the lock             *)
(*   notify    has unlocked in Push, notify_one is still to run             *)
PCs == {"idle", "waiting", "woken", "timedout", "connect", "call", "pushback",
        "notify"}

Waiters == {t \in Thread : pc[t] = "waiting"}
Holders == {t \in Thread : pc[t] \in {"connect", "call", "pushback"}}
Pooled  == {pool[i] : i \in DOMAIN pool}

Init ==
  /\ pool \in {s \in [1 .. MinSize -> Client] :
                  \A i, j \in 1 .. MinSize : s[i] = s[j] => i = j}
  /\ curr = MinSize
  /\ pc = [t \in Thread |-> "idle"]
  /\ client = [t \in Thread |-> NoClient]
  /\ racing = {}
  /\ made = Pooled
  /\ leaked = {}
  /\ raced = FALSE
  /\ silent = 0

\* Thread t uses _pool: the threads in a push_back outside the lock notice.
Uses(t) ==
  LET met == {u \in Thread \ {t} : pc[u] = "pushback"}
  IN /\ racing' = racing \union met
     /\ raced' = (raced \/ met # {})

-----------------------------------------------------------------------------
(* Pop *)

TakeFrontNoPop(t) ==
  /\ pool # <<>>
  /\ client' = [client EXCEPT ![t] = Head(pool)]
  /\ UNCHANGED <<pool, curr, made>>

TakeFront(t) ==
  /\ pool # <<>>
  /\ client' = [client EXCEPT ![t] = Head(pool)]
  /\ pool' = Tail(pool)
  /\ UNCHANGED <<curr, made>>

CreateClient(t) ==
  /\ pool = <<>>
  /\ curr < MaxSize
  /\ \E c \in Client \ made : /\ client' = [client EXCEPT ![t] = c]
                              /\ made' = made \union {c}
  /\ curr' = curr + 1
  /\ UNCHANGED pool

\* The thread leaves the locked part of Pop with a client.
Acquire(t) ==
  /\ pc' = [pc EXCEPT ![t] = "connect"]
  /\ Uses(t)
  /\ UNCHANGED <<leaked, silent>>

PopEnters(t) ==
  /\ pc[t] = "idle"
  /\ TakeFront(t) \/ CreateClient(t)
  /\ Acquire(t)

\* Pop returns the null pointer.
ReturnsNothing(t) ==
  /\ pc' = [pc EXCEPT ![t] = "idle"]
  /\ Uses(t)
  /\ UNCHANGED <<pool, curr, client, made, leaked, silent>>

\* "new TClient" throws: Pop returns the null pointer as it does at a deadline.
CtorThrows(t) ==
  /\ pc[t] = "idle"
  /\ pool = <<>>
  /\ curr < MaxSize
  /\ ReturnsNothing(t)

PopBlocks(t) ==
  /\ pc[t] = "idle"
  /\ pool = <<>>
  /\ curr >= MaxSize
  /\ pc' = [pc EXCEPT ![t] = "waiting"]
  /\ silent' = 0
  /\ Uses(t)
  /\ UNCHANGED <<pool, curr, client, made, leaked>>

Wakes(t, to) ==
  /\ pc[t] = "waiting"
  /\ pc' = [pc EXCEPT ![t] = to]
  /\ UNCHANGED <<pool, curr, client, raceVars, made, leaked, silent>>

WakesSpuriously(t) == Wakes(t, "woken")
DeadlinePasses(t) == Wakes(t, "timedout")

\* There is a free client once the lock is back.
PopResumes(t) ==
  /\ pc[t] \in {"woken", "timedout"}
  /\ TakeFront(t)
  /\ Acquire(t)

PopWaitsAgain(t) ==
  /\ pc[t] = "woken"
  /\ pool = <<>>
  /\ pc' = [pc EXCEPT ![t] = "waiting"]
  /\ silent' = 0
  /\ Uses(t)
  /\ UNCHANGED <<pool, curr, client, made, leaked>>

PopRetriesForever(t) ==
  /\ pc[t] = "timedout"
  /\ pool = <<>>
  /\ pc' = [pc EXCEPT ![t] = "waiting"]
  /\ silent' = 0
  /\ Uses(t)
  /\ UNCHANGED <<pool, curr, client, made, leaked>>

\* wait_until returns false.
PopTimesOut(t) ==
  /\ pc[t] = "timedout"
  /\ pool = <<>>
  /\ ReturnsNothing(t)

-----------------------------------------------------------------------------
(* Connect, the call, and giving the client back *)

Connects(t) ==
  /\ pc[t] = "connect"
  /\ pc' = [pc EXCEPT ![t] = "call"]
  /\ UNCHANGED <<pool, curr, client, raceVars, made, leaked, silent>>

\* Connect throws, and the push_back outside the lock begins.
ConnectFails(t) ==
  LET met == {u \in Thread : pc[u] = "pushback"}
  IN /\ pc[t] = "connect"
     /\ pc' = [pc EXCEPT ![t] = "pushback"]
     /\ racing' = IF met = {} THEN racing ELSE racing \union met \union {t}
     /\ raced' = (raced \/ met # {})
     /\ UNCHANGED <<pool, curr, client, made, leaked, silent>>

\* What _pool may be after a push_back that has raced with another access.
Torn(c) ==
  {pool, Append(pool, c)}
    \union {[pool EXCEPT ![Len(pool)] = c] : i \in DOMAIN pool}
    \union {pool \o <<x, c>> : x \in {y \in made : Len(pool) + 2 <= MaxSize}}

PushBackForgotten(t) ==
  /\ pc[t] = "pushback"
  /\ UNCHANGED pool
  /\ client' = [client EXCEPT ![t] = NoClient]
  /\ pc' = [pc EXCEPT ![t] = "idle"]
  /\ racing' = racing \ {t}
  /\ UNCHANGED <<curr, made, leaked, raced, silent>>

\* The push_back ends, the exception is thrown again, and nobody is notified.
PushBack(t) ==
  /\ pc[t] = "pushback"
  /\ pool' \in IF t \in racing THEN Torn(client[t]) ELSE {Append(pool, client[t])}
  /\ client' = [client EXCEPT ![t] = NoClient]
  /\ pc' = [pc EXCEPT ![t] = "idle"]
  /\ racing' = racing \ {t}
  /\ silent' = IF silent < MaxSize THEN silent + 1 ELSE silent
  /\ UNCHANGED <<curr, made, leaked, raced>>

PushSilently(t) ==
  /\ pc[t] = "call"
  /\ pool' = Append(pool, client[t])
  /\ client' = [client EXCEPT ![t] = NoClient]
  /\ pc' = [pc EXCEPT ![t] = "idle"]
  /\ Uses(t)
  /\ UNCHANGED <<curr, made, leaked, silent>>

\* The call has returned or thrown, and the handler pushes the client.
Push(t) ==
  /\ pc[t] = "call"
  /\ pool' = Append(pool, client[t])
  /\ client' = [client EXCEPT ![t] = NoClient]
  /\ pc' = [pc EXCEPT ![t] = "notify"]
  /\ Uses(t)
  /\ UNCHANGED <<curr, made, leaked, silent>>

\* A handler that leaves on an exception of cpp_redis after Pop, such as the
\* one of sync_commit, does not push the client.
Leak(t) ==
  /\ pc[t] = "call"
  /\ leaked' = leaked \union {client[t]}
  /\ client' = [client EXCEPT ![t] = NoClient]
  /\ pc' = [pc EXCEPT ![t] = "idle"]
  /\ UNCHANGED <<pool, curr, raceVars, made, silent>>

NotifyOne(t) ==
  /\ pc[t] = "notify"
  /\ IF Waiters = {}
     THEN pc' = [pc EXCEPT ![t] = "idle"]
     ELSE \E w \in Waiters : pc' = [pc EXCEPT ![t] = "idle", ![w] = "woken"]
  /\ UNCHANGED <<pool, curr, client, raceVars, made, leaked, silent>>

-----------------------------------------------------------------------------
\* The steps that need the lock, or the end of the thread's own computation.
PoolStep(t) ==
  \/ PopResumes(t) \/ PopWaitsAgain(t) \/ PopTimesOut(t)
  \/ PushBack(t) \/ NotifyOne(t)

Step(t) ==
  \/ PopEnters(t) \/ CtorThrows(t) \/ PopBlocks(t)
  \/ WakesSpuriously(t) \/ DeadlinePasses(t)
  \/ Connects(t) \/ ConnectFails(t) \/ Push(t) \/ Leak(t)
  \/ PoolStep(t)

Next == \E t \in Thread : Step(t)

Spec == Init /\ [][Next]_vars

(* A thread that can take the lock eventually does, and deadlines pass.     *)
(* Nothing is assumed of Connect or of the call, which may hang for ever.   *)
Fairness ==
  \A t \in Thread : /\ WF_vars(PoolStep(t))
                    /\ SF_vars(DeadlinePasses(t))

FairSpec == Spec /\ Fairness

-----------------------------------------------------------------------------
(* Properties *)

\* The state has the types of the members of ClientPool; a thread has a client
\* exactly between Pop and Push.
TypeOK ==
  /\ pool \in Seq(Client)
  /\ curr \in 0 .. MaxSize
  /\ pc \in [Thread -> PCs]
  /\ client \in [Thread -> Client \union {NoClient}]
  /\ racing \subseteq {t \in Thread : pc[t] = "pushback"}
  /\ made \subseteq Client
  /\ leaked \subseteq Client
  /\ raced \in BOOLEAN
  /\ silent \in 0 .. MaxSize
  /\ \A t \in Thread : client[t] # NoClient <=> t \in Holders

\* Until a push_back outside the lock races, the pool loses a connection in one
\* way only, to a handler that Redis has thrown out between Pop and Push:
\* _curr_pool_size, which is never decremented, counts the connections that are
\* free, in use or leaked, and each of them once.
Accounting == ~raced =>
  curr = Len(pool) + Cardinality(Holders) + Cardinality(leaked)

\* Until then no connection is in two hands, or in one hand and in the pool, or
\* twice in the pool, and a leaked one is never seen again.
Exclusive == ~raced =>
  /\ \A i, j \in DOMAIN pool : pool[i] = pool[j] => i = j
  /\ \A t, u \in Holders : client[t] = client[u] => t = u
  /\ \A t \in Holders : client[t] \notin Pooled \union leaked
  /\ Pooled \intersect leaked = {}

\* A thread sleeps beside a free connection only when somebody awake or a
\* pending notify_one will take care of it, or when a thread that could not
\* connect has put it back without notice; and it never sleeps while a place
\* is free, although the predicate of wait_until does not look at places,
\* because no handler gives a place back.
OnTheWay == {t \in Thread : pc[t] \in {"woken", "timedout", "notify"}}
NoLostWakeup == ~raced /\ Waiters # {} =>
  /\ Len(pool) <= Cardinality(OnTheWay) + silent
  /\ curr = MaxSize

\* Pop returns, with a client or without, also when every connection has leaked
\* or hangs, and also after a race.
InPop(t) == pc[t] \in {"waiting", "woken", "timedout"}
PopReturns == \A t \in Thread : InPop(t) ~> ~InPop(t)

\* Until a race the pool gives its callers what the pool of socialNetwork gives
\* them: at most MaxSize connections, each with one thread at a time.  One that
\* has leaked stays open, within the budget, though nobody leases it again.
Lease == INSTANCE ConnectionLease WITH
           open <- made,
           lessee <- client
LeasesUntilRace == Lease!Init /\ [][raced' \/ Lease!Next]_<<made, client>>
=============================================================================
