------------------------------ MODULE ClientPool ------------------------------
(***************************************************************************)
(* The pool of connections that every handler of socialNetwork takes its   *)
(* Thrift clients from (src/socialNetwork/src/ClientPool.h).  All handler  *)
(* threads of a server share one pool per downstream service.  A handler   *)
(* calls Pop, makes its RPC outside the lock, and then calls Remove (the   *)
(* RPC threw) or Keepalive (which calls Remove for an old connection, Push *)
(* otherwise).                                                             *)
(*                                                                         *)
(* A critical section of _mtx is one step.  What the code does outside the *)
(* lock is a step of its own: Connect, delete, and notify_one, which runs  *)
(* after the unlock.  wait_until is split where it releases the lock: a    *)
(* waiting thread is notified, woken spuriously, or passes its deadline,   *)
(* and tests its predicate when it has the lock again.                     *)
(***************************************************************************)
EXTENDS Naturals, Sequences, FiniteSets

CONSTANTS
  Thread,        \* the handler threads
  Client,        \* identities of TClient objects
  NoClient,      \* the null pointer
  MinSize,       \* _min_pool_size
  MaxSize        \* _max_pool_size

ASSUME PoolAssumption ==
  /\ IsFiniteSet(Thread)
  /\ NoClient \notin Client
  /\ MinSize \in Nat
  /\ MaxSize \in Nat \ {0}
  /\ MinSize <= MaxSize

VARIABLES
  pool,     \* _pool: the free clients, the next to be popped first
  curr,     \* _curr_pool_size
  pc,       \* what each thread is doing
  client,   \* the client each thread holds, NoClient if none
  dropped   \* history: the wake-ups that throwing constructors have swallowed
            \* since a thread last went to sleep

vars == <<pool, curr, pc, client, dropped>>

(* The values of pc[t]:                                                     *)
(*   idle      outside the pool, holding nothing                            *)
(*   waiting   in wait_until, lock released                                 *)
(*   woken     notified or spuriously woken, not yet holding the lock       *)
(*   timedout  past its deadline, not yet holding the lock                  *)
(*   connect   has a client, about to Connect it outside the lock           *)
(*   call      Pop returned a client, the RPC is under way                  *)
(*   remove    in Remove: the client is deleted, _curr_pool_size is not     *)
(*             decremented yet                                              *)
(*   notify    has unlocked in Push or Remove, notify_one is still to run   *)
PCs == {"idle", "waiting", "woken", "timedout", "connect", "call", "remove",
        "notify"}

Waiters == {t \in Thread : pc[t] = "waiting"}
Holders == {t \in Thread : pc[t] \in {"connect", "call"}}
Pooled  == {pool[i] : i \in DOMAIN pool}
Live    == Pooled \union {client[t] : t \in Holders}

Init ==
  /\ pool \in {s \in [1 .. MinSize -> Client] :
                  \A i, j \in 1 .. MinSize : s[i] = s[j] => i = j}
  /\ curr = MinSize
  /\ pc = [t \in Thread |-> "idle"]
  /\ client = [t \in Thread |-> NoClient]
  /\ dropped = 0

-----------------------------------------------------------------------------
(* Pop *)

\* The loop condition of Pop, and the predicate of wait_until.
Blocked == pool = <<>> /\ curr = MaxSize
Available == pool # <<>> \/ curr < MaxSize

TakeFront(t) ==
  /\ pool # <<>>
  /\ client' = [client EXCEPT ![t] = Head(pool)]
  /\ pool' = Tail(pool)
  /\ UNCHANGED curr

CreateClientUncounted(t) ==
  /\ pool = <<>>
  /\ \E c \in Client \ Live : client' = [client EXCEPT ![t] = c]
  /\ UNCHANGED <<pool, curr>>

CreateClient(t) ==
  /\ pool = <<>>
  /\ \E c \in Client \ Live : client' = [client EXCEPT ![t] = c]
  /\ curr' = curr + 1
  /\ UNCHANGED pool

\* The thread leaves the locked part of Pop with a client.
Acquire(t) ==
  /\ TakeFront(t) \/ CreateClient(t)
  /\ pc' = [pc EXCEPT ![t] = "connect"]

\* "new TClient" throws (a TLS certificate, memory): the exception leaves Pop,
\* nothing is counted and nobody is notified.
CtorThrows(t) ==
  /\ pool = <<>>
  /\ pc' = [pc EXCEPT ![t] = "idle"]
  /\ UNCHANGED <<pool, curr, client>>

PopEnters(t) ==
  /\ pc[t] = "idle"
  /\ ~Blocked
  /\ Acquire(t) \/ CtorThrows(t)
  /\ UNCHANGED dropped

\* A thread that goes to sleep has seen that nothing is free.
Sleep(t) ==
  /\ pc' = [pc EXCEPT ![t] = "waiting"]
  /\ dropped' = 0
  /\ UNCHANGED <<pool, curr, client>>

PopBlocks(t) == pc[t] = "idle" /\ Blocked /\ Sleep(t)

WakesSpuriously(t) ==
  /\ pc[t] = "waiting"
  /\ pc' = [pc EXCEPT ![t] = "woken"]
  /\ UNCHANGED <<pool, curr, client, dropped>>

DeadlinePasses(t) ==
  /\ pc[t] = "waiting"
  /\ pc' = [pc EXCEPT ![t] = "timedout"]
  /\ UNCHANGED <<pool, curr, client, dropped>>

\* The thread that was to take the free place throws, and the sleepers beside
\* it do not hear of the place; there are no more than MaxSize places.
WakeupDropped(t) ==
  /\ CtorThrows(t)
  /\ dropped' = IF dropped < MaxSize THEN dropped + 1 ELSE dropped

\* The predicate holds once the lock is back, before or after the deadline.
PopResumes(t) ==
  /\ pc[t] \in {"woken", "timedout"}
  /\ Available
  /\ \/ Acquire(t) /\ UNCHANGED dropped
     \/ WakeupDropped(t)

PopWaitsAgain(t) == pc[t] = "woken" /\ ~Available /\ Sleep(t)

PopRetriesForever(t) ==
  /\ pc[t] = "timedout"
  /\ ~Available
  /\ pc' = [pc EXCEPT ![t] = "waiting"]
  /\ UNCHANGED <<pool, curr, client, dropped>>

\* wait_until returns false: Pop returns nullptr and the handler throws
\* SE_THRIFT_CONN_ERROR.
PopTimesOut(t) ==
  /\ pc[t] = "timedout"
  /\ ~Available
  /\ pc' = [pc EXCEPT ![t] = "idle"]
  /\ UNCHANGED <<pool, curr, client, dropped>>

-----------------------------------------------------------------------------
(* Connect, the RPC, and giving the client back *)

Connects(t) ==
  /\ pc[t] = "connect"
  /\ pc' = [pc EXCEPT ![t] = "call"]
  /\ UNCHANGED <<pool, curr, client, dropped>>

\* "delete client" at the start of Remove, before the lock.
DeleteClient(t) ==
  /\ pc' = [pc EXCEPT ![t] = "remove"]
  /\ client' = [client EXCEPT ![t] = NoClient]
  /\ UNCHANGED <<pool, curr, dropped>>

ConnectFailsLeaking(t) ==
  /\ pc[t] = "connect"
  /\ pc' = [pc EXCEPT ![t] = "idle"]
  /\ client' = [client EXCEPT ![t] = NoClient]
  /\ UNCHANGED <<pool, curr, dropped>>

ConnectFails(t) == pc[t] = "connect" /\ DeleteClient(t)

\* The RPC threw: the handler calls Remove.
CallFails(t) == pc[t] = "call" /\ DeleteClient(t)

Push(t) ==
  /\ pool' = Append(pool, client[t])
  /\ client' = [client EXCEPT ![t] = NoClient]
  /\ pc' = [pc EXCEPT ![t] = "notify"]
  /\ UNCHANGED <<curr, dropped>>

\* The RPC returned: Keepalive removes a connection older than
\* _keepalive_ms and pushes a younger one; the age is not modelled.
Keepalive(t) == pc[t] = "call" /\ (Push(t) \/ DeleteClient(t))

RemoveUncountsSilently(t) ==
  /\ pc[t] = "remove"
  /\ curr' = curr - 1
  /\ pc' = [pc EXCEPT ![t] = "idle"]
  /\ UNCHANGED <<pool, client, dropped>>

\* The locked part of Remove.
RemoveUncounts(t) ==
  /\ pc[t] = "remove"
  /\ curr' = curr - 1
  /\ pc' = [pc EXCEPT ![t] = "notify"]
  /\ UNCHANGED <<pool, client, dropped>>

NotifyOne(t) ==
  /\ pc[t] = "notify"
  /\ IF Waiters = {}
     THEN pc' = [pc EXCEPT ![t] = "idle"]
     ELSE \E w \in Waiters : pc' = [pc EXCEPT ![t] = "idle", ![w] = "woken"]
  /\ UNCHANGED <<pool, curr, client, dropped>>

-----------------------------------------------------------------------------
\* The steps that need the lock, or the end of the thread's own computation.
PoolStep(t) ==
  \/ PopResumes(t) \/ PopWaitsAgain(t) \/ PopTimesOut(t)
  \/ RemoveUncounts(t) \/ NotifyOne(t)

Step(t) ==
  \/ PopEnters(t) \/ PopBlocks(t) \/ WakesSpuriously(t) \/ DeadlinePasses(t)
  \/ Connects(t) \/ ConnectFails(t) \/ CallFails(t) \/ Keepalive(t)
  \/ PoolStep(t)

Next == \E t \in Thread : Step(t)

Spec == Init /\ [][Next]_vars

(* A thread that can take the lock eventually does.  The deadline of        *)
(* wait_until is absolute, so being notified in vain does not postpone it:  *)
(* strong fairness.  Nothing is assumed of Connect or of the RPC, which     *)
(* have no timeout and may hang for ever.                                   *)
Fairness ==
  \A t \in Thread : /\ WF_vars(PoolStep(t))
                    /\ SF_vars(DeadlinePasses(t))

FairSpec == Spec /\ Fairness

-----------------------------------------------------------------------------
(* Properties *)

\* The state has the types of the members of ClientPool; a thread has a
\* client exactly between Pop and Push or Remove.
TypeOK ==
  /\ pool \in Seq(Client)
  /\ curr \in 0 .. MaxSize
  /\ pc \in [Thread -> PCs]
  /\ client \in [Thread -> Client \union {NoClient}]
  /\ dropped \in 0 .. MaxSize
  /\ \A t \in Thread : client[t] # NoClient <=> t \in Holders

\* _curr_pool_size counts the clients that are free, in use, or deleted and
\* not yet uncounted: no error path of Pop, Keepalive or Remove loses or
\* double counts a place of the pool.
Counted == {t \in Thread : pc[t] \in {"connect", "call", "remove"}}
Accounting == curr = Len(pool) + Cardinality(Counted)

\* A connection is never in the hands of two threads, nor free while a thread
\* uses it, nor twice in _pool: two RPCs never interleave on one socket.
Exclusive ==
  /\ \A i, j \in DOMAIN pool : pool[i] = pool[j] => i = j
  /\ \A t, u \in Holders : client[t] = client[u] => t = u
  /\ \A t \in Holders : client[t] \notin Pooled

\* Wake-ups are lost in one way only: while some thread sleeps in Pop, every
\* free client and every free place is matched by a thread that is awake to
\* take it, by a notify_one that is still to run, or by one constructor that
\* has thrown for the thread that was woken for it.  Push and Remove notify
\* after they unlock, one thread at a time, and a newcomer may overtake the
\* sleeper.
Free == Len(pool) + (MaxSize - curr)
OnTheWay == {t \in Thread : pc[t] \in {"woken", "timedout", "notify"}}
NoLostWakeup == Waiters # {} => Free <= Cardinality(OnTheWay) + dropped

\* Pop returns, with a client or with nullptr, even when every other thread
\* hangs in its RPC for ever.
InPop(t) == pc[t] \in {"waiting", "woken", "timedout"}
PopReturns == \A t \in Thread : InPop(t) ~> ~InPop(t)

\* The pool implements a budget of MaxSize leases.
Lease == INSTANCE ConnectionLease WITH
           open <- Live,
           lessee <- client
ImplementsLease == Lease!Spec
=============================================================================
