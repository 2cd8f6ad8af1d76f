--------------------------- MODULE ConnectionLease ---------------------------
(***************************************************************************)
(* What a caller of a client pool relies on, without the mutex, the        *)
(* condition variable or the order of the free list: at any time at most   *)
(* MaxSize connections are open, and an open connection is leased to at    *)
(* most one thread.  ClientPool is shown to implement this module.         *)
(***************************************************************************)
EXTENDS Naturals, FiniteSets

CONSTANTS Thread, Client, NoClient, MaxSize

VARIABLES
  open,     \* the connections that exist
  lessee    \* lessee[t]: the connection thread t may use, or NoClient

vars == <<open, lessee>>

Leased == {lessee[t] : t \in Thread} \ {NoClient}

Init ==
  /\ open \in SUBSET Client
  /\ Cardinality(open) <= MaxSize
  /\ lessee = [t \in Thread |-> NoClient]

\* A thread leases a free connection.
Lease(t) ==
  /\ lessee[t] = NoClient
  /\ \E c \in open \ Leased : lessee' = [lessee EXCEPT ![t] = c]
  /\ UNCHANGED open

\* A thread opens a connection, if the budget allows one more, and leases it.
OpenAndLease(t) ==
  /\ lessee[t] = NoClient
  /\ Cardinality(open) < MaxSize
  /\ \E c \in Client \ open :
       /\ lessee' = [lessee EXCEPT ![t] = c]
       /\ open' = open \union {c}

\* A thread gives its connection back, for others to lease.
Return(t) ==
  /\ lessee[t] # NoClient
  /\ lessee' = [lessee EXCEPT ![t] = NoClient]
  /\ UNCHANGED open

\* A thread closes its connection.
Close(t) ==
  /\ lessee[t] # NoClient
  /\ open' = open \ {lessee[t]}
  /\ lessee' = [lessee EXCEPT ![t] = NoClient]

Next == \E t \in Thread : Lease(t) \/ OpenAndLease(t) \/ Return(t) \/ Close(t)

Spec == Init /\ [][Next]_vars
=============================================================================
