------------------------------- MODULE UniqueId -------------------------------
(***************************************************************************)
(* How socialNetwork makes identifiers (UniqueIdHandler.h, and once more   *)
(* in UserHandler.h): the hash of the machine, the milliseconds since an   *)
(* epoch, and a counter that starts again with every millisecond, each cut *)
(* to the last hexadecimal digits that fit.  Clock and counter are read    *)
(* and changed under one lock.  A process that sees the clock go back      *)
(* exits, and the one that is started in its place knows nothing of it.    *)
(***************************************************************************)
EXTENDS Integers, Sequences

CONSTANTS
  Server,        \* the hosts that run a process of the service
  HashSize,      \* how many hashes fit: 3 hexadecimal digits less the top bit
  TimeSize,      \* how many timestamps fit: 10 hexadecimal digits
  CounterSize,   \* how many counts fit: 3 hexadecimal digits
  MaxTime,       \* bound on the clocks
  MaxSetBacks    \* bound on the times a clock is set back

ASSUME IdAssumption ==
  /\ HashSize \in Nat \ {0}
  /\ TimeSize \in Nat \ {0}
  /\ CounterSize \in Nat \ {0}
  /\ MaxTime \in Nat
  /\ MaxSetBacks \in Nat

VARIABLES
  clock,     \* the clock of each host, in milliseconds
  last,      \* current_timestamp
  count,     \* counter
  hash,      \* _machine_id
  life,      \* history: which process of the host is running
  issued,    \* history: the calls served, in order
  setBacks

idVars == <<clock, last, count, hash, life, issued, setBacks>>

Issue == [server : Server, life : Nat, hash : 0 .. HashSize - 1,
          time : Nat, count : Nat]

\* The number that a call returns.
IdOf(i) == <<i.hash, i.time % TimeSize, i.count % CounterSize>>
Id == (0 .. HashSize - 1) \X (0 .. TimeSize - 1) \X (0 .. CounterSize - 1)

\* GetMachineId reads past the end of the MAC address, so that the hash may be
\* any, and may be another when a host starts the service again.
IdInit ==
  /\ clock = [s \in Server |-> 0]
  /\ last = [s \in Server |-> -1]
  /\ count = [s \in Server |-> 0]
  /\ hash \in [Server -> 0 .. HashSize - 1]
  /\ life = [s \in Server |-> 0]
  /\ issued = <<>>
  /\ setBacks = 0

Ticks(s) ==
  /\ clock[s] < MaxTime
  /\ clock' = [clock EXCEPT ![s] = @ + 1]
  /\ UNCHANGED <<last, count, hash, life, issued, setBacks>>

IsSetBack(s) ==
  /\ setBacks < MaxSetBacks
  /\ \E t \in 0 .. clock[s] - 1 : clock' = [clock EXCEPT ![s] = t]
  /\ setBacks' = setBacks + 1
  /\ UNCHANGED <<last, count, hash, life, issued>>

GetCounter(s) == IF last[s] = clock[s] THEN count[s] ELSE 0

\* Wrong: a clock that went back is taken for a new millisecond.
ComposeUniqueIdAnyway(s) ==
  /\ last' = [last EXCEPT ![s] = clock[s]]
  /\ count' = [count EXCEPT ![s] = GetCounter(s) + 1]
  /\ issued' = Append(issued, [server |-> s, life |-> life[s], hash |-> hash[s],
                               time |-> clock[s], count |-> GetCounter(s)])
  /\ UNCHANGED <<clock, hash, life, setBacks>>

ComposeUniqueId(s) ==
  /\ last[s] <= clock[s]
  /\ last' = [last EXCEPT ![s] = clock[s]]
  /\ count' = [count EXCEPT ![s] = GetCounter(s) + 1]
  /\ issued' = Append(issued, [server |-> s, life |-> life[s], hash |-> hash[s],
                               time |-> clock[s], count |-> GetCounter(s)])
  /\ UNCHANGED <<clock, hash, life, setBacks>>

\* A new process starts in the place of the old one.
Restarts(s) ==
  /\ last' = [last EXCEPT ![s] = -1]
  /\ count' = [count EXCEPT ![s] = 0]
  /\ \E h \in 0 .. HashSize - 1 : hash' = [hash EXCEPT ![s] = h]
  /\ life' = [life EXCEPT ![s] = @ + 1]
  /\ UNCHANGED <<clock, issued, setBacks>>

\* "Timestamps are not incremental."
Exits(s) == last[s] > clock[s] /\ Restarts(s)

-----------------------------------------------------------------------------
(* Properties *)

IdTypeOK ==
  /\ clock \in [Server -> 0 .. MaxTime]
  /\ last \in [Server -> Int]
  /\ count \in [Server -> Nat]
  /\ hash \in [Server -> 0 .. HashSize - 1]
  /\ life \in [Server -> Nat]
  /\ issued \in Seq(Issue)
  /\ setBacks \in 0 .. MaxSetBacks

\* Two calls of one process get one identifier only when one of them was beyond
\* the counts that fit into a millisecond, or beyond the times that fit; also
\* when the clock is set back, where the process gives up instead.
SameProcess(i, j) == i.server = j.server /\ i.life = j.life
Fits(i) == i.count < CounterSize /\ i.time < TimeSize
NoClash ==
  \A m, n \in DOMAIN issued :
    /\ SameProcess(issued[m], issued[n])
    /\ Fits(issued[m]) /\ Fits(issued[n])
    /\ IdOf(issued[m]) = IdOf(issued[n])
    => m = n
=============================================================================
