------------------------------ MODULE Reservation ------------------------------
(***************************************************************************)
(* The reservation service of hotelReservation (services/reservation/      *)
(* server.go), for one hotel.  MakeReservation counts the rooms that are   *)
(* taken, night by night, in memcached or else in MongoDB; when every      *)
(* night has room it writes the new counts to memcached and then one       *)
(* document per night to MongoDB.  Nothing makes the counting and the      *)
(* writing one step, memcached may lose a count at any time, a failed Set  *)
(* goes unseen, and any other error panics, which ends the whole process.  *)
(***************************************************************************)
EXTENDS Naturals, FiniteSets

CONSTANTS
  Call,         \* calls of MakeReservation
  First, Last,  \* First[c], Last[c]: the nights call c asks for, none if Last[c] < First[c]
  Rooms,        \* Rooms[c]: its RoomNumber
  LastNight,    \* the nights are 1..LastNight
  Capacity,     \* the number of rooms of the hotel
  Query,        \* the sets of nights that CheckAvailability is asked for
  Missing,      \* what memcached has for a key it does not have
  MaxFailures,  \* bound on the calls to memcached and MongoDB that fail
  MaxLosses     \* bound on the counts that memcached loses

Night == 1..LastNight

ASSUME HotelAssumption ==
  /\ IsFiniteSet(Call)
  /\ LastNight \in Nat /\ Capacity \in Nat
  /\ First \in [Call -> Night] /\ Last \in [Call -> Night \union {0}]
  /\ Rooms \in [Call -> Nat]
  /\ Query \subseteq SUBSET Night
  /\ Missing \notin Nat
  /\ MaxFailures \in Nat /\ MaxLosses \in Nat

VARIABLES
  pc,        \* where each call is
  night,     \* the night its loop is at
  plan,      \* its memc_date_num_map
  unset,     \* the nights of the map it has not written to memcached yet
  cached,    \* memcached: the count of each night
  stored,    \* MongoDB: the rooms that are taken, each a pair of a call and a number
  listed,    \* the latest answer of CheckAvailability: is the hotel in it?
  failures,
  losses,
  vacant,    \* history: whether there was room when CheckAvailability last answered
  crashed,   \* history: the process has panicked
  disturbed  \* history: the nights for which calls overlapped or a failure went unseen

vars == <<pc, night, plan, unset, cached, stored, listed, failures, losses,
          vacant, crashed, disturbed>>
dataVars == <<cached, stored>>
askVars == <<listed, vacant>>
boundVars == <<failures, losses>>

Stay(c) == First[c]..Last[c]
Active(c) == pc[c] \in {"check", "mongo", "set", "insert"}

\* The rooms that call c takes on a night, and how many of a night are taken.
RoomsOf(c) == {c} \X (1..Rooms[c])
Booked(n) == Cardinality(stored[n])

\* What the calls that have passed their check are still to insert.
Promises(c, n) ==
  \/ pc[c] = "set" /\ n \in Stay(c)
  \/ pc[c] = "insert" /\ n \in night[c]..Last[c]
Promised(n) == stored[n] \union UNION {RoomsOf(c) : c \in {b \in Call : Promises(b, n)}}

Init ==
  /\ pc = [c \in Call |-> "idle"]
  /\ night = First
  /\ plan = [c \in Call |-> [n \in Night |-> 0]]
  /\ unset = [c \in Call |-> {}]
  /\ cached = [n \in Night |-> Missing]
  /\ stored = [n \in Night |-> {}]
  /\ listed = FALSE
  /\ failures = 0
  /\ losses = 0
  /\ vacant = FALSE
  /\ crashed = FALSE
  /\ disturbed = {}

-----------------------------------------------------------------------------
(* MakeReservation *)

Shared(c) == {n \in Stay(c) : \E b \in Call : Active(b) /\ n \in Stay(b)}

\* Without a night the stay is granted and nothing happens.
Begin(c) ==
  /\ pc[c] = "idle"
  /\ pc' = [pc EXCEPT ![c] = IF Stay(c) = {} THEN "done" ELSE "check"]
  /\ disturbed' = disturbed \union Shared(c)
  /\ UNCHANGED <<night, plan, unset, dataVars, askVars, boundVars, crashed>>

\* Wrong: only the rooms that are taken already are held against the capacity.
NoRoomBefore(c, count) == count > Capacity

\* Wrong: a hotel that the call would fill passes for full.
NoRoomForLast(c, count) == count + Rooms[c] >= Capacity

NoRoom(c, count) == count + Rooms[c] > Capacity

\* Once the count of the night is known: refuse, go on to the next night, or,
\* after the last one, to the map.
Counted(c, count) ==
  /\ plan' = [plan EXCEPT ![c] = [@ EXCEPT ![night[c]] = count + Rooms[c]]]
  /\ \/ /\ NoRoom(c, count)
        /\ pc' = [pc EXCEPT ![c] = "refused"]
        /\ UNCHANGED <<night, unset>>
     \/ /\ ~NoRoom(c, count)
        /\ night[c] < Last[c]
        /\ night' = [night EXCEPT ![c] = @ + 1]
        /\ pc' = [pc EXCEPT ![c] = "check"]
        /\ UNCHANGED unset
     \/ /\ ~NoRoom(c, count)
        /\ night[c] = Last[c]
        /\ night' = [night EXCEPT ![c] = First[c]]
        /\ unset' = [unset EXCEPT ![c] = Stay(c)]
        /\ pc' = [pc EXCEPT ![c] = "set"]

CountCached(c) ==
  /\ pc[c] = "check"
  /\ cached[night[c]] # Missing
  /\ Counted(c, cached[night[c]])
  /\ UNCHANGED <<dataVars, askVars, boundVars, crashed, disturbed>>

CacheMisses(c) ==
  /\ pc[c] = "check"
  /\ cached[night[c]] = Missing
  /\ pc' = [pc EXCEPT ![c] = "mongo"]
  /\ UNCHANGED <<night, plan, unset, dataVars, askVars, boundVars, crashed, disturbed>>

\* Wrong: the new count of a night is in memcached before the later nights are checked.
CountStoredAndSet(c) ==
  /\ pc[c] = "mongo"
  /\ Counted(c, Booked(night[c]))
  /\ cached' = [cached EXCEPT ![night[c]] = plan'[c][night[c]]]
  /\ UNCHANGED <<stored, askVars, boundVars, crashed, disturbed>>

CountStored(c) ==
  /\ pc[c] = "mongo"
  /\ Counted(c, Booked(night[c]))
  /\ UNCHANGED <<dataVars, askVars, boundVars, crashed, disturbed>>

\* The error of curr.All is dropped: no document is counted.
CountsNothing(c) ==
  /\ pc[c] = "mongo"
  /\ failures < MaxFailures
  /\ failures' = failures + 1
  /\ Counted(c, 0)
  /\ disturbed' = disturbed \union {night[c]}
  /\ UNCHANGED <<dataVars, askVars, losses, crashed>>

\* The map is walked in any order.
SetDone(c, n) ==
  /\ unset' = [unset EXCEPT ![c] = @ \ {n}]
  /\ pc' = IF unset[c] = {n} THEN [pc EXCEPT ![c] = "insert"] ELSE pc

SetCount(c) ==
  \E n \in unset[c] :
    /\ pc[c] = "set"
    /\ cached' = [cached EXCEPT ![n] = plan[c][n]]
    /\ SetDone(c, n)
    /\ UNCHANGED <<night, plan, stored, askVars, boundVars, crashed, disturbed>>

\* The error of Set is dropped, and the count stays as it is.
SetFails(c) ==
  \E n \in unset[c] :
    /\ pc[c] = "set"
    /\ failures < MaxFailures
    /\ failures' = failures + 1
    /\ SetDone(c, n)
    /\ disturbed' = disturbed \union {n}
    /\ UNCHANGED <<night, plan, dataVars, askVars, losses, crashed>>

Inserted(c) == [stored EXCEPT ![night[c]] = @ \union RoomsOf(c)]

\* Wrong: the loop ends a night early.
InsertAllButLast(c) ==
  /\ pc[c] = "insert"
  /\ stored' = IF night[c] < Last[c] THEN Inserted(c) ELSE stored
  /\ \/ night[c] < Last[c] /\ night' = [night EXCEPT ![c] = @ + 1] /\ UNCHANGED pc
     \/ night[c] = Last[c] /\ pc' = [pc EXCEPT ![c] = "done"] /\ UNCHANGED night
  /\ UNCHANGED <<plan, unset, cached, askVars, boundVars, crashed, disturbed>>

Insert(c) ==
  /\ pc[c] = "insert"
  /\ stored' = Inserted(c)
  /\ \/ night[c] < Last[c] /\ night' = [night EXCEPT ![c] = @ + 1] /\ UNCHANGED pc
     \/ night[c] = Last[c] /\ pc' = [pc EXCEPT ![c] = "done"] /\ UNCHANGED night
  /\ UNCHANGED <<plan, unset, cached, askVars, boundVars, crashed, disturbed>>

\* log.Panic ends the process with all the calls it serves; another takes its place.
Crash ==
  /\ failures < MaxFailures
  /\ failures' = failures + 1
  /\ pc' = [c \in Call |-> IF Active(c) THEN "dead" ELSE pc[c]]
  /\ crashed' = TRUE
  /\ UNCHANGED <<night, plan, unset, cached, askVars, losses, disturbed>>

\* Get, Find or InsertOne gives an error, the last one with or without effect.
Panic(c) ==
  /\ Crash
  /\ \/ pc[c] \in {"check", "mongo", "insert"} /\ UNCHANGED stored
     \/ pc[c] = "insert" /\ stored' = Inserted(c)

-----------------------------------------------------------------------------
(* CheckAvailability, for one room, as the frontend asks for it *)

\* GetMulti reports no misses, so only the counts that it finds are looked at, and
\* they are held against cacheCap[id], which is 0: the map has "id_cap" for keys.
CheckAvailability(q) ==
  /\ listed' = \A n \in q : cached[n] # Missing => cached[n] + 1 <= 0
  /\ vacant' = \A n \in q : Cardinality(Promised(n)) + 1 <= Capacity
  /\ UNCHANGED <<pc, night, plan, unset, dataVars, boundVars, crashed, disturbed>>

\* GetMulti gives an error.
CheckPanics == Crash /\ UNCHANGED stored

-----------------------------------------------------------------------------
(* memcached makes room for other keys, or restarts. *)
Evict(n) ==
  /\ losses < MaxLosses
  /\ losses' = losses + 1
  /\ cached[n] # Missing
  /\ cached' = [cached EXCEPT ![n] = Missing]
  /\ UNCHANGED <<pc, night, plan, unset, stored, askVars, failures, crashed, disturbed>>

CallStep(c) ==
  \/ CountCached(c) \/ CacheMisses(c) \/ CountStored(c) \/ CountsNothing(c)
  \/ SetCount(c) \/ SetFails(c) \/ Insert(c) \/ Panic(c)

Next ==
  \/ \E c \in Call : Begin(c) \/ CallStep(c)
  \/ \E q \in Query : CheckAvailability(q)
  \/ CheckPanics
  \/ \E n \in Night : Evict(n)

Spec == Init /\ [][Next]_vars

-----------------------------------------------------------------------------
(* Properties *)

\* The type invariant.
TypeOK ==
  /\ pc \in [Call -> {"idle", "check", "mongo", "set", "insert", "done", "refused", "dead"}]
  /\ night \in [Call -> Night]
  /\ plan \in [Call -> [Night -> Nat]]
  /\ unset \in [Call -> SUBSET Night]
  /\ cached \in [Night -> Nat \union {Missing}]
  /\ stored \in [Night -> SUBSET (Call \X Nat)]
  /\ listed \in BOOLEAN /\ vacant \in BOOLEAN /\ crashed \in BOOLEAN
  /\ failures \in Nat /\ losses \in Nat
  /\ disturbed \subseteq Night

\* memcached never counts a room that is neither taken nor about to be: however calls
\* overlap, whatever is lost or fails unseen, only a panic between the two writes
\* takes rooms out of the hotel.
NoPhantomRooms ==
  crashed \/
  \A n \in Night : cached[n] # Missing => cached[n] <= Cardinality(Promised(n))

\* A stay is refused for want of room: once everything is at rest, the night at which
\* it was refused has fewer rooms left than it asked for.
RefusedForWant ==
  crashed \/ (\E c \in Call : Active(c)) \/
  \A c \in Call : pc[c] = "refused" => Booked(night[c]) + Rooms[c] > Capacity

\* A night is never overbooked as long as no two calls for it overlap and no failure
\* for it goes unseen, although counts are lost, the process panics between the
\* writes, and the other nights of a stay are in any state.
NotOverbooked == \A n \in Night \ disturbed : Booked(n) <= Capacity

\* A stay that is granted is stored for all its nights, and one that is refused, for
\* none.
WholeStays ==
  \A c \in Call :
    /\ pc[c] = "done" => \A n \in Stay(c) : RoomsOf(c) \subseteq stored[n]
    /\ pc[c] = "refused" => \A n \in Night : stored[n] \intersect RoomsOf(c) = {}

\* The comment at server.go:220 has CheckAvailability check if the hotel is available:
\* it lists a hotel that has room on every night.
VacantIsListed == vacant => listed
=============================================================================
