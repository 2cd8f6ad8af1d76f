--------------------------- MODULE ReservationProofs ---------------------------
(***************************************************************************)
(* Proofs about Reservation, for any calls, stays, rooms, nights and       *)
(* bounds.                                                                 *)
(*                                                                         *)
(* The invariant has three parts.  Base says where a call is in its stay   *)
(* and what it has inserted so far.  NoPhantoms bounds every count, in     *)
(* memcached or in a map, from above by the rooms that are taken or        *)
(* promised, and holds until the process panics.  Enough bounds the counts *)
(* of an undisturbed night from below by the rooms that are taken, which   *)
(* is what keeps it from being overbooked, also across panics.             *)
(***************************************************************************)
EXTENDS Reservation, FiniteSetTheorems, TLAPS

Beds == UNION {RoomsOf(c) : c \in Call}

Place(c) ==
  /\ pc[c] \in {"check", "mongo", "set", "insert", "refused"} =>
       First[c] <= night[c] /\ night[c] <= Last[c]
  /\ pc[c] = "set" => night[c] = First[c] /\ unset[c] \subseteq Stay(c)
  /\ pc[c] = "idle" => night[c] = First[c]

Put(c) ==
  /\ pc[c] \in {"idle", "check", "mongo", "set", "refused"} =>
       \A n \in Night : stored[n] \intersect RoomsOf(c) = {}
  /\ pc[c] = "insert" =>
       \A n \in Night : IF n \in Stay(c) /\ n < night[c]
                        THEN RoomsOf(c) \subseteq stored[n]
                        ELSE stored[n] \intersect RoomsOf(c) = {}
  /\ pc[c] = "done" => \A n \in Stay(c) : RoomsOf(c) \subseteq stored[n]

Base ==
  /\ TypeOK
  /\ stored \in [Night -> SUBSET Beds]
  /\ \A c \in Call : Place(c) /\ Put(c)

Taken(n) == Cardinality(Promised(n))

Modest(c) ==
  /\ pc[c] \in {"check", "mongo"} =>
       \A n \in Night : First[c] <= n /\ n < night[c] => plan[c][n] <= Taken(n) + Rooms[c]
  /\ pc[c] = "set" => \A n \in unset[c] : plan[c][n] <= Taken(n)
  /\ pc[c] = "refused" => Taken(night[c]) + Rooms[c] > Capacity

NoPhantoms ==
  /\ \A n \in Night : cached[n] # Missing => cached[n] <= Taken(n)
  /\ \A c \in Call : Modest(c)

Planned(c, n) ==
  \/ pc[c] \in {"check", "mongo"} /\ First[c] <= n /\ n < night[c]
  \/ pc[c] = "set" /\ n \in unset[c]

Careful(c, n) ==
  /\ Planned(c, n) => Booked(n) + Rooms[c] <= plan[c][n] /\ plan[c][n] <= Capacity
  /\ Promises(c, n) => Booked(n) + Rooms[c] <= Capacity
  /\ Promises(c, n) /\ ~Planned(c, n) /\ cached[n] # Missing =>
       Booked(n) + Rooms[c] <= cached[n]

Enough(n) ==
  /\ Booked(n) <= Capacity
  /\ cached[n] # Missing => Booked(n) <= cached[n]
  /\ \A c \in Call : Careful(c, n)
  /\ \A b, c \in Call : b # c /\ Active(b) /\ Active(c) => n \notin Stay(b) \/ n \notin Stay(c)

IInv ==
  /\ Base
  /\ ~crashed => NoPhantoms
  /\ \A n \in Night \ disturbed : Enough(n)

-----------------------------------------------------------------------------
(* Rooms and how many they are *)

LEMMA StayIs ==
  ASSUME NEW c \in Call
  PROVE /\ First[c] \in Nat /\ Last[c] \in Nat /\ First[c] \in Night
        /\ Stay(c) \subseteq Night
        /\ \A n \in Night : n \in Stay(c) <=> First[c] <= n /\ n <= Last[c]
        /\ Rooms[c] \in Nat
        /\ \A n \in Night : n \in Nat
<1>1. /\ LastNight \in Nat /\ First[c] \in 1..LastNight
      /\ Last[c] \in (1..LastNight) \union {0} /\ Rooms[c] \in Nat
  BY HotelAssumption DEF Night
<1> QED  BY <1>1 DEF Night, Stay

LEMMA RoomsAre ==
  ASSUME NEW c \in Call
  PROVE /\ RoomsOf(c) \subseteq Beds
        /\ IsFiniteSet(RoomsOf(c)) /\ Cardinality(RoomsOf(c)) = Rooms[c]
        /\ RoomsOf(c) \subseteq Call \X Nat
        /\ \A b \in Call : b # c => RoomsOf(b) \intersect RoomsOf(c) = {}
<1>1. Rooms[c] \in Nat  BY StayIs
<1>2. IsFiniteSet({c}) /\ Cardinality({c}) = 1  BY FS_Singleton
<1>3. IsFiniteSet(1..Rooms[c]) /\ Cardinality(1..Rooms[c]) = Rooms[c]
  BY <1>1, FS_Interval
<1>4. IsFiniteSet(RoomsOf(c)) /\ Cardinality(RoomsOf(c)) = 1 * Rooms[c]
  BY <1>2, <1>3, FS_Product DEF RoomsOf
<1>5. RoomsOf(c) \subseteq Call \X Nat  BY <1>1 DEF RoomsOf
<1>6. \A b \in Call : b # c => RoomsOf(b) \intersect RoomsOf(c) = {}  BY DEF RoomsOf
<1> QED  BY <1>1, <1>4, <1>5, <1>6 DEF Beds

LEMMA BedsFinite ==
  /\ IsFiniteSet(Beds)
  /\ \A S \in SUBSET Beds : IsFiniteSet(S) /\ Cardinality(S) \in Nat
<1> DEFINE f == [c \in Call |-> RoomsOf(c)]
           T == {RoomsOf(c) : c \in Call}
<1>1. f \in Surjection(Call, T)  BY DEF Surjection
<1>2. IsFiniteSet(T)  BY <1>1, FS_Surjection, HotelAssumption
<1>3. IsFiniteSet(UNION T)  BY <1>2, FS_UNION, RoomsAre
<1>4. IsFiniteSet(Beds)  BY <1>3 DEF Beds
<1> QED  BY <1>4, FS_Subset, FS_CardinalityType

\* The rooms of a call are added to others.
LEMMA AddRooms ==
  ASSUME NEW S \in SUBSET Beds, NEW c \in Call
  PROVE /\ S \union RoomsOf(c) \in SUBSET Beds
        /\ Cardinality(S) \in Nat
        /\ Cardinality(S \union RoomsOf(c)) \in Nat
        /\ Cardinality(S \union RoomsOf(c)) <= Cardinality(S) + Rooms[c]
        /\ S \intersect RoomsOf(c) = {} =>
             Cardinality(S \union RoomsOf(c)) = Cardinality(S) + Rooms[c]
<1>1. S \union RoomsOf(c) \in SUBSET Beds  BY RoomsAre
<1>2. S \intersect RoomsOf(c) \in SUBSET Beds  OBVIOUS
<1>3. IsFiniteSet(S) /\ Cardinality(S) \in Nat
      /\ Cardinality(S \union RoomsOf(c)) \in Nat /\ Cardinality(S \intersect RoomsOf(c)) \in Nat
  BY <1>1, <1>2, BedsFinite
<1>4. Cardinality(S \union RoomsOf(c)) =
        Cardinality(S) + Rooms[c] - Cardinality(S \intersect RoomsOf(c))
  BY <1>3, RoomsAre, FS_Union
<1>5. Rooms[c] \in Nat  BY StayIs
<1>6. Cardinality(S \union RoomsOf(c)) <= Cardinality(S) + Rooms[c]  BY <1>3, <1>4, <1>5
<1>7. ASSUME S \intersect RoomsOf(c) = {}
      PROVE Cardinality(S \union RoomsOf(c)) = Cardinality(S) + Rooms[c]
  <2>1. Cardinality(S \intersect RoomsOf(c)) = 0  BY <1>7, FS_EmptySet
  <2> QED  BY <1>3, <1>4, <1>5, <2>1
<1> QED  BY <1>1, <1>3, <1>6, <1>7

LEMMA Before ==
  \A n, m \in Nat : n # m => (n < m + 1 <=> n < m) /\ (n <= m => n < m)
OBVIOUS

-----------------------------------------------------------------------------
(* What the actions do, point by point *)

LEMMA CountedIs ==
  ASSUME TypeOK, NEW c \in Call, NEW k \in Nat, Counted(c, k)
  PROVE /\ plan' \in [Call -> [Night -> Nat]]
        /\ \A b \in Call, n \in Night :
             plan'[b][n] = IF b = c /\ n = night[c] THEN k + Rooms[c] ELSE plan[b][n]
        /\ \A b \in Call \ {c} : pc'[b] = pc[b] /\ night'[b] = night[b] /\ unset'[b] = unset[b]
        /\ \/ /\ k + Rooms[c] > Capacity
              /\ pc'[c] = "refused" /\ night'[c] = night[c]
           \/ /\ k + Rooms[c] <= Capacity
              /\ night[c] < Last[c]
              /\ pc'[c] = "check" /\ night'[c] = night[c] + 1
           \/ /\ k + Rooms[c] <= Capacity
              /\ night[c] = Last[c]
              /\ pc'[c] = "set" /\ night'[c] = First[c] /\ unset'[c] = Stay(c)
<1> USE DEF TypeOK
<1>1. Rooms[c] \in Nat /\ night[c] \in Night /\ Capacity \in Nat
  BY StayIs, HotelAssumption
<1> DEFINE Row == [plan[c] EXCEPT ![night[c]] = k + Rooms[c]]
<1>2. Row \in [Night -> Nat]
      /\ \A n \in Night : Row[n] = IF n = night[c] THEN k + Rooms[c] ELSE plan[c][n]
  BY <1>1
<1>3. plan' = [plan EXCEPT ![c] = Row]  BY DEF Counted
<1> HIDE DEF Row
<1>4. plan' \in [Call -> [Night -> Nat]]  BY <1>2, <1>3
<1>5. \A b \in Call, n \in Night :
        plan'[b][n] = IF b = c /\ n = night[c] THEN k + Rooms[c] ELSE plan[b][n]
  BY <1>2, <1>3
<1>6. \A b \in Call \ {c} : pc'[b] = pc[b] /\ night'[b] = night[b] /\ unset'[b] = unset[b]
  BY DEF Counted
<1>7. \/ k + Rooms[c] > Capacity /\ pc'[c] = "refused" /\ night'[c] = night[c]
      \/ /\ ~(k + Rooms[c] > Capacity) /\ night[c] < Last[c]
         /\ pc'[c] = "check" /\ night'[c] = night[c] + 1
      \/ /\ ~(k + Rooms[c] > Capacity) /\ night[c] = Last[c]
         /\ pc'[c] = "set" /\ night'[c] = First[c] /\ unset'[c] = Stay(c)
  BY DEF Counted, NoRoom
<1>8. ~(k + Rooms[c] > Capacity) <=> k + Rooms[c] <= Capacity  BY <1>1
<1> QED  BY <1>4, <1>5, <1>6, <1>7, <1>8

\* A step that counts: one of three, which differ in the count.
LEMMA CountingIs ==
  ASSUME Base, NEW c \in Call, CountCached(c) \/ CountStored(c) \/ CountsNothing(c)
  PROVE \E k \in Nat :
          /\ Counted(c, k)
          /\ pc[c] \in {"check", "mongo"}
          /\ \/ k = cached[night[c]] /\ cached[night[c]] # Missing /\ disturbed' = disturbed
             \/ k = Booked(night[c]) /\ disturbed' = disturbed
             \/ k = 0 /\ disturbed' = disturbed \union {night[c]}
          /\ UNCHANGED <<cached, stored, crashed>>
<1> USE DEF Base, TypeOK
<1>1. night[c] \in Night  OBVIOUS
<1>2. CASE CountCached(c)
  <2>1. cached[night[c]] \in Nat  BY <1>1, <1>2 DEF CountCached
  <2> QED  BY <1>2, <2>1 DEF CountCached, dataVars
<1>3. CASE CountStored(c)
  <2>1. Booked(night[c]) \in Nat  BY <1>1, BedsFinite DEF Booked
  <2> QED  BY <1>3, <2>1 DEF CountStored, dataVars
<1>4. CASE CountsNothing(c)  BY <1>4 DEF CountsNothing, dataVars
<1> QED  BY <1>2, <1>3, <1>4

LEMMA SettingIs ==
  ASSUME TypeOK, NEW c \in Call, SetCount(c) \/ SetFails(c)
  PROVE /\ UNCHANGED <<night, plan, stored, crashed>>
        /\ pc[c] = "set"
        /\ \A b \in Call \ {c} : pc'[b] = pc[b] /\ unset'[b] = unset[b]
        /\ \E n \in unset[c] :
             /\ n \in Night
             /\ unset'[c] = unset[c] \ {n}
             /\ pc'[c] = "set" \/ (pc'[c] = "insert" /\ unset[c] = {n})
             /\ \/ cached' = [cached EXCEPT ![n] = plan[c][n]] /\ disturbed' = disturbed
                \/ cached' = cached /\ disturbed' = disturbed \union {n}
<1> USE DEF TypeOK
<1>1. PICK n \in unset[c] :
        /\ pc[c] = "set"
        /\ SetDone(c, n)
        /\ UNCHANGED <<night, plan, stored, crashed>>
        /\ \/ cached' = [cached EXCEPT ![n] = plan[c][n]] /\ disturbed' = disturbed
           \/ cached' = cached /\ disturbed' = disturbed \union {n}
  BY DEF SetCount, SetFails, dataVars
<1>2. n \in Night  OBVIOUS
<1>3. unset'[c] = unset[c] \ {n} /\ \A b \in Call \ {c} : unset'[b] = unset[b]
  BY <1>1 DEF SetDone
<1>4. \A b \in Call \ {c} : pc'[b] = pc[b]  BY <1>1 DEF SetDone
<1>5. pc'[c] = "set" \/ (pc'[c] = "insert" /\ unset[c] = {n})  BY <1>1 DEF SetDone
<1> QED  BY <1>1, <1>2, <1>3, <1>4, <1>5

LEMMA InsertedIs ==
  ASSUME Base, NEW c \in Call, pc[c] = "insert", stored' = Inserted(c)
  PROVE /\ stored' \in [Night -> SUBSET Beds]
        /\ night[c] \in Stay(c) /\ night[c] \in Night
        /\ \A n \in Night :
             stored'[n] = IF n = night[c] THEN stored[n] \union RoomsOf(c) ELSE stored[n]
<1> USE DEF Base, TypeOK
<1>1. night[c] \in Night /\ Place(c)  OBVIOUS
<1>2. night[c] \in Stay(c)  BY <1>1, StayIs DEF Place
<1>3. stored[night[c]] \union RoomsOf(c) \in SUBSET Beds  BY <1>1, RoomsAre
<1>4. stored' = [stored EXCEPT ![night[c]] = stored[night[c]] \union RoomsOf(c)]
  BY DEF Inserted
<1> QED  BY <1>1, <1>2, <1>3, <1>4

-----------------------------------------------------------------------------
LEMMA InitBase == Init => Base
<1> SUFFICES ASSUME Init PROVE Base  OBVIOUS
<1> USE DEF Init
<1>1. night \in [Call -> Night] /\ 0 \in Nat  BY HotelAssumption
<1>2. TypeOK  BY <1>1 DEF TypeOK
<1>3. stored \in [Night -> SUBSET Beds]  OBVIOUS
<1>4. \A c \in Call : Place(c) /\ Put(c)  BY DEF Place, Put
<1> QED  BY <1>2, <1>3, <1>4 DEF Base

LEMMA CrashIs ==
  ASSUME TypeOK, Crash
  PROVE /\ \A b \in Call : pc'[b] = IF Active(b) THEN "dead" ELSE pc[b]
        /\ UNCHANGED <<night, plan, unset, cached, disturbed>>
        /\ crashed' = TRUE
BY DEF Crash, TypeOK

LEMMA TypeKept ==
  ASSUME Base, [Next]_vars
  PROVE TypeOK'
<1> USE DEF TypeOK, dataVars, askVars, boundVars
<1>1. CASE UNCHANGED vars  BY <1>1 DEF Base, vars
<1>2. ASSUME NEW c \in Call, Begin(c) PROVE TypeOK'
  <2>1. Shared(c) \subseteq Night  BY StayIs DEF Shared
  <2> QED  BY <1>2, <2>1 DEF Base, Begin
<1>3. ASSUME NEW c \in Call, CountCached(c) \/ CountStored(c) \/ CountsNothing(c)
      PROVE TypeOK'
  <2>1. PICK k \in Nat : Counted(c, k)  BY <1>3, CountingIs
  <2>2. plan' \in [Call -> [Night -> Nat]]  BY <2>1, CountedIs DEF Base
  <2>3. night[c] < Last[c] => night[c] + 1 \in Night
    BY StayIs, HotelAssumption DEF Base, Night
  <2>4. First[c] \in Night /\ Stay(c) \subseteq Night  BY StayIs
  <2>5. /\ pc' \in [Call -> {"idle", "check", "mongo", "set", "insert", "done", "refused", "dead"}]
        /\ night' \in [Call -> Night]
        /\ unset' \in [Call -> SUBSET Night]
    <3>1. CASE pc' = [pc EXCEPT ![c] = "refused"] /\ UNCHANGED <<night, unset>>
      BY <3>1 DEF Base
    <3>2. CASE /\ pc' = [pc EXCEPT ![c] = "check"] /\ UNCHANGED unset /\ night[c] < Last[c]
               /\ night' = [night EXCEPT ![c] = night[c] + 1]
      BY <2>3, <3>2 DEF Base
    <3>3. CASE /\ pc' = [pc EXCEPT ![c] = "set"]
               /\ night' = [night EXCEPT ![c] = First[c]]
               /\ unset' = [unset EXCEPT ![c] = Stay(c)]
      BY <2>4, <3>3 DEF Base
    <3> QED  BY <2>1, <3>1, <3>2, <3>3 DEF Counted
  <2>6. /\ UNCHANGED <<cached, stored, askVars, losses, crashed>>
        /\ failures' \in Nat /\ disturbed' \subseteq Night
    BY <1>3 DEF Base, CountCached, CountStored, CountsNothing
  <2> QED  BY <2>2, <2>5, <2>6 DEF Base
<1>4. ASSUME NEW c \in Call, CacheMisses(c) PROVE TypeOK'  BY <1>4 DEF Base, CacheMisses
<1>5. ASSUME NEW c \in Call, SetCount(c) \/ SetFails(c) PROVE TypeOK'
  <2>1. PICK n \in unset[c] :
          /\ SetDone(c, n)
          /\ \/ cached' = [cached EXCEPT ![n] = plan[c][n]] /\ disturbed' = disturbed
             \/ cached' = cached /\ disturbed' = disturbed \union {n}
    BY <1>5 DEF SetCount, SetFails
  <2>2. n \in Night /\ plan[c][n] \in Nat  BY DEF Base
  <2>3. unset' \in [Call -> SUBSET Night]  BY <2>1 DEF Base, SetDone
  <2>4. pc' \in [Call -> {"idle", "check", "mongo", "set", "insert", "done", "refused", "dead"}]
    BY <2>1 DEF Base, SetDone
  <2>5. cached' \in [Night -> Nat \union {Missing}] /\ disturbed' \subseteq Night
    BY <2>1, <2>2 DEF Base
  <2> QED  BY <1>5, <2>3, <2>4, <2>5 DEF Base, SetCount, SetFails
<1>6. ASSUME NEW c \in Call, Insert(c) PROVE TypeOK'
  <2>1. stored' \in [Night -> SUBSET (Call \X Nat)]
    BY <1>6, RoomsAre DEF Base, Insert, Inserted
  <2>2. night[c] < Last[c] => night[c] + 1 \in Night
    BY StayIs, HotelAssumption DEF Base, Night
  <2> QED  BY <1>6, <2>1, <2>2 DEF Base, Insert
<1>7. ASSUME NEW c \in Call, Panic(c) PROVE TypeOK'
  <2>1. stored' \in [Night -> SUBSET (Call \X Nat)]
    BY <1>7, RoomsAre DEF Base, Panic, Inserted
  <2> QED  BY <1>7, <2>1 DEF Base, Panic, Crash
<1>8. ASSUME NEW q \in Query, CheckAvailability(q) PROVE TypeOK'
  BY <1>8 DEF Base, CheckAvailability
<1>9. CASE CheckPanics  BY <1>9 DEF Base, CheckPanics, Crash
<1>10. ASSUME NEW n \in Night, Evict(n) PROVE TypeOK'  BY <1>10 DEF Base, Evict
<1> QED  BY <1>1, <1>2, <1>3, <1>4, <1>5, <1>6, <1>7, <1>8, <1>9, <1>10 DEF Next, CallStep

\* A step of others leaves a call where it is and its rooms as they are.
LEMMA Elsewhere ==
  ASSUME NEW b \in Call, Place(b), Put(b),
         pc'[b] = pc[b], night'[b] = night[b], unset'[b] = unset[b],
         \A n \in Night : stored'[n] \intersect RoomsOf(b) = stored[n] \intersect RoomsOf(b)
  PROVE Place(b)' /\ Put(b)'
<1>1. Place(b)'  BY DEF Place, Stay
<1>2. Stay(b) \subseteq Night  BY StayIs
<1>3. \A n \in Night : /\ RoomsOf(b) \subseteq stored[n] => RoomsOf(b) \subseteq stored'[n]
                       /\ stored[n] \intersect RoomsOf(b) = {} =>
                            stored'[n] \intersect RoomsOf(b) = {}
  BY SMTT(20)
<1>4. Put(b)'
  <2> DEFINE R == RoomsOf(b)
             T == Stay(b)
  <2>1. /\ pc[b] \in {"idle", "check", "mongo", "set", "refused"} =>
             \A n \in Night : stored[n] \intersect R = {}
        /\ pc[b] = "insert" =>
             \A n \in Night : IF n \in T /\ n < night[b]
                              THEN R \subseteq stored[n] ELSE stored[n] \intersect R = {}
        /\ pc[b] = "done" => \A n \in T : R \subseteq stored[n]
    BY DEF Put
  <2>2. \A n \in Night : /\ R \subseteq stored[n] => R \subseteq stored'[n]
                         /\ stored[n] \intersect R = {} => stored'[n] \intersect R = {}
    BY <1>3
  <2>3. R' = R /\ T' = T  BY DEF RoomsOf, Stay
  <2> HIDE DEF R, T
  <2>4. T \subseteq Night  BY <1>2 DEF T
  <2>5. /\ pc'[b] \in {"idle", "check", "mongo", "set", "refused"} =>
             \A n \in Night : stored'[n] \intersect R = {}
        /\ pc'[b] = "insert" =>
             \A n \in Night : IF n \in T /\ n < night'[b]
                              THEN R \subseteq stored'[n] ELSE stored'[n] \intersect R = {}
        /\ pc'[b] = "done" => \A n \in T : R \subseteq stored'[n]
    BY <2>1, <2>2, <2>4
  <2> QED  BY <2>3, <2>5 DEF Put, R, T
<1> QED  BY <1>1, <1>4

LEMMA CountedBase ==
  ASSUME Base, TypeOK', NEW c \in Call, CountCached(c) \/ CountStored(c) \/ CountsNothing(c)
  PROVE Base'
<1> USE DEF Base, TypeOK
<1>1. PICK k \in Nat : Counted(c, k) /\ pc[c] \in {"check", "mongo"} /\ UNCHANGED stored
  BY CountingIs
<1>2. ASSUME NEW b \in Call \ {c} PROVE Place(b)' /\ Put(b)'
  <2>1. pc'[b] = pc[b] /\ night'[b] = night[b] /\ unset'[b] = unset[b]  BY <1>1, CountedIs
  <2> QED  BY <1>1, <2>1, Elsewhere
<1>3. First[c] <= night[c] /\ night[c] <= Last[c]
      /\ \A n \in Night : stored[n] \intersect RoomsOf(c) = {}
  BY <1>1 DEF Place, Put
<1>4. night[c] \in Nat /\ First[c] \in Nat /\ Last[c] \in Nat  BY StayIs
<1>5. /\ pc'[c] \in {"check", "set", "refused"}
      /\ First[c] <= night'[c] /\ night'[c] <= Last[c]
      /\ pc'[c] = "set" => night'[c] = First[c] /\ unset'[c] = Stay(c)
  BY <1>1, <1>3, <1>4, CountedIs
<1>6. Place(c)' /\ Put(c)'  BY <1>1, <1>3, <1>5 DEF Place, Put, RoomsOf, Stay
<1> QED  BY <1>1, <1>2, <1>6

LEMMA SettingBase ==
  ASSUME Base, TypeOK', NEW c \in Call, SetCount(c) \/ SetFails(c)
  PROVE Base'
<1> USE DEF Base
<1>1. /\ UNCHANGED <<night, stored>>
      /\ pc[c] = "set"
      /\ \A b \in Call \ {c} : pc'[b] = pc[b] /\ unset'[b] = unset[b]
  BY SettingIs
<1>2. unset'[c] \subseteq unset[c] /\ pc'[c] \in {"set", "insert"}
  BY SettingIs
<1>3. ASSUME NEW b \in Call \ {c} PROVE Place(b)' /\ Put(b)'  BY <1>1, Elsewhere
<1>4. /\ First[c] <= night[c] /\ night[c] <= Last[c] /\ night[c] = First[c]
      /\ unset[c] \subseteq Stay(c)
      /\ \A n \in Night : stored[n] \intersect RoomsOf(c) = {}
  BY <1>1 DEF Place, Put
<1>5. Place(c)'  BY <1>1, <1>2, <1>4 DEF Place, Stay
<1>6. \A n \in Night : ~(n \in Stay(c) /\ n < night[c])
  BY <1>4, StayIs
<1>7. Put(c)'
  <2> DEFINE R == RoomsOf(c)
             T == Stay(c)
  <2>1. R' = R /\ T' = T  BY DEF RoomsOf, Stay
  <2> HIDE DEF R, T
  <2>2. /\ \A n \in Night : stored'[n] \intersect R = {}
        /\ \A n \in Night : ~(n \in T /\ n < night'[c])
    BY <1>1, <1>4, <1>6 DEF R, T
  <2> QED  BY <1>2, <2>1, <2>2 DEF Put, R, T
<1> QED  BY <1>1, <1>3, <1>5, <1>7

\* The rooms of call c are inserted for a night; those of others stay as they are.
LEMMA InsertedElsewhere ==
  ASSUME Base, NEW c \in Call, pc[c] = "insert", stored' = Inserted(c), NEW b \in Call \ {c}
  PROVE \A n \in Night : stored'[n] \intersect RoomsOf(b) = stored[n] \intersect RoomsOf(b)
<1>1. RoomsOf(c) \intersect RoomsOf(b) = {}  BY RoomsAre
<1> QED  BY <1>1, InsertedIs

LEMMA InsertBase ==
  ASSUME Base, TypeOK', NEW c \in Call, Insert(c)
  PROVE Base'
<1> USE DEF Base, TypeOK
<1>1. pc[c] = "insert" /\ stored' = Inserted(c) /\ UNCHANGED unset  BY DEF Insert
<1>2. ASSUME NEW b \in Call \ {c} PROVE Place(b)' /\ Put(b)'
  <2>1. pc'[b] = pc[b] /\ night'[b] = night[b]  BY DEF Insert
  <2> QED  BY <1>1, <2>1, InsertedElsewhere, Elsewhere
<1> DEFINE R == RoomsOf(c)
           T == Stay(c)
<1>3. R' = R /\ T' = T  BY DEF RoomsOf, Stay
<1>4. \A n \in Night : n \in T <=> First[c] <= n /\ n <= Last[c]  BY StayIs
<1>5. /\ \A n \in Night : IF n \in T /\ n < night[c]
                          THEN R \subseteq stored[n] ELSE stored[n] \intersect R = {}
      /\ First[c] <= night[c] /\ night[c] <= Last[c]
  BY <1>1 DEF Put, Place
<1>6. /\ \A n \in Night : stored'[n] = IF n = night[c] THEN stored[n] \union R ELSE stored[n]
      /\ stored' \in [Night -> SUBSET Beds]
      /\ night[c] \in T
  BY <1>1, InsertedIs
<1>7. /\ First[c] \in Nat /\ Last[c] \in Nat /\ night[c] \in Night /\ night[c] \in Nat
      /\ T \subseteq Night /\ \A n \in Night : n \in Nat
  BY StayIs
<1> HIDE DEF R, T
<1>8. CASE night[c] < Last[c]
  <2>1. pc'[c] = "insert" /\ night'[c] = night[c] + 1  BY <1>1, <1>7, <1>8 DEF Insert
  <2>2. Place(c)'  BY <1>5, <1>7, <1>8, <2>1 DEF Place
  <2>3. ASSUME NEW n \in Night
        PROVE IF n \in T /\ n < night'[c] THEN R \subseteq stored'[n] ELSE stored'[n] \intersect R = {}
    <3>1. CASE n = night[c]  BY <1>6, <1>7, <2>1, <3>1
    <3>2. CASE n # night[c]
      <4>1. n \in Nat /\ night[c] \in Nat /\ night'[c] = night[c] + 1  BY <1>7, <2>1
      <4>2. n < night[c] + 1 <=> n < night[c]  BY <3>2, <4>1, Before
      <4>3. n < night'[c] <=> n < night[c]  BY <4>1, <4>2
      <4>4. stored'[n] = stored[n]  BY <1>6, <3>2
      <4> QED  BY <1>5, <4>3, <4>4
    <3> QED  BY <3>1, <3>2
  <2>4. Put(c)'  BY <1>3, <2>1, <2>3 DEF Put, R, T
  <2> QED  BY <1>2, <1>6, <2>2, <2>4
<1>9. CASE night[c] = Last[c]
  <2>1. pc'[c] = "done" /\ night'[c] = night[c]  BY <1>1, <1>7, <1>9 DEF Insert
  <2>2. Place(c)'  BY <2>1 DEF Place
  <2>3. ASSUME NEW n \in T PROVE R \subseteq stored'[n]
    <3>1. CASE n = night[c]  BY <1>6, <1>7, <3>1
    <3>2. CASE n # night[c]
      <4>1. n \in Night /\ n \in Nat /\ n <= night[c] /\ night[c] \in Nat
        BY <1>4, <1>7, <1>9
      <4>2. n < night[c]  BY <3>2, <4>1, Before
      <4> QED  BY <1>5, <1>6, <3>2, <4>1, <4>2
    <3> QED  BY <3>1, <3>2
  <2>4. Put(c)'  BY <1>3, <2>1, <2>3 DEF Put, R, T
  <2> QED  BY <1>2, <1>6, <2>2, <2>4
<1> QED  BY <1>8, <1>9 DEF Insert

\* A call that was not active keeps its rooms through a crash.
LEMMA CrashBase ==
  ASSUME Base, TypeOK', Crash,
         stored' = stored \/ \E c \in Call : pc[c] = "insert" /\ stored' = Inserted(c)
  PROVE Base'
<1> USE DEF Base
<1>1. stored' \in [Night -> SUBSET Beds]  BY InsertedIs
<1>2. ASSUME NEW b \in Call PROVE Place(b)' /\ Put(b)'
  <2>1. CASE Active(b)
    <3>1. pc'[b] = "dead"  BY <2>1, CrashIs
    <3> QED  BY <3>1 DEF Place, Put
  <2>2. CASE ~Active(b)
    <3>1. pc'[b] = pc[b] /\ night'[b] = night[b] /\ unset'[b] = unset[b]
      BY <2>2, CrashIs
    <3>2. \A n \in Night : stored'[n] \intersect RoomsOf(b) = stored[n] \intersect RoomsOf(b)
      <4>1. ASSUME NEW c \in Call, pc[c] = "insert", stored' = Inserted(c)
            PROVE \A n \in Night :
                    stored'[n] \intersect RoomsOf(b) = stored[n] \intersect RoomsOf(b)
        <5>1. b # c  BY <2>2, <4>1 DEF Active
        <5> QED  BY <4>1, <5>1, InsertedElsewhere
      <4> QED  BY <4>1
    <3> QED  BY <3>1, <3>2, Elsewhere
  <2> QED  BY <2>1, <2>2
<1> QED  BY <1>1, <1>2

LEMMA BaseKept ==
  ASSUME Base, [Next]_vars
  PROVE Base'
<1> USE DEF dataVars, askVars, boundVars
<1>1. TypeOK'  BY TypeKept
<1>2. ASSUME UNCHANGED <<night, unset, stored>>,
             \A b \in Call : pc'[b] = pc[b]
      PROVE Base'
  <2>1. \A b \in Call : Place(b)' /\ Put(b)'  BY <1>2, Elsewhere DEF Base
  <2> QED  BY <1>1, <1>2, <2>1 DEF Base
<1>3. CASE UNCHANGED vars  BY <1>2, <1>3 DEF vars
<1>4. ASSUME NEW c \in Call, Begin(c) \/ CacheMisses(c) PROVE Base'
  <2>1. UNCHANGED <<night, unset, stored>>  BY <1>4 DEF Begin, CacheMisses
  <2>2. \A b \in Call \ {c} : pc'[b] = pc[b]
    BY <1>4 DEF Begin, CacheMisses, Base, TypeOK
  <2>3. \A b \in Call \ {c} : Place(b)' /\ Put(b)'  BY <2>1, <2>2, Elsewhere DEF Base
  <2>4. \A n \in Night : stored'[n] \intersect RoomsOf(c) = {}
    BY <1>4, <2>1 DEF Begin, CacheMisses, Base, Put
  <2>5. CASE Begin(c)
    <3>1. pc[c] = "idle" /\ night[c] = First[c]  BY <2>5 DEF Begin, Base, Place
    <3>2. pc'[c] = IF Stay(c) = {} THEN "done" ELSE "check"  BY <2>5 DEF Begin, Base, TypeOK
    <3>3. Stay(c) # {} => First[c] <= Last[c]
      BY StayIs DEF Stay
    <3>4. First[c] \in Nat /\ Stay(c)' = Stay(c) /\ RoomsOf(c)' = RoomsOf(c)
      BY StayIs DEF Stay, RoomsOf
    <3>5. Place(c)'  BY <2>1, <3>1, <3>2, <3>3, <3>4 DEF Place
    <3>6. Put(c)'
      <4>1. CASE Stay(c) = {}  BY <3>2, <3>4, <4>1 DEF Put
      <4>2. CASE Stay(c) # {}
        <5>1. pc'[c] = "check"  BY <3>2, <4>2
        <5> QED  BY <2>4, <5>1 DEF Put, RoomsOf
      <4> QED  BY <4>1, <4>2
    <3> QED  BY <1>1, <2>1, <2>3, <3>5, <3>6 DEF Base
  <2>6. CASE CacheMisses(c)
    <3>1. pc'[c] = "mongo" /\ pc[c] = "check"  BY <2>6 DEF CacheMisses, Base, TypeOK
    <3>2. Place(c)'  BY <2>1, <3>1 DEF Base, Place
    <3>3. Put(c)'  BY <2>4, <3>1 DEF Put, RoomsOf
    <3> QED  BY <1>1, <2>1, <2>3, <3>2, <3>3 DEF Base
  <2> QED  BY <1>4, <2>5, <2>6
<1>5. ASSUME NEW c \in Call, CountCached(c) \/ CountStored(c) \/ CountsNothing(c) PROVE Base'
  BY <1>1, <1>5, CountedBase
<1>6. ASSUME NEW c \in Call, SetCount(c) \/ SetFails(c) PROVE Base'  BY <1>1, <1>6, SettingBase
<1>7. ASSUME NEW c \in Call, Insert(c) PROVE Base'  BY <1>1, <1>7, InsertBase
<1>8. ASSUME NEW c \in Call, Panic(c) PROVE Base'  BY <1>1, <1>8, CrashBase DEF Panic
<1>9. CASE CheckPanics  BY <1>1, <1>9, CrashBase DEF CheckPanics
<1>10. ASSUME NEW q \in Query, CheckAvailability(q) PROVE Base'
  BY <1>2, <1>10 DEF CheckAvailability
<1>11. ASSUME NEW n \in Night, Evict(n) PROVE Base'  BY <1>2, <1>11 DEF Evict
<1> QED  BY <1>3, <1>4, <1>5, <1>6, <1>7, <1>8, <1>9, <1>10, <1>11 DEF Next, CallStep

-----------------------------------------------------------------------------
(* No phantoms *)

LEMMA TakenIs ==
  ASSUME Base, NEW n \in Night
  PROVE /\ Promised(n) \subseteq Beds /\ stored[n] \subseteq Promised(n)
        /\ Taken(n) \in Nat /\ Booked(n) \in Nat /\ Booked(n) <= Taken(n)
<1>1. stored[n] \subseteq Beds  BY DEF Base
<1>2. Promised(n) \subseteq Beds /\ stored[n] \subseteq Promised(n)
  BY <1>1, RoomsAre DEF Promised
<1>3. IsFiniteSet(Promised(n)) /\ Taken(n) \in Nat /\ Booked(n) \in Nat
  BY <1>1, <1>2, BedsFinite DEF Taken, Booked
<1>4. Booked(n) <= Taken(n)  BY <1>2, <1>3, FS_Subset DEF Taken, Booked
<1> QED  BY <1>2, <1>3, <1>4

LEMMA TakenTyped ==
  Base => \A n \in Night : Promised(n) \subseteq Beds /\ Taken(n) \in Nat
BY TakenIs

LEMMA TakenTypedNext ==
  Base' => \A n \in Night : Promised(n)' \subseteq Beds /\ Taken(n)' \in Nat
<1>1. Base' => (\A n \in Night : Promised(n) \subseteq Beds /\ Taken(n) \in Nat)'
  BY TakenTyped, PTL
<1> QED  BY <1>1 DEF Beds, RoomsOf

\* What is promised is kept or inserted.
LEMMA PromisedGrows ==
  ASSUME NEW n \in Night, stored[n] \subseteq stored'[n],
         \A b \in Call : Promises(b, n) => Promises(b, n)' \/ RoomsOf(b) \subseteq stored'[n]
  PROVE Promised(n) \subseteq Promised(n)'
<1>1. ASSUME NEW b \in Call, Promises(b, n) PROVE RoomsOf(b) \subseteq Promised(n)'
  <2>1. CASE Promises(b, n)'
    <3>1. RoomsOf(b)' \subseteq Promised(n)'  BY <2>1 DEF Promised
    <3>2. RoomsOf(b)' = RoomsOf(b)  BY DEF RoomsOf
    <3> QED  BY <3>1, <3>2
  <2>2. CASE RoomsOf(b) \subseteq stored'[n]  BY <2>2 DEF Promised
  <2> QED  BY <1>1, <2>1, <2>2
<1>2. stored[n] \subseteq Promised(n)'  BY DEF Promised
<1> QED  BY <1>1, <1>2 DEF Promised

LEMMA Grows ==
  ASSUME Base, [Next]_vars, ~crashed', NEW n \in Night
  PROVE Promised(n) \subseteq Promised(n)'
<1> USE DEF Base, TypeOK, dataVars, askVars, boundVars
<1>1. ASSUME stored' = stored,
             \A b \in Call : Promises(b, n) => Promises(b, n)'
      PROVE Promised(n) \subseteq Promised(n)'
  BY <1>1, PromisedGrows
<1>2. ASSUME NEW b \in Call, pc'[b] = pc[b], night'[b] = night[b]
      PROVE Promises(b, n) => Promises(b, n)'
  BY <1>2 DEF Promises, Stay
<1>3. ASSUME NEW b \in Call, pc[b] \notin {"set", "insert"}
      PROVE Promises(b, n) => Promises(b, n)'
  BY <1>3 DEF Promises
<1>4. CASE UNCHANGED vars  BY <1>1, <1>2, <1>4 DEF vars
<1>5. ASSUME NEW c \in Call, Begin(c) \/ CacheMisses(c)
      PROVE Promised(n) \subseteq Promised(n)'
  <2>1. /\ pc[c] \notin {"set", "insert"} /\ stored' = stored
        /\ \A b \in Call \ {c} : pc'[b] = pc[b] /\ night'[b] = night[b]
    BY <1>5 DEF Begin, CacheMisses
  <2> QED  BY <1>1, <1>2, <1>3, <2>1
<1>6. ASSUME NEW c \in Call, CountCached(c) \/ CountStored(c) \/ CountsNothing(c)
      PROVE Promised(n) \subseteq Promised(n)'
  <2>1. PICK k \in Nat : Counted(c, k) /\ pc[c] \in {"check", "mongo"} /\ stored' = stored
    BY <1>6, CountingIs
  <2>2. \A b \in Call \ {c} : pc'[b] = pc[b] /\ night'[b] = night[b]  BY <2>1, CountedIs
  <2> QED  BY <1>1, <1>2, <1>3, <2>1, <2>2
<1>7. ASSUME NEW c \in Call, SetCount(c) \/ SetFails(c)
      PROVE Promised(n) \subseteq Promised(n)'
  <2>1. /\ UNCHANGED <<night, stored>> /\ pc[c] = "set" /\ pc'[c] \in {"set", "insert"}
        /\ \A b \in Call \ {c} : pc'[b] = pc[b]
    BY <1>7, SettingIs
  <2>2. night[c] = First[c]  BY <2>1 DEF Place
  <2>3. Promises(c, n) => Promises(c, n)'  BY <2>1, <2>2 DEF Promises, Stay
  <2> QED  BY <1>1, <1>2, <2>1, <2>3
<1>8. ASSUME NEW c \in Call, Insert(c)
      PROVE Promised(n) \subseteq Promised(n)'
  <2>1. pc[c] = "insert" /\ stored' = Inserted(c)  BY <1>8 DEF Insert
  <2>2. stored'[n] = IF n = night[c] THEN stored[n] \union RoomsOf(c) ELSE stored[n]
    BY <2>1, InsertedIs
  <2>3. ASSUME NEW b \in Call, Promises(b, n)
        PROVE Promises(b, n)' \/ RoomsOf(b) \subseteq stored'[n]
    <3>1. CASE b # c
      <4>1. pc'[b] = pc[b] /\ night'[b] = night[b]  BY <1>8, <3>1 DEF Insert
      <4> QED  BY <1>2, <2>3, <4>1
    <3>2. CASE b = c /\ n = night[c]  BY <2>2, <3>2
    <3>3. CASE b = c /\ n # night[c]
      <4>1. /\ night[c] \in Nat /\ Last[c] \in Nat /\ n \in Nat
            /\ night[c] <= n /\ n <= Last[c]
        BY <2>1, <2>3, <3>3, StayIs DEF Promises
      <4>2. night[c] < Last[c] /\ night[c] + 1 <= n  BY <3>3, <4>1
      <4>3. pc'[c] = "insert" /\ night'[c] = night[c] + 1  BY <1>8, <2>1, <4>1, <4>2 DEF Insert
      <4> QED  BY <3>3, <4>1, <4>2, <4>3 DEF Promises
    <3> QED  BY <3>1, <3>2, <3>3
  <2>4. stored[n] \subseteq stored'[n]  BY <2>2
  <2> QED  BY <2>3, <2>4, PromisedGrows
<1>9. ASSUME NEW q \in Query, CheckAvailability(q)
      PROVE Promised(n) \subseteq Promised(n)'
  BY <1>1, <1>2, <1>9 DEF CheckAvailability
<1>10. ASSUME NEW m \in Night, Evict(m)
      PROVE Promised(n) \subseteq Promised(n)'
  BY <1>1, <1>2, <1>10 DEF Evict
<1>11. ~Crash  BY DEF Crash
<1> QED
  BY <1>4, <1>5, <1>6, <1>7, <1>8, <1>9, <1>10, <1>11 DEF Next, CallStep, Panic, CheckPanics

\* A call stays modest while it is where it is, since Taken only grows.
LEMMA ModestElsewhere ==
  ASSUME NEW b \in Call, Base, Base', Modest(b),
         \A n \in Night : Taken(n) <= Taken(n)',
         pc'[b] = pc[b], night'[b] = night[b], unset'[b] \subseteq unset[b], plan'[b] = plan[b]
  PROVE Modest(b)'
<1> DEFINE t[n \in Night] == Taken(n)
           u[n \in Night] == Taken(n)'
<1>1. /\ t \in [Night -> Nat] /\ u \in [Night -> Nat]
      /\ \A n \in Night : t[n] <= u[n] /\ t[n] = Taken(n) /\ u[n] = Taken(n)'
  <2>1. \A n \in Night : Taken(n) \in Nat /\ Taken(n)' \in Nat  BY TakenTyped, TakenTypedNext
  <2> QED  BY <2>1
<1> HIDE DEF t, u
<1>2. /\ plan[b] \in [Night -> Nat] /\ Rooms[b] \in Nat /\ Capacity \in Nat
      /\ night[b] \in Night /\ unset[b] \subseteq Night
  BY StayIs, HotelAssumption DEF Base, TypeOK
<1>3. /\ pc[b] \in {"check", "mongo"} =>
           \A n \in Night : First[b] <= n /\ n < night[b] => plan[b][n] <= t[n] + Rooms[b]
      /\ pc[b] = "set" => \A n \in unset[b] : plan[b][n] <= t[n]
      /\ pc[b] = "refused" => t[night[b]] + Rooms[b] > Capacity
  BY <1>1, <1>2 DEF Modest
<1>4. \A n \in Night : /\ plan[b][n] <= t[n] + Rooms[b] => plan[b][n] <= u[n] + Rooms[b]
                       /\ plan[b][n] <= t[n] => plan[b][n] <= u[n]
                       /\ t[n] + Rooms[b] > Capacity => u[n] + Rooms[b] > Capacity
  <2> TAKE n \in Night
  <2>1. plan[b][n] \in Nat /\ t[n] \in Nat /\ u[n] \in Nat /\ t[n] <= u[n]  BY <1>1, <1>2
  <2> QED  BY <1>2, <2>1
<1>5. /\ pc'[b] \in {"check", "mongo"} =>
           \A n \in Night : First[b] <= n /\ n < night'[b] => plan'[b][n] <= u[n] + Rooms[b]
      /\ pc'[b] = "set" => \A n \in unset'[b] : plan'[b][n] <= u[n]
      /\ pc'[b] = "refused" => u[night'[b]] + Rooms[b] > Capacity
  BY <1>2, <1>3, <1>4
<1> QED  BY <1>1, <1>2, <1>5 DEF Modest

LEMMA TakenGrows ==
  ASSUME Base, Base', [Next]_vars, ~crashed', NEW n \in Night
  PROVE Taken(n) \in Nat /\ Taken(n)' \in Nat /\ Taken(n) <= Taken(n)'
<1>1. Promised(n) \subseteq Promised(n)'  BY Grows
<1>2. Promised(n)' \subseteq Beds /\ Taken(n) \in Nat  BY TakenTyped, TakenTypedNext
<1>3. IsFiniteSet(Promised(n)') /\ Taken(n)' \in Nat  BY <1>2, BedsFinite DEF Taken
<1> QED  BY <1>1, <1>2, <1>3, FS_Subset DEF Taken

\* The call that passes its last night promises rooms that nobody has promised.
LEMMA PromiseIsNew ==
  ASSUME Base, Base', NEW c \in Call, pc[c] \in {"check", "mongo"}, pc'[c] = "set",
         NEW n \in Stay(c), Promised(n) \subseteq Promised(n)'
  PROVE Taken(n) + Rooms[c] <= Taken(n)'
<1> DEFINE R == RoomsOf(c)
<1>1. n \in Night /\ Promised(n) \in SUBSET Beds  BY StayIs, TakenIs
<1>2. stored[n] \intersect R = {}  BY <1>1 DEF Base, Put
<1>3. ~Promises(c, n)  BY DEF Promises
<1>4. \A b \in Call : Promises(b, n) => RoomsOf(b) \intersect R = {}  BY <1>3, RoomsAre
<1>5. Promised(n) \intersect R = {}  BY <1>2, <1>4 DEF Promised
<1>6. Cardinality(Promised(n) \union R) = Taken(n) + Rooms[c]
  BY <1>1, <1>5, AddRooms DEF Taken
<1>7. R' \subseteq Promised(n)' /\ R' = R
  BY DEF Promised, Promises, Stay, RoomsOf
<1>8. Promised(n) \union R \subseteq Promised(n)'  BY <1>7
<1>9. Promised(n)' \subseteq Beds  BY <1>1, TakenTypedNext
<1>10. IsFiniteSet(Promised(n)')  BY <1>9, BedsFinite
<1> QED  BY <1>6, <1>8, <1>10, FS_Subset DEF Taken

LEMMA CountedModest ==
  ASSUME Base, Base', NoPhantoms, [Next]_vars, ~crashed', NEW c \in Call,
         CountCached(c) \/ CountStored(c) \/ CountsNothing(c)
  PROVE NoPhantoms'
<1>1. PICK k \in Nat :
        /\ Counted(c, k)
        /\ pc[c] \in {"check", "mongo"}
        /\ \/ k = cached[night[c]] /\ cached[night[c]] # Missing
           \/ k = Booked(night[c]) \/ k = 0
        /\ UNCHANGED <<cached, stored>>
  BY CountingIs
<1>2. \A n \in Night : /\ Taken(n) \in Nat /\ Taken(n)' \in Nat /\ Taken(n) <= Taken(n)'
                       /\ Promised(n) \subseteq Promised(n)'
  BY TakenGrows, Grows
<1>3. /\ night[c] \in Night /\ Rooms[c] \in Nat /\ Capacity \in Nat /\ plan[c] \in [Night -> Nat]
      /\ night[c] \in Nat /\ First[c] \in Nat /\ Last[c] \in Nat
      /\ \A n \in Night : n \in Nat
  BY StayIs, HotelAssumption DEF Base, TypeOK
<1>4. k <= Taken(night[c])  BY <1>1, <1>2, <1>3, TakenIs DEF NoPhantoms
<1>5. /\ \A b \in Call, n \in Night :
           plan'[b][n] = IF b = c /\ n = night[c] THEN k + Rooms[c] ELSE plan[b][n]
      /\ plan' \in [Call -> [Night -> Nat]]
      /\ \A b \in Call \ {c} : pc'[b] = pc[b] /\ night'[b] = night[b] /\ unset'[b] = unset[b]
  BY <1>1, CountedIs DEF Base
<1>6. ASSUME NEW b \in Call \ {c} PROVE Modest(b)'
  <2>1. plan'[b] = plan[b]
    <3>1. plan[b] \in [Night -> Nat] /\ plan'[b] \in [Night -> Nat]  BY <1>5 DEF Base, TypeOK
    <3>2. \A n \in Night : plan'[b][n] = plan[b][n]  BY <1>5
    <3> QED  BY <3>1, <3>2
  <2> QED  BY <1>2, <1>5, <2>1, ModestElsewhere DEF NoPhantoms
<1>7. ASSUME NEW n \in Night, First[c] <= n, n <= night[c]
      PROVE plan'[c][n] <= Taken(n) + Rooms[c]
  <2>1. CASE n = night[c]  BY <1>2, <1>3, <1>4, <1>5, <2>1
  <2>2. CASE n # night[c]
    <3>1. n < night[c]  BY <1>3, <1>7, <2>2, Before
    <3>2. plan[c][n] <= Taken(n) + Rooms[c]  BY <1>1, <1>7, <3>1 DEF NoPhantoms, Modest
    <3> QED  BY <1>5, <2>2, <3>2
  <2> QED  BY <2>1, <2>2
<1>8. Modest(c)'
  <2>1. CASE k + Rooms[c] > Capacity /\ pc'[c] = "refused" /\ night'[c] = night[c]
    <3>1. PICK m \in Night : m = night[c]  BY <1>3
    <3>2. k <= Taken(m)  BY <1>4, <3>1
    <3>3. Taken(m)' + Rooms[c] > Capacity  BY <1>2, <1>3, <2>1, <3>2
    <3>4. night'[c] = m  BY <2>1, <3>1
    <3> QED  BY <2>1, <3>3, <3>4 DEF Modest, Taken, Promised, Promises
  <2>2. CASE pc'[c] = "check" /\ night'[c] = night[c] + 1
    <3>1. ASSUME NEW n \in Night, First[c] <= n, n < night'[c]
          PROVE plan'[c][n] <= Taken(n)' + Rooms[c]
      <4>1. n <= night[c]  BY <1>3, <2>2, <3>1
      <4>2. plan'[c][n] <= Taken(n) + Rooms[c]  BY <1>7, <3>1, <4>1
      <4>3. plan'[c][n] \in Nat  BY <1>5
      <4> QED  BY <1>2, <1>3, <4>2, <4>3
    <3> QED  BY <2>2, <3>1 DEF Modest
  <2>3. CASE night[c] = Last[c] /\ pc'[c] = "set" /\ unset'[c] = Stay(c)
    <3>1. ASSUME NEW n \in Stay(c) PROVE plan'[c][n] <= Taken(n)'
      <4>1. n \in Night /\ First[c] <= n /\ n <= night[c]  BY <2>3, StayIs
      <4>2. plan'[c][n] <= Taken(n) + Rooms[c]  BY <1>7, <4>1
      <4>3. Taken(n) + Rooms[c] <= Taken(n)'  BY <1>1, <1>2, <2>3, <4>1, PromiseIsNew
      <4>4. plan'[c][n] \in Nat  BY <1>5, <4>1
      <4> QED  BY <1>2, <1>3, <4>1, <4>2, <4>3, <4>4
    <3> QED  BY <2>3, <3>1 DEF Modest
  <2> QED  BY <1>1, <2>1, <2>2, <2>3, CountedIs DEF Base
<1>9. ASSUME NEW n \in Night, cached'[n] # Missing PROVE cached'[n] <= Taken(n)'
  <2>1. cached'[n] = cached[n] /\ cached[n] \in Nat  BY <1>1, <1>9 DEF Base, TypeOK
  <2>2. cached[n] <= Taken(n)  BY <1>9, <2>1 DEF NoPhantoms
  <2> QED  BY <1>2, <2>1, <2>2
<1> QED  BY <1>6, <1>8, <1>9 DEF NoPhantoms

LEMMA PhantomsKept ==
  ASSUME Base, Base', NoPhantoms, [Next]_vars, ~crashed'
  PROVE NoPhantoms'
<1> USE DEF dataVars, askVars, boundVars
<1>1. \A n \in Night : Taken(n) \in Nat /\ Taken(n)' \in Nat /\ Taken(n) <= Taken(n)'
  BY TakenGrows
<1>2. ASSUME NEW n \in Night, cached'[n] \in {cached[n], Missing}, cached'[n] # Missing
      PROVE cached'[n] <= Taken(n)'
  <2>1. cached[n] \in Nat /\ cached[n] <= Taken(n)  BY <1>2 DEF Base, TypeOK, NoPhantoms
  <2> QED  BY <1>1, <1>2, <2>1
<1>3. ASSUME NEW b \in Call, pc'[b] = pc[b], night'[b] = night[b], unset'[b] = unset[b],
             plan'[b] = plan[b]
      PROVE Modest(b)'
  BY <1>1, <1>3, ModestElsewhere DEF NoPhantoms
<1>4. ASSUME NEW b \in Call, pc'[b] \notin {"check", "mongo", "set", "refused"} PROVE Modest(b)'
  BY <1>4 DEF Modest
<1>5. CASE UNCHANGED vars  BY <1>2, <1>3, <1>5 DEF NoPhantoms, vars
<1>6. ASSUME NEW c \in Call, Begin(c) \/ CacheMisses(c) PROVE NoPhantoms'
  <2>1. /\ UNCHANGED <<night, plan, unset, cached>>
        /\ \A b \in Call \ {c} : pc'[b] = pc[b]
    BY <1>6 DEF Begin, CacheMisses, Base, TypeOK
  <2>2. Modest(c)'
    <3>1. CASE Begin(c)
      <4>1. pc'[c] \in {"check", "done"} /\ night[c] = First[c]
        BY <3>1 DEF Begin, Base, TypeOK, Place
      <4>2. \A n \in Night : ~(First[c] <= n /\ n < night[c])
        BY <4>1, StayIs
      <4> QED  BY <2>1, <4>1, <4>2 DEF Modest
    <3>2. CASE CacheMisses(c)
      <4>1. pc[c] = "check" /\ pc'[c] = "mongo"  BY <3>2 DEF CacheMisses, Base, TypeOK
      <4>2. \A n \in Night : First[c] <= n /\ n < night[c] => plan[c][n] <= Taken(n) + Rooms[c]
        BY <4>1 DEF NoPhantoms, Modest
      <4>3. plan[c] \in [Night -> Nat] /\ Rooms[c] \in Nat  BY StayIs DEF Base, TypeOK
      <4>4. \A n \in Night : First[c] <= n /\ n < night[c] => plan[c][n] <= Taken(n)' + Rooms[c]
        <5> TAKE n \in Night
        <5>1. plan[c][n] \in Nat  BY <4>3
        <5> QED  BY <1>1, <4>2, <4>3, <5>1
      <4> QED  BY <2>1, <4>1, <4>4 DEF Modest
    <3> QED  BY <1>6, <3>1, <3>2
  <2> QED  BY <1>2, <1>3, <2>1, <2>2 DEF NoPhantoms
<1>7. ASSUME NEW c \in Call, CountCached(c) \/ CountStored(c) \/ CountsNothing(c)
      PROVE NoPhantoms'
  BY <1>7, CountedModest
<1>8. ASSUME NEW c \in Call, SetCount(c) \/ SetFails(c) PROVE NoPhantoms'
  <2>1. /\ UNCHANGED <<night, plan>> /\ pc[c] = "set" /\ pc'[c] \in {"set", "insert"}
        /\ \A b \in Call \ {c} : pc'[b] = pc[b] /\ unset'[b] = unset[b]
        /\ unset'[c] \subseteq unset[c]
    BY <1>8, SettingIs DEF Base
  <2>2. PICK m \in unset[c] : m \in Night /\ cached' \in {[cached EXCEPT ![m] = plan[c][m]], cached}
    BY <1>8, SettingIs DEF Base
  <2>3. ASSUME NEW n \in Night, cached'[n] # Missing PROVE cached'[n] <= Taken(n)'
    <3>1. CASE cached'[n] = cached[n]  BY <1>2, <2>3, <3>1
    <3>2. CASE n = m /\ cached'[n] = plan[c][m]
      <4>1. plan[c][m] <= Taken(m) /\ plan[c][m] \in Nat
        BY <2>1, <2>2 DEF NoPhantoms, Modest, Base, TypeOK
      <4> QED  BY <1>1, <3>2, <4>1
    <3> QED  BY <2>2, <3>1, <3>2 DEF Base, TypeOK
  <2>4. Modest(c)'
    <3>1. CASE pc'[c] = "set"  BY <1>1, <2>1, <3>1, ModestElsewhere DEF NoPhantoms
    <3>2. CASE pc'[c] = "insert"  BY <1>4, <3>2
    <3> QED  BY <2>1, <3>1, <3>2
  <2> QED  BY <1>3, <2>1, <2>3, <2>4 DEF NoPhantoms
<1>9. ASSUME NEW c \in Call, Insert(c) PROVE NoPhantoms'
  <2>1. /\ UNCHANGED <<plan, unset, cached>> /\ pc[c] = "insert" /\ pc'[c] \in {"insert", "done"}
        /\ \A b \in Call \ {c} : pc'[b] = pc[b] /\ night'[b] = night[b]
    BY <1>9 DEF Insert, Base, TypeOK
  <2> QED  BY <1>2, <1>3, <1>4, <2>1 DEF NoPhantoms
<1>10. ASSUME NEW q \in Query, CheckAvailability(q) PROVE NoPhantoms'
  BY <1>2, <1>3, <1>10 DEF NoPhantoms, CheckAvailability
<1>11. ASSUME NEW m \in Night, Evict(m) PROVE NoPhantoms'
  <2>1. \A n \in Night : cached'[n] \in {cached[n], Missing}  BY <1>11 DEF Evict, Base, TypeOK
  <2> QED  BY <1>2, <1>3, <1>11, <2>1 DEF NoPhantoms, Evict
<1>12. ~Crash  BY DEF Crash
<1> QED
  BY <1>5, <1>6, <1>7, <1>8, <1>9, <1>10, <1>11, <1>12 DEF Next, CallStep, Panic, CheckPanics

-----------------------------------------------------------------------------
(* Enough *)

LEMMA CarefulElsewhere ==
  ASSUME NEW b \in Call, NEW n \in Night, Careful(b, n),
         pc'[b] = pc[b], night'[b] = night[b], unset'[b] = unset[b], plan'[b][n] = plan[b][n],
         stored'[n] = stored[n], cached'[n] \in {cached[n], Missing}
  PROVE Careful(b, n)'
<1>1. Booked(n)' = Booked(n)  BY DEF Booked
<1>2. Planned(b, n)' <=> Planned(b, n)  BY DEF Planned
<1>3. Promises(b, n)' <=> Promises(b, n)  BY DEF Promises, Stay
<1> QED  BY <1>1, <1>2, <1>3 DEF Careful

\* Nothing is asked of a call that is not active or asks for other nights.
LEMMA CarefulApart ==
  ASSUME NEW b \in Call, NEW n \in Night, Place(b)', night'[b] \in Night,
         ~Active(b)' \/ n \notin Stay(b)
  PROVE Careful(b, n)'
<1>1. First[b] \in Nat /\ Last[b] \in Nat /\ n \in Nat /\ night'[b] \in Nat
      /\ (n \in Stay(b) <=> First[b] <= n /\ n <= Last[b])
  BY StayIs
<1>2. Stay(b)' = Stay(b)  BY DEF Stay
<1>3. ~Planned(b, n)'
  <2>1. CASE ~Active(b)'  BY <2>1 DEF Active, Planned
  <2>2. CASE n \notin Stay(b)  BY <1>1, <1>2, <2>2 DEF Planned, Place
  <2> QED  BY <2>1, <2>2
<1>4. ~Promises(b, n)'
  <2>1. CASE ~Active(b)'  BY <2>1 DEF Active, Promises
  <2>2. CASE n \notin Stay(b)  BY <1>1, <1>2, <2>2 DEF Promises, Place
  <2> QED  BY <2>1, <2>2
<1> QED  BY <1>3, <1>4 DEF Careful

\* The counts are as they were, or lost, and no call has become active.
LEMMA EnoughElsewhere ==
  ASSUME NEW n \in Night, Enough(n),
         stored'[n] = stored[n], cached'[n] \in {cached[n], Missing},
         \A b \in Call : Active(b)' => Active(b),
         \A b \in Call : Careful(b, n)'
  PROVE Enough(n)'
<1>1. Booked(n)' = Booked(n)  BY DEF Booked
<1>2. \A b \in Call : Stay(b)' = Stay(b)  BY DEF Stay
<1> QED  BY <1>1, <1>2 DEF Enough

LEMMA BookedIs ==
  ASSUME Base, NEW n \in Night
  PROVE Booked(n) \in Nat
BY TakenIs

LEMMA CountedEnough ==
  ASSUME Base, Base', NEW c \in Call, CountCached(c) \/ CountStored(c) \/ CountsNothing(c),
         NEW n \in Night \ disturbed', Enough(n)
  PROVE Enough(n)'
<1>1. PICK k \in Nat :
        /\ Counted(c, k)
        /\ pc[c] \in {"check", "mongo"}
        /\ \/ k = cached[night[c]] /\ cached[night[c]] # Missing
           \/ k = Booked(night[c])
           \/ night[c] \in disturbed'
        /\ UNCHANGED <<cached, stored>>
  BY CountingIs
<1>2. /\ night[c] \in Night /\ Rooms[c] \in Nat /\ Capacity \in Nat /\ plan[c] \in [Night -> Nat]
      /\ night[c] \in Nat /\ First[c] \in Nat /\ Last[c] \in Nat /\ n \in Nat
      /\ Booked(n) \in Nat
  BY StayIs, HotelAssumption, BookedIs DEF Base, TypeOK
<1>3. n = night[c] => Booked(n) <= k  BY <1>1, <1>2 DEF Enough
<1>4. /\ \A b \in Call, m \in Night :
           plan'[b][m] = IF b = c /\ m = night[c] THEN k + Rooms[c] ELSE plan[b][m]
      /\ \A b \in Call \ {c} : pc'[b] = pc[b] /\ night'[b] = night[b] /\ unset'[b] = unset[b]
      /\ pc'[c] \in {"refused", "check", "set"}
  BY <1>1, CountedIs DEF Base
<1>5. ASSUME NEW b \in Call \ {c} PROVE Careful(b, n)'
  BY <1>1, <1>4, CarefulElsewhere DEF Enough
<1>6. ASSUME k + Rooms[c] <= Capacity, First[c] <= n, n <= night[c]
      PROVE Booked(n) + Rooms[c] <= plan'[c][n] /\ plan'[c][n] <= Capacity
  <2>1. CASE n = night[c]  BY <1>2, <1>3, <1>4, <1>6, <2>1
  <2>2. CASE n # night[c]
    <3>1. n < night[c]  BY <1>2, <1>6, <2>2, Before
    <3>2. Planned(c, n)  BY <1>1, <1>6, <3>1 DEF Planned
    <3> QED  BY <1>4, <2>2, <3>2 DEF Enough, Careful
  <2> QED  BY <2>1, <2>2
<1>7. Booked(n)' = Booked(n)  BY <1>1 DEF Booked
<1>8. Careful(c, n)'
  <2>1. CASE pc'[c] = "refused"
    <3>1. ~Active(c)' /\ Place(c)' /\ night'[c] \in Night  BY <2>1 DEF Active, Base, TypeOK
    <3> QED  BY <3>1, CarefulApart
  <2>2. CASE k + Rooms[c] <= Capacity /\ pc'[c] = "check" /\ night'[c] = night[c] + 1
    <3>1. ASSUME Planned(c, n)'
          PROVE Booked(n) + Rooms[c] <= plan'[c][n] /\ plan'[c][n] <= Capacity
      <4>1. First[c] <= n /\ n < night[c] + 1  BY <2>2, <3>1 DEF Planned
      <4> QED  BY <1>2, <1>6, <2>2, <4>1
    <3>2. ~Promises(c, n)'  BY <2>2 DEF Promises
    <3> QED  BY <1>7, <3>1, <3>2 DEF Careful
  <2>3. CASE /\ k + Rooms[c] <= Capacity /\ night[c] = Last[c]
             /\ pc'[c] = "set" /\ unset'[c] = Stay(c)
    <3>1. CASE n \in Stay(c)
      <4>1. Booked(n) + Rooms[c] <= plan'[c][n] /\ plan'[c][n] <= Capacity
        BY <1>6, <2>3, <3>1, StayIs
      <4>2. Planned(c, n)'  BY <2>3, <3>1 DEF Planned
      <4>3. Booked(n) + Rooms[c] <= Capacity
        <5>1. plan'[c][n] \in Nat  BY DEF Base, TypeOK
        <5> QED  BY <1>2, <4>1, <5>1
      <4> QED  BY <1>7, <4>1, <4>2, <4>3 DEF Careful
    <3>2. CASE n \notin Stay(c)
      <4>1. Place(c)' /\ night'[c] \in Night  BY DEF Base, TypeOK
      <4> QED  BY <3>2, <4>1, CarefulApart
    <3> QED  BY <3>1, <3>2
  <2> QED  BY <1>1, <2>1, <2>2, <2>3, CountedIs DEF Base
<1>9. \A b \in Call : Active(b)' => Active(b)  BY <1>1, <1>4 DEF Active
<1> QED  BY <1>1, <1>5, <1>8, <1>9, EnoughElsewhere

LEMMA SettingEnough ==
  ASSUME Base, Base', NEW c \in Call, SetCount(c) \/ SetFails(c),
         NEW n \in Night \ disturbed', Enough(n)
  PROVE Enough(n)'
<1> USE DEF Base
<1>1. /\ UNCHANGED <<night, plan, stored>> /\ pc[c] = "set"
      /\ \A b \in Call \ {c} : pc'[b] = pc[b] /\ unset'[b] = unset[b]
  BY SettingIs
<1>2. PICK m \in unset[c] :
        /\ m \in Night
        /\ unset'[c] = unset[c] \ {m}
        /\ pc'[c] = "set" \/ (pc'[c] = "insert" /\ unset[c] = {m})
        /\ \/ cached' = [cached EXCEPT ![m] = plan[c][m]]
           \/ cached' = cached /\ m \in disturbed'
  BY SettingIs
<1>3. /\ Rooms[c] \in Nat /\ Capacity \in Nat /\ plan[c][n] \in Nat /\ Booked(n) \in Nat
      /\ night[c] = First[c] /\ unset[c] \subseteq Stay(c) /\ Place(c)' /\ night'[c] \in Night
  BY <1>1, StayIs, HotelAssumption, BookedIs DEF TypeOK, Place
<1>4. Booked(n)' = Booked(n) /\ \A b \in Call : Stay(b)' = Stay(b)  BY <1>1 DEF Booked, Stay
<1>5. \A b \in Call : Active(b)' => Active(b)  BY <1>1, <1>2 DEF Active
<1>6. Active(c)  BY <1>1 DEF Active
<1>7. CASE n # m
  <2>1. cached'[n] = cached[n]  BY <1>2, <1>7 DEF TypeOK
  <2>2. ASSUME NEW b \in Call \ {c} PROVE Careful(b, n)'
    BY <1>1, <2>1, CarefulElsewhere DEF Enough
  <2>3. Careful(c, n)'
    <3>1. Planned(c, n)' <=> Planned(c, n)  BY <1>1, <1>2, <1>7 DEF Planned
    <3>2. Promises(c, n)' => Promises(c, n)  BY <1>1, <1>2, <1>3, <1>4 DEF Promises, Stay
    <3>3. Careful(c, n)  BY DEF Enough
    <3> QED  BY <1>1, <1>4, <2>1, <3>1, <3>2, <3>3 DEF Careful
  <2> QED  BY <1>1, <1>5, <2>1, <2>2, <2>3, EnoughElsewhere
<1>8. CASE n = m
  <2>1. cached'[n] = plan[c][n]  BY <1>2, <1>8 DEF TypeOK
  <2>2. Planned(c, n) /\ n \in Stay(c)  BY <1>1, <1>2, <1>3, <1>8 DEF Planned
  <2>3. Booked(n) + Rooms[c] <= plan[c][n] /\ plan[c][n] <= Capacity
    BY <2>2 DEF Enough, Careful
  <2>4. ASSUME NEW b \in Call \ {c} PROVE Careful(b, n)'
    <3>1. ~Active(b)' \/ n \notin Stay(b)  BY <1>5, <1>6, <2>2 DEF Enough
    <3>2. Place(b)' /\ night'[b] \in Night  BY DEF TypeOK
    <3> QED  BY <3>1, <3>2, CarefulApart
  <2>5. Careful(c, n)'
    <3>1. ~Planned(c, n)'  BY <1>2, <1>8 DEF Planned
    <3>2. Booked(n) + Rooms[c] <= Capacity  BY <1>3, <2>3
    <3> QED  BY <1>4, <2>1, <2>3, <3>1, <3>2 DEF Careful
  <2>6. Booked(n) <= plan[c][n] /\ Booked(n) <= Capacity  BY <1>3, <2>3
  <2>7. \A b, d \in Call : b # d /\ Active(b)' /\ Active(d)' => n \notin Stay(b) \/ n \notin Stay(d)
    BY <1>5 DEF Enough
  <2> QED  BY <1>4, <2>1, <2>4, <2>5, <2>6, <2>7 DEF Enough
<1> QED  BY <1>7, <1>8

\* A call inserts the rooms of a night: what it had planned becomes what is taken.
LEMMA InsertedEnough ==
  ASSUME Base, Base', NEW c \in Call, pc[c] = "insert", stored' = Inserted(c), cached' = cached,
         NEW n \in Night, Enough(n),
         \A b \in Call : Active(b)' => Active(b),
         n # night[c] => \A b \in Call : Careful(b, n)',
         n = night[c] => Careful(c, n)'
  PROVE Enough(n)'
<1> USE DEF Base
<1>1. /\ stored'[n] = IF n = night[c] THEN stored[n] \union RoomsOf(c) ELSE stored[n]
      /\ night[c] \in Stay(c)
  BY InsertedIs
<1>2. CASE n # night[c]  BY <1>1, <1>2, EnoughElsewhere
<1>3. CASE n = night[c]
  <2>1. /\ Rooms[c] \in Nat /\ Capacity \in Nat /\ Booked(n) \in Nat
        /\ cached[n] \in Nat \union {Missing}
    BY StayIs, HotelAssumption, BookedIs DEF TypeOK
  <2>2. Promises(c, n) /\ ~Planned(c, n) /\ Active(c)
    BY <1>1, <1>3, StayIs DEF Promises, Planned, Active
  <2>3. /\ Booked(n) + Rooms[c] <= Capacity
        /\ cached[n] # Missing => Booked(n) + Rooms[c] <= cached[n]
    BY <2>2 DEF Enough, Careful
  <2>4. stored[n] \in SUBSET Beds  OBVIOUS
  <2>5. /\ Booked(n)' = Cardinality(stored[n] \union RoomsOf(c))
        /\ Booked(n)' \in Nat /\ Booked(n)' <= Booked(n) + Rooms[c]
    BY <1>1, <1>3, <2>4, AddRooms DEF Booked
  <2>6. Booked(n)' <= Capacity  BY <2>1, <2>3, <2>5
  <2>7. cached[n] # Missing => Booked(n)' <= cached[n]  BY <2>1, <2>3, <2>5
  <2>8. ASSUME NEW b \in Call \ {c} PROVE Careful(b, n)'
    <3>1. ~Active(b)' \/ n \notin Stay(b)  BY <1>1, <1>3, <2>2 DEF Enough
    <3>2. Place(b)' /\ night'[b] \in Night  BY DEF TypeOK
    <3> QED  BY <3>1, <3>2, CarefulApart
  <2>9. \A b, d \in Call : b # d /\ Active(b)' /\ Active(d)' =>
          n \notin Stay(b)' \/ n \notin Stay(d)'
    BY DEF Enough, Stay
  <2> QED  BY <1>3, <2>6, <2>7, <2>8, <2>9 DEF Enough
<1> QED  BY <1>2, <1>3

LEMMA InsertEnough ==
  ASSUME Base, Base', NEW c \in Call, Insert(c), NEW n \in Night, Enough(n)
  PROVE Enough(n)'
<1> USE DEF Base
<1>1. /\ pc[c] = "insert" /\ stored' = Inserted(c) /\ UNCHANGED <<plan, unset, cached>>
      /\ \A b \in Call \ {c} : pc'[b] = pc[b] /\ night'[b] = night[b]
      /\ \/ pc'[c] = "insert" /\ night[c] < Last[c] /\ night'[c] = night[c] + 1
         \/ pc'[c] = "done" /\ night'[c] = night[c]
  BY DEF Insert, TypeOK
<1>2. \A b \in Call : Active(b)' => Active(b)  BY <1>1 DEF Active
<1>3. night[c] \in Nat /\ Last[c] \in Nat /\ n \in Nat  BY StayIs DEF TypeOK
<1>4. ~Planned(c, n)'  BY <1>1 DEF Planned
<1>5. n = night[c] => ~Promises(c, n)'  BY <1>1, <1>3 DEF Promises
<1>6. n = night[c] => Careful(c, n)'  BY <1>4, <1>5 DEF Careful
<1>7. ASSUME n # night[c], NEW b \in Call PROVE Careful(b, n)'
  <2>1. stored'[n] = stored[n]  BY <1>1, <1>7, InsertedIs
  <2>2. CASE b # c  BY <1>1, <2>1, <2>2, CarefulElsewhere DEF Enough
  <2>3. CASE b = c
    <3>1. Promises(c, n)' => Promises(c, n) /\ ~Planned(c, n)
      BY <1>1, <1>3 DEF Promises, Planned
    <3>2. Booked(n)' = Booked(n)  BY <2>1 DEF Booked
    <3> QED  BY <1>1, <1>4, <2>3, <3>1, <3>2 DEF Enough, Careful
  <2> QED  BY <2>2, <2>3
<1> QED  BY <1>1, <1>2, <1>6, <1>7, InsertedEnough

LEMMA CrashEnough ==
  ASSUME Base, Base', Crash,
         stored' = stored \/ \E c \in Call : pc[c] = "insert" /\ stored' = Inserted(c),
         NEW n \in Night, Enough(n)
  PROVE Enough(n)'
<1> USE DEF Base
<1>1. /\ \A b \in Call : ~Active(b)'
      /\ cached' = cached
  BY CrashIs DEF Active
<1>2. ASSUME NEW b \in Call PROVE Careful(b, n)'
  <2>1. Place(b)' /\ night'[b] \in Night  BY DEF TypeOK
  <2> QED  BY <1>1, <2>1, CarefulApart
<1>3. CASE stored' = stored  BY <1>1, <1>2, <1>3, EnoughElsewhere
<1>4. ASSUME NEW c \in Call, pc[c] = "insert", stored' = Inserted(c) PROVE Enough(n)'
  BY <1>1, <1>2, <1>4, InsertedEnough
<1> QED  BY <1>3, <1>4

LEMMA EnoughKept ==
  ASSUME Base, Base', [Next]_vars, NEW n \in Night \ disturbed', Enough(n)
  PROVE Enough(n)'
<1> USE DEF dataVars, askVars, boundVars
<1>1. ASSUME UNCHANGED <<night, plan, unset, stored>>, cached'[n] \in {cached[n], Missing},
             \A b \in Call : pc'[b] = pc[b]
      PROVE Enough(n)'
  <2>1. \A b \in Call : Active(b)' => Active(b)  BY <1>1 DEF Active
  <2>2. \A b \in Call : Careful(b, n)'  BY <1>1, CarefulElsewhere DEF Enough
  <2> QED  BY <1>1, <2>1, <2>2, EnoughElsewhere
<1>2. CASE UNCHANGED vars  BY <1>1, <1>2 DEF vars
<1>3. ASSUME NEW c \in Call, Begin(c) \/ CacheMisses(c) PROVE Enough(n)'
  <2>1. /\ UNCHANGED <<night, plan, unset, cached, stored>>
        /\ \A b \in Call \ {c} : pc'[b] = pc[b]
        /\ pc'[c] \in {"check", "done", "mongo"}
    BY <1>3 DEF Begin, CacheMisses, Base, TypeOK
  <2>2. \A b \in Call \ {c} : Careful(b, n)'  BY <2>1, CarefulElsewhere DEF Enough
  <2>3. ~Promises(c, n)' /\ Booked(n)' = Booked(n)  BY <2>1 DEF Promises, Booked
  <2>4. CASE Begin(c)
    <3>1. night'[c] = First[c]  BY <2>1, <2>4 DEF Begin, Base, Place
    <3>2. ~Planned(c, n)'
      <4>1. First[c] \in Nat /\ n \in Nat  BY StayIs
      <4> QED  BY <2>1, <3>1, <4>1 DEF Planned
    <3>3. Careful(c, n)'  BY <2>3, <3>2 DEF Careful
    <3>4. n \in Stay(c) => \A b \in Call : Active(b) => n \notin Stay(b)
      BY <2>4 DEF Begin, Shared
    <3>5. \A b, d \in Call : b # d /\ Active(b)' /\ Active(d)' =>
            n \notin Stay(b) \/ n \notin Stay(d)
      <4> TAKE b, d \in Call
      <4>1. CASE b = c  BY <2>1, <3>4, <4>1 DEF Active
      <4>2. CASE d = c  BY <2>1, <3>4, <4>2 DEF Active
      <4>3. CASE b # c /\ d # c  BY <2>1, <4>3 DEF Active, Enough
      <4> QED  BY <4>1, <4>2, <4>3
    <3> QED  BY <2>1, <2>2, <2>3, <3>3, <3>5 DEF Enough, Stay
  <2>5. CASE CacheMisses(c)
    <3>1. pc[c] = "check" /\ pc'[c] = "mongo"  BY <2>5 DEF CacheMisses, Base, TypeOK
    <3>2. Planned(c, n)' <=> Planned(c, n)  BY <2>1, <3>1 DEF Planned
    <3>3. Careful(c, n)'  BY <2>1, <2>3, <3>2 DEF Enough, Careful
    <3>4. \A b \in Call : Active(b)' => Active(b)  BY <2>1, <3>1 DEF Active
    <3> QED  BY <2>1, <2>2, <3>3, <3>4, EnoughElsewhere
  <2> QED  BY <1>3, <2>4, <2>5
<1>4. ASSUME NEW c \in Call, CountCached(c) \/ CountStored(c) \/ CountsNothing(c)
      PROVE Enough(n)'
  BY <1>4, CountedEnough
<1>5. ASSUME NEW c \in Call, SetCount(c) \/ SetFails(c) PROVE Enough(n)'  BY <1>5, SettingEnough
<1>6. ASSUME NEW c \in Call, Insert(c) PROVE Enough(n)'  BY <1>6, InsertEnough
<1>7. ASSUME NEW c \in Call, Panic(c) PROVE Enough(n)'  BY <1>7, CrashEnough DEF Panic
<1>8. CASE CheckPanics  BY <1>8, CrashEnough DEF CheckPanics
<1>9. ASSUME NEW q \in Query, CheckAvailability(q) PROVE Enough(n)'
  BY <1>1, <1>9 DEF CheckAvailability
<1>10. ASSUME NEW m \in Night, Evict(m) PROVE Enough(n)'
  <2>1. cached'[n] \in {cached[n], Missing}  BY <1>10 DEF Evict, Base, TypeOK
  <2> QED  BY <1>1, <1>10, <2>1 DEF Evict
<1> QED  BY <1>2, <1>3, <1>4, <1>5, <1>6, <1>7, <1>8, <1>9, <1>10 DEF Next, CallStep

-----------------------------------------------------------------------------
(* The invariant and what follows from it *)

LEMMA InitIInv == Init => IInv
<1> SUFFICES ASSUME Init PROVE IInv  OBVIOUS
<1>1. Base  BY InitBase
<1>2. \A n \in Night : stored[n] = {} /\ cached[n] = Missing  BY DEF Init
<1>3. \A c \in Call : pc[c] = "idle"  BY DEF Init
<1>4. NoPhantoms  BY <1>2, <1>3 DEF NoPhantoms, Modest
<1>5. ASSUME NEW n \in Night PROVE Enough(n)
  <2>1. Booked(n) = 0  BY <1>2, FS_EmptySet DEF Booked
  <2>2. Booked(n) <= Capacity  BY <2>1, HotelAssumption
  <2>3. \A c \in Call : Careful(c, n) /\ ~Active(c)
    BY <1>3 DEF Careful, Planned, Promises, Active
  <2> QED  BY <1>2, <2>2, <2>3 DEF Enough
<1> QED  BY <1>1, <1>4, <1>5 DEF IInv

LEMMA NextIInv == IInv /\ [Next]_vars => IInv'
<1> SUFFICES ASSUME IInv, [Next]_vars PROVE IInv'  OBVIOUS
<1>1. Base /\ Base'  BY BaseKept DEF IInv
<1> DEFINE Marks == (crashed => crashed') /\ disturbed \subseteq disturbed'
<1>2. Marks
  <2>1. CASE UNCHANGED vars  BY <2>1 DEF vars
  <2>2. ASSUME NEW c \in Call, Begin(c) \/ CacheMisses(c) \/ Insert(c) PROVE Marks
    BY <2>2 DEF Begin, CacheMisses, Insert
  <2>3. ASSUME NEW c \in Call, CountCached(c) \/ CountStored(c) \/ CountsNothing(c) PROVE Marks
    BY <2>3 DEF CountCached, CountStored, CountsNothing
  <2>4. ASSUME NEW c \in Call, SetCount(c) \/ SetFails(c) PROVE Marks
    BY <2>4 DEF SetCount, SetFails
  <2>5. ASSUME Crash PROVE Marks  BY <2>5 DEF Crash
  <2>6. ASSUME NEW q \in Query, CheckAvailability(q) PROVE Marks
    BY <2>6 DEF CheckAvailability
  <2>7. ASSUME NEW m \in Night, Evict(m) PROVE Marks  BY <2>7 DEF Evict
  <2> QED
    BY <2>1, <2>2, <2>3, <2>4, <2>5, <2>6, <2>7 DEF Next, CallStep, Panic, CheckPanics
<1>3. ~crashed' => NoPhantoms'  BY <1>1, <1>2, PhantomsKept DEF IInv
<1>4. ASSUME NEW n \in Night \ disturbed' PROVE Enough(n)'
  <2>1. Enough(n)  BY <1>2 DEF IInv
  <2> QED  BY <1>1, <2>1, EnoughKept
<1> QED  BY <1>1, <1>3, <1>4 DEF IInv

\* Every state of the service satisfies the invariant.
THEOREM Invariance == Spec => []IInv
<1>1. Init => IInv  BY InitIInv
<1>2. IInv /\ [Next]_vars => IInv'  BY NextIInv
<1> QED  BY <1>1, <1>2, PTL DEF Spec

\* The state of the calls, the counts and the documents always has its type.
THEOREM TypeCorrect == Spec => []TypeOK
<1>1. IInv => TypeOK  BY DEF IInv, Base
<1> QED  BY <1>1, Invariance, PTL

\* Until the process panics, memcached never counts a room that is neither taken
\* nor about to be, however the calls overlap and whatever is lost or fails unseen.
THEOREM NoPhantomRoomsCorrect == Spec => []NoPhantomRooms
<1>1. IInv => NoPhantomRooms  BY DEF IInv, NoPhantoms, NoPhantomRooms, Taken
<1> QED  BY <1>1, Invariance, PTL

\* Until the process panics, whoever was refused a stay finds, once everything is at
\* rest, fewer rooms left for that night than the call asked for.
THEOREM RefusedForWantCorrect == Spec => []RefusedForWant
<1>1. ASSUME IInv, ~crashed, \A b \in Call : ~Active(b), NEW c \in Call, pc[c] = "refused"
      PROVE Booked(night[c]) + Rooms[c] > Capacity
  <2>1. \A b \in Call : ~Promises(b, night[c])  BY <1>1 DEF Active, Promises
  <2>2. Promised(night[c]) = stored[night[c]]  BY <2>1 DEF Promised
  <2>3. Taken(night[c]) + Rooms[c] > Capacity  BY <1>1 DEF IInv, NoPhantoms, Modest
  <2> QED  BY <2>2, <2>3 DEF Taken, Booked
<1>2. IInv => RefusedForWant  BY <1>1 DEF RefusedForWant
<1> QED  BY <1>2, Invariance, PTL

\* A night is never overbooked as long as no two calls for it overlap and no failure
\* for it goes unseen, across panics and lost counts.
THEOREM NotOverbookedCorrect == Spec => []NotOverbooked
<1>1. IInv => NotOverbooked  BY DEF IInv, Enough, NotOverbooked
<1> QED  BY <1>1, Invariance, PTL

\* A granted stay is stored for all its nights and a refused one for none.
THEOREM WholeStaysCorrect == Spec => []WholeStays
<1>1. IInv => WholeStays  BY DEF IInv, Base, Put, WholeStays
<1> QED  BY <1>1, Invariance, PTL

-----------------------------------------------------------------------------
(* Without the history: calls that keep out of each other's way *)

\* No two calls that run ask for night n.
Apart(n) ==
  \A b, c \in Call : b # c /\ Active(b) /\ Active(c) => n \notin Stay(b) \/ n \notin Stay(c)

\* The two failures that the service does not notice.
FailsUnseen == \E c \in Call : CountsNothing(c) \/ SetFails(c)

\* A night for which no calls overlap is never overbooked, as long as every failure
\* panics: neither lost counts nor panics in the middle of a call do any harm.
THEOREM ApartNeverOverbooks ==
  ASSUME NEW n \in Night
  PROVE  Spec /\ []Apart(n) /\ [][~FailsUnseen]_vars => [](Booked(n) <= Capacity)
<1> DEFINE J == n \notin disturbed
<1>1. Init => J  BY DEF Init
<1>2. IInv /\ J /\ Apart(n)' /\ [Next]_vars /\ [~FailsUnseen]_vars => J'
  <2> SUFFICES ASSUME IInv, J, Apart(n)', [Next]_vars, [~FailsUnseen]_vars PROVE J'
    OBVIOUS
  <2>0. pc \in [Call -> {"idle", "check", "mongo", "set", "insert", "done",
                         "refused", "dead"}]
    BY DEF IInv, Base, TypeOK
  <2>1. CASE UNCHANGED vars  BY <2>1 DEF vars
  <2>2. ASSUME NEW c \in Call, Begin(c) PROVE J'
    <3>1. ASSUME n \in Shared(c) PROVE FALSE
      <4>1. PICK b \in Call : n \in Stay(c) /\ Active(b) /\ n \in Stay(b)
        BY <3>1 DEF Shared
      <4>2. pc[c] = "idle" /\ pc' = [pc EXCEPT ![c] = "check"]
        BY <2>2, <4>1 DEF Begin
      <4>3. b # c /\ Active(b)' /\ Active(c)'
        BY <2>0, <4>1, <4>2 DEF Active
      <4> QED  BY <4>1, <4>3 DEF Apart, Stay
    <3> QED  BY <2>2, <3>1 DEF Begin
  <2>3. ASSUME NEW c \in Call, CountCached(c) \/ CacheMisses(c) \/ CountStored(c) PROVE J'
    BY <2>3 DEF CountCached, CacheMisses, CountStored
  <2>4. ASSUME NEW c \in Call, CountsNothing(c) \/ SetFails(c) PROVE J'
    BY <2>4 DEF FailsUnseen, vars
  <2>5. ASSUME NEW c \in Call, SetCount(c) \/ Insert(c) \/ Panic(c) PROVE J'
    BY <2>5 DEF SetCount, Insert, Panic, Crash
  <2>6. ASSUME NEW q \in Query, CheckAvailability(q) PROVE J'
    BY <2>6 DEF CheckAvailability
  <2>7. ASSUME NEW m \in Night, Evict(m) PROVE J'  BY <2>7 DEF Evict
  <2>8. CASE CheckPanics  BY <2>8 DEF CheckPanics, Crash
  <2> QED
    BY <2>1, <2>2, <2>3, <2>4, <2>5, <2>6, <2>7, <2>8 DEF Next, CallStep
<1>3. IInv /\ J => Booked(n) <= Capacity  BY DEF IInv, Enough
<1> HIDE DEF J
<1> QED  BY <1>1, <1>2, <1>3, Invariance, PTL DEF Spec
=============================================================================
