--------------------------- MODULE UserServiceProofs ---------------------------
(***************************************************************************)
(* Proofs about UserService, for any calls, names, passwords, hosts and    *)
(* bounds: identifiers of one process differ while they fit, and what a    *)
(* registration and a lookup may rely on.                                  *)
(***************************************************************************)
EXTENDS UserService, TLAPS

(* Identifiers *)

\* What was issued in the life that runs is behind its clock and its counter.
Behind(i) ==
  /\ i.life <= life[i.server]
  /\ i.life = life[i.server] =>
       /\ i.time <= last[i.server]
       /\ i.time = last[i.server] => i.count < count[i.server]

IssuedBehind == \A m \in DOMAIN issued : Behind(issued[m])

\* The calls of one process are issued in the order of their times and counts.
Earlier(i, j) ==
  \/ i.time < j.time
  \/ i.time = j.time /\ i.count < j.count

IssuedInOrder ==
  \A m, n \in DOMAIN issued :
    m < n /\ SameProcess(issued[m], issued[n]) => Earlier(issued[m], issued[n])

IdInv == IdTypeOK /\ IssuedBehind /\ IssuedInOrder

\* What may happen to the identifiers in a step of UserService.
IdStep ==
  \/ UNCHANGED idVars
  \/ \E s \in Server : ComposeUniqueId(s) \/ Ticks(s) \/ IsSetBack(s) \/ Restarts(s)

\* An identifier has the width of its fields.
LEMMA IdTyped == ASSUME NEW i \in Issue PROVE IdOf(i) \in Id
<1>1. /\ i.hash \in 0 .. HashSize - 1
      /\ i.time \in Nat
      /\ i.count \in Nat
  BY DEF Issue
<1>2. i.time % TimeSize \in 0 .. TimeSize - 1
  BY <1>1, IdAssumption
<1>3. i.count % CounterSize \in 0 .. CounterSize - 1
  BY <1>1, IdAssumption
<1> QED  BY <1>1, <1>2, <1>3 DEF IdOf, Id

LEMMA ComposeKeepsIdInv ==
  ASSUME IdInv, NEW s \in Server, ComposeUniqueId(s)
  PROVE  IdInv' /\ issued' # <<>> /\ issued'[Len(issued')] \in Issue
<1> DEFINE i == [server |-> s, life |-> life[s], hash |-> hash[s],
                 time |-> clock[s], count |-> GetCounter(s)]
           n == Len(issued)
<1>0. /\ clock \in [Server -> 0 .. MaxTime]
      /\ last \in [Server -> Int]
      /\ count \in [Server -> Nat]
      /\ hash \in [Server -> 0 .. HashSize - 1]
      /\ life \in [Server -> Nat]
      /\ issued \in Seq(Issue)
      /\ MaxTime \in Nat
  BY IdAssumption DEF IdInv, IdTypeOK
<1>1. GetCounter(s) \in Nat  BY <1>0 DEF GetCounter
<1>2. i \in Issue  BY <1>0, <1>1 DEF Issue
<1>3. /\ last[s] <= clock[s]
      /\ last' = [last EXCEPT ![s] = clock[s]]
      /\ count' = [count EXCEPT ![s] = GetCounter(s) + 1]
      /\ issued' = Append(issued, i)
      /\ life' = life
      /\ UNCHANGED <<clock, hash, setBacks>>
  BY DEF ComposeUniqueId
<1>i. /\ i.server = s /\ i.life = life[s]
      /\ i.time = clock[s] /\ i.count = GetCounter(s)
  OBVIOUS
<1> HIDE DEF i
<1>4. /\ n \in Nat
      /\ DOMAIN issued = 1 .. n
      /\ DOMAIN issued' = 1 .. n + 1
      /\ Len(issued') = n + 1
      /\ issued'[n + 1] = i
      /\ issued' \in Seq(Issue)
      /\ \A m \in 1 .. n : issued'[m] = issued[m] /\ issued[m] \in Issue
  BY <1>0, <1>2, <1>3
<1> HIDE DEF n
<1>5. IdTypeOK'
  <2>1. last' \in [Server -> Int] /\ count' \in [Server -> Nat]
    BY <1>0, <1>1, <1>3
  <2>2. setBacks \in 0 .. MaxSetBacks  BY DEF IdInv, IdTypeOK
  <2> QED  BY <1>0, <1>3, <1>4, <2>1, <2>2 DEF IdTypeOK
<1>6. \A m \in 1 .. n : issued[m].server = s /\ issued[m].life = life[s]
                          => Earlier(issued[m], i)
  <2> SUFFICES ASSUME NEW m \in 1 .. n,
                      issued[m].server = s, issued[m].life = life[s]
               PROVE  Earlier(issued[m], i)
    OBVIOUS
  <2>1. issued[m].time \in Nat /\ issued[m].count \in Nat
    BY <1>4 DEF Issue
  <2>2. /\ issued[m].time <= last[s]
        /\ issued[m].time = last[s] => issued[m].count < count[s]
    BY <1>4 DEF IdInv, IssuedBehind, Behind
  <2>3. last[s] \in Int /\ clock[s] \in Nat /\ count[s] \in Nat
    BY <1>0
  <2> QED  BY <1>3, <1>i, <2>1, <2>2, <2>3 DEF Earlier, GetCounter
<1>7. IssuedBehind'
  <2> SUFFICES ASSUME NEW m \in 1 .. n + 1  PROVE Behind(issued[m])'
    BY <1>4 DEF IssuedBehind
  <2>1. CASE m = n + 1
    <3>1. /\ life[s] \in Nat
          /\ last'[s] = clock[s] /\ count'[s] = GetCounter(s) + 1
          /\ clock[s] \in Nat
      BY <1>0, <1>3
    <3> QED  BY <1>1, <1>3, <1>4, <1>i, <2>1, <3>1 DEF Behind
  <2>2. CASE m \in 1 .. n
    <3> DEFINE j == issued[m]
    <3>1. j \in Issue /\ issued'[m] = j /\ Behind(j)
      BY <1>4, <2>2 DEF IdInv, IssuedBehind
    <3>2. j.server \in Server /\ j.life \in Nat /\ j.time \in Nat /\ j.count \in Nat
      BY <3>1 DEF Issue
    <3> HIDE DEF j
    <3>3. CASE j.server # s
      <4>1. last'[j.server] = last[j.server] /\ count'[j.server] = count[j.server]
        BY <1>0, <1>3, <3>2, <3>3
      <4> QED  BY <1>3, <3>1, <4>1 DEF Behind
    <3>4. CASE j.server = s
      <4>1. /\ last'[s] = clock[s] /\ count'[s] = GetCounter(s) + 1
            /\ clock[s] \in Nat
        BY <1>0, <1>3
      <4>2. j.life = life[s] => Earlier(j, i)  BY <1>6, <2>2, <3>4 DEF j
      <4> QED  BY <1>1, <1>3, <1>i, <3>1, <3>2, <3>4, <4>1, <4>2 DEF Behind, Earlier
    <3> QED  BY <3>3, <3>4
  <2> QED  BY <1>4, <2>1, <2>2
<1>8. IssuedInOrder'
  <2> SUFFICES ASSUME NEW k \in 1 .. n + 1, NEW m \in 1 .. n + 1, k < m,
                      SameProcess(issued'[k], issued'[m])
               PROVE  Earlier(issued'[k], issued'[m])
    BY <1>4 DEF IssuedInOrder, SameProcess, Earlier
  <2>1. k \in 1 .. n /\ issued'[k] = issued[k]  BY <1>4
  <2>2. CASE m = n + 1
    BY <1>4, <1>6, <1>i, <2>1, <2>2 DEF SameProcess
  <2>3. CASE m \in 1 .. n
    BY <1>4, <2>1, <2>3 DEF IdInv, IssuedInOrder
  <2> QED  BY <1>4, <2>2, <2>3
<1> QED  BY <1>2, <1>4, <1>5, <1>7, <1>8 DEF IdInv

\* A new process has a new life, in which nothing has been issued.
LEMMA RestartKeepsIdInv ==
  ASSUME IdInv, NEW s \in Server, Restarts(s)
  PROVE  IdInv'
<1>0. /\ last \in [Server -> Int]
      /\ count \in [Server -> Nat]
      /\ hash \in [Server -> 0 .. HashSize - 1]
      /\ life \in [Server -> Nat]
      /\ issued \in Seq(Issue)
  BY DEF IdInv, IdTypeOK
<1>1. IdTypeOK'
  BY <1>0 DEF IdInv, IdTypeOK, Restarts
<1>2. IssuedBehind'
  <2> SUFFICES ASSUME NEW m \in DOMAIN issued  PROVE Behind(issued[m])'
    BY DEF IssuedBehind, Restarts
  <2> DEFINE j == issued[m]
  <2>1. j \in Issue /\ issued'[m] = j /\ Behind(j)
    BY <1>0 DEF IdInv, IssuedBehind, Restarts
  <2>2. j.server \in Server /\ j.life \in Nat  BY <2>1 DEF Issue
  <2> HIDE DEF j
  <2>3. CASE j.server = s
    <3>1. life'[s] = life[s] + 1 /\ life[s] \in Nat  BY <1>0 DEF Restarts
    <3> QED  BY <2>1, <2>2, <2>3, <3>1 DEF Behind
  <2>4. CASE j.server # s
    <3>1. /\ life'[j.server] = life[j.server]
          /\ last'[j.server] = last[j.server]
          /\ count'[j.server] = count[j.server]
      BY <1>0, <2>2, <2>4 DEF Restarts
    <3> QED  BY <2>1, <3>1 DEF Behind
  <2> QED  BY <2>3, <2>4
<1>3. IssuedInOrder'
  BY DEF IdInv, IssuedInOrder, SameProcess, Earlier, Restarts
<1> QED  BY <1>1, <1>2, <1>3 DEF IdInv

LEMMA StepKeepsIdInv == ASSUME IdInv, IdStep  PROVE IdInv'
<1>1. CASE UNCHANGED idVars
  BY <1>1 DEF idVars, IdInv, IdTypeOK, IssuedBehind, Behind, IssuedInOrder,
              SameProcess, Earlier
<1>2. ASSUME NEW s \in Server, Ticks(s) \/ IsSetBack(s)  PROVE IdInv'
  <2>1. /\ clock \in [Server -> 0 .. MaxTime]
        /\ setBacks \in 0 .. MaxSetBacks
        /\ MaxTime \in Nat /\ MaxSetBacks \in Nat
    BY IdAssumption DEF IdInv, IdTypeOK
  <2>2. clock' \in [Server -> 0 .. MaxTime] /\ setBacks' \in 0 .. MaxSetBacks
    <3>1. CASE Ticks(s)
      BY <2>1, <3>1 DEF Ticks
    <3>2. CASE IsSetBack(s)
      <4>1. PICK t \in 0 .. clock[s] - 1 : clock' = [clock EXCEPT ![s] = t]
        BY <3>2 DEF IsSetBack
      <4>2. t \in 0 .. MaxTime  BY <2>1
      <4> QED  BY <2>1, <3>2, <4>1, <4>2 DEF IsSetBack
    <3> QED  BY <1>2, <3>1, <3>2
  <2>3. UNCHANGED <<last, count, hash, life, issued>>
    BY <1>2 DEF Ticks, IsSetBack
  <2> QED
    BY <2>2, <2>3 DEF IdInv, IdTypeOK, IssuedBehind, Behind, IssuedInOrder,
                      SameProcess, Earlier
<1> QED
  BY <1>1, <1>2, ComposeKeepsIdInv, RestartKeepsIdInv DEF IdStep

\* Identifiers that fit and are equal have equal times and counts, and so no
\* order.
LEMMA OrderedNeverClash == IdInv => NoClash
<1> SUFFICES ASSUME IdInv,
                    NEW m \in DOMAIN issued, NEW n \in DOMAIN issued,
                    SameProcess(issued[m], issued[n]),
                    Fits(issued[m]), Fits(issued[n]),
                    IdOf(issued[m]) = IdOf(issued[n])
             PROVE  m = n
  BY DEF NoClash
<1> DEFINE i == issued[m]
           j == issued[n]
<1>1. i \in Issue /\ j \in Issue /\ m \in Nat /\ n \in Nat
  BY DEF IdInv, IdTypeOK
<1>2. /\ i.time \in Nat /\ j.time \in Nat /\ i.count \in Nat /\ j.count \in Nat
      /\ i.time < TimeSize /\ j.time < TimeSize
      /\ i.count < CounterSize /\ j.count < CounterSize
  BY <1>1 DEF Issue, Fits
<1>3. i.time % TimeSize = j.time % TimeSize /\ i.count % CounterSize = j.count % CounterSize
  BY DEF IdOf
<1>s. SameProcess(i, j) /\ SameProcess(j, i)  BY DEF SameProcess
<1>o. (m < n => Earlier(i, j)) /\ (n < m => Earlier(j, i))
  BY <1>s DEF IdInv, IssuedInOrder
<1> HIDE DEF i, j
<1>4. i.time = j.time
  BY <1>2, <1>3, IdAssumption
<1>5. i.count = j.count
  BY <1>2, <1>3, IdAssumption
<1>6. ~ Earlier(i, j) /\ ~ Earlier(j, i)  BY <1>2, <1>4, <1>5 DEF Earlier
<1> QED  BY <1>1, <1>o, <1>6

-----------------------------------------------------------------------------
(* Registrations *)

RegTyped ==
  /\ reg \in [Registration -> {"idle", "ok", "failed"} \cup RegActive]
  /\ uid \in [Registration -> Id \cup {NoId}]
  /\ docs \subseteq Registration
  /\ graph \subseteq Id
  /\ late \in [Registration -> {"nothing", "document", "node"}]
  /\ disturbed \subseteq Name

\* Who has started has an identifier, who has inserted has a document, and only
\* who has failed has something on its way.
Started ==
  /\ \A c \in Registration : reg[c] # "idle" => uid[c] \in Id
  /\ \A c \in Registration : reg[c] = "inserted" => c \in docs
  /\ \A c \in docs : reg[c] \in {"inserted", "ok", "failed"}
  /\ \A c \in Registration : late[c] # "nothing" => reg[c] = "failed"
  /\ \A c \in Registration : late[c] = "node" => c \in docs

\* Who has found a free name that is taken now has been seen by the one who
\* took it.
RivalsSeen ==
  \A c \in Registration :
    Open(c) /\ OfName(NameOf[c]) # {} => NameOf[c] \in disturbed

RegInv == RegTyped /\ Started /\ RivalsSeen /\ NamesUnique /\ NoHalfUserUnseen

\* What a step of a registration may do to what the lookups rely on.
Grows ==
  /\ docs \subseteq docs'
  /\ \A c \in docs : uid'[c] = uid[c]
  /\ disturbed \subseteq disturbed'
  /\ \A c \in Registration : reg[c] = "ok" => reg'[c] = "ok"
  /\ \A c \in docs' \ docs : OfName(NameOf[c]) # {} => NameOf[c] \in disturbed'

\* RegisterUser and RegisterUserWithId, once they have an identifier.
LEMMA StampKeepsRegInv ==
  ASSUME RegInv, NEW c \in Registration, NEW i \in Id,
         reg[c] = "idle", reg' = [reg EXCEPT ![c] = "stamped"],
         uid' = [uid EXCEPT ![c] = i],
         UNCHANGED <<docs, graph, late, disturbed>>
  PROVE  RegInv' /\ Grows
<1>0. /\ reg \in [Registration -> {"idle", "ok", "failed"} \cup RegActive]
      /\ uid \in [Registration -> Id \cup {NoId}]
      /\ docs \subseteq Registration
  BY DEF RegInv, RegTyped
<1>1. c \notin docs  BY DEF RegInv, Started
<1>2. \A d \in Registration : /\ reg'[d] = IF d = c THEN "stamped" ELSE reg[d]
                              /\ uid'[d] = IF d = c THEN i ELSE uid[d]
  BY <1>0
<1>3. RegTyped'  BY <1>0 DEF RegInv, RegTyped, RegActive
<1>4. Started'  BY <1>0, <1>1, <1>2 DEF RegInv, Started
<1>5. RivalsSeen'  BY <1>2 DEF RegInv, RivalsSeen, Open, OfName
<1>6. NamesUnique'  BY DEF RegInv, NamesUnique
<1>7. NoHalfUserUnseen'
  BY <1>0, <1>1, <1>2 DEF RegInv, NoHalfUserUnseen
<1>8. Grows  BY <1>0, <1>1, <1>2 DEF Grows
<1> QED  BY <1>3, <1>4, <1>5, <1>6, <1>7, <1>8 DEF RegInv

\* The name is free.
LEMMA FreeKeepsRegInv ==
  ASSUME RegInv, NEW c \in Registration,
         reg[c] = "stamped", OfName(NameOf[c]) = {},
         reg' = [reg EXCEPT ![c] = "free"],
         UNCHANGED <<uid, docs, graph, late, disturbed>>
  PROVE  RegInv' /\ Grows
<1>0. /\ reg \in [Registration -> {"idle", "ok", "failed"} \cup RegActive]
      /\ docs \subseteq Registration
  BY DEF RegInv, RegTyped
<1>2. \A d \in Registration : reg'[d] = IF d = c THEN "free" ELSE reg[d]
  BY <1>0
<1>3. RegTyped'  BY <1>0 DEF RegInv, RegTyped, RegActive
<1>4. Started'
  BY <1>0, <1>2 DEF RegInv, Started, RegActive
<1>5. RivalsSeen'  BY <1>2 DEF RegInv, RivalsSeen, Open, OfName
<1>6. NamesUnique'  BY DEF RegInv, NamesUnique
<1>7. NoHalfUserUnseen'  BY <1>2 DEF RegInv, NoHalfUserUnseen
<1>8. Grows  BY <1>0, <1>2 DEF Grows, RegActive
<1> QED  BY <1>3, <1>4, <1>5, <1>6, <1>7, <1>8 DEF RegInv

\* Registrations fail; what they had sent may still be on its way.
LEMMA FailureKeepsRegInv ==
  ASSUME RegInv, NEW F \in SUBSET Registration,
         \A c \in F : reg[c] \in RegActive,
         reg' = [c \in Registration |-> IF c \in F THEN "failed" ELSE reg[c]],
         \/ late' = [c \in Registration |-> IF c \in F THEN Sent(c) ELSE late[c]]
         \/ late' = late,
         UNCHANGED <<uid, docs, graph, disturbed>>
  PROVE  RegInv' /\ Grows
<1>0. /\ reg \in [Registration -> {"idle", "ok", "failed"} \cup RegActive]
      /\ late \in [Registration -> {"nothing", "document", "node"}]
      /\ docs \subseteq Registration
  BY DEF RegInv, RegTyped
<1>1. \A c \in Registration : late'[c] = late[c] \/ (c \in F /\ late'[c] = Sent(c))
  OBVIOUS
<1>2. RegTyped'
  <2>1. late' \in [Registration -> {"nothing", "document", "node"}]
    BY <1>0 DEF Sent
  <2> QED  BY <1>0, <2>1 DEF RegInv, RegTyped
<1>3. Started'
  <2>1. ASSUME NEW c \in Registration
        PROVE  /\ late'[c] # "nothing" => reg'[c] = "failed"
               /\ late'[c] = "node" => c \in docs
    BY <1>1, <2>1 DEF RegInv, Started, Sent
  <2> QED  BY <1>0, <2>1 DEF RegInv, Started, RegActive
<1>4. RivalsSeen'
  <2>1. ASSUME NEW c \in Registration, Open(c)'  PROVE Open(c)
    BY <1>1, <2>1 DEF Open, Sent
  <2> QED  BY <2>1 DEF RegInv, RivalsSeen, OfName
<1>5. NamesUnique'  BY DEF RegInv, NamesUnique
<1>6. NoHalfUserUnseen'  BY DEF RegInv, NoHalfUserUnseen
<1>7. Grows  BY <1>0 DEF Grows, RegActive
<1> QED  BY <1>2, <1>3, <1>4, <1>5, <1>6, <1>7 DEF RegInv

\* The same of one registration.
LEMMA OneFailureKeepsRegInv ==
  ASSUME RegInv, NEW c \in Registration, reg[c] \in RegActive,
         reg' = [reg EXCEPT ![c] = "failed"],
         late' \in {late, [late EXCEPT ![c] = Sent(c)]},
         UNCHANGED <<uid, docs, graph, disturbed>>
  PROVE  RegInv' /\ Grows
<1> DEFINE F == {c}
<1>1. reg' = [d \in Registration |-> IF d \in F THEN "failed" ELSE reg[d]]
  BY DEF RegInv, RegTyped
<1>2. \/ late' = [d \in Registration |-> IF d \in F THEN Sent(d) ELSE late[d]]
      \/ late' = late
  BY DEF RegInv, RegTyped
<1>3. F \in SUBSET Registration /\ \A d \in F : reg[d] \in RegActive  OBVIOUS
<1> HIDE DEF F
<1> QED  BY <1>1, <1>2, <1>3, FailureKeepsRegInv

\* The document gets in, of a registration that runs or of one that has failed.
LEMMA EnterKeepsRegInv ==
  ASSUME RegInv, NEW c \in Registration, Enters(c),
         \/ reg[c] = "free" /\ reg' = [reg EXCEPT ![c] = "inserted"] /\ late' = late
         \/ late[c] = "document" /\ reg' = reg /\ late' = [late EXCEPT ![c] = "nothing"],
         UNCHANGED <<uid, graph>>
  PROVE  RegInv' /\ Grows
<1>0. /\ reg \in [Registration -> {"idle", "ok", "failed"} \cup RegActive]
      /\ late \in [Registration -> {"nothing", "document", "node"}]
      /\ docs \subseteq Registration
      /\ NameOf[c] \in Name
  BY UserAssumption DEF RegInv, RegTyped, Call
<1>1. /\ docs' = docs \cup {c}
      /\ disturbed \subseteq disturbed'
      /\ disturbed' \subseteq disturbed \cup {NameOf[c]}
      /\ Rivals(c) # {} => NameOf[c] \in disturbed'
  BY DEF Enters
<1>2. /\ \A d \in Registration \ {c} : reg'[d] = reg[d] /\ late'[d] = late[d]
      /\ reg'[c] \in {"inserted", "failed"}
      /\ reg'[c] = "inserted" => reg[c] = "free"
      /\ reg'[c] = "failed" => reg[c] = "failed"
      /\ late'[c] = "nothing"
      /\ uid[c] \in Id
  BY <1>0 DEF RegInv, Started
<1>3. RegTyped'
  BY <1>0, <1>1 DEF RegInv, RegTyped, RegActive
<1>4. Started'  BY <1>0, <1>1, <1>2 DEF RegInv, Started
<1>5. RivalsSeen'
  <2> SUFFICES ASSUME NEW d \in Registration, Open(d)',
                      NEW e \in docs', NameOf[e] = NameOf[d]
               PROVE  NameOf[d] \in disturbed'
    BY DEF RivalsSeen, OfName
  <2>1. d # c /\ Open(d)  BY <1>2 DEF Open
  <2>2. CASE e = c  BY <1>1, <2>1, <2>2 DEF Rivals
  <2>3. CASE e \in docs
    BY <1>1, <2>1, <2>3 DEF RegInv, RivalsSeen, OfName
  <2> QED  BY <1>1, <2>2, <2>3
<1>6. OfName(NameOf[c]) # {} => NameOf[c] \in disturbed'
  BY <1>1 DEF RegInv, RivalsSeen, Open
<1>7. NamesUnique'
  <2> SUFFICES ASSUME NEW d \in docs', NEW e \in docs', NameOf[d] = NameOf[e], d # e
               PROVE  NameOf[d] \in disturbed'
    BY DEF NamesUnique
  <2>1. CASE d \in docs /\ e \in docs
    BY <1>1, <2>1 DEF RegInv, NamesUnique
  <2>2. CASE d = c \/ e = c
    BY <1>1, <1>6, <2>2 DEF OfName
  <2> QED  BY <1>1, <2>1, <2>2
<1>8. NoHalfUserUnseen'
  BY <1>0, <1>1, <1>2 DEF RegInv, NoHalfUserUnseen
<1>9. Grows  BY <1>0, <1>1, <1>2, <1>6 DEF Grows
<1> QED  BY <1>3, <1>4, <1>5, <1>7, <1>8, <1>9 DEF RegInv

\* SocialGraphService has the user, of a registration that runs or has failed.
LEMMA GraphKeepsRegInv ==
  ASSUME RegInv, NEW c \in Registration, graph' = graph \cup {uid[c]},
         \/ reg[c] = "inserted" /\ reg' = [reg EXCEPT ![c] = "ok"] /\ late' = late
         \/ late[c] = "node" /\ reg' = reg /\ late' = [late EXCEPT ![c] = "nothing"],
         UNCHANGED <<uid, docs, disturbed>>
  PROVE  RegInv' /\ Grows
<1>0. /\ reg \in [Registration -> {"idle", "ok", "failed"} \cup RegActive]
      /\ late \in [Registration -> {"nothing", "document", "node"}]
      /\ docs \subseteq Registration
      /\ c \in docs
      /\ uid[c] \in Id
  BY DEF RegInv, RegTyped, Started
<1>2. /\ \A d \in Registration \ {c} : reg'[d] = reg[d] /\ late'[d] = late[d]
      /\ reg'[c] \in {"ok", "failed"} /\ late'[c] = "nothing"
  BY <1>0 DEF RegInv, Started
<1>3. RegTyped'  BY <1>0 DEF RegInv, RegTyped, RegActive
<1>4. Started'  BY <1>0, <1>2 DEF RegInv, Started
<1>5. RivalsSeen'  BY <1>2 DEF RegInv, RivalsSeen, Open, OfName
<1>6. NamesUnique'  BY DEF RegInv, NamesUnique
<1>7. NoHalfUserUnseen'
  BY <1>0, <1>2 DEF RegInv, NoHalfUserUnseen
<1>8. Grows  BY <1>0, <1>2 DEF Grows
<1> QED  BY <1>3, <1>4, <1>5, <1>6, <1>7, <1>8 DEF RegInv

\* A process that dies fails the registrations it was serving.
LEMMA DeathKeepsRegInv ==
  ASSUME RegInv, NEW s \in Server, Dies(s)
  PROVE  RegInv' /\ Grows
<1> DEFINE F == {c \in Registration : HostOf[c] = s /\ reg[c] \in RegActive}
<1>1. /\ UNCHANGED <<uid, docs, graph, disturbed>>
      /\ reg' = [c \in Registration |-> IF c \in F THEN "failed" ELSE reg[c]]
      /\ late' = [c \in Registration |-> IF c \in F THEN Sent(c) ELSE late[c]]
  BY DEF Dies
<1>2. F \in SUBSET Registration /\ \A c \in F : reg[c] \in RegActive  OBVIOUS
<1> HIDE DEF F
<1> QED  BY <1>1, <1>2, FailureKeepsRegInv

\* The actions of a registration.
RegStep(c) ==
  \/ RegisterUser(c) \/ RegisterUserWithId(c) \/ FindName(c) \/ MongoFails(c)
  \/ Insert(c) \/ InsertRefused(c) \/ InsertUser(c) \/ InsertUserFails(c)
  \/ Lands(c)

LEMMA RegStepKeepsRegInv ==
  ASSUME IdInv, RegInv, NEW c \in Registration, RegStep(c)
  PROVE  RegInv' /\ Grows /\ UNCHANGED <<lookVars, cached>>
<1>0. UNCHANGED <<lookVars, cached>>
  BY DEF RegStep, RegisterUser, RegisterUserWithId, FindName, MongoFails, Insert,
         InsertRefused, InsertUser, InsertUserFails, Lands
<1>h. HostOf[c] \in Server  BY UserAssumption DEF Call
<1>1. CASE RegisterUser(c)
  <2>1. IdOf(issued'[Len(issued')]) \in Id
    BY <1>1, <1>h, ComposeKeepsIdInv, IdTyped DEF RegisterUser
  <2> QED  BY <1>0, <1>1, <2>1, StampKeepsRegInv DEF RegisterUser
<1>2. CASE RegisterUserWithId(c)
  BY <1>0, <1>2, StampKeepsRegInv DEF RegisterUserWithId
<1>3. CASE FindName(c)
  <2>1. CASE OfName(NameOf[c]) = {}
    BY <1>0, <1>3, <2>1, FreeKeepsRegInv DEF FindName
  <2>2. CASE OfName(NameOf[c]) # {}
    BY <1>0, <1>3, <2>2, OneFailureKeepsRegInv DEF FindName, RegActive
  <2> QED  BY <2>1, <2>2
<1>4. CASE MongoFails(c)
  BY <1>0, <1>4, OneFailureKeepsRegInv DEF MongoFails, RegActive
<1>5. CASE Insert(c)
  BY <1>0, <1>5, EnterKeepsRegInv DEF Insert
<1>6. CASE InsertRefused(c)
  BY <1>0, <1>6, OneFailureKeepsRegInv DEF InsertRefused, RegActive
<1>7. CASE InsertUser(c)
  BY <1>0, <1>7, GraphKeepsRegInv DEF InsertUser
<1>8. CASE InsertUserFails(c)
  BY <1>0, <1>8, OneFailureKeepsRegInv DEF InsertUserFails, RegActive
<1>9. CASE Lands(c)
  BY <1>0, <1>9, EnterKeepsRegInv, GraphKeepsRegInv DEF Lands
<1> QED
  BY <1>1, <1>2, <1>3, <1>4, <1>5, <1>6, <1>7, <1>8, <1>9 DEF RegStep

-----------------------------------------------------------------------------
(* Lookups *)

LookTyped ==
  /\ asks \in [Lookup -> Kind]
  /\ look \in [Lookup -> {"idle", "answered", "unknown", "refused", "failed"} \cup LookActive]
  /\ found \in [Lookup -> Registration \cup {NoDoc}]
  /\ answer \in [Lookup -> Id \cup {NoId}]
  /\ cached \in [Kind -> [Name -> Registration \cup {NoDoc}]]
  /\ known \in [Lookup -> SUBSET Registration]
  /\ garbled \subseteq Lookup

\* What memcached has is a document of the name.
CachedAreDocs ==
  \A k \in Kind, n \in Name : cached[k][n] \in OfName(n) \cup {NoDoc}

HoldsDoc(q) ==
  /\ found[q] \in OfName(NameOf[q]) \cup {NoDoc}
  /\ look[q] = "found" => found[q] # NoDoc
  /\ \A c \in known[q] : reg[c] = "ok"

TokenOf(q) ==
  asks[q] = "login" /\ look[q] = "answered" =>
    \E c \in OfName(NameOf[q]) :
      uid[c] = answer[q] /\ PasswordOf[c] = PasswordOf[q]

AnswerOf(q) ==
  look[q] = "answered" /\ NameOf[q] \notin disturbed /\ q \notin garbled =>
    /\ OfName(NameOf[q]) # {}
    /\ \A c \in OfName(NameOf[q]) : answer[q] = uid[c]

OwnerOf(q) ==
  \A c \in known[q] :
    NameOf[c] = NameOf[q] /\ NameOf[q] \notin disturbed =>
      /\ look[q] # "unknown"
      /\ look[q] = "refused" => PasswordOf[c] # PasswordOf[q]

LookOK(q) == HoldsDoc(q) /\ TokenOf(q) /\ AnswerOf(q) /\ OwnerOf(q)

LookInv == LookTyped /\ CachedAreDocs /\ \A q \in Lookup : LookOK(q)

\* Lookups do not notice a registration that makes progress.
LEMMA GrowsKeepsLookInv ==
  ASSUME RegInv, LookInv, Grows, UNCHANGED <<lookVars, cached>>
  PROVE  LookInv'
<1>0. /\ docs \subseteq Registration
      /\ UNCHANGED <<asks, look, found, answer, known, garbled, cached>>
      /\ docs \subseteq docs'
      /\ \A c \in docs : uid'[c] = uid[c]
      /\ disturbed \subseteq disturbed'
      /\ \A c \in Registration : reg[c] = "ok" => reg'[c] = "ok"
      /\ known \in [Lookup -> SUBSET Registration]
  BY DEF RegInv, RegTyped, Grows, lookVars, LookInv, LookTyped
<1>1. \A n : OfName(n) \subseteq OfName(n)'  BY <1>0 DEF OfName
<1>2. \A n : n \notin disturbed' /\ OfName(n) # {} => OfName(n)' \subseteq OfName(n)
  BY <1>0 DEF Grows, OfName
<1>u. \A n : \A c \in OfName(n) : uid'[c] = uid[c]  BY <1>0 DEF OfName
<1>3. LookTyped'  BY <1>0 DEF LookInv, LookTyped
<1>4. CachedAreDocs'
  <2> SUFFICES ASSUME NEW k \in Kind, NEW n \in Name
               PROVE  (cached[k][n] \in OfName(n) \cup {NoDoc})'
    BY DEF CachedAreDocs
  <2>1. cached[k][n] \in OfName(n) \cup {NoDoc}
    BY DEF LookInv, CachedAreDocs
  <2> QED  BY <1>0, <1>1, <2>1
<1>5. ASSUME NEW q \in Lookup  PROVE LookOK(q)'
  <2> DEFINE n == NameOf[q]
  <2>0. LookOK(q)  BY DEF LookInv
  <2>1. HoldsDoc(q)'
    <3>1. found'[q] \in OfName(n)' \cup {NoDoc}
      BY <1>0, <1>1, <2>0 DEF LookOK, HoldsDoc
    <3>2. known[q] \subseteq Registration  BY <1>0
    <3> QED  BY <1>0, <2>0, <3>1, <3>2 DEF LookOK, HoldsDoc
  <2>2. TokenOf(q)'
    <3> SUFFICES ASSUME asks[q] = "login", look[q] = "answered"
                 PROVE  \E c \in OfName(n)' :
                          uid'[c] = answer[q] /\ PasswordOf[c] = PasswordOf[q]
      BY <1>0 DEF TokenOf
    <3>1. PICK c \in OfName(n) : uid[c] = answer[q] /\ PasswordOf[c] = PasswordOf[q]
      BY <2>0 DEF LookOK, TokenOf
    <3> QED  BY <1>1, <1>u, <3>1
  <2>3. AnswerOf(q)'
    <3> SUFFICES ASSUME look[q] = "answered", n \notin disturbed', q \notin garbled
                 PROVE  OfName(n)' # {} /\ \A c \in OfName(n)' : answer[q] = uid'[c]
      BY <1>0 DEF AnswerOf
    <3>1. OfName(n) # {} /\ \A c \in OfName(n) : answer[q] = uid[c]
      BY <1>0, <2>0 DEF LookOK, AnswerOf
    <3>2. OfName(n)' = OfName(n)  BY <1>1, <1>2, <3>1
    <3> QED  BY <1>u, <3>1, <3>2
  <2>4. OwnerOf(q)'
    BY <1>0, <2>0 DEF LookOK, OwnerOf
  <2> QED  BY <2>1, <2>2, <2>3, <2>4 DEF LookOK
<1> QED  BY <1>3, <1>4, <1>5 DEF LookInv

\* A name that has not been disturbed and whose owner is known has one document.
LEMMA OwnersDoc ==
  ASSUME RegInv, NEW n \in Name \ disturbed,
         NEW c \in Registration, reg[c] = "ok", NameOf[c] = n
  PROVE  OfName(n) = {c}
BY DEF RegInv, NamesUnique, NoHalfUserUnseen, OfName

\* A lookup that moves must be sound itself; the others are as they were.
LEMMA MoveKeepsLookInv ==
  ASSUME RegInv, LookInv, NEW q \in Lookup, NEW x, NEW f, NEW i,
         Finished(q, x, f, i), UNCHANGED regVars,
         LookTyped', CachedAreDocs',
         \A u \in Lookup \ {q} : /\ asks'[u] = asks[u]
                                 /\ known'[u] = known[u]
                                 /\ u \in garbled' <=> u \in garbled,
         LookOK(q)'
  PROVE  LookInv'
<1>1. ASSUME NEW u \in Lookup \ {q}  PROVE LookOK(u)'
  <2>1. /\ look'[u] = look[u] /\ found'[u] = found[u] /\ answer'[u] = answer[u]
        /\ asks'[u] = asks[u] /\ known'[u] = known[u]
        /\ u \in garbled' <=> u \in garbled
    BY DEF Finished, LookInv, LookTyped
  <2>2. UNCHANGED <<reg, uid, docs, disturbed>>  BY DEF regVars
  <2>3. LookOK(u)  BY DEF LookInv
  <2>4. HoldsDoc(u)'  BY <2>1, <2>2, <2>3 DEF LookOK, HoldsDoc, OfName
  <2>5. TokenOf(u)'  BY <2>1, <2>2, <2>3 DEF LookOK, TokenOf, OfName
  <2>6. AnswerOf(u)'  BY <2>1, <2>2, <2>3 DEF LookOK, AnswerOf, OfName
  <2>7. OwnerOf(u)'  BY <2>1, <2>2, <2>3 DEF LookOK, OwnerOf
  <2> QED  BY <2>4, <2>5, <2>6, <2>7 DEF LookOK
<1> QED  BY <1>1 DEF LookInv

\* A lookup leaves memcached, or the pool, with a document, with an answer,
\* or with nothing.
LEMMA BeginKeepsLookInv ==
  ASSUME RegInv, LookInv, NEW q \in Lookup, NEW k \in Kind,
         AskCache(q, k) \/ CacheFails(q, k) \/ PoolFails(q, k)
  PROVE  LookInv' /\ UNCHANGED regVars
<1> DEFINE n == NameOf[q]
           d == InCache(q, k)
<1>0. /\ n \in Name
      /\ LookTyped
      /\ regVars' = regVars
      /\ UNCHANGED <<reg, uid, docs, graph, disturbed, cached>>
      /\ Registration \cap Lookup = {}
      /\ NoDoc \notin Registration
      /\ look[q] = "idle"
      /\ asks' = [asks EXCEPT ![q] = k]
      /\ known' = [known EXCEPT ![q] = {c \in Registration : reg[c] = "ok"}]
      /\ garbled' \in {garbled, garbled \cup {q}}
      /\ docs \subseteq Registration
  BY UserAssumption DEF AskCache, CacheFails, PoolFails, Begins, regVars, Call,
                        LookInv, RegInv, RegTyped
<1>1. /\ asks'[q] = k
      /\ known'[q] = {c \in Registration : reg[c] = "ok"}
      /\ \A u \in Lookup \ {q} : /\ asks'[u] = asks[u]
                                 /\ known'[u] = known[u]
                                 /\ u \in garbled' <=> u \in garbled
  BY <1>0 DEF LookTyped
<1>2. d \in OfName(n) \cup {NoDoc}
  BY <1>0 DEF InCache, LookInv, CachedAreDocs
<1>3. CachedAreDocs'  BY <1>0 DEF LookInv, CachedAreDocs, OfName
<1>4. ASSUME NEW x \in {"missed", "answered", "refused", "failed"},
             NEW i \in Id \cup {NoId}, Finished(q, x, NoDoc, i),
             x = "answered" =>
               \/ k = "id" /\ q \in garbled'
               \/ d \in OfName(n) /\ Authenticates(q, k, d) /\ i = uid[d],
             x = "refused" => d \in OfName(n) /\ ~Authenticates(q, k, d)
      PROVE  LookInv'
  <2>1. look'[q] = x /\ found'[q] = NoDoc /\ answer'[q] = i
    BY <1>0, <1>4 DEF Finished, LookTyped
  <2>2. LookTyped'
    <3>1. /\ look' = [look EXCEPT ![q] = x]
          /\ found' = [found EXCEPT ![q] = NoDoc]
          /\ answer' = [answer EXCEPT ![q] = i]
      BY <1>4 DEF Finished
    <3>2. look' \in [Lookup -> {"idle", "answered", "unknown", "refused", "failed"} \cup LookActive]
      BY <1>0, <3>1 DEF LookTyped, LookActive
    <3>3. /\ known' \in [Lookup -> SUBSET Registration]
          /\ asks' \in [Lookup -> Kind]
          /\ garbled' \subseteq Lookup
      BY <1>0 DEF LookTyped
    <3> QED  BY <1>0, <3>1, <3>2, <3>3 DEF LookTyped
  <2>3. HoldsDoc(q)'  BY <1>0, <1>1, <2>1 DEF HoldsDoc
  <2>4. OfName(n)' = OfName(n)  BY <1>0 DEF OfName
  <2>5. TokenOf(q)'
    BY <1>0, <1>1, <1>4, <2>1, <2>4 DEF TokenOf, Authenticates
  <2>6. AnswerOf(q)'
    <3> SUFFICES ASSUME x = "answered", n \notin disturbed, q \notin garbled'
                 PROVE  OfName(n) # {} /\ \A c \in OfName(n) : i = uid[c]
      BY <1>0, <2>1, <2>4 DEF AnswerOf
    <3>1. d \in OfName(n) /\ i = uid[d]  BY <1>4
    <3> QED  BY <3>1 DEF RegInv, NamesUnique, OfName
  <2>7. OwnerOf(q)'
    <3> SUFFICES ASSUME NEW c \in Registration, reg[c] = "ok",
                        NameOf[c] = n, n \notin disturbed
                 PROVE  x # "unknown" /\ (x = "refused" => PasswordOf[c] # PasswordOf[q])
      BY <1>0, <1>1, <2>1 DEF OwnerOf
    <3>1. OfName(n) = {c}  BY <1>0, OwnersDoc
    <3> QED  BY <1>4, <3>1 DEF Authenticates
  <2>8. LookOK(q)'  BY <2>3, <2>5, <2>6, <2>7 DEF LookOK
  <2> QED  BY <1>0, <1>1, <1>3, <1>4, <2>2, <2>8, MoveKeepsLookInv
<1>5. CASE AskCache(q, k)
  <2>1. CASE d = NoDoc
    <3>1. Finished(q, "missed", NoDoc, NoId)  BY <1>5, <2>1 DEF AskCache
    <3> QED  BY <1>0, <1>4, <3>1
  <2>2. CASE d # NoDoc /\ Authenticates(q, k, d)
    <3>1. Finished(q, "answered", NoDoc, uid[d])  BY <1>5, <2>2 DEF AskCache
    <3>2. d \in OfName(n) /\ uid[d] \in Id \cup {NoId}
      BY <1>0, <1>2, <2>2 DEF RegInv, RegTyped, OfName
    <3> HIDE DEF d, n
    <3> QED  BY <1>0, <1>4, <2>2, <3>1, <3>2
  <2>3. CASE d # NoDoc /\ ~Authenticates(q, k, d)
    <3>1. Finished(q, "refused", NoDoc, NoId)  BY <1>5, <2>3 DEF AskCache
    <3>2. d \in OfName(n)  BY <1>2, <2>3
    <3> HIDE DEF d, n
    <3> QED  BY <1>0, <1>4, <2>3, <3>1, <3>2
  <2> QED  BY <2>1, <2>2, <2>3
<1>6. CASE CacheFails(q, k)
  BY <1>0, <1>4, <1>6 DEF CacheFails
<1>7. CASE PoolFails(q, k)
  <2>1. q \in garbled'  BY <1>7 DEF PoolFails
  <2> QED  BY <1>0, <1>4, <1>7, <2>1 DEF PoolFails
<1> QED  BY <1>5, <1>6, <1>7

\* The steps between the question and the answer.
LEMMA OnwardKeepsLookInv ==
  ASSUME RegInv, LookInv, NEW q \in Lookup,
         AskMongo(q) \/ FindFails(q) \/ Refuse(q) \/ Answer(q)
  PROVE  LookInv' /\ UNCHANGED regVars
<1> DEFINE n == NameOf[q]
           d == found[q]
<1>0. /\ n \in Name
      /\ LookTyped
      /\ regVars' = regVars
      /\ UNCHANGED <<reg, uid, docs, graph, disturbed, asks, known, garbled>>
      /\ NoDoc \notin Registration
      /\ docs \subseteq Registration
      /\ look[q] \in {"missed", "found"}
      /\ asks[q] \in Kind
  BY UserAssumption DEF AskMongo, FindFails, Refuse, Answer, regVars, Call,
                        LookInv, LookTyped, RegInv, RegTyped
<1>1. /\ HoldsDoc(q)
      /\ look[q] = "found" => d \in OfName(n)
  BY DEF LookInv, LookOK, HoldsDoc
<1>2. OfName(n)' = OfName(n)  BY <1>0 DEF OfName
<1>3. ASSUME NEW x \in {"answered", "unknown", "refused", "failed", "found"},
             NEW f \in OfName(n) \cup {NoDoc}, NEW i \in Id \cup {NoId},
             Finished(q, x, f, i),
             x = "found" => f # NoDoc,
             x = "answered" =>
               look[q] = "found" /\ Authenticates(q, asks[q], d) /\ i = uid[d],
             x = "refused" => look[q] = "found" /\ ~Authenticates(q, asks[q], d),
             x = "unknown" => OfName(n) = {},
             CachedAreDocs', cached' \in [Kind -> [Name -> Registration \cup {NoDoc}]]
      PROVE  LookInv'
  <2>1. look'[q] = x /\ found'[q] = f /\ answer'[q] = i
    BY <1>0, <1>3 DEF Finished, LookTyped
  <2>2. LookTyped'
    <3>1. /\ look' = [look EXCEPT ![q] = x]
          /\ found' = [found EXCEPT ![q] = f]
          /\ answer' = [answer EXCEPT ![q] = i]
      BY <1>3 DEF Finished
    <3>2. look' \in [Lookup -> {"idle", "answered", "unknown", "refused", "failed"} \cup LookActive]
      BY <1>0, <3>1 DEF LookTyped, LookActive
    <3>3. f \in Registration \cup {NoDoc}  BY <1>0, <1>3 DEF OfName
    <3> QED  BY <1>0, <1>3, <3>1, <3>2, <3>3 DEF LookTyped
  <2>3. HoldsDoc(q)'
    BY <1>0, <1>1, <1>2, <1>3, <2>1 DEF HoldsDoc
  <2>4. TokenOf(q)'
    BY <1>0, <1>1, <1>2, <1>3, <2>1 DEF TokenOf, Authenticates
  <2>5. AnswerOf(q)'
    <3> SUFFICES ASSUME x = "answered", n \notin disturbed
                 PROVE  OfName(n) # {} /\ \A c \in OfName(n) : i = uid[c]
      BY <1>0, <1>2, <2>1 DEF AnswerOf
    <3>1. d \in OfName(n) /\ i = uid[d]  BY <1>1, <1>3
    <3> QED  BY <3>1 DEF RegInv, NamesUnique, OfName
  <2>6. OwnerOf(q)'
    <3> SUFFICES ASSUME NEW c \in known[q], NameOf[c] = n, n \notin disturbed
                 PROVE  x # "unknown" /\ (x = "refused" => PasswordOf[c] # PasswordOf[q])
      BY <1>0, <2>1 DEF OwnerOf
    <3>1. c \in Registration /\ reg[c] = "ok"
      BY <1>0, <1>1 DEF HoldsDoc, LookTyped
    <3>2. OfName(n) = {c}  BY <1>0, <3>1, OwnersDoc
    <3> QED  BY <1>1, <1>3, <3>2 DEF Authenticates
  <2>7. LookOK(q)'  BY <2>3, <2>4, <2>5, <2>6 DEF LookOK
  <2>8. \A u \in Lookup \ {q} : /\ asks'[u] = asks[u]
                                /\ known'[u] = known[u]
                                /\ u \in garbled' <=> u \in garbled
    BY <1>0
  <2> QED  BY <1>0, <1>3, <2>2, <2>7, <2>8, MoveKeepsLookInv
<1>4. ASSUME UNCHANGED cached
      PROVE  /\ CachedAreDocs'
             /\ cached' \in [Kind -> [Name -> Registration \cup {NoDoc}]]
  BY <1>0, <1>4 DEF LookInv, CachedAreDocs, OfName, LookTyped
<1>5. CASE AskMongo(q)
  <2>1. CASE OfName(n) = {} /\ Finished(q, "unknown", NoDoc, NoId)
    BY <1>3, <1>4, <1>5, <2>1 DEF AskMongo
  <2>2. ASSUME NEW c \in OfName(n), Finished(q, "found", c, NoId)  PROVE LookInv'
    <3>1. c # NoDoc  BY <1>0 DEF OfName
    <3> QED  BY <1>3, <1>4, <1>5, <2>2, <3>1 DEF AskMongo
  <2> QED  BY <1>5, <2>1, <2>2 DEF AskMongo
<1>6. CASE FindFails(q)
  BY <1>3, <1>4, <1>6 DEF FindFails
<1>7. CASE Refuse(q)
  BY <1>3, <1>4, <1>7 DEF Refuse
<1>8. CASE Answer(q)
  <2>1. d \in OfName(n) /\ d \in Registration /\ uid[d] \in Id \cup {NoId}
    BY <1>0, <1>1, <1>8 DEF Answer, OfName, RegInv, RegTyped
  <2>2. /\ CachedAreDocs'
        /\ cached' \in [Kind -> [Name -> Registration \cup {NoDoc}]]
    <3>1. CASE Fill(q)
      <4>1. cached' = [cached EXCEPT ![asks[q]] = [@ EXCEPT ![n] = d]]
        BY <3>1 DEF Fill, FillKey
      <4>2. cached' \in [Kind -> [Name -> Registration \cup {NoDoc}]]
        BY <1>0, <2>1, <4>1 DEF LookTyped
      <4>3. ASSUME NEW k \in Kind, NEW m \in Name
            PROVE  cached'[k][m] \in OfName(m)' \cup {NoDoc}
        <5>1. cached[k][m] \in OfName(m) \cup {NoDoc}  BY DEF LookInv, CachedAreDocs
        <5>2. cached'[k][m] = cached[k][m] \/ (m = n /\ cached'[k][m] = d)
          BY <1>0, <4>1 DEF LookTyped
        <5>3. OfName(m)' = OfName(m)  BY <1>0 DEF OfName
        <5> QED  BY <2>1, <5>1, <5>2, <5>3
      <4> QED  BY <4>2, <4>3 DEF CachedAreDocs
    <3>2. CASE UNCHANGED cached  BY <1>4, <3>2
    <3> QED  BY <1>8, <3>1, <3>2 DEF Answer
  <2>3. Finished(q, "answered", NoDoc, uid[d])  BY <1>8 DEF Answer
  <2>4. look[q] = "found" /\ Authenticates(q, asks[q], d)  BY <1>8 DEF Answer
  <2> QED  BY <1>0, <1>3, <2>1, <2>2, <2>3, <2>4
<1> QED  BY <1>0, <1>5, <1>6, <1>7, <1>8

\* A key that memcached drops is a miss.
LEMMA EvictKeepsLookInv ==
  ASSUME RegInv, LookInv, NEW k \in Kind, NEW n \in Name, Evict(k, n)
  PROVE  LookInv' /\ UNCHANGED regVars
<1>0. /\ UNCHANGED <<reg, uid, docs, graph, disturbed>>
      /\ UNCHANGED <<asks, look, found, answer, known, garbled>>
      /\ cached \in [Kind -> [Name -> Registration \cup {NoDoc}]]
      /\ cached' = [cached EXCEPT ![k] = [@ EXCEPT ![n] = NoDoc]]
  BY DEF Evict, regVars, lookVars, LookInv, LookTyped
<1>1. LookTyped'  BY <1>0 DEF LookInv, LookTyped
<1>2. CachedAreDocs'
  <2> SUFFICES ASSUME NEW h \in Kind, NEW m \in Name
               PROVE  cached'[h][m] \in OfName(m)' \cup {NoDoc}
    BY DEF CachedAreDocs
  <2>1. cached[h][m] \in OfName(m) \cup {NoDoc}  BY DEF LookInv, CachedAreDocs
  <2>2. cached'[h][m] \in {cached[h][m], NoDoc}  BY <1>0
  <2>3. OfName(m)' = OfName(m)  BY <1>0 DEF OfName
  <2> QED  BY <2>1, <2>2, <2>3
<1>3. \A q \in Lookup : LookOK(q)'
  BY <1>0 DEF LookInv, LookOK, HoldsDoc, TokenOf, AnswerOf, OwnerOf, OfName
<1> QED  BY <1>1, <1>2, <1>3 DEF LookInv, Evict

\* A process that dies fails the lookups it was serving.
LEMMA DeathKeepsLookInv ==
  ASSUME RegInv, LookInv, NEW s \in Server, Dies(s)
  PROVE  LookInv'
<1>0. /\ UNCHANGED <<uid, docs, graph, disturbed>>
      /\ UNCHANGED <<asks, answer, known, garbled, cached>>
      /\ LookTyped
      /\ \A c \in Registration : reg[c] = "ok" => reg'[c] = "ok"
  BY DeathKeepsRegInv DEF Dies, LookInv, Grows
<1>1. \A q \in Lookup :
        \/ look'[q] = look[q] /\ found'[q] = found[q]
        \/ look'[q] = "failed" /\ found'[q] = NoDoc
  BY DEF Dies
<1>2. LookTyped'
  <2>1. /\ look' \in [Lookup -> {"idle", "answered", "unknown", "refused", "failed"} \cup LookActive]
        /\ found' \in [Lookup -> Registration \cup {NoDoc}]
    BY <1>0 DEF Dies, LookTyped
  <2> QED  BY <1>0, <2>1 DEF LookTyped
<1>3. CachedAreDocs'  BY <1>0 DEF LookInv, CachedAreDocs, OfName
<1>4. ASSUME NEW q \in Lookup  PROVE LookOK(q)'
  <2>0. LookOK(q) /\ known[q] \subseteq Registration  BY <1>0 DEF LookInv, LookTyped
  <2>1. HoldsDoc(q)'  BY <1>0, <1>1, <2>0 DEF LookOK, HoldsDoc, OfName
  <2>2. TokenOf(q)'  BY <1>0, <1>1, <2>0 DEF LookOK, TokenOf, OfName
  <2>3. AnswerOf(q)'  BY <1>0, <1>1, <2>0 DEF LookOK, AnswerOf, OfName
  <2>4. OwnerOf(q)'  BY <1>0, <1>1, <2>0 DEF LookOK, OwnerOf
  <2> QED  BY <2>1, <2>2, <2>3, <2>4 DEF LookOK
<1> QED  BY <1>2, <1>3, <1>4 DEF LookInv

-----------------------------------------------------------------------------
(* The theorems *)

IInv == IdInv /\ RegInv /\ LookInv /\ failures \in 0 .. MaxFailures

\* A step counts a failure or it does not.
LEMMA FailuresTyped ==
  ASSUME failures \in 0 .. MaxFailures, Next
  PROVE  failures' \in 0 .. MaxFailures
<1>1. UNCHANGED failures \/ Failure
  BY DEF Next, RegisterUser, RegisterUserWithId, FindName, MongoFails, Insert,
         InsertRefused, InsertUser, InsertUserFails, Lands, AskCache, CacheFails,
         PoolFails, AskMongo, FindFails, Refuse, Answer, Evict, ClockMoves, Dies,
         AnotherRegisters
<1> QED  BY <1>1, UserAssumption DEF Failure

\* Only the making of an identifier, the clock and a restart touch UniqueId.
LEMMA NextIsIdStep == Next => IdStep
<1> SUFFICES ASSUME Next PROVE IdStep  OBVIOUS
<1>1. ASSUME NEW c \in Registration, RegStep(c)  PROVE IdStep
  <2>1. HostOf[c] \in Server  BY UserAssumption DEF Call
  <2> QED
    BY <1>1, <2>1 DEF RegStep, IdStep, RegisterUser, RegisterUserWithId, FindName,
       MongoFails, Insert, InsertRefused, InsertUser, InsertUserFails, Lands
<1>2. ASSUME NEW q \in Lookup,
             \/ \E k \in Kind : AskCache(q, k) \/ CacheFails(q, k) \/ PoolFails(q, k)
             \/ AskMongo(q) \/ FindFails(q) \/ Refuse(q) \/ Answer(q)
      PROVE  IdStep
  BY <1>2 DEF IdStep, AskCache, CacheFails, PoolFails, AskMongo, FindFails, Refuse,
              Answer
<1>3. ASSUME NEW k \in Kind, NEW n \in Name, Evict(k, n)  PROVE IdStep
  BY <1>3 DEF Evict, IdStep
<1>4. ASSUME NEW s \in Server, ClockMoves(s) \/ Dies(s) \/ AnotherRegisters(s)
      PROVE  IdStep
  BY <1>4 DEF IdStep, ClockMoves, Dies, Exits, AnotherRegisters
<1> QED  BY <1>1, <1>2, <1>3, <1>4 DEF Next, RegStep

LEMMA NextKeepsIInv == IInv /\ [Next]_vars => IInv'
<1> SUFFICES ASSUME IInv, [Next]_vars PROVE IInv'  OBVIOUS
<1>1. CASE Next
  <2>1. IdInv' /\ failures' \in 0 .. MaxFailures
    BY <1>1, NextIsIdStep, StepKeepsIdInv, FailuresTyped DEF IInv
  <2>2. ASSUME UNCHANGED regVars  PROVE RegInv'
    BY <2>2 DEF IInv, regVars, RegInv, RegTyped, Started, RivalsSeen, NamesUnique,
                NoHalfUserUnseen, OfName, Open
  <2>3. ASSUME UNCHANGED regVars, UNCHANGED <<lookVars, cached>>
        PROVE  LookInv'
    BY <2>3 DEF IInv, regVars, lookVars, LookInv, LookTyped, CachedAreDocs, LookOK,
                HoldsDoc, TokenOf, AnswerOf, OwnerOf, OfName
  <2>4. ASSUME NEW c \in Registration, RegStep(c)  PROVE RegInv' /\ LookInv'
    BY <2>4, RegStepKeepsRegInv, GrowsKeepsLookInv DEF IInv
  <2>5. ASSUME NEW q \in Lookup,
               \/ \E k \in Kind : AskCache(q, k) \/ CacheFails(q, k) \/ PoolFails(q, k)
               \/ AskMongo(q) \/ FindFails(q) \/ Refuse(q) \/ Answer(q)
        PROVE  RegInv' /\ LookInv'
    BY <2>2, <2>5, BeginKeepsLookInv, OnwardKeepsLookInv DEF IInv
  <2>6. ASSUME NEW k \in Kind, NEW n \in Name, Evict(k, n)  PROVE RegInv' /\ LookInv'
    BY <2>2, <2>6, EvictKeepsLookInv DEF IInv
  <2>7. ASSUME NEW s \in Server, ClockMoves(s) \/ AnotherRegisters(s)
        PROVE  RegInv' /\ LookInv'
    BY <2>2, <2>3, <2>7 DEF ClockMoves, AnotherRegisters
  <2>8. ASSUME NEW s \in Server, Dies(s)  PROVE RegInv' /\ LookInv'
    BY <2>8, DeathKeepsRegInv, DeathKeepsLookInv DEF IInv
  <2> QED
    BY <1>1, <2>1, <2>4, <2>5, <2>6, <2>7, <2>8 DEF Next, RegStep, IInv
<1>2. CASE UNCHANGED vars
  BY <1>2 DEF vars, regVars, lookVars, idVars, IInv, IdInv, IdTypeOK, IssuedBehind,
              Behind, IssuedInOrder, SameProcess, Earlier, RegInv, RegTyped, Started,
              RivalsSeen, Open, NamesUnique, NoHalfUserUnseen, LookInv, LookTyped,
              CachedAreDocs, LookOK, HoldsDoc, TokenOf, AnswerOf, OwnerOf, OfName
<1> QED  BY <1>1, <1>2

LEMMA InitIInv == Init => IInv
<1> SUFFICES ASSUME Init PROVE IInv  OBVIOUS
<1> USE UserAssumption, IdAssumption
<1>1. IdInv
  BY DEF Init, IdInit, IdInv, IdTypeOK, IssuedBehind, IssuedInOrder
<1>2. RegInv
  BY DEF Init, RegInv, RegTyped, Started, RivalsSeen, NamesUnique,
         NoHalfUserUnseen, OfName
<1>3. LookTyped
  BY DEF Init, LookTyped, Kind
<1>4. CachedAreDocs  BY DEF Init, CachedAreDocs
<1>5. \A q \in Lookup : LookOK(q)
  BY DEF Init, LookOK, HoldsDoc, TokenOf, AnswerOf, OwnerOf
<1>6. failures \in 0 .. MaxFailures  BY DEF Init
<1> QED  BY <1>1, <1>2, <1>3, <1>4, <1>5, <1>6 DEF IInv, LookInv

LEMMA InvariantIInv == Spec => []IInv
BY InitIInv, NextKeepsIInv, PTL DEF Spec

\* The state keeps its type.
THEOREM TypeCorrect == Spec => []TypeOK
<1>1. IInv => TypeOK
  BY DEF IInv, IdInv, RegInv, RegTyped, LookInv, LookTyped, TypeOK
<1> QED  BY <1>1, InvariantIInv, PTL

\* A process of UniqueIdService, or of UserService, gives two calls two
\* identifiers while count and time fit their digits, whatever the clock does.
THEOREM IdsCorrect == Spec => []NoClash
<1>1. IInv => NoClash  BY OrderedNeverClash DEF IInv
<1> QED  BY <1>1, InvariantIInv, PTL

\* A second user of a name has overlapped the first one's registration.
THEOREM NamesCorrect == Spec => []NamesUnique
<1>1. IInv => NamesUnique  BY DEF IInv, RegInv
<1> QED  BY <1>1, InvariantIInv, PTL

\* Only a registration that failed, or runs, leaves a user out of the graph.
THEOREM HalfUsersCorrect == Spec => []NoHalfUserUnseen
<1>1. IInv => NoHalfUserUnseen  BY DEF IInv, RegInv
<1> QED  BY <1>1, InvariantIInv, PTL

\* The lookups of a name agree, through either key of memcached.
THEOREM IdentityCorrect == Spec => []OneIdentity
<1>1. IInv => OneIdentity
  <2> SUFFICES ASSUME IInv, NEW q \in Lookup, look[q] = "answered",
                      NameOf[q] \notin disturbed, q \notin garbled
               PROVE  LET n == NameOf[q] IN
                        /\ OfName(n) # {}
                        /\ \A c \in OfName(n) : answer[q] = uid[c]
                        /\ \A k \in Kind : cached[k][n] \in OfName(n) \cup {NoDoc}
    BY DEF OneIdentity
  <2>1. NameOf[q] \in Name  BY UserAssumption DEF Call
  <2>2. AnswerOf(q) /\ CachedAreDocs  BY DEF IInv, LookInv, LookOK
  <2> QED  BY <2>1, <2>2 DEF AnswerOf, CachedAreDocs
<1> QED  BY <1>1, InvariantIInv, PTL

\* A token names a user of that name whose password was given.
THEOREM TokenCorrect == Spec => []TokenIsOwners
<1>1. IInv => TokenIsOwners
  BY DEF IInv, LookInv, LookOK, TokenOf, TokenIsOwners
<1> QED  BY <1>1, InvariantIInv, PTL

\* Who has been registered is found, and let in with the password.
THEOREM OwnersCorrect == Spec => []OwnersGetIn
<1>1. IInv => OwnersGetIn
  BY DEF IInv, LookInv, LookOK, OwnerOf, OwnersGetIn
<1> QED  BY <1>1, InvariantIInv, PTL

-----------------------------------------------------------------------------
(* Without the history: registrations that follow one another *)

\* No two registrations of the name are between their find and their insert, which
\* may come late.
Apart(n) ==
  \A c, d \in Registration :
    NameOf[c] = n /\ NameOf[d] = n /\ Open(c) /\ Open(d) => c = d

\* A name whose registrations keep apart has one user, and whoever has registered it
\* is found under it and let in with the password, whatever fails.
THEOREM ApartHaveOneUser ==
  ASSUME NEW n \in Name
  PROVE  Spec /\ []Apart(n) =>
           []( /\ \A c, d \in OfName(n) : c = d
               /\ \A q \in Lookup : \A c \in known[q] :
                    NameOf[q] = n /\ NameOf[c] = n =>
                      /\ look[q] # "unknown"
                      /\ look[q] = "refused" => PasswordOf[c] # PasswordOf[q] )
<1> DEFINE J == n \notin disturbed
           Right == /\ \A c, d \in OfName(n) : c = d
                    /\ \A q \in Lookup : \A c \in known[q] :
                         NameOf[q] = n /\ NameOf[c] = n =>
                           /\ look[q] # "unknown"
                           /\ look[q] = "refused" => PasswordOf[c] # PasswordOf[q]
<1>1. Init => J  BY DEF Init
<1>2. J /\ Apart(n) /\ [Next]_vars => J'
  <2> SUFFICES ASSUME J, Apart(n), [Next]_vars PROVE J'
    OBVIOUS
  <2>1. CASE UNCHANGED regVars  BY <2>1 DEF regVars
  <2>2. ASSUME NEW c \in Registration, Enters(c), Open(c) PROVE J'
    <3>1. CASE NameOf[c] = n
      <4>1. Rivals(c) = {}  BY <2>2, <3>1 DEF Apart, Rivals
      <4> QED  BY <2>2, <4>1 DEF Enters
    <3>2. CASE NameOf[c] # n  BY <2>2, <3>2 DEF Enters
    <3> QED  BY <3>1, <3>2
  <2>3. ASSUME NEW c \in Registration,
               \/ RegisterUser(c) \/ RegisterUserWithId(c) \/ FindName(c)
               \/ InsertRefused(c) \/ InsertUser(c) \/ InsertUserFails(c)
        PROVE J'
    BY <2>3 DEF RegisterUser, RegisterUserWithId, FindName, InsertRefused, InsertUser,
                InsertUserFails
  <2>4. ASSUME NEW c \in Registration, Insert(c) PROVE J'
    BY <2>2, <2>4 DEF Insert, Open
  <2>5. ASSUME NEW c \in Registration, MongoFails(c) PROVE J'
    BY <2>5 DEF MongoFails
  <2>11. ASSUME NEW c \in Registration, Lands(c) PROVE J'
    BY <2>2, <2>11 DEF Lands, Open
  <2>6. ASSUME NEW q \in Lookup,
               \/ \E k \in Kind : AskCache(q, k) \/ CacheFails(q, k) \/ PoolFails(q, k)
               \/ AskMongo(q) \/ FindFails(q) \/ Refuse(q) \/ Answer(q)
        PROVE J'
    BY <2>1, <2>6 DEF AskCache, CacheFails, PoolFails, AskMongo, FindFails, Refuse, Answer
  <2>7. ASSUME NEW k \in Kind, NEW m \in Name, Evict(k, m) PROVE J'
    BY <2>1, <2>7 DEF Evict
  <2>8. ASSUME NEW s \in Server, ClockMoves(s) \/ AnotherRegisters(s) PROVE J'
    BY <2>1, <2>8 DEF ClockMoves, AnotherRegisters
  <2>9. ASSUME NEW s \in Server, Dies(s) PROVE J'
    BY <2>9 DEF Dies
  <2>10. CASE UNCHANGED vars  BY <2>1, <2>10 DEF vars
  <2> QED
    BY <2>2, <2>3, <2>4, <2>5, <2>6, <2>7, <2>8, <2>9, <2>10, <2>11 DEF Next
<1>3. NamesUnique /\ OwnersGetIn /\ J => Right
  BY DEF NamesUnique, OwnersGetIn, OfName
<1> HIDE DEF J, Right
<1>4. Spec /\ []Apart(n) => []Right
  BY <1>1, <1>2, <1>3, NamesCorrect, OwnersCorrect, PTL DEF Spec
<1> QED  BY <1>4 DEF Right
=============================================================================
