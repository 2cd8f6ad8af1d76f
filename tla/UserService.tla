----------------------------- MODULE UserService -----------------------------
(***************************************************************************)
(* UserService of socialNetwork (UserHandler.h).  A registration looks the *)
(* name up, inserts a document and then tells SocialGraphService; the only *)
(* index that MongoDB has is on user_id.  Login, GetUserId and             *)
(* ComposeCreatorWithUsername read the document through memcached, the     *)
(* first under another key than the others.  Identifiers come from         *)
(* UniqueId, of which the handler has a copy; a process that exits because *)
(* its clock went back takes the calls it was serving with it.             *)
(***************************************************************************)
EXTENDS UniqueId

CONSTANTS
  Registration, Lookup,   \* the calls that are made, each once
  Name, Password,
  NameOf, PasswordOf,     \* what a call is made with
  HostOf,                 \* the host that serves it
  NoDoc, NoId,
  MaxFailures,            \* bound on failures and on keys that memcached loses
  MaxIssued               \* bound on the identifiers that are made

VARIABLES
  reg,        \* where a registration is
  uid,        \* its user_id
  docs,       \* collection user: the registrations whose document is in
  graph,      \* the users that have a document in the social graph
  late,       \* what a registration had sent when it failed and is on its way:
              \* its document, its node of the social graph, or nothing
  asks,       \* what a lookup asks for: an identifier or a token
  look,       \* where it is
  found,      \* the document it has from MongoDB
  answer,     \* the user_id it returns; for a login, in the token
  cached,     \* memcached: keys name:user_id and name:login
  failures,
  disturbed,  \* history: the names inserted while a rival had found them free
  known,      \* history: the registrations that had returned when a lookup began
  garbled     \* history: the lookups that read the pointer nobody had set

Call == Registration \cup Lookup
Kind == {"id", "login"}

ASSUME UserAssumption ==
  /\ Registration \cap Lookup = {}
  /\ NameOf \in [Call -> Name]
  /\ PasswordOf \in [Call -> Password]
  /\ HostOf \in [Call -> Server]
  /\ NoDoc \notin Registration
  /\ NoId \notin Id
  /\ MaxFailures \in Nat
  /\ MaxIssued \in Nat

regVars == <<reg, uid, docs, graph, late, disturbed>>
lookVars == <<asks, look, found, answer, known, garbled>>
vars == <<regVars, lookVars, cached, failures, idVars>>

Init ==
  /\ reg = [c \in Registration |-> "idle"]
  /\ uid = [c \in Registration |-> NoId]
  /\ docs = {}
  /\ graph = {}
  /\ late = [c \in Registration |-> "nothing"]
  /\ asks = [q \in Lookup |-> "id"]
  /\ look = [q \in Lookup |-> "idle"]
  /\ found = [q \in Lookup |-> NoDoc]
  /\ answer = [q \in Lookup |-> NoId]
  /\ cached = [k \in Kind |-> [n \in Name |-> NoDoc]]
  /\ failures = 0
  /\ disturbed = {}
  /\ known = [q \in Lookup |-> {}]
  /\ garbled = {}
  /\ IdInit

OfName(n) == {c \in docs : NameOf[c] = n}

Failure ==
  /\ failures < MaxFailures
  /\ failures' = failures + 1

-----------------------------------------------------------------------------
(* RegisterUser and RegisterUserWithId *)

RegisterUser(c) ==
  /\ reg[c] = "idle"
  /\ Len(issued) < MaxIssued
  /\ ComposeUniqueId(HostOf[c])
  /\ reg' = [reg EXCEPT ![c] = "stamped"]
  /\ uid' = [uid EXCEPT ![c] = IdOf(issued'[Len(issued')])]
  /\ UNCHANGED <<docs, graph, late, disturbed, lookVars, cached, failures>>

\* A registration of some other name, for which the pool of MongoDB then has no
\* client: only the identifier it took matters.
AnotherRegisters(s) ==
  /\ Len(issued) < MaxIssued
  /\ ComposeUniqueId(s)
  /\ UNCHANGED <<regVars, lookVars, cached, failures>>

\* The caller brings an identifier, which may be anybody's.
RegisterUserWithId(c) ==
  /\ reg[c] = "idle"
  /\ reg' = [reg EXCEPT ![c] = "stamped"]
  /\ \E i \in Id : uid' = [uid EXCEPT ![c] = i]
  /\ UNCHANGED <<docs, graph, late, disturbed, lookVars, cached, failures, idVars>>

\* Wrong: the name is not looked up.
FindNameNever(c) ==
  /\ reg[c] = "stamped"
  /\ reg' = [reg EXCEPT ![c] = "free"]
  /\ UNCHANGED <<uid, docs, graph, late, disturbed, lookVars, cached, failures, idVars>>

FindName(c) ==
  /\ reg[c] = "stamped"
  /\ reg' = [reg EXCEPT ![c] = IF OfName(NameOf[c]) = {} THEN "free" ELSE "failed"]
  /\ UNCHANGED <<uid, docs, graph, late, disturbed, lookVars, cached, failures, idVars>>

\* The index on user_id.
Duplicate(c) == \E d \in docs : uid[d] = uid[c]

\* A registration has found its name free and its document may still get in.
Open(c) == reg[c] = "free" \/ late[c] = "document"
Rivals(c) == {d \in Registration \ {c} : NameOf[d] = NameOf[c] /\ Open(d)}

\* A document gets in; from here on lookups find it.
Enters(c) ==
  /\ ~Duplicate(c)
  /\ docs' = docs \cup {c}
  /\ disturbed' = IF Rivals(c) = {} THEN disturbed ELSE disturbed \cup {NameOf[c]}

\* Wrong: the write is not acknowledged.
InsertUnacknowledged(c) ==
  /\ reg[c] = "free"
  /\ Enters(c) \/ UNCHANGED <<docs, disturbed>>
  /\ reg' = [reg EXCEPT ![c] = "inserted"]
  /\ UNCHANGED <<uid, graph, late, lookVars, cached, failures, idVars>>

Insert(c) ==
  /\ reg[c] = "free"
  /\ Enters(c)
  /\ reg' = [reg EXCEPT ![c] = "inserted"]
  /\ UNCHANGED <<uid, graph, late, lookVars, cached, failures, idVars>>

InsertRefused(c) ==
  /\ reg[c] = "free"
  /\ Duplicate(c)
  /\ reg' = [reg EXCEPT ![c] = "failed"]
  /\ UNCHANGED <<uid, docs, graph, late, disturbed, lookVars, cached, failures, idVars>>

\* What a registration that fails has on its way.
Sent(c) == IF reg[c] = "free" THEN "document"
           ELSE IF reg[c] = "inserted" THEN "node" ELSE "nothing"

\* No client in the pool, or the find fails, or the insert does, which may take
\* effect all the same, now or later.
MongoFails(c) ==
  /\ reg[c] \in {"stamped", "free"}
  /\ Failure
  /\ late' = [late EXCEPT ![c] = Sent(c)]
  /\ reg' = [reg EXCEPT ![c] = "failed"]
  /\ UNCHANGED <<uid, docs, graph, disturbed, lookVars, cached, idVars>>

\* InsertUser of SocialGraphService.
InsertUser(c) ==
  /\ reg[c] = "inserted"
  /\ graph' = graph \cup {uid[c]}
  /\ reg' = [reg EXCEPT ![c] = "ok"]
  /\ UNCHANGED <<uid, docs, late, disturbed, lookVars, cached, failures, idVars>>

\* Wrong: the exception is only logged.
InsertUserFailsUnseen(c) ==
  /\ reg[c] = "inserted"
  /\ Failure
  /\ late' = [late EXCEPT ![c] = Sent(c)]
  /\ reg' = [reg EXCEPT ![c] = "ok"]
  /\ UNCHANGED <<uid, docs, graph, disturbed, lookVars, cached, idVars>>

\* No connection, or the call throws: the client is removed, the exception
\* goes on to the caller, and the document stays.
InsertUserFails(c) ==
  /\ reg[c] = "inserted"
  /\ Failure
  /\ late' = [late EXCEPT ![c] = Sent(c)]
  /\ reg' = [reg EXCEPT ![c] = "failed"]
  /\ UNCHANGED <<uid, docs, graph, disturbed, lookVars, cached, idVars>>

\* What a failed registration had sent takes effect, though nobody waits for it.
Lands(c) ==
  /\ \/ late[c] = "document" /\ Enters(c) /\ UNCHANGED graph
     \/ late[c] = "node" /\ graph' = graph \cup {uid[c]} /\ UNCHANGED <<docs, disturbed>>
  /\ late' = [late EXCEPT ![c] = "nothing"]
  /\ UNCHANGED <<reg, uid, lookVars, cached, failures, idVars>>

-----------------------------------------------------------------------------
(* Login, GetUserId and ComposeCreatorWithUsername *)

InCache(q, k) == cached[k][NameOf[q]]

Finished(q, s, f, i) ==
  /\ look' = [look EXCEPT ![q] = s]
  /\ found' = [found EXCEPT ![q] = f]
  /\ answer' = [answer EXCEPT ![q] = i]

Begins(q, k) ==
  /\ look[q] = "idle"
  /\ asks' = [asks EXCEPT ![q] = k]
  /\ known' = [known EXCEPT ![q] = {c \in Registration : reg[c] = "ok"}]

\* Wrong: only the password from MongoDB is compared, not the cached one.
AuthenticatesOnce(q, k, c) ==
  k = "login" /\ look[q] = "found" => PasswordOf[q] = PasswordOf[c]

\* The password and the salt of the document against the password of a login.
Authenticates(q, k, c) == k = "login" => PasswordOf[q] = PasswordOf[c]

AskCache(q, k) ==
  /\ Begins(q, k)
  /\ IF InCache(q, k) = NoDoc THEN Finished(q, "missed", NoDoc, NoId)
     ELSE IF Authenticates(q, k, InCache(q, k))
     THEN Finished(q, "answered", NoDoc, uid[InCache(q, k)])
     ELSE Finished(q, "refused", NoDoc, NoId)
  /\ UNCHANGED <<garbled, regVars, cached, failures, idVars>>

\* An error of memcached ends the lookup of an identifier; a login goes on.
CacheFails(q, k) ==
  /\ Begins(q, k)
  /\ Failure
  /\ Finished(q, IF k = "login" THEN "missed" ELSE "failed", NoDoc, NoId)
  /\ UNCHANGED <<garbled, regVars, cached, idVars>>

\* The pool of memcached gives no client.  Then user_id_mmc and login_mmc are
\* read without having been set: null is a miss, anything else is an address
\* that is parsed, as a number by stoul (any may come out) or as JSON (which
\* throws).  That it may crash the process is in Dies.
PoolFails(q, k) ==
  /\ Begins(q, k)
  /\ Failure
  /\ \/ Finished(q, "missed", NoDoc, NoId)
     \/ Finished(q, "failed", NoDoc, NoId)
     \/ k = "id" /\ \E i \in Id : Finished(q, "answered", NoDoc, i)
  /\ garbled' = garbled \cup {q}
  /\ UNCHANGED <<regVars, cached, idVars>>

\* The first document of the cursor, which has no order.
AskMongo(q) ==
  /\ look[q] = "missed"
  /\ \/ /\ OfName(NameOf[q]) = {}
        /\ Finished(q, "unknown", NoDoc, NoId)
     \/ \E c \in OfName(NameOf[q]) : Finished(q, "found", c, NoId)
  /\ UNCHANGED <<asks, known, garbled, regVars, cached, failures, idVars>>

FindFails(q) ==
  /\ look[q] = "missed"
  /\ Failure
  /\ Finished(q, "failed", NoDoc, NoId)
  /\ UNCHANGED <<asks, known, garbled, regVars, cached, idVars>>

\* A login is refused before it writes to memcached.
Refuse(q) ==
  /\ look[q] = "found"
  /\ ~Authenticates(q, asks[q], found[q])
  /\ Finished(q, "refused", NoDoc, NoId)
  /\ UNCHANGED <<asks, known, garbled, regVars, cached, failures, idVars>>

\* The key of what is written.
FillKey(q) == asks[q]

Fill(q) == cached' = [cached EXCEPT ![FillKey(q)][NameOf[q]] = found[q]]

\* A failed memcached_set is only logged.
Answer(q) ==
  /\ look[q] = "found"
  /\ Authenticates(q, asks[q], found[q])
  /\ Finished(q, "answered", NoDoc, uid[found[q]])
  /\ \/ Fill(q) /\ UNCHANGED failures
     \/ Failure /\ UNCHANGED cached
  /\ UNCHANGED <<asks, known, garbled, regVars, idVars>>

-----------------------------------------------------------------------------
(* The environment *)

Evict(k, n) ==
  /\ cached[k][n] # NoDoc
  /\ Failure
  /\ cached' = [cached EXCEPT ![k][n] = NoDoc]
  /\ UNCHANGED <<regVars, lookVars, idVars>>

ClockMoves(s) ==
  /\ Ticks(s) \/ IsSetBack(s)
  /\ UNCHANGED <<regVars, lookVars, cached, failures>>

\* RegisterUser finds the clock behind current_timestamp: exit(EXIT_FAILURE); or
\* the process crashes.  The callers of the other calls of the process see their connections break.
RegActive == {"stamped", "free", "inserted"}
LookActive == {"missed", "found"}
Dies(s) ==
  /\ \/ Exits(s) /\ UNCHANGED failures
     \/ Restarts(s) /\ Failure
  /\ LET lost == {c \in Registration : HostOf[c] = s /\ reg[c] \in RegActive} IN
       /\ reg' = [c \in Registration |-> IF c \in lost THEN "failed" ELSE reg[c]]
       /\ late' = [c \in Registration |-> IF c \in lost THEN Sent(c) ELSE late[c]]
  /\ LET lost == {q \in Lookup : HostOf[q] = s /\ look[q] \in LookActive} IN
       /\ look' = [q \in Lookup |-> IF q \in lost THEN "failed" ELSE look[q]]
       /\ found' = [q \in Lookup |-> IF q \in lost THEN NoDoc ELSE found[q]]
  /\ UNCHANGED <<uid, docs, graph, disturbed, asks, answer, known, garbled, cached>>

Next ==
  \/ \E c \in Registration :
       \/ RegisterUser(c) \/ RegisterUserWithId(c) \/ FindName(c) \/ MongoFails(c)
       \/ Insert(c) \/ InsertRefused(c) \/ InsertUser(c) \/ InsertUserFails(c)
       \/ Lands(c)
  \/ \E q \in Lookup :
       \/ \E k \in Kind : AskCache(q, k) \/ CacheFails(q, k) \/ PoolFails(q, k)
       \/ AskMongo(q) \/ FindFails(q) \/ Refuse(q) \/ Answer(q)
  \/ \E k \in Kind, n \in Name : Evict(k, n)
  \/ \E s \in Server : ClockMoves(s) \/ Dies(s) \/ AnotherRegisters(s)

Spec == Init /\ [][Next]_vars

-----------------------------------------------------------------------------
(* Properties *)

\* Type invariant.
TypeOK ==
  /\ IdTypeOK
  /\ reg \in [Registration -> {"idle", "ok", "failed"} \cup RegActive]
  /\ uid \in [Registration -> Id \cup {NoId}]
  /\ docs \subseteq Registration
  /\ graph \subseteq Id
  /\ late \in [Registration -> {"nothing", "document", "node"}]
  /\ asks \in [Lookup -> Kind]
  /\ look \in [Lookup -> {"idle", "answered", "unknown", "refused", "failed"} \cup LookActive]
  /\ found \in [Lookup -> Registration \cup {NoDoc}]
  /\ answer \in [Lookup -> Id \cup {NoId}]
  /\ cached \in [Kind -> [Name -> Registration \cup {NoDoc}]]
  /\ failures \in 0 .. MaxFailures
  /\ disturbed \subseteq Name
  /\ known \in [Lookup -> SUBSET Registration]
  /\ garbled \subseteq Lookup

\* A name belongs to one user, unless two registrations found it free at once,
\* of which one may have failed and its insert come late: no index stops the
\* second insert.
NamesUnique ==
  \A c, d \in docs :
    NameOf[c] = NameOf[d] /\ c # d => NameOf[c] \in disturbed

\* A user without a document in the social graph is one whose registration is
\* not over or was reported as failed; a document there has its user.  Nobody
\* repairs the former: the name stays taken.
NoHalfUserUnseen ==
  /\ \A c \in Registration : reg[c] = "ok" => c \in docs /\ uid[c] \in graph
  /\ graph \subseteq {uid[c] : c \in docs}

\* All lookups of a name give one identifier, whichever key of memcached or
\* document they read, and what they leave in memcached agrees with it.  The
\* exceptions are two users of the name, and the unset pointer.
OneIdentity ==
  \A q \in Lookup :
    LET n == NameOf[q] IN
    look[q] = "answered" /\ n \notin disturbed /\ q \notin garbled =>
      /\ OfName(n) # {}
      /\ \A c \in OfName(n) : answer[q] = uid[c]
      /\ \A k \in Kind : cached[k][n] \in OfName(n) \cup {NoDoc}

\* A token is for a user of that name and has the identifier of one whose
\* password was given.
TokenIsOwners ==
  \A q \in Lookup :
    asks[q] = "login" /\ look[q] = "answered" =>
      \E c \in OfName(NameOf[q]) :
        uid[c] = answer[q] /\ PasswordOf[c] = PasswordOf[q]

\* Whoever was told that the registration went well is found from then on, and
\* gets in with the password, unless the name has a second user.
OwnersGetIn ==
  \A q \in Lookup : \A c \in known[q] :
    NameOf[c] = NameOf[q] /\ NameOf[q] \notin disturbed =>
      /\ look[q] # "unknown"
      /\ look[q] = "refused" => PasswordOf[c] # PasswordOf[q]
=============================================================================
