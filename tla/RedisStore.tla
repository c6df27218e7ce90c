------------------------------ MODULE RedisStore ------------------------------
(***************************************************************************)
(* storage.Controlled over storage.Redis: the objects of one kind, kept as *)
(* JSON under one key each ($:namespace:kind:name), and the lists that     *)
(* answer queries (!:namespace:kind and !:namespace:kind:param:value).     *)
(*                                                                         *)
(* Every HTTP request runs in a goroutine of its own and talks to Redis    *)
(* one command, pipeline or MULTI/EXEC at a time.  A process p \in Proc is *)
(* such a goroutine; each action is what Redis executes atomically, with   *)
(* the local computation that surrounds it.                                *)
(*                                                                         *)
(* Abstractions.  Object data is its version and the set of query criteria *)
(* (param:value pairs) GetParams() returns.  The list of a namespace is    *)
(* the list of "*" restricted to the keys of that namespace, because every *)
(* LREM and LPUSH is issued for both; a query names the keys it ranges     *)
(* over instead.  Order and duplicates in a list are dropped: LREM 0       *)
(* removes every copy, and List ignores copies.                            *)
(***************************************************************************)
EXTENDS Integers, FiniteSets

CONSTANTS
  Proc,        \* request goroutines, of all instances
  Key,         \* resource keys
  Criterion,   \* param:value pairs objects carry and queries ask for
  Whole,       \* the list without criteria, !:namespace:kind
  Scope,       \* the sets of keys a query ranges over: a namespace's, or all
  None,        \* no object stored
  Sent,        \* the versions clients send with an object
  MinVersion,  \* bounds of this model on versions
  MaxVersion

ASSUME WholeIsNoCriterion == Whole \notin Criterion
ASSUME ScopesAreKeys == Scope \subseteq SUBSET Key
ASSUME MaxVersionIsNat == MaxVersion \in Nat
ASSUME SentAreVersions ==
  MinVersion \in Int /\ MinVersion <= 0 /\ Sent \subseteq {v \in Int : MinVersion <= v}

List == Criterion \cup {Whole}

Object == [version : MinVersion..MaxVersion, params : SUBSET Criterion]

ASSUME NoneIsNoObject == None \notin Object
ASSUME NoneIsNoKey == None \notin Key

VARIABLES
  store,    \* key -> stored object, or None
  index,    \* list -> the keys on it
  pc,       \* what a process does next
  key,      \* the key a write is about
  new,      \* the object a Put writes
  old,      \* the lists a write takes its key off
  query,    \* the criteria of a List
  todo,     \* lists still to range over, then keys still to get
  hits,     \* the keys found on every list ranged over so far
  got,      \* the <<key, object>> pairs a List has fetched
  missing,  \* the keys a List fetched in vain
  fresh,    \* history: which reads of a write no commit has overtaken
  steady,   \* history: the keys that matched during the whole of a List
  gone,     \* history: the keys deleted during a List
  torn      \* history: the keys written by a commit that was overtaken

redis == <<store, index>>
writer == <<key, new, old, fresh>>
reader == <<query, todo, hits, got, missing>>
witness == <<steady, gone>>
vars == <<redis, pc, writer, reader, witness, torn>>

ListsOf(o) == {Whole} \cup o.params

\* The lists a query ranges over.
Walk(C) == IF C = {} THEN {Whole} ELSE C

Nothing == [version |-> 0, params |-> {}]
NoLists == [l \in List |-> {}]

Matches(k, C) == store[k] # None /\ C \subseteq store[k].params

(***************************************************************************)
(* Effects.                                                                *)
(***************************************************************************)
LRem(idx, ls, k) == [l \in List |-> IF l \in ls THEN idx[l] \ {k} ELSE idx[l]]
LPush(idx, ls, k) == [l \in List |-> IF l \in ls THEN idx[l] \cup {k} ELSE idx[l]]

\* Mutant: the new entries are pushed before the old ones are removed.
PutIndexPushedFirst(k, removed, added) == LRem(LPush(index, added, k), removed, k)

\* Mutant: the entries of the object stored before stay.
PutIndexKeepsOld(k, removed, added) == LPush(index, added, k)

\* The transaction of Redis.Put.
PutIndex(k, removed, added) == LPush(LRem(index, removed, k), added, k)

\* Mutant: only the whole list is cleaned.
DeleteIndexWholeOnly(k, removed) == LRem(index, {Whole}, k)

\* The transaction of Redis.Delete.
DeleteIndex(k, removed) == LRem(index, removed, k)

\* Mutant: the version is counted down.
NextVersionDown(k, clientVersion) ==
  (IF store[k] = None THEN clientVersion ELSE store[k].version) - 1

\* Mutant: the version the client sent is trusted.
NextVersionOfClient(k, clientVersion) == 1 + clientVersion

\* The version Controlled.Put assigns: one more than the stored one, or than
\* the one the client sent when nothing is stored (the clone keeps it).
NextVersion(k, clientVersion) ==
  1 + (IF store[k] = None THEN clientVersion ELSE store[k].version)

\* The lists Redis.Put takes the key off.  The stored object is decoded over
\* a clone of the new one; what only the clone contributes is pushed again.
ListsRead(k, o) == IF store[k] = None THEN ListsOf(o) ELSE ListsOf(store[k])

\* The processes whose List is running.
Listing == {p \in Proc : pc[p] \in {"range", "fetch"}}

\* History kept at a commit of p on k.
Overtake(p, k) ==
  /\ fresh' = [q \in Proc |-> IF q = p \/ key[q] = k THEN {} ELSE fresh[q]]
  /\ torn' = IF "lists" \in fresh[p] THEN torn ELSE torn \cup {k}
  /\ steady' = [q \in Proc |->
       IF q \in Listing
         THEN {j \in steady[q] : store'[j] # None /\ query[q] \subseteq store'[j].params}
         ELSE steady[q]]
  /\ gone' = [q \in Proc |->
       IF q \in Listing /\ store'[k] = None THEN gone[q] \cup {k} ELSE gone[q]]

\* What a process holds of a write ends with it.
WriteEnds(p) ==
  /\ pc' = [pc EXCEPT ![p] = "idle"]
  /\ key' = [key EXCEPT ![p] = None]
  /\ new' = [new EXCEPT ![p] = Nothing]
  /\ old' = [old EXCEPT ![p] = {}]

-----------------------------------------------------------------------------
(***************************************************************************)
(* Put: a read for the metadata, a read for the index, one transaction.    *)
(***************************************************************************)
PutBegin(p, k, C, clientVersion) ==
  /\ pc[p] = "idle"
  /\ NextVersion(k, clientVersion) <= MaxVersion
  /\ pc' = [pc EXCEPT ![p] = "putRead"]
  /\ key' = [key EXCEPT ![p] = k]
  /\ new' = [new EXCEPT ![p] = [version |-> NextVersion(k, clientVersion), params |-> C]]
  /\ fresh' = [fresh EXCEPT ![p] = {"version"}]
  /\ UNCHANGED <<redis, old, reader, witness, torn>>

PutRead(p) ==
  /\ pc[p] = "putRead"
  /\ pc' = [pc EXCEPT ![p] = "putCommit"]
  /\ old' = [old EXCEPT ![p] = ListsRead(key[p], new[p])]
  /\ fresh' = [fresh EXCEPT ![p] = @ \cup {"lists"}]
  /\ UNCHANGED <<redis, key, new, reader, witness, torn>>

PutCommit(p) ==
  /\ pc[p] = "putCommit"
  /\ WriteEnds(p)
  /\ store' = [store EXCEPT ![key[p]] = new[p]]
  /\ index' = PutIndex(key[p], old[p], ListsOf(new[p]))
  /\ Overtake(p, key[p])
  /\ UNCHANGED reader

(***************************************************************************)
(* Delete: the controller gets the object, then one transaction takes it   *)
(* off the lists that copy names.  Getting nothing answers "not found".    *)
(***************************************************************************)
DeleteBegin(p, k) ==
  /\ pc[p] = "idle"
  /\ store[k] # None
  /\ pc' = [pc EXCEPT ![p] = "deleteCommit"]
  /\ key' = [key EXCEPT ![p] = k]
  /\ old' = [old EXCEPT ![p] = ListsOf(store[k])]
  /\ fresh' = [fresh EXCEPT ![p] = {"lists"}]
  /\ UNCHANGED <<redis, new, reader, witness, torn>>

DeleteCommit(p) ==
  /\ pc[p] = "deleteCommit"
  /\ WriteEnds(p)
  /\ store' = [store EXCEPT ![key[p]] = None]
  /\ index' = DeleteIndex(key[p], old[p])
  /\ Overtake(p, key[p])
  /\ UNCHANGED reader

\* A write whose process stops, or whose Redis call fails, commits nothing.
Abandon(p) ==
  /\ pc[p] \in {"putRead", "putCommit", "deleteCommit"}
  /\ WriteEnds(p)
  /\ fresh' = [fresh EXCEPT ![p] = {}]
  /\ UNCHANGED <<redis, reader, witness, torn>>

(***************************************************************************)
(* List: a pipeline of LRANGEs, an intersection, a pipeline of GETs.  A    *)
(* pipeline is not a transaction: other commands run between its parts.    *)
(***************************************************************************)
ListBegin(p, C, within) ==
  /\ pc[p] = "idle"
  /\ pc' = [pc EXCEPT ![p] = "range"]
  /\ query' = [query EXCEPT ![p] = C]
  /\ todo' = [todo EXCEPT ![p] = Walk(C)]
  /\ hits' = [hits EXCEPT ![p] = within]
  /\ got' = [got EXCEPT ![p] = {}]
  /\ missing' = [missing EXCEPT ![p] = {}]
  /\ steady' = [steady EXCEPT ![p] = {k \in within : Matches(k, C)}]
  /\ gone' = [gone EXCEPT ![p] = {}]
  /\ UNCHANGED <<redis, writer, torn>>

ListRange(p, l) ==
  /\ pc[p] = "range"
  /\ l \in todo[p]
  /\ hits' = [hits EXCEPT ![p] = @ \cap index[l]]
  /\ todo' = [todo EXCEPT ![p] = @ \ {l}]
  /\ UNCHANGED <<redis, pc, writer, query, got, missing, witness, torn>>

\* All lists are in: get what was on every one of them.
ListJoin(p) ==
  /\ pc[p] = "range"
  /\ todo[p] = {}
  /\ pc' = [pc EXCEPT ![p] = "fetch"]
  /\ todo' = [todo EXCEPT ![p] = hits[p]]
  /\ UNCHANGED <<redis, writer, query, hits, got, missing, witness, torn>>

ListFetch(p, k) ==
  /\ pc[p] = "fetch"
  /\ k \in todo[p]
  /\ todo' = [todo EXCEPT ![p] = @ \ {k}]
  /\ IF store[k] = None
       THEN /\ missing' = [missing EXCEPT ![p] = @ \cup {k}]
            /\ got' = got
       ELSE /\ got' = [got EXCEPT ![p] = @ \cup {<<k, store[k]>>}]
            /\ missing' = missing
  /\ UNCHANGED <<redis, pc, writer, query, hits, witness, torn>>

\* The reply: an error when a GET found nothing, the fetched objects otherwise.
ListEnd(p) ==
  /\ pc[p] = "fetch"
  /\ todo[p] = {}
  /\ pc' = [pc EXCEPT ![p] = IF missing[p] = {} THEN "listed" ELSE "listError"]
  /\ UNCHANGED <<redis, writer, reader, witness, torn>>

\* The request is over; what it held is garbage.
Return(p) ==
  /\ pc[p] \in {"listed", "listError"}
  /\ pc' = [pc EXCEPT ![p] = "idle"]
  /\ query' = [query EXCEPT ![p] = {}]
  /\ hits' = [hits EXCEPT ![p] = {}]
  /\ got' = [got EXCEPT ![p] = {}]
  /\ missing' = [missing EXCEPT ![p] = {}]
  /\ steady' = [steady EXCEPT ![p] = {}]
  /\ gone' = [gone EXCEPT ![p] = {}]
  /\ UNCHANGED <<redis, writer, todo, torn>>

-----------------------------------------------------------------------------
Init ==
  /\ store = [k \in Key |-> None]
  /\ index = NoLists
  /\ pc = [p \in Proc |-> "idle"]
  /\ key = [p \in Proc |-> None]
  /\ new = [p \in Proc |-> Nothing]
  /\ old = [p \in Proc |-> {}]
  /\ query = [p \in Proc |-> {}]
  /\ todo = [p \in Proc |-> {}]
  /\ hits = [p \in Proc |-> {}]
  /\ got = [p \in Proc |-> {}]
  /\ missing = [p \in Proc |-> {}]
  /\ fresh = [p \in Proc |-> {}]
  /\ steady = [p \in Proc |-> {}]
  /\ gone = [p \in Proc |-> {}]
  /\ torn = {}

Write(p) ==
  \/ \E k \in Key, C \in SUBSET Criterion, v \in Sent : PutBegin(p, k, C, v)
  \/ PutRead(p)
  \/ PutCommit(p)
  \/ \E k \in Key : DeleteBegin(p, k)
  \/ DeleteCommit(p)
  \/ Abandon(p)

Query(p) ==
  \/ \E C \in SUBSET Criterion, within \in Scope : ListBegin(p, C, within)
  \/ \E l \in List : ListRange(p, l)
  \/ ListJoin(p)
  \/ \E k \in Key : ListFetch(p, k)
  \/ ListEnd(p)
  \/ Return(p)

Next == \E p \in Proc : Write(p) \/ Query(p)

Spec == Init /\ [][Next]_vars

-----------------------------------------------------------------------------
(***************************************************************************)
(* Properties.                                                             *)
(***************************************************************************)

\* Every variable has its type, and no version exceeds this model's bound.
TypeOK ==
  /\ store \in [Key -> Object \cup {None}]
  /\ index \in [List -> SUBSET Key]
  /\ pc \in [Proc -> {"idle", "putRead", "putCommit", "deleteCommit",
                      "range", "fetch", "listed", "listError"}]
  /\ key \in [Proc -> Key \cup {None}]
  /\ new \in [Proc -> Object]
  /\ old \in [Proc -> SUBSET List]
  /\ query \in [Proc -> SUBSET Criterion]
  /\ todo \in [Proc -> SUBSET (List \cup Key)]
  /\ hits \in [Proc -> SUBSET Key]
  /\ got \in [Proc -> SUBSET (Key \X Object)]
  /\ missing \in [Proc -> SUBSET Key]
  /\ fresh \in [Proc -> SUBSET {"version", "lists"}]
  /\ steady \in [Proc -> SUBSET Key]
  /\ gone \in [Proc -> SUBSET Key]
  /\ torn \subseteq Key

\* However writers interleave, a stored object is on the whole list and on the
\* list of each of its criteria: Redis.Put removes before it pushes, and does
\* both in the transaction that stores the object.
IndexComplete ==
  \A k \in Key : store[k] # None => \A l \in ListsOf(store[k]) : k \in index[l]

\* A key is on no list but its object's, unless some write of it committed after
\* another one overtook its read: the only way a list keeps a stale entry is a
\* race between two writes of one key.
IndexExact ==
  \A k \in Key \ torn, l \in List :
    k \in index[l] => store[k] # None /\ l \in ListsOf(store[k])

\* A List that answers has every object that matched from its first command to
\* its last, whatever was written meanwhile: a policy binding that is there is
\* never overlooked by the evaluation of an access request.
ListMissesNothing ==
  \A p \in Proc : pc[p] = "listed" =>
    \A k \in steady[p] : \E pair \in got[p] : pair[1] = k

\* A List fails only on a key that was deleted while it ran, or that a race
\* between two writes left on a list.
ListFailsOnlyOnRace ==
  \A p \in Proc : pc[p] = "listError" => missing[p] \subseteq gone[p] \cup torn

\* A Put whose first read no commit has overtaken is about to store the
\* successor of the stored version.
VersionSucceeds ==
  \A p \in Proc :
    pc[p] \in {"putRead", "putCommit"} /\ "version" \in fresh[p] /\ store[key[p]] # None
      => new[p].version = store[key[p]].version + 1

-----------------------------------------------------------------------------
(***************************************************************************)
(* The inductive invariant behind these properties.                        *)
(***************************************************************************)

Writing == {"putRead", "putCommit", "deleteCommit"}

\* The reads of a write that nothing has overtaken still describe the store.
ReadsCurrent ==
  \A p \in Proc :
    /\ pc[p] \in Writing => key[p] \in Key
    /\ pc[p] \notin Writing => fresh[p] = {}
    /\ pc[p] = "putRead" => "lists" \notin fresh[p]
    /\ "lists" \in fresh[p] /\ store[key[p]] # None => ListsOf(store[key[p]]) \subseteq old[p]

\* A key is accounted for in p's query if it is stored, or was deleted or torn.
AccountedFor(k, p) == store[k] # None \/ k \in gone[p] \/ k \in torn

\* What p's query has gathered, and still will, covers the keys that match
\* throughout; what it gathered in vain is accounted for.
GatheredBy(p) ==
  /\ p \in Listing => \A k \in steady[p] : Matches(k, query[p])
  /\ pc[p] = "range" =>
       /\ todo[p] \subseteq Walk(query[p])
       /\ steady[p] \subseteq hits[p]
       /\ todo[p] # Walk(query[p]) => \A k \in hits[p] : AccountedFor(k, p)
       /\ missing[p] = {}
  /\ pc[p] = "fetch" =>
       /\ \A k \in steady[p] : k \in todo[p] \/ \E pair \in got[p] : pair[1] = k
       /\ \A k \in todo[p] : k \in Key /\ AccountedFor(k, p)
  /\ pc[p] \in {"fetch", "listError"} => missing[p] \subseteq gone[p] \cup torn
  /\ pc[p] = "listed" => \A k \in steady[p] : \E pair \in got[p] : pair[1] = k

\* The conjunction every step preserves.
IInv ==
  /\ TypeOK
  /\ IndexComplete
  /\ IndexExact
  /\ ReadsCurrent
  /\ VersionSucceeds
  /\ \A p \in Proc : GatheredBy(p)

-----------------------------------------------------------------------------
(***************************************************************************)
(* What the documentation and the console say, and the code does not do.   *)
(***************************************************************************)

\* README.md, "query are parsed as tags or search criteria": what a List answers
\* meets the criteria that were asked for.
ListedMatches ==
  \A p \in Proc : pc[p] = "listed" => \A pair \in got[p] : query[p] \subseteq pair[2].params

\* The console tells its user that a saved object "is now version n": a version
\* names one content of an object, so storing over an object raises its version.
VersionGrows ==
  [][\A k \in Key :
       store[k] # None /\ store'[k] # None /\ store'[k] # store[k]
         => store'[k].version > store[k].version]_vars

\* README.md, "query are parsed as tags or search criteria": a query during which
\* nothing it found was deleted has an answer.
ListAnswers ==
  \A p \in Proc : pc[p] = "listError" => missing[p] \subseteq gone[p]
===============================================================================
