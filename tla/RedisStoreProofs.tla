--------------------------- MODULE RedisStoreProofs ---------------------------
(***************************************************************************)
(* Proofs about RedisStore, and that it implements ObjectStore, for any set *)
(* of processes, keys, criteria and scopes.                                *)
(***************************************************************************)
EXTENDS RedisStoreObserved, TLAPS

USE DEF redis, writer, reader, witness

-----------------------------------------------------------------------------
(***************************************************************************)
(* The lists an object is on.                                              *)
(***************************************************************************)

\* The lists of an object are lists, and the whole list is one of them.
LEMMA ListsOfObject ==
  ASSUME NEW o \in Object
  PROVE  ListsOf(o) \subseteq List /\ Whole \in ListsOf(o)
  BY DEF ListsOf, Object, List

-----------------------------------------------------------------------------
(***************************************************************************)
(* Type correctness.                                                       *)
(***************************************************************************)

\* Every variable has its type in the initial states.
LEMMA InitTypeOK == Init => TypeOK
  BY MaxVersionIsNat, SentAreVersions DEF Init, TypeOK, NoLists, Nothing, Object, List

\* A write keeps the types.
LEMMA WriteTypeOK ==
  ASSUME TypeOK, NEW p \in Proc, Write(p), ReadsCurrent
  PROVE  TypeOK'
  <1> USE DEF TypeOK
  <1>1. ASSUME NEW k \in Key, NEW C \in SUBSET Criterion, NEW v \in Sent,
               PutBegin(p, k, C, v)
        PROVE  TypeOK'
    <2>1. NextVersion(k, v) \in MinVersion..MaxVersion
      BY <1>1, NoneIsNoObject, MaxVersionIsNat, SentAreVersions DEF PutBegin, NextVersion, Object
    <2>2. [version |-> NextVersion(k, v), params |-> C] \in Object
      BY <2>1 DEF Object
    <2> QED BY <1>1, <2>2 DEF PutBegin
  <1>2. CASE PutRead(p)
    <2>1. key[p] \in Key
      BY <1>2 DEF PutRead, ReadsCurrent, Writing
    <2>2. ListsRead(key[p], new[p]) \subseteq List
      BY <2>1, ListsOfObject DEF ListsRead
    <2> QED BY <1>2, <2>2 DEF PutRead
  <1>3. CASE PutCommit(p)
    <2>1. key[p] \in Key
      BY <1>3 DEF PutCommit, ReadsCurrent, Writing
    <2>2. index' \in [List -> SUBSET Key]
      BY <1>3, <2>1 DEF PutCommit, PutIndex, LPush, LRem
    <2>3. Nothing \in Object
      BY MaxVersionIsNat, SentAreVersions DEF Nothing, Object
    <2> QED BY <1>3, <2>1, <2>2, <2>3 DEF PutCommit, Overtake, WriteEnds
  <1>4. ASSUME NEW k \in Key, DeleteBegin(p, k) PROVE TypeOK'
    <2>1. ListsOf(store[k]) \subseteq List
      BY <1>4, ListsOfObject DEF DeleteBegin
    <2> QED BY <1>4, <2>1 DEF DeleteBegin
  <1>5. CASE DeleteCommit(p)
    <2>1. key[p] \in Key
      BY <1>5 DEF DeleteCommit, ReadsCurrent, Writing
    <2>2. index' \in [List -> SUBSET Key]
      BY <1>5, <2>1 DEF DeleteCommit, DeleteIndex, LRem
    <2>3. Nothing \in Object
      BY MaxVersionIsNat, SentAreVersions DEF Nothing, Object
    <2> QED BY <1>5, <2>1, <2>2, <2>3 DEF DeleteCommit, Overtake, WriteEnds
  <1>6. CASE Abandon(p)
    <2>1. Nothing \in Object
      BY MaxVersionIsNat, SentAreVersions DEF Nothing, Object
    <2> QED BY <1>6, <2>1 DEF Abandon, WriteEnds
  <1> QED BY <1>1, <1>2, <1>3, <1>4, <1>5, <1>6 DEF Write

\* A query keeps the types.
LEMMA QueryTypeOK ==
  ASSUME TypeOK, NEW p \in Proc, Query(p)
  PROVE  TypeOK'
  <1> USE DEF TypeOK
  <1>1. ASSUME NEW C \in SUBSET Criterion, NEW among \in Scope, ListBegin(p, C, among)
        PROVE  TypeOK'
    <2>1. among \subseteq Key
      BY ScopesAreKeys
    <2>2. Walk(C) \subseteq List
      BY DEF Walk, List
    <2> QED BY <1>1, <2>1, <2>2 DEF ListBegin
  <1>2. ASSUME NEW l \in List, ListRange(p, l) PROVE TypeOK'
    BY <1>2 DEF ListRange
  <1>3. CASE ListJoin(p)
    BY <1>3 DEF ListJoin
  <1>4. ASSUME NEW k \in Key, ListFetch(p, k) PROVE TypeOK'
    <2>1. store[k] # None => <<k, store[k]>> \in Key \X Object
      OBVIOUS
    <2>2. missing' \in [Proc -> SUBSET Key] /\ got' \in [Proc -> SUBSET (Key \X Object)]
      BY <1>4, <2>1 DEF ListFetch
    <2> QED BY <1>4, <2>2 DEF ListFetch
  <1>5. CASE ListEnd(p)
    BY <1>5 DEF ListEnd
  <1>6. CASE Return(p)
    BY <1>6 DEF Return
  <1> QED BY <1>1, <1>2, <1>3, <1>4, <1>5, <1>6 DEF Query

-----------------------------------------------------------------------------
(***************************************************************************)
(* The lists.  Only the two commits change the store or the lists.         *)
(***************************************************************************)

\* The object a committing Put stores is one, under a key.
LEMMA PutCommitData ==
  ASSUME TypeOK, ReadsCurrent, NEW p \in Proc, PutCommit(p)
  PROVE  /\ key[p] \in Key
         /\ new[p] \in Object
         /\ new[p] # None
         /\ store'[key[p]] = new[p]
         /\ \A k \in Key \ {key[p]} : store'[k] = store[k]
         /\ \A l \in List : index'[l] =
              IF l \in ListsOf(new[p]) THEN index[l] \cup {key[p]}
              ELSE IF l \in old[p] THEN index[l] \ {key[p]} ELSE index[l]
  <1>1. key[p] \in Key
    BY DEF PutCommit, ReadsCurrent, Writing
  <1>2. new[p] \in Object /\ new[p] # None
    BY NoneIsNoObject DEF TypeOK
  <1>3. store' = [store EXCEPT ![key[p]] = new[p]]
    BY DEF PutCommit
  <1>4. store'[key[p]] = new[p] /\ \A k \in Key \ {key[p]} : store'[k] = store[k]
    BY <1>1, <1>3 DEF TypeOK
  <1>5. ASSUME NEW l \in List
        PROVE  index'[l] = IF l \in ListsOf(new[p]) THEN index[l] \cup {key[p]}
                           ELSE IF l \in old[p] THEN index[l] \ {key[p]} ELSE index[l]
    <2>1. index' = PutIndex(key[p], old[p], ListsOf(new[p]))
      BY DEF PutCommit
    <2>2. PutIndex(key[p], old[p], ListsOf(new[p]))[l] =
            IF l \in ListsOf(new[p]) THEN index[l] \cup {key[p]}
            ELSE IF l \in old[p] THEN index[l] \ {key[p]} ELSE index[l]
      BY DEF PutIndex, LPush, LRem
    <2> QED BY <2>1, <2>2, Zenon
  <1> QED BY <1>1, <1>2, <1>4, <1>5

\* A committing Delete leaves nothing under its key.
LEMMA DeleteCommitData ==
  ASSUME TypeOK, ReadsCurrent, NEW p \in Proc, DeleteCommit(p)
  PROVE  /\ key[p] \in Key
         /\ store'[key[p]] = None
         /\ \A k \in Key \ {key[p]} : store'[k] = store[k]
         /\ \A l \in List : index'[l] =
              IF l \in old[p] THEN index[l] \ {key[p]} ELSE index[l]
  <1>1. key[p] \in Key
    BY DEF DeleteCommit, ReadsCurrent, Writing
  <1>2. store' = [store EXCEPT ![key[p]] = None]
    BY DEF DeleteCommit
  <1>3. store'[key[p]] = None /\ \A k \in Key \ {key[p]} : store'[k] = store[k]
    BY <1>1, <1>2 DEF TypeOK
  <1>4. ASSUME NEW l \in List
        PROVE  index'[l] = IF l \in old[p] THEN index[l] \ {key[p]} ELSE index[l]
    <2>1. index' = DeleteIndex(key[p], old[p])
      BY DEF DeleteCommit
    <2>2. DeleteIndex(key[p], old[p])[l] =
            IF l \in old[p] THEN index[l] \ {key[p]} ELSE index[l]
      BY DEF DeleteIndex, LRem
    <2> QED BY <2>1, <2>2, Zenon
  <1> QED BY <1>1, <1>3, <1>4

\* Neither a read nor an abandoned write nor a query changes what Redis holds.
LEMMA OnlyCommitsWrite ==
  ASSUME [Next]_vars
  PROVE  \/ \E p \in Proc : PutCommit(p) \/ DeleteCommit(p)
         \/ UNCHANGED <<store, index, torn>>
  BY DEF Next, vars, Write, Query, PutBegin, PutRead, DeleteBegin, Abandon,
         ListBegin, ListRange, ListJoin, ListFetch, ListEnd, Return

\* What a committing Put does to one key and one list.
LEMMA PutCommitAt ==
  ASSUME TypeOK, ReadsCurrent, NEW p \in Proc, PutCommit(p), NEW k \in Key, NEW l \in List
  PROVE  /\ store'[k] = IF k = key[p] THEN new[p] ELSE store[k]
         /\ k = key[p] => (k \in index'[l] <=> l \in ListsOf(new[p]) \/ (k \in index[l] /\ l \notin old[p]))
         /\ k # key[p] => (k \in index'[l] <=> k \in index[l])
         /\ k \notin torn' => k \notin torn /\ (k = key[p] => "lists" \in fresh[p])
  <1>1. store'[k] = IF k = key[p] THEN new[p] ELSE store[k]
    BY PutCommitData
  <1>2. index'[l] = IF l \in ListsOf(new[p]) THEN index[l] \cup {key[p]}
                    ELSE IF l \in old[p] THEN index[l] \ {key[p]} ELSE index[l]
    BY PutCommitData
  <1>3. torn' = IF "lists" \in fresh[p] THEN torn ELSE torn \cup {key[p]}
    BY DEF PutCommit, Overtake
  <1> QED BY <1>1, <1>2, <1>3

\* What a committing Delete does to one key and one list.
LEMMA DeleteCommitAt ==
  ASSUME TypeOK, ReadsCurrent, NEW p \in Proc, DeleteCommit(p), NEW k \in Key, NEW l \in List
  PROVE  /\ store'[k] = IF k = key[p] THEN None ELSE store[k]
         /\ k = key[p] => (k \in index'[l] <=> k \in index[l] /\ l \notin old[p])
         /\ k # key[p] => (k \in index'[l] <=> k \in index[l])
         /\ k \notin torn' => k \notin torn /\ (k = key[p] => "lists" \in fresh[p])
  <1>1. store'[k] = IF k = key[p] THEN None ELSE store[k]
    BY DeleteCommitData
  <1>2. index'[l] = IF l \in old[p] THEN index[l] \ {key[p]} ELSE index[l]
    BY DeleteCommitData
  <1>3. torn' = IF "lists" \in fresh[p] THEN torn ELSE torn \cup {key[p]}
    BY DEF DeleteCommit, Overtake
  <1> QED BY <1>1, <1>2, <1>3

\* The lists a write takes its key off, when nothing has overtaken its read,
\* are all the lists the key is on.
LEMMA FreshListsSuffice ==
  ASSUME ReadsCurrent, IndexExact, NEW p \in Proc, key[p] \in Key, key[p] \notin torn,
         "lists" \in fresh[p], NEW l \in List, key[p] \in index[l]
  PROVE  l \in old[p]
  BY DEF IndexExact, ReadsCurrent

\* Every stored object stays on its lists.
LEMMA StepIndexComplete ==
  ASSUME TypeOK, ReadsCurrent, IndexComplete, [Next]_vars
  PROVE  IndexComplete'
  <1> SUFFICES ASSUME NEW k \in Key, store'[k] # None, NEW l \in ListsOf(store'[k])
               PROVE  k \in index'[l]
    BY DEF IndexComplete, ListsOf
  <1>0. ASSUME store[k] # None, l \in ListsOf(store[k]) PROVE l \in List /\ k \in index[l]
    <2>1. store[k] \in Object
      BY <1>0 DEF TypeOK
    <2> QED BY <1>0, <2>1, ListsOfObject DEF IndexComplete
  <1>1. ASSUME NEW p \in Proc, PutCommit(p) PROVE k \in index'[l]
    <2>1. CASE k = key[p]
      <3>1. l \in ListsOf(new[p])
        BY <1>1, <2>1, PutCommitData
      <3>2. l \in List
        BY <1>1, <3>1, PutCommitData, ListsOfObject
      <3> QED BY <1>1, <2>1, <3>1, <3>2, PutCommitAt
    <2>2. CASE k # key[p]
      <3>1. store'[k] = store[k]
        BY <1>1, <2>2, PutCommitData
      <3>2. l \in List /\ k \in index[l]
        BY <1>0, <3>1
      <3> QED BY <1>1, <2>2, <3>2, PutCommitAt
    <2> QED BY <2>1, <2>2
  <1>2. ASSUME NEW p \in Proc, DeleteCommit(p) PROVE k \in index'[l]
    <2>1. k # key[p]
      BY <1>2, DeleteCommitData
    <2>2. store'[k] = store[k]
      BY <1>2, <2>1, DeleteCommitData
    <2>3. l \in List /\ k \in index[l]
      BY <1>0, <2>2
    <2> QED BY <1>2, <2>1, <2>3, DeleteCommitAt
  <1>3. CASE UNCHANGED <<store, index, torn>>
    BY <1>3 DEF IndexComplete
  <1> QED BY <1>1, <1>2, <1>3, OnlyCommitsWrite

\* A commit that was not overtaken leaves its key on the right lists only.
LEMMA StepIndexExact ==
  ASSUME TypeOK, ReadsCurrent, IndexExact, [Next]_vars
  PROVE  IndexExact'
  <1> SUFFICES ASSUME NEW k \in Key, k \notin torn', NEW l \in List, k \in index'[l]
               PROVE  store'[k] # None /\ l \in ListsOf(store'[k])
    BY DEF IndexExact, ListsOf
  <1>0. ASSUME k \notin torn, k \in index[l] PROVE store[k] # None /\ l \in ListsOf(store[k])
    BY <1>0 DEF IndexExact
  <1>1. ASSUME NEW p \in Proc, PutCommit(p)
        PROVE  store'[k] # None /\ l \in ListsOf(store'[k])
    <2>1. CASE k = key[p]
      <3>1. l \in ListsOf(new[p])
        BY <1>1, <2>1, PutCommitAt, FreshListsSuffice
      <3>2. store'[k] = new[p] /\ new[p] # None
        BY <1>1, <2>1, PutCommitData
      <3> QED BY <3>1, <3>2
    <2>2. CASE k # key[p]
      <3>1. store'[k] = store[k] /\ k \notin torn /\ k \in index[l]
        BY <1>1, <2>2, PutCommitAt
      <3> QED BY <1>0, <3>1
    <2> QED BY <2>1, <2>2
  <1>2. ASSUME NEW p \in Proc, DeleteCommit(p)
        PROVE  store'[k] # None /\ l \in ListsOf(store'[k])
    <2>1. k # key[p]
      BY <1>2, DeleteCommitAt, FreshListsSuffice
    <2>2. store'[k] = store[k] /\ k \notin torn /\ k \in index[l]
      BY <1>2, <2>1, DeleteCommitAt
    <2> QED BY <1>0, <2>2
  <1>3. CASE UNCHANGED <<store, index, torn>>
    BY <1>0, <1>3
  <1> QED BY <1>1, <1>2, <1>3, OnlyCommitsWrite

-----------------------------------------------------------------------------
(***************************************************************************)
(* What a write has read.                                                  *)
(***************************************************************************)

\* A query leaves every write, and what it reads, alone.
LEMMA QueryLeavesWrites ==
  ASSUME NEW p \in Proc, Query(p), TypeOK
  PROVE  /\ UNCHANGED <<store, key, new, old, fresh>>
         /\ \A q \in Proc : (pc'[q] \in Writing <=> pc[q] \in Writing)
         /\ \A q \in Proc : pc[q] \in Writing => pc'[q] = pc[q]
  BY DEF Query, TypeOK, Writing, ListBegin, ListRange, ListJoin, ListFetch, ListEnd, Return

\* A commit empties "fresh" of every write of its key, its own included.
LEMMA OvertakeData ==
  ASSUME NEW p \in Proc, TypeOK, Overtake(p, key[p]), WriteEnds(p)
  PROVE  \A q \in Proc :
           /\ fresh'[q] = IF q = p \/ key[q] = key[p] THEN {} ELSE fresh[q]
           /\ q # p => pc'[q] = pc[q] /\ key'[q] = key[q] /\ new'[q] = new[q] /\ old'[q] = old[q]
           /\ pc'[p] = "idle"
  BY DEF Overtake, WriteEnds, TypeOK

\* A read no commit has overtaken still describes the stored object.
LEMMA StepReadsCurrent ==
  ASSUME TypeOK, ReadsCurrent, [Next]_vars
  PROVE  ReadsCurrent'
  <1>1. ASSUME NEW p \in Proc, NEW k \in Key, NEW C \in SUBSET Criterion,
               NEW v \in Sent, PutBegin(p, k, C, v)
        PROVE  ReadsCurrent'
    BY <1>1 DEF PutBegin, ReadsCurrent, TypeOK, Writing, ListsOf
  <1>2. ASSUME NEW p \in Proc, PutRead(p) PROVE ReadsCurrent'
    <2>1. store[key[p]] # None => ListsRead(key[p], new[p]) = ListsOf(store[key[p]])
      BY DEF ListsRead
    <2> QED BY <1>2, <2>1 DEF PutRead, ReadsCurrent, TypeOK, Writing, ListsOf
  <1>3. ASSUME NEW p \in Proc, PutCommit(p) PROVE ReadsCurrent'
    <2>1. WriteEnds(p) /\ Overtake(p, key[p])
      BY <1>3 DEF PutCommit
    <2> QED BY <1>3, <2>1, OvertakeData, PutCommitData DEF ReadsCurrent, Writing, ListsOf
  <1>4. ASSUME NEW p \in Proc, NEW k \in Key, DeleteBegin(p, k) PROVE ReadsCurrent'
    BY <1>4 DEF DeleteBegin, ReadsCurrent, TypeOK, Writing, ListsOf
  <1>5. ASSUME NEW p \in Proc, DeleteCommit(p) PROVE ReadsCurrent'
    <2>1. WriteEnds(p) /\ Overtake(p, key[p])
      BY <1>5 DEF DeleteCommit
    <2> QED BY <1>5, <2>1, OvertakeData, DeleteCommitData DEF ReadsCurrent, Writing, ListsOf
  <1>6. ASSUME NEW p \in Proc, Abandon(p) PROVE ReadsCurrent'
    BY <1>6 DEF Abandon, WriteEnds, ReadsCurrent, TypeOK, Writing, ListsOf
  <1>7. ASSUME NEW p \in Proc, Query(p) PROVE ReadsCurrent'
    BY <1>7, QueryLeavesWrites DEF ReadsCurrent, Writing, ListsOf
  <1>8. CASE UNCHANGED vars
    BY <1>8 DEF vars, ReadsCurrent, Writing, ListsOf
  <1> QED BY <1>1, <1>2, <1>3, <1>4, <1>5, <1>6, <1>7, <1>8 DEF Next, Write

\* Until it is overtaken, a Put holds the successor of the stored version.
LEMMA StepVersionSucceeds ==
  ASSUME TypeOK, ReadsCurrent, VersionSucceeds, [Next]_vars
  PROVE  VersionSucceeds'
  <1>1. ASSUME NEW p \in Proc, NEW k \in Key, NEW C \in SUBSET Criterion,
               NEW v \in Sent, PutBegin(p, k, C, v)
        PROVE  VersionSucceeds'
    <2>1. store[k] # None => NextVersion(k, v) = store[k].version + 1
      BY DEF NextVersion, TypeOK, Object
    <2> QED BY <1>1, <2>1 DEF PutBegin, VersionSucceeds, TypeOK
  <1>2. ASSUME NEW p \in Proc, PutRead(p) PROVE VersionSucceeds'
    BY <1>2 DEF PutRead, VersionSucceeds, TypeOK
  <1>3. ASSUME NEW p \in Proc, PutCommit(p) PROVE VersionSucceeds'
    <2>1. WriteEnds(p) /\ Overtake(p, key[p])
      BY <1>3 DEF PutCommit
    <2> QED BY <1>3, <2>1, OvertakeData, PutCommitData DEF VersionSucceeds, ReadsCurrent, Writing
  <1>4. ASSUME NEW p \in Proc, NEW k \in Key, DeleteBegin(p, k) PROVE VersionSucceeds'
    BY <1>4 DEF DeleteBegin, VersionSucceeds, TypeOK
  <1>5. ASSUME NEW p \in Proc, DeleteCommit(p) PROVE VersionSucceeds'
    <2>1. WriteEnds(p) /\ Overtake(p, key[p])
      BY <1>5 DEF DeleteCommit
    <2> QED BY <1>5, <2>1, OvertakeData, DeleteCommitData DEF VersionSucceeds, ReadsCurrent, Writing
  <1>6. ASSUME NEW p \in Proc, Abandon(p) PROVE VersionSucceeds'
    BY <1>6 DEF Abandon, WriteEnds, VersionSucceeds, TypeOK
  <1>7. ASSUME NEW p \in Proc, Query(p) PROVE VersionSucceeds'
    BY <1>7, QueryLeavesWrites DEF VersionSucceeds, Writing
  <1>8. CASE UNCHANGED vars
    BY <1>8 DEF vars, VersionSucceeds
  <1> QED BY <1>1, <1>2, <1>3, <1>4, <1>5, <1>6, <1>7, <1>8 DEF Next, Write

-----------------------------------------------------------------------------
(***************************************************************************)
(* What a List finds.                                                      *)
(***************************************************************************)

\* A commit can only take keys off "steady" and add keys to "gone" and "torn".
LEMMA CommitGathered ==
  ASSUME TypeOK, ReadsCurrent, NEW q \in Proc, GatheredBy(q),
         NEW p \in Proc, PutCommit(p) \/ DeleteCommit(p)
  PROVE  GatheredBy(q)'
  <1>1. /\ WriteEnds(p) /\ Overtake(p, key[p]) /\ UNCHANGED reader
        /\ pc[p] \in Writing
    BY DEF PutCommit, DeleteCommit, Writing
  <1>2. pc'[q] = IF q = p THEN "idle" ELSE pc[q]
    BY <1>1 DEF WriteEnds, TypeOK
  <1>3. /\ steady'[q] \subseteq steady[q]
        /\ q \in Listing => \A j \in steady'[q] :
             store'[j] # None /\ query[q] \subseteq store'[j].params
    BY <1>1 DEF Overtake
  <1>4. gone[q] \subseteq gone'[q] /\ torn \subseteq torn'
    BY <1>1 DEF Overtake, TypeOK
  <1>5. ASSUME q \in Listing, NEW k \in Key, AccountedFor(k, q) PROVE AccountedFor(k, q)'
    <2>1. CASE k = key[p] /\ store'[k] = None
      <3>1. k \in gone'[q]
        BY <1>1, <1>5, <2>1 DEF Overtake
      <3> QED BY <3>1 DEF AccountedFor
    <2>2. CASE k = key[p] /\ store'[k] # None
      BY <2>2 DEF AccountedFor
    <2>3. CASE k # key[p]
      <3>1. store'[k] = store[k]
        BY <2>3, PutCommitData, DeleteCommitData
      <3> QED BY <1>4, <1>5, <3>1 DEF AccountedFor
    <2> QED BY <2>1, <2>2, <2>3
  <1>6. /\ pc'[q] \in {"range", "fetch"} => q \in Listing
        /\ q \in Listing' => pc'[q] \in {"range", "fetch"}
    BY <1>2 DEF Listing
  <1>7. q \in Listing' => \A k \in steady'[q] : Matches(k, query[q])'
    BY <1>1, <1>3, <1>6 DEF Matches
  <1>8. pc'[q] = "range" =>
          /\ todo'[q] \subseteq Walk(query[q])'
          /\ steady'[q] \subseteq hits'[q]
          /\ todo'[q] # Walk(query[q])' => \A k \in hits'[q] : AccountedFor(k, q)'
          /\ missing'[q] = {}
    BY <1>1, <1>2, <1>3, <1>5, <1>6 DEF GatheredBy, TypeOK, Walk
  <1>9. pc'[q] = "fetch" =>
          /\ \A k \in steady'[q] : k \in todo'[q] \/ \E pair \in got'[q] : pair[1] = k
          /\ \A k \in todo'[q] : k \in Key /\ AccountedFor(k, q)'
    BY <1>1, <1>2, <1>3, <1>5, <1>6 DEF GatheredBy
  <1>10. pc'[q] \in {"fetch", "listError"} => missing'[q] \subseteq gone'[q] \cup torn'
    BY <1>1, <1>2, <1>4 DEF GatheredBy
  <1>11. pc'[q] = "listed" => \A k \in steady'[q] : \E pair \in got'[q] : pair[1] = k
    BY <1>1, <1>2, <1>3 DEF GatheredBy
  <1> QED BY <1>7, <1>8, <1>9, <1>10, <1>11 DEF GatheredBy

\* The commands of a List preserve it, because of what the lists hold meanwhile.
LEMMA QueryGathered ==
  ASSUME TypeOK, IndexComplete, IndexExact, NEW q \in Proc, GatheredBy(q), Query(q)
  PROVE  GatheredBy(q)'
  <1>1. ASSUME NEW C \in SUBSET Criterion, NEW among \in Scope, ListBegin(q, C, among)
        PROVE  GatheredBy(q)'
    BY <1>1 DEF ListBegin, GatheredBy, Listing, TypeOK, Matches
  <1>2. ASSUME NEW l \in List, ListRange(q, l) PROVE GatheredBy(q)'
    <2>1. \A k \in steady[q] : k \in index[l]
      <3>1. l \in Walk(query[q])
        BY <1>2 DEF ListRange, GatheredBy, Listing
      <3>2. \A k \in steady[q] : Matches(k, query[q])
        BY <1>2 DEF ListRange, GatheredBy, Listing
      <3>3. ASSUME NEW k \in steady[q] PROVE l \in ListsOf(store[k])
        BY <3>1, <3>2 DEF Matches, Walk, ListsOf
      <3> QED BY <3>3, <3>2 DEF Matches, IndexComplete, TypeOK
    <2>2. \A k \in index[l] : AccountedFor(k, q)
      BY DEF IndexExact, AccountedFor, TypeOK
    <2>3. UNCHANGED <<redis, pc, query, got, missing, steady, gone, torn>>
      BY <1>2 DEF ListRange
    <2>4. /\ hits'[q] = hits[q] \cap index[l]
          /\ todo'[q] = todo[q] \ {l}
          /\ pc[q] = "range"
      BY <1>2 DEF ListRange, TypeOK
    <2>5. steady'[q] \subseteq hits'[q]
      BY <2>1, <2>3, <2>4 DEF GatheredBy, Listing
    <2>6. \A k \in hits'[q] : AccountedFor(k, q)'
      BY <2>2, <2>3, <2>4 DEF AccountedFor
    <2> QED BY <2>3, <2>4, <2>5, <2>6 DEF GatheredBy, Listing, Matches, Walk
  <1>3. CASE ListJoin(q)
    <2>1. \A k \in hits[q] : k \in Key /\ AccountedFor(k, q)
      <3>1. Walk(query[q]) # {}
        BY DEF Walk
      <3> QED BY <1>3, <3>1 DEF ListJoin, GatheredBy, Listing, TypeOK
    <2>2. UNCHANGED <<redis, query, got, missing, steady, gone, torn>>
      BY <1>3 DEF ListJoin
    <2>3. pc[q] = "range" /\ pc'[q] = "fetch" /\ todo'[q] = hits[q]
      BY <1>3 DEF ListJoin, TypeOK
    <2> QED BY <2>1, <2>2, <2>3 DEF GatheredBy, Listing, Matches, AccountedFor
  <1>4. ASSUME NEW k \in Key, ListFetch(q, k) PROVE GatheredBy(q)'
    <2>1. UNCHANGED <<redis, pc, query, hits, steady, gone, torn>>
      BY <1>4 DEF ListFetch
    <2>2. pc[q] = "fetch" /\ k \in todo[q] /\ todo'[q] = todo[q] \ {k}
      BY <1>4 DEF ListFetch, TypeOK
    <2>3. CASE store[k] = None
      <3>1. k \in gone[q] \cup torn /\ k \notin steady[q]
        BY <2>2, <2>3 DEF GatheredBy, Listing, AccountedFor, Matches
      <3>2. missing'[q] = missing[q] \cup {k} /\ got'[q] = got[q]
        BY <1>4, <2>3 DEF ListFetch, TypeOK
      <3> QED BY <2>1, <2>2, <3>1, <3>2 DEF GatheredBy, Listing, Matches, AccountedFor
    <2>4. CASE store[k] # None
      <3>1. got'[q] = got[q] \cup {<<k, store[k]>>} /\ missing'[q] = missing[q]
        BY <1>4, <2>4 DEF ListFetch, TypeOK
      <3>2. ASSUME NEW j \in steady[q]
            PROVE  j \in todo'[q] \/ \E pair \in got'[q] : pair[1] = j
        <4>1. CASE j = k
          <5>1. <<k, store[k]>> \in got'[q] /\ <<k, store[k]>>[1] = j
            BY <3>1, <4>1
          <5> QED BY <5>1
        <4>2. CASE j # k
          <5>1. j \in todo[q] \/ \E pair \in got[q] : pair[1] = j
            BY <2>2 DEF GatheredBy, Listing
          <5> QED BY <2>2, <3>1, <4>2, <5>1
        <4> QED BY <4>1, <4>2
      <3> QED BY <2>1, <2>2, <3>1, <3>2 DEF GatheredBy, Listing, Matches, AccountedFor
    <2> QED BY <2>3, <2>4
  <1>5. CASE ListEnd(q)
    BY <1>5 DEF ListEnd, GatheredBy, Listing, TypeOK, Matches
  <1>6. CASE Return(q)
    BY <1>6 DEF Return, GatheredBy, Listing, TypeOK
  <1> QED BY <1>1, <1>2, <1>3, <1>4, <1>5, <1>6 DEF Query

\* No step of a process spoils what another one's query has gathered.
LEMMA StepGathered ==
  ASSUME TypeOK, ReadsCurrent, IndexComplete, IndexExact,
         NEW q \in Proc, GatheredBy(q), [Next]_vars
  PROVE  GatheredBy(q)'
  <1>1. ASSUME NEW p \in Proc, Write(p) PROVE GatheredBy(q)'
    <2>1. CASE PutCommit(p) \/ DeleteCommit(p)
      BY <2>1, CommitGathered
    <2>2. CASE ~(PutCommit(p) \/ DeleteCommit(p))
      <3>1. /\ UNCHANGED <<redis, reader, witness, torn>>
            /\ q # p => pc'[q] = pc[q]
            /\ pc'[p] \in {"idle"} \cup Writing
        BY <1>1, <2>2
           DEF Write, PutBegin, PutRead, DeleteBegin, Abandon, WriteEnds, TypeOK, Writing
      <3> QED BY <3>1 DEF GatheredBy, Listing, Matches, AccountedFor, Writing
    <2> QED BY <2>1, <2>2
  <1>2. ASSUME NEW p \in Proc, Query(p) PROVE GatheredBy(q)'
    <2>1. CASE p = q
      BY <1>2, <2>1, QueryGathered
    <2>2. CASE p # q
      <3>1. /\ UNCHANGED <<redis, torn>>
            /\ pc'[q] = pc[q] /\ query'[q] = query[q] /\ todo'[q] = todo[q]
            /\ hits'[q] = hits[q] /\ got'[q] = got[q] /\ missing'[q] = missing[q]
            /\ steady'[q] = steady[q] /\ gone'[q] = gone[q]
        BY <1>2, <2>2
           DEF Query, ListBegin, ListRange, ListJoin, ListFetch, ListEnd, Return, TypeOK
      <3> QED BY <3>1 DEF GatheredBy, Listing, Matches, AccountedFor
    <2> QED BY <2>1, <2>2
  <1>3. CASE UNCHANGED vars
    BY <1>3 DEF vars, GatheredBy, Listing, Matches, AccountedFor
  <1> QED BY <1>1, <1>2, <1>3 DEF Next

-----------------------------------------------------------------------------
(***************************************************************************)
(* Theorems.                                                               *)
(***************************************************************************)

\* The strengthened invariant holds in the initial states.
LEMMA InitInvariant == Init => IInv
  <1> SUFFICES ASSUME Init PROVE IInv
    OBVIOUS
  <1>1. TypeOK
    BY InitTypeOK
  <1> QED BY <1>1 DEF Init, NoLists, IInv, IndexComplete, IndexExact, ReadsCurrent, Writing,
                    VersionSucceeds, GatheredBy, Listing

\* Every step preserves the strengthened invariant.
LEMMA StepInvariant == IInv /\ [Next]_vars => IInv'
  <1> SUFFICES ASSUME IInv, [Next]_vars PROVE IInv'
    OBVIOUS
  <1>1. TypeOK'
    <2>1. CASE UNCHANGED vars
      BY <2>1 DEF vars, IInv, TypeOK
    <2> QED BY <2>1, WriteTypeOK, QueryTypeOK DEF Next, IInv
  <1>2. (\A q \in Proc : GatheredBy(q))'
    BY StepGathered DEF IInv
  <1> QED BY <1>1, <1>2, StepIndexComplete, StepIndexExact, StepReadsCurrent,
             StepVersionSucceeds DEF IInv

\* The strengthened invariant is an invariant.
THEOREM Invariance == Spec => []IInv
  BY InitInvariant, StepInvariant, PTL DEF Spec

\* Type correctness, for all processes, keys and criteria.
THEOREM TypeCorrect == Spec => []TypeOK
  BY Invariance, PTL DEF IInv

\* No interleaving of writers loses an object from a list it belongs on.
THEOREM CompleteIndex == Spec => []IndexComplete
  BY Invariance, PTL DEF IInv

\* A list keeps a stale entry only of a key two writes raced for.
THEOREM ExactIndex == Spec => []IndexExact
  BY Invariance, PTL DEF IInv

\* A List that answers overlooks nothing that matched from beginning to end.
THEOREM CompleteList == Spec => []ListMissesNothing
  <1>1. IInv => ListMissesNothing
    BY DEF IInv, GatheredBy, ListMissesNothing
  <1> QED BY <1>1, Invariance, PTL

\* A List fails only on a key deleted meanwhile or raced for earlier.
THEOREM ListFailure == Spec => []ListFailsOnlyOnRace
  <1>1. IInv => ListFailsOnlyOnRace
    BY DEF IInv, GatheredBy, ListFailsOnlyOnRace
  <1> QED BY <1>1, Invariance, PTL

\* A Put that is not overtaken stores the successor of the stored version.
THEOREM VersionOfPut == Spec => []VersionSucceeds
  BY Invariance, PTL DEF IInv

-----------------------------------------------------------------------------
(***************************************************************************)
(* The history of a List.                                                  *)
(***************************************************************************)

\* The history variables keep their types.
LEMMA ObserveTypes ==
  ASSUME TypeOK, TypeOK', Observed, Observe
  PROVE  /\ within' \in [Proc -> SUBSET Key]
         /\ met' \in [Proc -> SUBSET (Key \X Criterion)]
  <1>1. within' \in [Proc -> SUBSET Key]
    BY DEF TypeOK, Observed, Observe
  <1>2. ASSUME NEW q \in Proc, NEW k \in within'[q]
        PROVE  Abstract!Met(store', k, query'[q]) \subseteq Key \X Criterion
    <2>1. k \in Key /\ query'[q] \subseteq Criterion
      BY <1>1 DEF TypeOK
    <2> QED BY <2>1 DEF Abstract!Met
  <1>3. ASSUME NEW q \in Proc
        PROVE  met'[q] \subseteq Key \X Criterion
    BY <1>2 DEF Observed, Observe
  <1>4. met' = [q \in Proc |-> met'[q]]
    BY DEF Observe
  <1> QED BY <1>1, <1>3, <1>4

\* Nothing is added to the history of a process whose List does not move while
\* the store stays as it is.
LEMMA Unseen ==
  ASSUME Observed, Observe, NEW q \in Proc,
         pc'[q] = pc[q], query'[q] = query[q], store' = store
  PROVE  within'[q] = within[q] /\ met'[q] = met[q]
  <1> Unlisted(q) /\ ListHolds(q)
    BY DEF Observed
  <1>1. within'[q] = within[q]
    BY DEF Observe, Unlisted
  <1>2. CASE pc[q] \in {"range", "fetch"}
    <2>1. \A k \in within[q] : Abstract!Met(store, k, query[q]) \subseteq met[q]
      BY <1>2 DEF ListHolds
    <2>2. met'[q] = met[q] \cup UNION {Abstract!Met(store', k, query'[q]) : k \in within'[q]}
      BY <1>2 DEF Observe
    <2>3. met'[q] = met[q] \cup UNION {Abstract!Met(store, k, query[q]) : k \in within[q]}
      BY <1>1, <2>2
    <2>4. UNION {Abstract!Met(store, k, query[q]) : k \in within[q]} \subseteq met[q]
      BY <2>1
    <2> QED BY <1>1, <2>3, <2>4
  <1>3. CASE pc[q] \notin {"range", "fetch"}
    BY <1>1, <1>3 DEF Observe, Unlisted
  <1> QED BY <1>2, <1>3

\* A process that is writing or idle before and after a step has no history.
LEMMA UnseenWriter ==
  ASSUME Observed, Observe, NEW q \in Proc,
         pc[q] \in Writing \cup {"idle"}, pc'[q] \in Writing \cup {"idle"}
  PROVE  within'[q] = within[q] /\ met'[q] = met[q]
  BY DEF Observed, Unlisted, Observe, Writing

\* A commit adds to the history of the running Lists what the key then meets.
LEMMA SeenAtCommit ==
  ASSUME TypeOK, ReadsCurrent, Observed, Observe, NEW p \in Proc, PutCommit(p) \/ DeleteCommit(p),
         NEW q \in Proc
  PROVE  /\ within'[q] = within[q]
         /\ met'[q] = IF q \in Listing /\ key[p] \in within[q]
                        THEN met[q] \cup Abstract!Met(store', key[p], query[q]) ELSE met[q]
  <1>1. /\ pc'[q] = IF q = p THEN "idle" ELSE pc[q]
        /\ pc[p] \in Writing /\ query' = query
    BY DEF PutCommit, DeleteCommit, WriteEnds, TypeOK, Writing
  <1>2. \A j \in Key : j # key[p] => store'[j] = store[j]
    BY PutCommitData, DeleteCommitData
  <1>3. CASE q \notin Listing
    <2>1. pc[q] \notin {"range", "fetch"} /\ pc'[q] \notin {"range", "fetch"}
      BY <1>1, <1>3 DEF Listing, Writing
    <2> QED BY <1>1, <1>3, <2>1 DEF Observed, Unlisted, Observe
  <1>4. CASE q \in Listing
    <2>1. q # p /\ pc[q] \in {"range", "fetch"} /\ pc'[q] = pc[q]
      BY <1>1, <1>4 DEF Listing, Writing
    <2>2. within'[q] = within[q]
      BY <2>1 DEF Observe
    <2>3. met'[q] = met[q] \cup UNION {Abstract!Met(store', j, query[q]) : j \in within[q]}
      BY <1>1, <2>1, <2>2 DEF Observe
    <2>4. ASSUME NEW j \in within[q], j # key[p]
          PROVE  Abstract!Met(store', j, query[q]) \subseteq met[q]
      <3>1. Abstract!Met(store, j, query[q]) \subseteq met[q]
        BY <2>1, <2>4 DEF Observed, ListHolds
      <3>2. store'[j] = store[j]
        BY <1>2, <2>4 DEF Observed
      <3> QED BY <3>1, <3>2 DEF Abstract!Met
    <2> QED BY <1>4, <2>2, <2>3, <2>4
  <1> QED BY <1>3, <1>4

-----------------------------------------------------------------------------
(***************************************************************************)
(* What the refinement rests on is invariant.                              *)
(***************************************************************************)

\* A process whose own variables do not move keeps what it holds when nothing
\* is stored.
LEMMA OthersHold ==
  ASSUME Observed, Observe, UNCHANGED <<store, torn>>, NEW q \in Proc,
         pc'[q] = pc[q], key'[q] = key[q], fresh'[q] = fresh[q], query'[q] = query[q],
         todo'[q] = todo[q], hits'[q] = hits[q], got'[q] = got[q],
         missing'[q] = missing[q], steady'[q] = steady[q], gone'[q] = gone[q]
  PROVE  (Unlisted(q) /\ WriteHolds(q) /\ ListHolds(q))'
  <1>1. within'[q] = within[q] /\ met'[q] = met[q]
    BY Unseen
  <1>2. Unlisted(q) /\ WriteHolds(q) /\ ListHolds(q)
    BY DEF Observed
  <1> QED BY <1>1, <1>2 DEF Unlisted, WriteHolds, ListHolds, Abstract!Met

\* The steps of a write before its commit.
LEMMA WriterHolds ==
  ASSUME TypeOK, ReadsCurrent, Observed, Observe, NEW p \in Proc, Write(p),
         ~PutCommit(p), ~DeleteCommit(p)
  PROVE  (Unlisted(p) /\ WriteHolds(p) /\ ListHolds(p))'
  <1>1. /\ pc[p] \in Writing \cup {"idle"} /\ pc'[p] \in Writing \cup {"idle"}
        /\ UNCHANGED <<reader, witness>>
        /\ pc'[p] \notin Writing => key'[p] = None
        /\ pc'[p] = "putCommit" /\ "version" \in fresh'[p] => "lists" \in fresh'[p]
    BY DEF Write, PutBegin, PutRead, DeleteBegin, Abandon, WriteEnds, TypeOK, Writing
  <1>2. within'[p] = within[p] /\ met'[p] = met[p]
    BY <1>1, UnseenWriter
  <1>3. Unlisted(p) /\ ListHolds(p)
    BY DEF Observed
  <1> QED BY <1>1, <1>2, <1>3 DEF Unlisted, WriteHolds, ListHolds, Writing

\* A commit.
LEMMA CommitHolds ==
  ASSUME TypeOK, ReadsCurrent, Observed, Observe, NEW p \in Proc, PutCommit(p) \/ DeleteCommit(p),
         NEW q \in Proc
  PROVE  (Unlisted(q) /\ WriteHolds(q) /\ ListHolds(q))'
  <1>1. /\ WriteEnds(p) /\ Overtake(p, key[p]) /\ UNCHANGED reader
        /\ pc[p] \in Writing
    BY DEF PutCommit, DeleteCommit, Writing
  <1>2. /\ pc'[q] = IF q = p THEN "idle" ELSE pc[q]
        /\ key'[q] = IF q = p THEN None ELSE key[q]
    BY <1>1 DEF WriteEnds, TypeOK
  <1>3. Unlisted(q) /\ WriteHolds(q) /\ ListHolds(q) /\ Unlisted(p)
    BY DEF Observed
  <1>4. /\ fresh'[q] \in {{}, fresh[q]}
        /\ steady'[q] \subseteq steady[q]
        /\ q \notin Listing => gone'[q] = gone[q]
        /\ torn \subseteq torn'
    BY <1>1 DEF Overtake, TypeOK
  <1>5. /\ within'[q] = within[q]
        /\ met'[q] = IF q \in Listing /\ key[p] \in within[q]
                       THEN met[q] \cup Abstract!Met(store', key[p], query[q]) ELSE met[q]
    BY SeenAtCommit
  <1>6. q = p => query[q] = {} /\ got[q] = {} /\ missing[q] = {} /\ within[q] = {} /\ met[q] = {}
    BY <1>1, <1>3 DEF Unlisted
  <1>7. Unlisted(q)'
    BY <1>1, <1>2, <1>3, <1>4, <1>5, <1>6 DEF Unlisted, Listing, Writing
  <1>8. WriteHolds(q)'
    BY <1>1, <1>2, <1>3, <1>4 DEF WriteHolds, Writing
  <1>9. ASSUME pc'[q] \in {"range", "fetch"}, NEW k \in within[q]
        PROVE  Abstract!Met(store', k, query[q]) \subseteq met'[q]
    <2>1. pc[q] \in {"range", "fetch"} /\ q \in Listing
      BY <1>2, <1>9 DEF Listing
    <2>2. CASE k = key[p]
      BY <1>5, <1>9, <2>1, <2>2
    <2>3. CASE k # key[p]
      <3>1. store'[k] = store[k]
        BY <1>9, <2>3, PutCommitData, DeleteCommitData DEF Observed
      <3>2. Abstract!Met(store, k, query[q]) \subseteq met[q]
        BY <1>3, <1>9, <2>1 DEF ListHolds
      <3> QED BY <1>5, <3>1, <3>2 DEF Abstract!Met
    <2> QED BY <2>2, <2>3
  <1>10. ListHolds(q)'
    <2>1. met[q] \subseteq met'[q]
      BY <1>5
    <2> QED BY <1>1, <1>2, <1>3, <1>4, <1>5, <1>9, <2>1 DEF ListHolds
  <1> QED BY <1>7, <1>8, <1>10

\* The commands of a List.
LEMMA QueryHolds ==
  ASSUME IInv, Observed, Observe, NEW p \in Proc, Query(p)
  PROVE  (Unlisted(p) /\ WriteHolds(p) /\ ListHolds(p))'
  <1> USE DEF IInv
  <1> /\ Unlisted(p) /\ WriteHolds(p) /\ ListHolds(p)
      /\ within[p] \subseteq Key /\ query[p] \subseteq Criterion
    BY DEF Observed, TypeOK
  <1>1. ASSUME NEW C \in SUBSET Criterion, NEW K \in Scope, ListBegin(p, C, K)
        PROVE  (Unlisted(p) /\ WriteHolds(p) /\ ListHolds(p))'
    <2>1. /\ pc[p] = "idle" /\ pc'[p] = "range" /\ query'[p] = C /\ todo'[p] = Walk(C)
          /\ hits'[p] = K /\ got'[p] = {} /\ missing'[p] = {}
          /\ UNCHANGED <<store, key, fresh, torn>>
      BY <1>1 DEF ListBegin, TypeOK
    <2>2. within'[p] = K
      BY <2>1 DEF Observe
    <2>3. met'[p] = met[p] \cup UNION {Abstract!Met(store', k, query'[p]) : k \in within'[p]}
      BY <2>1 DEF Observe
    <2>4. \A k \in within'[p] : Abstract!Met(store', k, query'[p]) \subseteq met'[p]
      BY <2>3
    <2>5. C \ Walk(C) = {}
      BY DEF Walk
    <2> QED BY <2>1, <2>2, <2>4, <2>5 DEF Unlisted, WriteHolds, ListHolds, Writing
  <1>2. ASSUME NEW l \in List, ListRange(p, l)
        PROVE  (Unlisted(p) /\ WriteHolds(p) /\ ListHolds(p))'
    <2>1. /\ pc[p] = "range" /\ l \in todo[p]
          /\ hits'[p] = hits[p] \cap index[l] /\ todo'[p] = todo[p] \ {l}
          /\ UNCHANGED <<store, index, pc, key, fresh, torn, query, got, missing, steady, gone>>
      BY <1>2 DEF ListRange, TypeOK
    <2>2. within'[p] = within[p] /\ met'[p] = met[p]
      BY <2>1, Unseen
    <2>3. ASSUME NEW k \in hits'[p] \ torn, l \in query[p] PROVE <<k, l>> \in met[p]
      <3>1. k \in Key /\ k \in within[p] /\ k \in index[l]
        BY <2>1 DEF ListHolds
      <3>2. store[k] # None /\ l \in ListsOf(store[k])
        BY <3>1 DEF IndexExact
      <3>3. l \in Criterion /\ l # Whole
        BY <2>3, WholeIsNoCriterion
      <3>4. <<k, l>> \in Abstract!Met(store, k, query[p])
        BY <2>3, <3>2, <3>3 DEF Abstract!Met, ListsOf
      <3> QED BY <2>1, <3>1, <3>4 DEF ListHolds
    <2>4. \A k \in hits'[p] \ torn : {k} \X (query[p] \ todo[p]) \subseteq met[p]
      BY <2>1 DEF ListHolds
    <2>5. \A k \in hits'[p] \ torn : {k} \X (query[p] \ todo'[p]) \subseteq met[p]
      BY <2>1, <2>3, <2>4
    <2> QED BY <2>1, <2>2, <2>5 DEF Unlisted, WriteHolds, ListHolds, Abstract!Met, Writing
  <1>3. CASE ListJoin(p)
    <2>1. /\ pc[p] = "range" /\ todo[p] = {} /\ pc'[p] = "fetch" /\ todo'[p] = hits[p]
          /\ UNCHANGED <<store, key, fresh, torn, query, hits, got, missing, steady, gone>>
      BY <1>3 DEF ListJoin, TypeOK
    <2>2. within'[p] = within[p]
      BY <2>1 DEF Observe
    <2>3. met[p] \subseteq met'[p]
      BY <2>1 DEF Observe
    <2>4. \A k \in within[p] : Abstract!Met(store', k, query[p]) \subseteq met'[p]
      BY <2>1, <2>3 DEF ListHolds, Abstract!Met
    <2>5. \A k \in hits[p] \ torn : {k} \X query[p] \subseteq met'[p]
      BY <2>1, <2>3 DEF ListHolds
    <2> QED BY <2>1, <2>2, <2>4, <2>5 DEF Unlisted, WriteHolds, ListHolds, Writing
  <1>4. ASSUME NEW k \in Key, ListFetch(p, k)
        PROVE  (Unlisted(p) /\ WriteHolds(p) /\ ListHolds(p))'
    <2>1. /\ pc[p] = "fetch" /\ k \in todo[p] /\ todo'[p] = todo[p] \ {k}
          /\ missing'[p] \subseteq missing[p] \cup {k}
          /\ got'[p] \subseteq got[p] \cup {<<k, store[k]>>}
          /\ UNCHANGED <<store, pc, key, fresh, torn, query, hits, steady, gone>>
      BY <1>4 DEF ListFetch, TypeOK
    <2>2. within'[p] = within[p] /\ met'[p] = met[p]
      BY <2>1, Unseen
    <2>3. \A pair \in got'[p] : pair[1] \in hits[p] \ todo'[p]
      BY <2>1 DEF ListHolds
    <2> QED BY <2>1, <2>2, <2>3 DEF Unlisted, WriteHolds, ListHolds, Abstract!Met, Writing
  <1>5. CASE ListEnd(p)
    <2>1. /\ pc[p] = "fetch" /\ pc'[p] \in {"listed", "listError"}
          /\ UNCHANGED <<store, key, fresh, torn, hits>>
      BY <1>5 DEF ListEnd, TypeOK
    <2>2. within'[p] = within[p]
      BY <2>1 DEF Observe
    <2> QED BY <2>1, <2>2 DEF Unlisted, WriteHolds, ListHolds, Writing
  <1>6. CASE Return(p)
    <2>1. /\ pc[p] \in {"listed", "listError"} /\ pc'[p] = "idle" /\ key' = key
          /\ query'[p] = {} /\ hits'[p] = {} /\ got'[p] = {} /\ missing'[p] = {}
          /\ steady'[p] = {} /\ gone'[p] = {}
      BY <1>6 DEF Return, TypeOK
    <2>2. within'[p] = {} /\ met'[p] = {}
      BY <2>1 DEF Observe
    <2> QED BY <2>1, <2>2 DEF Unlisted, WriteHolds, ListHolds, Writing
  <1> QED BY <1>1, <1>2, <1>3, <1>4, <1>5, <1>6 DEF Query

\* Every step preserves it.
LEMMA StepObserved ==
  ASSUME IInv, TypeOK', Observed, [Next /\ Observe]_<<vars, observed>>
  PROVE  Observed'
  <1>1. CASE Next /\ Observe
    <2>1. within' \in [Proc -> SUBSET Key] /\ met' \in [Proc -> SUBSET (Key \X Criterion)]
      BY <1>1, ObserveTypes DEF IInv
    <2>2. ASSUME NEW q \in Proc PROVE (Unlisted(q) /\ WriteHolds(q) /\ ListHolds(q))'
      <3>1. ASSUME NEW p \in Proc, PutCommit(p) \/ DeleteCommit(p)
            PROVE  (Unlisted(q) /\ WriteHolds(q) /\ ListHolds(q))'
        BY <1>1, <3>1, CommitHolds DEF IInv
      <3>2. ASSUME NEW p \in Proc, Write(p), ~PutCommit(p), ~DeleteCommit(p)
            PROVE  (Unlisted(q) /\ WriteHolds(q) /\ ListHolds(q))'
        <4>1. CASE p = q
          BY <1>1, <3>2, <4>1, WriterHolds DEF IInv
        <4>2. CASE p # q
          <5>1. /\ UNCHANGED <<store, torn, reader, witness>>
                /\ pc'[q] = pc[q] /\ key'[q] = key[q] /\ fresh'[q] = fresh[q]
            BY <3>2, <4>2
               DEF IInv, Write, PutBegin, PutRead, DeleteBegin, Abandon, WriteEnds, TypeOK
          <5> QED BY <1>1, <5>1, OthersHold
        <4> QED BY <4>1, <4>2
      <3>3. ASSUME NEW p \in Proc, Query(p)
            PROVE  (Unlisted(q) /\ WriteHolds(q) /\ ListHolds(q))'
        <4>1. CASE p = q
          BY <1>1, <3>3, <4>1, QueryHolds
        <4>2. CASE p # q
          <5>1. /\ UNCHANGED <<store, torn, key, fresh>>
                /\ pc'[q] = pc[q] /\ query'[q] = query[q] /\ todo'[q] = todo[q]
                /\ hits'[q] = hits[q] /\ got'[q] = got[q] /\ missing'[q] = missing[q]
                /\ steady'[q] = steady[q] /\ gone'[q] = gone[q]
            BY <3>3, <4>2
               DEF IInv, Query, ListBegin, ListRange, ListJoin, ListFetch, ListEnd, Return, TypeOK
          <5> QED BY <1>1, <5>1, OthersHold
        <4> QED BY <4>1, <4>2
      <3> QED BY <1>1, <3>1, <3>2, <3>3 DEF Next
    <2> QED BY <2>1, <2>2 DEF Observed
  <1>2. CASE UNCHANGED <<vars, observed>>
    BY <1>2 DEF vars, observed, Observed, Unlisted, WriteHolds, ListHolds, Abstract!Met
  <1> QED BY <1>1, <1>2

-----------------------------------------------------------------------------
(***************************************************************************)
(* Every step is a step of the abstract store, or none.                    *)
(***************************************************************************)

\* A write before its commit begins or fails, or is not seen at all.
LEMMA WriterMaps ==
  ASSUME IInv, Observed, Observe, NEW p \in Proc, Write(p), ~PutCommit(p), ~DeleteCommit(p)
  PROVE  [Abstract!Next]_(Abstract!vars)
  <1> USE DEF IInv
  <1>1. /\ UNCHANGED <<store, torn, reader, witness>>
        /\ pc[p] \in Writing \cup {"idle"} /\ pc'[p] \in Writing \cup {"idle"}
        /\ \A q \in Proc : q # p => pc'[q] = pc[q] /\ key'[q] = key[q] /\ fresh'[q] = fresh[q]
    BY DEF Write, PutBegin, PutRead, DeleteBegin, Abandon, WriteEnds, TypeOK, Writing
  <1>2. within' = within /\ met' = met
    <2>1. \A q \in Proc : within'[q] = within[q] /\ met'[q] = met[q]
      BY <1>1, Unseen, UnseenWriter
    <2> QED BY <2>1 DEF Observed, Observe
  <1>3. Listing' = Listing
    BY <1>1 DEF Listing, Writing
  <1>4. GoneWithin' = GoneWithin
    BY <1>1, <1>2 DEF GoneWithin
  <1>5. Reply' = Reply /\ Reply[p] = "none" /\ p \notin Listing
    BY <1>1 DEF Reply, Listing, Writing
  <1>6. UNCHANGED <<Abstract!asked, Abstract!seen, got, Reply>>
    BY <1>1, <1>2, <1>3, <1>4, <1>5 DEF Abstract!asked, Abstract!seen
  <1>7. \A q \in Proc : q # p => (q \in Overtaken' <=> q \in Overtaken)
    BY <1>1 DEF Overtaken
  <1>8. Overtaken \subseteq Proc /\ Overtaken' \subseteq Proc
    BY DEF Overtaken
  <1>9. CASE \E k \in Key : (\E C \in SUBSET Criterion, v \in Sent : PutBegin(p, k, C, v))
                              \/ DeleteBegin(p, k)
    <2>1. PICK k \in Key : (\E C \in SUBSET Criterion, v \in Sent : PutBegin(p, k, C, v))
                             \/ DeleteBegin(p, k)
      BY <1>9
    <2>2. pc[p] = "idle" /\ key' = [key EXCEPT ![p] = k]
      BY <2>1 DEF PutBegin, DeleteBegin
    <2>3. p \notin Overtaken /\ p \notin Overtaken'
      BY <2>1 DEF Overtaken, PutBegin, DeleteBegin, TypeOK
    <2>4. Overtaken' = Overtaken
      BY <1>7, <1>8, <2>3
    <2>5. key[p] = None
      BY <2>2 DEF Observed, WriteHolds, Writing
    <2>6. Abstract!WriteBegin(p, k)
      BY <1>1, <1>5, <1>6, <2>2, <2>4, <2>5 DEF Abstract!WriteBegin
    <2> QED BY <2>6 DEF Abstract!Next
  <1>10. CASE PutRead(p)
    <2>1. key' = key /\ (p \in Overtaken' <=> p \in Overtaken)
      BY <1>10 DEF PutRead, Overtaken, TypeOK
    <2>2. Overtaken' = Overtaken
      BY <1>7, <1>8, <2>1
    <2> QED BY <1>1, <1>6, <2>1, <2>2 DEF Abstract!vars, Abstract!written
  <1>11. CASE Abandon(p)
    <2>1. key[p] # None /\ key' = [key EXCEPT ![p] = None]
      BY <1>11, NoneIsNoKey DEF Abandon, WriteEnds, ReadsCurrent, Writing
    <2>2. p \notin Overtaken'
      BY <1>11 DEF Abandon, WriteEnds, TypeOK, Overtaken
    <2>3. Overtaken' = Overtaken \ {p}
      BY <1>7, <1>8, <2>2
    <2>4. Abstract!WriteFails(p)
      BY <1>1, <1>6, <2>1, <2>3 DEF Abstract!WriteFails
    <2> QED BY <2>4 DEF Abstract!Next
  <1> QED BY <1>9, <1>10, <1>11 DEF Write

\* A commit is the moment a write takes effect.
LEMMA CommitMaps ==
  ASSUME IInv, Observed, Observe, NEW p \in Proc, PutCommit(p) \/ DeleteCommit(p)
  PROVE  Abstract!Next
  <1> USE DEF IInv
  <1>1. PICK o : o = IF PutCommit(p) THEN new[p] ELSE None
    OBVIOUS
  <1>2. /\ WriteEnds(p) /\ Overtake(p, key[p]) /\ UNCHANGED reader
        /\ pc[p] \in Writing /\ key[p] \in Key /\ key[p] # None
        /\ store' = [store EXCEPT ![key[p]] = o]
        /\ o \in Object \cup {None}
    BY <1>1, NoneIsNoKey DEF PutCommit, DeleteCommit, Writing, ReadsCurrent, TypeOK
  <1>3. ASSUME p \notin Overtaken
        PROVE  /\ "lists" \in fresh[p]
               /\ o # None /\ store[key[p]] # None => o.version = store[key[p]].version + 1
    <2>1. CASE PutCommit(p)
      <3>1. pc[p] = "putCommit" /\ "version" \in fresh[p] /\ o = new[p]
        BY <1>1, <1>3, <2>1 DEF PutCommit, Overtaken
      <3> QED BY <3>1 DEF Observed, WriteHolds, VersionSucceeds
    <2>2. CASE ~PutCommit(p)
      <3>1. pc[p] = "deleteCommit" /\ o = None
        BY <1>1, <2>2 DEF DeleteCommit
      <3> QED BY <1>3, <3>1 DEF Overtaken
    <2> QED BY <2>1, <2>2
  <1>4. key' = [key EXCEPT ![p] = None] /\ pc' = [pc EXCEPT ![p] = "idle"]
    BY <1>2 DEF WriteEnds
  <1>5. Overtaken' = (Overtaken \cup {q \in Proc : key[q] = key[p]}) \ {p}
    <2>1. ASSUME NEW q \in Proc, q # p
          PROVE  q \in Overtaken' <=> q \in Overtaken \/ key[q] = key[p]
      <3>1. pc'[q] = pc[q]
        BY <1>4, <2>1 DEF TypeOK
      <3>2. fresh'[q] = IF key[q] = key[p] THEN {} ELSE fresh[q]
        BY <1>2, <2>1 DEF Overtake
      <3>3. key[q] = key[p] => pc[q] \in Writing
        BY <1>2 DEF Observed, WriteHolds
      <3> QED BY <3>1, <3>2, <3>3 DEF Overtaken, Writing
    <2>2. p \notin Overtaken'
      BY <1>4 DEF Overtaken, TypeOK
    <2> QED BY <2>1, <2>2 DEF Overtaken
  <1>6. torn' \in IF p \in Overtaken THEN {torn, torn \cup {key[p]}} ELSE {torn}
    BY <1>2, <1>3 DEF Overtake
  <1>7. Listing' = Listing /\ p \notin Listing
    BY <1>2, <1>4 DEF Listing, Writing, TypeOK
  <1>8. Reply' = Reply
    <2>1. \A q \in Proc : Reply'[q] = Reply[q]
      BY <1>2, <1>4 DEF Reply, TypeOK, Writing
    <2> QED BY <2>1 DEF Reply
  <1>9. within' = within
    <2>1. \A q \in Proc : within'[q] = within[q]
      BY SeenAtCommit
    <2> QED BY <2>1 DEF Observed, Observe
  <1>10. steady' = [q \in Proc |->
           IF q \in Listing
             THEN {j \in steady[q] : store'[j] # None /\ query[q] \subseteq store'[j].params}
             ELSE steady[q]]
    BY <1>2 DEF Overtake
  <1>11. GoneWithin' = [q \in Proc |->
           IF q \in Listing /\ key[p] \in within[q] /\ o = None
             THEN GoneWithin[q] \cup {key[p]} ELSE GoneWithin[q]]
    <2>1. store'[key[p]] = o
      BY <1>2 DEF TypeOK
    <2>2. \A q \in Proc : gone'[q] = IF q \in Listing /\ o = None
                                       THEN gone[q] \cup {key[p]} ELSE gone[q]
      BY <1>2, <2>1 DEF Overtake
    <2> QED BY <1>9, <2>2 DEF GoneWithin
  <1>12. met' = [q \in Proc |->
           IF q \in Listing /\ key[p] \in within[q]
             THEN met[q] \cup Abstract!Met(store', key[p], query[q]) ELSE met[q]]
    <2>1. \A q \in Proc : met'[q] = IF q \in Listing /\ key[p] \in within[q]
             THEN met[q] \cup Abstract!Met(store', key[p], query[q]) ELSE met[q]
      BY SeenAtCommit
    <2> QED BY <2>1 DEF Observe
  <1>13. UNCHANGED <<Abstract!asked, got, Reply>>
    BY <1>2, <1>7, <1>8, <1>9 DEF Abstract!asked
  <1>14. Abstract!WriteAt(p, o)
    BY <1>2, <1>3, <1>4, <1>5, <1>6, <1>10, <1>11, <1>12, <1>13 DEF Abstract!WriteAt
  <1> QED BY <1>2, <1>14 DEF Abstract!Next

\* What the abstract store sees of the processes that p's query leaves alone.
LEMMA QueryFrame ==
  ASSUME IInv, Observed, Observe, NEW p \in Proc, Query(p)
  PROVE  /\ UNCHANGED Abstract!written
         /\ \A q \in Proc \ {p} : within'[q] = within[q] /\ met'[q] = met[q]
  <1>1. /\ UNCHANGED <<store, torn, key, fresh>>
        /\ \A q \in Proc \ {p} : pc'[q] = pc[q] /\ query'[q] = query[q]
        /\ pc[p] \notin Writing /\ pc'[p] \notin Writing
    BY DEF IInv, Query, ListBegin, ListRange, ListJoin, ListFetch, ListEnd, Return, TypeOK, Writing
  <1>2. Overtaken' = Overtaken
    BY <1>1 DEF Overtaken, Writing
  <1>3. \A q \in Proc \ {p} : within'[q] = within[q] /\ met'[q] = met[q]
    BY <1>1, Unseen
  <1> QED BY <1>1, <1>2, <1>3 DEF Abstract!written

\* A List begins, reads an object or replies, or its command is not seen at all.
LEMMA QueryMaps ==
  ASSUME IInv, Observed, Observe, NEW p \in Proc, Query(p)
  PROVE  [Abstract!Next]_(Abstract!vars)
  <1> USE DEF IInv
  <1> /\ Unlisted(p) /\ WriteHolds(p) /\ ListHolds(p)
    BY DEF Observed
  <1>1. /\ UNCHANGED Abstract!written
        /\ \A q \in Proc \ {p} : within'[q] = within[q] /\ met'[q] = met[q]
    BY QueryFrame
  <1>2. within \in [Proc -> SUBSET Key] /\ met \in [Proc -> SUBSET (Key \X Criterion)]
    BY DEF Observed
  <1>3. within' = [q \in Proc |-> within'[q]] /\ met' = [q \in Proc |-> met'[q]]
    BY DEF Observe
  <1>4. within' = [within EXCEPT ![p] = within'[p]] /\ met' = [met EXCEPT ![p] = met'[p]]
    BY <1>1, <1>2, <1>3
  <1>5. ASSUME within'[p] = within[p], met'[p] = met[p] PROVE within' = within /\ met' = met
    BY <1>2, <1>4, <1>5
  <1>6. ASSUME NEW C \in SUBSET Criterion, NEW K \in Scope, ListBegin(p, C, K)
        PROVE  Abstract!Next
    <2>1. /\ pc[p] = "idle" /\ pc' = [pc EXCEPT ![p] = "range"]
          /\ query' = [query EXCEPT ![p] = C] /\ hits'[p] = K
          /\ steady' = [steady EXCEPT ![p] = {k \in K : Abstract!Meets(k, C)}]
          /\ gone' = [gone EXCEPT ![p] = {}]
          /\ got' = [got EXCEPT ![p] = {}] /\ UNCHANGED store
      BY <1>6 DEF ListBegin, TypeOK, Matches, Abstract!Meets
    <2>2. key[p] = None /\ Reply[p] = "none" /\ p \notin Listing
      BY <2>1 DEF WriteHolds, Writing, Reply, Listing
    <2>3. got' = got
      BY <2>1 DEF Unlisted, TypeOK
    <2>4. within'[p] = K
      BY <2>1 DEF Observe, TypeOK
    <2>5. met'[p] = UNION {Abstract!Met(store, k, C) : k \in K}
      <3>1. met'[p] = met[p] \cup UNION {Abstract!Met(store', k, query'[p]) : k \in within'[p]}
        BY <2>1 DEF Observe, TypeOK
      <3>2. query'[p] = C
        BY <2>1 DEF TypeOK
      <3> QED BY <2>1, <2>4, <3>1, <3>2 DEF Unlisted
    <2>6. Listing' = Listing \cup {p}
      BY <2>1 DEF Listing, TypeOK
    <2>7. Reply' = Reply
      BY <2>1 DEF Reply, TypeOK
    <2>8. GoneWithin' = [GoneWithin EXCEPT ![p] = {}]
      BY <1>1, <2>1 DEF GoneWithin, TypeOK
    <2>9. Abstract!ListBegin(p, C, K)
      BY <1>1, <1>4, <2>1, <2>2, <2>3, <2>4, <2>5, <2>6, <2>7, <2>8 DEF Abstract!ListBegin
    <2> QED BY <1>6, <2>9 DEF Abstract!Next
  <1>7. ASSUME pc' = pc \/ (pc[p] = "range" /\ pc' = [pc EXCEPT ![p] = "fetch"]),
               UNCHANGED <<store, query, steady, gone>>
        PROVE  UNCHANGED <<Abstract!asked, Abstract!seen, Reply>>
    <2>1. Listing' = Listing /\ Reply' = Reply
      BY <1>7 DEF Listing, Reply, TypeOK
    <2>2. within'[p] = within[p] /\ met'[p] = met[p]
      <3>1. CASE pc' = pc
        BY <1>7, <3>1, Unseen
      <3>2. CASE pc[p] = "range" /\ pc' = [pc EXCEPT ![p] = "fetch"]
        <4>1. within'[p] = within[p]
          BY <3>2 DEF Observe, TypeOK
        <4>2. met'[p] = met[p] \cup UNION {Abstract!Met(store, k, query[p]) : k \in within[p]}
          BY <1>7, <3>2, <4>1 DEF Observe, TypeOK
        <4>3. \A k \in within[p] : Abstract!Met(store, k, query[p]) \subseteq met[p]
          BY <3>2 DEF ListHolds
        <4> QED BY <4>1, <4>2, <4>3
      <3> QED BY <1>7, <3>1, <3>2
    <2>3. within' = within /\ met' = met
      BY <1>5, <2>2
    <2>4. GoneWithin' = GoneWithin
      BY <1>7, <2>3 DEF GoneWithin
    <2> QED BY <1>7, <2>1, <2>3, <2>4 DEF Abstract!asked, Abstract!seen
  <1>8. CASE (\E l \in List : ListRange(p, l)) \/ ListJoin(p)
    <2>1. /\ pc' = pc \/ (pc[p] = "range" /\ pc' = [pc EXCEPT ![p] = "fetch"])
          /\ UNCHANGED <<store, query, steady, gone, got>>
      BY <1>8 DEF ListRange, ListJoin
    <2> QED BY <1>1, <1>7, <2>1 DEF Abstract!vars
  <1>9. ASSUME NEW k \in Key, ListFetch(p, k)
        PROVE  [Abstract!Next]_(Abstract!vars)
    <2>1. /\ pc' = pc /\ pc[p] = "fetch" /\ k \in todo[p]
          /\ UNCHANGED <<store, query, steady, gone>>
      BY <1>9 DEF ListFetch
    <2>2. UNCHANGED <<Abstract!asked, Abstract!seen, Reply>>
      BY <1>7, <2>1
    <2>3. CASE store[k] = None
      <3>1. got' = got
        BY <1>9, <2>3 DEF ListFetch
      <3> QED BY <1>1, <2>2, <3>1 DEF Abstract!vars
    <2>4. CASE store[k] # None
      <3>1. got' = [got EXCEPT ![p] = @ \cup {<<k, store[k]>>}]
        BY <1>9, <2>4 DEF ListFetch
      <3>2. k \in within[p] /\ (\A pair \in got[p] : pair[1] # k) /\ p \in Listing
        BY <2>1 DEF ListHolds, Listing
      <3>3. Abstract!Read(p, k)
        BY <1>1, <2>2, <2>4, <3>1, <3>2 DEF Abstract!Read
      <3> QED BY <3>3 DEF Abstract!Next
    <2> QED BY <2>3, <2>4
  <1>10. CASE ListEnd(p)
    <2>1. /\ pc[p] = "fetch" /\ todo[p] = {}
          /\ pc' = [pc EXCEPT ![p] = IF missing[p] = {} THEN "listed" ELSE "listError"]
          /\ UNCHANGED <<query, steady, gone, got>>
      BY <1>10 DEF ListEnd
    <2>2. within' = within /\ met' = met
      <3>1. within'[p] = within[p] /\ met'[p] = met[p]
        BY <2>1 DEF Observe, TypeOK
      <3> QED BY <1>5, <3>1
    <2>3. Listing' = Listing \ {p} /\ p \in Listing
      BY <2>1 DEF Listing, TypeOK
    <2>4. GoneWithin' = GoneWithin
      BY <2>1, <2>2 DEF GoneWithin
    <2>5. UNCHANGED <<query, within, Abstract!seen, got>>
      BY <2>1, <2>2, <2>4 DEF Abstract!seen
    <2>6. CASE missing[p] = {}
      <3>1. Reply' = [Reply EXCEPT ![p] = "answer"]
        BY <2>1, <2>6 DEF Reply, TypeOK
      <3>2. \A k \in steady[p] : \E pair \in got[p] : pair[1] = k
        BY <2>1 DEF GatheredBy
      <3>3. \A pair \in got[p] : pair[1] \notin torn => {pair[1]} \X query[p] \subseteq met[p]
        BY <2>1 DEF ListHolds
      <3>4. Abstract!ListAnswers(p)
        BY <1>1, <2>3, <2>5, <3>1, <3>2, <3>3 DEF Abstract!ListAnswers
      <3> QED BY <3>4 DEF Abstract!Next
    <2>7. CASE missing[p] # {}
      <3>1. Reply' = [Reply EXCEPT ![p] = "error"]
        BY <2>1, <2>7 DEF Reply, TypeOK
      <3>2. missing[p] \subseteq within[p] /\ missing[p] \subseteq gone[p] \cup torn
        BY <2>1 DEF ListHolds, GatheredBy
      <3>3. GoneWithin[p] \cup torn # {}
        BY <2>7, <3>2 DEF GoneWithin
      <3>4. Abstract!ListFails(p)
        BY <1>1, <2>3, <2>5, <3>1, <3>3 DEF Abstract!ListFails
      <3> QED BY <3>4 DEF Abstract!Next
    <2> QED BY <2>6, <2>7
  <1>11. CASE Return(p)
    <2>1. /\ pc[p] \in {"listed", "listError"} /\ pc' = [pc EXCEPT ![p] = "idle"]
          /\ query' = [query EXCEPT ![p] = {}] /\ got' = [got EXCEPT ![p] = {}]
          /\ steady' = [steady EXCEPT ![p] = {}] /\ gone' = [gone EXCEPT ![p] = {}]
      BY <1>11 DEF Return
    <2>2. within' = [within EXCEPT ![p] = {}] /\ met' = [met EXCEPT ![p] = {}]
      <3>1. within'[p] = {} /\ met'[p] = {}
        BY <2>1 DEF Observe, TypeOK
      <3> QED BY <1>4, <3>1
    <2>3. Listing' = Listing
      BY <2>1 DEF Listing, TypeOK
    <2>4. Reply[p] # "none" /\ Reply' = [Reply EXCEPT ![p] = "none"]
      BY <2>1 DEF Reply, TypeOK
    <2>5. GoneWithin' = [GoneWithin EXCEPT ![p] = {}]
      BY <2>1, <2>2, <1>2 DEF GoneWithin, TypeOK
    <2>6. Abstract!Return(p)
      BY <1>1, <2>1, <2>2, <2>3, <2>4, <2>5 DEF Abstract!Return
    <2> QED BY <2>6 DEF Abstract!Next
  <1> QED BY <1>6, <1>8, <1>9, <1>10, <1>11 DEF Query

-----------------------------------------------------------------------------
(***************************************************************************)
(* Theorem.                                                                *)
(***************************************************************************)

\* The initial states are initial states of the abstract store.
LEMMA InitMaps == ObservedInit => Abstract!Init /\ Observed
  <1> SUFFICES ASSUME ObservedInit PROVE Abstract!Init /\ Observed
    OBVIOUS
  <1> USE DEF ObservedInit, Init
  <1>1. Overtaken = {} /\ Listing = {}
    BY DEF Overtaken, Listing
  <1>2. GoneWithin = [p \in Proc |-> {}] /\ Reply = [p \in Proc |-> "none"]
    BY DEF GoneWithin, Reply
  <1>3. Abstract!Init
    BY <1>1, <1>2 DEF Abstract!Init
  <1>4. Observed
    BY DEF Observed, Unlisted, WriteHolds, ListHolds, Writing
  <1> QED BY <1>3, <1>4

\* Every step is an abstract step, or changes nothing the abstract store sees.
LEMMA StepMaps ==
  ASSUME IInv, Observed, [Next /\ Observe]_<<vars, observed>>
  PROVE  [Abstract!Next]_(Abstract!vars)
  <1>1. CASE Next /\ Observe
    <2>1. ASSUME NEW p \in Proc, Write(p) PROVE [Abstract!Next]_(Abstract!vars)
      BY <1>1, <2>1, WriterMaps, CommitMaps
    <2>2. ASSUME NEW p \in Proc, Query(p) PROVE [Abstract!Next]_(Abstract!vars)
      BY <1>1, <2>2, QueryMaps
    <2> QED BY <1>1, <2>1, <2>2 DEF Next
  <1>2. CASE UNCHANGED <<vars, observed>>
    BY <1>2 DEF vars, observed, Abstract!vars, Abstract!written, Abstract!asked, Abstract!seen,
                Overtaken, Listing, GoneWithin, Reply
  <1> QED BY <1>1, <1>2

\* The Redis commands implement the store the controllers assume: writes take
\* effect at one moment, and Lists answer what matched throughout and nothing
\* that did not meet each criterion at some moment of theirs, but for raced keys.
THEOREM Refinement == ObservedSpec => ImplementsObjectStore
  <1>1. ObservedInit => IInv /\ Observed /\ Abstract!Init
    BY InitInvariant, InitMaps DEF ObservedInit
  <1>2. IInv /\ Observed /\ [Next /\ Observe]_<<vars, observed>> => IInv' /\ Observed'
    BY StepInvariant, StepObserved DEF IInv, vars, observed
  <1>3. IInv /\ Observed /\ [Next /\ Observe]_<<vars, observed>> => [Abstract!Next]_(Abstract!vars)
    BY StepMaps
  <1> QED BY <1>1, <1>2, <1>3, PTL DEF ObservedSpec, ImplementsObjectStore, Abstract!Spec
===============================================================================
