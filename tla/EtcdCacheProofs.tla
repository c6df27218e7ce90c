--------------------------- MODULE EtcdCacheProofs ---------------------------
(***************************************************************************)
(* Proofs about EtcdCache, for any set of keys, params and Lists, and      *)
(* whatever params the expression of a query is met by besides its own.    *)
(***************************************************************************)
EXTENDS EtcdCache, TLAPS, FiniteSetTheorems

USE DEF cluster, server, watcher, copy, lists

-----------------------------------------------------------------------------
(***************************************************************************)
(* Type correctness.                                                       *)
(***************************************************************************)

\* Every variable has its type in the initial states.
LEMMA InitTypeOK == Init => TypeOK
  BY BoundsAssumption, NoneAssumption DEF Init, TypeOK

\* The params of what a map holds are params.
LEMMA ParamsAreParams ==
  ASSUME NEW value \in Object \cup {None}
  PROVE  ParamsOf(value) \subseteq Params
  BY ContentsAssumption DEF ParamsOf, Object

\* An event on the way is one.
LEMMA HeadIsEvent ==
  ASSUME TypeOK, events # <<>>
  PROVE  /\ Head(events) \in Event
         /\ Tail(events) \in Seq(Event)
         /\ Head(events).key \in Keys /\ Head(events).value \in Object \cup {None}
  <1>1. events \in Seq(Event)
    BY DEF TypeOK
  <1>2. Head(events) \in Event /\ Tail(events) \in Seq(Event)
    BY <1>1, Z3
  <1> QED BY <1>2 DEF Event

\* A count of params is a number.
LEMMA CountIsNat ==
  ASSUME NEW C \in SUBSET Params
  PROVE  IsFiniteSet(C) /\ Cardinality(C) \in Nat
  <1>1. IsFiniteSet(C)
    BY ParamsAssumption, FS_Subset
  <1> QED BY <1>1, FS_CardinalityType

\* Every step keeps the types.
LEMMA NextTypeOK == TypeOK /\ [Next]_vars => TypeOK'
  <1> SUFFICES ASSUME TypeOK, [Next]_vars PROVE TypeOK'
    OBVIOUS
  <1> USE DEF TypeOK
  <1>1. ASSUME NEW k \in Keys, NEW value \in Written, Write(k, value) PROVE TypeOK'
    <2>0. writes + 1 \in 1..MaxWrites /\ writes' \in 0..MaxWrites
      <3>1. writes \in 0..MaxWrites /\ writes < MaxWrites /\ writes' = writes + 1
        BY <1>1 DEF Write
      <3> QED BY <3>1, BoundsAssumption
    <2>1. value \in Object \cup {None} /\ writes' \in 0..MaxWrites
      BY <2>0 DEF Written, Object
    <2>2. etcd' \in [Keys -> Object \cup {None}] /\ missed' \subseteq Keys
      BY <1>1, <2>1 DEF Write
    <2>3. [key |-> k, value |-> value] \in Event
      BY <2>1 DEF Event
    <2>4. events' \in Seq(Event) /\ (phase' # "watching" => events' = <<>>)
      <3>1. CASE phase = "watching"
        <4> PICK e \in Event : e = [key |-> k, value |-> value]
          BY <2>3
        <4>1. events' = Append(events, e) /\ phase' = "watching"
          BY <1>1, <3>1 DEF Write
        <4>2. events \in Seq(Event)
          OBVIOUS
        <4>3. events' \in Seq(Event)
          BY <4>1, <4>2
        <4> QED BY <4>1, <4>3
      <3>2. CASE phase # "watching"
        BY <1>1, <3>2 DEF Write
      <3> QED BY <3>1, <3>2
    <2>5. UNCHANGED <<phase, store, paramStore, event, step, todo, pc, query, left, count, listed, steady>>
      BY <1>1 DEF Write
    <2> QED BY <2>1, <2>2, <2>4, <2>5
  <1>2. CASE Start
    BY <1>2 DEF Start
  <1>3. CASE Watch
    BY <1>3 DEF Watch
  <1>4. CASE WatchEnds
    <2>1. {events[n].key : n \in DOMAIN events} \subseteq Keys
      <3>1. \A n \in DOMAIN events : events[n] \in Event
        OBVIOUS
      <3> QED BY <3>1 DEF Event
    <2>2. missed' \subseteq Keys /\ events' = <<>> /\ phase' = "deaf"
      BY <1>4, <2>1 DEF WatchEnds
    <2>3. UNCHANGED <<etcd, writes, store, paramStore, event, step, todo, pc, query, left, count, listed, steady>>
      BY <1>4 DEF WatchEnds
    <2> QED BY <2>2, <2>3
  <1>5. CASE Stop
    BY <1>5 DEF Stop
  <1>6. CASE Take
    <2>1. /\ Head(events) \in Event /\ Tail(events) \in Seq(Event)
          /\ Head(events).key \in Keys
      BY <1>6, HeadIsEvent DEF Take
    <2>2. store[Head(events).key] \in Object \cup {None}
      BY <2>1
    <2>3. ParamsOf(store[Head(events).key]) \subseteq Params
      BY <2>2, ParamsAreParams
    <2>4. event' # None /\ event' \in Event
      BY <1>6, <2>1, NoneAssumption DEF Take
    <2>5. phase = "watching"
      BY <1>6 DEF Take
    <2>6. store' \in [Keys -> Object \cup {None}] /\ todo' \subseteq Params /\ step' = "remove"
      BY <1>6, <2>3 DEF Take
    <2>7. steady' \in [Procs -> SUBSET Keys]
      BY <1>6 DEF Take, Disturbed
    <2> QED BY <1>6, <2>1, <2>4, <2>5, <2>6, <2>7 DEF Take
  <1>7. CASE Remove
    BY <1>7 DEF Remove
  <1>8. CASE Removed
    BY <1>8 DEF Removed
  <1>9. CASE Add
    <2>1. event \in Event
      BY <1>9 DEF Add
    <2>2. event.value \in Object /\ event.key \in Keys
      BY <1>9, <2>1 DEF Add, Event
    <2>3. event.value.params \subseteq Params
      BY <2>2, ContentsAssumption DEF Object
    <2> QED BY <1>9, <2>2, <2>3 DEF Add
  <1>10. CASE AddParam
    <2>1. event.key \in Keys
      BY <1>10 DEF AddParam, Event
    <2> QED BY <1>10, <2>1 DEF AddParam
  <1>11. CASE Added
    BY <1>11 DEF Added
  <1>12. ASSUME NEW p \in Procs, NEW C \in Queries, ListBegin(p, C) PROVE TypeOK'
    <2>1. C \subseteq Params
      BY ContentsAssumption
    <2>2. {k \in Settled : Matches(k, C) /\ Plain(k, C)} \subseteq Keys
      BY DEF Settled
    <2> QED BY <1>12, <2>1, <2>2 DEF ListBegin
  <1>13. ASSUME NEW p \in Procs, ListCount(p) PROVE TypeOK'
    <2>1. PICK c \in left[p] :
            /\ left' = [left EXCEPT ![p] = @ \ {c}]
            /\ count' = [count EXCEPT ![p] = [k \in Keys |->
                 count[p][k] + Cardinality({d \in Params : <<c, d>> \in Covers /\ k \in paramStore[d]})]]
      BY <1>13 DEF ListCount
    <2>2. \A k \in Keys :
            count[p][k] + Cardinality({d \in Params : <<c, d>> \in Covers /\ k \in paramStore[d]}) \in Nat
      <3> SUFFICES ASSUME NEW k \in Keys
                   PROVE  count[p][k] + Cardinality({d \in Params : <<c, d>> \in Covers /\ k \in paramStore[d]})
                            \in Nat
        OBVIOUS
      <3>1. Cardinality({d \in Params : <<c, d>> \in Covers /\ k \in paramStore[d]}) \in Nat
        <4> PICK met \in SUBSET Params : met = {d \in Params : <<c, d>> \in Covers /\ k \in paramStore[d]}
          OBVIOUS
        <4> QED BY CountIsNat
      <3>2. count[p][k] \in Nat
        OBVIOUS
      <3> QED BY <3>1, <3>2
    <2>3. count' \in [Procs -> [Keys -> Nat]]
      BY <2>1, <2>2
    <2>4. left' \in [Procs -> SUBSET Params]
      BY <2>1
    <2>5. UNCHANGED <<etcd, writes, phase, events, missed, store, paramStore, event, step, todo, pc, query, listed, steady>>
      BY <1>13 DEF ListCount
    <2>6. phase' # "watching" => events' = <<>>
      BY <2>5
    <2>7. /\ (event' = None <=> step' = "idle") /\ (step' = "idle" => todo' = {})
          /\ event' \in Event \cup {None} /\ events' \in Seq(Event)
      BY <2>5
    <2> QED BY <2>3, <2>4, <2>5, <2>6, <2>7
  <1>14. ASSUME NEW p \in Procs, ListEnd(p) PROVE TypeOK'
    <2>1. Listed(p) \subseteq Keys
      BY DEF Listed
    <2> QED BY <1>14, <2>1 DEF ListEnd
  <1>15. ASSUME NEW p \in Procs, ListAnswered(p) PROVE TypeOK'
    BY <1>15 DEF ListAnswered
  <1>16. CASE UNCHANGED vars
    BY <1>16 DEF vars
  <1> QED
    BY <1>1, <1>2, <1>3, <1>4, <1>5, <1>6, <1>7, <1>8, <1>9, <1>10, <1>11, <1>12, <1>13,
       <1>14, <1>15, <1>16 DEF Next, Watcher

\* Every variable keeps its type: what TypeOK says of every run of the server.
THEOREM TypeCorrect == Spec => []TypeOK
  <1>1. Init => TypeOK
    BY InitTypeOK
  <1>2. TypeOK /\ [Next]_vars => TypeOK'
    BY NextTypeOK
  <1> QED BY <1>1, <1>2, PTL DEF Spec

-----------------------------------------------------------------------------
(***************************************************************************)
(* The inductive invariant.  What the properties say between two events is *)
(* kept by the watcher because of where it stands in the middle of one.    *)
(***************************************************************************)

\* The object an event is about is out of the map while its params are removed, and in
\* it while they are added.  A server that is down holds nothing.
StoreHolds ==
  /\ event # None =>
       store[event.key] = IF step = "remove" THEN None ELSE event.value
  /\ step = "add" => event.value # None /\ todo \subseteq event.value.params
  /\ phase = "down" => event = None /\ \A p \in Procs : pc[p] = "idle"

\* Which param lists have a key: those of its object; in the middle of an event, those
\* still to be removed, then those already added.
OnList(k, c) ==
  IF event # None /\ event.key = k
    THEN IF step = "remove" THEN c \in todo ELSE c \in event.value.params \ todo
    ELSE c \in ParamsOf(store[k])

IndexHolds == \A c \in Params, k \in Keys : k \in paramStore[c] <=> OnList(k, c)

\* Event n is the last on the way about k.
IsLast(n, k) == n \in DOMAIN events /\ events[n].key = k /\ \A m \in DOMAIN events : m > n => events[m].key # k

\* What the watcher makes of a key when it is through with its event.
Becomes(k) == IF event # None /\ event.key = k THEN event.value ELSE store[k]

\* The last event about a key carries what etcd has; without one, so does the copy.
KeyFollows(k) ==
  \/ \E n \in DOMAIN events : IsLast(n, k) /\ events[n].value = etcd[k]
  \/ (\A n \in DOMAIN events : events[n].key # k) /\ Becomes(k) = etcd[k]

EventsHold == phase # "down" => \A k \in Keys \ missed : KeyFollows(k)

\* A key that matches throughout is met once by each param counted so far.
Counted(p) ==
  /\ left[p] \subseteq query[p]
  /\ \A k \in steady[p] :
       /\ k \in Settled /\ Matches(k, query[p]) /\ Plain(k, query[p])
       /\ count[p][k] = Cardinality(query[p] \ left[p])

ListsHold ==
  \A p \in Procs :
    /\ pc[p] = "count" => Counted(p)
    /\ pc[p] = "listed" => steady[p] \subseteq listed[p]

IInv == TypeOK /\ StoreHolds /\ IndexHolds /\ EventsHold /\ ListsHold

\* The initial states.
LEMMA InitIInv == Init => IInv
  <1> SUFFICES ASSUME Init PROVE IInv
    OBVIOUS
  <1>1. TypeOK
    BY InitTypeOK
  <1>2. StoreHolds
    BY DEF Init, StoreHolds
  <1>3. IndexHolds
    BY DEF Init, IndexHolds, OnList, ParamsOf
  <1>4. EventsHold
    BY DEF Init, EventsHold
  <1>5. ListsHold
    BY DEF Init, ListsHold
  <1> QED BY <1>1, <1>2, <1>3, <1>4, <1>5 DEF IInv

-----------------------------------------------------------------------------
(***************************************************************************)
(* Every step keeps each part of it.                                       *)
(***************************************************************************)

\* The object of the event, and a server that is down.
LEMMA NextStoreHolds == TypeOK /\ StoreHolds /\ [Next]_vars => StoreHolds'
  <1> SUFFICES ASSUME TypeOK, StoreHolds, [Next]_vars PROVE StoreHolds'
    OBVIOUS
  <1> USE DEF StoreHolds
  <1>t. /\ event \in Event \cup {None} /\ (event = None <=> step = "idle")
        /\ store \in [Keys -> Object \cup {None}] /\ pc \in [Procs -> {"idle", "count", "listed"}]
    BY DEF TypeOK
  <1>1. ASSUME NEW k \in Keys, NEW value \in Written, Write(k, value) PROVE StoreHolds'
    BY <1>1 DEF Write
  <1>2. CASE Start
    BY <1>2 DEF Start
  <1>3. CASE Watch
    BY <1>3 DEF Watch
  <1>4. CASE WatchEnds
    BY <1>4 DEF WatchEnds
  <1>5. CASE Stop
    BY <1>5 DEF Stop
  <1>6. CASE Take
    <2>1. Head(events).key \in Keys /\ phase # "down"
      BY <1>6, HeadIsEvent DEF Take, TypeOK
    <2> QED BY <1>6, <1>t, <2>1 DEF Take
  <1>7. CASE Remove
    BY <1>7 DEF Remove
  <1>8. CASE Removed
    BY <1>8 DEF Removed
  <1>9. CASE Add
    <2>1. event # None /\ event \in Event
      BY <1>9, <1>t DEF Add
    <2>2. event.key \in Keys
      BY <2>1 DEF Event
    <2> QED BY <1>9, <1>t, <2>1, <2>2 DEF Add
  <1>10. CASE AddParam
    BY <1>10 DEF AddParam
  <1>11. CASE Added
    BY <1>11 DEF Added
  <1>12. ASSUME NEW p \in Procs, NEW C \in Queries, ListBegin(p, C) PROVE StoreHolds'
    BY <1>12 DEF ListBegin
  <1>13. ASSUME NEW p \in Procs, ListCount(p) PROVE StoreHolds'
    BY <1>13 DEF ListCount
  <1>14. ASSUME NEW p \in Procs, ListEnd(p) PROVE StoreHolds'
    BY <1>14, <1>t DEF ListEnd
  <1>15. ASSUME NEW p \in Procs, ListAnswered(p) PROVE StoreHolds'
    BY <1>15, <1>t DEF ListAnswered
  <1>16. CASE UNCHANGED vars
    BY <1>16 DEF vars
  <1> QED
    BY <1>1, <1>2, <1>3, <1>4, <1>5, <1>6, <1>7, <1>8, <1>9, <1>10, <1>11, <1>12, <1>13,
       <1>14, <1>15, <1>16 DEF Next, Watcher

\* A step that leaves the copy and the watcher alone leaves the index as it is.
LEMMA IndexAlone ==
  ASSUME IndexHolds, UNCHANGED <<store, paramStore, event, step, todo>>
  PROVE  IndexHolds'
  BY DEF IndexHolds, OnList, ParamsOf

\* The param lists.
LEMMA NextIndexHolds == TypeOK /\ StoreHolds /\ IndexHolds /\ [Next]_vars => IndexHolds'
  <1> SUFFICES ASSUME TypeOK, StoreHolds, IndexHolds, [Next]_vars PROVE IndexHolds'
    OBVIOUS
  <1>t. /\ event \in Event \cup {None} /\ (event = None <=> step = "idle") /\ todo \subseteq Params
        /\ step \in {"idle", "remove", "add"}
        /\ store \in [Keys -> Object \cup {None}] /\ paramStore \in [Params -> SUBSET Keys]
    BY DEF TypeOK
  <1>h. event # None => store[event.key] = IF step = "remove" THEN None ELSE event.value
    BY DEF StoreHolds
  <1>1. ASSUME NEW k \in Keys, NEW value \in Written, Write(k, value) PROVE IndexHolds'
    BY <1>1, IndexAlone DEF Write
  <1>2. CASE Start
    <2>1. event = None
      BY <1>2 DEF Start, StoreHolds
    <2> QED BY <1>2, <2>1 DEF Start, IndexHolds, OnList
  <1>3. CASE Watch
    BY <1>3, IndexAlone DEF Watch
  <1>4. CASE WatchEnds
    BY <1>4, IndexAlone DEF WatchEnds
  <1>5. CASE Stop
    BY <1>5 DEF Stop, IndexHolds, OnList, ParamsOf
  <1>6. CASE Take
    <2>1. PICK k \in Keys : k = Head(events).key
      BY <1>6, HeadIsEvent DEF Take
    <2>2. /\ event = None /\ event' # None /\ event'.key = k /\ step' = "remove"
          /\ todo' = ParamsOf(store[k]) /\ store' = [store EXCEPT ![k] = None]
          /\ paramStore' = paramStore
      BY <1>6, <2>1, HeadIsEvent, NoneAssumption DEF Take
    <2> QED BY <2>2, <1>t DEF IndexHolds, OnList
  <1>7. CASE Remove
    <2>1. event # None /\ event \in Event
      BY <1>7, <1>t DEF Remove
    <2>2. PICK c \in todo : /\ paramStore' = [paramStore EXCEPT ![c] = @ \ {event.key}]
                            /\ todo' = todo \ {c}
      BY <1>7 DEF Remove
    <2>3. UNCHANGED <<event, step, store>> /\ step = "remove"
      BY <1>7 DEF Remove
    <2> QED BY <2>1, <2>2, <2>3, <1>t DEF IndexHolds, OnList
  <1>8. CASE Removed
    <2>1. /\ event # None /\ event' = None /\ step = "remove" /\ todo = {} /\ store[event.key] = None
          /\ UNCHANGED <<store, paramStore>>
      BY <1>8, <1>t, <1>h DEF Removed
    <2> QED BY <2>1 DEF IndexHolds, OnList, ParamsOf
  <1>9. CASE Add
    <2>1. /\ event # None /\ event' = event /\ step = "remove" /\ step' = "add" /\ todo = {}
          /\ todo' = event.value.params /\ store' = [store EXCEPT ![event.key] = event.value]
          /\ paramStore' = paramStore
      BY <1>9, <1>t DEF Add
    <2> QED BY <2>1, <1>t DEF IndexHolds, OnList
  <1>10. CASE AddParam
    <2>1. event # None /\ event.key \in Keys
      BY <1>10, <1>t DEF AddParam, Event
    <2>2. PICK c \in todo : /\ paramStore' = [paramStore EXCEPT ![c] = @ \cup {event.key}]
                            /\ todo' = todo \ {c}
      BY <1>10 DEF AddParam
    <2>3. UNCHANGED <<event, step, store>> /\ step = "add" /\ todo \subseteq event.value.params
      BY <1>10 DEF AddParam, StoreHolds
    <2> QED BY <2>1, <2>2, <2>3, <1>t DEF IndexHolds, OnList
  <1>11. CASE Added
    <2>1. /\ event # None /\ event' = None /\ step = "add" /\ todo = {} /\ store[event.key] = event.value
          /\ event.value # None /\ UNCHANGED <<store, paramStore>>
      BY <1>11, <1>t, <1>h DEF Added, StoreHolds
    <2> QED BY <2>1 DEF IndexHolds, OnList, ParamsOf
  <1>12. ASSUME NEW p \in Procs, NEW C \in Queries, ListBegin(p, C) PROVE IndexHolds'
    BY <1>12, IndexAlone DEF ListBegin
  <1>13. ASSUME NEW p \in Procs, ListCount(p) PROVE IndexHolds'
    BY <1>13, IndexAlone DEF ListCount
  <1>14. ASSUME NEW p \in Procs, ListEnd(p) PROVE IndexHolds'
    BY <1>14, IndexAlone DEF ListEnd
  <1>15. ASSUME NEW p \in Procs, ListAnswered(p) PROVE IndexHolds'
    BY <1>15, IndexAlone DEF ListAnswered
  <1>16. CASE UNCHANGED vars
    BY <1>16, IndexAlone DEF vars
  <1> QED
    BY <1>1, <1>2, <1>3, <1>4, <1>5, <1>6, <1>7, <1>8, <1>9, <1>10, <1>11, <1>12, <1>13,
       <1>14, <1>15, <1>16 DEF Next, Watcher

\* A step that leaves etcd, the events and the watcher alone lets the copy follow.
LEMMA EventsAlone ==
  ASSUME EventsHold, UNCHANGED <<etcd, events, event, store, missed>>, phase # "down"
  PROVE  EventsHold'
  BY DEF EventsHold, KeyFollows, IsLast, Becomes

\* So does one that changes the watcher but not what it makes of a key.
LEMMA EventsSame ==
  ASSUME EventsHold, UNCHANGED <<etcd, events, missed>>, phase # "down",
         \A k \in Keys : Becomes(k)' = Becomes(k)
  PROVE  EventsHold'
  BY DEF EventsHold, KeyFollows, IsLast

\* What is on the way to the copy.
LEMMA NextEventsHold == TypeOK /\ StoreHolds /\ EventsHold /\ [Next]_vars => EventsHold'
  <1> SUFFICES ASSUME TypeOK, StoreHolds, EventsHold, [Next]_vars PROVE EventsHold'
    OBVIOUS
  <1>t. /\ event \in Event \cup {None} /\ (event = None <=> step = "idle")
        /\ store \in [Keys -> Object \cup {None}] /\ etcd \in [Keys -> Object \cup {None}]
        /\ events \in Seq(Event) /\ missed \subseteq Keys
        /\ (phase # "watching" => events = <<>>)
    BY DEF TypeOK
  <1>h. event # None => store[event.key] = IF step = "remove" THEN None ELSE event.value
    BY DEF StoreHolds
  <1>d. phase = "down" => event = None
    BY DEF StoreHolds
  <1>1. ASSUME NEW k \in Keys, NEW value \in Written, Write(k, value) PROVE EventsHold'
    <2> SUFFICES ASSUME phase' # "down", NEW j \in Keys, j \notin missed' PROVE KeyFollows(j)'
      BY DEF EventsHold
    <2>1. /\ etcd' = [etcd EXCEPT ![k] = value]
          /\ UNCHANGED <<phase, event, store>>
      BY <1>1 DEF Write
    <2>2. CASE phase = "watching"
      <3>1. events' = Append(events, [key |-> k, value |-> value]) /\ missed' = missed \ {k}
        BY <1>1, <2>2 DEF Write
      <3>2. /\ DOMAIN events = 1..Len(events) /\ DOMAIN events' = 1..(Len(events) + 1) /\ Len(events) \in Nat
            /\ \A n \in 1..Len(events) : events'[n] = events[n]
            /\ events'[Len(events) + 1] = [key |-> k, value |-> value]
        BY <3>1, <1>t
      <3>3. CASE j = k
        BY <3>2, <3>3, <2>1, <1>t DEF KeyFollows, IsLast
      <3>4. CASE j # k
        <4>1. KeyFollows(j) /\ etcd'[j] = etcd[j] /\ Becomes(j)' = Becomes(j)
          BY <2>1, <3>1, <3>4, <2>2, <1>t DEF EventsHold, Becomes
        <4>2. CASE \E n \in DOMAIN events : IsLast(n, j) /\ events[n].value = etcd[j]
          BY <3>2, <3>4, <4>1, <4>2 DEF KeyFollows, IsLast
        <4>3. CASE (\A n \in DOMAIN events : events[n].key # j) /\ Becomes(j) = etcd[j]
          <5>1. \A n \in DOMAIN events' : events'[n].key # j
            BY <3>2, <3>4, <4>3
          <5> QED BY <5>1, <4>1, <4>3 DEF KeyFollows
        <4> QED BY <4>1, <4>2, <4>3 DEF KeyFollows
      <3> QED BY <3>3, <3>4
    <2>3. CASE phase # "watching"
      <3>1. UNCHANGED events /\ missed' = missed \cup {k} /\ j # k /\ etcd'[j] = etcd[j]
        BY <1>1, <2>1, <2>3, <1>t DEF Write
      <3>2. KeyFollows(j)
        BY <3>1, <2>1 DEF EventsHold
      <3> QED BY <3>1, <3>2, <2>1 DEF KeyFollows, IsLast, Becomes
    <2> QED BY <2>2, <2>3
  <1>2. CASE Start
    <2>1. events' = <<>> /\ event' = None /\ store' = etcd' /\ UNCHANGED etcd
      BY <1>2, <1>t, <1>d DEF Start
    <2> QED BY <2>1 DEF EventsHold, KeyFollows, Becomes
  <1>3. CASE Watch
    BY <1>3, EventsAlone DEF Watch
  <1>4. CASE WatchEnds
    <2> SUFFICES ASSUME NEW j \in Keys, j \notin missed' PROVE KeyFollows(j)'
      BY DEF EventsHold
    <2>1. /\ UNCHANGED <<etcd, event, store>> /\ events' = <<>> /\ j \notin missed
          /\ \A n \in DOMAIN events : events[n].key # j
      BY <1>4 DEF WatchEnds
    <2>2. KeyFollows(j)
      BY <1>4, <2>1 DEF WatchEnds, EventsHold
    <2> QED BY <2>1, <2>2 DEF KeyFollows, IsLast, Becomes
  <1>5. CASE Stop
    BY <1>5 DEF Stop, EventsHold
  <1>6. CASE Take
    <2> SUFFICES ASSUME NEW j \in Keys, j \notin missed, phase # "down" PROVE KeyFollows(j)'
      BY <1>6 DEF EventsHold, Take
    <2>1. KeyFollows(j)
      BY DEF EventsHold
    <2>2. /\ event = None /\ events # <<>> /\ event' = Head(events) /\ events' = Tail(events)
          /\ store' = [store EXCEPT ![Head(events).key] = None] /\ UNCHANGED etcd
      BY <1>6 DEF Take
    <2>3. event' # None
      BY <2>2, HeadIsEvent, NoneAssumption
    <2>4. /\ DOMAIN events = 1..Len(events) /\ Len(events) \in Nat \ {0} /\ Head(events) = events[1]
          /\ DOMAIN events' = 1..(Len(events) - 1)
          /\ \A n \in 1..(Len(events) - 1) : events'[n] = events[n + 1]
      BY <2>2, <1>t
    <2>5. ASSUME NEW n \in DOMAIN events, IsLast(n, j), events[n].value = etcd[j] PROVE KeyFollows(j)'
      <3>1. CASE n = 1
        <4>1. \A m \in DOMAIN events' : events'[m].key # j
          <5> SUFFICES ASSUME NEW m \in DOMAIN events' PROVE events'[m].key # j
            OBVIOUS
          <5>1. m + 1 \in DOMAIN events /\ m + 1 > n /\ events'[m] = events[m + 1]
            BY <2>4, <3>1
          <5> QED BY <5>1, <2>5 DEF IsLast
        <4>2. event'.key = j /\ event'.value = etcd'[j]
          BY <2>2, <2>4, <2>5, <3>1 DEF IsLast
        <4> QED BY <4>1, <4>2, <2>3 DEF KeyFollows, Becomes
      <3>2. CASE n # 1
        <4>1. n - 1 \in DOMAIN events' /\ events'[n - 1] = events[n]
          BY <2>4, <2>5, <3>2
        <4>2. \A m \in DOMAIN events' : m > n - 1 => events'[m].key # j
          <5> SUFFICES ASSUME NEW m \in DOMAIN events', m > n - 1 PROVE events'[m].key # j
            OBVIOUS
          <5>1. m + 1 \in DOMAIN events /\ m + 1 > n /\ events'[m] = events[m + 1]
            BY <2>4
          <5> QED BY <5>1, <2>5 DEF IsLast
        <4> PICK o \in DOMAIN events' : o = n - 1
          BY <4>1
        <4>3. events'[o].key = j /\ events'[o].value = etcd'[j] /\ \A m \in DOMAIN events' : m > o => events'[m].key # j
          BY <4>1, <4>2, <2>2, <2>5 DEF IsLast
        <4> QED BY <4>3 DEF KeyFollows, IsLast
      <3> QED BY <3>1, <3>2
    <2>6. CASE (\A n \in DOMAIN events : events[n].key # j) /\ Becomes(j) = etcd[j]
      <3>1. Head(events).key # j /\ \A n \in DOMAIN events' : events'[n].key # j
        <4>1. \A n \in DOMAIN events' : n + 1 \in DOMAIN events
          BY <2>4
        <4> QED BY <2>4, <2>6, <4>1
      <3>2. Becomes(j)' = Becomes(j)
        BY <2>2, <3>1, <1>t DEF Becomes
      <3> QED BY <3>1, <3>2, <2>2, <2>6 DEF KeyFollows
    <2> QED BY <2>1, <2>5, <2>6 DEF KeyFollows
  <1>7. CASE Remove
    BY <1>7, <1>t, <1>d, EventsAlone DEF Remove
  <1>8. CASE Removed
    <2>1. event # None /\ event' = None /\ store[event.key] = event.value /\ UNCHANGED store
      BY <1>8, <1>t, <1>h DEF Removed
    <2>2. \A k \in Keys : Becomes(k)' = Becomes(k)
      BY <2>1 DEF Becomes
    <2> QED BY <1>8, <1>d, <2>1, <2>2, EventsSame DEF Removed
  <1>9. CASE Add
    <2>1. event # None /\ event' = event /\ store' = [store EXCEPT ![event.key] = event.value]
      BY <1>9, <1>t DEF Add
    <2>2. \A k \in Keys : Becomes(k)' = Becomes(k)
      BY <2>1, <1>t DEF Becomes
    <2> QED BY <1>9, <1>d, <2>1, <2>2, EventsSame DEF Add
  <1>10. CASE AddParam
    BY <1>10, <1>t, <1>d, EventsAlone DEF AddParam
  <1>11. CASE Added
    <2>1. event # None /\ event' = None /\ store[event.key] = event.value /\ UNCHANGED store
      BY <1>11, <1>t, <1>h DEF Added
    <2>2. \A k \in Keys : Becomes(k)' = Becomes(k)
      BY <2>1 DEF Becomes
    <2> QED BY <1>11, <1>d, <2>1, <2>2, EventsSame DEF Added
  <1>12. ASSUME NEW p \in Procs, NEW C \in Queries, ListBegin(p, C) PROVE EventsHold'
    BY <1>12, EventsAlone DEF ListBegin
  <1>l. ASSUME NEW p \in Procs, pc[p] # "idle" PROVE phase # "down"
    BY <1>l DEF StoreHolds
  <1>13. ASSUME NEW p \in Procs, ListCount(p) PROVE EventsHold'
    BY <1>13, <1>l, EventsAlone DEF ListCount
  <1>14. ASSUME NEW p \in Procs, ListEnd(p) PROVE EventsHold'
    BY <1>14, <1>l, EventsAlone DEF ListEnd
  <1>15. ASSUME NEW p \in Procs, ListAnswered(p) PROVE EventsHold'
    BY <1>15, <1>l, EventsAlone DEF ListAnswered
  <1>16. CASE UNCHANGED vars
    BY <1>16 DEF vars, EventsHold, KeyFollows, IsLast, Becomes
  <1> QED
    BY <1>1, <1>2, <1>3, <1>4, <1>5, <1>6, <1>7, <1>8, <1>9, <1>10, <1>11, <1>12, <1>13,
       <1>14, <1>15, <1>16 DEF Next, Watcher

\* A step that leaves a List alone, and the objects of its steady keys, and brings none
\* of them an event, keeps what is counted.
LEMMA CountedAlone ==
  ASSUME NEW p \in Procs, Counted(p), UNCHANGED <<query, left, count>>, steady'[p] \subseteq steady[p],
         \A k \in steady'[p] : store'[k] = store[k] /\ (k \in Settled => k \in Settled')
  PROVE  Counted(p)'
  BY DEF Counted, Matches, Plain, ParamsOf

\* One more param is counted: the expression made of c meets c of a steady key, and
\* nothing else of it.
LEMMA CountsOne ==
  ASSUME TypeOK, IndexHolds, NEW p \in Procs, Counted(p), NEW c \in left[p], NEW k \in steady[p]
  PROVE  Cardinality({d \in Params : <<c, d>> \in Covers /\ k \in paramStore[d]}) = 1
  <1>1. k \in Settled /\ Matches(k, query[p]) /\ Plain(k, query[p]) /\ c \in query[p] /\ c \in Params
    BY DEF Counted, TypeOK
  <1>2. \A d \in Params : k \in paramStore[d] <=> d \in ParamsOf(store[k])
    BY <1>1 DEF IndexHolds, OnList, Settled
  <1>3. {d \in Params : <<c, d>> \in Covers /\ k \in paramStore[d]} = {c}
    BY <1>1, <1>2, CoversAssumption DEF Matches, Plain, ParamsOf
  <1> QED BY <1>3, FS_Singleton

\* What Lists have counted and answered.
LEMMA NextListsHold == TypeOK /\ StoreHolds /\ IndexHolds /\ ListsHold /\ [Next]_vars => ListsHold'
  <1> SUFFICES ASSUME TypeOK, StoreHolds, IndexHolds, ListsHold, [Next]_vars PROVE ListsHold'
    OBVIOUS
  <1>t. /\ event \in Event \cup {None} /\ (event = None <=> step = "idle")
        /\ store \in [Keys -> Object \cup {None}] /\ pc \in [Procs -> {"idle", "count", "listed"}]
        /\ query \in [Procs -> SUBSET Params] /\ left \in [Procs -> SUBSET Params]
        /\ count \in [Procs -> [Keys -> Nat]] /\ steady \in [Procs -> SUBSET Keys]
        /\ listed \in [Procs -> SUBSET Keys]
    BY DEF TypeOK
  <1>a. ASSUME UNCHANGED <<pc, query, left, count, listed, steady, store>>, Settled \subseteq Settled'
        PROVE  ListsHold'
    <2>1. ASSUME NEW p \in Procs, pc[p] = "count" PROVE Counted(p)'
      BY <1>a, <2>1, CountedAlone DEF ListsHold
    <2> QED BY <1>a, <2>1 DEF ListsHold
  <1>1. ASSUME NEW k \in Keys, NEW value \in Written, Write(k, value) PROVE ListsHold'
    BY <1>1, <1>a DEF Write, Settled
  <1>2. CASE Start
    <2>1. \A p \in Procs : pc'[p] = "idle"
      BY <1>2 DEF Start, StoreHolds
    <2> QED BY <2>1 DEF ListsHold
  <1>3. CASE Watch
    BY <1>3, <1>a DEF Watch, Settled
  <1>4. CASE WatchEnds
    BY <1>4, <1>a DEF WatchEnds, Settled
  <1>5. CASE Stop
    <2>1. \A p \in Procs : pc'[p] = "idle"
      BY <1>5 DEF Stop
    <2> QED BY <2>1 DEF ListsHold
  <1>6. CASE Take
    <2>1. PICK k \in Keys : k = Head(events).key
      BY <1>6, HeadIsEvent DEF Take
    <2>2. /\ store' = [store EXCEPT ![k] = None] /\ event' = Head(events) /\ event' # None /\ event = None
          /\ steady' = [p \in Procs |-> steady[p] \ {k}] /\ UNCHANGED <<pc, query, left, count, listed>>
      BY <1>6, <2>1, HeadIsEvent, NoneAssumption DEF Take, Disturbed
    <2>3. Settled' = Keys \ {k}
      BY <2>1, <2>2 DEF Settled
    <2>4. ASSUME NEW p \in Procs, pc[p] = "count" PROVE Counted(p)'
      <3>1. Counted(p)
        BY <2>4 DEF ListsHold
      <3>2. \A j \in steady'[p] : store'[j] = store[j] /\ j \in Settled'
        BY <2>2, <2>3, <1>t
      <3>3. steady'[p] \subseteq steady[p]
        BY <2>2
      <3> QED BY <2>2, <3>1, <3>2, <3>3, CountedAlone
    <2> QED BY <2>2, <2>4 DEF ListsHold
  <1>7. CASE Remove
    BY <1>7, <1>a DEF Remove, Settled
  <1>8. CASE Removed
    BY <1>8, <1>a DEF Removed, Settled
  <1>9. CASE Add
    <2>1. /\ event # None /\ event' = event /\ store' = [store EXCEPT ![event.key] = event.value]
          /\ UNCHANGED <<pc, query, left, count, listed, steady>>
      BY <1>9, <1>t DEF Add
    <2>2. Settled' = Settled
      BY <2>1 DEF Settled
    <2>3. ASSUME NEW p \in Procs, pc[p] = "count" PROVE Counted(p)'
      <3>1. Counted(p)
        BY <2>3 DEF ListsHold
      <3>2. \A j \in steady'[p] : store'[j] = store[j]
        BY <2>1, <3>1, <1>t DEF Counted, Settled
      <3> QED BY <2>1, <2>2, <3>1, <3>2, CountedAlone
    <2> QED BY <2>1, <2>3 DEF ListsHold
  <1>10. CASE AddParam
    BY <1>10, <1>a DEF AddParam, Settled
  <1>11. CASE Added
    BY <1>11, <1>a DEF Added, Settled
  <1>12. ASSUME NEW p \in Procs, NEW C \in Queries, ListBegin(p, C) PROVE ListsHold'
    <2>1. /\ pc' = [pc EXCEPT ![p] = "count"] /\ query' = [query EXCEPT ![p] = C]
          /\ left' = [left EXCEPT ![p] = C] /\ count' = [count EXCEPT ![p] = [k \in Keys |-> 0]]
          /\ listed' = [listed EXCEPT ![p] = {}]
          /\ steady' = [steady EXCEPT ![p] = {k \in Settled : Matches(k, C) /\ Plain(k, C)}]
          /\ UNCHANGED <<store, event>>
      BY <1>12 DEF ListBegin
    <2>2. Settled' = Settled /\ Settled \subseteq Keys
      BY <2>1 DEF Settled
    <2>3. Counted(p)'
      <3>1. \A k \in steady'[p] : k \in Keys /\ k \in Settled' /\ Matches(k, C) /\ Plain(k, C)
        BY <2>1, <2>2, <1>t
      <3>2. \A k \in steady'[p] : count'[p][k] = 0
        BY <2>1, <3>1, <1>t
      <3>3. query'[p] = C /\ left'[p] = C /\ Cardinality(query'[p] \ left'[p]) = 0
        BY <2>1, <1>t, FS_EmptySet
      <3> QED BY <2>1, <3>1, <3>2, <3>3 DEF Counted, Matches, Plain, ParamsOf
    <2>4. ASSUME NEW q \in Procs, q # p
          PROVE  (pc'[q] = "count" => Counted(q)') /\ (pc'[q] = "listed" => steady'[q] \subseteq listed'[q])
      <3>1. /\ pc'[q] = pc[q] /\ query'[q] = query[q] /\ left'[q] = left[q] /\ count'[q] = count[q]
            /\ listed'[q] = listed[q] /\ steady'[q] = steady[q]
        BY <2>1, <2>4, <1>t
      <3>2. (pc[q] = "count" => Counted(q)) /\ (pc[q] = "listed" => steady[q] \subseteq listed[q])
        BY DEF ListsHold
      <3> QED BY <3>1, <3>2, <2>1, <2>2 DEF Counted, Matches, Plain, ParamsOf
    <2>5. pc'[p] = "count"
      BY <2>1, <1>t
    <2> QED BY <2>3, <2>4, <2>5 DEF ListsHold
  <1>13. ASSUME NEW p \in Procs, ListCount(p) PROVE ListsHold'
    <2>1. PICK c \in left[p] :
            /\ left' = [left EXCEPT ![p] = @ \ {c}]
            /\ count' = [count EXCEPT ![p] = [k \in Keys |->
                 count[p][k] + Cardinality({d \in Params : <<c, d>> \in Covers /\ k \in paramStore[d]})]]
      BY <1>13 DEF ListCount
    <2>2. UNCHANGED <<store, event, pc, query, listed, steady>> /\ pc[p] = "count"
      BY <1>13 DEF ListCount
    <2>3. Settled' = Settled /\ Settled \subseteq Keys
      BY <2>2 DEF Settled
    <2>4. Counted(p)
      BY <2>2 DEF ListsHold
    <2>5. Counted(p)'
      <3>1. left'[p] = left[p] \ {c} /\ left'[p] \subseteq query'[p] /\ c \in query[p]
        BY <2>1, <2>2, <2>4, <1>t DEF Counted
      <3>2. ASSUME NEW k \in steady[p] PROVE count'[p][k] = Cardinality(query'[p] \ left'[p])
        <4>1. count'[p][k] =
                count[p][k] + Cardinality({d \in Params : <<c, d>> \in Covers /\ k \in paramStore[d]})
          BY <2>1, <1>t
        <4>2. Cardinality({d \in Params : <<c, d>> \in Covers /\ k \in paramStore[d]}) = 1
          BY <2>4, CountsOne
        <4>3. count'[p][k] = count[p][k] + 1
          BY <4>1, <4>2
        <4> PICK met \in SUBSET Params : met = query[p] \ left[p]
          BY <1>t
        <4>4. count[p][k] = Cardinality(met) /\ IsFiniteSet(met) /\ c \notin met
          BY <2>4, CountIsNat DEF Counted
        <4>5. query'[p] \ left'[p] = met \cup {c}
          BY <2>2, <3>1
        <4>6. Cardinality(met \cup {c}) = Cardinality(met) + 1
          BY <4>4, FS_AddElement
        <4> QED BY <4>3, <4>4, <4>5, <4>6
      <3> QED BY <2>2, <2>3, <2>4, <3>1, <3>2 DEF Counted, Matches, Plain, ParamsOf
    <2>6. ASSUME NEW q \in Procs, q # p, pc[q] = "count" PROVE Counted(q)'
      <3>1. left'[q] = left[q] /\ count'[q] = count[q]
        BY <2>1, <2>6, <1>t
      <3>2. Counted(q)
        BY <2>6 DEF ListsHold
      <3> QED BY <3>1, <3>2, <2>2, <2>3 DEF Counted, Matches, Plain, ParamsOf
    <2> QED BY <2>2, <2>5, <2>6 DEF ListsHold
  <1>14. ASSUME NEW p \in Procs, ListEnd(p) PROVE ListsHold'
    <2>1. /\ pc[p] = "count" /\ left[p] = {} /\ listed' = [listed EXCEPT ![p] = Listed(p)]
          /\ pc' = [pc EXCEPT ![p] = "listed"] /\ UNCHANGED <<store, event, query, left, count, steady>>
      BY <1>14 DEF ListEnd
    <2>2. Settled' = Settled /\ Settled \subseteq Keys
      BY <2>1 DEF Settled
    <2>3. steady[p] \subseteq Listed(p)
      <3>1. Counted(p)
        BY <2>1 DEF ListsHold
      <3>2. query[p] \ left[p] = query[p]
        BY <2>1
      <3> QED BY <3>1, <3>2, <2>2 DEF Counted, Listed, Matches
    <2>4. ASSUME NEW q \in Procs, pc'[q] = "count" PROVE Counted(q)'
      <3>1. pc[q] = "count"
        BY <2>1, <2>4, <1>t
      <3> QED BY <3>1, <2>1, <2>2, CountedAlone DEF ListsHold
    <2>5. ASSUME NEW q \in Procs, pc'[q] = "listed" PROVE steady'[q] \subseteq listed'[q]
      BY <2>1, <2>3, <2>5, <1>t DEF ListsHold
    <2> QED BY <2>4, <2>5 DEF ListsHold
  <1>15. ASSUME NEW p \in Procs, ListAnswered(p) PROVE ListsHold'
    <2> SUFFICES ASSUME NEW q \in Procs
                 PROVE  (pc'[q] = "count" => Counted(q)') /\ (pc'[q] = "listed" => steady'[q] \subseteq listed'[q])
      BY DEF ListsHold
    <2>1. /\ pc' = [pc EXCEPT ![p] = "idle"] /\ query' = [query EXCEPT ![p] = {}]
          /\ listed' = [listed EXCEPT ![p] = {}] /\ count' = [count EXCEPT ![p] = [k \in Keys |-> 0]]
          /\ steady' = [steady EXCEPT ![p] = {}] /\ UNCHANGED <<store, event, left>>
      BY <1>15 DEF ListAnswered
    <2>2. CASE q = p
      BY <2>1, <2>2, <1>t
    <2>3. CASE q # p
      <3>1. /\ pc'[q] = pc[q] /\ query'[q] = query[q] /\ left'[q] = left[q] /\ count'[q] = count[q]
            /\ listed'[q] = listed[q] /\ steady'[q] = steady[q]
        BY <2>1, <2>3, <1>t
      <3>2. (pc[q] = "count" => Counted(q)) /\ (pc[q] = "listed" => steady[q] \subseteq listed[q])
        BY DEF ListsHold
      <3>3. Settled' = Settled
        BY <2>1 DEF Settled
      <3> QED BY <3>1, <3>2, <3>3, <2>1 DEF Counted, Matches, Plain, ParamsOf
    <2> QED BY <2>2, <2>3
  <1>16. CASE UNCHANGED vars
    BY <1>16, <1>a DEF vars, Settled
  <1> QED
    BY <1>1, <1>2, <1>3, <1>4, <1>5, <1>6, <1>7, <1>8, <1>9, <1>10, <1>11, <1>12, <1>13,
       <1>14, <1>15, <1>16 DEF Next, Watcher

-----------------------------------------------------------------------------
(***************************************************************************)
(* What follows of every behaviour.                                        *)
(***************************************************************************)

\* The invariant is one.
THEOREM Invariant == Spec => []IInv
  <1>1. Init => IInv
    BY InitIInv
  <1>2. IInv /\ [Next]_vars => IInv'
    BY NextTypeOK, NextStoreHolds, NextIndexHolds, NextEventsHold, NextListsHold DEF IInv
  <1> QED BY <1>1, <1>2, PTL DEF Spec

\* Between two events the param lists are the index of the copy, whatever was written,
\* removed and written again before.
THEOREM IndexIsFitting == Spec => []IndexFitsStore
  <1>1. IInv => IndexFitsStore
    <2> SUFFICES ASSUME IInv, event = None, NEW c \in Params
                 PROVE  paramStore[c] = {k \in Keys : c \in ParamsOf(store[k])}
      BY DEF IndexFitsStore
    <2>1. paramStore[c] \subseteq Keys
      BY DEF IInv, TypeOK
    <2>2. \A k \in Keys : k \in paramStore[c] <=> c \in ParamsOf(store[k])
      BY DEF IInv, IndexHolds, OnList
    <2> QED BY <2>1, <2>2
  <1> QED BY <1>1, Invariant, PTL

\* The copy of a key is on its way to what etcd has, unless the key was last written
\* while no watch was to tell of it.
THEOREM CopyIsFollowing == Spec => []CopyFollows
  <1>1. IInv => CopyFollows
    <2> SUFFICES ASSUME IInv, phase # "down", NEW k \in Keys \ missed PROVE Coming(k) = etcd[k]
      BY DEF CopyFollows
    <2>1. KeyFollows(k)
      BY DEF IInv, EventsHold
    <2> PICK about : about = {n \in DOMAIN events : events[n].key = k}
      OBVIOUS
    <2>2. DOMAIN events \subseteq Nat
      BY DEF IInv, TypeOK
    <2>3. Coming(k) = IF about # {} THEN events[CHOOSE n \in about : \A m \in about : m <= n].value ELSE Becomes(k)
      BY DEF Coming, Becomes
    <2>4. ASSUME NEW n \in DOMAIN events, IsLast(n, k), events[n].value = etcd[k] PROVE Coming(k) = etcd[k]
      <3>1. n \in about /\ \A m \in about : m <= n
        BY <2>2, <2>4 DEF IsLast
      <3>2. \A o \in about : (\A m \in about : m <= o) => o = n
        BY <2>2, <3>1
      <3>3. (CHOOSE o \in about : \A m \in about : m <= o) = n
        BY <3>1, <3>2
      <3> QED BY <2>3, <2>4, <3>1, <3>3
    <2>5. CASE (\A n \in DOMAIN events : events[n].key # k) /\ Becomes(k) = etcd[k]
      BY <2>3, <2>5
    <2> QED BY <2>1, <2>4, <2>5 DEF KeyFollows
  <1> QED BY <1>1, Invariant, PTL

\* A List misses no object that matched from its beginning to its end, though the maps
\* change under it.
THEOREM ListIsComplete == Spec => []ListMissesNothing
  <1>1. IInv => ListMissesNothing
    BY DEF IInv, ListsHold, ListMissesNothing
  <1> QED BY <1>1, Invariant, PTL
===============================================================================
