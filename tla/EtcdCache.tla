------------------------------ MODULE EtcdCache ------------------------------
(***************************************************************************)
(* storage.ETCD: a server answers reads from a copy of etcd it keeps in    *)
(* two maps, "store" (the objects by id) and "paramStore" (the ids by      *)
(* param and value).  The copy is loaded when the server starts and then   *)
(* follows a watch, one event after another, in a goroutine of its own.    *)
(*                                                                         *)
(* The maps have no lock.  Lists read them between any two writes of the   *)
(* watcher; that the runtime may stop the whole server when it sees a map  *)
(* read and written at once is part of Stop, which may come at any moment. *)
(*                                                                         *)
(* Objects are of one kind and namespace, and are a serial number, which   *)
(* tells one write from another, and the params queries ask for.  Writes   *)
(* go to etcd alone, from this server or another; the version that         *)
(* Controlled.Put computes from the copy is left out (RedisStore has it).  *)
(***************************************************************************)
EXTENDS Integers, Sequences, FiniteSets

CONSTANTS
  Procs,      \* List requests in progress
  Keys,
  Params,     \* param:value pairs
  Contents,   \* the sets of them objects have
  Queries,    \* the sets of them a List asks for
  Covers,     \* pairs <<c, d>>: the expression a query makes of c also meets d
  None,       \* nothing stored, no event
  MaxWrites, MaxStarts   \* bounds on the writes to etcd and on the server's starts

ASSUME CoversAssumption == Covers \subseteq Params \X Params /\ \A c \in Params : <<c, c>> \in Covers
ASSUME ContentsAssumption == Contents \subseteq SUBSET Params /\ Queries \subseteq SUBSET Params
ASSUME BoundsAssumption == MaxWrites \in Nat /\ MaxStarts \in Nat
ASSUME ParamsAssumption == IsFiniteSet(Params)

Object == [serial : 1..MaxWrites, params : Contents]
Event == [key : Keys, value : Object \cup {None}]

ASSUME NoneAssumption == None \notin Object /\ None \notin Event

VARIABLES
  etcd,       \* key -> object, or None
  writes, starts,
  phase,      \* of the server: "down", "loaded", "watching", "deaf"
  events,     \* what the watch has not handed over yet: [key, value]
  store, paramStore,
  event,      \* the event the watcher is at, or None
  step,       \* what it does next
  todo,       \* the params it has still to take the key off, or to put it on
  pc,         \* what a List does next
  query,      \* the params it asks for
  left,       \* those it has not counted yet
  count,      \* keyCountMap
  steady,     \* history: the keys that matched since the List began
  listed,     \* the answer
  missed      \* history: keys last written while no watch was to tell of it

cluster == <<etcd, writes>>
server == <<starts, phase>>
watcher == <<event, step, todo>>
copy == <<store, paramStore>>
lists == <<pc, query, left, count, listed>>
vars == <<cluster, server, events, watcher, copy, lists, steady, missed>>

ParamsOf(value) == IF value = None THEN {} ELSE value.params

-----------------------------------------------------------------------------
(***************************************************************************)
(* etcd.                                                                   *)
(***************************************************************************)

\* A Put or a Delete, told to the watch if there is one.
Write(k, value) ==
  /\ writes < MaxWrites /\ writes' = writes + 1
  /\ etcd' = [etcd EXCEPT ![k] = value]
  /\ IF phase = "watching"
       THEN events' = Append(events, [key |-> k, value |-> value]) /\ missed' = missed \ {k}
       ELSE missed' = missed \cup {k} /\ UNCHANGED events
  /\ UNCHANGED <<server, watcher, copy, lists, steady>>

-----------------------------------------------------------------------------
(***************************************************************************)
(* The server: a snapshot, then a watch from whenever it is registered.    *)
(***************************************************************************)
Start ==
  /\ phase = "down" /\ starts < MaxStarts
  /\ starts' = starts + 1 /\ phase' = "loaded"
  /\ store' = etcd
  /\ paramStore' = [c \in Params |-> {k \in Keys : c \in ParamsOf(etcd[k])}]
  /\ missed' = {}
  /\ UNCHANGED <<cluster, events, watcher, lists, steady>>

Watch ==
  /\ phase = "loaded" /\ phase' = "watching"
  /\ UNCHANGED <<cluster, starts, events, watcher, copy, lists, steady, missed>>

\* The channel of the watch is closed: its loop ends, and nothing starts another.
WatchEnds ==
  /\ phase = "watching" /\ phase' = "deaf"
  /\ missed' = missed \cup {events[n].key : n \in DOMAIN events}
  /\ events' = <<>>
  /\ UNCHANGED <<cluster, starts, watcher, copy, lists, steady>>

\* The process ends; its lists are never answered.
Stop ==
  /\ phase # "down" /\ phase' = "down"
  /\ events' = <<>> /\ event' = None /\ step' = "idle" /\ todo' = {}
  /\ store' = [k \in Keys |-> None] /\ paramStore' = [c \in Params |-> {}]
  /\ pc' = [p \in Procs |-> "idle"] /\ query' = [p \in Procs |-> {}]
  /\ left' = [p \in Procs |-> {}] /\ count' = [p \in Procs |-> [k \in Keys |-> 0]]
  /\ listed' = [p \in Procs |-> {}] /\ steady' = [p \in Procs |-> {}]
  /\ missed' = {}
  /\ UNCHANGED <<cluster, starts>>

-----------------------------------------------------------------------------
(***************************************************************************)
(* The watcher.  remove: the object goes, then its params one by one.      *)
(* add: the object comes, then its params one by one.                      *)
(***************************************************************************)

\* Keys that stop matching, or that an event is about, are steady no more.
Disturbed(k) == steady' = [p \in Procs |-> steady[p] \ {k}]

\* Mutant: a deletion is passed over.
TakeUpdates ==
  /\ event = None /\ events # <<>>
  /\ event' = IF Head(events).value = None THEN None ELSE Head(events)
  /\ events' = Tail(events)
  /\ IF Head(events).value = None THEN UNCHANGED <<copy, step, todo, steady>>
     ELSE /\ store' = [store EXCEPT ![Head(events).key] = None]
          /\ step' = "remove" /\ todo' = ParamsOf(store[Head(events).key])
          /\ Disturbed(Head(events).key)
          /\ UNCHANGED paramStore
  /\ UNCHANGED <<cluster, server, lists, missed>>

\* Mutant: the params of the object that goes are left.
TakeOnly ==
  /\ event = None /\ events # <<>>
  /\ event' = Head(events) /\ events' = Tail(events)
  /\ store' = [store EXCEPT ![Head(events).key] = None]
  /\ step' = "remove" /\ todo' = {}
  /\ Disturbed(Head(events).key)
  /\ UNCHANGED <<cluster, server, paramStore, lists, missed>>

Take ==
  /\ event = None /\ events # <<>>
  /\ event' = Head(events) /\ events' = Tail(events)
  /\ store' = [store EXCEPT ![Head(events).key] = None]
  /\ step' = "remove" /\ todo' = ParamsOf(store[Head(events).key])
  /\ Disturbed(Head(events).key)
  /\ UNCHANGED <<cluster, server, paramStore, lists, missed>>

Remove ==
  /\ step = "remove"
  /\ \E c \in todo :
       /\ paramStore' = [paramStore EXCEPT ![c] = @ \ {event.key}]
       /\ todo' = todo \ {c}
  /\ UNCHANGED <<cluster, server, events, event, step, store, lists, steady, missed>>

\* Mutant: the watcher is left at a deletion it is through with.
RemovedStaying ==
  /\ step = "remove" /\ todo = {} /\ event.value = None
  /\ step' = "idle"
  /\ UNCHANGED <<cluster, server, events, event, todo, copy, lists, steady, missed>>

\* A deletion ends here.
Removed ==
  /\ step = "remove" /\ todo = {} /\ event.value = None
  /\ event' = None /\ step' = "idle"
  /\ UNCHANGED <<cluster, server, events, todo, copy, lists, steady, missed>>

Add ==
  /\ step = "remove" /\ todo = {} /\ event.value # None
  /\ store' = [store EXCEPT ![event.key] = event.value]
  /\ step' = "add" /\ todo' = event.value.params
  /\ UNCHANGED <<cluster, server, events, event, paramStore, lists, steady, missed>>

AddParam ==
  /\ step = "add"
  /\ \E c \in todo :
       /\ paramStore' = [paramStore EXCEPT ![c] = @ \cup {event.key}]
       /\ todo' = todo \ {c}
  /\ UNCHANGED <<cluster, server, events, event, step, store, lists, steady, missed>>

Added ==
  /\ step = "add" /\ todo = {}
  /\ event' = None /\ step' = "idle"
  /\ UNCHANGED <<cluster, server, events, todo, copy, lists, steady, missed>>

-----------------------------------------------------------------------------
(***************************************************************************)
(* List: the keys met by each param are counted, one param after another;  *)
(* those met as often as there are params are looked up.                   *)
(***************************************************************************)
Matches(k, C) == store[k] # None /\ C \subseteq store[k].params

\* No other param of the object is met by the expressions of the query.
Plain(k, C) == \A c \in C, d \in ParamsOf(store[k]) : <<c, d>> \in Covers => c = d

\* Keys an event is about are not counted on.
Settled == Keys \ (IF event = None THEN {} ELSE {event.key})

ListBegin(p, C) ==
  /\ phase # "down" /\ pc[p] = "idle"
  /\ pc' = [pc EXCEPT ![p] = "count"]
  /\ query' = [query EXCEPT ![p] = C] /\ left' = [left EXCEPT ![p] = C]
  /\ count' = [count EXCEPT ![p] = [k \in Keys |-> 0]]
  /\ listed' = [listed EXCEPT ![p] = {}]
  /\ steady' = [steady EXCEPT ![p] = {k \in Settled : Matches(k, C) /\ Plain(k, C)}]
  /\ UNCHANGED <<cluster, server, events, watcher, copy, missed>>

\* One param: every list its expression meets adds to the counts of its keys.
ListCount(p) ==
  /\ pc[p] = "count"
  /\ \E c \in left[p] :
       /\ left' = [left EXCEPT ![p] = @ \ {c}]
       /\ count' = [count EXCEPT ![p] = [k \in Keys |->
            count[p][k] + Cardinality({d \in Params : <<c, d>> \in Covers /\ k \in paramStore[d]})]]
  /\ UNCHANGED <<cluster, server, events, watcher, copy, pc, query, listed, steady, missed>>

\* Mutant: a key met once is enough.
ListedAny(p) ==
  {k \in Keys : store[k] # None /\ (query[p] = {} \/ count[p][k] = 1)}

\* Without params every object is an answer.
Listed(p) ==
  {k \in Keys : store[k] # None /\ (query[p] = {} \/ count[p][k] = Cardinality(query[p]))}

ListEnd(p) ==
  /\ pc[p] = "count" /\ left[p] = {}
  /\ listed' = [listed EXCEPT ![p] = Listed(p)]
  /\ pc' = [pc EXCEPT ![p] = "listed"]
  /\ UNCHANGED <<cluster, server, events, watcher, copy, query, left, count, steady, missed>>

ListAnswered(p) ==
  /\ pc[p] = "listed"
  /\ pc' = [pc EXCEPT ![p] = "idle"]
  /\ query' = [query EXCEPT ![p] = {}] /\ listed' = [listed EXCEPT ![p] = {}]
  /\ count' = [count EXCEPT ![p] = [k \in Keys |-> 0]]
  /\ steady' = [steady EXCEPT ![p] = {}]
  /\ UNCHANGED <<cluster, server, events, watcher, copy, left, missed>>

-----------------------------------------------------------------------------
Init ==
  /\ etcd = [k \in Keys |-> None] /\ writes = 0
  /\ starts = 0 /\ phase = "down"
  /\ events = <<>> /\ event = None /\ step = "idle" /\ todo = {}
  /\ store = [k \in Keys |-> None] /\ paramStore = [c \in Params |-> {}]
  /\ pc = [p \in Procs |-> "idle"] /\ query = [p \in Procs |-> {}]
  /\ left = [p \in Procs |-> {}] /\ count = [p \in Procs |-> [k \in Keys |-> 0]]
  /\ listed = [p \in Procs |-> {}] /\ steady = [p \in Procs |-> {}]
  /\ missed = {}

Written == [serial : {writes + 1}, params : Contents] \cup {None}

Watcher == Take \/ Remove \/ Removed \/ Add \/ AddParam \/ Added

Next ==
  \/ \E k \in Keys : \E value \in Written : (etcd[k] # None \/ value # None) /\ Write(k, value)
  \/ Start \/ Watch \/ WatchEnds \/ Stop
  \/ Watcher
  \/ \E p \in Procs :
       \/ \E C \in Queries : ListBegin(p, C)
       \/ ListCount(p) \/ ListEnd(p) \/ ListAnswered(p)

\* The watcher's goroutine runs: a registered watch hands over its events.
Spec == Init /\ [][Next]_vars /\ WF_vars(Watcher)

-----------------------------------------------------------------------------
(***************************************************************************)
(* Properties.                                                             *)
(***************************************************************************)
TypeOK ==
  /\ etcd \in [Keys -> Object \cup {None}] /\ store \in [Keys -> Object \cup {None}]
  /\ paramStore \in [Params -> SUBSET Keys] /\ writes \in 0..MaxWrites
  /\ phase \in {"down", "loaded", "watching", "deaf"}
  /\ events \in Seq(Event) /\ event \in Event \cup {None} /\ missed \subseteq Keys
  /\ step \in {"idle", "remove", "add"} /\ (event = None <=> step = "idle")
  /\ todo \subseteq Params /\ (step = "idle" => todo = {})
  /\ pc \in [Procs -> {"idle", "count", "listed"}]
  /\ query \in [Procs -> SUBSET Params] /\ left \in [Procs -> SUBSET Params]
  /\ count \in [Procs -> [Keys -> Nat]]
  /\ listed \in [Procs -> SUBSET Keys] /\ steady \in [Procs -> SUBSET Keys]
  /\ phase # "watching" => events = <<>>

\* Between two events paramStore is the index of store, whatever was written,
\* removed and written again before.
IndexFitsStore ==
  event = None => \A c \in Params : paramStore[c] = {k \in Keys : c \in ParamsOf(store[k])}

\* What the copy of a key comes to once the events on the way are applied.
Coming(k) ==
  LET about == {n \in DOMAIN events : events[n].key = k} IN
  IF about # {} THEN events[CHOOSE n \in about : \A m \in about : m <= n].value
  ELSE IF event # None /\ event.key = k THEN event.value
  ELSE store[k]

\* The copy of a key is on its way to what etcd has, unless the key was last
\* written between the snapshot and the watch, or after the watch.
CopyFollows ==
  phase # "down" => \A k \in Keys \ missed : Coming(k) = etcd[k]

\* A List has every object that matched from its beginning to its end, though the
\* maps change under it, if no event was about the object and none of its other
\* params is taken for one the List asks for.
ListMissesNothing ==
  \A p \in Procs : pc[p] = "listed" => steady[p] \subseteq listed[p]

\* When etcd rests, the copy catches up with it for good, but for the keys missed,
\* or the server is down.
CatchesUp ==
  \A k \in Keys : <>[](phase = "down" \/ k \in missed \/ store[k] = etcd[k])
===============================================================================
