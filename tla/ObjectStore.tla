----------------------------- MODULE ObjectStore ------------------------------
(***************************************************************************)
(* What the controllers may rely on when they call storage.Interface:      *)
(* objects under keys, without lists, pipelines or transactions.           *)
(*                                                                         *)
(* A write takes effect at one moment of its call, or at no moment.  A     *)
(* List reads one object at a time while others write: what matched        *)
(* throughout is answered, and what is answered met each criterion at some *)
(* moment of the call, though not all at the same.  The second half is     *)
(* lost for the keys two writes have raced for.                            *)
(***************************************************************************)
EXTENDS Integers

CONSTANTS
  Proc,       \* callers
  Key,        \* resource keys
  Criterion,  \* what a List can ask for
  Scope,      \* the sets of keys a List can range over
  Object,     \* what is stored: records with a version and a set of criteria
  None        \* no object, no key

VARIABLES
  store,      \* key -> stored object, or None
  writing,    \* the key a caller is writing, or None
  overtaken,  \* the callers whose key another call wrote meanwhile
  raced,      \* the keys written by a call that had been overtaken
  listing,    \* the callers whose List is running
  query,      \* the criteria asked for
  within,     \* the keys ranged over
  steady,     \* the keys that have matched since the List was called
  gone,       \* the keys deleted since the List was called
  met,        \* the <<key, criterion>> pairs that held at a moment of the List
  answer,     \* the <<key, object>> pairs a List has read
  reply       \* "none", "answer" or "error"

written == <<store, writing, overtaken, raced>>
asked == <<listing, query, within>>
seen == <<steady, gone, met>>
vars == <<written, asked, seen, answer, reply>>

Meets(k, C) == store[k] # None /\ C \subseteq store[k].params

\* The criteria of C that k meets in st, as pairs with k.
Met(st, k, C) == IF st[k] = None THEN {} ELSE {k} \X (C \cap st[k].params)

-----------------------------------------------------------------------------
(***************************************************************************)
(* Put and Delete.                                                         *)
(***************************************************************************)
WriteBegin(p, k) ==
  /\ writing[p] = None
  /\ reply[p] = "none"
  /\ p \notin listing
  /\ writing' = [writing EXCEPT ![p] = k]
  /\ UNCHANGED <<store, overtaken, raced, asked, seen, answer, reply>>

\* The moment a write takes effect.  Calls that write the same key are
\* overtaken; running Lists see the new object, or no object.
WriteAt(p, o) ==
  LET k == writing[p] IN
  /\ k # None
  /\ p \notin overtaken /\ o # None /\ store[k] # None => o.version = store[k].version + 1
  /\ store' = [store EXCEPT ![k] = o]
  /\ writing' = [writing EXCEPT ![p] = None]
  /\ overtaken' = (overtaken \cup {q \in Proc : writing[q] = k}) \ {p}
  /\ raced' \in IF p \in overtaken THEN {raced, raced \cup {k}} ELSE {raced}
  /\ steady' = [q \in Proc |->
       IF q \in listing
         THEN {j \in steady[q] : store'[j] # None /\ query[q] \subseteq store'[j].params}
         ELSE steady[q]]
  /\ gone' = [q \in Proc |->
       IF q \in listing /\ k \in within[q] /\ o = None THEN gone[q] \cup {k} ELSE gone[q]]
  /\ met' = [q \in Proc |->
       IF q \in listing /\ k \in within[q] THEN met[q] \cup Met(store', k, query[q]) ELSE met[q]]
  /\ UNCHANGED <<asked, answer, reply>>

\* A write that fails changes nothing.
WriteFails(p) ==
  /\ writing[p] # None
  /\ writing' = [writing EXCEPT ![p] = None]
  /\ overtaken' = overtaken \ {p}
  /\ UNCHANGED <<store, raced, asked, seen, answer, reply>>

(***************************************************************************)
(* List.                                                                   *)
(***************************************************************************)
ListBegin(p, C, K) ==
  /\ writing[p] = None
  /\ reply[p] = "none"
  /\ p \notin listing
  /\ listing' = listing \cup {p}
  /\ query' = [query EXCEPT ![p] = C]
  /\ within' = [within EXCEPT ![p] = K]
  /\ steady' = [steady EXCEPT ![p] = {k \in K : Meets(k, C)}]
  /\ gone' = [gone EXCEPT ![p] = {}]
  /\ met' = [met EXCEPT ![p] = UNION {Met(store, k, C) : k \in K}]
  /\ UNCHANGED <<written, answer, reply>>

\* p's List reads one object.
Read(p, k) ==
  /\ p \in listing
  /\ k \in within[p]
  /\ store[k] # None
  /\ \A pair \in answer[p] : pair[1] # k
  /\ answer' = [answer EXCEPT ![p] = @ \cup {<<k, store[k]>>}]
  /\ UNCHANGED <<written, asked, seen, reply>>

\* p's List has read what it must answer, and only what it may.
ListAnswers(p) ==
  /\ p \in listing
  /\ \A k \in steady[p] : \E pair \in answer[p] : pair[1] = k
  /\ \A pair \in answer[p] : pair[1] \notin raced => {pair[1]} \X query[p] \subseteq met[p]
  /\ listing' = listing \ {p}
  /\ reply' = [reply EXCEPT ![p] = "answer"]
  /\ UNCHANGED <<written, query, within, seen, answer>>

\* A List fails on nothing but a key that was deleted meanwhile, or raced for.
ListFails(p) ==
  /\ p \in listing
  /\ gone[p] \cup raced # {}
  /\ listing' = listing \ {p}
  /\ reply' = [reply EXCEPT ![p] = "error"]
  /\ UNCHANGED <<written, query, within, seen, answer>>

\* The caller is done with the reply.
Return(p) ==
  /\ reply[p] # "none"
  /\ reply' = [reply EXCEPT ![p] = "none"]
  /\ answer' = [answer EXCEPT ![p] = {}]
  /\ query' = [query EXCEPT ![p] = {}]
  /\ within' = [within EXCEPT ![p] = {}]
  /\ steady' = [steady EXCEPT ![p] = {}]
  /\ gone' = [gone EXCEPT ![p] = {}]
  /\ met' = [met EXCEPT ![p] = {}]
  /\ UNCHANGED <<written, listing>>

-----------------------------------------------------------------------------
Init ==
  /\ store = [k \in Key |-> None]
  /\ writing = [p \in Proc |-> None]
  /\ overtaken = {}
  /\ raced = {}
  /\ listing = {}
  /\ query = [p \in Proc |-> {}]
  /\ within = [p \in Proc |-> {}]
  /\ steady = [p \in Proc |-> {}]
  /\ gone = [p \in Proc |-> {}]
  /\ met = [p \in Proc |-> {}]
  /\ reply = [p \in Proc |-> "none"]
  /\ answer = [p \in Proc |-> {}]

Next ==
  \E p \in Proc :
    \/ \E k \in Key : WriteBegin(p, k)
    \/ \E o \in Object \cup {None} : WriteAt(p, o)
    \/ WriteFails(p)
    \/ \E C \in SUBSET Criterion, K \in Scope : ListBegin(p, C, K)
    \/ \E k \in Key : Read(p, k)
    \/ ListAnswers(p)
    \/ ListFails(p)
    \/ Return(p)

Spec == Init /\ [][Next]_vars
===============================================================================
