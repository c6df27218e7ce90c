------------------------- MODULE RedisStoreObserved ---------------------------
(***************************************************************************)
(* RedisStore implements ObjectStore.                                      *)
(*                                                                         *)
(* Two history variables say what a List may have seen: which keys it      *)
(* ranges over, and which of its criteria each of them met since it was    *)
(* called.  They are added to RedisStore's steps and never read by them.   *)
(***************************************************************************)
EXTENDS RedisStore

VARIABLES
  within,  \* history: the keys the List of a process ranges over
  met      \* history: the <<key, criterion>> pairs that held since it began

observed == <<within, met>>

(***************************************************************************)
(* The refinement mapping.  A write is under way from its first read to    *)
(* its transaction, a List from its first LRANGE to its last GET; a write  *)
(* is overtaken once its first read no longer describes the store.         *)
(***************************************************************************)
Overtaken ==
  {p \in Proc : \/ pc[p] \in {"putRead", "putCommit"} /\ "version" \notin fresh[p]
                \/ pc[p] = "deleteCommit" /\ "lists" \notin fresh[p]}

GoneWithin == [p \in Proc |-> gone[p] \cap within[p]]

Reply == [p \in Proc |-> IF pc[p] = "listed" THEN "answer"
                         ELSE IF pc[p] = "listError" THEN "error" ELSE "none"]

Abstract == INSTANCE ObjectStore WITH
  writing <- key, overtaken <- Overtaken, raced <- torn, listing <- Listing,
  gone <- GoneWithin, answer <- got, reply <- Reply

-----------------------------------------------------------------------------
\* A List begins where its process leaves "idle" for "range", and its reply is
\* gone where its process is idle again.
Observe ==
  /\ within' = [p \in Proc |->
       IF pc[p] = "idle" /\ pc'[p] = "range" THEN hits'[p]
       ELSE IF pc'[p] = "idle" THEN {} ELSE within[p]]
  /\ met' = [p \in Proc |->
       IF pc'[p] = "idle" THEN {}
       ELSE IF pc'[p] \in {"range", "fetch"}
         THEN met[p] \cup UNION {Abstract!Met(store', k, query'[p]) : k \in within'[p]}
       ELSE met[p]]

ObservedInit ==
  /\ Init
  /\ within = [p \in Proc |-> {}]
  /\ met = [p \in Proc |-> {}]

ObservedSpec == ObservedInit /\ [][Next /\ Observe]_<<vars, observed>>

\* Every behaviour of the Redis commands is one of a store whose writes take
\* effect at one moment, and whose Lists answer what matched throughout and
\* nothing that did not meet each of the criteria at some moment of the List:
\* what the controllers assume of storage.Interface.
ImplementsObjectStore == Abstract!Spec

-----------------------------------------------------------------------------
(***************************************************************************)
(* What the refinement rests on besides IInv.                              *)
(***************************************************************************)

\* A process that lists nothing holds nothing of a List.
Unlisted(p) ==
  pc[p] \in Writing \cup {"idle"} =>
    /\ query[p] = {} /\ steady[p] = {} /\ gone[p] = {} /\ got[p] = {}
    /\ missing[p] = {} /\ within[p] = {} /\ met[p] = {}

\* A write is about a key while it is under way, and a Put whose first read is
\* current has a current second one.
WriteHolds(p) ==
  /\ pc[p] \notin Writing => key[p] = None
  /\ pc[p] = "putCommit" /\ "version" \in fresh[p] => "lists" \in fresh[p]

\* What a List has found so far lies in its scope and met, at some moment, the
\* criteria it has ranged over.
ListHolds(p) ==
  /\ hits[p] \subseteq within[p]
  /\ pc[p] \in {"range", "fetch"} =>
       \A k \in within[p] : Abstract!Met(store, k, query[p]) \subseteq met[p]
  /\ pc[p] = "range" =>
       /\ got[p] = {} /\ missing[p] = {}
       /\ \A k \in hits[p] \ torn : {k} \X (query[p] \ todo[p]) \subseteq met[p]
  /\ pc[p] = "fetch" =>
       /\ todo[p] \subseteq hits[p] /\ missing[p] \subseteq hits[p]
       /\ \A pair \in got[p] : pair[1] \in hits[p] \ todo[p]
       /\ \A k \in hits[p] \ torn : {k} \X query[p] \subseteq met[p]

Observed ==
  /\ within \in [Proc -> SUBSET Key]
  /\ met \in [Proc -> SUBSET (Key \X Criterion)]
  /\ \A p \in Proc : Unlisted(p) /\ WriteHolds(p) /\ ListHolds(p)
===============================================================================
