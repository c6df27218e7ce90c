----------------------------- MODULE MCRedisStore -----------------------------
(* Instances of RedisStore for TLC. *)
EXTENDS RedisStoreObserved, TLC

CONSTANTS p1, p2, k1, k2, a

\* Sound where the one scope is all keys.
ProcessesAndKeys == Permutations(Proc) \cup Permutations(Key)

AllKeys == {Key}

\* Nobody refuses a version below 0.
Least == -1
SomeSent == {-1, 0}

\* Bound: one List at a time.  Lists write nothing, so two of them have no effect on
\* each other.
Busy(p) == pc[p] \in {"range", "fetch", "listed", "listError"}
OneList == Cardinality({p \in Proc : Busy(p)}) <= 1
===============================================================================
