--------------------------- MODULE MCResourcePage ---------------------------
(* Instances of ResourcePage for TLC. *)
EXTENDS ResourcePage, TLC

CONSTANTS eu, us

\* One of each sort: with and without namespaces, ready to save at once or not; one's
\* form does not know all fields, another's empties the bindings it shows.
SomeKinds == {"role", "policy", "policybinding"}

Sym == Permutations(Namespaces)
===============================================================================
