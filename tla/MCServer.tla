------------------------------ MODULE MCServer ------------------------------
(* Instances of Server for TLC. *)
EXTENDS Server, TLC

CONSTANTS p1, p2

\* Names as written and in lower case.
Case == [n \in {"", "eu", "x", "X"} |-> IF n = "X" THEN "x" ELSE n]

Role(name) == Ref("role", "eu", name)
Service == Ref("service", "eu", "x")

Leave(owner, role, action, ref, tag, rests) ==
  [who |-> [owner |-> owner, role |-> role],
   asked |-> [action |-> action, ref |-> ref, role |-> tag], facts |-> rests]

(***************************************************************************)
(* Requests to /iam of an account, which rest on a binding, that it is in  *)
(* the account's list and names the policy, or on nothing that changes.    *)
(***************************************************************************)
Request(method, url, at) ==
  [op |-> "iam", token |-> "t1", method |-> method, url |-> url, body |-> [at |-> at, value |-> "v"]]

\* A role, written in either case, and the secret of a namespace.
IamRequests ==
  {Request("PUT", Role("X"), Role(name)) : name \in {"x", "X"}}
    \cup {Request("DELETE", Role(name), Role(name)) : name \in {"x", ""}}
    \cup {Request("POST", Ref("secret", "eu", "x"), Ref("secret", "eu", "x")),
          Request("GET", Role("x"), Role("x")), Request("PATCH", Role("x"), Role("x"))}

IamGrounds ==
  {Leave("alice", None, "put", Role(name), None, {"listed", "names"}) : name \in {"x", "X"}}
    \cup {Leave("alice", None, "delete", Role("x"), None, {"listed"})}
    \cup {Leave("alice", None, action, Role("x"), None, {}) : action \in {"get", "undefined"}}
    \cup {Leave("alice", None, "delete", Role(""), None, {}),
          Leave("alice", None, "undefined", Ref("secret", "eu", "x"), None, {})}

\* It names the policy already or does not; one write may swap the two.
SomeStarts == {{"listed"}, {"listed", "names"}}

(***************************************************************************)
(* Requests to /sts: a key that finds the Secret, a pattern that finds the *)
(* sessions, and a session whose name is assumed in two roles.             *)
(***************************************************************************)
Auth(key, secret) == [op |-> "auth", key |-> key, secret |-> secret]
Assuming(name, role) == [op |-> "assume", token |-> "t1", name |-> name, role |-> role]

StsRequests ==
  {Auth("k", "old"), Auth("!STS-*", "s1"),
   Assuming("dev", "deployer"), Assuming("dev", "viewer"),
   [op |-> "access", token |-> "t2", action |-> "use", service |-> Service]}

SomeContents ==
  {[key |-> "k", secret |-> "old", owner |-> "alice"], [key |-> "l", secret |-> "new", owner |-> "bob"]}

SomeCovers == {<<"dev", "dev">>}

\* The Secret of bob's was once alice's.
LeftInList == {<<"k", "a">>}

SomeFinds == {<<"k", "k">>, <<"!STS-*", "s1">>, <<"!STS-*", "s2">>}

StsGrounds ==
  {Leave("alice", None, "assume", Ref("service", "oiam.io", "sts"), role, {"listed"}) : role \in {"deployer", "viewer"}}
    \cup {Leave("dev", "deployer", "use", Service, None, {})}

AliceFirst == [t \in {"t1", "t2"} |-> IF t = "t1" THEN "alice" ELSE None]

AllRequests == IamRequests \cup StsRequests
AllGrounds == IamGrounds \cup StsGrounds

(***************************************************************************)
(* Bound: requests to /iam and to /sts, which share no more than a token   *)
(* and what their leave rests on, run apart, the one with the Secret out   *)
(* of use, the others with no object and the one fact they rest on.        *)
(***************************************************************************)
IamOrSts ==
  LET ops == {req[p].op : p \in {x \in Procs : pc[x] # "idle"}} IN
  /\ "iam" \in ops => ops = {"iam"} /\ tokens = AliceFirst /\ \A s \in DOMAIN secrets : secrets[s] = None
  /\ ops \cap {"auth", "assume", "access"} # {} =>
       facts \subseteq {"listed"} /\ \A a \in Places : objects[a] = None

Sym == Permutations(Procs)
===============================================================================
