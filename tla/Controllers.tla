----------------------------- MODULE Controllers -----------------------------
(***************************************************************************)
(* What /iam does to the store: the controllers of pkg/controller behind   *)
(* serveIAM, and the objects a server puts there when it first starts.     *)
(*                                                                         *)
(* A PUT or POST reads what its body refers to, one Get at a time, before  *)
(* it saves; a DELETE reads what it removes first.  Requests of several    *)
(* servers interleave at these operations of the storage interface, each   *)
(* one step here (RedisStore has the commands below them).  GET and a list *)
(* write nothing and are left out; so is authorisation (Authorize).  An    *)
(* object is what it refers to.                                            *)
(***************************************************************************)
EXTENDS Integers, Sequences

CONSTANTS
  Procs,     \* requests in progress
  Servers,
  Urls,      \* what requests are about: [kind, namespace, name]
  Bodies,    \* by kind: the references a body of that kind may hold
  None,      \* nothing is stored
  MaxStarts  \* bound on the starts of servers

NamespaceLess == {"namespace", "secret", "policybinding", "groupbinding"}
Bindings == {"policybinding", "groupbinding"}

Ref(kind, namespace, name) == [kind |-> kind, namespace |-> namespace, name |-> name]
NamespaceOf(a) == Ref("namespace", "", a.namespace)

\* Mutant: an object keeps the namespace of its URL.
AddressKept(url) == url

\* Where Put stores: a kind without namespaces has its namespace cleared.
Address(url) == IF url.kind \in NamespaceLess THEN [url EXCEPT !.namespace = ""] ELSE url

\* Where Get and Delete look: for every kind without namespaces, as if it were a
\* Namespace.
Looked(url) == IF url.kind \in NamespaceLess THEN Ref("namespace", "", url.name) ELSE url

\* The objects of main.go, in the order they are put.
Namespace == Ref("namespace", "", "oiam.io")
Admin(kind) == Ref(kind, "oiam.io", "admin")
Defaults ==
  << [at |-> Namespace, refs |-> <<>>],
     [at |-> Admin("account"), refs |-> <<>>],
     [at |-> Admin("group"), refs |-> <<>>],
     [at |-> Admin("role"), refs |-> <<>>],
     [at |-> Admin("policy"), refs |-> <<>>],
     [at |-> Ref("policybinding", "", "admin"),
      refs |-> <<Admin("group"), Admin("role"), Admin("policy")>>],
     [at |-> Ref("groupbinding", "", "admin"), refs |-> <<Admin("account"), Admin("group")>>],
     [at |-> Ref("secret", "", "admin"), refs |-> <<Admin("account")>>] >>

Addresses ==
  {Defaults[n].at : n \in DOMAIN Defaults} \cup {Address(u) : u \in Urls} \cup {Looked(u) : u \in Urls}

ASSUME UrlsAssumption ==
  \A u \in Urls :
    /\ u = Ref(u.kind, u.namespace, u.name)
    /\ u.kind \notin NamespaceLess => NamespaceOf(u) \in Addresses
    /\ u.kind \in Bindings =>
         \A refs \in Bodies[u.kind] : refs \in Seq(Addresses)

Contents == {Defaults[n].refs : n \in DOMAIN Defaults} \cup UNION {Bodies[u.kind] : u \in Urls}

ASSUME NoneAssumption == None \notin Contents
ASSUME ActorsAssumption == Procs \cap Servers = {} /\ Servers # {}

VARIABLES
  stored,    \* address -> the object's references, or None
  pc,        \* what a request does next
  url,       \* what it is about
  body,      \* the references of the object it saves
  checks,    \* what is still to be read before it saves
  phase,     \* what a server does
  starts,    \* how often servers started
  put,       \* how many of the defaults its bootstrap has put
  during,    \* history: what was removed since a request or a bootstrap began
  since,     \* history: which of an object's needs were removed since its save began
  cut        \* history: a bootstrap was cut short, or a default removed

request == <<pc, url, body, checks>>
boot == <<phase, starts, put, cut>>
vars == <<stored, request, boot, during, since>>

Serving == \E s \in Servers : phase[s] = "serving"

\* Mutant: bindings are saved without a look at what they refer to.
PreFlightShort(u, refs) == IF u.kind \in NamespaceLess THEN <<>> ELSE <<NamespaceOf(u)>>

\* What PreFlightCheck reads, in order: the namespace; of a binding, its subjects
\* and its target.  A Secret's account is not looked up.
PreFlight(u, refs) ==
  (IF u.kind \in NamespaceLess THEN <<>> ELSE <<NamespaceOf(u)>>)
    \o (IF u.kind \in Bindings THEN refs ELSE <<>>)

\* What an object is of use with: its namespace, and what a binding binds.
Needs(a, refs) ==
  (IF a.kind \in NamespaceLess THEN {} ELSE {NamespaceOf(a)})
    \cup (IF a.kind \in Bindings THEN {refs[n] : n \in DOMAIN refs} ELSE {})

\* The object is stored by actor x, whose "during" becomes the object's "since".
Store(x, a, refs) ==
  /\ stored' = [stored EXCEPT ![a] = refs]
  /\ since' = [since EXCEPT ![a] = during[x] \cap Needs(a, refs)]

\* The answer, whatever it is, ends the request.
Ended(p) ==
  /\ pc' = [pc EXCEPT ![p] = "idle"]
  /\ url' = [url EXCEPT ![p] = None] /\ body' = [body EXCEPT ![p] = <<>>]
  /\ checks' = [checks EXCEPT ![p] = <<>>]

Answer(p) == Ended(p) /\ during' = [during EXCEPT ![p] = {}]

Free(p) == pc[p] = "idle"

\* Requests and bootstraps that may yet store something.
Saving(x) == IF x \in Procs THEN pc[x] = "check" ELSE phase[x] = "boot"

-----------------------------------------------------------------------------
(***************************************************************************)
(* PUT and POST.                                                           *)
(***************************************************************************)
PutBegin(p, u, refs) ==
  /\ Free(p) /\ Serving
  /\ pc' = [pc EXCEPT ![p] = "check"]
  /\ url' = [url EXCEPT ![p] = u] /\ body' = [body EXCEPT ![p] = refs]
  /\ checks' = [checks EXCEPT ![p] = PreFlight(u, refs)]
  /\ during' = [during EXCEPT ![p] = {}]
  /\ UNCHANGED <<stored, boot, since>>

\* One Get of PreFlightCheck.
Check(p) ==
  /\ pc[p] = "check" /\ checks[p] # <<>>
  /\ IF stored[Head(checks[p])] = None THEN Answer(p)
     ELSE checks' = [checks EXCEPT ![p] = Tail(@)] /\ UNCHANGED <<pc, url, body, during>>
  /\ UNCHANGED <<stored, boot, since>>

Save(p) ==
  /\ pc[p] = "check" /\ checks[p] = <<>>
  /\ Store(p, Address(url[p]), body[p])
  /\ Answer(p)
  /\ UNCHANGED boot

-----------------------------------------------------------------------------
(***************************************************************************)
(* DELETE: a Get, whose object is then removed.                            *)
(***************************************************************************)
DeleteBegin(p, u) ==
  /\ Free(p) /\ Serving
  /\ pc' = [pc EXCEPT ![p] = "fetch"]
  /\ url' = [url EXCEPT ![p] = u]
  /\ UNCHANGED <<stored, body, checks, boot, during, since>>

Fetch(p) ==
  /\ pc[p] = "fetch"
  /\ IF stored[Looked(url[p])] = None THEN Answer(p)
     ELSE pc' = [pc EXCEPT ![p] = "remove"] /\ UNCHANGED <<url, body, checks, during>>
  /\ UNCHANGED <<stored, boot, since>>

\* What is already gone by now is removed again, without an error.
Remove(p) ==
  LET a == Looked(url[p]) IN
  /\ pc[p] = "remove"
  /\ stored' = [stored EXCEPT ![a] = None]
  /\ during' = [x \in DOMAIN during |-> IF Saving(x) THEN during[x] \cup {a} ELSE during[x]]
  /\ since' = [b \in Addresses |->
                 IF b = a THEN {}
                 ELSE since[b] \cup (IF stored[b] # None THEN {a} \cap Needs(b, stored[b]) ELSE {})]
  /\ cut' = (cut \/ \E n \in DOMAIN Defaults : Defaults[n].at = a)
  /\ Ended(p)
  /\ UNCHANGED <<phase, starts, put>>

\* The storage fails, or the server stops.
Abandon(p) ==
  /\ ~Free(p)
  /\ Answer(p)
  /\ UNCHANGED <<stored, boot, since>>

-----------------------------------------------------------------------------
(***************************************************************************)
(* The start of a server.  It serves once its bootstrap is over; a server  *)
(* that finds an account has nothing to put.                               *)
(***************************************************************************)
Start(s) ==
  /\ phase[s] = "down" /\ starts < MaxStarts
  /\ starts' = starts + 1
  /\ phase' = [phase EXCEPT ![s] = "list"]
  /\ UNCHANGED <<stored, request, put, cut, during, since>>

ListAccounts(s) ==
  /\ phase[s] = "list"
  /\ phase' = [phase EXCEPT ![s] =
       IF \E a \in Addresses : a.kind = "account" /\ stored[a] # None THEN "serving" ELSE "boot"]
  /\ put' = [put EXCEPT ![s] = 0]
  /\ during' = [during EXCEPT ![s] = {}]
  /\ UNCHANGED <<stored, request, starts, cut, since>>

\* Mutant: the last of the defaults is not put.
PutDefaultShort(s) ==
  LET n == put[s] + 1 IN
  /\ phase[s] = "boot" /\ n < Len(Defaults)
  /\ Store(s, Defaults[n].at, Defaults[n].refs)
  /\ put' = [put EXCEPT ![s] = n]
  /\ phase' = [phase EXCEPT ![s] = IF n = Len(Defaults) - 1 THEN "serving" ELSE "boot"]
  /\ during' = [during EXCEPT ![s] = IF phase'[s] = "serving" THEN {} ELSE @]
  /\ UNCHANGED <<request, starts, cut>>

PutDefault(s) ==
  LET n == put[s] + 1 IN
  /\ phase[s] = "boot"
  /\ Store(s, Defaults[n].at, Defaults[n].refs)
  /\ put' = [put EXCEPT ![s] = n]
  /\ phase' = [phase EXCEPT ![s] = IF n = Len(Defaults) THEN "serving" ELSE "boot"]
  /\ during' = [during EXCEPT ![s] = IF phase'[s] = "serving" THEN {} ELSE @]
  /\ UNCHANGED <<request, starts, cut>>

\* A server stops, or panics on an error of the storage.
Stop(s) ==
  /\ phase[s] # "down"
  /\ phase' = [phase EXCEPT ![s] = "down"]
  /\ put' = [put EXCEPT ![s] = 0]
  /\ cut' = (cut \/ phase[s] = "boot")
  /\ during' = [during EXCEPT ![s] = {}]
  /\ UNCHANGED <<stored, request, starts, since>>

Init ==
  /\ stored = [a \in Addresses |-> None]
  /\ pc = [p \in Procs |-> "idle"]
  /\ url = [p \in Procs |-> None] /\ body = [p \in Procs |-> <<>>]
  /\ checks = [p \in Procs |-> <<>>]
  /\ phase = [s \in Servers |-> "down"] /\ starts = 0
  /\ put = [s \in Servers |-> 0]
  /\ during = [x \in Procs \cup Servers |-> {}]
  /\ since = [a \in Addresses |-> {}]
  /\ cut = FALSE

Next ==
  \/ \E p \in Procs :
       \/ \E u \in Urls : \E refs \in Bodies[u.kind] : PutBegin(p, u, refs)
       \/ \E u \in Urls : DeleteBegin(p, u)
       \/ Check(p) \/ Save(p) \/ Fetch(p) \/ Remove(p) \/ Abandon(p)
  \/ \E s \in Servers : Start(s) \/ ListAccounts(s) \/ PutDefault(s) \/ Stop(s)

Spec == Init /\ [][Next]_vars

-----------------------------------------------------------------------------
(***************************************************************************)
(* Properties.                                                             *)
(***************************************************************************)

\* README.md: kinds without a namespace have it "forced to be empty".
TypeOK ==
  /\ stored \in [Addresses -> Contents \cup {None}]
  /\ \A a \in Addresses : a.kind \in NamespaceLess /\ stored[a] # None => a.namespace = ""
  /\ pc \in [Procs -> {"idle", "check", "fetch", "remove"}]
  /\ url \in [Procs -> Urls \cup {None}] /\ body \in [Procs -> Contents]
  /\ checks \in [Procs -> Seq(Addresses)]
  /\ \A p \in Procs : Free(p) \/ url[p] \in Urls
  /\ \A p \in Procs : pc[p] = "check" => body[p] \in Bodies[url[p].kind]
  /\ phase \in [Servers -> {"down", "list", "boot", "serving"}]
  /\ put \in [Servers -> 0..Len(Defaults)]
  /\ since \in [Addresses -> SUBSET Addresses]
  /\ during \in [Procs \cup Servers -> SUBSET Addresses] /\ cut \in BOOLEAN

\* An object lacks what it needs only if that was removed after the request that
\* saved the object began: the checks a PUT makes may be overtaken by a DELETE,
\* but no PUT stores a reference to what was not there when it asked.
LackingWasRemoved ==
  \A a \in Addresses : stored[a] # None =>
    \A r \in Needs(a, stored[a]) : stored[r] # None \/ r \in since[a]

\* Once no start is under way, the defaults are all there, if no start was ever cut
\* short and no request removed one: servers that start together do not leave one
\* another with half of them.
DefaultsStand ==
  /\ \A s \in Servers : phase[s] = "serving"
  /\ ~cut
  => \A n \in DOMAIN Defaults : stored[Defaults[n].at] # None

-----------------------------------------------------------------------------
\* The console says "is removed" of an object whose DELETE succeeded: what the
\* request named is no longer stored.
DeleteDeletes ==
  [][\A p \in Procs : Remove(p) => stored'[Address(url[p])] = None]_vars
===============================================================================
