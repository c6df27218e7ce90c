--------------------------- MODULE ControllersProofs ---------------------------
(***************************************************************************)
(* Proofs about Controllers, for any requests, servers, URLs and bodies.   *)
(***************************************************************************)
EXTENDS Controllers, TLAPS

USE DEF request, boot

-----------------------------------------------------------------------------
(***************************************************************************)
(* The defaults.                                                           *)
(***************************************************************************)

\* There are eight.
LEMMA DefaultsAreEight == Len(Defaults) = 8 /\ DOMAIN Defaults = 1..8
  BY DEF Defaults

\* Where each is put, and what the bindings bind.
LEMMA DefaultsAre ==
  /\ Defaults[1].at = Namespace
  /\ Defaults[2].at = Admin("account") /\ Defaults[3].at = Admin("group")
  /\ Defaults[4].at = Admin("role") /\ Defaults[5].at = Admin("policy")
  /\ Defaults[6].at = Ref("policybinding", "", "admin") /\ Defaults[7].at = Ref("groupbinding", "", "admin")
  /\ Defaults[8].at = Ref("secret", "", "admin")
  BY DEF Defaults

LEMMA DefaultsBind ==
  /\ Defaults[6].refs = <<Admin("group"), Admin("role"), Admin("policy")>>
  /\ Defaults[7].refs = <<Admin("account"), Admin("group")>>
  BY DEF Defaults

\* The kinds of the defaults, and their namespaces.
LEMMA DefaultsKinds ==
  /\ Defaults[1].at.kind = "namespace" /\ Defaults[1].at.namespace = ""
  /\ Defaults[2].at.kind = "account" /\ Defaults[2].at.namespace = "oiam.io"
  /\ Defaults[3].at.kind = "group" /\ Defaults[3].at.namespace = "oiam.io"
  /\ Defaults[4].at.kind = "role" /\ Defaults[4].at.namespace = "oiam.io"
  /\ Defaults[5].at.kind = "policy" /\ Defaults[5].at.namespace = "oiam.io"
  /\ Defaults[6].at.kind = "policybinding" /\ Defaults[6].at.namespace = ""
  /\ Defaults[7].at.kind = "groupbinding" /\ Defaults[7].at.namespace = ""
  /\ Defaults[8].at.kind = "secret" /\ Defaults[8].at.namespace = ""
  <1>1. Defaults[1].at.kind = "namespace" /\ Defaults[1].at.namespace = ""
    BY DEF Defaults, Namespace, Ref
  <1>2. Defaults[2].at.kind = "account" /\ Defaults[2].at.namespace = "oiam.io"
    BY DEF Defaults, Admin, Ref
  <1>3. Defaults[3].at.kind = "group" /\ Defaults[3].at.namespace = "oiam.io"
    BY DEF Defaults, Admin, Ref
  <1>4. Defaults[4].at.kind = "role" /\ Defaults[4].at.namespace = "oiam.io"
    BY DEF Defaults, Admin, Ref
  <1>5. Defaults[5].at.kind = "policy" /\ Defaults[5].at.namespace = "oiam.io"
    BY DEF Defaults, Admin, Ref
  <1>6. Defaults[6].at.kind = "policybinding" /\ Defaults[6].at.namespace = ""
    BY DEF Defaults, Ref
  <1>7. Defaults[7].at.kind = "groupbinding" /\ Defaults[7].at.namespace = ""
    BY DEF Defaults, Ref
  <1>8. Defaults[8].at.kind = "secret" /\ Defaults[8].at.namespace = ""
    BY DEF Defaults, Ref
  <1> QED BY <1>1, <1>2, <1>3, <1>4, <1>5, <1>6, <1>7, <1>8

\* Each is a content at an address, and has no namespace if its kind has none.
LEMMA DefaultsTyped ==
  ASSUME NEW n \in 1..8
  PROVE  /\ Defaults[n].at \in Addresses /\ Defaults[n].refs \in Contents
         /\ Defaults[n].at.kind \in NamespaceLess => Defaults[n].at.namespace = ""
  <1>1. Defaults[n].at \in Addresses /\ Defaults[n].refs \in Contents
    BY DefaultsAreEight DEF Addresses, Contents
  <1>2. n \in {1, 8} \/ n \in {2, 3, 4, 5} \/ n \in {6, 7}
    OBVIOUS
  <1>3. Defaults[n].at.kind \in NamespaceLess => Defaults[n].at.namespace = ""
    BY <1>2, DefaultsKinds DEF NamespaceLess
  <1> QED BY <1>1, <1>3

\* Each needs only those put before it.
LEMMA DefaultsOrdered ==
  ASSUME NEW n \in 1..8, NEW r \in Needs(Defaults[n].at, Defaults[n].refs)
  PROVE  \E m \in 1..(n - 1) : Defaults[m].at = r
  <1>1. CASE n \in {1, 8}
    <2>1. Defaults[n].at.kind \in NamespaceLess /\ Defaults[n].at.kind \notin Bindings
      BY <1>1, DefaultsKinds DEF NamespaceLess, Bindings
    <2> QED BY <2>1 DEF Needs
  <1>2. CASE n \in {2, 3, 4, 5}
    <2>1. /\ Defaults[n].at.namespace = "oiam.io" /\ Defaults[n].at.kind \notin Bindings
          /\ Defaults[n].at.kind \notin NamespaceLess
      BY <1>2, DefaultsKinds DEF NamespaceLess, Bindings
    <2>2. r = Ref("namespace", "", "oiam.io")
      BY <2>1 DEF Needs, NamespaceOf
    <2>3. Defaults[1].at = r
      BY <2>2, DefaultsAre DEF Namespace
    <2> QED BY <2>3, <1>2
  <1>3. CASE n \in {6, 7}
    <2>1. Defaults[n].at.kind \in NamespaceLess
      BY <1>3, DefaultsKinds DEF NamespaceLess, Bindings
    <2>2. r \in {Defaults[n].refs[i] : i \in DOMAIN Defaults[n].refs}
      BY <2>1 DEF Needs
    <2>3. CASE n = 6
      <3>1. r \in {Admin("group"), Admin("role"), Admin("policy")}
        BY <2>2, <2>3, DefaultsBind
      <3>2. 3 \in 1..(n - 1) /\ 4 \in 1..(n - 1) /\ 5 \in 1..(n - 1)
        BY <2>3
      <3> QED BY <3>1, <3>2, DefaultsAre
    <2>4. CASE n = 7
      <3>1. r \in {Admin("account"), Admin("group")}
        BY <2>2, <2>4, DefaultsBind
      <3>2. 2 \in 1..(n - 1) /\ 3 \in 1..(n - 1)
        BY <2>4
      <3> QED BY <3>1, <3>2, DefaultsAre
    <2> QED BY <1>3, <2>3, <2>4
  <1> QED BY <1>1, <1>2, <1>3

\* Nothing, which a request that saves nothing holds, is a content.
LEMMA NothingIsContent == <<>> \in Contents
  <1>1. Defaults[1].refs = <<>> /\ 1 \in DOMAIN Defaults
    BY DefaultsAreEight DEF Defaults
  <1> QED BY <1>1 DEF Contents

-----------------------------------------------------------------------------
(***************************************************************************)
(* Addresses.                                                              *)
(***************************************************************************)

\* Where a URL is stored: as a kind without namespaces has none.
LEMMA AddressTyped ==
  ASSUME NEW u \in Urls
  PROVE  /\ Address(u) \in Addresses /\ Looked(u) \in Addresses
         /\ Address(u).kind = u.kind
         /\ u.kind \in NamespaceLess => Address(u).namespace = ""
         /\ u.kind \notin NamespaceLess => Address(u) = u
  <1>1. Address(u) \in Addresses /\ Looked(u) \in Addresses
    BY DEF Addresses
  <1>2. u = [kind |-> u.kind, namespace |-> u.namespace, name |-> u.name]
    BY UrlsAssumption DEF Ref
  <1>3. u.kind \in NamespaceLess => Address(u) = [kind |-> u.kind, namespace |-> "", name |-> u.name]
    BY <1>2 DEF Address
  <1> QED BY <1>1, <1>3 DEF Address

\* The namespace, where nothing else is read.
LEMMA OneAlone ==
  ASSUME NEW r
  PROVE  \E n \in DOMAIN (<<r>> \o <<>>) : (<<r>> \o <<>>)[n] = r
  <1>1. <<r>> \in Seq({r}) /\ <<>> \in Seq({r})
    OBVIOUS
  <1>2. Len(<<r>>) = 1 /\ Len(<<>>) = 0
    OBVIOUS
  <1>3. Len(<<r>> \o <<>>) = 1 /\ (<<r>> \o <<>>)[1] = <<r>>[1]
    BY <1>1, <1>2
  <1>4. <<r>> \o <<>> \in Seq({r})
    BY <1>1
  <1>5. DOMAIN (<<r>> \o <<>>) = 1..1 /\ <<r>>[1] = r
    BY <1>3, <1>4
  <1> QED BY <1>3, <1>5

\* What PreFlightCheck reads are addresses, and it reads all the object needs.
LEMMA PreFlightReads ==
  ASSUME NEW u \in Urls, NEW refs \in Bodies[u.kind]
  PROVE  /\ PreFlight(u, refs) \in Seq(Addresses)
         /\ \A r \in Needs(Address(u), refs) :
              \E n \in DOMAIN PreFlight(u, refs) : PreFlight(u, refs)[n] = r
  <1> PICK first : first = IF u.kind \in NamespaceLess THEN <<>> ELSE <<NamespaceOf(u)>>
    OBVIOUS
  <1> PICK rest : rest = IF u.kind \in Bindings THEN refs ELSE <<>>
    OBVIOUS
  <1>1. first \in Seq(Addresses) /\ rest \in Seq(Addresses)
    BY UrlsAssumption
  <1>2. PreFlight(u, refs) = first \o rest
    BY DEF PreFlight
  <1>3. PreFlight(u, refs) \in Seq(Addresses)
    BY <1>1, <1>2
  <1>4. ASSUME NEW r \in Needs(Address(u), refs)
        PROVE  \E n \in DOMAIN PreFlight(u, refs) : PreFlight(u, refs)[n] = r
    <2>1. CASE u.kind \notin NamespaceLess
      <3>1. u.kind \notin Bindings /\ r = NamespaceOf(u)
        BY <2>1, AddressTyped DEF Needs, Bindings, NamespaceLess
      <3>2. first = <<r>>
        BY <2>1, <3>1
      <3>3. PreFlight(u, refs) = <<r>> \o <<>>
        BY <1>2, <3>1, <3>2
      <3> QED BY <3>3, OneAlone
    <2>2. CASE u.kind \in NamespaceLess
      <3>1. u.kind \in Bindings /\ \E n \in DOMAIN refs : refs[n] = r
        BY <2>2, AddressTyped DEF Needs
      <3>2. first \o rest = rest /\ rest = refs
        BY <2>2, <3>1, <1>1
      <3> QED BY <1>2, <3>1, <3>2
    <2> QED BY <2>1, <2>2
  <1> QED BY <1>3, <1>4

\* What the object of a request needs are addresses.
LEMMA NeedsTyped ==
  ASSUME NEW u \in Urls, NEW refs \in Bodies[u.kind]
  PROVE  Needs(Address(u), refs) \subseteq Addresses
  <1> SUFFICES ASSUME NEW r \in Needs(Address(u), refs) PROVE r \in Addresses
    OBVIOUS
  <1> PICK read : read = PreFlight(u, refs)
    OBVIOUS
  <1>1. read \in Seq(Addresses) /\ \E n \in DOMAIN read : read[n] = r
    BY PreFlightReads
  <1> QED BY <1>1

-----------------------------------------------------------------------------
(***************************************************************************)
(* Type correctness.                                                       *)
(***************************************************************************)

\* A bootstrap that is under way has a default left to put.
BootCounts == \A s \in Servers : phase[s] = "boot" => put[s] \in 0..7

\* Every variable has its type in the initial states.
LEMMA InitTypeOK == Init => TypeOK
  <1> SUFFICES ASSUME Init PROVE TypeOK
    OBVIOUS
  <1>1. <<>> \in Seq(Addresses) /\ 0 \in 0..Len(Defaults)
    BY DefaultsAreEight
  <1>2. stored \in [Addresses -> Contents \cup {None}] /\ \A a \in Addresses : stored[a] = None
    BY DEF Init
  <1>3. /\ pc \in [Procs -> {"idle", "check", "fetch", "remove"}] /\ \A p \in Procs : pc[p] = "idle"
        /\ url \in [Procs -> Urls \cup {None}]
    BY DEF Init
  <1>4. body \in [Procs -> Contents] /\ checks \in [Procs -> Seq(Addresses)]
    BY <1>1, NothingIsContent DEF Init
  <1>5. /\ phase \in [Servers -> {"down", "list", "boot", "serving"}]
        /\ since \in [Addresses -> SUBSET Addresses]
        /\ during \in [Procs \cup Servers -> SUBSET Addresses] /\ cut \in BOOLEAN
    BY DEF Init
  <1>6. put \in [Servers -> 0..Len(Defaults)]
    BY <1>1 DEF Init
  <1>7. \A p \in Procs : Free(p) /\ pc[p] # "check"
    BY <1>3 DEF Free
  <1> QED BY <1>2, <1>3, <1>4, <1>5, <1>6, <1>7 DEF TypeOK

\* A request that ends keeps the types.
LEMMA EndTypes ==
  ASSUME TypeOK, NEW p \in Procs, Ended(p)
  PROVE  /\ pc' \in [Procs -> {"idle", "check", "fetch", "remove"}]
         /\ url' \in [Procs -> Urls \cup {None}] /\ body' \in [Procs -> Contents]
         /\ checks' \in [Procs -> Seq(Addresses)]
         /\ \A q \in Procs : pc'[q] = "idle" \/ url'[q] \in Urls
         /\ \A q \in Procs : pc'[q] = "check" => body'[q] \in Bodies[url'[q].kind]
  <1>1. pc' = [pc EXCEPT ![p] = "idle"] /\ pc \in [Procs -> {"idle", "check", "fetch", "remove"}]
    BY DEF Ended, TypeOK
  <1>2. url' = [url EXCEPT ![p] = None] /\ url \in [Procs -> Urls \cup {None}]
    BY DEF Ended, TypeOK
  <1>3. body' = [body EXCEPT ![p] = <<>>] /\ body \in [Procs -> Contents]
    BY DEF Ended, TypeOK
  <1>4. checks' = [checks EXCEPT ![p] = <<>>] /\ checks \in [Procs -> Seq(Addresses)]
    BY DEF Ended, TypeOK
  <1>5. body' \in [Procs -> Contents]
    BY <1>3, NothingIsContent
  <1>6. checks' \in [Procs -> Seq(Addresses)]
    <2>1. <<>> \in Seq(Addresses)
      OBVIOUS
    <2> QED BY <1>4, <2>1
  <1>7. /\ \A q \in Procs : pc[q] = "idle" \/ url[q] \in Urls
        /\ \A q \in Procs : pc[q] = "check" => body[q] \in Bodies[url[q].kind]
    BY DEF TypeOK, Free
  <1>8. pc'[p] = "idle" /\ \A q \in Procs \ {p} : pc'[q] = pc[q] /\ url'[q] = url[q] /\ body'[q] = body[q]
    BY <1>1, <1>2, <1>3
  <1>9. /\ \A q \in Procs : pc'[q] = "idle" \/ url'[q] \in Urls
        /\ \A q \in Procs : pc'[q] = "check" => body'[q] \in Bodies[url'[q].kind]
    BY <1>7, <1>8
  <1>10. pc' \in [Procs -> {"idle", "check", "fetch", "remove"}] /\ url' \in [Procs -> Urls \cup {None}]
    BY <1>1, <1>2
  <1> QED BY <1>5, <1>6, <1>9, <1>10

\* So does one that stores an object.
LEMMA StoreTypes ==
  ASSUME TypeOK, NEW x \in Procs \cup Servers, NEW a \in Addresses, NEW refs \in Contents, Store(x, a, refs),
         a.kind \in NamespaceLess => a.namespace = ""
  PROVE  /\ stored' \in [Addresses -> Contents \cup {None}]
         /\ \A b \in Addresses : b.kind \in NamespaceLess /\ stored'[b] # None => b.namespace = ""
         /\ since' \in [Addresses -> SUBSET Addresses]
  <1>1. stored' = [stored EXCEPT ![a] = refs] /\ since' = [since EXCEPT ![a] = during[x] \cap Needs(a, refs)]
    BY DEF Store
  <1>2. during[x] \subseteq Addresses
    BY DEF TypeOK
  <1> QED BY <1>1, <1>2 DEF TypeOK

\* A step of a request keeps the types.
LEMMA RequestTypeOK ==
  ASSUME TypeOK, NEW p \in Procs,
         \/ \E u \in Urls : \E refs \in Bodies[u.kind] : PutBegin(p, u, refs)
         \/ \E u \in Urls : DeleteBegin(p, u)
         \/ Check(p) \/ Save(p) \/ Fetch(p) \/ Remove(p) \/ Abandon(p)
  PROVE  TypeOK'
  <1>1. ASSUME NEW u \in Urls, NEW refs \in Bodies[u.kind], PutBegin(p, u, refs) PROVE TypeOK'
    <2>1. refs \in Contents /\ PreFlight(u, refs) \in Seq(Addresses)
      BY PreFlightReads DEF Contents
    <2> QED BY <1>1, <2>1 DEF PutBegin, TypeOK, Free
  <1>2. ASSUME NEW u \in Urls, DeleteBegin(p, u) PROVE TypeOK'
    BY <1>2 DEF DeleteBegin, TypeOK, Free
  <1>3. CASE Check(p)
    <2>1. CASE stored[Head(checks[p])] = None
      BY <1>3, <2>1, EndTypes DEF Check, Answer, TypeOK, Free
    <2>2. CASE stored[Head(checks[p])] # None
      <3>1. checks[p] \in Seq(Addresses) /\ checks[p] # <<>>
        BY <1>3 DEF Check, TypeOK
      <3>2. Tail(checks[p]) \in Seq(Addresses)
        BY <3>1
      <3> QED BY <1>3, <2>2, <3>2 DEF Check, TypeOK, Free
    <2> QED BY <2>1, <2>2
  <1>4. CASE Save(p)
    <2>1. url[p] \in Urls /\ body[p] \in Contents /\ Store(p, Address(url[p]), body[p]) /\ Answer(p)
      BY <1>4 DEF Save, TypeOK, Free
    <2>2. /\ Address(url[p]) \in Addresses
          /\ Address(url[p]).kind \in NamespaceLess => Address(url[p]).namespace = ""
      BY <2>1, AddressTyped
    <2> PICK a \in Addresses : a = Address(url[p]) /\ (a.kind \in NamespaceLess => a.namespace = "")
      BY <2>2
    <2>3. /\ stored' \in [Addresses -> Contents \cup {None}]
          /\ \A b \in Addresses : b.kind \in NamespaceLess /\ stored'[b] # None => b.namespace = ""
          /\ since' \in [Addresses -> SUBSET Addresses]
      BY <2>1, StoreTypes
    <2>4. UNCHANGED <<phase, put, cut>> /\ during' = [during EXCEPT ![p] = {}]
      BY <1>4 DEF Save, Answer
    <2> QED BY <2>1, <2>3, <2>4, EndTypes DEF Answer, TypeOK, Free
  <1>5. CASE Fetch(p)
    <2>1. CASE stored[Looked(url[p])] = None
      BY <1>5, <2>1, EndTypes DEF Fetch, Answer, TypeOK, Free
    <2>2. CASE stored[Looked(url[p])] # None
      BY <1>5, <2>2 DEF Fetch, TypeOK, Free
    <2> QED BY <2>1, <2>2
  <1>6. CASE Remove(p)
    <2>1. url[p] \in Urls
      BY <1>6 DEF Remove, TypeOK, Free
    <2>2. Looked(url[p]) \in Addresses
      BY <2>1, AddressTyped
    <2> PICK a \in Addresses : a = Looked(url[p])
      BY <2>2
    <2>3. stored' = [stored EXCEPT ![a] = None] /\ Ended(p) /\ UNCHANGED <<phase, put>>
      BY <1>6 DEF Remove
    <2>4. during' \in [Procs \cup Servers -> SUBSET Addresses] /\ cut' \in BOOLEAN
      BY <1>6 DEF Remove, TypeOK
    <2>5. since' \in [Addresses -> SUBSET Addresses]
      BY <1>6 DEF Remove, TypeOK
    <2> QED BY <2>3, <2>4, <2>5, EndTypes DEF TypeOK, Free
  <1>7. CASE Abandon(p)
    BY <1>7, EndTypes DEF Abandon, Answer, TypeOK, Free
  <1> QED BY <1>1, <1>2, <1>3, <1>4, <1>5, <1>6, <1>7

\* A step of a server keeps the types.
LEMMA ServerTypeOK ==
  ASSUME TypeOK, NEW s \in Servers, Start(s) \/ ListAccounts(s) \/ PutDefault(s) \/ Stop(s), BootCounts
  PROVE  TypeOK'
  <1>1. CASE Start(s)
    BY <1>1 DEF Start, TypeOK, Free
  <1>2. CASE ListAccounts(s)
    <2>1. 0 \in 0..Len(Defaults)
      BY DefaultsAreEight
    <2>2. put' \in [Servers -> 0..Len(Defaults)]
      BY <1>2, <2>1 DEF ListAccounts, TypeOK
    <2>3. /\ phase' \in [Servers -> {"down", "list", "boot", "serving"}]
          /\ during' \in [Procs \cup Servers -> SUBSET Addresses]
          /\ UNCHANGED <<stored, pc, url, body, checks, cut, since>>
      BY <1>2 DEF ListAccounts, TypeOK
    <2> QED BY <2>2, <2>3 DEF TypeOK, Free
  <1>3. CASE PutDefault(s)
    <2>1. put[s] + 1 \in 1..8
      BY <1>3 DEF PutDefault, BootCounts
    <2> PICK n \in 1..8 : n = put[s] + 1
      BY <2>1
    <2>2. Store(s, Defaults[n].at, Defaults[n].refs) /\ put' = [put EXCEPT ![s] = n]
      BY <1>3 DEF PutDefault
    <2>3. /\ stored' \in [Addresses -> Contents \cup {None}]
          /\ \A b \in Addresses : b.kind \in NamespaceLess /\ stored'[b] # None => b.namespace = ""
          /\ since' \in [Addresses -> SUBSET Addresses]
      BY <2>2, DefaultsTyped, StoreTypes
    <2>4. put' \in [Servers -> 0..Len(Defaults)]
      <3>1. n \in 0..Len(Defaults)
        BY DefaultsAreEight
      <3> QED BY <2>2, <3>1 DEF TypeOK
    <2>5. /\ phase' \in [Servers -> {"down", "list", "boot", "serving"}]
          /\ during' \in [Procs \cup Servers -> SUBSET Addresses]
          /\ UNCHANGED <<pc, url, body, checks, cut>>
      BY <1>3 DEF PutDefault, TypeOK
    <2> QED BY <2>3, <2>4, <2>5 DEF TypeOK, Free
  <1>4. CASE Stop(s)
    <2>1. 0 \in 0..Len(Defaults)
      BY DefaultsAreEight
    <2>2. put' \in [Servers -> 0..Len(Defaults)]
      BY <1>4, <2>1 DEF Stop, TypeOK
    <2>3. /\ phase' \in [Servers -> {"down", "list", "boot", "serving"}]
          /\ during' \in [Procs \cup Servers -> SUBSET Addresses] /\ cut' \in BOOLEAN
          /\ UNCHANGED <<stored, pc, url, body, checks, since>>
      BY <1>4 DEF Stop, TypeOK
    <2> QED BY <2>2, <2>3 DEF TypeOK, Free
  <1> QED BY <1>1, <1>2, <1>3, <1>4
-----------------------------------------------------------------------------
(***************************************************************************)
(* The inductive invariant.  What a save needs is, from the step that read *)
(* it on, stored or removed "during" the save; when the object is stored   *)
(* "since" takes over.                                                     *)
(***************************************************************************)

\* Of what a request's object needs, what is not to be read any more was there.
SavingAt(p) ==
  pc[p] = "check" =>
    \A r \in Needs(Address(url[p]), body[p]) :
      \/ \E n \in DOMAIN checks[p] : checks[p][n] = r
      \/ stored[r] # None \/ r \in during[p]

\* A bootstrap has put what comes before the next default.
BootAt(s) ==
  phase[s] = "boot" =>
    /\ put[s] \in 0..7
    /\ \A m \in 1..put[s] : stored[Defaults[m].at] # None \/ Defaults[m].at \in during[s]

\* What is stored needs objects that may be stored.
SavedHolds == \A a \in Addresses : stored[a] # None => Needs(a, stored[a]) \subseteq Addresses

\* What a bootstrap has put is there, and before anybody sees an account a bootstrap
\* is under way or over.
AllStored == \A m \in 1..8 : stored[Defaults[m].at] # None
Booting == \E s \in Servers : phase[s] = "boot"
Seen ==
  \/ Serving
  \/ \E a \in Addresses : a.kind = "account" /\ stored[a] # None
  \/ \E p \in Procs : pc[p] # "idle"
PutStays == \A s \in Servers : phase[s] = "boot" => \A m \in 1..put[s] : stored[Defaults[m].at] # None
DefaultsHold == ~cut => PutStays /\ (Seen => Booting \/ AllStored)

SavesHold == (\A p \in Procs : SavingAt(p)) /\ \A s \in Servers : BootAt(s)

IInv == TypeOK /\ SavesHold /\ SavedHolds /\ LackingWasRemoved /\ DefaultsHold

\* The invariant holds initially.
LEMMA InitIInv == Init => IInv
  <1> SUFFICES ASSUME Init PROVE IInv
    OBVIOUS
  <1>1. TypeOK
    BY InitTypeOK
  <1>2. \A a \in Addresses : stored[a] = None
    BY DEF Init
  <1>3. (\A p \in Procs : pc[p] = "idle") /\ \A s \in Servers : phase[s] = "down"
    BY DEF Init
  <1>4. SavesHold
    BY <1>3 DEF SavesHold, SavingAt, BootAt
  <1>5. SavedHolds /\ LackingWasRemoved
    BY <1>2 DEF SavedHolds, LackingWasRemoved
  <1>6. DefaultsHold
    BY <1>2, <1>3 DEF DefaultsHold, PutStays, Seen, Serving
  <1> QED BY <1>1, <1>4, <1>5, <1>6 DEF IInv

-----------------------------------------------------------------------------
(***************************************************************************)
(* What a step leaves as it was.                                           *)
(***************************************************************************)

\* A step removes nothing.
Grown == \A r \in Addresses : stored[r] # None => stored'[r] # None

\* A request that the step is not of, nor removes anything from under.
LEMMA SavingKept ==
  ASSUME TypeOK, NEW p \in Procs, SavingAt(p), Grown,
         pc'[p] = pc[p], url'[p] = url[p], body'[p] = body[p], checks'[p] = checks[p], during'[p] = during[p]
  PROVE  SavingAt(p)'
  <1> SUFFICES ASSUME pc'[p] = "check", NEW r \in Needs(Address(url'[p]), body'[p])
               PROVE  \/ \E n \in DOMAIN checks'[p] : checks'[p][n] = r
                      \/ stored'[r] # None \/ r \in during'[p]
    BY DEF SavingAt, Needs, Address, NamespaceOf, Ref
  <1>1. pc[p] = "check" /\ r \in Needs(Address(url[p]), body[p])
    OBVIOUS
  <1>2. url[p] \in Urls /\ body[p] \in Bodies[url[p].kind]
    BY <1>1 DEF TypeOK, Free
  <1>3. r \in Addresses
    BY <1>1, <1>2, NeedsTyped
  <1>4. \/ \E n \in DOMAIN checks[p] : checks[p][n] = r
        \/ stored[r] # None \/ r \in during[p]
    BY <1>1 DEF SavingAt
  <1> QED BY <1>3, <1>4 DEF Grown

\* A bootstrap, likewise.
LEMMA BootKept ==
  ASSUME TypeOK, NEW s \in Servers, BootAt(s), Grown,
         phase'[s] = phase[s], put'[s] = put[s], during'[s] = during[s]
  PROVE  BootAt(s)'
  <1> SUFFICES ASSUME phase'[s] = "boot"
               PROVE  /\ put'[s] \in 0..7
                      /\ \A m \in 1..put'[s] : stored'[Defaults[m].at] # None \/ Defaults[m].at \in during'[s]
    BY DEF BootAt
  <1>1. put[s] \in 0..7 /\ \A m \in 1..put[s] : stored[Defaults[m].at] # None \/ Defaults[m].at \in during[s]
    BY DEF BootAt
  <1>2. \A m \in 1..put[s] : m \in 1..8
    BY <1>1
  <1>3. \A m \in 1..put[s] : Defaults[m].at \in Addresses
    BY <1>2, DefaultsTyped
  <1> QED BY <1>1, <1>3 DEF Grown

\* What is stored stays as it is, and so does what it lacks.
LEMMA StoredKept ==
  ASSUME SavedHolds, LackingWasRemoved, UNCHANGED <<stored, since>>
  PROVE  SavedHolds' /\ LackingWasRemoved' /\ Grown
  BY DEF SavedHolds, LackingWasRemoved, Grown, Needs, NamespaceOf, Ref

\* All the saves but that of x, when only x changes and nothing is removed.
LEMMA SavesKept ==
  ASSUME TypeOK, SavesHold, NEW x \in Procs \cup Servers, Grown,
         \A p \in Procs \ {x} : /\ pc'[p] = pc[p] /\ url'[p] = url[p] /\ body'[p] = body[p]
                                /\ checks'[p] = checks[p] /\ during'[p] = during[p],
         \A s \in Servers \ {x} : phase'[s] = phase[s] /\ put'[s] = put[s] /\ during'[s] = during[s],
         x \in Procs => SavingAt(x)', x \in Servers => BootAt(x)'
  PROVE  SavesHold'
  <1>1. ASSUME NEW p \in Procs PROVE SavingAt(p)'
    <2>1. CASE p = x
      BY <2>1
    <2>2. CASE p # x
      BY <2>2, SavingKept DEF SavesHold
    <2> QED BY <2>1, <2>2
  <1>2. ASSUME NEW s \in Servers PROVE BootAt(s)'
    <2>1. CASE s = x
      BY <2>1
    <2>2. CASE s # x
      BY <2>2, BootKept DEF SavesHold
    <2> QED BY <2>1, <2>2
  <1> QED BY <1>1, <1>2 DEF SavesHold

\* A request of which nothing is to be saved any more.
LEMMA SavingOver ==
  ASSUME NEW p, pc'[p] # "check"
  PROVE  SavingAt(p)'
  BY DEF SavingAt

\* What is stored is stored with what it needs, or without what was removed meanwhile.
LEMMA StoredAnew ==
  ASSUME TypeOK, SavedHolds, LackingWasRemoved,
         NEW x \in Procs \cup Servers, NEW a \in Addresses, NEW refs \in Contents, Store(x, a, refs),
         Needs(a, refs) \subseteq Addresses,
         \A r \in Needs(a, refs) : stored[r] # None \/ r \in during[x]
  PROVE  SavedHolds' /\ LackingWasRemoved' /\ Grown
  <1>1. stored' = [stored EXCEPT ![a] = refs] /\ since' = [since EXCEPT ![a] = during[x] \cap Needs(a, refs)]
    BY DEF Store
  <1>2. DOMAIN stored = Addresses /\ DOMAIN since = Addresses /\ refs # None
    BY NoneAssumption DEF TypeOK
  <1>3. stored'[a] = refs /\ since'[a] = during[x] \cap Needs(a, refs)
    BY <1>1, <1>2
  <1>4. \A b \in Addresses \ {a} : stored'[b] = stored[b] /\ since'[b] = since[b]
    BY <1>1, <1>2
  <1>5. Grown
    BY <1>2, <1>3, <1>4 DEF Grown
  <1>6. SavedHolds'
    <2> SUFFICES ASSUME NEW b \in Addresses, stored'[b] # None PROVE Needs(b, stored'[b]) \subseteq Addresses
      BY DEF SavedHolds, Needs, NamespaceOf, Ref
    <2>1. CASE b = a
      BY <2>1, <1>3
    <2>2. CASE b # a
      BY <2>2, <1>4 DEF SavedHolds
    <2> QED BY <2>1, <2>2
  <1>7. LackingWasRemoved'
    <2> SUFFICES ASSUME NEW b \in Addresses, stored'[b] # None, NEW r \in Needs(b, stored'[b])
                 PROVE  stored'[r] # None \/ r \in since'[b]
      BY DEF LackingWasRemoved, Needs, NamespaceOf, Ref
    <2>1. CASE b = a
      <3>1. r \in Needs(a, refs)
        BY <2>1, <1>3
      <3>2. r \in Addresses
        BY <3>1
      <3>3. stored[r] # None \/ r \in during[x]
        BY <3>1
      <3> QED BY <3>1, <3>2, <3>3, <2>1, <1>3, <1>5 DEF Grown
    <2>2. CASE b # a
      <3>1. r \in Needs(b, stored[b]) /\ stored[b] # None
        BY <2>2, <1>4
      <3>2. r \in Addresses
        BY <3>1 DEF SavedHolds
      <3>3. stored[r] # None \/ r \in since[b]
        BY <3>1 DEF LackingWasRemoved
      <3> QED BY <3>2, <3>3, <2>2, <1>4, <1>5 DEF Grown
    <2> QED BY <2>1, <2>2
  <1> QED BY <1>5, <1>6, <1>7

-----------------------------------------------------------------------------
(***************************************************************************)
(* The steps of a request.                                                 *)
(***************************************************************************)

\* What an ending request does to the saves.
LEMMA EndSaves ==
  ASSUME IInv, NEW p \in Procs, Answer(p), UNCHANGED <<stored, boot, since>>
  PROVE  SavesHold' /\ SavedHolds' /\ LackingWasRemoved'
  <1>1. SavedHolds' /\ LackingWasRemoved' /\ Grown
    BY StoredKept DEF IInv
  <1>2. pc'[p] # "check"
    BY DEF IInv, TypeOK, Answer, Ended
  <1>3. SavingAt(p)'
    BY <1>2, SavingOver
  <1>4. \A q \in Procs \ {p} : /\ pc'[q] = pc[q] /\ url'[q] = url[q] /\ body'[q] = body[q]
                               /\ checks'[q] = checks[q] /\ during'[q] = during[q]
    BY DEF IInv, TypeOK, Answer, Ended
  <1>5. \A s \in Servers \ {p} : phase'[s] = phase[s] /\ put'[s] = put[s] /\ during'[s] = during[s]
    BY DEF IInv, TypeOK, Answer
  <1>6. p \notin Servers /\ TypeOK /\ SavesHold
    BY ActorsAssumption DEF IInv
  <1> QED BY <1>1, <1>3, <1>4, <1>5, <1>6, SavesKept

\* A PUT begins with all that its object needs to be read.
LEMMA PutBeginSaves ==
  ASSUME IInv, NEW p \in Procs, NEW u \in Urls, NEW refs \in Bodies[u.kind], PutBegin(p, u, refs)
  PROVE  SavesHold' /\ SavedHolds' /\ LackingWasRemoved'
  <1>1. SavedHolds' /\ LackingWasRemoved' /\ Grown
    BY StoredKept DEF IInv, PutBegin
  <1>2. url'[p] = u /\ body'[p] = refs /\ checks'[p] = PreFlight(u, refs)
    BY DEF IInv, TypeOK, PutBegin
  <1>3. SavingAt(p)'
    <2> SUFFICES ASSUME NEW r \in Needs(Address(url'[p]), body'[p])
                 PROVE  \E n \in DOMAIN checks'[p] : checks'[p][n] = r
      BY DEF SavingAt, Needs, Address, NamespaceOf, Ref
    <2> QED BY <1>2, PreFlightReads
  <1>4. \A q \in Procs \ {p} : /\ pc'[q] = pc[q] /\ url'[q] = url[q] /\ body'[q] = body[q]
                               /\ checks'[q] = checks[q] /\ during'[q] = during[q]
    BY DEF IInv, TypeOK, PutBegin
  <1>5. \A s \in Servers \ {p} : phase'[s] = phase[s] /\ put'[s] = put[s] /\ during'[s] = during[s]
    BY DEF IInv, TypeOK, PutBegin
  <1>6. p \notin Servers /\ TypeOK /\ SavesHold
    BY ActorsAssumption DEF IInv
  <1> QED BY <1>1, <1>3, <1>4, <1>5, <1>6, SavesKept

\* What was read was there.
LEMMA CheckSaves ==
  ASSUME IInv, NEW p \in Procs, Check(p)
  PROVE  SavesHold' /\ SavedHolds' /\ LackingWasRemoved'
  <1>1. CASE stored[Head(checks[p])] = None
    BY <1>1, EndSaves DEF Check
  <1>2. CASE stored[Head(checks[p])] # None
    <2>1. /\ pc[p] = "check" /\ checks[p] # <<>> /\ checks' = [checks EXCEPT ![p] = Tail(checks[p])]
          /\ UNCHANGED <<stored, boot, since, pc, url, body, during>>
      BY <1>2 DEF Check
    <2>2. SavedHolds' /\ LackingWasRemoved' /\ Grown
      BY <2>1, StoredKept DEF IInv
    <2> PICK c : c = checks[p]
      OBVIOUS
    <2>3. c \in Seq(Addresses) /\ c # <<>> /\ checks'[p] = Tail(c)
      BY <2>1 DEF IInv, TypeOK
    <2>4. \A n \in DOMAIN c : c[n] = Head(c) \/ \E m \in DOMAIN Tail(c) : Tail(c)[m] = c[n]
      <3> SUFFICES ASSUME NEW n \in DOMAIN c, n # 1 PROVE \E m \in DOMAIN Tail(c) : Tail(c)[m] = c[n]
        BY <2>3
      <3>1. n - 1 \in DOMAIN Tail(c) /\ Tail(c)[n - 1] = c[n]
        BY <2>3
      <3> QED BY <3>1
    <2>5. SavingAt(p)'
      <3> SUFFICES ASSUME NEW r \in Needs(Address(url'[p]), body'[p])
                   PROVE  \/ \E n \in DOMAIN checks'[p] : checks'[p][n] = r
                          \/ stored'[r] # None \/ r \in during'[p]
        BY DEF SavingAt, Needs, Address, NamespaceOf, Ref
      <3>1. r \in Needs(Address(url[p]), body[p])
        BY <2>1
      <3>2. (\E n \in DOMAIN c : c[n] = r) \/ stored[r] # None \/ r \in during[p]
        BY <2>1, <3>1 DEF IInv, SavesHold, SavingAt
      <3>3. \/ \E n \in DOMAIN checks'[p] : checks'[p][n] = r
            \/ stored[r] # None \/ r \in during[p]
        BY <3>2, <2>3, <2>4, <1>2
      <3> QED BY <3>3, <2>1
    <2>6. \A q \in Procs \ {p} : /\ pc'[q] = pc[q] /\ url'[q] = url[q] /\ body'[q] = body[q]
                                 /\ checks'[q] = checks[q] /\ during'[q] = during[q]
      BY <2>1 DEF IInv, TypeOK
    <2>7. \A s \in Servers \ {p} : phase'[s] = phase[s] /\ put'[s] = put[s] /\ during'[s] = during[s]
      BY <2>1
    <2>8. p \notin Servers /\ TypeOK /\ SavesHold
      BY ActorsAssumption DEF IInv
    <2> QED BY <2>2, <2>5, <2>6, <2>7, <2>8, SavesKept
  <1> QED BY <1>1, <1>2

\* An object is stored when all it needs was read.
LEMMA SaveSaves ==
  ASSUME IInv, NEW p \in Procs, Save(p)
  PROVE  SavesHold' /\ SavedHolds' /\ LackingWasRemoved' /\ Grown
  <1>1. pc[p] = "check" /\ checks[p] = <<>> /\ TypeOK /\ SavedHolds /\ LackingWasRemoved
    BY DEF Save, IInv
  <1>2. url[p] \in Urls /\ body[p] \in Contents /\ body[p] \in Bodies[url[p].kind]
    BY <1>1 DEF TypeOK, Free
  <1>3. Store(p, Address(url[p]), body[p]) /\ Answer(p) /\ UNCHANGED boot
    BY DEF Save
  <1>4. Address(url[p]) \in Addresses /\ Needs(Address(url[p]), body[p]) \subseteq Addresses
    BY <1>2, AddressTyped, NeedsTyped
  <1>5. \A r \in Needs(Address(url[p]), body[p]) : stored[r] # None \/ r \in during[p]
    <2>1. DOMAIN checks[p] = {}
      BY <1>1
    <2> QED BY <1>1, <2>1 DEF IInv, SavesHold, SavingAt
  <1>6. SavedHolds' /\ LackingWasRemoved' /\ Grown
    BY <1>1, <1>2, <1>3, <1>4, <1>5, StoredAnew
  <1>7. pc'[p] # "check"
    BY <1>1, <1>3 DEF TypeOK, Answer, Ended
  <1>8. SavingAt(p)'
    BY <1>7, SavingOver
  <1>9. \A q \in Procs \ {p} : /\ pc'[q] = pc[q] /\ url'[q] = url[q] /\ body'[q] = body[q]
                               /\ checks'[q] = checks[q] /\ during'[q] = during[q]
    BY <1>1, <1>3 DEF TypeOK, Answer, Ended
  <1>10. \A s \in Servers \ {p} : phase'[s] = phase[s] /\ put'[s] = put[s] /\ during'[s] = during[s]
    BY <1>1, <1>3 DEF TypeOK, Answer
  <1>11. p \notin Servers /\ SavesHold
    BY ActorsAssumption DEF IInv
  <1> QED BY <1>1, <1>6, <1>8, <1>9, <1>10, <1>11, SavesKept

\* What is removed is removed during every save, and since every object that needs it.
LEMMA RemoveSaves ==
  ASSUME IInv, NEW p \in Procs, Remove(p)
  PROVE  SavesHold' /\ SavedHolds' /\ LackingWasRemoved'
  <1> PICK a : a = Looked(url[p])
    OBVIOUS
  <1>1. /\ stored' = [stored EXCEPT ![a] = None] /\ Ended(p) /\ UNCHANGED <<phase, put>>
        /\ during' = [x \in DOMAIN during |-> IF Saving(x) THEN during[x] \cup {a} ELSE during[x]]
        /\ since' = [b \in Addresses |->
                       IF b = a THEN {}
                       ELSE since[b] \cup (IF stored[b] # None THEN {a} \cap Needs(b, stored[b]) ELSE {})]
    BY DEF Remove
  <1>2. TypeOK /\ SavesHold /\ SavedHolds /\ LackingWasRemoved /\ DOMAIN stored = Addresses
    BY DEF IInv, TypeOK
  <1>3. stored'[a] = None \/ a \notin Addresses
    BY <1>1, <1>2
  <1>4. \A b \in Addresses \ {a} : stored'[b] = stored[b]
    BY <1>1, <1>2
  <1>5. SavedHolds'
    <2> SUFFICES ASSUME NEW b \in Addresses, stored'[b] # None PROVE Needs(b, stored'[b]) \subseteq Addresses
      BY DEF SavedHolds, Needs, NamespaceOf, Ref
    <2> QED BY <1>2, <1>3, <1>4 DEF SavedHolds
  <1>6. LackingWasRemoved'
    <2> SUFFICES ASSUME NEW b \in Addresses, stored'[b] # None, NEW r \in Needs(b, stored'[b])
                 PROVE  stored'[r] # None \/ r \in since'[b]
      BY DEF LackingWasRemoved, Needs, NamespaceOf, Ref
    <2>1. b # a /\ stored[b] # None /\ r \in Needs(b, stored[b]) /\ stored'[b] = stored[b]
      BY <1>3, <1>4
    <2>2. r \in Addresses
      BY <1>2, <2>1 DEF SavedHolds
    <2>3. since'[b] = since[b] \cup ({a} \cap Needs(b, stored[b]))
      BY <1>1, <2>1
    <2>4. stored[r] # None \/ r \in since[b]
      BY <1>2, <2>1 DEF LackingWasRemoved
    <2> QED BY <2>1, <2>2, <2>3, <2>4, <1>4
  <1>7. \A x \in Procs \cup Servers : during'[x] = IF Saving(x) THEN during[x] \cup {a} ELSE during[x]
    BY <1>1, <1>2 DEF TypeOK
  <1>8. ASSUME NEW q \in Procs PROVE SavingAt(q)'
    <2>1. CASE q = p
      <3>1. pc'[q] # "check"
        BY <2>1, <1>1, <1>2 DEF TypeOK, Ended
      <3> QED BY <3>1, SavingOver
    <2>2. CASE q # p
      <3>1. pc'[q] = pc[q] /\ url'[q] = url[q] /\ body'[q] = body[q] /\ checks'[q] = checks[q]
        BY <2>2, <1>1, <1>2 DEF TypeOK, Ended
      <3> SUFFICES ASSUME pc'[q] = "check", NEW r \in Needs(Address(url'[q]), body'[q])
                   PROVE  \/ \E n \in DOMAIN checks'[q] : checks'[q][n] = r
                          \/ stored'[r] # None \/ r \in during'[q]
        BY DEF SavingAt, Needs, Address, NamespaceOf, Ref
      <3>2. pc[q] = "check" /\ r \in Needs(Address(url[q]), body[q])
        BY <3>1
      <3>3. during'[q] = during[q] \cup {a}
        BY <3>2, <1>7 DEF Saving
      <3>4. url[q] \in Urls /\ body[q] \in Bodies[url[q].kind]
        BY <3>2, <1>2 DEF TypeOK, Free
      <3>5. r \in Addresses
        BY <3>2, <3>4, NeedsTyped
      <3>6. \/ \E n \in DOMAIN checks[q] : checks[q][n] = r
            \/ stored[r] # None \/ r \in during[q]
        BY <3>2, <1>2 DEF SavesHold, SavingAt
      <3> QED BY <3>1, <3>3, <3>5, <3>6, <1>4
    <2> QED BY <2>1, <2>2
  <1>9. ASSUME NEW s \in Servers PROVE BootAt(s)'
    <2> SUFFICES ASSUME phase[s] = "boot"
                 PROVE  /\ put[s] \in 0..7
                        /\ \A m \in 1..put[s] : stored'[Defaults[m].at] # None \/ Defaults[m].at \in during'[s]
      BY <1>1 DEF BootAt
    <2>1. put[s] \in 0..7 /\ \A m \in 1..put[s] : stored[Defaults[m].at] # None \/ Defaults[m].at \in during[s]
      BY <1>2 DEF SavesHold, BootAt
    <2>2. s \notin Procs
      BY ActorsAssumption
    <2>3. during'[s] = during[s] \cup {a}
      BY <2>2, <1>7 DEF Saving
    <2>4. \A m \in 1..put[s] : m \in 1..8
      BY <2>1
    <2>5. \A m \in 1..put[s] : Defaults[m].at \in Addresses
      BY <2>4, DefaultsTyped
    <2> QED BY <2>1, <2>3, <2>5, <1>4
  <1> QED BY <1>5, <1>6, <1>8, <1>9 DEF SavesHold

\* Whatever a request does, what is stored lacks only what was removed since.
LEMMA RequestSaves ==
  ASSUME IInv, NEW p \in Procs,
         \/ \E u \in Urls : \E refs \in Bodies[u.kind] : PutBegin(p, u, refs)
         \/ \E u \in Urls : DeleteBegin(p, u)
         \/ Check(p) \/ Save(p) \/ Fetch(p) \/ Remove(p) \/ Abandon(p)
  PROVE  SavesHold' /\ SavedHolds' /\ LackingWasRemoved'
  <1>1. ASSUME UNCHANGED <<stored, body, checks, boot, during, since>>, pc'[p] # "check",
               \A q \in Procs \ {p} : pc'[q] = pc[q] /\ url'[q] = url[q]
        PROVE  SavesHold' /\ SavedHolds' /\ LackingWasRemoved'
    <2>1. SavedHolds' /\ LackingWasRemoved' /\ Grown
      BY <1>1, StoredKept DEF IInv
    <2>2. SavingAt(p)'
      BY <1>1, SavingOver
    <2>3. p \notin Servers /\ TypeOK /\ SavesHold
      BY ActorsAssumption DEF IInv
    <2> QED BY <1>1, <2>1, <2>2, <2>3, SavesKept
  <1>2. ASSUME NEW u \in Urls, DeleteBegin(p, u) PROVE SavesHold' /\ SavedHolds' /\ LackingWasRemoved'
    BY <1>2, <1>1 DEF DeleteBegin, IInv, TypeOK
  <1>3. CASE Fetch(p)
    <2>1. CASE stored[Looked(url[p])] = None
      BY <1>3, <2>1, EndSaves DEF Fetch
    <2>2. CASE stored[Looked(url[p])] # None
      BY <1>3, <2>2, <1>1 DEF Fetch, IInv, TypeOK
    <2> QED BY <2>1, <2>2
  <1>4. CASE Abandon(p)
    BY <1>4, EndSaves DEF Abandon
  <1> QED BY <1>2, <1>3, <1>4, PutBeginSaves, CheckSaves, SaveSaves, RemoveSaves

-----------------------------------------------------------------------------
(***************************************************************************)
(* The steps of a server.                                                  *)
(***************************************************************************)

\* What a server does that stores nothing.
LEMMA QuietServerSaves ==
  ASSUME IInv, NEW s \in Servers, UNCHANGED <<stored, request, since>>, BootAt(s)',
         \A x \in (Procs \cup Servers) \ {s} : during'[x] = during[x],
         \A t \in Servers \ {s} : phase'[t] = phase[t] /\ put'[t] = put[t]
  PROVE  SavesHold' /\ SavedHolds' /\ LackingWasRemoved'
  <1>1. SavedHolds' /\ LackingWasRemoved' /\ Grown
    BY StoredKept DEF IInv
  <1>2. s \notin Procs /\ TypeOK /\ SavesHold
    BY ActorsAssumption DEF IInv
  <1> QED BY <1>1, <1>2, SavesKept

\* A default is stored with what it needs, or without what was removed meanwhile.
LEMMA PutDefaultSaves ==
  ASSUME IInv, NEW s \in Servers, PutDefault(s)
  PROVE  SavesHold' /\ SavedHolds' /\ LackingWasRemoved' /\ Grown
  <1>1. /\ phase[s] = "boot" /\ put[s] \in 0..7
        /\ \A m \in 1..put[s] : stored[Defaults[m].at] # None \/ Defaults[m].at \in during[s]
    BY DEF PutDefault, IInv, SavesHold, BootAt
  <1> PICK n : n = put[s] + 1
    OBVIOUS
  <1>2. n \in 1..8 /\ put[s] = n - 1
    BY <1>1
  <1>3. /\ Store(s, Defaults[n].at, Defaults[n].refs) /\ put' = [put EXCEPT ![s] = n]
        /\ phase' = [phase EXCEPT ![s] = IF n = 8 THEN "serving" ELSE "boot"]
        /\ during' = [during EXCEPT ![s] = IF phase'[s] = "serving" THEN {} ELSE during[s]]
        /\ UNCHANGED request
    BY DefaultsAreEight DEF PutDefault
  <1>4. Defaults[n].at \in Addresses /\ Defaults[n].refs \in Contents
    BY <1>2, DefaultsTyped
  <1>5. \A r \in Needs(Defaults[n].at, Defaults[n].refs) :
          r \in Addresses /\ (stored[r] # None \/ r \in during[s])
    <2> SUFFICES ASSUME NEW r \in Needs(Defaults[n].at, Defaults[n].refs)
                 PROVE  r \in Addresses /\ (stored[r] # None \/ r \in during[s])
      OBVIOUS
    <2> PICK m \in 1..(n - 1) : Defaults[m].at = r
      BY <1>2, DefaultsOrdered
    <2>1. m \in 1..8 /\ m \in 1..put[s]
      BY <1>2
    <2> QED BY <2>1, <1>1, DefaultsTyped
  <1>6. TypeOK /\ SavesHold /\ SavedHolds /\ LackingWasRemoved /\ s \notin Procs
    BY ActorsAssumption DEF IInv
  <1>7. SavedHolds' /\ LackingWasRemoved' /\ Grown
    BY <1>3, <1>4, <1>5, <1>6, StoredAnew
  <1>8. BootAt(s)'
    <2>1. put'[s] = n /\ phase'[s] = IF n = 8 THEN "serving" ELSE "boot"
      BY <1>3, <1>6 DEF TypeOK
    <2>2. phase'[s] = "boot" => during'[s] = during[s]
      BY <1>3, <1>6 DEF TypeOK
    <2>3. stored'[Defaults[n].at] # None
      BY <1>3, <1>4, <1>6, NoneAssumption DEF Store, TypeOK
    <2> SUFFICES ASSUME phase'[s] = "boot"
                 PROVE  /\ put'[s] \in 0..7
                        /\ \A m \in 1..put'[s] : stored'[Defaults[m].at] # None \/ Defaults[m].at \in during'[s]
      BY DEF BootAt
    <2>4. put'[s] \in 0..7
      BY <2>1, <1>2
    <2>5. ASSUME NEW m \in 1..n PROVE stored'[Defaults[m].at] # None \/ Defaults[m].at \in during'[s]
      <3>1. CASE m = n
        BY <3>1, <2>3
      <3>2. CASE m # n
        <4>1. m \in 1..put[s] /\ m \in 1..8
          BY <3>2, <1>2
        <4> QED BY <4>1, <1>1, <1>7, <2>2, DefaultsTyped DEF Grown
      <3> QED BY <3>1, <3>2
    <2> QED BY <2>1, <2>4, <2>5
  <1>9. /\ \A x \in (Procs \cup Servers) \ {s} : during'[x] = during[x]
        /\ \A t \in Servers \ {s} : phase'[t] = phase[t] /\ put'[t] = put[t]
    BY <1>3, <1>6 DEF TypeOK
  <1>10. SavesHold'
    BY <1>3, <1>6, <1>7, <1>8, <1>9, SavesKept
  <1> QED BY <1>7, <1>10

\* Whatever a server does, what is stored lacks only what was removed since.
LEMMA ServerSaves ==
  ASSUME IInv, NEW s \in Servers, Start(s) \/ ListAccounts(s) \/ PutDefault(s) \/ Stop(s)
  PROVE  SavesHold' /\ SavedHolds' /\ LackingWasRemoved'
  <1>1. CASE Start(s)
    <2>1. phase'[s] = "list"
      BY <1>1 DEF Start, IInv, TypeOK
    <2>2. BootAt(s)'
      BY <2>1 DEF BootAt
    <2> QED BY <1>1, <2>2, QuietServerSaves DEF Start, IInv, TypeOK
  <1>2. CASE ListAccounts(s)
    <2>1. put'[s] = 0
      BY <1>2 DEF ListAccounts, IInv, TypeOK
    <2>2. BootAt(s)'
      BY <2>1 DEF BootAt
    <2> QED BY <1>2, <2>2, QuietServerSaves DEF ListAccounts, IInv, TypeOK
  <1>3. CASE Stop(s)
    <2>1. phase'[s] = "down"
      BY <1>3 DEF Stop, IInv, TypeOK
    <2>2. BootAt(s)'
      BY <2>1 DEF BootAt
    <2> QED BY <1>3, <2>2, QuietServerSaves DEF Stop, IInv, TypeOK
  <1> QED BY <1>1, <1>2, <1>3, PutDefaultSaves

-----------------------------------------------------------------------------
(***************************************************************************)
(* The defaults, as long as nothing cuts a bootstrap short.                *)
(***************************************************************************)

\* The bootstraps under way stay as they are.
LEMMA PutStaysKept ==
  ASSUME SavesHold, PutStays, Grown,
         \A s \in Servers : phase'[s] = "boot" => (phase[s] = "boot" /\ put'[s] = put[s]) \/ put'[s] = 0
  PROVE  PutStays'
  <1> SUFFICES ASSUME NEW s \in Servers, phase'[s] = "boot", NEW m \in 1..put'[s]
               PROVE  stored'[Defaults[m].at] # None
    BY DEF PutStays
  <1>1. phase[s] = "boot" /\ put'[s] = put[s]
    OBVIOUS
  <1>2. put[s] \in 0..7 /\ stored[Defaults[m].at] # None
    BY <1>1 DEF PutStays, SavesHold, BootAt
  <1>3. m \in 1..8
    BY <1>1, <1>2
  <1> QED BY <1>2, <1>3, DefaultsTyped DEF Grown

\* What is all there stays there.
LEMMA AllStoredKept ==
  ASSUME AllStored, Grown
  PROVE  AllStored'
  BY DefaultsTyped DEF AllStored, Grown

\* A request that begins, or goes on, was let in by a server or came after one that was.
LEMMA RequestDefaults ==
  ASSUME IInv, NEW p \in Procs,
         \/ \E u \in Urls : \E refs \in Bodies[u.kind] : PutBegin(p, u, refs)
         \/ \E u \in Urls : DeleteBegin(p, u)
         \/ Check(p) \/ Save(p) \/ Fetch(p) \/ Remove(p) \/ Abandon(p)
  PROVE  DefaultsHold'
  <1> SUFFICES ASSUME ~cut' PROVE PutStays' /\ (Seen' => Booting' \/ AllStored')
    BY DEF DefaultsHold, PutStays, Seen, Serving, Booting, AllStored
  <1>1. TypeOK /\ SavesHold
    BY DEF IInv
  <1>2. ~cut /\ UNCHANGED <<phase, put>>
    <2>1. CASE Remove(p)
      BY <2>1 DEF Remove
    <2>2. Remove(p) \/ UNCHANGED <<phase, put, cut>>
      BY DEF PutBegin, DeleteBegin, Check, Save, Fetch, Abandon
    <2> QED BY <2>1, <2>2
  <1>3. PutStays /\ (Seen => Booting \/ AllStored)
    BY <1>2 DEF IInv, DefaultsHold
  <1>4. Seen
    <2>1. Serving \/ pc[p] # "idle"
      BY DEF PutBegin, DeleteBegin, Check, Save, Fetch, Remove, Abandon, Free
    <2> QED BY <2>1 DEF Seen
  <1>5. (Booting => Booting') /\ \A s \in Servers : phase'[s] = phase[s] /\ put'[s] = put[s]
    BY <1>2 DEF Booting
  <1>6. CASE Remove(p)
    <2> PICK a : a = Looked(url[p])
      OBVIOUS
    <2>1. stored' = [stored EXCEPT ![a] = None] /\ \A n \in DOMAIN Defaults : Defaults[n].at # a
      BY <1>6 DEF Remove
    <2>2. \A n \in 1..8 : stored'[Defaults[n].at] = stored[Defaults[n].at]
      BY <2>1, <1>1, DefaultsTyped, DefaultsAreEight DEF TypeOK
    <2>3. AllStored => AllStored'
      BY <2>2 DEF AllStored
    <2>4. PutStays'
      <3> SUFFICES ASSUME NEW s \in Servers, phase[s] = "boot", NEW m \in 1..put[s]
                   PROVE  stored'[Defaults[m].at] # None
        BY <1>5 DEF PutStays
      <3>1. put[s] \in 0..7 /\ stored[Defaults[m].at] # None
        BY <1>1, <1>3 DEF PutStays, SavesHold, BootAt
      <3>2. m \in 1..8
        BY <3>1
      <3> QED BY <3>1, <3>2, <2>2
    <2> QED BY <1>3, <1>4, <1>5, <2>3, <2>4
  <1>7. CASE Grown
    BY <1>1, <1>3, <1>4, <1>5, <1>7, AllStoredKept, PutStaysKept
  <1>8. Remove(p) \/ Grown
    BY SaveSaves DEF PutBegin, DeleteBegin, Check, Fetch, Abandon, Grown
  <1> QED BY <1>6, <1>7, <1>8

\* A server serves when it has put the defaults, or when it finds an account, which
\* another has put and goes on from.
LEMMA ServerDefaults ==
  ASSUME IInv, NEW s \in Servers, Start(s) \/ ListAccounts(s) \/ PutDefault(s) \/ Stop(s)
  PROVE  DefaultsHold'
  <1> SUFFICES ASSUME ~cut' PROVE PutStays' /\ (Seen' => Booting' \/ AllStored')
    BY DEF DefaultsHold, PutStays, Seen, Serving, Booting, AllStored
  <1>1. TypeOK /\ SavesHold
    BY DEF IInv
  <1>2. ~cut
    BY DEF Start, ListAccounts, PutDefault, Stop
  <1>3. PutStays /\ (Seen => Booting \/ AllStored)
    BY <1>2 DEF IInv, DefaultsHold
  <1>4. ASSUME UNCHANGED <<stored, pc>>
        PROVE  Grown /\ (AllStored => AllStored') /\ (Seen' => Serving' \/ Seen)
    BY <1>4 DEF Grown, AllStored, Seen
  <1>5. CASE Start(s)
    <2>1. phase' = [phase EXCEPT ![s] = "list"] /\ phase[s] = "down" /\ UNCHANGED <<stored, pc, put>>
      BY <1>5 DEF Start
    <2>2. \A t \in Servers : phase'[t] = phase[t] \/ (phase[t] = "down" /\ phase'[t] = "list")
      BY <2>1, <1>1 DEF TypeOK
    <2>3. PutStays'
      BY <2>1, <2>2, <1>1, <1>3, <1>4, PutStaysKept
    <2>4. (Serving' => Serving) /\ (Booting => Booting')
      BY <2>2 DEF Serving, Booting
    <2> QED BY <2>1, <2>3, <2>4, <1>3, <1>4 DEF Seen
  <1>6. CASE ListAccounts(s)
    <2>1. /\ phase[s] = "list" /\ put' = [put EXCEPT ![s] = 0] /\ UNCHANGED <<stored, pc>>
          /\ phase' = [phase EXCEPT ![s] =
               IF \E a \in Addresses : a.kind = "account" /\ stored[a] # None THEN "serving" ELSE "boot"]
      BY <1>6 DEF ListAccounts
    <2>2. \A t \in Servers \ {s} : phase'[t] = phase[t] /\ put'[t] = put[t]
      BY <2>1, <1>1 DEF TypeOK
    <2>3. put'[s] = 0
      BY <2>1, <1>1 DEF TypeOK
    <2>4. PutStays'
      BY <2>1, <2>2, <2>3, <1>1, <1>3, <1>4, PutStaysKept
    <2>5. Booting => Booting'
      BY <2>1, <2>2 DEF Booting
    <2>6. CASE \E a \in Addresses : a.kind = "account" /\ stored[a] # None
      <3>1. Seen
        BY <2>6 DEF Seen
      <3> QED BY <3>1, <2>1, <2>4, <2>5, <1>3, <1>4
    <2>7. CASE ~\E a \in Addresses : a.kind = "account" /\ stored[a] # None
      <3>1. phase'[s] = "boot"
        BY <2>1, <2>7, <1>1 DEF TypeOK
      <3>2. Booting'
        BY <3>1 DEF Booting
      <3> QED BY <3>2, <2>4
    <2> QED BY <2>6, <2>7
  <1>7. CASE PutDefault(s)
    <2>1. phase[s] = "boot" /\ put[s] \in 0..7 /\ \A m \in 1..put[s] : stored[Defaults[m].at] # None
      BY <1>7, <1>1, <1>3 DEF PutDefault, SavesHold, BootAt, PutStays
    <2> PICK n : n = put[s] + 1
      OBVIOUS
    <2>2. n \in 1..8 /\ put[s] = n - 1
      BY <2>1
    <2>3. /\ Store(s, Defaults[n].at, Defaults[n].refs) /\ put' = [put EXCEPT ![s] = n]
          /\ phase' = [phase EXCEPT ![s] = IF n = 8 THEN "serving" ELSE "boot"]
      BY <1>7, DefaultsAreEight DEF PutDefault
    <2>4. put'[s] = n /\ phase'[s] = (IF n = 8 THEN "serving" ELSE "boot")
      BY <2>3, <1>1 DEF TypeOK
    <2>5. \A t \in Servers \ {s} : phase'[t] = phase[t] /\ put'[t] = put[t]
      BY <2>3, <1>1 DEF TypeOK
    <2>6. Grown
      BY <1>7, PutDefaultSaves
    <2>7. stored'[Defaults[n].at] # None
      BY <2>2, <2>3, <1>1, DefaultsTyped, NoneAssumption DEF Store, TypeOK
    <2>8. \A m \in 1..n : stored'[Defaults[m].at] # None
      <3> SUFFICES ASSUME NEW m \in 1..n, m # n PROVE stored'[Defaults[m].at] # None
        BY <2>7
      <3>1. m \in 1..put[s] /\ m \in 1..8
        BY <2>2
      <3> QED BY <3>1, <2>1, <2>6, DefaultsTyped DEF Grown
    <2>9. PutStays'
      <3> SUFFICES ASSUME NEW t \in Servers, phase'[t] = "boot", NEW m \in 1..put'[t]
                   PROVE  stored'[Defaults[m].at] # None
        BY DEF PutStays
      <3>1. CASE t = s
        BY <3>1, <2>4, <2>8
      <3>2. CASE t # s
        <4>1. phase[t] = "boot" /\ m \in 1..put[t]
          BY <3>2, <2>5
        <4>2. put[t] \in 0..7 /\ stored[Defaults[m].at] # None
          BY <4>1, <1>1, <1>3 DEF SavesHold, BootAt, PutStays
        <4>3. m \in 1..8
          BY <4>1, <4>2
        <4> QED BY <4>2, <4>3, <2>6, DefaultsTyped DEF Grown
      <3> QED BY <3>1, <3>2
    <2>10. Booting' \/ AllStored'
      <3>1. CASE n = 8
        BY <3>1, <2>8 DEF AllStored
      <3>2. CASE n # 8
        BY <3>2, <2>4 DEF Booting
      <3> QED BY <3>1, <3>2
    <2> QED BY <2>9, <2>10
  <1>8. CASE Stop(s)
    <2>1. /\ phase[s] # "boot" /\ phase' = [phase EXCEPT ![s] = "down"] /\ put' = [put EXCEPT ![s] = 0]
          /\ UNCHANGED <<stored, pc>>
      BY <1>8 DEF Stop
    <2>2. phase'[s] = "down" /\ \A t \in Servers \ {s} : phase'[t] = phase[t] /\ put'[t] = put[t]
      BY <2>1, <1>1 DEF TypeOK
    <2>3. PutStays'
      BY <2>1, <2>2, <1>1, <1>3, <1>4, PutStaysKept
    <2>4. (Serving' => Serving) /\ (Booting => Booting')
      BY <2>1, <2>2 DEF Serving, Booting
    <2> QED BY <2>1, <2>3, <2>4, <1>3, <1>4 DEF Seen
  <1> QED BY <1>5, <1>6, <1>7, <1>8

-----------------------------------------------------------------------------
(***************************************************************************)
(* The theorems.                                                           *)
(***************************************************************************)

\* A step keeps the invariant.
LEMMA StepIInv == IInv /\ [Next]_vars => IInv'
  <1> SUFFICES ASSUME IInv, [Next]_vars PROVE IInv'
    OBVIOUS
  <1>1. ASSUME NEW p \in Procs,
               \/ \E u \in Urls : \E refs \in Bodies[u.kind] : PutBegin(p, u, refs)
               \/ \E u \in Urls : DeleteBegin(p, u)
               \/ Check(p) \/ Save(p) \/ Fetch(p) \/ Remove(p) \/ Abandon(p)
        PROVE  IInv'
    <2>1. TypeOK'
      BY <1>1, RequestTypeOK DEF IInv
    <2>2. SavesHold' /\ SavedHolds' /\ LackingWasRemoved'
      BY <1>1, RequestSaves
    <2>3. DefaultsHold'
      BY <1>1, RequestDefaults
    <2> QED BY <2>1, <2>2, <2>3 DEF IInv
  <1>2. ASSUME NEW s \in Servers, Start(s) \/ ListAccounts(s) \/ PutDefault(s) \/ Stop(s) PROVE IInv'
    <2>1. BootCounts
      BY DEF IInv, SavesHold, BootAt, BootCounts
    <2>2. TypeOK'
      BY <1>2, <2>1, ServerTypeOK DEF IInv
    <2>3. SavesHold' /\ SavedHolds' /\ LackingWasRemoved'
      BY <1>2, ServerSaves
    <2>4. DefaultsHold'
      BY <1>2, ServerDefaults
    <2> QED BY <2>2, <2>3, <2>4 DEF IInv
  <1>3. CASE UNCHANGED vars
    <2>1. TypeOK'
      BY <1>3 DEF vars, IInv, TypeOK, Free
    <2>2. SavesHold'
      <3>1. TypeOK /\ (\A p \in Procs : SavingAt(p)) /\ (\A s \in Servers : BootAt(s)) /\ Grown
        BY <1>3, StoredKept DEF vars, IInv, SavesHold
      <3>2. \A p \in Procs : SavingAt(p)'
        BY <1>3, <3>1, SavingKept DEF vars
      <3>3. \A s \in Servers : BootAt(s)'
        BY <1>3, <3>1, BootKept DEF vars
      <3> QED BY <3>2, <3>3 DEF SavesHold
    <2>3. SavedHolds' /\ LackingWasRemoved'
      BY <1>3, StoredKept DEF vars, IInv
    <2>4. DefaultsHold'
      BY <1>3 DEF vars, IInv, DefaultsHold, PutStays, Seen, Serving, Booting, AllStored
    <2> QED BY <2>1, <2>2, <2>3, <2>4 DEF IInv
  <1> QED BY <1>1, <1>2, <1>3 DEF Next

\* Every reachable state satisfies the inductive invariant.
THEOREM Invariant == Spec => []IInv
  <1> QED BY InitIInv, StepIInv, PTL DEF Spec

\* The variables keep their types, and no object of a kind without namespaces is ever
\* stored in one.
THEOREM TypeCorrect == Spec => []TypeOK
  <1>1. IInv => TypeOK
    BY DEF IInv
  <1> QED BY <1>1, Invariant, PTL

\* However PUTs, DELETEs and starting servers interleave, what an object lacks was
\* removed after the request that saved it began.
THEOREM LackingIsRemoved == Spec => []LackingWasRemoved
  <1>1. IInv => LackingWasRemoved
    BY DEF IInv
  <1> QED BY <1>1, Invariant, PTL

\* However many servers start together, the defaults are all there once the last start
\* is over, if none was cut short and nobody removed one.
THEOREM DefaultsAreThere == Spec => []DefaultsStand
  <1>1. IInv => DefaultsStand
    <2> SUFFICES ASSUME IInv, \A s \in Servers : phase[s] = "serving", ~cut PROVE AllStored
      BY DefaultsAreEight DEF DefaultsStand, AllStored
    <2>1. Serving /\ ~Booting
      BY ActorsAssumption DEF Serving, Booting
    <2> QED BY <2>1 DEF IInv, DefaultsHold, Seen
  <1> QED BY <1>1, Invariant, PTL
===============================================================================
