------------------------------- MODULE Server -------------------------------
(***************************************************************************)
(* The HTTP server of cmd/oiam/app: ServeHTTP looks the token up, serveIAM *)
(* and serveSTS ask sts.Access for leave and then do what was asked.       *)
(*                                                                         *)
(* Requests interleave at their calls of the layers below, and Access and  *)
(* the others at what they read and write: each step reads or writes at    *)
(* one moment.  Meanwhile administrators change policies and Secrets, and  *)
(* tokens and sessions end.  What Access reads is reduced to facts, one    *)
(* for each command (Authorize has the commands, Sts the sessions' times,  *)
(* Controllers the calls of a save).  Requests that ServeHTTP answers      *)
(* itself (the console's files, OPTIONS) and unknown names under /sts      *)
(* change nothing and are left out, and so is the body a GET answers with. *)
(***************************************************************************)
EXTENDS Integers

CONSTANTS
  Procs,         \* requests in progress
  Tokens,        \* ids of tokens
  Accounts,      \* whom Secrets are of
  Sessions,      \* names of sessions
  Covers,        \* pairs <<n, m>>: the pattern @:secret:n:* meets the keys of session m
  Secrets,       \* names of Secrets
  SessionKeys,   \* keys of the credentials Assume makes
  Contents,      \* what a Secret may hold: [key, secret, owner]
  Finds,         \* pairs <<k, m>>: who asks for the key k may be given one of key m
  Leftovers,     \* pairs <<k, s>>: a race of the past left s in the list of the key k
  Values,        \* what an object may hold
  Requests,      \* see below
  Facts,         \* what a command of Access may read
  Grounds,       \* which facts give leave: [who, asked, facts]
  Starts,        \* sets of facts there may be at first
  Granted,       \* the tokens there are at first
  Small,         \* a name as strings.ToLower gives it
  MaxChanges,    \* bound on what goes on beside the requests
  None,          \* no token, secret or object; no answer; no role
  Gone           \* in the place of a session that ended: keys are used once

Registered == {"account", "group", "role", "policy", "secret", "namespace",
               "policybinding", "groupbinding"}
NamespaceLess == {"namespace", "secret", "policybinding", "groupbinding"}

Ref(kind, namespace, name) == [kind |-> kind, namespace |-> namespace, name |-> name]

\* Mutant: the name of a URL is taken as it is written.
LoweredNamespace(url) == [url EXCEPT !.namespace = Small[@]]

\* A URL means what its lower-case form names.
Lowered(url) == [url EXCEPT !.namespace = Small[@], !.name = Small[@]]

\* Where the controllers store, and where they look (Controllers has the reasons).
Address(at) == IF at.kind \in NamespaceLess THEN [at EXCEPT !.namespace = ""] ELSE at
Looked(at) == IF at.kind \in NamespaceLess THEN Ref("namespace", "", at.name) ELSE at

\* POST and other methods have no action of their own.
ActionOf(r) ==
  CASE r.method = "GET" -> IF r.url.name = "" THEN "list" ELSE "get"
    [] r.method = "PUT" -> "put"
    [] r.method = "DELETE" -> "delete"
    [] OTHER -> "undefined"

\* What the token's owner must be allowed: /iam asks for the object of the URL,
\* /sts/assume for the service of sessions with the role in its tags, /sts/access
\* for what the caller names.
Asked(r) ==
  CASE r.op = "iam" -> [action |-> ActionOf(r), ref |-> Lowered(r.url), role |-> None]
    [] r.op = "assume" -> [action |-> "assume", ref |-> Ref("service", "oiam.io", "sts"), role |-> r.role]
    [] r.op = "access" -> [action |-> r.action, ref |-> r.service, role |-> None]

\* Requests are about records of strings; to bring a name into lower case twice is to
\* do it once.
ASSUME RequestsAssumption ==
  \A r \in Requests :
    /\ r.op \in {"iam", "auth", "assume", "access"}
    /\ r.op # "auth" => r.token \in Tokens
    /\ r.op = "iam" =>
         /\ r.url = Ref(r.url.kind, r.url.namespace, r.url.name)
         /\ r.body.value \in Values
         /\ Small[Small[r.url.name]] = Small[r.url.name]
         /\ Small[Small[r.url.namespace]] = Small[r.url.namespace]
    /\ r.op = "assume" => r.name \in Sessions

\* A token is an account's or a session's; the kinds of names do not mix.
ASSUME NamesAssumption ==
  /\ Secrets \cap SessionKeys = {} /\ Accounts \cap Sessions = {}
  /\ \A content \in Contents : content.owner \in Accounts
  /\ \A entry \in Leftovers : entry[2] \in Secrets
ASSUME GrantedAssumption == Granted \in [Tokens -> Accounts \cup Sessions \cup {None}]
ASSUME BoundAssumption == MaxChanges \in Nat
ASSUME EmptyIsSmall == Small[""] = ""
ASSUME NoneAssumption ==
  /\ None \notin Values /\ None \notin {200, 400, 401, 404, 500}
  /\ None \notin Accounts \cup Sessions /\ None # Gone

Places ==
  UNION {{Address(r.body.at), Address(Lowered(r.url)), Looked(Lowered(r.url))} :
           r \in {q \in Requests : q.op = "iam"}}

VARIABLES
  objects,   \* place -> value, or None
  secrets,   \* Secret or session key -> content, or None
  tokens,    \* id -> the owner it was granted for, or None
  live,      \* the tokens whose time has not run out
  facts,     \* what Access would read now
  changes,   \* how much went on beside the requests
  pc, req,   \* what each request does next, and what it asks
  work,      \* its local variables
  answer,    \* the status it was answered with
  did,       \* history: it has changed something
  seen       \* history: what held at some moment of it, see Witness

world == <<objects, secrets, tokens, live, facts, changes>>
vars == <<world, pc, req, work, answer, did, seen>>

Held(s) == {secrets[s]} \ {None, Gone}

\* The Secrets, or the sessions, that a query for the key k lists now.
Listed(k) ==
  {s \in Secrets \cup SessionKeys :
     \E content \in Held(s) : <<k, content.key>> \in Finds \/ <<k, s>> \in Leftovers}

\* KEYS @:secret:<name>:*
Named(name) ==
  {k \in SessionKeys : \E content \in Held(k) : <<name, content.owner>> \in Covers}

\* Whom a token acts for: its account, or its session in the role of a credential of
\* that name, if there is one.
Acting(t) ==
  IF tokens[t] \in Sessions
    THEN {[owner |-> tokens[t], role |-> secrets[k].role] : k \in Named(tokens[t])}
    ELSE {[owner |-> tokens[t], role |-> None]}

\* "who" is whom it acts for, "read" what Access has read; "keys" are what Assume is
\* to remove, and "at" is what a query for a key has found.
Blank == [who |-> None, read |-> {}, keys |-> {}, at |-> None]

-----------------------------------------------------------------------------
(***************************************************************************)
(* History: what holds at this moment of a request.                        *)
(***************************************************************************)
Nothing == [tokens |-> {}, acting |-> {}, facts |-> {}, there |-> {}, found |-> {}, held |-> {}]

Witness(p) ==
  LET r == req[p] IN
  [tokens |-> IF r.op = "auth" THEN {} ELSE {r.token} \cap live,
   acting |-> IF r.op = "auth" THEN {} ELSE Acting(r.token),
   facts |-> IF r.op = "auth" THEN {} ELSE facts,
   there |-> IF r.op = "iam" THEN {objects[Looked(Lowered(r.url))]} ELSE {},
   found |-> IF r.op = "auth" THEN Listed(r.key) ELSE {},
   held |-> IF r.op = "auth" THEN {<<s, secrets[s]>> : s \in {x \in DOMAIN secrets : Held(x) # {}}} ELSE {}]

Joined(a, b) == [field \in DOMAIN Nothing |-> a[field] \cup b[field]]

\* Every step is noted by the requests in progress after it.
Remember ==
  seen' = [p \in Procs |-> CASE pc'[p] = "idle" -> Nothing
                             [] pc'[p] = "answered" -> seen[p]
                             [] OTHER -> Joined(seen[p], Witness(p)')]

\* A step of a request ends with one of these.
Goto(p, step, local) ==
  /\ pc' = [pc EXCEPT ![p] = step] /\ work' = [work EXCEPT ![p] = local]
  /\ UNCHANGED <<req, answer, did>>
  /\ Remember

Answer(p, status, changed) ==
  /\ pc' = [pc EXCEPT ![p] = "answered"] /\ answer' = [answer EXCEPT ![p] = status]
  /\ did' = [did EXCEPT ![p] = changed] /\ work' = [work EXCEPT ![p] = Blank]
  /\ UNCHANGED req
  /\ Remember

-----------------------------------------------------------------------------
(***************************************************************************)
(* ServeHTTP and the leave to go on.                                       *)
(***************************************************************************)

\* All but /sts/auth need a token.
Arrive(p, r) ==
  /\ pc[p] = "idle"
  /\ req' = [req EXCEPT ![p] = r]
  /\ LET welcome == r.op = "auth" \/ r.token \in live IN
     /\ pc' = [pc EXCEPT ![p] = IF ~welcome THEN "answered"
                                ELSE IF r.op = "auth" THEN "find" ELSE "access"]
     /\ answer' = [answer EXCEPT ![p] = IF welcome THEN None ELSE 401]
  /\ UNCHANGED <<world, work, did>>
  /\ Remember

\* Access looks the token up again.
Retrieve(p) ==
  LET owner == tokens[req[p].token] IN
  /\ pc[p] = "access" /\ req[p].token \in live
  /\ UNCHANGED world
  /\ Goto(p, IF owner \in Sessions THEN "session" ELSE "learn",
          [Blank EXCEPT !.who = [owner |-> owner, role |-> None]])

\* A session's credential is looked up by the session's name: it may be another one
\* by now, of another role.
FindSession(p) ==
  /\ pc[p] = "session"
  /\ UNCHANGED world
  /\ \E k \in Named(work[p].who.owner) :
       Goto(p, "learn", [work[p] EXCEPT !.who.role = secrets[k].role])

\* What would give the request leave.
GroundsOf(p) == {g \in Grounds : g.who = work[p].who /\ g.asked = Asked(req[p])}

\* Access reads on, fact by fact.
Learn(p) ==
  /\ pc[p] = "learn"
  /\ UNCHANGED world
  /\ \E f \in facts \cap UNION {g.facts : g \in GroundsOf(p)} :
       /\ f \notin work[p].read
       /\ Goto(p, "learn", [work[p] EXCEPT !.read = @ \cup {f}])

\* Mutant: the error of Access is not looked at.
PermittedBlind(p) ==
  /\ pc[p] = "learn"
  /\ UNCHANGED world
  /\ Goto(p, "do", Blank)

Permitted(p) ==
  /\ pc[p] = "learn" /\ \E g \in GroundsOf(p) : g.facts \subseteq work[p].read
  /\ UNCHANGED world
  /\ Goto(p, "do", Blank)

\* No leave, no token or session any more, or an error on the way: all are "not found".
Refused(p) ==
  /\ pc[p] \in {"access", "session", "learn"}
  /\ UNCHANGED world
  /\ Answer(p, 404, FALSE)

-----------------------------------------------------------------------------
(***************************************************************************)
(* serveIAM, once it has leave.                                            *)
(***************************************************************************)
Serves(p, methods) ==
  /\ pc[p] = "do" /\ req[p].op = "iam"
  /\ req[p].url.kind \in Registered /\ req[p].method \in methods

\* What is answered like a success though nothing is to be done: the error of Access,
\* which is none, stands.
Idle(r) ==
  \/ r.url.kind \notin Registered
  \/ r.method \notin {"GET", "PUT", "POST", "DELETE"}
  \/ r.method = "DELETE" /\ r.url.name = ""

DoNothing(p) ==
  /\ pc[p] = "do" /\ req[p].op = "iam" /\ Idle(req[p])
  /\ UNCHANGED world
  /\ Answer(p, 200, FALSE)

Read(p) ==
  /\ Serves(p, {"GET"})
  /\ UNCHANGED world
  /\ \E status \in {200, 500} : Answer(p, status, FALSE)

\* The body's metadata are those of the URL, lower case and all.
Fits(r) == r.body.at = Lowered(r.url)

\* Mutant: the object is saved before its checks have passed.
RejectLate(p) ==
  LET b == req[p].body IN
  /\ Serves(p, {"PUT", "POST"})
  /\ objects' = [objects EXCEPT ![Address(b.at)] = b.value]
  /\ UNCHANGED <<secrets, tokens, live, facts, changes>>
  /\ Answer(p, 400, TRUE)

\* An unreadable body, one that does not fit, or one that PreFlightCheck refuses.
Reject(p) ==
  /\ Serves(p, {"PUT", "POST"})
  /\ UNCHANGED world
  /\ Answer(p, 400, FALSE)

Check(p) ==
  /\ Serves(p, {"PUT", "POST"}) /\ Fits(req[p])
  /\ UNCHANGED world
  /\ Goto(p, "save", Blank)

\* The storage may fail after it has stored.
Save(p) ==
  LET b == req[p].body IN
  /\ pc[p] = "save"
  /\ UNCHANGED <<secrets, tokens, live, facts, changes>>
  /\ \/ /\ objects' = [objects EXCEPT ![Address(b.at)] = b.value]
        /\ \E status \in {200, 500} : Answer(p, status, TRUE)
     \/ UNCHANGED objects /\ Answer(p, 500, FALSE)

Removes(p) == Serves(p, {"DELETE"}) /\ req[p].url.name # ""

\* Delete reads the object first.
Look(p) ==
  /\ Removes(p) /\ objects[Looked(Lowered(req[p].url))] # None
  /\ UNCHANGED world
  /\ Goto(p, "remove", Blank)

\* It is not there, or the Get fails.
Miss(p) ==
  /\ Removes(p)
  /\ UNCHANGED world
  /\ Answer(p, 500, FALSE)

\* What was there may be gone by now: that is no error.
Remove(p) ==
  LET a == Looked(Lowered(req[p].url)) IN
  /\ pc[p] = "remove"
  /\ UNCHANGED <<secrets, tokens, live, facts, changes>>
  /\ \/ /\ objects' = [objects EXCEPT ![a] = None]
        /\ \E status \in {200, 500} : Answer(p, status, objects[a] # None)
     \/ UNCHANGED objects /\ Answer(p, 500, FALSE)

-----------------------------------------------------------------------------
(***************************************************************************)
(* serveSTS.  Whatever goes wrong is "not found".                          *)
(***************************************************************************)

\* A query for the key of the request, to compare the signature and once more in
\* Grant; what it lists is fetched in a step of its own.
FindKey(p) ==
  /\ pc[p] \in {"find", "grant"}
  /\ UNCHANGED world
  /\ \E s \in Listed(req[p].key) :
       Goto(p, IF pc[p] = "find" THEN "sign" ELSE "issue", [Blank EXCEPT !.at = s])

\* Mutant: the signature is not looked at.
SignAny(p) ==
  /\ pc[p] = "sign" /\ Held(work[p].at) # {}
  /\ UNCHANGED world
  /\ Goto(p, "grant", Blank)

\* The request is signed with the secret of what was found, as it is now.
Sign(p) ==
  /\ pc[p] = "sign"
  /\ \E content \in Held(work[p].at) : content.secret = req[p].secret
  /\ UNCHANGED world
  /\ Goto(p, "grant", Blank)

\* The token is its owner's: an account's, or that of a session.
Grant(p) ==
  /\ pc[p] = "issue"
  /\ UNCHANGED <<objects, secrets, facts, changes>>
  /\ \E content \in Held(work[p].at), t \in Tokens, status \in {200, 404} :
       /\ tokens[t] = None
       /\ tokens' = [tokens EXCEPT ![t] = content.owner]
       /\ live' = live \cup {t}
       /\ Answer(p, status, TRUE)

\* The credentials of the name, which are to make way.
AssumeKeys(p) ==
  /\ pc[p] = "do" /\ req[p].op = "assume"
  /\ UNCHANGED world
  /\ Goto(p, "commit", [Blank EXCEPT !.keys = Named(req[p].name)])

\* A new credential for the role; its secret is known by its key.
Assume(p) ==
  /\ pc[p] = "commit"
  /\ UNCHANGED <<objects, tokens, live, facts, changes>>
  /\ \E k \in SessionKeys, status \in {200, 404} :
       /\ secrets[k] = None
       /\ secrets' = [s \in DOMAIN secrets |->
                        CASE s = k -> [key |-> k, secret |-> k, owner |-> req[p].name, role |-> req[p].role]
                          [] s # k /\ s \in work[p].keys -> Gone
                          [] OTHER -> secrets[s]]
       /\ Answer(p, status, TRUE)

Confirm(p) ==
  /\ pc[p] = "do" /\ req[p].op = "access"
  /\ UNCHANGED world
  /\ Answer(p, 200, FALSE)

\* No such key, another secret, an error of the storage.
Fail(p) ==
  /\ \/ pc[p] \in {"find", "sign", "grant", "issue", "commit"}
     \/ pc[p] = "do" /\ req[p].op = "assume"
  /\ UNCHANGED world
  /\ Answer(p, 404, FALSE)

Done(p) ==
  /\ pc[p] = "answered"
  /\ pc' = [pc EXCEPT ![p] = "idle"] /\ answer' = [answer EXCEPT ![p] = None]
  /\ did' = [did EXCEPT ![p] = FALSE] /\ req' = [req EXCEPT ![p] = None]
  /\ UNCHANGED <<world, work>>
  /\ Remember

-----------------------------------------------------------------------------
(***************************************************************************)
(* What goes on meanwhile.                                                 *)
(***************************************************************************)
Meanwhile ==
  /\ changes < MaxChanges /\ changes' = changes + 1
  /\ UNCHANGED <<objects, tokens, pc, req, work, answer, did>>
  /\ Remember

\* One write changes what there is to read in several commands, such as a list a binding
\* is in and the policy it names.
Rewrite(those) == facts # those /\ facts' = those /\ UNCHANGED <<secrets, live>> /\ Meanwhile

\* Secrets are not deleted: the DELETE of one looks for a Namespace of its name.
ReplaceSecret(s, content) ==
  /\ secrets[s] # content /\ secrets' = [secrets EXCEPT ![s] = content]
  /\ UNCHANGED <<facts, live>> /\ Meanwhile

EndSession(k) ==
  /\ Held(k) # {} /\ secrets' = [secrets EXCEPT ![k] = Gone]
  /\ UNCHANGED <<facts, live>> /\ Meanwhile

\* A token's time runs out; a session's token may outlive its session.
EndToken(t) == t \in live /\ live' = live \ {t} /\ UNCHANGED <<facts, secrets>> /\ Meanwhile

Init ==
  /\ objects = [a \in Places |-> None]
  /\ secrets \in [Secrets \cup SessionKeys -> Contents \cup {None}]
  /\ \A k \in SessionKeys : secrets[k] = None
  /\ tokens = Granted /\ live = {t \in Tokens : Granted[t] # None}
  /\ facts \in Starts /\ changes = 0
  /\ pc = [p \in Procs |-> "idle"] /\ req = [p \in Procs |-> None]
  /\ work = [p \in Procs |-> Blank]
  /\ answer = [p \in Procs |-> None] /\ did = [p \in Procs |-> FALSE]
  /\ seen = [p \in Procs |-> Nothing]

Next ==
  \/ \E p \in Procs :
       \/ \E r \in Requests : Arrive(p, r)
       \/ Retrieve(p) \/ FindSession(p) \/ Learn(p) \/ Permitted(p) \/ Refused(p)
       \/ DoNothing(p) \/ Read(p) \/ Reject(p) \/ Check(p) \/ Save(p)
       \/ Look(p) \/ Miss(p) \/ Remove(p)
       \/ FindKey(p) \/ Sign(p) \/ Grant(p) \/ AssumeKeys(p) \/ Assume(p) \/ Confirm(p) \/ Fail(p)
       \/ Done(p)
  \/ \E those \in SUBSET Facts : Rewrite(those)
  \/ \E s \in Secrets, content \in Contents : ReplaceSecret(s, content)
  \/ \E k \in SessionKeys : EndSession(k)
  \/ \E t \in Tokens : EndToken(t)

Spec == Init /\ [][Next]_vars

-----------------------------------------------------------------------------
(***************************************************************************)
(* Properties.                                                             *)
(***************************************************************************)
\* Names are stored as URLs name them, in lower case: what was saved can be read.
TypeOK ==
  /\ objects \in [Places -> Values \cup {None}]
  /\ \A a \in Places : objects[a] # None => Small[a.name] = a.name /\ Small[a.namespace] = a.namespace
  /\ \A s \in Secrets : secrets[s] \in Contents \cup {None}
  /\ \A k \in SessionKeys : \A content \in Held(k) : content.key = k /\ content.owner \in Sessions
  /\ tokens \in [Tokens -> Accounts \cup Sessions \cup {None}]
  /\ live \subseteq {t \in Tokens : tokens[t] # None}
  /\ facts \subseteq Facts \cup UNION Starts /\ changes \in 0..MaxChanges
  /\ \A p \in Procs : pc[p] = "idle" \/ req[p] \in Requests
  /\ \A p \in Procs : pc[p] = "answered" <=> answer[p] # None

\* The request p is answered in this step.
Ends(p) == pc[p] \notin {"idle", "answered"} /\ pc'[p] = "answered"

\* Its token was good, its owner was someone whom certain facts give leave, and each
\* of these facts held, at moments of the request.
Entitled(p) ==
  /\ seen[p].tokens # {}
  /\ \E g \in Grounds :
       g.who \in seen[p].acting /\ g.asked = Asked(req[p]) /\ g.facts \subseteq seen[p].facts

\* Who may have stored, removed or assumed what this step did.
WriteIsAllowed ==
  /\ \A a \in Places : objects'[a] # objects[a] =>
       \E p \in Procs :
         /\ Ends(p) /\ req[p].op = "iam" /\ Entitled(p)
         /\ IF objects'[a] = None
              THEN req[p].method = "DELETE" /\ a = Looked(Lowered(req[p].url))
              ELSE req[p].method \in {"PUT", "POST"} /\ a = Address(Lowered(req[p].url))
  /\ \A k \in SessionKeys : secrets'[k] # secrets[k] /\ changes' = changes =>
       \E p \in Procs :
         /\ Ends(p) /\ req[p].op = "assume" /\ Entitled(p)
         /\ IF secrets[k] = None
              THEN secrets'[k].owner = req[p].name /\ secrets'[k].role = req[p].role
              ELSE <<req[p].name, secrets[k].owner>> \in Covers

\* An object changes only by a PUT, POST or DELETE whose URL means it, a session is
\* made only for the name and role a request gives, and taken only from a name that
\* request's pattern meets; and that request was entitled, each thing its leave
\* rests on at some moment of it: nothing revoked before a request began helps it.
WrittenByAllowed == [][WriteIsAllowed]_vars

\* Whose token this step may have granted.
GrantIsSigned ==
  \A t \in Tokens : tokens'[t] # tokens[t] =>
    \E p \in Procs :
      /\ Ends(p) /\ req[p].op = "auth"
      /\ \E had \in seen[p].held : had[1] \in seen[p].found /\ had[2].secret = req[p].secret
      /\ \E had \in seen[p].held : had[1] \in seen[p].found /\ had[2].owner = tokens'[t]

\* A token is granted for an owner, and to a request signed with a secret, of Secrets
\* or sessions that its key found, each at some moment of the request: unless one is
\* replaced meanwhile, or the key finds several, for the owner of the secret that
\* signed.
TokenOfSigner == [][GrantIsSigned]_vars

\* What a status says of a request to /iam: refused, it changed nothing; done, it
\* changed what a PUT, POST or DELETE is to change, but for what is answered alike
\* and for a DELETE of what another request removed, or stored, meanwhile.
AnswerFits ==
  \A p \in Procs : pc[p] = "answered" /\ req[p].op = "iam" =>
    /\ answer[p] \in {400, 401, 404} => ~did[p]
    /\ answer[p] = 200 =>
         \/ did[p] \/ req[p].method = "GET" \/ Idle(req[p])
         \/ req[p].method = "DELETE" /\ None \in seen[p].there /\ seen[p].there # {None}
===============================================================================
