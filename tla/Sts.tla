--------------------------------- MODULE Sts ---------------------------------
(***************************************************************************)
(* pkg/sts/redis.go: session credentials and tokens, kept in Redis under   *)
(*   @:secret:<session name>:<credential key>      @:token:<token id>      *)
(* with a time to live.  Requests run concurrently and interleave at their *)
(* Redis commands; time passes between the commands.                       *)
(*                                                                         *)
(* A key is random and used once, so credentials and tokens are numbered   *)
(* in the order they are made.  KEYS followed by GET of one credential key *)
(* is one step (the key, once gone, never returns); KEYS by session name   *)
(* and the GET of a key it listed are two, since the name may be assumed   *)
(* again in between.  Authorisation of /sts/assume and of a plain token is *)
(* not part of this module.                                                *)
(***************************************************************************)
EXTENDS Integers, Sequences

CONSTANTS
  Procs,         \* requests in progress
  Names,         \* session names
  Covers,        \* pairs <<n, m>>: the pattern @:secret:n:* meets keys of name m
  Roles,
  Durations,     \* durations a caller may ask for, in ticks
  PlainLife,     \* the time.Hour of a token granted to a Secret
  Never,         \* the end of an entry without a time to live
  MaxCredentials, MaxTokens, MaxNow   \* bounds of the model

ASSUME TimesAssumption ==
  /\ Durations \subseteq Int /\ PlainLife \in Nat \ {0} /\ Never \notin Int
  /\ MaxCredentials \in Nat /\ MaxTokens \in Nat /\ MaxNow \in Nat

\* A name's own keys always meet its pattern.
ASSUME CoversAssumption == Covers \subseteq Names \X Names /\ \A n \in Names : <<n, n>> \in Covers

VARIABLES
  now,      \* the clock
  issued,   \* every credential made, in order
  stored,   \* the end of the stored credentials' lives, by number
  tokens,   \* every token stored, in order
  pc,       \* what each request does next
  work      \* the local variables of each request

vars == <<now, issued, stored, tokens, pc, work>>

\* "lag", "done" and "before" record history: the time between the making of a
\* credential and its commit, whether it was committed, and the credentials
\* already stored when its Assume began.
Credential ==
  [name : Names, role : Roles, duration : Durations, began : Nat,
   lag : Nat, done : BOOLEAN, before : SUBSET Nat]

\* cred is 0 for a token granted to a Secret; "lag" is the time its grant took.
Token == [cred : Nat, expireAt : Int, until : Int \cup {Never}, lag : Nat, asked : Int]

Local == [cred : Nat, found : SUBSET Nat, token : Nat, ttl : Int, since : Nat, asked : Int]

Idle == [cred |-> 0, found |-> {}, token |-> 0, ttl |-> 0, since |-> 0, asked |-> 0]

Steps == {"idle", "assume keys", "assume commit", "grant compute", "grant set",
          "access keys", "access get", "answered"}

ExpireAt(c) == issued[c].began + issued[c].duration

\* Redis answers with an entry until the end of its life.
Lives(until) == until # Never => now < until

Live(c) == c \in DOMAIN stored /\ Lives(stored[c])

\* KEYS @:secret:<name>:*
KeysOf(name) == {c \in DOMAIN stored : Live(c) /\ <<name, issued[c].name>> \in Covers}

\* go-redis' SET: a duration that is not positive sets no time to live.
Until(ttl) == IF ttl > 0 THEN now + ttl ELSE Never

Goto(p, step, local) == pc' = [pc EXCEPT ![p] = step] /\ work' = [work EXCEPT ![p] = local]

-----------------------------------------------------------------------------
(***************************************************************************)
(* Assume: make a credential, look for those of its name, replace them.    *)
(***************************************************************************)
AssumeBegin(p) ==
  /\ pc[p] = "idle" /\ Len(issued) < MaxCredentials
  /\ \E name \in Names, role \in Roles, d \in Durations :
       issued' = Append(issued,
         [name |-> name, role |-> role, duration |-> d, began |-> now,
          lag |-> 0, done |-> FALSE, before |-> DOMAIN stored])
  /\ Goto(p, "assume keys", [Idle EXCEPT !.cred = Len(issued) + 1])
  /\ UNCHANGED <<now, stored, tokens>>

AssumeKeys(p) ==
  /\ pc[p] = "assume keys"
  /\ Goto(p, "assume commit", [work[p] EXCEPT !.found = KeysOf(issued[work[p].cred].name)])
  /\ UNCHANGED <<now, issued, stored, tokens>>

\* Mutant: the credentials found are left in place.
AssumeCommitKeeping(p) ==
  LET c == work[p].cred IN
  /\ pc[p] = "assume commit"
  /\ stored' = [x \in DOMAIN stored \cup {c} |->
                  IF x = c THEN Until(issued[c].duration) ELSE stored[x]]
  /\ issued' = [issued EXCEPT ![c].lag = now - issued[c].began, ![c].done = TRUE]
  /\ Goto(p, "idle", Idle)
  /\ UNCHANGED <<now, tokens>>

\* The transaction: DEL of the keys found, SET of the new one.
AssumeCommit(p) ==
  LET c == work[p].cred IN
  /\ pc[p] = "assume commit"
  /\ stored' = [x \in (DOMAIN stored \ work[p].found) \cup {c} |->
                  IF x = c THEN Until(issued[c].duration) ELSE stored[x]]
  /\ issued' = [issued EXCEPT ![c].lag = now - issued[c].began, ![c].done = TRUE]
  /\ Goto(p, "idle", Idle)
  /\ UNCHANGED <<now, tokens>>

-----------------------------------------------------------------------------
(***************************************************************************)
(* Grant: a token for a credential, or for a Secret.                       *)
(***************************************************************************)

\* The credential must still be stored; "since" is when the grant began.
GrantFind(p) ==
  /\ pc[p] = "idle" /\ Len(tokens) < MaxTokens
  /\ \E c \in DOMAIN stored :
       Live(c) /\ Goto(p, "grant compute", [Idle EXCEPT !.cred = c, !.since = now])
  /\ UNCHANGED <<now, issued, stored, tokens>>

\* Mutant: the token of a credential gets the duration of any other token.
GrantComputeWhole(p) ==
  /\ pc[p] = "grant compute"
  /\ Goto(p, "grant set", [work[p] EXCEPT !.ttl = PlainLife])
  /\ UNCHANGED <<now, issued, stored, tokens>>

\* The token is to live as long as the credential does.
GrantCompute(p) ==
  /\ pc[p] = "grant compute"
  /\ Goto(p, "grant set", [work[p] EXCEPT !.ttl = ExpireAt(work[p].cred) - now])
  /\ UNCHANGED <<now, issued, stored, tokens>>

\* A Secret's token: the duration asked for is read, and not used.
GrantPlain(p) ==
  /\ pc[p] = "idle" /\ Len(tokens) < MaxTokens
  /\ \E d \in Durations :
       Goto(p, "grant set", [Idle EXCEPT !.ttl = PlainLife, !.since = now, !.asked = d])
  /\ UNCHANGED <<now, issued, stored, tokens>>

GrantSet(p) ==
  LET w == work[p] IN
  /\ pc[p] = "grant set" /\ Len(tokens) < MaxTokens
  /\ tokens' = Append(tokens,
       [cred |-> w.cred, until |-> Until(w.ttl), lag |-> now - w.since, asked |-> w.asked,
        expireAt |-> IF w.cred = 0 THEN w.since + PlainLife ELSE ExpireAt(w.cred)])
  /\ Goto(p, "idle", Idle)
  /\ UNCHANGED <<now, issued, stored>>

-----------------------------------------------------------------------------
(***************************************************************************)
(* Access by a session token: the role is looked up by the session's name. *)
(***************************************************************************)

\* Mutant: a Secret's token is looked up by session name too.
AccessRetrieveAny(p) ==
  /\ pc[p] = "idle"
  /\ \E t \in DOMAIN tokens :
       /\ Lives(tokens[t].until)
       /\ Goto(p, "access keys", [Idle EXCEPT !.token = t])
  /\ UNCHANGED <<now, issued, stored, tokens>>

\* Only a token whose id starts with "!STS-" has a session name.
AccessRetrieve(p) ==
  /\ pc[p] = "idle"
  /\ \E t \in DOMAIN tokens :
       /\ tokens[t].cred # 0 /\ Lives(tokens[t].until)
       /\ Goto(p, "access keys", [Idle EXCEPT !.token = t])
  /\ UNCHANGED <<now, issued, stored, tokens>>

\* Some key that KEYS lists; none is an error.
AccessKeys(p) ==
  LET name == issued[tokens[work[p].token].cred].name IN
  /\ pc[p] = "access keys"
  /\ IF KeysOf(name) = {} THEN Goto(p, "idle", Idle)
     ELSE \E c \in KeysOf(name) : Goto(p, "access get", [work[p] EXCEPT !.cred = c])
  /\ UNCHANGED <<now, issued, stored, tokens>>

\* The role's policies are those of the credential read; a key that is gone by
\* now is an error.
AccessGet(p) ==
  /\ pc[p] = "access get"
  /\ IF Live(work[p].cred) THEN Goto(p, "answered", work[p]) ELSE Goto(p, "idle", Idle)
  /\ UNCHANGED <<now, issued, stored, tokens>>

AccessEnd(p) ==
  /\ pc[p] = "answered"
  /\ Goto(p, "idle", Idle)
  /\ UNCHANGED <<now, issued, stored, tokens>>

-----------------------------------------------------------------------------
\* Redis fails, or the server stops: the request ends where it is.
Abandon(p) ==
  /\ pc[p] \notin {"idle", "answered"}
  /\ Goto(p, "idle", Idle)
  /\ UNCHANGED <<now, issued, stored, tokens>>

Tick ==
  /\ now < MaxNow
  /\ now' = now + 1
  /\ UNCHANGED <<issued, stored, tokens, pc, work>>

Init ==
  /\ now = 0
  /\ issued = <<>>
  /\ stored = <<>>
  /\ tokens = <<>>
  /\ pc = [p \in Procs |-> "idle"]
  /\ work = [p \in Procs |-> Idle]

Next ==
  \/ Tick
  \/ \E p \in Procs :
       \/ AssumeBegin(p) \/ AssumeKeys(p) \/ AssumeCommit(p)
       \/ GrantFind(p) \/ GrantCompute(p) \/ GrantPlain(p) \/ GrantSet(p)
       \/ AccessRetrieve(p) \/ AccessKeys(p) \/ AccessGet(p) \/ AccessEnd(p)
       \/ Abandon(p)

Spec == Init /\ [][Next]_vars

-----------------------------------------------------------------------------
(***************************************************************************)
(* Properties.                                                             *)
(***************************************************************************)

\* A request that is past its first step knows a credential or a token.
WorkOK(step, w) ==
  /\ step \in {"assume keys", "assume commit", "grant compute", "access get", "answered"} =>
       w.cred \in DOMAIN issued
  /\ step \in {"grant compute", "grant set"} => w.since <= now
  /\ step = "grant set" => w.cred \in DOMAIN issued \cup {0}
  /\ step \in {"access keys", "access get", "answered"} =>
       w.token \in DOMAIN tokens /\ tokens[w.token].cred # 0

TypeOK ==
  /\ now \in Nat
  /\ issued \in Seq(Credential)
  /\ \A c \in DOMAIN issued : issued[c].began <= now
  /\ DOMAIN stored \subseteq DOMAIN issued
  /\ \A c \in DOMAIN stored : stored[c] \in Int \cup {Never}
  /\ tokens \in Seq(Token)
  /\ \A t \in DOMAIN tokens : tokens[t].cred \in DOMAIN issued \cup {0}
  /\ pc \in [Procs -> Steps] /\ work \in [Procs -> Local]
  /\ \A p \in Procs : WorkOK(pc[p], work[p])

\* An Assume that committed leaves nothing of its name that was stored when it
\* began: two credentials of a name are alive only if their Assumes overlapped.
AssumeReplaces ==
  \A c \in DOMAIN issued : issued[c].done =>
    \A old \in issued[c].before :
      <<issued[c].name, issued[old].name>> \in Covers => ~Live(old)

\* An Access never answers with the role of a credential that the session's own
\* credential has replaced, though it finds the role by the session's name.
NeverReplacedRole ==
  \A p \in Procs : pc[p] = "answered" =>
    work[p].cred \notin issued[tokens[work[p].token].cred].before

\* A session token outlives its credential's expireAt by no more than the grant
\* took; it lives for ever only if making the credential or the grant took time
\* or the duration asked for was not positive.
TokenLife ==
  \A t \in DOMAIN tokens :
    LET token == tokens[t]  cred == issued[token.cred] IN
    token.cred # 0 /\ cred.duration > 0 =>
      IF token.until = Never THEN cred.lag + token.lag > 0
      ELSE token.until <= token.expireAt + token.lag

\* Only a committed credential is stored, and its life counts from its commit.
StoredOK ==
  \A c \in DOMAIN stored :
    /\ issued[c].done
    /\ stored[c] = IF issued[c].duration > 0
                     THEN ExpireAt(c) + issued[c].lag ELSE Never

\* What was stored before a credential was made had been committed.
BeforeOK ==
  \A c \in DOMAIN issued : \A old \in issued[c].before : old \in DOMAIN issued /\ issued[old].done

Assuming(step) == step \in {"assume keys", "assume commit"}

\* An Assume in progress has a credential that is not committed yet; past its KEYS,
\* it has found all it will have to replace that is still alive.
AssumeFits(step, w) ==
  /\ Assuming(step) => ~issued[w.cred].done
  /\ step = "assume commit" =>
       \A old \in issued[w.cred].before :
         <<issued[w.cred].name, issued[old].name>> \in Covers => old \in w.found \/ ~Live(old)

\* A grant in progress found its credential alive when it began, and computes what
\* remained of it at some moment between.
GrantFits(step, w) ==
  /\ step = "grant compute" => w.cred # 0
  /\ step \in {"grant compute", "grant set"} /\ w.cred # 0 =>
       /\ issued[w.cred].done
       /\ issued[w.cred].duration > 0 => w.since < ExpireAt(w.cred) + issued[w.cred].lag
  /\ step = "grant set" /\ w.cred # 0 =>
       ExpireAt(w.cred) - now <= w.ttl /\ w.ttl <= ExpireAt(w.cred) - w.since

\* An Access does not choose a credential that the session's own replaced.
AccessFits(step, w) ==
  step \in {"access get", "answered"} => w.cred \notin issued[tokens[w.token].cred].before

LocalOK ==
  \A p \in Procs :
    AssumeFits(pc[p], work[p]) /\ GrantFits(pc[p], work[p]) /\ AccessFits(pc[p], work[p])

\* No two Assumes make the same credential.
OwnCredential ==
  \A p, q \in Procs :
    Assuming(pc[p]) /\ Assuming(pc[q]) /\ work[p].cred = work[q].cred => p = q

\* A session's credential was committed when it was granted for.
SessionOK ==
  \A t \in DOMAIN tokens : tokens[t].cred # 0 =>
    issued[tokens[t].cred].done /\ tokens[t].expireAt = ExpireAt(tokens[t].cred)

IInv ==
  /\ TypeOK /\ StoredOK /\ BeforeOK /\ SessionOK /\ AssumeReplaces /\ TokenLife
  /\ OwnCredential /\ LocalOK

-----------------------------------------------------------------------------
(***************************************************************************)
(* What the documentation or the clients say, and the code does not do.    *)
(***************************************************************************)

\* App.tsx takes a token for gone once its expireAt has passed: so does the store,
\* for a token whose grant took no time.
ExpiredTokenGone ==
  \A t \in DOMAIN tokens :
    tokens[t].lag = 0 /\ Lives(tokens[t].until) => now <= tokens[t].expireAt

\* README.md: credentials from assumeRole "get policy from Role": the role that was
\* assumed.
SessionRole ==
  \A p \in Procs : pc[p] = "answered" =>
    issued[work[p].cred].role = issued[tokens[work[p].token].cred].role

\* README.md, /sts/auth: "durationSeconds int" is how long the token lives.
LifeAsAsked ==
  \A t \in DOMAIN tokens :
    tokens[t].cred = 0 /\ tokens[t].asked > 0 /\ tokens[t].lag = 0 =>
      tokens[t].until = tokens[t].expireAt - PlainLife + tokens[t].asked
===============================================================================
