----------------------------- MODULE ServerProofs -----------------------------
(***************************************************************************)
(* Proofs about Server, for any requests, tokens, keys, grounds and        *)
(* changes of what is stored.                                              *)
(***************************************************************************)
EXTENDS Server, TLAPS

USE DEF world

-----------------------------------------------------------------------------
(***************************************************************************)
(* The inductive invariant.                                                *)
(***************************************************************************)
Working == {"access", "session", "learn", "do", "save", "remove", "commit"}
Signing == {"find", "sign", "grant", "issue"}
Steps == {"idle", "answered"} \cup Working \cup Signing
Statuses == {200, 400, 401, 404, 500}

\* The types of what is shared, and of what requests hold.
WorldOK ==
  /\ objects \in [Places -> Values \cup {None}]
  /\ \A a \in Places : objects[a] # None => Small[a.name] = a.name /\ Small[a.namespace] = a.namespace
  /\ DOMAIN secrets = Secrets \cup SessionKeys
  /\ \A s \in Secrets : secrets[s] \in Contents \cup {None}
  /\ \A k \in SessionKeys : \A content \in Held(k) : content.key = k /\ content.owner \in Sessions
  /\ tokens \in [Tokens -> Accounts \cup Sessions \cup {None}]
  /\ live \subseteq {t \in Tokens : tokens[t] # None}
  /\ facts \subseteq Facts \cup UNION Starts /\ changes \in 0..MaxChanges

ProcsOK ==
  /\ pc \in [Procs -> Steps] /\ req \in [Procs -> Requests \cup {None}]
  /\ answer \in [Procs -> Statuses \cup {None}] /\ did \in [Procs -> BOOLEAN]
  /\ DOMAIN work = Procs
  /\ \A p \in Procs : pc[p] = "idle" \/ req[p] \in Requests
  /\ \A p \in Procs : pc[p] = "answered" <=> answer[p] # None

InProgress(p) == pc[p] \notin {"idle", "answered"}

Within(a, b) == \A field \in DOMAIN Nothing : a[field] \subseteq b[field]

\* What holds now is in the history of a request in progress.
NowSeen(p) == InProgress(p) => Within(Witness(p), seen[p])

\* A request is where it may be, and has not changed anything before it is answered.
PlaceHolds(p) ==
  /\ pc[p] \in Working => req[p].op # "auth" /\ tokens[req[p].token] # None
  /\ pc[p] \in Signing => req[p].op = "auth"
  /\ pc[p] = "save" => req[p].op = "iam" /\ req[p].method \in {"PUT", "POST"} /\ Fits(req[p])
  /\ pc[p] = "remove" => req[p].op = "iam" /\ req[p].method = "DELETE"
  /\ pc[p] = "commit" => req[p].op = "assume"
  /\ pc[p] # "answered" => did[p] = FALSE

\* What a request knows holds: whom it acts for, what is of its name, what it found.
WorkHolds(p) ==
  /\ pc[p] = "session" =>
       /\ tokens[req[p].token] \in Sessions
       /\ work[p] = [Blank EXCEPT !.who = [owner |-> tokens[req[p].token], role |-> None]]
  /\ pc[p] = "learn" => work[p].who \in seen[p].acting /\ work[p].read \subseteq seen[p].facts
  /\ pc[p] = "commit" =>
       /\ work[p].keys \subseteq SessionKeys
       /\ \A k \in work[p].keys :
            secrets[k] # None /\ \A content \in Held(k) : <<req[p].name, content.owner>> \in Covers
  /\ pc[p] \in {"sign", "issue"} => work[p].at \in seen[p].found \cap (Secrets \cup SessionKeys)

\* Someone signed with the secret of what the key found.
Signed(p) == \E had \in seen[p].held : had[1] \in seen[p].found /\ had[2].secret = req[p].secret

\* What it is let do it was entitled to, and what it is granted it had signed for.
LeaveHolds(p) ==
  /\ pc[p] \in Working => seen[p].tokens # {}
  /\ pc[p] \in {"do", "save", "remove", "commit"} => Entitled(p)
  /\ pc[p] \in {"grant", "issue"} => Signed(p)
  /\ pc[p] = "remove" => \E value \in seen[p].there : value # None

\* What a request to /iam was answered with says what it did.
Fitting(r, status, changed, there) ==
  /\ status \in {400, 401, 404} => changed = FALSE
  /\ status = 200 =>
       \/ changed = TRUE \/ r.method = "GET" \/ Idle(r)
       \/ r.method = "DELETE" /\ None \in there /\ there # {None}

AnswerHolds(p) ==
  pc[p] = "answered" /\ req[p].op = "iam" => Fitting(req[p], answer[p], did[p], seen[p].there)

ProcHolds(p) == NowSeen(p) /\ PlaceHolds(p) /\ WorkHolds(p) /\ LeaveHolds(p) /\ AnswerHolds(p)

IInv == WorldOK /\ ProcsOK /\ \A p \in Procs : ProcHolds(p)

\* The invariant holds initially.
LEMMA InitIInv == Init => IInv
  <1> SUFFICES ASSUME Init PROVE IInv
    OBVIOUS
  <1>1. \A p \in Procs : pc[p] = "idle" /\ answer[p] = None /\ did[p] = FALSE
    BY DEF Init
  <1>2. ProcsOK
    BY <1>1 DEF Init, ProcsOK, Steps
  <1>3. WorldOK
    <2>1. objects \in [Places -> Values \cup {None}] /\ \A a \in Places : objects[a] = None
      BY DEF Init
    <2>2. /\ DOMAIN secrets = Secrets \cup SessionKeys
          /\ \A s \in Secrets : secrets[s] \in Contents \cup {None}
          /\ \A k \in SessionKeys : secrets[k] = None
      BY DEF Init
    <2>3. tokens \in [Tokens -> Accounts \cup Sessions \cup {None}] /\ live \subseteq {t \in Tokens : tokens[t] # None}
      BY GrantedAssumption DEF Init
    <2>4. facts \subseteq Facts \cup UNION Starts
      BY DEF Init
    <2>5. changes \in 0..MaxChanges
      BY BoundAssumption DEF Init
    <2>6. \A k \in SessionKeys : Held(k) = {}
      BY <2>2 DEF Held
    <2> QED BY <2>1, <2>2, <2>3, <2>4, <2>5, <2>6 DEF WorldOK
  <1>4. ASSUME NEW p \in Procs PROVE ProcHolds(p)
    BY <1>1 DEF ProcHolds, NowSeen, InProgress, PlaceHolds, WorkHolds, LeaveHolds, AnswerHolds, Working, Signing
  <1> QED BY <1>2, <1>3, <1>4 DEF IInv

-----------------------------------------------------------------------------
(***************************************************************************)
(* History.                                                                *)
(***************************************************************************)

\* The parts of a history.
LEMMA WithinFields ==
  ASSUME NEW a, NEW b, Within(a, b)
  PROVE  /\ a.tokens \subseteq b.tokens /\ a.acting \subseteq b.acting /\ a.facts \subseteq b.facts
         /\ a.there \subseteq b.there /\ a.found \subseteq b.found /\ a.held \subseteq b.held
  BY DEF Within, Nothing

\* A step adds to the history of a request in progress, and what holds after it is there.
LEMMA Remembered ==
  ASSUME Remember, NEW p \in Procs, pc'[p] \notin {"idle", "answered"}
  PROVE  Within(seen[p], seen'[p]) /\ NowSeen(p)'
  <1> PICK now : now = Witness(p)'
    OBVIOUS
  <1>1. seen'[p] = Joined(seen[p], now)
    BY DEF Remember
  <1>2. Within(seen[p], seen'[p]) /\ Within(now, seen'[p])
    BY <1>1 DEF Joined, Within
  <1> QED BY <1>2 DEF NowSeen, InProgress, Within

\* One that is answered remembers what it had seen.
LEMMA KeptInMind ==
  ASSUME Remember, NEW p \in Procs, pc'[p] = "answered"
  PROVE  seen'[p] = seen[p] /\ NowSeen(p)'
  BY DEF Remember, NowSeen, InProgress

\* No step takes the owner from a token, or changes what a session's key had.
SharedKept ==
  /\ \A t \in Tokens : tokens[t] # None => tokens'[t] = tokens[t]
  /\ \A k \in SessionKeys : secrets[k] # None => secrets'[k] # None /\ Held(k)' \subseteq Held(k)

\* What entitles a request stays in its history.
LEMMA EntitledKept ==
  ASSUME NEW p \in Procs, req'[p] = req[p], Within(seen[p], seen'[p]), Entitled(p)
  PROVE  Entitled(p)'
  <1>1. /\ seen[p].tokens \subseteq seen'[p].tokens /\ seen[p].acting \subseteq seen'[p].acting
        /\ seen[p].facts \subseteq seen'[p].facts
    BY WithinFields
  <1>2. Asked(req[p])' = Asked(req[p])
    BY DEF Asked, ActionOf, Lowered
  <1> QED BY <1>1, <1>2 DEF Entitled

LEMMA SignedKept ==
  ASSUME NEW p \in Procs, req'[p] = req[p], Within(seen[p], seen'[p]), Signed(p)
  PROVE  Signed(p)'
  BY WithinFields DEF Signed

\* A request the step is not of.
LEMMA ProcKept ==
  ASSUME WorldOK, ProcsOK, NEW p \in Procs, ProcHolds(p), SharedKept, Remember,
         pc'[p] = pc[p], req'[p] = req[p], work'[p] = work[p], answer'[p] = answer[p], did'[p] = did[p]
  PROVE  ProcHolds(p)'
  <1>1. CASE pc[p] = "idle"
    BY <1>1 DEF ProcHolds, NowSeen, InProgress, PlaceHolds, WorkHolds, LeaveHolds, AnswerHolds, Working, Signing
  <1>2. CASE pc[p] = "answered"
    <2>1. seen'[p] = seen[p] /\ NowSeen(p)'
      BY <1>2, KeptInMind
    <2>2. AnswerHolds(p)'
      <3> SUFFICES ASSUME req'[p].op = "iam"
                   PROVE  /\ answer'[p] \in {400, 401, 404} => did'[p] = FALSE
                          /\ answer'[p] = 200 =>
                               \/ did'[p] = TRUE \/ req'[p].method = "GET" \/ Idle(req'[p])
                               \/ req'[p].method = "DELETE" /\ None \in seen'[p].there /\ seen'[p].there # {None}
        BY DEF AnswerHolds, Fitting, Idle, Registered
      <3>1. Fitting(req[p], answer[p], did[p], seen[p].there)
        BY <1>2 DEF ProcHolds, AnswerHolds
      <3>2. /\ answer[p] \in {400, 401, 404} => did[p] = FALSE
            /\ answer[p] = 200 =>
                 \/ did[p] = TRUE \/ req[p].method = "GET" \/ Idle(req[p])
                 \/ req[p].method = "DELETE" /\ None \in seen[p].there /\ seen[p].there # {None}
        BY <3>1, Zenon DEF Fitting
      <3>3. Idle(req'[p]) <=> Idle(req[p])
        BY DEF Idle
      <3> QED BY <2>1, <3>2, <3>3, ZenonT(60)
    <2> QED BY <1>2, <2>1, <2>2 DEF ProcHolds, PlaceHolds, WorkHolds, LeaveHolds, Working, Signing
  <1>3. CASE pc[p] \notin {"idle", "answered"}
    <2>1. Within(seen[p], seen'[p]) /\ NowSeen(p)'
      BY <1>3, Remembered
    <2>2. /\ seen[p].tokens \subseteq seen'[p].tokens /\ seen[p].acting \subseteq seen'[p].acting
          /\ seen[p].facts \subseteq seen'[p].facts /\ seen[p].there \subseteq seen'[p].there
          /\ seen[p].found \subseteq seen'[p].found
      BY <2>1, WithinFields
    <2>3. req[p] \in Requests /\ PlaceHolds(p) /\ WorkHolds(p) /\ LeaveHolds(p)
      BY <1>3 DEF ProcsOK, ProcHolds
    <2>4. pc[p] \in Working => req[p].token \in Tokens /\ tokens'[req[p].token] = tokens[req[p].token]
      BY <2>3, RequestsAssumption DEF PlaceHolds, SharedKept
    <2>5. PlaceHolds(p)'
      BY <2>3, <2>4 DEF PlaceHolds, Fits, Lowered, Working, Signing
    <2>6. WorkHolds(p)'
      <3>1. pc[p] = "session" => pc[p] \in Working
        BY DEF Working
      <3>2. pc[p] = "commit" => \A k \in work[p].keys : Held(k)' \subseteq Held(k) /\ secrets'[k] # None
        BY <2>3 DEF WorkHolds, SharedKept
      <3> QED BY <2>2, <2>3, <2>4, <3>1, <3>2 DEF WorkHolds
    <2>7. LeaveHolds(p)'
      <3>1. pc[p] \in {"do", "save", "remove", "commit"} => Entitled(p)'
        BY <2>1, <2>3, EntitledKept DEF LeaveHolds
      <3>2. pc[p] \in {"grant", "issue"} => Signed(p)'
        BY <2>1, <2>3, SignedKept DEF LeaveHolds
      <3>3. pc[p] \in Working => seen'[p].tokens # {}
        BY <2>2, <2>3 DEF LeaveHolds
      <3>4. pc[p] = "remove" => \E value \in seen'[p].there : value # None
        BY <2>2, <2>3 DEF LeaveHolds
      <3> QED BY <3>1, <3>2, <3>3, <3>4 DEF LeaveHolds, Working
    <2> QED BY <1>3, <2>1, <2>5, <2>6, <2>7 DEF ProcHolds, AnswerHolds
  <1> QED BY <1>1, <1>2, <1>3

\* A step of one request, seen by the others.
LEMMA OneMoves ==
  ASSUME IInv, NEW p \in Procs, SharedKept, Remember, WorldOK', ProcsOK', ProcHolds(p)',
         \A q \in Procs \ {p} : /\ pc'[q] = pc[q] /\ req'[q] = req[q] /\ work'[q] = work[q]
                                /\ answer'[q] = answer[q] /\ did'[q] = did[q]
  PROVE  IInv'
  <1>1. ASSUME NEW q \in Procs PROVE ProcHolds(q)'
    <2>1. CASE q = p
      BY <2>1
    <2>2. CASE q # p
      BY <2>2, ProcKept DEF IInv
    <2> QED BY <2>1, <2>2
  <1> QED BY <1>1 DEF IInv

\* A step that changes nothing shared.
LEMMA WorldKept ==
  ASSUME WorldOK, UNCHANGED world
  PROVE  WorldOK' /\ SharedKept
  BY DEF WorldOK, SharedKept, Held

\* A request goes on: what Goto leaves.
LEMMA Gone_On ==
  ASSUME IInv, NEW p \in Procs, NEW step \in Working \cup Signing, NEW local, Goto(p, step, local),
         InProgress(p)
  PROVE  /\ pc'[p] = step /\ work'[p] = local /\ req'[p] = req[p] /\ did'[p] = FALSE /\ ProcsOK'
         /\ \A q \in Procs \ {p} : /\ pc'[q] = pc[q] /\ req'[q] = req[q] /\ work'[q] = work[q]
                                   /\ answer'[q] = answer[q] /\ did'[q] = did[q]
         /\ Remember /\ Within(seen[p], seen'[p]) /\ NowSeen(p)'
  <1>1. /\ pc' = [pc EXCEPT ![p] = step] /\ work' = [work EXCEPT ![p] = local]
        /\ UNCHANGED <<req, answer, did>> /\ Remember
    BY DEF Goto
  <1>2. ProcsOK /\ did[p] = FALSE
    BY DEF IInv, ProcHolds, PlaceHolds, InProgress
  <1>3. /\ pc'[p] = step /\ work'[p] = local
        /\ \A q \in Procs \ {p} : pc'[q] = pc[q] /\ work'[q] = work[q]
    BY <1>1, <1>2 DEF ProcsOK
  <1>4. step \notin {"idle", "answered"}
    BY DEF Working, Signing
  <1>5. ProcsOK'
    BY <1>1, <1>2, <1>3, <1>4 DEF ProcsOK, Steps, InProgress
  <1>6. Within(seen[p], seen'[p]) /\ NowSeen(p)'
    BY <1>1, <1>3, <1>4, Remembered
  <1> QED BY <1>1, <1>2, <1>3, <1>5, <1>6

\* And nothing else is written.
LEMMA Moves ==
  ASSUME IInv, NEW p \in Procs, NEW step \in Working \cup Signing, NEW local, UNCHANGED world,
         InProgress(p), Goto(p, step, local), PlaceHolds(p)', WorkHolds(p)', LeaveHolds(p)'
  PROVE  IInv'
  <1>1. WorldOK' /\ SharedKept
    BY WorldKept DEF IInv
  <1>2. pc'[p] # "answered"
    BY Gone_On DEF Working, Signing
  <1>3. ProcHolds(p)'
    BY <1>2, Gone_On DEF ProcHolds, AnswerHolds
  <1> QED BY <1>1, <1>3, Gone_On, OneMoves

\* A request is answered.
LEMMA Answers ==
  ASSUME IInv, NEW p \in Procs, InProgress(p), WorldOK', SharedKept,
         NEW status \in Statuses, NEW changed \in BOOLEAN, Answer(p, status, changed),
         req[p].op = "iam" => Fitting(req[p], status, changed, seen[p].there)
  PROVE  IInv'
  <1>1. ProcsOK
    BY DEF IInv
  <1>2. /\ pc' = [pc EXCEPT ![p] = "answered"] /\ answer' = [answer EXCEPT ![p] = status]
        /\ did' = [did EXCEPT ![p] = changed] /\ work' = [work EXCEPT ![p] = Blank] /\ req' = req /\ Remember
    BY DEF Answer
  <1>3. /\ pc'[p] = "answered" /\ answer'[p] = status /\ did'[p] = changed
        /\ \A q \in Procs \ {p} : /\ pc'[q] = pc[q] /\ answer'[q] = answer[q] /\ did'[q] = did[q]
                                  /\ work'[q] = work[q] /\ req'[q] = req[q]
    BY <1>1, <1>2 DEF ProcsOK
  <1>4. status # None
    BY NoneAssumption, ZenonT(60) DEF Statuses
  <1>5. req[p] \in Requests
    BY <1>1 DEF ProcsOK, InProgress
  <1>6. ProcsOK'
    <2>1. pc' \in [Procs -> Steps] /\ answer' \in [Procs -> Statuses \cup {None}] /\ did' \in [Procs -> BOOLEAN]
      BY <1>1, <1>2 DEF ProcsOK, Steps
    <2>2. \A q \in Procs : pc'[q] = "answered" <=> answer'[q] # None
      BY <1>1, <1>3, <1>4, ZenonT(60) DEF ProcsOK
    <2>3. \A q \in Procs : pc'[q] = "idle" \/ req[q] \in Requests
      BY <1>1, <1>3, <1>5 DEF ProcsOK
    <2> QED BY <1>1, <1>2, <2>1, <2>2, <2>3 DEF ProcsOK
  <1>7. seen'[p] = seen[p] /\ NowSeen(p)'
    BY <1>2, <1>3, KeptInMind
  <1>8. PlaceHolds(p)' /\ WorkHolds(p)' /\ LeaveHolds(p)'
    BY <1>3 DEF PlaceHolds, WorkHolds, LeaveHolds, Working, Signing
  <1>9. AnswerHolds(p)'
    <2> PICK r, there : r = req[p] /\ there = seen[p].there
      OBVIOUS
    <2>1. r.op = "iam" => Fitting(r, status, changed, there)
      OBVIOUS
    <2>2. req'[p] = r /\ seen'[p].there = there
      BY <1>2, <1>7
    <2> QED BY <1>3, <2>1, <2>2 DEF AnswerHolds, Fitting, Idle, Registered
  <1> QED BY <1>2, <1>3, <1>6, <1>7, <1>8, <1>9, OneMoves DEF ProcHolds

-----------------------------------------------------------------------------
(***************************************************************************)
(* The steps of a request.                                                 *)
(***************************************************************************)

\* A request that arrives knows nothing yet.
LEMMA ArriveHolds ==
  ASSUME IInv, NEW p \in Procs, NEW r \in Requests, Arrive(p, r)
  PROVE  IInv'
  <1>1. WorldOK /\ ProcsOK /\ pc[p] = "idle" /\ did[p] = FALSE
    BY DEF IInv, ProcHolds, Arrive, PlaceHolds
  <1>2. WorldOK' /\ SharedKept
    BY <1>1, WorldKept DEF Arrive
  <1> PICK welcome \in BOOLEAN : welcome = (r.op = "auth" \/ r.token \in live)
    OBVIOUS
  <1>3. /\ req' = [req EXCEPT ![p] = r] /\ did' = did /\ work' = work /\ Remember
        /\ pc' = [pc EXCEPT ![p] = IF ~welcome THEN "answered" ELSE IF r.op = "auth" THEN "find" ELSE "access"]
        /\ answer' = [answer EXCEPT ![p] = IF welcome THEN None ELSE 401]
    BY DEF Arrive
  <1>4. /\ req'[p] = r /\ answer'[p] = (IF welcome THEN None ELSE 401) /\ did'[p] = FALSE
        /\ pc'[p] = IF ~welcome THEN "answered" ELSE IF r.op = "auth" THEN "find" ELSE "access"
    BY <1>1, <1>3 DEF ProcsOK
  <1>5. \A q \in Procs \ {p} : /\ pc'[q] = pc[q] /\ req'[q] = req[q] /\ work'[q] = work[q]
                               /\ answer'[q] = answer[q] /\ did'[q] = did[q]
    BY <1>1, <1>3 DEF ProcsOK
  <1>6. ProcsOK'
    <2>1. pc' \in [Procs -> Steps] /\ req' \in [Procs -> Requests \cup {None}] /\ did' \in [Procs -> BOOLEAN]
      BY <1>1, <1>3 DEF ProcsOK, Steps, Working, Signing
    <2>2. answer' \in [Procs -> Statuses \cup {None}] /\ DOMAIN work' = Procs
      BY <1>1, <1>3 DEF ProcsOK, Statuses
    <2>3. \A q \in Procs : pc'[q] = "idle" \/ req'[q] \in Requests
      BY <1>1, <1>4, <1>5 DEF ProcsOK
    <2>4. pc'[p] = "answered" <=> answer'[p] # None
      BY <1>4, NoneAssumption
    <2>5. \A q \in Procs : pc'[q] = "answered" <=> answer'[q] # None
      BY <1>1, <1>5, <2>4 DEF ProcsOK
    <2> QED BY <2>1, <2>2, <2>3, <2>5 DEF ProcsOK
  <1>7. NowSeen(p)'
    BY <1>3, Remembered DEF NowSeen, InProgress
  <1>8. pc'[p] = "access" => r.op # "auth" /\ r.token \in live /\ tokens[r.token] # None /\ tokens' = tokens /\ live' = live
    BY <1>1, <1>4 DEF Arrive, WorldOK
  <1>9. PlaceHolds(p)' /\ WorkHolds(p)'
    BY <1>4, <1>8 DEF PlaceHolds, WorkHolds, Working, Signing
  <1>10. LeaveHolds(p)'
    <2>1. CASE pc'[p] = "access"
      <3> PICK now : now = Witness(p)'
        OBVIOUS
      <3>1. Within(now, seen'[p])
        BY <1>7, <2>1 DEF NowSeen, InProgress, Within
      <3>2. now.tokens = {r.token} \cap live
        BY <1>4, <1>8, <2>1 DEF Witness
      <3>3. seen'[p].tokens # {}
        BY <1>8, <2>1, <3>1, <3>2, WithinFields
      <3> QED BY <2>1, <3>3 DEF LeaveHolds
    <2>2. CASE pc'[p] # "access"
      BY <1>4, <2>2 DEF LeaveHolds, Working
    <2> QED BY <2>1, <2>2
  <1>11. AnswerHolds(p)'
    <2> SUFFICES ASSUME pc'[p] = "answered"
                 PROVE  /\ answer'[p] \in {400, 401, 404} => did'[p] = FALSE
                        /\ answer'[p] # 200
      BY DEF AnswerHolds, Fitting
    <2> QED BY <1>4
  <1> QED BY <1>2, <1>3, <1>5, <1>6, <1>7, <1>9, <1>10, <1>11, OneMoves DEF ProcHolds

\* A request that is over holds nothing.
LEMMA DoneHolds ==
  ASSUME IInv, NEW p \in Procs, Done(p)
  PROVE  IInv'
  <1>1. WorldOK /\ ProcsOK
    BY DEF IInv
  <1>2. WorldOK' /\ SharedKept
    BY <1>1, WorldKept DEF Done
  <1>3. /\ pc' = [pc EXCEPT ![p] = "idle"] /\ answer' = [answer EXCEPT ![p] = None] /\ work' = work
        /\ did' = [did EXCEPT ![p] = FALSE] /\ req' = [req EXCEPT ![p] = None] /\ Remember
    BY DEF Done
  <1>4. pc'[p] = "idle" /\ answer'[p] = None /\ did'[p] = FALSE
    BY <1>1, <1>3 DEF ProcsOK
  <1>5. \A q \in Procs \ {p} : /\ pc'[q] = pc[q] /\ req'[q] = req[q] /\ work'[q] = work[q]
                               /\ answer'[q] = answer[q] /\ did'[q] = did[q]
    BY <1>1, <1>3 DEF ProcsOK
  <1>6. ProcsOK'
    <2>1. pc' \in [Procs -> Steps] /\ req' \in [Procs -> Requests \cup {None}] /\ did' \in [Procs -> BOOLEAN]
      BY <1>1, <1>3 DEF ProcsOK, Steps
    <2>2. answer' \in [Procs -> Statuses \cup {None}] /\ DOMAIN work' = Procs
      BY <1>1, <1>3 DEF ProcsOK
    <2>3. \A q \in Procs : pc'[q] = "idle" \/ req'[q] \in Requests
      BY <1>1, <1>4, <1>5 DEF ProcsOK
    <2>4. \A q \in Procs : pc'[q] = "answered" <=> answer'[q] # None
      BY <1>1, <1>4, <1>5 DEF ProcsOK
    <2> QED BY <2>1, <2>2, <2>3, <2>4 DEF ProcsOK
  <1>7. ProcHolds(p)'
    BY <1>4 DEF ProcHolds, NowSeen, InProgress, PlaceHolds, WorkHolds, LeaveHolds, AnswerHolds, Working, Signing
  <1> QED BY <1>2, <1>3, <1>5, <1>6, <1>7, OneMoves

\* What a request in progress may go by.
LEMMA Knowledge ==
  ASSUME IInv, NEW p \in Procs, InProgress(p)
  PROVE  /\ WorldOK /\ ProcsOK /\ PlaceHolds(p) /\ WorkHolds(p) /\ LeaveHolds(p) /\ req[p] \in Requests
         /\ Witness(p).acting \subseteq seen[p].acting /\ Witness(p).facts \subseteq seen[p].facts
         /\ Witness(p).there \subseteq seen[p].there /\ Witness(p).found \subseteq seen[p].found
         /\ Witness(p).held \subseteq seen[p].held
  <1>1. WorldOK /\ ProcsOK /\ ProcHolds(p)
    BY DEF IInv
  <1>2. Within(Witness(p), seen[p])
    BY <1>1 DEF ProcHolds, NowSeen
  <1> QED BY <1>1, <1>2, WithinFields DEF ProcHolds, ProcsOK, InProgress

\* Access finds out whom the token is of.
LEMMA RetrieveHolds ==
  ASSUME IInv, NEW p \in Procs, Retrieve(p)
  PROVE  IInv'
  <1>1. pc[p] = "access" /\ InProgress(p) /\ UNCHANGED world
    BY DEF Retrieve, InProgress
  <1> PICK owner, step, local :
         /\ owner = tokens[req[p].token] /\ step = (IF owner \in Sessions THEN "session" ELSE "learn")
         /\ local = [Blank EXCEPT !.who = [owner |-> owner, role |-> None]]
    OBVIOUS
  <1>2. Goto(p, step, local)
    BY DEF Retrieve
  <1>3. step \in Working \cup Signing /\ local.who = [owner |-> owner, role |-> None] /\ local.read = {}
    BY DEF Working, Blank
  <1>4. /\ pc'[p] = step /\ work'[p] = local /\ req'[p] = req[p] /\ did'[p] = FALSE
        /\ Within(seen[p], seen'[p])
    BY <1>1, <1>2, <1>3, Gone_On
  <1>5. /\ req[p].op # "auth" /\ tokens[req[p].token] # None /\ seen[p].tokens # {}
        /\ Witness(p).acting \subseteq seen[p].acting
    BY <1>1, Knowledge DEF PlaceHolds, LeaveHolds, Working
  <1>6. seen[p].tokens \subseteq seen'[p].tokens /\ seen[p].acting \subseteq seen'[p].acting
    BY <1>4, WithinFields
  <1>7. owner \notin Sessions => local.who \in seen'[p].acting
    <2> SUFFICES ASSUME owner \notin Sessions PROVE local.who \in seen'[p].acting
      OBVIOUS
    <2>1. local.who \in Acting(req[p].token)
      BY <1>3 DEF Acting
    <2>2. Witness(p).acting = Acting(req[p].token)
      BY <1>5 DEF Witness
    <2> QED BY <1>5, <1>6, <2>1, <2>2
  <1>8. PlaceHolds(p)'
    BY <1>1, <1>4, <1>5 DEF PlaceHolds, Working, Signing
  <1>9. WorkHolds(p)'
    BY <1>1, <1>3, <1>4, <1>7 DEF WorkHolds
  <1>10. LeaveHolds(p)'
    BY <1>4, <1>5, <1>6 DEF LeaveHolds
  <1> QED BY <1>1, <1>2, <1>3, <1>8, <1>9, <1>10, Moves

\* The role is that of a credential which has the session's name now.
LEMMA FindSessionHolds ==
  ASSUME IInv, NEW p \in Procs, FindSession(p)
  PROVE  IInv'
  <1>1. pc[p] = "session" /\ InProgress(p) /\ UNCHANGED world
    BY DEF FindSession, InProgress
  <1> PICK k \in Named(work[p].who.owner) : Goto(p, "learn", [work[p] EXCEPT !.who.role = secrets[k].role])
    BY DEF FindSession
  <1> PICK local : local = [work[p] EXCEPT !.who.role = secrets[k].role]
    OBVIOUS
  <1> PICK owner : owner = tokens[req[p].token]
    OBVIOUS
  <1>2. /\ req[p].op # "auth" /\ owner # None /\ seen[p].tokens # {} /\ owner \in Sessions
        /\ work[p] = [Blank EXCEPT !.who = [owner |-> owner, role |-> None]]
        /\ Witness(p).acting \subseteq seen[p].acting
    BY <1>1, Knowledge DEF PlaceHolds, LeaveHolds, WorkHolds, Working
  <1>3. pc'[p] = "learn" /\ work'[p] = local /\ req'[p] = req[p] /\ did'[p] = FALSE /\ Within(seen[p], seen'[p])
    <2>1. "learn" \in Working \cup Signing
      BY DEF Working
    <2>2. Goto(p, "learn", local)
      OBVIOUS
    <2> QED BY <1>1, <2>1, <2>2, Gone_On
  <1>4. seen[p].tokens \subseteq seen'[p].tokens /\ seen[p].acting \subseteq seen'[p].acting
    BY <1>3, WithinFields
  <1>5. k \in Named(owner) /\ local.read = {} /\ local.who = [owner |-> owner, role |-> secrets[k].role]
    BY <1>2 DEF Blank
  <1>6. [owner |-> owner, role |-> secrets[k].role] \in Witness(p).acting
    BY <1>2, <1>5 DEF Witness, Acting
  <1>7. PlaceHolds(p)'
    BY <1>1, <1>2, <1>3 DEF PlaceHolds, Working, Signing
  <1>8. WorkHolds(p)'
    <2>1. local.who \in seen'[p].acting
      BY <1>2, <1>4, <1>5, <1>6
    <2>2. work'[p].who = local.who /\ work'[p].read = {}
      BY <1>3, <1>5
    <2> QED BY <1>3, <2>1, <2>2 DEF WorkHolds
  <1>9. LeaveHolds(p)'
    BY <1>2, <1>3, <1>4 DEF LeaveHolds
  <1>10. "learn" \in Working \cup Signing
    BY DEF Working
  <1> QED BY <1>1, <1>7, <1>8, <1>9, <1>10, Moves

\* What is read holds as it is read.
LEMMA LearnHolds ==
  ASSUME IInv, NEW p \in Procs, Learn(p)
  PROVE  IInv'
  <1>1. pc[p] = "learn" /\ InProgress(p) /\ UNCHANGED world
    BY DEF Learn, InProgress
  <1> PICK f \in facts : Goto(p, "learn", [work[p] EXCEPT !.read = @ \cup {f}])
    BY DEF Learn
  <1> PICK old : old = work[p]
    OBVIOUS
  <1> PICK local : local = [work[p] EXCEPT !.read = @ \cup {f}]
    OBVIOUS
  <1>2. /\ req[p].op # "auth" /\ tokens[req[p].token] # None /\ seen[p].tokens # {}
        /\ work[p].who \in seen[p].acting /\ work[p].read \subseteq seen[p].facts
        /\ Witness(p).facts \subseteq seen[p].facts
    BY <1>1, Knowledge DEF PlaceHolds, LeaveHolds, WorkHolds, Working
  <1>3. pc'[p] = "learn" /\ work'[p] = local /\ req'[p] = req[p] /\ did'[p] = FALSE /\ Within(seen[p], seen'[p])
    <2>1. "learn" \in Working \cup Signing
      BY DEF Working
    <2>2. Goto(p, "learn", local)
      OBVIOUS
    <2> QED BY <1>1, <2>1, <2>2, Gone_On
  <1>4. /\ seen[p].tokens \subseteq seen'[p].tokens /\ seen[p].acting \subseteq seen'[p].acting
        /\ seen[p].facts \subseteq seen'[p].facts
    BY <1>3, WithinFields
  <1>5. f \in seen[p].facts
    BY <1>2 DEF Witness
  <1>6. local.who = work[p].who /\ local.read \subseteq work[p].read \cup {f}
    OBVIOUS
  <1>7. PlaceHolds(p)'
    BY <1>1, <1>2, <1>3 DEF PlaceHolds, Working, Signing
  <1>8. WorkHolds(p)'
    BY <1>2, <1>3, <1>4, <1>5, <1>6 DEF WorkHolds
  <1>9. LeaveHolds(p)'
    BY <1>2, <1>3, <1>4 DEF LeaveHolds
  <1>10. "learn" \in Working \cup Signing
    BY DEF Working
  <1> QED BY <1>1, <1>7, <1>8, <1>9, <1>10, Moves

\* A request goes on with the leave it has.
LEMMA MovesEntitled ==
  ASSUME IInv, NEW p \in Procs, InProgress(p), UNCHANGED world,
         NEW step \in {"do", "save", "remove", "commit"}, NEW local, Goto(p, step, local),
         pc[p] \in Working, Entitled(p),
         step = "save" => req[p].op = "iam" /\ req[p].method \in {"PUT", "POST"} /\ Fits(req[p]),
         step = "remove" => /\ req[p].op = "iam" /\ req[p].method = "DELETE"
                            /\ \E value \in seen[p].there : value # None,
         step = "commit" =>
           /\ req[p].op = "assume" /\ local.keys \subseteq SessionKeys
           /\ \A k \in local.keys :
                secrets[k] # None /\ \A content \in Held(k) : <<req[p].name, content.owner>> \in Covers
  PROVE  IInv'
  <1>1. step \in Working \cup Signing /\ step \in Working
    BY DEF Working
  <1>2. /\ pc'[p] = step /\ work'[p] = local /\ req'[p] = req[p] /\ did'[p] = FALSE
        /\ Within(seen[p], seen'[p])
    BY <1>1, Gone_On
  <1>3. /\ seen[p].tokens \subseteq seen'[p].tokens /\ seen[p].there \subseteq seen'[p].there
    BY <1>2, WithinFields
  <1>4. req[p].op # "auth" /\ tokens[req[p].token] # None /\ seen[p].tokens # {}
    BY Knowledge DEF PlaceHolds, LeaveHolds
  <1>5. Entitled(p)'
    BY <1>2, EntitledKept
  <1>6. Fits(req[p]) => Fits(req[p])'
    BY <1>2 DEF Fits, Lowered
  <1>7. PlaceHolds(p)'
    BY <1>2, <1>4, <1>6 DEF PlaceHolds, Signing
  <1>8. \A k : Held(k)' = Held(k) /\ secrets' = secrets
    BY DEF Held
  <1>9. WorkHolds(p)'
    BY <1>2, <1>8 DEF WorkHolds
  <1>10. LeaveHolds(p)'
    BY <1>2, <1>3, <1>4, <1>5 DEF LeaveHolds
  <1> QED BY <1>1, <1>7, <1>9, <1>10, Moves

LEMMA PermittedHolds ==
  ASSUME IInv, NEW p \in Procs, Permitted(p)
  PROVE  IInv'
  <1>1. pc[p] = "learn" /\ InProgress(p) /\ UNCHANGED world /\ Goto(p, "do", Blank)
    BY DEF Permitted, InProgress
  <1> PICK g \in Grounds : g.who = work[p].who /\ g.asked = Asked(req[p]) /\ g.facts \subseteq work[p].read
    BY DEF Permitted, GroundsOf
  <1>2. work[p].who \in seen[p].acting /\ work[p].read \subseteq seen[p].facts /\ seen[p].tokens # {}
    BY <1>1, Knowledge DEF LeaveHolds, WorkHolds, Working
  <1>3. Entitled(p)
    BY <1>2 DEF Entitled
  <1> QED BY <1>1, <1>3, MovesEntitled DEF Working

LEMMA CheckHolds ==
  ASSUME IInv, NEW p \in Procs, Check(p)
  PROVE  IInv'
  <1>1. /\ pc[p] = "do" /\ InProgress(p) /\ UNCHANGED world /\ Goto(p, "save", Blank)
        /\ req[p].op = "iam" /\ req[p].method \in {"PUT", "POST"} /\ Fits(req[p])
    BY DEF Check, Serves, InProgress
  <1>2. Entitled(p)
    BY <1>1, Knowledge DEF LeaveHolds
  <1> QED BY <1>1, <1>2, MovesEntitled DEF Working

LEMMA LookHolds ==
  ASSUME IInv, NEW p \in Procs, Look(p)
  PROVE  IInv'
  <1>1. /\ pc[p] = "do" /\ InProgress(p) /\ UNCHANGED world /\ Goto(p, "remove", Blank)
        /\ req[p].op = "iam" /\ req[p].method = "DELETE" /\ objects[Looked(Lowered(req[p].url))] # None
    BY DEF Look, Removes, Serves, InProgress
  <1>2. Entitled(p) /\ Witness(p).there \subseteq seen[p].there
    BY <1>1, Knowledge DEF LeaveHolds
  <1>3. Witness(p).there = {objects[Looked(Lowered(req[p].url))]}
    BY <1>1 DEF Witness
  <1>4. \E value \in seen[p].there : value # None
    BY <1>1, <1>2, <1>3
  <1> QED BY <1>1, <1>2, <1>4, MovesEntitled DEF Working

LEMMA AssumeKeysHolds ==
  ASSUME IInv, NEW p \in Procs, AssumeKeys(p)
  PROVE  IInv'
  <1> PICK local : local = [Blank EXCEPT !.keys = Named(req[p].name)]
    OBVIOUS
  <1>1. /\ pc[p] = "do" /\ InProgress(p) /\ UNCHANGED world /\ Goto(p, "commit", local)
        /\ req[p].op = "assume"
    BY DEF AssumeKeys, InProgress
  <1>2. Entitled(p)
    BY <1>1, Knowledge DEF LeaveHolds
  <1>3. local.keys = Named(req[p].name)
    BY DEF Blank
  <1>4. local.keys \subseteq SessionKeys
    BY <1>3 DEF Named
  <1>5. \A k \in local.keys :
          secrets[k] # None /\ \A content \in Held(k) : <<req[p].name, content.owner>> \in Covers
    BY <1>3 DEF Named, Held
  <1> QED BY <1>1, <1>2, <1>4, <1>5, MovesEntitled DEF Working

\* A request to /sts/auth goes on.
LEMMA MovesSigning ==
  ASSUME IInv, NEW p \in Procs, InProgress(p), UNCHANGED world,
         NEW step \in Signing, NEW local, Goto(p, step, local), pc[p] \in Signing,
         step \in {"sign", "issue"} => local.at \in seen[p].found \cap (Secrets \cup SessionKeys),
         step \in {"grant", "issue"} => Signed(p)
  PROVE  IInv'
  <1>1. step \in Working \cup Signing /\ step \notin Working
    BY DEF Working, Signing
  <1>2. /\ pc'[p] = step /\ work'[p] = local /\ req'[p] = req[p] /\ did'[p] = FALSE
        /\ Within(seen[p], seen'[p])
    BY <1>1, Gone_On
  <1>3. seen[p].found \subseteq seen'[p].found
    BY <1>2, WithinFields
  <1>4. req[p].op = "auth"
    BY Knowledge DEF PlaceHolds
  <1>5. step \in {"grant", "issue"} => Signed(p)'
    BY <1>2, SignedKept
  <1>6. PlaceHolds(p)'
    BY <1>1, <1>2, <1>4 DEF PlaceHolds, Working, Signing
  <1>7. WorkHolds(p)'
    BY <1>1, <1>2, <1>3 DEF WorkHolds, Working
  <1>8. LeaveHolds(p)'
    BY <1>1, <1>2, <1>5 DEF LeaveHolds, Working
  <1> QED BY <1>1, <1>6, <1>7, <1>8, Moves

LEMMA FindKeyHolds ==
  ASSUME IInv, NEW p \in Procs, FindKey(p)
  PROVE  IInv'
  <1>1. pc[p] \in {"find", "grant"} /\ InProgress(p) /\ UNCHANGED world /\ pc[p] \in Signing
    BY DEF FindKey, InProgress, Signing
  <1> PICK s \in Listed(req[p].key) :
        Goto(p, IF pc[p] = "find" THEN "sign" ELSE "issue", [Blank EXCEPT !.at = s])
    BY DEF FindKey
  <1> PICK step, local : /\ step = (IF pc[p] = "find" THEN "sign" ELSE "issue")
                         /\ local = [Blank EXCEPT !.at = s]
    OBVIOUS
  <1>2. step \in Signing /\ local.at = s /\ Goto(p, step, local)
    BY DEF Signing, Blank
  <1>3. req[p].op = "auth" /\ Witness(p).found \subseteq seen[p].found
    BY <1>1, Knowledge DEF PlaceHolds
  <1>4. local.at \in seen[p].found \cap (Secrets \cup SessionKeys)
    BY <1>2, <1>3 DEF Witness, Listed
  <1>5. step \in {"grant", "issue"} => Signed(p)
    BY <1>1, Knowledge DEF LeaveHolds
  <1> QED BY <1>1, <1>2, <1>4, <1>5, MovesSigning

\* What is held by what a query found is known.
LEMMA HeldIsSeen ==
  ASSUME IInv, NEW p \in Procs, pc[p] \in {"sign", "issue"}, NEW content \in Held(work[p].at)
  PROVE  <<work[p].at, content>> \in seen[p].held /\ work[p].at \in seen[p].found
  <1>1. InProgress(p) /\ pc[p] \in Signing
    BY DEF InProgress, Signing
  <1>2. /\ req[p].op = "auth" /\ work[p].at \in seen[p].found /\ Witness(p).held \subseteq seen[p].held
        /\ work[p].at \in DOMAIN secrets
    BY <1>1, Knowledge DEF PlaceHolds, WorkHolds, WorldOK
  <1>3. <<work[p].at, content>> \in Witness(p).held
    BY <1>2 DEF Witness, Held
  <1> QED BY <1>2, <1>3

LEMMA SignHolds ==
  ASSUME IInv, NEW p \in Procs, Sign(p)
  PROVE  IInv'
  <1>1. pc[p] = "sign" /\ InProgress(p) /\ UNCHANGED world /\ Goto(p, "grant", Blank) /\ pc[p] \in Signing
    BY DEF Sign, InProgress, Signing
  <1> PICK content \in Held(work[p].at) : content.secret = req[p].secret
    BY DEF Sign
  <1>2. <<work[p].at, content>> \in seen[p].held /\ work[p].at \in seen[p].found
    BY <1>1, HeldIsSeen
  <1>3. Signed(p)
    BY <1>2 DEF Signed
  <1> QED BY <1>1, <1>3, MovesSigning DEF Signing

-----------------------------------------------------------------------------
(***************************************************************************)
(* Answers.                                                                *)
(***************************************************************************)

\* It is answered, and nothing is written.
LEMMA AnswersQuietly ==
  ASSUME IInv, NEW p \in Procs, InProgress(p), UNCHANGED world,
         NEW status \in Statuses, Answer(p, status, FALSE),
         status = 200 => req[p].op # "iam" \/ req[p].method = "GET" \/ Idle(req[p])
  PROVE  IInv'
  <1>1. WorldOK' /\ SharedKept
    BY WorldKept DEF IInv
  <1> PICK changed \in BOOLEAN : changed = FALSE
    OBVIOUS
  <1>2. Answer(p, status, changed)
    OBVIOUS
  <1>3. req[p].op = "iam" => Fitting(req[p], status, changed, seen[p].there)
    BY DEF Fitting
  <1> QED BY <1>1, <1>2, <1>3, Answers

LEMMA QuietAnswerHolds ==
  ASSUME IInv, NEW p \in Procs,
         Refused(p) \/ DoNothing(p) \/ Read(p) \/ Reject(p) \/ Miss(p) \/ Confirm(p) \/ Fail(p)
  PROVE  IInv'
  <1>1. UNCHANGED world
    BY DEF Refused, DoNothing, Read, Reject, Miss, Confirm, Fail
  <1>2. InProgress(p)
    BY ZenonT(60) DEF Refused, DoNothing, Read, Reject, Miss, Removes, Confirm, Fail, Serves, InProgress
  <1>3. CASE Refused(p) \/ Fail(p)
    <2>1. Answer(p, 404, FALSE)
      BY <1>3 DEF Refused, Fail
    <2>2. PICK status \in Statuses : status = 404
      BY DEF Statuses
    <2>3. status # 200
      BY <2>2
    <2>4. Answer(p, status, FALSE)
      BY <2>1, <2>2, Zenon
    <2> QED BY <1>1, <1>2, <2>3, <2>4, AnswersQuietly, Zenon
  <1>4. CASE Reject(p)
    <2>1. Answer(p, 400, FALSE)
      BY <1>4 DEF Reject
    <2>2. PICK status \in Statuses : status = 400
      BY DEF Statuses
    <2>3. status # 200
      BY <2>2
    <2>4. Answer(p, status, FALSE)
      BY <2>1, <2>2, Zenon
    <2> QED BY <1>1, <1>2, <2>3, <2>4, AnswersQuietly, Zenon
  <1>5. CASE Miss(p)
    <2>1. Answer(p, 500, FALSE)
      BY <1>5 DEF Miss
    <2>2. PICK status \in Statuses : status = 500
      BY DEF Statuses
    <2>3. status # 200
      BY <2>2
    <2>4. Answer(p, status, FALSE)
      BY <2>1, <2>2, Zenon
    <2> QED BY <1>1, <1>2, <2>3, <2>4, AnswersQuietly, Zenon
  <1>6. CASE DoNothing(p) \/ Confirm(p)
    <2>1. Answer(p, 200, FALSE)
      BY <1>6 DEF DoNothing, Confirm
    <2> PICK status \in Statuses : Answer(p, status, FALSE)
      BY <2>1, ZenonT(60) DEF Statuses
    <2>2. req[p].op # "iam" \/ Idle(req[p])
      BY <1>6 DEF DoNothing, Confirm
    <2> QED BY <1>1, <1>2, <2>2, AnswersQuietly
  <1>7. CASE Read(p)
    <2>1. req[p].method = "GET"
      BY <1>7 DEF Read, Serves
    <2>2. \A status \in {200, 500} : status \in Statuses
      BY DEF Statuses
    <2> PICK status \in Statuses : Answer(p, status, FALSE)
      BY <1>7, <2>2, ZenonT(60) DEF Read
    <2> QED BY <1>1, <1>2, <2>1, AnswersQuietly
  <1> QED BY <1>3, <1>4, <1>5, <1>6, <1>7

\* Where a request to /iam stores and looks is named in lower case.
LEMMA PlacesAreSmall ==
  ASSUME NEW r \in Requests, r.op = "iam"
  PROVE  /\ Address(Lowered(r.url)) \in Places /\ Looked(Lowered(r.url)) \in Places
         /\ Small[Address(Lowered(r.url)).name] = Address(Lowered(r.url)).name
         /\ Small[Address(Lowered(r.url)).namespace] = Address(Lowered(r.url)).namespace
  <1>1. Address(Lowered(r.url)) \in Places /\ Looked(Lowered(r.url)) \in Places
    BY DEF Places
  <1> PICK k, n, m : k = r.url.kind /\ n = r.url.namespace /\ m = r.url.name
    OBVIOUS
  <1>2. Small[Small[n]] = Small[n] /\ Small[Small[m]] = Small[m]
    BY RequestsAssumption
  <1>3. r.url = [kind |-> k, namespace |-> n, name |-> m]
    BY RequestsAssumption DEF Ref
  <1> PICK u : u = r.url
    OBVIOUS
  <1>4. "namespace" \in DOMAIN u /\ "name" \in DOMAIN u /\ u.namespace = n /\ u.name = m
    BY <1>3
  <1> PICK a : a = Lowered(u)
    OBVIOUS
  <1>5. a = [u EXCEPT !.namespace = Small[n], !.name = Small[m]]
    BY <1>4 DEF Lowered
  <1>6. DOMAIN a = DOMAIN u /\ a.namespace = Small[n] /\ a.name = Small[m]
    BY <1>4, <1>5
  <1>7. Address(a) = a \/ Address(a) = [a EXCEPT !.namespace = ""]
    BY DEF Address
  <1>8. Address(a).name = a.name /\ Address(a).namespace \in {a.namespace, ""}
    BY <1>4, <1>6, <1>7
  <1>9. Small[Address(a).name] = Address(a).name /\ Small[Address(a).namespace] = Address(a).namespace
    BY <1>2, <1>6, <1>8, EmptyIsSmall
  <1> QED BY <1>1, <1>9

\* An object is stored or removed.
LEMMA ObjectsMove ==
  ASSUME WorldOK, UNCHANGED <<secrets, tokens, live, facts, changes>>,
         NEW a \in Places, NEW v \in Values \cup {None}, objects' = [objects EXCEPT ![a] = v],
         v # None => Small[a.name] = a.name /\ Small[a.namespace] = a.namespace
  PROVE  WorldOK' /\ SharedKept
  <1>1. objects' \in [Places -> Values \cup {None}]
    BY DEF WorldOK
  <1>2. \A b \in Places : objects'[b] # None => Small[b.name] = b.name /\ Small[b.namespace] = b.namespace
    BY DEF WorldOK
  <1>3. SharedKept
    BY DEF SharedKept, Held
  <1> QED BY <1>1, <1>2, <1>3 DEF WorldOK, Held

\* It is answered, and something may have been written.
Says(p, status, changed) == Answer(p, status, changed)

LEMMA AnswersLoudly ==
  ASSUME IInv, NEW p \in Procs, InProgress(p), WorldOK', SharedKept,
         NEW status \in Statuses, NEW changed \in BOOLEAN, Says(p, status, changed),
         req[p].op = "iam" =>
           /\ status \notin {400, 401, 404}
           /\ changed = TRUE \/ (req[p].method = "DELETE" /\ None \in seen[p].there /\ seen[p].there # {None})
  PROVE  IInv'
  <1>1. Answer(p, status, changed)
    BY DEF Says
  <1>2. req[p].op = "iam" => Fitting(req[p], status, changed, seen[p].there)
    BY DEF Fitting
  <1> QED BY <1>1, <1>2, Answers

LEMMA SaveHolds ==
  ASSUME IInv, NEW p \in Procs, Save(p)
  PROVE  IInv'
  <1>1. /\ WorldOK /\ pc[p] = "save" /\ InProgress(p) /\ UNCHANGED <<secrets, tokens, live, facts, changes>>
        /\ req[p] \in Requests /\ req[p].op = "iam" /\ Fits(req[p])
    BY Knowledge DEF PlaceHolds, Save, InProgress
  <1> PICK r \in Requests : r = req[p]
    BY <1>1
  <1>2. r.body.value \in Values /\ Address(r.body.at) = Address(Lowered(r.url))
    BY <1>1, RequestsAssumption DEF Fits
  <1>3. CASE \E status \in {200, 500} :
               Answer(p, status, TRUE) /\ objects' = [objects EXCEPT ![Address(r.body.at)] = r.body.value]
    <2>1. PICK status : /\ status \in {200, 500} /\ Answer(p, status, TRUE)
                        /\ objects' = [objects EXCEPT ![Address(r.body.at)] = r.body.value]
      BY <1>3
    <2>2. status \in Statuses /\ status \notin {400, 401, 404}
      BY <2>1 DEF Statuses
    <2>3. Says(p, status, TRUE)
      BY <2>1 DEF Says
    <2> PICK changed \in BOOLEAN : changed = TRUE
      OBVIOUS
    <2>4. Says(p, status, changed)
      BY <2>3, Zenon
    <2> PICK a \in Places : a = Address(Lowered(r.url)) /\ Small[a.name] = a.name /\ Small[a.namespace] = a.namespace
      BY <1>1, PlacesAreSmall
    <2> PICK v \in Values \cup {None} : v = r.body.value
      BY <1>2
    <2>5. objects' = [objects EXCEPT ![a] = v]
      BY <1>2, <2>1
    <2>6. WorldOK' /\ SharedKept
      BY <1>1, <2>5, ObjectsMove
    <2> QED BY <1>1, <2>2, <2>4, <2>6, AnswersLoudly
  <1>4. CASE UNCHANGED objects /\ Answer(p, 500, FALSE)
    <2>1. PICK status \in Statuses : status = 500
      BY DEF Statuses
    <2>2. status # 200
      BY <2>1
    <2>3. Answer(p, status, FALSE)
      BY <1>4, <2>1, Zenon
    <2>4. UNCHANGED world
      BY <1>1, <1>4
    <2> QED BY <1>1, <2>2, <2>3, <2>4, AnswersQuietly, Zenon
  <1> QED BY <1>3, <1>4 DEF Save

LEMMA RemoveHolds ==
  ASSUME IInv, NEW p \in Procs, Remove(p)
  PROVE  IInv'
  <1>1. /\ WorldOK /\ pc[p] = "remove" /\ InProgress(p) /\ UNCHANGED <<secrets, tokens, live, facts, changes>>
        /\ req[p] \in Requests /\ req[p].op = "iam" /\ req[p].method = "DELETE"
    BY Knowledge DEF PlaceHolds, Remove, InProgress
  <1> PICK r \in Requests : r = req[p]
    BY <1>1
  <1> PICK a \in Places : a = Looked(Lowered(r.url))
    BY <1>1, PlacesAreSmall
  <1>2. CASE /\ objects' = [objects EXCEPT ![a] = None]
             /\ \E status \in {200, 500} : Answer(p, status, objects[a] # None)
    <2>1. PICK status : status \in {200, 500} /\ Answer(p, status, objects[a] # None)
      BY <1>2
    <2>2. status \in Statuses /\ status \notin {400, 401, 404}
      BY <2>1 DEF Statuses
    <2> PICK changed \in BOOLEAN : changed = (objects[a] # None)
      OBVIOUS
    <2>3. Says(p, status, changed)
      BY <2>1, Zenon DEF Says
    <2> PICK v \in Values \cup {None} : v = None
      OBVIOUS
    <2>4. objects' = [objects EXCEPT ![a] = v]
      BY <1>2
    <2>5. WorldOK' /\ SharedKept
      BY <1>1, <2>4, ObjectsMove
    <2>6. changed = TRUE \/ (None \in seen[p].there /\ seen[p].there # {None})
      <3>1. Witness(p).there \subseteq seen[p].there /\ \E value \in seen[p].there : value # None
        BY <1>1, Knowledge DEF LeaveHolds
      <3>2. Witness(p).there = {objects[a]}
        BY <1>1 DEF Witness
      <3> QED BY <3>1, <3>2
    <2> QED BY <1>1, <2>2, <2>3, <2>5, <2>6, AnswersLoudly
  <1>3. CASE UNCHANGED objects /\ Answer(p, 500, FALSE)
    <2>1. PICK status \in Statuses : status = 500
      BY DEF Statuses
    <2>2. status # 200
      BY <2>1
    <2>3. Answer(p, status, FALSE)
      BY <1>3, <2>1, Zenon
    <2>4. UNCHANGED world
      BY <1>1, <1>3
    <2> QED BY <1>1, <2>2, <2>3, <2>4, AnswersQuietly, Zenon
  <1> QED BY <1>2, <1>3 DEF Remove

LEMMA GrantHolds ==
  ASSUME IInv, NEW p \in Procs, Grant(p)
  PROVE  IInv'
  <1>1. /\ pc[p] = "issue" /\ InProgress(p) /\ pc[p] \in Signing /\ WorldOK
        /\ UNCHANGED <<objects, secrets, facts, changes>>
    BY DEF Grant, InProgress, Signing, IInv
  <1>2. req[p].op = "auth" /\ work[p].at \in Secrets \cup SessionKeys
    BY <1>1, Knowledge DEF PlaceHolds, WorkHolds
  <1>3. PICK content \in Held(work[p].at), t \in Tokens, status \in {200, 404} :
          /\ tokens[t] = None
          /\ tokens' = [tokens EXCEPT ![t] = content.owner]
          /\ live' = live \cup {t}
          /\ Says(p, status, TRUE)
    BY ZenonT(60) DEF Grant, Says
  <1> PICK owner : owner = content.owner
    OBVIOUS
  <1>4. owner \in Accounts \cup Sessions
    BY <1>1, <1>2, <1>3, NamesAssumption DEF WorldOK, Held
  <1>5. /\ tokens' \in [Tokens -> Accounts \cup Sessions \cup {None}] /\ tokens'[t] = owner
        /\ \A u \in Tokens \ {t} : tokens'[u] = tokens[u]
    BY <1>1, <1>3, <1>4 DEF WorldOK
  <1>6. live' \subseteq {u \in Tokens : tokens'[u] # None}
    BY <1>1, <1>3, <1>4, <1>5, NoneAssumption DEF WorldOK
  <1>7. WorldOK'
    BY <1>1, <1>5, <1>6 DEF WorldOK, Held
  <1>8. SharedKept
    BY <1>1, <1>3, <1>5 DEF SharedKept, Held
  <1> PICK changed \in BOOLEAN : changed = TRUE
    OBVIOUS
  <1>9. Says(p, status, changed)
    BY <1>3, Zenon
  <1>10. status \in Statuses
    BY <1>3 DEF Statuses
  <1> QED BY <1>1, <1>2, <1>7, <1>8, <1>9, <1>10, AnswersLoudly

\* What the keys have after an Assume that made the credential k.
Made(p, k) ==
  [s \in DOMAIN secrets |->
     CASE s = k -> [key |-> k, secret |-> k, owner |-> req[p].name, role |-> req[p].role]
       [] s # k /\ s \in work[p].keys -> Gone
       [] OTHER -> secrets[s]]

LEMMA MadeGives ==
  ASSUME NEW p \in Procs, NEW k \in DOMAIN secrets, secrets' = Made(p, k)
  PROVE  /\ secrets'[k] = [key |-> k, secret |-> k, owner |-> req[p].name, role |-> req[p].role]
         /\ DOMAIN secrets' = DOMAIN secrets
         /\ \A s \in DOMAIN secrets \ {k} :
              secrets'[s] = IF s \in work[p].keys THEN Gone ELSE secrets[s]
  BY DEF Made

\* What Assume does.
LEMMA AssumeMakes ==
  ASSUME NEW p \in Procs, Assume(p)
  PROVE  \E k \in SessionKeys, status \in {200, 404} :
           secrets[k] = None /\ secrets' = Made(p, k) /\ Says(p, status, TRUE)
  BY ZenonT(60) DEF Assume, Says, Made

LEMMA AssumeHolds ==
  ASSUME IInv, NEW p \in Procs, Assume(p)
  PROVE  IInv'
  <1>1. /\ pc[p] = "commit" /\ InProgress(p) /\ pc[p] \in Working /\ WorldOK
        /\ UNCHANGED <<objects, tokens, live, facts, changes>>
    BY DEF Assume, InProgress, Working, IInv
  <1>2. /\ req[p].op = "assume" /\ req[p] \in Requests
        /\ work[p].keys \subseteq SessionKeys /\ \A k \in work[p].keys : secrets[k] # None
    BY <1>1, Knowledge DEF PlaceHolds, WorkHolds
  <1>3. PICK k \in SessionKeys, status \in {200, 404} :
          secrets[k] = None /\ secrets' = Made(p, k) /\ Says(p, status, TRUE)
    BY AssumeMakes
  <1>4. /\ secrets'[k] = [key |-> k, secret |-> k, owner |-> req[p].name, role |-> req[p].role]
        /\ DOMAIN secrets' = DOMAIN secrets
        /\ \A s \in DOMAIN secrets \ {k} :
             secrets'[s] = IF s \in work[p].keys THEN Gone ELSE secrets[s]
    <2>1. k \in DOMAIN secrets
      BY <1>1 DEF WorldOK
    <2> QED BY <1>3, <2>1, MadeGives
  <1>5. secrets'[k].key = k /\ secrets'[k].owner \in Sessions
    BY <1>2, <1>4, RequestsAssumption
  <1>6. \A s \in Secrets : secrets'[s] = secrets[s]
    BY <1>1, <1>2, <1>4, NamesAssumption DEF WorldOK
  <1>7. \A l \in SessionKeys : \A content \in Held(l)' : content.key = l /\ content.owner \in Sessions
    <2> SUFFICES ASSUME NEW l \in SessionKeys, NEW content \in Held(l)'
                 PROVE  content.key = l /\ content.owner \in Sessions
      OBVIOUS
    <2>1. content = secrets'[l] /\ content # Gone /\ content # None
      BY DEF Held
    <2>2. CASE l = k
      BY <1>5, <2>1, <2>2
    <2>3. CASE l # k
      <3>1. l \in DOMAIN secrets
        BY <1>1 DEF WorldOK
      <3>2. content \in Held(l)
        BY <1>4, <2>1, <2>3, <3>1 DEF Held
      <3> QED BY <1>1, <3>2 DEF WorldOK
    <2> QED BY <2>2, <2>3
  <1>8. WorldOK'
    BY <1>1, <1>4, <1>6, <1>7 DEF WorldOK
  <1>9. SharedKept
    <2> SUFFICES ASSUME NEW l \in SessionKeys, secrets[l] # None
                 PROVE  secrets'[l] # None /\ Held(l)' \subseteq Held(l)
      BY <1>1 DEF SharedKept
    <2>1. l # k /\ l \in DOMAIN secrets
      BY <1>1, <1>3 DEF WorldOK
    <2>2. secrets'[l] \in {Gone, secrets[l]}
      BY <1>4, <2>1
    <2> QED BY <2>2, NoneAssumption DEF Held
  <1> PICK changed \in BOOLEAN : changed = TRUE
    OBVIOUS
  <1>10. Says(p, status, changed)
    BY <1>3, Zenon
  <1>11. status \in Statuses
    BY <1>3 DEF Statuses
  <1> QED BY <1>1, <1>2, <1>8, <1>9, <1>10, <1>11, AnswersLoudly

-----------------------------------------------------------------------------
(***************************************************************************)
(* What goes on meanwhile.                                                 *)
(***************************************************************************)

\* What takes a leave away has been noted by the requests that had it.
LEMMA MeanwhileHolds ==
  ASSUME IInv, Meanwhile, WorldOK', SharedKept
  PROVE  IInv'
  <1>1. WorldOK /\ ProcsOK /\ UNCHANGED <<pc, req, work, answer, did>> /\ Remember
    BY DEF IInv, Meanwhile
  <1>2. ProcsOK'
    BY <1>1 DEF ProcsOK
  <1>3. ASSUME NEW p \in Procs PROVE ProcHolds(p)'
    <2>1. ProcHolds(p)
      BY DEF IInv
    <2>2. pc'[p] = pc[p] /\ req'[p] = req[p] /\ work'[p] = work[p] /\ answer'[p] = answer[p] /\ did'[p] = did[p]
      BY <1>1
    <2> QED BY <1>1, <2>1, <2>2, ProcKept
  <1> QED BY <1>2, <1>3 DEF IInv

LEMMA ChangesHold ==
  ASSUME IInv,
         \/ \E those \in SUBSET Facts : Rewrite(those)
         \/ \E s \in Secrets, content \in Contents : ReplaceSecret(s, content)
         \/ \E k \in SessionKeys : EndSession(k)
         \/ \E t \in Tokens : EndToken(t)
  PROVE  IInv'
  <1>1. Meanwhile
    BY DEF Rewrite, ReplaceSecret, EndSession, EndToken
  <1>2. WorldOK /\ changes' \in 0..MaxChanges
    BY <1>1, BoundAssumption DEF IInv, WorldOK, Meanwhile
  <1>3. UNCHANGED <<objects, tokens>>
    BY <1>1 DEF Meanwhile
  <1>4. CASE \E those \in SUBSET Facts : Rewrite(those)
    <2>1. facts' \subseteq Facts \cup UNION Starts
      BY <1>2, <1>4 DEF WorldOK, Rewrite
    <2>2. UNCHANGED <<secrets, live>>
      BY <1>4 DEF Rewrite
    <2>3. WorldOK' /\ SharedKept
      BY <1>2, <1>3, <2>1, <2>2 DEF WorldOK, SharedKept, Held
    <2> QED BY <1>1, <2>3, MeanwhileHolds
  <1>5. CASE \E s \in Secrets, content \in Contents : ReplaceSecret(s, content)
    <2> PICK s \in Secrets, content \in Contents : ReplaceSecret(s, content)
      BY <1>5
    <2>1. secrets' = [secrets EXCEPT ![s] = content] /\ UNCHANGED <<facts, live>>
      BY DEF ReplaceSecret
    <2>2. DOMAIN secrets' = Secrets \cup SessionKeys /\ \A x \in Secrets : secrets'[x] \in Contents \cup {None}
      BY <1>2, <2>1 DEF WorldOK
    <2>3. \A k \in SessionKeys : secrets'[k] = secrets[k]
      BY <1>2, <2>1, NamesAssumption DEF WorldOK
    <2>4. \A k \in SessionKeys : \A had \in Held(k)' : had.key = k /\ had.owner \in Sessions
      BY <1>2, <2>3 DEF WorldOK, Held
    <2>5. WorldOK'
      BY <1>2, <1>3, <2>1, <2>2, <2>4 DEF WorldOK
    <2>6. SharedKept
      BY <1>3, <2>3 DEF SharedKept, Held
    <2> QED BY <1>1, <2>5, <2>6, MeanwhileHolds
  <1>6. CASE \E k \in SessionKeys : EndSession(k)
    <2> PICK k \in SessionKeys : EndSession(k)
      BY <1>6
    <2>1. secrets' = [secrets EXCEPT ![k] = Gone] /\ UNCHANGED <<facts, live>>
      BY DEF EndSession
    <2>2. /\ DOMAIN secrets' = Secrets \cup SessionKeys /\ secrets'[k] = Gone
          /\ \A x \in (Secrets \cup SessionKeys) \ {k} : secrets'[x] = secrets[x]
      BY <1>2, <2>1 DEF WorldOK
    <2>3. \A x \in Secrets : secrets'[x] \in Contents \cup {None}
      BY <1>2, <2>2, NamesAssumption DEF WorldOK
    <2>4. \A l \in SessionKeys : \A content \in Held(l)' : content.key = l /\ content.owner \in Sessions
      BY <1>2, <2>2 DEF WorldOK, Held
    <2>5. WorldOK'
      BY <1>2, <1>3, <2>1, <2>2, <2>3, <2>4 DEF WorldOK
    <2>6. SharedKept
      BY <1>3, <2>2, NoneAssumption DEF SharedKept, Held
    <2> QED BY <1>1, <2>5, <2>6, MeanwhileHolds
  <1>7. CASE \E t \in Tokens : EndToken(t)
    <2>1. live' \subseteq live /\ UNCHANGED <<facts, secrets>>
      BY <1>7 DEF EndToken
    <2>2. WorldOK' /\ SharedKept
      BY <1>2, <1>3, <2>1 DEF WorldOK, SharedKept, Held
    <2> QED BY <1>1, <2>2, MeanwhileHolds
  <1> QED BY <1>4, <1>5, <1>6, <1>7

-----------------------------------------------------------------------------
(***************************************************************************)
(* The theorems.                                                           *)
(***************************************************************************)

\* The history is no part of a step that leaves everything as it is.
LEMMA StutterHolds ==
  ASSUME IInv, UNCHANGED vars
  PROVE  IInv'
  <1>1. UNCHANGED <<objects, secrets, tokens, live, facts, changes, pc, req, work, answer, did, seen>>
    BY DEF vars
  <1>2. WorldOK' /\ ProcsOK'
    BY <1>1 DEF IInv, WorldOK, ProcsOK, Held
  <1>3. ASSUME NEW p \in Procs PROVE ProcHolds(p)'
    <2>1. ProcHolds(p)
      BY DEF IInv
    <2>2. NowSeen(p)'
      <3>1. Acting(req[p].token)' = Acting(req[p].token) /\ Listed(req[p].key)' = Listed(req[p].key)
        BY <1>1 DEF Acting, Named, Listed, Held
      <3>2. Looked(Lowered(req[p].url))' = Looked(Lowered(req[p].url))
        BY <1>1 DEF Looked, Lowered
      <3>3. Witness(p)' = Witness(p)
        BY <1>1, <3>1, <3>2 DEF Witness, Held
      <3> PICK now : now = Witness(p)
        OBVIOUS
      <3>4. InProgress(p) => Within(now, seen[p])
        BY <2>1 DEF ProcHolds, NowSeen
      <3> QED BY <1>1, <3>3, <3>4 DEF NowSeen, InProgress, Within
    <2>3. PlaceHolds(p)'
      BY <1>1, <2>1 DEF ProcHolds, PlaceHolds, Fits, Lowered, Working, Signing
    <2>4. WorkHolds(p)'
      BY <1>1, <2>1 DEF ProcHolds, WorkHolds, Held
    <2>5. LeaveHolds(p)'
      <3>1. Entitled(p) => Entitled(p)'
        BY <1>1 DEF Entitled, Asked, ActionOf, Lowered
      <3>2. Signed(p) => Signed(p)'
        BY <1>1 DEF Signed
      <3> QED BY <1>1, <2>1, <3>1, <3>2 DEF ProcHolds, LeaveHolds, Working
    <2>6. AnswerHolds(p)'
      <3>1. AnswerHolds(p)
        BY <2>1 DEF ProcHolds
      <3>2. Fitting(req'[p], answer'[p], did'[p], seen'[p].there)
              <=> Fitting(req[p], answer[p], did[p], seen[p].there)
        BY <1>1, Zenon DEF Fitting, Idle
      <3>3. (pc'[p] = "answered" /\ req'[p].op = "iam") <=> (pc[p] = "answered" /\ req[p].op = "iam")
        BY <1>1
      <3> QED BY <3>1, <3>2, <3>3, Zenon DEF AnswerHolds
    <2> QED BY <2>2, <2>3, <2>4, <2>5, <2>6 DEF ProcHolds
  <1> QED BY <1>2, <1>3 DEF IInv

\* Every step keeps the invariant.
LEMMA StepIInv == IInv /\ [Next]_vars => IInv'
  <1> SUFFICES ASSUME IInv, [Next]_vars PROVE IInv'
    OBVIOUS
  <1>1. CASE UNCHANGED vars
    BY <1>1, StutterHolds
  <1>2. CASE \E p \in Procs, r \in Requests : Arrive(p, r)
    BY <1>2, ArriveHolds
  <1>3. CASE \E p \in Procs : Retrieve(p) \/ FindSession(p) \/ Learn(p) \/ Permitted(p)
    BY <1>3, RetrieveHolds, FindSessionHolds, LearnHolds, PermittedHolds
  <1>4. CASE \E p \in Procs : Check(p) \/ Look(p) \/ AssumeKeys(p)
    BY <1>4, CheckHolds, LookHolds, AssumeKeysHolds
  <1>5. CASE \E p \in Procs : FindKey(p) \/ Sign(p)
    BY <1>5, FindKeyHolds, SignHolds
  <1>6. CASE \E p \in Procs :
               Refused(p) \/ DoNothing(p) \/ Read(p) \/ Reject(p) \/ Miss(p) \/ Confirm(p) \/ Fail(p)
    BY <1>6, QuietAnswerHolds
  <1>7. CASE \E p \in Procs : Save(p) \/ Remove(p)
    BY <1>7, SaveHolds, RemoveHolds
  <1>8. CASE \E p \in Procs : Grant(p) \/ Assume(p)
    BY <1>8, GrantHolds, AssumeHolds
  <1>9. CASE \E p \in Procs : Done(p)
    BY <1>9, DoneHolds
  <1>10. CASE \/ \E those \in SUBSET Facts : Rewrite(those)
              \/ \E s \in Secrets, content \in Contents : ReplaceSecret(s, content)
              \/ \E k \in SessionKeys : EndSession(k)
              \/ \E t \in Tokens : EndToken(t)
    BY <1>10, ChangesHold
  <1> QED BY <1>1, <1>2, <1>3, <1>4, <1>5, <1>6, <1>7, <1>8, <1>9, <1>10, ZenonT(60) DEF Next

\* The invariant holds of every server: the state is well formed, what a request has
\* read was so at some moment of it, and it goes on only with the leave it had.
THEOREM Invariant == Spec => []IInv
  <1> QED BY InitIInv, StepIInv, PTL DEF Spec

\* What is stored is stored under lower-case names, tokens that are good were granted,
\* and a request has an answer exactly when it is answered.
THEOREM TypeCorrect == Spec => []TypeOK
  <1>1. IInv => TypeOK
    BY DEF IInv, WorldOK, ProcsOK, TypeOK
  <1> QED BY <1>1, Invariant, PTL

\* The status of a request to /iam says what it changed.
THEOREM AnswersFit == Spec => []AnswerFits
  <1>1. ASSUME IInv PROVE AnswerFits
    <2> SUFFICES ASSUME NEW p \in Procs, pc[p] = "answered", req[p].op = "iam"
                 PROVE  /\ answer[p] \in {400, 401, 404} => ~did[p]
                        /\ answer[p] = 200 =>
                             \/ did[p] \/ req[p].method = "GET" \/ Idle(req[p])
                             \/ req[p].method = "DELETE" /\ None \in seen[p].there /\ seen[p].there # {None}
      BY DEF AnswerFits
    <2>1. Fitting(req[p], answer[p], did[p], seen[p].there)
      BY <1>1 DEF IInv, ProcHolds, AnswerHolds
    <2> QED BY <2>1 DEF Fitting
  <1> QED BY <1>1, Invariant, PTL

\* An object that a request stores or removes is the one its URL means, and the
\* request had leave.
LEMMA WrittenByLeave ==
  ASSUME IInv, NEW p \in Procs, Save(p) \/ Remove(p), NEW a \in Places, objects'[a] # objects[a]
  PROVE  /\ Ends(p) /\ req[p].op = "iam" /\ Entitled(p)
         /\ IF objects'[a] = None
              THEN req[p].method = "DELETE" /\ a = Looked(Lowered(req[p].url))
              ELSE req[p].method \in {"PUT", "POST"} /\ a = Address(Lowered(req[p].url))
  <1>1. pc[p] \in {"save", "remove"} /\ InProgress(p)
    BY DEF Save, Remove, InProgress
  <1>2. /\ WorldOK /\ ProcsOK /\ PlaceHolds(p) /\ LeaveHolds(p)
        /\ req[p].op = "iam" /\ req[p] \in Requests /\ Entitled(p)
    BY <1>1, Knowledge DEF PlaceHolds, LeaveHolds
  <1>3. UNCHANGED objects \/ pc' = [pc EXCEPT ![p] = "answered"]
    BY ZenonT(60) DEF Save, Remove, Answer
  <1>4. Ends(p)
    BY <1>1, <1>2, <1>3 DEF Ends, ProcsOK
  <1>5. CASE Save(p)
    <2>1. objects' = [objects EXCEPT ![Address(req[p].body.at)] = req[p].body.value]
      BY <1>5 DEF Save
    <2>2. /\ req[p].method \in {"PUT", "POST"}
          /\ Address(req[p].body.at) = Address(Lowered(req[p].url))
      BY <1>2, <1>5 DEF Save, PlaceHolds, Fits
    <2>3. req[p].body.value # None
      BY <1>2, RequestsAssumption, NoneAssumption
    <2>4. a = Address(req[p].body.at) /\ objects'[a] = req[p].body.value
      BY <1>2, <2>1 DEF WorldOK
    <2> QED BY <1>2, <1>4, <2>2, <2>3, <2>4
  <1>6. CASE Remove(p)
    <2>1. objects' = [objects EXCEPT ![Looked(Lowered(req[p].url))] = None]
      BY <1>6, ZenonT(60) DEF Remove
    <2>2. req[p].method = "DELETE"
      BY <1>2, <1>6 DEF Remove, PlaceHolds
    <2>3. a = Looked(Lowered(req[p].url)) /\ objects'[a] = None
      BY <1>2, <2>1 DEF WorldOK
    <2> QED BY <1>2, <1>4, <2>2, <2>3
  <1> QED BY <1>5, <1>6

\* A session that a request makes is of the name and the role it gave, one it takes is
\* of a name its pattern meets, and the request had leave.
LEMMA AssumedByLeave ==
  ASSUME IInv, NEW p \in Procs, Assume(p)
  PROVE  /\ Ends(p) /\ req[p].op = "assume" /\ Entitled(p)
         /\ \A k \in SessionKeys : secrets'[k] # secrets[k] =>
              IF secrets[k] = None
                THEN secrets'[k].owner = req[p].name /\ secrets'[k].role = req[p].role
                ELSE <<req[p].name, secrets[k].owner>> \in Covers
  <1>1. pc[p] = "commit" /\ InProgress(p)
    BY DEF Assume, InProgress
  <1>2. /\ WorldOK /\ ProcsOK /\ WorkHolds(p) /\ req[p].op = "assume" /\ Entitled(p)
    BY <1>1, Knowledge DEF PlaceHolds, LeaveHolds
  <1>3. PICK l \in SessionKeys, status \in {200, 404} :
          secrets[l] = None /\ secrets' = Made(p, l) /\ Says(p, status, TRUE)
    BY AssumeMakes
  <1>4. pc' = [pc EXCEPT ![p] = "answered"]
    BY <1>3 DEF Says, Answer
  <1>5. Ends(p)
    BY <1>1, <1>2, <1>4 DEF Ends, ProcsOK
  <1>6. /\ secrets'[l] = [key |-> l, secret |-> l, owner |-> req[p].name, role |-> req[p].role]
        /\ \A s \in DOMAIN secrets \ {l} :
             secrets'[s] = IF s \in work[p].keys THEN Gone ELSE secrets[s]
    BY <1>2, <1>3, MadeGives DEF WorldOK
  <1>7. ASSUME NEW k \in SessionKeys, secrets'[k] # secrets[k]
        PROVE  IF secrets[k] = None
                 THEN secrets'[k].owner = req[p].name /\ secrets'[k].role = req[p].role
                 ELSE <<req[p].name, secrets[k].owner>> \in Covers
    <2>1. CASE k = l
      BY <1>3, <1>6, <2>1
    <2>2. CASE k # l
      <3>1. k \in DOMAIN secrets \ {l}
        BY <1>2, <2>2 DEF WorldOK
      <3>2. k \in work[p].keys /\ secrets'[k] = Gone
        BY <1>6, <1>7, <3>1
      <3>3. secrets[k] # None /\ secrets[k] # Gone
        BY <1>1, <1>2, <1>7, <3>2 DEF WorkHolds
      <3>4. <<req[p].name, secrets[k].owner>> \in Covers
        BY <1>1, <1>2, <3>2, <3>3 DEF WorkHolds, Held
      <3> QED BY <3>3, <3>4
    <2> QED BY <2>1, <2>2
  <1> QED BY <1>2, <1>5, <1>7

LEMMA StepWrites == IInv /\ [Next]_vars => WriteIsAllowed
  <1> SUFFICES ASSUME IInv, [Next]_vars PROVE WriteIsAllowed
    OBVIOUS
  <1>1. CASE \E p \in Procs : Save(p) \/ Remove(p)
    <2> PICK p \in Procs : Save(p) \/ Remove(p)
      BY <1>1
    <2>1. UNCHANGED secrets
      BY DEF Save, Remove
    <2> QED BY <2>1, WrittenByLeave DEF WriteIsAllowed
  <1>2. CASE \E p \in Procs : Assume(p)
    <2> PICK p \in Procs : Assume(p)
      BY <1>2
    <2>1. UNCHANGED objects
      BY DEF Assume
    <2> QED BY <2>1, AssumedByLeave DEF WriteIsAllowed
  <1>3. CASE ~ \E p \in Procs : Save(p) \/ Remove(p) \/ Assume(p)
    <2>1. UNCHANGED objects
      BY <1>3, ZenonT(60) DEF Next, vars, Arrive, Retrieve, FindSession, Learn, Permitted, Refused, DoNothing, Read, Reject,
           Check, Look, Miss, FindKey, Sign, Grant, AssumeKeys, Confirm, Fail, Done,
           Rewrite, ReplaceSecret, EndSession, EndToken, Meanwhile
    <2>2. UNCHANGED secrets \/ changes' # changes
      <3>1. CASE \/ \E s \in Secrets, content \in Contents : ReplaceSecret(s, content)
                 \/ \E k \in SessionKeys : EndSession(k)
        <4>1. changes' = changes + 1 /\ changes \in Int
          BY <3>1 DEF ReplaceSecret, EndSession, Meanwhile, IInv, WorldOK
        <4> QED BY <4>1
      <3>2. CASE ~ (\/ \E s \in Secrets, content \in Contents : ReplaceSecret(s, content)
                    \/ \E k \in SessionKeys : EndSession(k))
        BY <1>3, <3>2, ZenonT(60) DEF Next, vars, Arrive, Retrieve, FindSession, Learn, Permitted, Refused, DoNothing, Read,
             Reject, Check, Look, Miss, FindKey, Sign, Grant, AssumeKeys, Confirm, Fail, Done,
             Rewrite, EndToken
      <3> QED BY <3>1, <3>2
    <2> QED BY <2>1, <2>2 DEF WriteIsAllowed
  <1> QED BY <1>1, <1>2, <1>3

LEMMA StepGrants == IInv /\ [Next]_vars => GrantIsSigned
  <1> SUFFICES ASSUME IInv, [Next]_vars PROVE GrantIsSigned
    OBVIOUS
  <1>1. CASE \E p \in Procs : Grant(p)
    <2> PICK p \in Procs : Grant(p)
      BY <1>1
    <2>1. pc[p] = "issue" /\ InProgress(p)
      BY DEF Grant, InProgress
    <2>2. WorldOK /\ ProcsOK /\ req[p].op = "auth" /\ Signed(p)
      BY <2>1, Knowledge DEF PlaceHolds, LeaveHolds, Signing
    <2>3. PICK content \in Held(work[p].at), t \in Tokens, status \in {200, 404} :
            /\ tokens[t] = None
            /\ tokens' = [tokens EXCEPT ![t] = content.owner]
            /\ live' = live \cup {t}
            /\ Says(p, status, TRUE)
      BY ZenonT(60) DEF Grant, Says
    <2>4. Ends(p)
      BY <2>1, <2>2, <2>3 DEF Ends, Says, Answer, ProcsOK
    <2> PICK had : had = <<work[p].at, content>>
      OBVIOUS
    <2>5. had \in seen[p].held /\ had[1] \in seen[p].found /\ had[2] = content
      BY <2>1, HeldIsSeen
    <2>6. \A u \in Tokens : tokens'[u] # tokens[u] => tokens'[u] = content.owner
      BY <2>2, <2>3 DEF WorldOK
    <2> QED BY <2>2, <2>4, <2>5, <2>6 DEF GrantIsSigned, Signed
  <1>2. CASE ~ \E p \in Procs : Grant(p)
    <2>1. UNCHANGED tokens
      BY <1>2, ZenonT(60) DEF Next, vars, Arrive, Retrieve, FindSession, Learn, Permitted, Refused, DoNothing, Read, Reject,
           Check, Save, Look, Miss, Remove, FindKey, Sign, AssumeKeys, Assume, Confirm, Fail, Done,
           Rewrite, ReplaceSecret, EndSession, EndToken, Meanwhile
    <2> QED BY <2>1 DEF GrantIsSigned
  <1> QED BY <1>1, <1>2

\* What is stored changes only by requests that had leave to change just that.
THEOREM WritesAreAllowed == Spec => WrittenByAllowed
  <1>1. IInv /\ [Next]_vars => [WriteIsAllowed]_vars
    BY StepWrites
  <1> QED BY <1>1, Invariant, PTL DEF Spec, WrittenByAllowed

\* A token is granted only for an owner, and to one who knew a secret, of what its key
\* found.
THEOREM GrantsAreSigned == Spec => TokenOfSigner
  <1>1. IInv /\ [Next]_vars => [GrantIsSigned]_vars
    BY StepGrants
  <1> QED BY <1>1, Invariant, PTL DEF Spec, TokenOfSigner
===============================================================================
