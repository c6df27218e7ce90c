------------------------------ MODULE StsProofs ------------------------------
(***************************************************************************)
(* Proofs about Sts, for any requests, names, roles, durations and bounds. *)
(***************************************************************************)
EXTENDS Sts, TLAPS

\* A step of a request that writes nothing keeps the invariant, if the request's
\* local variables fit its next step.
LEMMA LocalMove ==
  ASSUME IInv, NEW p \in Procs, NEW step \in Steps, NEW local \in Local,
         Goto(p, step, local), UNCHANGED <<now, issued, stored, tokens>>,
         WorkOK(step, local), AssumeFits(step, local), GrantFits(step, local),
         AccessFits(step, local),
         Assuming(step) => Assuming(pc[p]) /\ local.cred = work[p].cred
  PROVE  IInv'
  <1>1. /\ pc \in [Procs -> Steps] /\ work \in [Procs -> Local]
        /\ pc' = [pc EXCEPT ![p] = step] /\ work' = [work EXCEPT ![p] = local]
    BY DEF IInv, TypeOK, Goto
  <1>2. /\ pc'[p] = step /\ work'[p] = local
        /\ \A q \in Procs : q # p => pc'[q] = pc[q] /\ work'[q] = work[q]
    BY <1>1
  <1>3. pc' \in [Procs -> Steps] /\ work' \in [Procs -> Local]
    BY <1>1
  <1>4. \A q \in Procs : WorkOK(pc'[q], work'[q])
    BY <1>2 DEF IInv, TypeOK
  <1>5. TypeOK'
    BY <1>3, <1>4 DEF IInv, TypeOK, WorkOK
  <1>6. (StoredOK /\ BeforeOK /\ SessionOK /\ AssumeReplaces /\ TokenLife)'
    BY DEF IInv, StoredOK, BeforeOK, SessionOK, AssumeReplaces, TokenLife, ExpireAt, Live, Lives
  <1>7. OwnCredential'
    BY <1>2 DEF IInv, OwnCredential
  <1>8. \A q \in Procs : /\ AssumeFits(pc'[q], work'[q]) /\ GrantFits(pc'[q], work'[q])
                         /\ AccessFits(pc'[q], work'[q])
    BY <1>2 DEF IInv, LocalOK
  <1>9. LocalOK'
    BY <1>8 DEF LocalOK, AssumeFits, GrantFits, AccessFits, ExpireAt, Live, Lives
  <1> QED BY <1>5, <1>6, <1>7, <1>9 DEF IInv

\* The request ends: nothing is expected of an idle request.
LEMMA Ending ==
  ASSUME IInv, NEW p \in Procs, Goto(p, "idle", Idle), UNCHANGED <<now, issued, stored, tokens>>
  PROVE  IInv'
  <1>1. Idle \in Local /\ "idle" \in Steps
    BY DEF Idle, Local, Steps
  <1>2. /\ WorkOK("idle", Idle) /\ AssumeFits("idle", Idle) /\ GrantFits("idle", Idle)
        /\ AccessFits("idle", Idle) /\ ~Assuming("idle")
    BY DEF WorkOK, AssumeFits, GrantFits, AccessFits, Assuming
  <1> QED BY <1>1, <1>2, LocalMove

\* What is known of the request p before its step.
LEMMA LocalFacts ==
  ASSUME IInv, NEW p \in Procs
  PROVE  /\ work[p] \in Local /\ pc[p] \in Steps
         /\ WorkOK(pc[p], work[p]) /\ AssumeFits(pc[p], work[p])
         /\ GrantFits(pc[p], work[p]) /\ AccessFits(pc[p], work[p])
  BY DEF IInv, TypeOK, LocalOK

LEMMA IssuedFacts ==
  ASSUME IInv, NEW c \in DOMAIN issued
  PROVE  /\ issued[c] \in Credential /\ c \in Nat \ {0}
         /\ issued[c].duration \in Int /\ issued[c].began \in Nat /\ issued[c].lag \in Nat
         /\ issued[c].began <= now /\ now \in Nat /\ ExpireAt(c) \in Int
  <1>1. issued \in Seq(Credential) /\ now \in Nat /\ issued[c].began <= now
    BY DEF IInv, TypeOK
  <1>2. issued[c] \in Credential /\ c \in Nat \ {0}
    BY <1>1
  <1>3. /\ issued[c].duration \in Int /\ issued[c].began \in Nat /\ issued[c].lag \in Nat
    BY <1>2, TimesAssumption DEF Credential
  <1> QED BY <1>1, <1>2, <1>3 DEF ExpireAt

LEMMA KeysFacts ==
  ASSUME IInv, NEW n
  PROVE  /\ KeysOf(n) \subseteq DOMAIN issued /\ KeysOf(n) \subseteq Nat
         /\ \A c \in KeysOf(n) : Live(c) /\ <<n, issued[c].name>> \in Covers
  <1>1. KeysOf(n) \subseteq DOMAIN issued
    BY DEF KeysOf, IInv, TypeOK
  <1> QED BY <1>1, IssuedFacts DEF KeysOf

-----------------------------------------------------------------------------
(***************************************************************************)
(* The steps that write nothing.                                           *)
(***************************************************************************)
LEMMA AssumeKeysKeeps ==
  ASSUME IInv, NEW p \in Procs, AssumeKeys(p)
  PROVE  IInv'
  <1> DEFINE c == work[p].cred
             local == [work[p] EXCEPT !.found = KeysOf(issued[c].name)]
  <1>1. pc[p] = "assume keys" /\ Goto(p, "assume commit", local)
    BY DEF AssumeKeys
  <1>2. work[p] \in Local /\ c \in DOMAIN issued /\ ~issued[c].done
    BY <1>1, LocalFacts DEF WorkOK, AssumeFits, Assuming
  <1>3. local \in Local /\ local.cred = c /\ local.found = KeysOf(issued[c].name)
    BY <1>2, KeysFacts DEF Local
  <1>4. AssumeFits("assume commit", local)
    <2>1. \A old \in issued[c].before :
            <<issued[c].name, issued[old].name>> \in Covers => old \in local.found \/ ~Live(old)
      BY <1>3 DEF KeysOf, Live
    <2> QED BY <1>2, <1>3, <2>1 DEF AssumeFits
  <1>5. WorkOK("assume commit", local) /\ GrantFits("assume commit", local)
        /\ AccessFits("assume commit", local)
    BY <1>2, <1>3 DEF WorkOK, GrantFits, AccessFits
  <1>6. Assuming(pc[p]) /\ "assume commit" \in Steps
    BY <1>1 DEF Assuming, Steps
  <1>7. UNCHANGED <<now, issued, stored, tokens>>
    BY DEF AssumeKeys
  <1> QED BY <1>1, <1>3, <1>4, <1>5, <1>6, <1>7, LocalMove

LEMMA IdleLocal == Idle \in Local
  BY DEF Idle, Local

LEMMA GrantFindKeeps ==
  ASSUME IInv, NEW p \in Procs, GrantFind(p)
  PROVE  IInv'
  <1>1. PICK c \in DOMAIN stored :
          Live(c) /\ Goto(p, "grant compute", [Idle EXCEPT !.cred = c, !.since = now])
    BY DEF GrantFind
  <1> DEFINE local == [Idle EXCEPT !.cred = c, !.since = now]
  <1>2. c \in DOMAIN issued /\ issued[c].done /\ now \in Nat
    BY DEF IInv, TypeOK, StoredOK
  <1>3. c \in Nat \ {0} /\ issued[c].duration \in Int /\ issued[c].lag \in Nat /\ ExpireAt(c) \in Int
    BY <1>2, IssuedFacts
  <1>4. local \in Local /\ local.cred = c /\ local.since = now
    BY <1>2, <1>3, IdleLocal DEF Local
  <1>5. issued[c].duration > 0 => now < ExpireAt(c) + issued[c].lag
    <2> SUFFICES ASSUME issued[c].duration > 0 PROVE now < ExpireAt(c) + issued[c].lag
      OBVIOUS
    <2>1. stored[c] = ExpireAt(c) + issued[c].lag
      BY DEF IInv, StoredOK
    <2>2. stored[c] # Never
      BY <2>1, <1>3, TimesAssumption
    <2> QED BY <2>1, <2>2, <1>1 DEF Live, Lives
  <1>6. GrantFits("grant compute", local)
    BY <1>2, <1>3, <1>4, <1>5 DEF GrantFits
  <1>7. WorkOK("grant compute", local) /\ AssumeFits("grant compute", local)
        /\ AccessFits("grant compute", local) /\ ~Assuming("grant compute")
        /\ "grant compute" \in Steps
    BY <1>2, <1>3, <1>4 DEF WorkOK, AssumeFits, AccessFits, Assuming, Steps
  <1>8. UNCHANGED <<now, issued, stored, tokens>>
    BY DEF GrantFind
  <1> QED BY <1>1, <1>4, <1>6, <1>7, <1>8, LocalMove

LEMMA GrantComputeKeeps ==
  ASSUME IInv, NEW p \in Procs, GrantCompute(p)
  PROVE  IInv'
  <1> DEFINE c == work[p].cred
             local == [work[p] EXCEPT !.ttl = ExpireAt(c) - now]
  <1>1. pc[p] = "grant compute" /\ Goto(p, "grant set", local)
        /\ UNCHANGED <<now, issued, stored, tokens>>
    BY DEF GrantCompute
  <1>2. /\ work[p] \in Local /\ c \in DOMAIN issued /\ c # 0 /\ work[p].since <= now
        /\ issued[c].done
        /\ issued[c].duration > 0 => work[p].since < ExpireAt(c) + issued[c].lag
    BY <1>1, LocalFacts DEF WorkOK, GrantFits
  <1>3. ExpireAt(c) \in Int /\ now \in Nat /\ work[p].since \in Nat
    BY <1>2, IssuedFacts DEF Local
  <1>4. local \in Local /\ local.cred = c /\ local.ttl = ExpireAt(c) - now
        /\ local.since = work[p].since
    BY <1>2, <1>3 DEF Local
  <1>5. GrantFits("grant set", local)
    BY <1>2, <1>3, <1>4 DEF GrantFits
  <1>6. WorkOK("grant set", local) /\ AssumeFits("grant set", local)
        /\ AccessFits("grant set", local) /\ ~Assuming("grant set") /\ "grant set" \in Steps
    BY <1>2, <1>4 DEF WorkOK, AssumeFits, AccessFits, Assuming, Steps
  <1> QED BY <1>1, <1>4, <1>5, <1>6, LocalMove

LEMMA GrantPlainKeeps ==
  ASSUME IInv, NEW p \in Procs, GrantPlain(p)
  PROVE  IInv'
  <1>1. PICK d \in Durations :
          Goto(p, "grant set", [Idle EXCEPT !.ttl = PlainLife, !.since = now, !.asked = d])
    BY DEF GrantPlain
  <1> DEFINE local == [Idle EXCEPT !.ttl = PlainLife, !.since = now, !.asked = d]
  <1>2. now \in Nat /\ PlainLife \in Int /\ d \in Int
    BY TimesAssumption DEF IInv, TypeOK
  <1>3. local \in Local /\ local.cred = 0 /\ local.since = now
    BY <1>2 DEF Local, Idle
  <1>4. /\ WorkOK("grant set", local) /\ AssumeFits("grant set", local)
        /\ GrantFits("grant set", local) /\ AccessFits("grant set", local)
        /\ ~Assuming("grant set") /\ "grant set" \in Steps
    BY <1>2, <1>3 DEF WorkOK, AssumeFits, GrantFits, AccessFits, Assuming, Steps
  <1>5. UNCHANGED <<now, issued, stored, tokens>>
    BY DEF GrantPlain
  <1> QED BY <1>1, <1>3, <1>4, <1>5, LocalMove

LEMMA AccessRetrieveKeeps ==
  ASSUME IInv, NEW p \in Procs, AccessRetrieve(p)
  PROVE  IInv'
  <1>1. PICK t \in DOMAIN tokens :
          tokens[t].cred # 0 /\ Goto(p, "access keys", [Idle EXCEPT !.token = t])
    BY DEF AccessRetrieve
  <1> DEFINE local == [Idle EXCEPT !.token = t]
  <1>2. t \in Nat
    BY DEF IInv, TypeOK
  <1>3. local \in Local /\ local.token = t
    BY <1>2 DEF Local, Idle
  <1>4. /\ WorkOK("access keys", local) /\ AssumeFits("access keys", local)
        /\ GrantFits("access keys", local) /\ AccessFits("access keys", local)
        /\ ~Assuming("access keys") /\ "access keys" \in Steps
    BY <1>1, <1>3 DEF WorkOK, AssumeFits, GrantFits, AccessFits, Assuming, Steps
  <1>5. UNCHANGED <<now, issued, stored, tokens>>
    BY DEF AccessRetrieve
  <1> QED BY <1>1, <1>3, <1>4, <1>5, LocalMove

\* A key that KEYS lists for the session's name is alive, so it is not one that the
\* session's credential replaced.
LEMMA AccessKeysKeeps ==
  ASSUME IInv, NEW p \in Procs, AccessKeys(p)
  PROVE  IInv'
  <1> DEFINE t == work[p].token
             k == tokens[t].cred
  <1>1. pc[p] = "access keys" /\ UNCHANGED <<now, issued, stored, tokens>>
    BY DEF AccessKeys
  <1>2. work[p] \in Local /\ t \in DOMAIN tokens /\ k # 0
    BY <1>1, LocalFacts DEF WorkOK
  <1>3. k \in DOMAIN issued /\ issued[k].done
    BY <1>2 DEF IInv, TypeOK, SessionOK
  <1>4. CASE Goto(p, "idle", Idle)
    BY <1>1, <1>4, Ending
  <1>5. CASE \E c \in KeysOf(issued[k].name) : Goto(p, "access get", [work[p] EXCEPT !.cred = c])
    <2>1. PICK c \in KeysOf(issued[k].name) : Goto(p, "access get", [work[p] EXCEPT !.cred = c])
      BY <1>5
    <2> DEFINE local == [work[p] EXCEPT !.cred = c]
    <2>2. c \in DOMAIN issued /\ c \in Nat /\ Live(c) /\ <<issued[k].name, issued[c].name>> \in Covers
      BY <2>1, KeysFacts
    <2>3. c \notin issued[k].before
      BY <1>3, <2>2 DEF IInv, AssumeReplaces
    <2>4. local \in Local /\ local.cred = c /\ local.token = t
      BY <1>2, <2>2 DEF Local
    <2>5. /\ WorkOK("access get", local) /\ AssumeFits("access get", local)
          /\ GrantFits("access get", local) /\ AccessFits("access get", local)
          /\ ~Assuming("access get") /\ "access get" \in Steps
      BY <1>2, <2>2, <2>3, <2>4 DEF WorkOK, AssumeFits, GrantFits, AccessFits, Assuming, Steps
    <2> QED BY <1>1, <2>1, <2>4, <2>5, LocalMove
  <1> QED BY <1>4, <1>5 DEF AccessKeys

LEMMA AccessGetKeeps ==
  ASSUME IInv, NEW p \in Procs, AccessGet(p)
  PROVE  IInv'
  <1>1. pc[p] = "access get" /\ UNCHANGED <<now, issued, stored, tokens>>
    BY DEF AccessGet
  <1>2. /\ work[p] \in Local /\ "answered" \in Steps /\ ~Assuming("answered")
        /\ WorkOK("answered", work[p]) /\ AssumeFits("answered", work[p])
        /\ GrantFits("answered", work[p]) /\ AccessFits("answered", work[p])
    BY <1>1, LocalFacts DEF WorkOK, AssumeFits, GrantFits, AccessFits, Assuming, Steps
  <1>3. CASE Goto(p, "answered", work[p])
    BY <1>1, <1>2, <1>3, LocalMove
  <1>4. CASE Goto(p, "idle", Idle)
    BY <1>1, <1>4, Ending
  <1> QED BY <1>3, <1>4 DEF AccessGet

-----------------------------------------------------------------------------
(***************************************************************************)
(* The clock, and the steps that write.                                    *)
(***************************************************************************)
LEMMA TickKeeps ==
  ASSUME IInv, Tick
  PROVE  IInv'
  <1>1. now' = now + 1 /\ now \in Nat /\ UNCHANGED <<issued, stored, tokens, pc, work>>
    BY DEF Tick, IInv, TypeOK
  <1>2. \A c : Live(c)' => Live(c)
    <2> SUFFICES ASSUME NEW c, Live(c)' PROVE Live(c)
      OBVIOUS
    <2>1. c \in DOMAIN stored /\ (stored[c] # Never => now + 1 < stored[c])
      BY <1>1 DEF Live, Lives
    <2>2. stored[c] \in Int \cup {Never}
      BY <2>1 DEF IInv, TypeOK
    <2> QED BY <1>1, <2>1, <2>2 DEF Live, Lives
  <1>3. \A p \in Procs : WorkOK(pc[p], work[p])'
    <2> SUFFICES ASSUME NEW p \in Procs PROVE WorkOK(pc[p], work[p])'
      OBVIOUS
    <2>1. WorkOK(pc[p], work[p]) /\ work[p].since \in Nat
      BY LocalFacts DEF Local
    <2>2. work[p].since <= now => work[p].since <= now'
      BY <1>1, <2>1
    <2>3. pc'[p] = pc[p] /\ work'[p] = work[p] /\ issued' = issued /\ tokens' = tokens
      BY <1>1
    <2> QED BY <2>1, <2>2, <2>3 DEF WorkOK
  <1>4. TypeOK'
    <2>1. \A c \in DOMAIN issued : issued[c].began <= now + 1
      BY <1>1, IssuedFacts
    <2> QED BY <1>1, <1>3, <2>1 DEF IInv, TypeOK
  <1>5. (StoredOK /\ BeforeOK /\ SessionOK /\ TokenLife /\ OwnCredential)'
    BY <1>1 DEF IInv, StoredOK, BeforeOK, SessionOK, TokenLife, OwnCredential, ExpireAt
  <1>6. AssumeReplaces'
    BY <1>1, <1>2 DEF IInv, AssumeReplaces
  <1>7. \A p \in Procs : AssumeFits(pc[p], work[p])'
    <2> SUFFICES ASSUME NEW p \in Procs PROVE AssumeFits(pc[p], work[p])'
      OBVIOUS
    <2>1. AssumeFits(pc[p], work[p])
      BY LocalFacts
    <2> QED BY <1>1, <1>2, <2>1 DEF AssumeFits
  <1>8. \A p \in Procs : GrantFits(pc[p], work[p])'
    <2> SUFFICES ASSUME NEW p \in Procs PROVE GrantFits(pc[p], work[p])'
      OBVIOUS
    <2>1. GrantFits(pc[p], work[p]) /\ WorkOK(pc[p], work[p]) /\ work[p] \in Local
      BY LocalFacts
    <2>2. pc[p] = "grant set" /\ work[p].cred # 0 =>
            work[p].ttl \in Int /\ ExpireAt(work[p].cred) \in Int
      BY <2>1, IssuedFacts DEF WorkOK, Local
    <2>3. ExpireAt(work[p].cred)' = ExpireAt(work[p].cred)
      BY <1>1 DEF ExpireAt
    <2>4. pc[p] = "grant set" /\ work[p].cred # 0 => ExpireAt(work[p].cred) - now' <= work[p].ttl
      <3>1. pc[p] = "grant set" /\ work[p].cred # 0 => ExpireAt(work[p].cred) - now <= work[p].ttl
        BY <2>1 DEF GrantFits
      <3> DEFINE e == ExpireAt(work[p].cred)
                 t == work[p].ttl
      <3>2. SUFFICES ASSUME pc[p] = "grant set", work[p].cred # 0 PROVE e - now' <= t
        OBVIOUS
      <3>3. e \in Int /\ t \in Int /\ e - now <= t
        BY <2>2, <3>1, <3>2
      <3> HIDE DEF e, t
      <3> QED BY <1>1, <3>3
    <2>5. pc'[p] = pc[p] /\ work'[p] = work[p] /\ issued' = issued
      BY <1>1
    <2> QED BY <2>1, <2>3, <2>4, <2>5 DEF GrantFits
  <1>9. \A p \in Procs : AccessFits(pc[p], work[p])'
    BY <1>1 DEF IInv, LocalOK, AccessFits
  <1> QED BY <1>4, <1>5, <1>6, <1>7, <1>8, <1>9 DEF IInv, LocalOK

LEMMA AssumeBeginKeeps ==
  ASSUME IInv, NEW p \in Procs, AssumeBegin(p)
  PROVE  IInv'
  <1>1. PICK name \in Names, role \in Roles, d \in Durations :
          issued' = Append(issued,
            [name |-> name, role |-> role, duration |-> d, began |-> now,
             lag |-> 0, done |-> FALSE, before |-> DOMAIN stored])
    BY DEF AssumeBegin
  <1> DEFINE new == [name |-> name, role |-> role, duration |-> d, began |-> now,
                     lag |-> 0, done |-> FALSE, before |-> DOMAIN stored]
             n == Len(issued) + 1
             local == [Idle EXCEPT !.cred = n]
  <1>2. /\ pc[p] = "idle" /\ UNCHANGED <<now, stored, tokens>>
        /\ Goto(p, "assume keys", local)
    BY DEF AssumeBegin
  <1>3. /\ now \in Nat /\ issued \in Seq(Credential) /\ DOMAIN stored \subseteq DOMAIN issued
        /\ DOMAIN stored \subseteq Nat
    BY DEF IInv, TypeOK
  <1>4. new \in Credential
    BY <1>3 DEF Credential
  <1>5. /\ issued' \in Seq(Credential) /\ n \in Nat /\ n \notin DOMAIN issued /\ n # 0
        /\ DOMAIN issued' = DOMAIN issued \cup {n} /\ issued'[n] = new
        /\ \A c \in DOMAIN issued : issued'[c] = issued[c]
    <2> HIDE DEF new
    <2> QED BY <1>1, <1>3, <1>4 DEF new
  <1>6. new.done = FALSE /\ new.before = DOMAIN stored /\ new.began = now
    OBVIOUS
  <1> HIDE DEF new
  <1>7. local \in Local /\ local.cred = n
    BY <1>5, IdleLocal DEF Local
  <1> HIDE DEF local
  <1>8. /\ pc \in [Procs -> Steps] /\ work \in [Procs -> Local]
        /\ pc' = [pc EXCEPT ![p] = "assume keys"] /\ work' = [work EXCEPT ![p] = local]
    BY <1>2 DEF IInv, TypeOK, Goto
  <1>9. /\ pc'[p] = "assume keys" /\ work'[p] = local
        /\ \A q \in Procs : q # p => pc'[q] = pc[q] /\ work'[q] = work[q]
        /\ pc' \in [Procs -> Steps] /\ work' \in [Procs -> Local]
    BY <1>7, <1>8 DEF Steps
  <1>10. \A q \in Procs : WorkOK(pc[q], work[q])'
    <2> SUFFICES ASSUME NEW q \in Procs PROVE WorkOK(pc[q], work[q])'
      OBVIOUS
    <2>1. CASE q = p
      BY <1>5, <1>7, <1>9, <2>1 DEF WorkOK
    <2>2. CASE q # p
      BY <1>2, <1>5, <1>9, <2>2, LocalFacts DEF WorkOK
    <2> QED BY <2>1, <2>2
  <1>11. TypeOK'
    <2>1. \A c \in DOMAIN issued' : issued'[c].began <= now'
      <3>1. \A c \in DOMAIN issued : issued'[c].began <= now'
        BY <1>2, <1>5, IssuedFacts
      <3>2. issued'[n].began <= now'
        <4>1. issued'[n].began = now
          BY <1>5, <1>6
        <4>2. now' = now
          BY <1>2
        <4>3. now <= now
          BY <1>3
        <4> HIDE DEF n
        <4> QED BY <4>1, <4>2, <4>3
      <3> QED BY <1>5, <3>1, <3>2
    <2>2. /\ tokens \in Seq(Token) /\ \A c \in DOMAIN stored : stored[c] \in Int \cup {Never}
          /\ \A t \in DOMAIN tokens : tokens[t].cred \in DOMAIN issued' \cup {0}
      BY <1>5 DEF IInv, TypeOK
    <2> QED BY <1>2, <1>3, <1>5, <1>9, <1>10, <2>1, <2>2 DEF TypeOK
  <1>12. StoredOK'
    BY <1>2, <1>3, <1>5 DEF IInv, StoredOK, ExpireAt
  <1>13. BeforeOK'
    BY <1>3, <1>5, <1>6 DEF IInv, BeforeOK, StoredOK
  <1>14. SessionOK' /\ TokenLife'
    <2>1. \A t \in DOMAIN tokens : tokens[t].cred # 0 => tokens[t].cred \in DOMAIN issued
      BY DEF IInv, TypeOK
    <2> QED BY <1>2, <1>5, <2>1 DEF IInv, SessionOK, TokenLife, ExpireAt
  <1>15. AssumeReplaces'
    BY <1>2, <1>5, <1>6 DEF IInv, AssumeReplaces, BeforeOK, Live, Lives
  <1>16. OwnCredential'
    <2>1. \A q \in Procs : Assuming(pc[q]) => work[q].cred \in DOMAIN issued
      BY LocalFacts DEF WorkOK, Assuming
    <2>2. \A q \in Procs : q # p /\ Assuming(pc'[q]) => work'[q].cred # n
      BY <1>5, <1>9, <2>1
    <2>3. \A q, r \in Procs : q # p /\ r # p /\ Assuming(pc'[q]) /\ Assuming(pc'[r])
                               /\ work'[q].cred = work'[r].cred => q = r
      BY <1>9 DEF IInv, OwnCredential
    <2>4. work'[p].cred = n
      BY <1>7, <1>9
    <2> QED BY <2>2, <2>3, <2>4 DEF OwnCredential
  <1>17. LocalOK'
    <2> SUFFICES ASSUME NEW q \in Procs
                 PROVE  (/\ AssumeFits(pc[q], work[q]) /\ GrantFits(pc[q], work[q])
                         /\ AccessFits(pc[q], work[q]))'
      BY DEF LocalOK
    <2>1. CASE q = p
      BY <1>5, <1>6, <1>7, <1>9, <2>1 DEF AssumeFits, GrantFits, AccessFits, Assuming
    <2>2. CASE q # p
      <3>1. /\ work[q] \in Local /\ WorkOK(pc[q], work[q]) /\ AssumeFits(pc[q], work[q])
            /\ GrantFits(pc[q], work[q]) /\ AccessFits(pc[q], work[q])
        BY LocalFacts
      <3>5. pc'[q] = pc[q] /\ work'[q] = work[q] /\ now' = now /\ stored' = stored
        BY <1>2, <1>9, <2>2
      <3>6. work[q].cred \in DOMAIN issued => issued'[work[q].cred] = issued[work[q].cred]
        BY <1>5
      <3>2. AssumeFits(pc[q], work[q])'
        <4>1. work[q].cred \in DOMAIN issued =>
                \A old \in issued[work[q].cred].before : issued'[old] = issued[old]
          BY <1>5 DEF IInv, BeforeOK
        <4>2. Assuming(pc[q]) \/ pc[q] = "assume commit" => work[q].cred \in DOMAIN issued
          BY <3>1 DEF WorkOK, Assuming
        <4>3. \A c : Live(c)' = Live(c)
          BY <3>5 DEF Live, Lives
        <4> QED BY <3>1, <3>5, <3>6, <4>1, <4>2, <4>3 DEF AssumeFits
      <3>3. GrantFits(pc[q], work[q])'
        <4>1. pc[q] \in {"grant compute", "grant set"} /\ work[q].cred # 0 =>
                work[q].cred \in DOMAIN issued
          BY <3>1 DEF WorkOK
        <4> QED BY <3>1, <3>5, <3>6, <4>1 DEF GrantFits, ExpireAt
      <3>4. AccessFits(pc[q], work[q])'
        <4>1. pc[q] \in {"access get", "answered"} => tokens[work[q].token].cred \in DOMAIN issued
          BY <3>1 DEF WorkOK, IInv, TypeOK
        <4> QED BY <1>2, <1>5, <1>9, <2>2, <3>1, <4>1 DEF AccessFits
      <3> QED BY <3>2, <3>3, <3>4
    <2> QED BY <2>1, <2>2
  <1> QED BY <1>11, <1>12, <1>13, <1>14, <1>15, <1>16, <1>17 DEF IInv

\* The transaction of an Assume: what it does to the credentials.
LEMMA AssumeCommitFacts ==
  ASSUME IInv, NEW p \in Procs, AssumeCommit(p)
  PROVE  LET c == work[p].cred IN
         /\ pc[p] = "assume commit" /\ Goto(p, "idle", Idle) /\ UNCHANGED <<now, tokens>>
         /\ c \in DOMAIN issued /\ ~issued[c].done /\ c \notin DOMAIN stored
         /\ issued' \in Seq(Credential) /\ DOMAIN issued' = DOMAIN issued
         /\ \A x \in DOMAIN issued : x # c => issued'[x] = issued[x]
         /\ issued'[c] = [issued[c] EXCEPT !.lag = now - issued[c].began, !.done = TRUE]
         /\ DOMAIN stored' = (DOMAIN stored \ work[p].found) \cup {c}
         /\ \A x \in DOMAIN stored' : x # c => stored'[x] = stored[x]
         /\ stored'[c] = Until(issued[c].duration)
  <1> DEFINE c == work[p].cred
             cred == [issued[c] EXCEPT !.lag = now - issued[c].began, !.done = TRUE]
  <1>1. /\ pc[p] = "assume commit" /\ Goto(p, "idle", Idle) /\ UNCHANGED <<now, tokens>>
        /\ stored' = [x \in (DOMAIN stored \ work[p].found) \cup {c} |->
                        IF x = c THEN Until(issued[c].duration) ELSE stored[x]]
        /\ issued' = [issued EXCEPT ![c].lag = now - issued[c].began, ![c].done = TRUE]
    BY DEF AssumeCommit
  <1>2. c \in DOMAIN issued /\ ~issued[c].done
    BY <1>1, LocalFacts DEF WorkOK, AssumeFits, Assuming
  <1>3. c \notin DOMAIN stored
    BY <1>2 DEF IInv, StoredOK
  <1>4. issued \in Seq(Credential) /\ issued[c] \in Credential
    BY <1>2, IssuedFacts DEF IInv, TypeOK
  <1>5. now - issued[c].began \in Nat
    BY <1>2, IssuedFacts
  <1>6. cred \in Credential
    BY <1>4, <1>5 DEF Credential
  <1>7. issued' = [issued EXCEPT ![c] = cred]
    BY <1>1
  <1> HIDE DEF cred
  <1>8. /\ issued' \in Seq(Credential) /\ DOMAIN issued' = DOMAIN issued /\ issued'[c] = cred
        /\ \A x \in DOMAIN issued : x # c => issued'[x] = issued[x]
    BY <1>2, <1>4, <1>6, <1>7
  <1> QED BY <1>1, <1>2, <1>3, <1>8 DEF cred

LEMMA AssumeCommitKeeps ==
  ASSUME IInv, NEW p \in Procs, AssumeCommit(p)
  PROVE  IInv'
  <1>0. PICK c : c = work[p].cred
    OBVIOUS
  <1>1. /\ pc[p] = "assume commit" /\ Goto(p, "idle", Idle) /\ now' = now /\ tokens' = tokens
        /\ c \in DOMAIN issued /\ ~issued[c].done /\ c \notin DOMAIN stored
        /\ issued' \in Seq(Credential) /\ DOMAIN issued' = DOMAIN issued
        /\ \A x \in DOMAIN issued : x # c => issued'[x] = issued[x]
    BY <1>0, AssumeCommitFacts
  <1>2. /\ DOMAIN stored' = (DOMAIN stored \ work[p].found) \cup {c}
        /\ \A x \in DOMAIN stored' : x # c => stored'[x] = stored[x]
        /\ stored'[c] = Until(issued[c].duration)
    BY <1>0, AssumeCommitFacts
  <1>3. /\ issued'[c].name = issued[c].name /\ issued'[c].duration = issued[c].duration
        /\ issued'[c].began = issued[c].began /\ issued'[c].before = issued[c].before
        /\ issued'[c].lag = now - issued[c].began /\ issued'[c].done
    <2>1. issued'[c] = [issued[c] EXCEPT !.lag = now - issued[c].began, !.done = TRUE]
      BY <1>0, AssumeCommitFacts
    <2>2. issued[c] \in Credential
      BY <1>1, IssuedFacts
    <2> QED BY <2>1, <2>2 DEF Credential
  <1>4. \A x \in DOMAIN issued :
          /\ issued'[x].name = issued[x].name /\ issued'[x].duration = issued[x].duration
          /\ issued'[x].began = issued[x].began /\ issued'[x].before = issued[x].before
          /\ issued[x].done => x # c /\ issued'[x].done /\ issued'[x].lag = issued[x].lag
    BY <1>1, <1>3
  <1>5. \A x \in DOMAIN issued : ExpireAt(x)' = ExpireAt(x)
    BY <1>4 DEF ExpireAt
  <1>6. \A x : x # c /\ Live(x)' => Live(x) /\ x \notin work[p].found
    BY <1>1, <1>2 DEF Live, Lives
  <1>7. /\ pc' \in [Procs -> Steps] /\ work' \in [Procs -> Local]
        /\ pc'[p] = "idle" /\ work'[p] = Idle
        /\ \A q \in Procs : q # p => pc'[q] = pc[q] /\ work'[q] = work[q]
    <2>1. /\ pc \in [Procs -> Steps] /\ work \in [Procs -> Local]
          /\ pc' = [pc EXCEPT ![p] = "idle"] /\ work' = [work EXCEPT ![p] = Idle]
      BY <1>1 DEF IInv, TypeOK, Goto
    <2> QED BY <2>1, IdleLocal DEF Steps
  <1>8. StoredOK' /\ \A x \in DOMAIN stored' : stored'[x] \in Int \cup {Never}
    <2>1. ASSUME NEW x \in DOMAIN stored', x # c
          PROVE  /\ issued'[x].done /\ stored'[x] \in Int \cup {Never}
                 /\ stored'[x] = IF issued'[x].duration > 0
                                   THEN ExpireAt(x)' + issued'[x].lag ELSE Never
      <3>1. x \in DOMAIN stored /\ x \in DOMAIN issued /\ stored'[x] = stored[x]
        BY <1>2, <2>1 DEF IInv, TypeOK
      <3>2. /\ issued[x].done /\ stored[x] \in Int \cup {Never}
            /\ stored[x] = IF issued[x].duration > 0
                             THEN ExpireAt(x) + issued[x].lag ELSE Never
        BY <3>1 DEF IInv, StoredOK, TypeOK
      <3>3. /\ issued'[x].done /\ issued'[x].duration = issued[x].duration
            /\ issued'[x].lag = issued[x].lag /\ ExpireAt(x)' = ExpireAt(x)
        BY <1>4, <1>5, <3>1, <3>2
      <3> QED BY <3>1, <3>2, <3>3
    <2>2. /\ issued'[c].done /\ stored'[c] \in Int \cup {Never}
          /\ stored'[c] = IF issued'[c].duration > 0
                            THEN ExpireAt(c)' + issued'[c].lag ELSE Never
      <3>1. /\ issued[c].duration \in Int /\ issued[c].began \in Nat /\ now \in Nat
            /\ ExpireAt(c) = issued[c].began + issued[c].duration
        BY <1>1, IssuedFacts DEF ExpireAt
      <3>2. ExpireAt(c) + (now - issued[c].began) = now + issued[c].duration
        BY <3>1
      <3>3. /\ issued'[c].done /\ issued'[c].duration = issued[c].duration
            /\ issued'[c].lag = now - issued[c].began /\ ExpireAt(c)' = ExpireAt(c)
            /\ stored'[c] = IF issued[c].duration > 0 THEN now + issued[c].duration ELSE Never
        BY <1>1, <1>2, <1>3, <1>5 DEF Until
      <3>4. now + issued[c].duration \in Int
        BY <3>1
      <3> QED BY <3>2, <3>3, <3>4
    <2>3. StoredOK'
      BY <2>1, <2>2 DEF StoredOK
    <2> QED BY <2>1, <2>2, <2>3
  <1>9. TypeOK'
    <2>1. \A x \in DOMAIN issued' : issued'[x].began <= now'
      BY <1>1, <1>4, IssuedFacts
    <2>2. DOMAIN stored' \subseteq DOMAIN issued'
      BY <1>1, <1>2 DEF IInv, TypeOK
    <2>3. \A q \in Procs : WorkOK(pc[q], work[q])'
      <3> SUFFICES ASSUME NEW q \in Procs PROVE WorkOK(pc[q], work[q])'
        OBVIOUS
      <3>1. CASE q = p
        BY <1>7, <3>1 DEF WorkOK
      <3>2. CASE q # p
        <4>1. pc'[q] = pc[q] /\ work'[q] = work[q] /\ WorkOK(pc[q], work[q])
          BY <1>7, <3>2, LocalFacts
        <4> QED BY <1>1, <4>1 DEF WorkOK
      <3> QED BY <3>1, <3>2
    <2>4. /\ now \in Nat /\ tokens \in Seq(Token)
          /\ \A t \in DOMAIN tokens : tokens[t].cred \in DOMAIN issued \cup {0}
      BY DEF IInv, TypeOK
    <2> QED BY <1>1, <1>7, <1>8, <2>1, <2>2, <2>3, <2>4 DEF TypeOK
  <1>10. BeforeOK'
    BY <1>1, <1>4 DEF IInv, BeforeOK
  <1>11. SessionOK' /\ TokenLife'
    <2>1. \A t \in DOMAIN tokens : tokens[t].cred # 0 =>
            /\ tokens[t].cred \in DOMAIN issued /\ issued[tokens[t].cred].done
            /\ tokens[t].expireAt = ExpireAt(tokens[t].cred)
      BY DEF IInv, TypeOK, SessionOK
    <2>2. SessionOK'
      BY <1>1, <1>4, <1>5, <2>1 DEF SessionOK
    <2>3. TokenLife'
      BY <1>1, <1>4, <2>1 DEF IInv, TokenLife
    <2> QED BY <2>2, <2>3
  <1>12. \A x \in DOMAIN issued : \A old \in issued[x].before : old \in DOMAIN issued /\ old # c
    BY <1>1 DEF IInv, BeforeOK
  <1>13. AssumeReplaces'
    <2> SUFFICES ASSUME NEW x \in DOMAIN issued', issued'[x].done, NEW old \in issued'[x].before,
                        <<issued'[x].name, issued'[old].name>> \in Covers
                 PROVE  ~Live(old)'
      BY DEF AssumeReplaces
    <2>1. x \in DOMAIN issued /\ old \in issued[x].before /\ old \in DOMAIN issued
      BY <1>1, <1>4, <1>12
    <2>2. <<issued[x].name, issued[old].name>> \in Covers /\ old # c
      BY <1>4, <1>12, <2>1
    <2>3. CASE x = c
      <3>1. old \in work[p].found \/ ~Live(old)
        BY <1>0, <1>1, <2>1, <2>3, <2>2, LocalFacts DEF AssumeFits
      <3> QED BY <1>6, <2>2, <3>1
    <2>4. CASE x # c
      <3>1. issued[x].done
        BY <1>1, <2>1, <2>4
      <3> QED BY <1>6, <2>1, <2>2, <3>1 DEF IInv, AssumeReplaces
    <2> QED BY <2>3, <2>4
  <1>14. OwnCredential'
    BY <1>7 DEF IInv, OwnCredential, Assuming
  <1>15. LocalOK'
    <2> SUFFICES ASSUME NEW q \in Procs
                 PROVE  (/\ AssumeFits(pc[q], work[q]) /\ GrantFits(pc[q], work[q])
                         /\ AccessFits(pc[q], work[q]))'
      BY DEF LocalOK
    <2>1. CASE q = p
      BY <1>7, <2>1 DEF AssumeFits, GrantFits, AccessFits, Assuming
    <2>2. CASE q # p
      <3>1. /\ work[q] \in Local /\ WorkOK(pc[q], work[q]) /\ AssumeFits(pc[q], work[q])
            /\ GrantFits(pc[q], work[q]) /\ AccessFits(pc[q], work[q])
        BY LocalFacts
      <3>2. pc'[q] = pc[q] /\ work'[q] = work[q]
        BY <1>7, <2>2
      <3>3. AssumeFits(pc[q], work[q])'
        <4>1. Assuming(pc[q]) => work[q].cred \in DOMAIN issued /\ work[q].cred # c
          BY <1>0, <1>1, <2>2, <3>1 DEF IInv, OwnCredential, WorkOK, Assuming
        <4>2. Assuming(pc[q]) => issued'[work[q].cred] = issued[work[q].cred]
          BY <1>1, <4>1
        <4>3. Assuming(pc[q]) =>
                \A old \in issued[work[q].cred].before :
                  issued'[old].name = issued[old].name /\ (Live(old)' => Live(old))
          BY <1>4, <1>6, <1>12, <4>1
        <4>4. pc[q] = "assume commit" => Assuming(pc[q])
          BY DEF Assuming
        <4> QED BY <3>1, <3>2, <4>2, <4>3, <4>4 DEF AssumeFits
      <3>4. GrantFits(pc[q], work[q])'
        <4>1. pc[q] \in {"grant compute", "grant set"} /\ work[q].cred # 0 =>
                work[q].cred \in DOMAIN issued /\ issued[work[q].cred].done
          BY <3>1 DEF WorkOK, GrantFits
        <4> QED BY <1>1, <1>4, <1>5, <3>1, <3>2, <4>1 DEF GrantFits
      <3>5. AccessFits(pc[q], work[q])'
        <4>1. pc[q] \in {"access get", "answered"} => tokens[work[q].token].cred \in DOMAIN issued
          BY <3>1 DEF WorkOK, IInv, TypeOK
        <4>2. /\ tokens' = tokens
              /\ pc[q] \in {"access get", "answered"} =>
                   issued'[tokens[work[q].token].cred].before = issued[tokens[work[q].token].cred].before
          BY <1>1, <1>4, <4>1
        <4> QED BY <3>1, <3>2, <4>2 DEF AccessFits
      <3> QED BY <3>3, <3>4, <3>5
    <2> QED BY <2>1, <2>2
  <1> QED BY <1>8, <1>9, <1>10, <1>11, <1>13, <1>14, <1>15 DEF IInv

\* The arithmetic of a session token's life: e is its credential's expireAt, lag the
\* time between making and committing the credential.
LEMMA GrantArithmetic ==
  ASSUME NEW e \in Int, NEW lag \in Nat, NEW since \in Nat, NEW ttl \in Int, now \in Nat,
         since <= now, since < e + lag, e - now <= ttl, ttl <= e - since
  PROVE  IF Until(ttl) = Never THEN lag + (now - since) > 0
         ELSE Until(ttl) <= e + (now - since)
  <1>1. CASE ttl > 0
    <2>1. Until(ttl) = now + ttl /\ now + ttl \in Int
      BY <1>1 DEF Until
    <2>2. Until(ttl) # Never
      BY <2>1, TimesAssumption
    <2>3. now + ttl <= e + (now - since)
      OBVIOUS
    <2> QED BY <2>1, <2>2, <2>3
  <1>2. CASE ~(ttl > 0)
    <2>1. Until(ttl) = Never
      BY <1>2 DEF Until
    <2>2. lag + (now - since) > 0
      BY <1>2
    <2> QED BY <2>1, <2>2
  <1> QED BY <1>1, <1>2

LEMMA GrantSetKeeps ==
  ASSUME IInv, NEW p \in Procs, GrantSet(p)
  PROVE  IInv'
  <1>1. PICK w : w = work[p]
    OBVIOUS
  <1>2. PICK token :
          token = [cred |-> w.cred, until |-> Until(w.ttl), lag |-> now - w.since,
                   asked |-> w.asked,
                   expireAt |-> IF w.cred = 0 THEN w.since + PlainLife ELSE ExpireAt(w.cred)]
    OBVIOUS
  <1>3. /\ pc[p] = "grant set" /\ tokens' = Append(tokens, token)
        /\ Goto(p, "idle", Idle) /\ UNCHANGED <<now, issued, stored>>
    BY <1>1, <1>2 DEF GrantSet
  <1>4. /\ w \in Local /\ w.since <= now /\ w.cred \in DOMAIN issued \cup {0}
        /\ now \in Nat /\ tokens \in Seq(Token)
        /\ GrantFits("grant set", w)
    BY <1>1, <1>3, LocalFacts DEF WorkOK, IInv, TypeOK
  <1>5. w.cred \in Nat /\ w.ttl \in Int /\ w.since \in Nat /\ w.asked \in Int
    BY <1>4 DEF Local
  <1>6. /\ token.cred = w.cred /\ token.until = Until(w.ttl) /\ token.lag = now - w.since
        /\ w.cred # 0 => token.expireAt = ExpireAt(w.cred)
    BY <1>2
  <1>7. w.cred # 0 => ExpireAt(w.cred) \in Int
    BY <1>4, IssuedFacts
  <1>8. token \in Token
    <2>1. now + w.ttl \in Int /\ now - w.since \in Nat
      <3>1. now \in Nat /\ w.since \in Nat /\ w.ttl \in Int /\ w.since <= now
        BY <1>4, <1>5
      <3> QED BY <3>1
    <2>2. Until(w.ttl) \in Int \cup {Never}
      BY <2>1 DEF Until
    <2>3. PlainLife \in Int
      BY TimesAssumption
    <2>4. w.since + PlainLife \in Int
      BY <1>5, <2>3
    <2> QED BY <1>2, <1>5, <1>7, <2>1, <2>2, <2>4 DEF Token
  <1>9. PICK n : n = Len(tokens) + 1
    OBVIOUS
  <1>10. /\ tokens' \in Seq(Token) /\ n \in Nat /\ n \notin DOMAIN tokens /\ tokens'[n] = token
         /\ DOMAIN tokens' = DOMAIN tokens \cup {n}
         /\ \A t \in DOMAIN tokens : tokens'[t] = tokens[t]
    <2>1. tokens' = Append(tokens, token) /\ tokens \in Seq(Token) /\ token \in Token
      BY <1>3, <1>4, <1>8
    <2>2. /\ tokens' \in Seq(Token) /\ Len(tokens) \in Nat
          /\ DOMAIN tokens = 1 .. Len(tokens) /\ DOMAIN tokens' = 1 .. Len(tokens) + 1
          /\ tokens'[Len(tokens) + 1] = token
          /\ \A t \in 1 .. Len(tokens) : tokens'[t] = tokens[t]
      BY <2>1
    <2> QED BY <1>9, <2>2
  <1>11. /\ pc' \in [Procs -> Steps] /\ work' \in [Procs -> Local]
         /\ pc'[p] = "idle" /\ work'[p] = Idle
         /\ \A q \in Procs : q # p => pc'[q] = pc[q] /\ work'[q] = work[q]
    <2>1. /\ pc \in [Procs -> Steps] /\ work \in [Procs -> Local]
          /\ pc' = [pc EXCEPT ![p] = "idle"] /\ work' = [work EXCEPT ![p] = Idle]
      BY <1>3 DEF IInv, TypeOK, Goto
    <2> QED BY <2>1, IdleLocal DEF Steps
  <1>12. \A x : ExpireAt(x)' = ExpireAt(x) /\ Live(x)' = Live(x)
    BY <1>3 DEF ExpireAt, Live, Lives
  <1>13. ASSUME NEW q \in Procs
         PROVE  (/\ WorkOK(pc[q], work[q]) /\ AssumeFits(pc[q], work[q])
                 /\ GrantFits(pc[q], work[q]) /\ AccessFits(pc[q], work[q]))'
    <2>1. CASE q = p
      BY <1>11, <2>1 DEF WorkOK, AssumeFits, GrantFits, AccessFits, Assuming
    <2>2. CASE q # p
      <3>1. /\ WorkOK(pc[q], work[q]) /\ AssumeFits(pc[q], work[q])
            /\ GrantFits(pc[q], work[q]) /\ AccessFits(pc[q], work[q])
        BY LocalFacts
      <3>2. /\ pc'[q] = pc[q] /\ work'[q] = work[q]
            /\ now' = now /\ issued' = issued /\ stored' = stored
        BY <1>3, <1>11, <2>2
      <3>3. WorkOK(pc[q], work[q])'
        BY <1>10, <3>1, <3>2 DEF WorkOK
      <3>4. AssumeFits(pc[q], work[q])' /\ GrantFits(pc[q], work[q])'
        BY <1>12, <3>1, <3>2 DEF AssumeFits, GrantFits
      <3>5. pc[q] \in {"access get", "answered"} =>
              tokens'[work[q].token] = tokens[work[q].token]
        BY <1>10, <3>1 DEF WorkOK
      <3>6. AccessFits(pc[q], work[q])'
        BY <3>1, <3>2, <3>5 DEF AccessFits
      <3> QED BY <3>3, <3>4, <3>6
    <2> QED BY <2>1, <2>2
  <1>14. TypeOK'
    <2>1. \A t \in DOMAIN tokens' : tokens'[t].cred \in DOMAIN issued \cup {0}
      BY <1>4, <1>6, <1>10 DEF IInv, TypeOK
    <2> QED BY <1>3, <1>10, <1>11, <1>13, <2>1 DEF IInv, TypeOK
  <1>15. StoredOK' /\ BeforeOK' /\ AssumeReplaces'
    BY <1>3, <1>12 DEF IInv, StoredOK, BeforeOK, AssumeReplaces
  <1>16. OwnCredential'
    BY <1>11 DEF IInv, OwnCredential, Assuming
  <1>17. LocalOK'
    BY <1>13 DEF LocalOK
  <1>18. SessionOK'
    <2>1. w.cred # 0 => issued[w.cred].done
      BY <1>4 DEF GrantFits
    <2>2. token.cred # 0 => issued[token.cred].done /\ token.expireAt = ExpireAt(token.cred)
      BY <1>6, <2>1
    <2>3. \A t \in DOMAIN tokens' : tokens'[t].cred # 0 =>
            issued[tokens'[t].cred].done /\ tokens'[t].expireAt = ExpireAt(tokens'[t].cred)
      BY <1>10, <2>2 DEF IInv, SessionOK
    <2> QED BY <1>3, <2>3 DEF SessionOK, ExpireAt
  <1>19. TokenLife'
    <2> SUFFICES ASSUME NEW t \in DOMAIN tokens', tokens'[t].cred # 0,
                        issued[tokens'[t].cred].duration > 0
                 PROVE  IF tokens'[t].until = Never
                          THEN issued[tokens'[t].cred].lag + tokens'[t].lag > 0
                          ELSE tokens'[t].until <= tokens'[t].expireAt + tokens'[t].lag
      BY <1>3 DEF TokenLife
    <2>1. CASE t \in DOMAIN tokens
      BY <1>10, <2>1 DEF IInv, TokenLife
    <2>2. CASE t = n
      <3>1. tokens'[t] = token /\ w.cred # 0 /\ w.cred \in DOMAIN issued
        BY <1>4, <1>6, <1>10, <2>2
      <3>2. /\ w.since < ExpireAt(w.cred) + issued[w.cred].lag
            /\ ExpireAt(w.cred) - now <= w.ttl /\ w.ttl <= ExpireAt(w.cred) - w.since
        BY <1>4, <1>6, <3>1 DEF GrantFits
      <3>3. ExpireAt(w.cred) \in Int /\ issued[w.cred].lag \in Nat
        BY <3>1, IssuedFacts
      <3>4. IF Until(w.ttl) = Never THEN issued[w.cred].lag + (now - w.since) > 0
            ELSE Until(w.ttl) <= ExpireAt(w.cred) + (now - w.since)
        BY <1>4, <1>5, <3>2, <3>3, GrantArithmetic
      <3> QED BY <1>6, <3>1, <3>4
    <2> QED BY <1>10, <2>1, <2>2
  <1> QED BY <1>14, <1>15, <1>16, <1>17, <1>18, <1>19 DEF IInv

-----------------------------------------------------------------------------
LEMMA InitInv ==
  ASSUME Init
  PROVE  IInv
  <1>1. /\ now = 0 /\ issued = <<>> /\ stored = <<>> /\ tokens = <<>>
        /\ DOMAIN issued = {} /\ DOMAIN stored = {} /\ DOMAIN tokens = {}
        /\ \A p \in Procs : pc[p] = "idle" /\ work[p] = Idle
    BY DEF Init
  <1>2. pc \in [Procs -> Steps] /\ work \in [Procs -> Local]
    BY IdleLocal DEF Init, Steps
  <1>3. issued \in Seq(Credential) /\ tokens \in Seq(Token)
    BY <1>1
  <1>4. TypeOK
    BY <1>1, <1>2, <1>3 DEF TypeOK, WorkOK
  <1>5. StoredOK /\ BeforeOK /\ SessionOK /\ AssumeReplaces /\ TokenLife
    BY <1>1 DEF StoredOK, BeforeOK, SessionOK, AssumeReplaces, TokenLife
  <1>6. OwnCredential /\ LocalOK
    BY <1>1 DEF OwnCredential, LocalOK, Assuming, AssumeFits, GrantFits, AccessFits
  <1> QED BY <1>4, <1>5, <1>6 DEF IInv

LEMMA NextKeeps ==
  ASSUME IInv, Next
  PROVE  IInv'
  <1>1. CASE Tick
    BY <1>1, TickKeeps
  <1>2. ASSUME NEW p \in Procs, AccessEnd(p) \/ Abandon(p)
        PROVE  IInv'
    BY <1>2, Ending DEF AccessEnd, Abandon
  <1>3. ASSUME NEW p \in Procs,
               \/ AssumeBegin(p) \/ AssumeKeys(p) \/ AssumeCommit(p)
               \/ GrantFind(p) \/ GrantCompute(p) \/ GrantPlain(p) \/ GrantSet(p)
        PROVE  IInv'
    BY <1>3, AssumeBeginKeeps, AssumeKeysKeeps, AssumeCommitKeeps, GrantFindKeeps,
       GrantComputeKeeps, GrantPlainKeeps, GrantSetKeeps
  <1>4. ASSUME NEW p \in Procs, AccessRetrieve(p) \/ AccessKeys(p) \/ AccessGet(p)
        PROVE  IInv'
    BY <1>4, AccessRetrieveKeeps, AccessKeysKeeps, AccessGetKeeps
  <1> QED BY <1>1, <1>2, <1>3, <1>4 DEF Next

LEMMA StutterKeeps ==
  ASSUME IInv, UNCHANGED vars
  PROVE  IInv'
  BY DEF IInv, TypeOK, StoredOK, BeforeOK, SessionOK, AssumeReplaces, TokenLife, OwnCredential,
     LocalOK, WorkOK, AssumeFits, GrantFits, AccessFits, Assuming, ExpireAt, Live, Lives, vars

\* In every behaviour of the sessions the invariant holds: what is stored was
\* committed, its life is counted from its commit, and every request in progress
\* knows what it takes for granted.
THEOREM Invariance == Spec => []IInv
  <1>1. Init => IInv
    BY InitInv
  <1>2. IInv /\ [Next]_vars => IInv'
    BY NextKeeps, StutterKeeps
  <1> QED BY <1>1, <1>2, PTL DEF Spec

\* Every variable has its type, and a request only follows numbers that exist.
THEOREM TypeCorrect == Spec => []TypeOK
  <1>1. IInv => TypeOK
    BY DEF IInv
  <1> QED BY <1>1, Invariance, PTL

\* However Assumes, grants and the clock interleave, a committed Assume leaves
\* alive no credential of its name that was stored when it began.
THEOREM Replaced == Spec => []AssumeReplaces
  <1>1. IInv => AssumeReplaces
    BY DEF IInv
  <1> QED BY <1>1, Invariance, PTL

\* An Access finds the role by the session's name, and still never answers with the
\* role of a credential that the session's own had replaced.
THEOREM RoleIsCurrent == Spec => []NeverReplacedRole
  <1>1. IInv => NeverReplacedRole
    BY DEF IInv, LocalOK, AccessFits, NeverReplacedRole
  <1> QED BY <1>1, Invariance, PTL

\* A session token outlives its credential's expireAt by no more than its grant took,
\* unless time passed while the credential was made or the token granted, or the
\* duration asked for was not positive.
THEOREM LifeBounded == Spec => []TokenLife
  <1>1. IInv => TokenLife
    BY DEF IInv
  <1> QED BY <1>1, Invariance, PTL
===============================================================================
