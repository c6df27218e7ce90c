------------------------- MODULE AuthorizationProofs -------------------------
(***************************************************************************)
(* Proofs about what is allowed: the walk of AccessRules, for any lists of *)
(* statements and any requests; the validators of Conditions, for any      *)
(* operands and any number of values; and Authorize, for any policies,     *)
(* bindings, principals and leftovers and any number of writes.            *)
(***************************************************************************)
EXTENDS AccessRules, Conditions, Authorize, TLAPS, FiniteSetTheorems

-----------------------------------------------------------------------------
(***************************************************************************)
(* The walk over the statements.                                           *)
(***************************************************************************)

\* Passing over statement i leaves no decisive statement before the next one.
LEMMA SkipKeeps ==
  ASSUME WalkIInv, check \in Checks, Skip, UNCHANGED <<statements, request>>,
         ~Decisive(statements[i], request)
  PROVE  WalkIInv'
  <1>1. /\ i \in 1..Len(statements) /\ Len(statements) \in Nat
        /\ DOMAIN statements = 1..Len(statements)
    BY StatementsAreLists DEF WalkIInv, WalkTypeOK, Checks
  <1>2. \A m \in 1..i : ~Decisive(statements[m], request)
    BY <1>1 DEF WalkIInv, WalkSoFar, Checks
  <1>3. CASE i < Len(statements)
    <2>1. i' = i + 1 /\ check' = "resource" /\ verdict' = verdict
      BY <1>3 DEF Skip
    <2>2. WalkTypeOK'
      BY <1>1, <1>3, <2>1 DEF WalkIInv, WalkTypeOK, Checks
    <2>3. WalkSoFar'
      BY <1>1, <1>2, <2>1 DEF WalkSoFar, Decisive, Applies, ResourceMatch, ActionMatch, PrincipalMatch
    <2> QED BY <2>1, <2>2, <2>3 DEF WalkIInv, FirstDecisiveAnswers
  <1>4. CASE ~(i < Len(statements))
    <2>1. i' = i /\ check' = "done" /\ verdict' = "no rule"
      BY <1>4 DEF Skip, Answer
    <2>2. WalkTypeOK'
      BY <2>1 DEF WalkIInv, WalkTypeOK, Endings, Checks
    <2>3. \A m \in DOMAIN statements : ~Decisive(statements[m], request)
      BY <1>1, <1>2, <1>4
    <2>4. FirstDecisiveAnswers'
      BY <2>1, <2>3 DEF FirstDecisiveAnswers, Decisive, Applies, ResourceMatch, ActionMatch, PrincipalMatch
    <2> QED BY <2>1, <2>2, <2>4 DEF WalkIInv, WalkSoFar
  <1> QED BY <1>3, <1>4

\* Answering what the statement under examination says is answering right.
LEMMA AnswerKeeps ==
  ASSUME WalkIInv, check \in Checks, UNCHANGED <<statements, request>>,
         Decisive(statements[i], request), Answer(Says(statements[i], request))
  PROVE  WalkIInv'
  <1>1. i \in DOMAIN statements
    BY DEF WalkIInv, WalkTypeOK
  <1>2. FirstDecisive(statements, request, i)
    BY <1>1 DEF FirstDecisive, WalkIInv, WalkSoFar, Checks
  <1>3. Says(statements[i], request) \in Endings \ {"pending"}
    BY DEF Says, Endings
  <1>4. WalkTypeOK'
    BY <1>3 DEF WalkIInv, WalkTypeOK, Answer, Checks
  <1>5. FirstDecisiveAnswers'
    BY <1>1, <1>2
       DEF FirstDecisiveAnswers, Answer, FirstDecisive, Says, Decisive, Applies, ConditionsHold,
           ResourceMatch, ActionMatch, PrincipalMatch
  <1> QED BY <1>4, <1>5 DEF WalkIInv, WalkSoFar, Answer

\* The effect of the statement under examination is Allow or Deny.
LEMMA Effect == WalkIInv /\ check \in Checks => statements[i].effect \in {"Allow", "Deny"}
  BY StatementsAreLists DEF WalkIInv, WalkTypeOK

\* One check of the walk preserves the invariant, whatever it is about, as long
\* as a mismatch keeps an Allow statement from applying.
LEMMA SoughtKeeps ==
  ASSUME WalkIInv, NEW here \in {"resource", "action", "principal"}, NEW matches \in BOOLEAN,
         NEW next \in {"action", "principal", "condition"}, Sought(here, matches, next),
         ~matches => ~Applies(statements[i], request),
         statements[i].effect = "Allow" /\ matches /\ check' = next => WalkSoFar'
  PROVE  WalkIInv'
  <1>1. check \in Checks /\ UNCHANGED <<statements, request>>
    BY DEF Sought, Checks
  <1>2. CASE ~matches /\ statements[i].effect = "Allow"
    <2>1. Skip
      BY <1>2 DEF Sought
    <2>2. ~Decisive(statements[i], request)
      BY <1>2 DEF Decisive
    <2> QED BY <1>1, <2>1, <2>2, SkipKeeps
  <1>3. CASE matches /\ statements[i].effect = "Deny"
    <2>1. Answer("denied")
      BY <1>3 DEF Sought
    <2>2. Decisive(statements[i], request) /\ Says(statements[i], request) = "denied"
      BY <1>3 DEF Decisive, Says
    <2> QED BY <1>1, <2>1, <2>2, AnswerKeeps
  <1>4. CASE ~(~matches /\ statements[i].effect = "Allow") /\ ~(matches /\ statements[i].effect = "Deny")
    <2>1. check' = next /\ i' = i /\ verdict' = verdict
      BY <1>4 DEF Sought, Continue
    <2>2. WalkTypeOK'
      BY <1>1, <2>1 DEF WalkIInv, WalkTypeOK, Checks
    <2>3. WalkSoFar'
      <3>1. CASE statements[i].effect = "Allow"
        BY <1>4, <2>1, <3>1
      <3>2. CASE statements[i].effect = "Deny"
        BY <1>1, <2>1, <3>2
           DEF WalkIInv, WalkSoFar, Decisive, Applies, ResourceMatch, ActionMatch, PrincipalMatch, Checks
      <3> QED BY <1>1, <3>1, <3>2, Effect
    <2> QED BY <2>1, <2>2, <2>3 DEF WalkIInv, FirstDecisiveAnswers
  <1> QED BY <1>2, <1>3, <1>4

\* The walk keeps its invariant.
THEOREM Invariance == WalkSpec => []WalkIInv
  <1>1. WalkInit => WalkIInv
    <2> SUFFICES ASSUME WalkInit PROVE WalkIInv
      OBVIOUS
    <2>1. DOMAIN statements = 1..Len(statements) /\ Len(statements) \in Nat /\ i = 1
      BY StatementsAreLists DEF WalkInit
    <2>2. CASE Len(statements) = 0
      <3>1. check = "done" /\ verdict = "no rule"
        BY <2>2 DEF WalkInit
      <3>2. \A n \in DOMAIN statements : FALSE
        BY <2>1, <2>2
      <3> QED BY <3>1, <3>2 DEF WalkInit, WalkIInv, WalkTypeOK, WalkSoFar, FirstDecisiveAnswers, Checks, Endings
    <2>3. CASE Len(statements) # 0
      <3>1. check = "resource" /\ verdict = "pending" /\ i \in DOMAIN statements
        BY <2>1, <2>3 DEF WalkInit
      <3>2. \A m \in 1..(i - 1) : FALSE
        BY <2>1
      <3>3. WalkTypeOK
        BY <3>1 DEF WalkInit, WalkTypeOK, Checks, Endings
      <3> QED BY <3>1, <3>2, <3>3 DEF WalkIInv, WalkSoFar, FirstDecisiveAnswers
    <2> QED BY <2>2, <2>3
  <1>2. WalkIInv /\ [WalkNext]_walkVars => WalkIInv'
    <2> SUFFICES ASSUME WalkIInv, [WalkNext]_walkVars PROVE WalkIInv'
      OBVIOUS
    <2> USE DEF Applies
    <2>1. CASE CheckResources
      <3>1. ResourceMatch(statements[i], request) \in BOOLEAN
        BY DEF ResourceMatch
      <3>2. ASSUME statements[i].effect = "Allow", ResourceMatch(statements[i], request), check' = "action"
            PROVE  WalkSoFar'
        <4>1. i' = i /\ UNCHANGED <<statements, request>> /\ check = "resource"
          BY <2>1, <3>2 DEF CheckResources, Sought, Continue, Skip, Answer
        <4> QED BY <3>2, <4>1 DEF WalkIInv, WalkSoFar, Decisive, ResourceMatch, ActionMatch, PrincipalMatch
      <3> QED BY <2>1, <3>1, <3>2, SoughtKeeps DEF CheckResources
    <2>2. CASE CheckActions
      <3>1. ActionMatch(statements[i], request) \in BOOLEAN
        BY DEF ActionMatch
      <3>2. ASSUME statements[i].effect = "Allow", ActionMatch(statements[i], request), check' = "principal"
            PROVE  WalkSoFar'
        <4>1. i' = i /\ UNCHANGED <<statements, request>> /\ check = "action"
          BY <2>2, <3>2 DEF CheckActions, Sought, Continue, Skip, Answer
        <4> QED BY <3>2, <4>1 DEF WalkIInv, WalkSoFar, Decisive, ResourceMatch, ActionMatch, PrincipalMatch
      <3> QED BY <2>2, <3>1, <3>2, SoughtKeeps DEF CheckActions
    <2>3. CASE CheckPrincipal
      <3>1. PrincipalMatch(statements[i], request) \in BOOLEAN
        BY DEF PrincipalMatch
      <3>2. ASSUME statements[i].effect = "Allow", PrincipalMatch(statements[i], request), check' = "condition"
            PROVE  WalkSoFar'
        <4>1. i' = i /\ UNCHANGED <<statements, request>> /\ check = "principal"
          BY <2>3, <3>2 DEF CheckPrincipal, Sought, Continue, Skip, Answer
        <4> QED BY <3>2, <4>1 DEF WalkIInv, WalkSoFar, Decisive, ResourceMatch, ActionMatch, PrincipalMatch
      <3> QED BY <2>3, <3>1, <3>2, SoughtKeeps DEF CheckPrincipal
    <2>4. CASE CheckConditions
      <3>1. check = "condition" /\ check \in Checks /\ UNCHANGED <<statements, request>>
        BY <2>4 DEF CheckConditions, Checks
      <3>2. Decisive(statements[i], request)
        BY <3>1, Effect DEF Decisive, WalkIInv, WalkSoFar
      <3>3. Answer(Says(statements[i], request))
        BY <2>4, <3>1, Effect DEF CheckConditions, Says
      <3> QED BY <3>1, <3>2, <3>3, AnswerKeeps
    <2>5. CASE UNCHANGED walkVars
      BY <2>5 DEF walkVars, WalkIInv, WalkTypeOK, WalkSoFar, FirstDecisiveAnswers, FirstDecisive, Says, Decisive,
                  ConditionsHold, ResourceMatch, ActionMatch, PrincipalMatch
    <2> QED BY <2>1, <2>2, <2>3, <2>4, <2>5 DEF WalkNext
  <1> QED BY <1>1, <1>2, PTL DEF WalkSpec

\* The walk stays within its list, and ends when it has an answer.
THEOREM WalkTypeCorrect == WalkSpec => []WalkTypeOK
  BY Invariance, PTL DEF WalkIInv

\* The walk answers what its first decisive statement says.
THEOREM FirstDecisiveStatement == WalkSpec => []FirstDecisiveAnswers
  BY Invariance, PTL DEF WalkIInv

\* Nothing is allowed but by an Allow statement no Deny statement precedes.
THEOREM AllowanceJustified == WalkSpec => []AllowedByStatement
  <1>1. WalkIInv => AllowedByStatement
    <2> SUFFICES ASSUME WalkIInv, verdict = "allowed" PROVE AllowedByStatement
      BY DEF AllowedByStatement
    <2>1. PICK n \in DOMAIN statements :
            FirstDecisive(statements, request, n) /\ Says(statements[n], request) = "allowed"
      BY DEF WalkIInv, WalkTypeOK, FirstDecisiveAnswers
    <2>2. statements[n].effect # "Deny" /\ ConditionsHold(statements[n], request)
      BY <2>1 DEF Says
    <2>3. Applies(statements[n], request)
      BY <2>1, <2>2 DEF FirstDecisive, Decisive
    <2>4. /\ DOMAIN statements = 1..Len(statements) /\ Len(statements) \in Nat
          /\ \A m \in DOMAIN statements : statements[m].effect \in {"Allow", "Deny"}
      BY StatementsAreLists DEF WalkIInv, WalkTypeOK
    <2>5. ASSUME NEW m \in 1..(n - 1) PROVE statements[m].effect = "Allow"
      <3>1. m \in DOMAIN statements
        BY <2>4
      <3> QED BY <2>1, <2>4, <3>1 DEF FirstDecisive, Decisive
    <2> QED BY <2>2, <2>3, <2>4, <2>5 DEF AllowedByStatement
  <1> QED BY <1>1, Invariance, PTL

-----------------------------------------------------------------------------
(***************************************************************************)
(* One call of a validator.                                                *)
(***************************************************************************)

\* What a call has found out so far: a scan has passed over the values before the one
\* it is at, none of which decides; an order was compared if both operands were read.
Passed(n) == right[n] # Malformed /\ ~Same(validator.family, left, right[n])

CallSoFar ==
  /\ step = "left" => place = 1
  /\ step = "scan" => /\ Scans /\ left # Malformed
                      /\ \A n \in 1..(place - 1) : Passed(n)
  /\ step = "first" => ~Scans

Compared ==
  step = "done" /\ validator.family \in {"numeric", "date"} /\ ~Scans =>
    \/ left = Malformed \/ right = << >> \/ right[1] = Malformed
    \/ outcome = IF InOrder(validator.family, validator.compare, left, right[1])
                   THEN "ok" ELSE "fails"

CallTyped ==
  /\ validator \in Validators
  /\ left \in Lefts(validator.family)
  /\ right \in RightLists(validator.family)
  /\ CallTypeOK

CallIInv == CallTyped /\ CallSoFar /\ Compared /\ ScanMeansResult

\* The values of a condition are a sequence.
LEMMA ValuesAreList ==
  ASSUME NEW f, NEW r \in RightLists(f)
  PROVE  /\ Len(r) \in Nat /\ DOMAIN r = 1..Len(r)
         /\ \A n \in 1..Len(r) : r[n] \in Rights(f)
         /\ r = << >> <=> Len(r) = 0
  <1>1. PICK n \in 0..MaxValues : r \in [1..n -> Rights(f)]
    BY DEF RightLists
  <1>2. n \in Nat /\ r \in Seq(Rights(f)) /\ Len(r) = n
    BY <1>1
  <1> QED BY <1>1, <1>2

\* A scan that has passed over all values means what no value matching means.
LEMMA NoneDecides ==
  ASSUME NEW f, NEW compare, NEW l, l # Malformed, NEW r,
         \A n \in DOMAIN r : r[n] # Malformed /\ ~Same(f, l, r[n])
  PROVE  Result(f, compare, l, r) = IF compare = "any" THEN "fails" ELSE "ok"
  <1>1. \A n \in DOMAIN r : ~Decides(f, l, r, n)
    BY DEF Decides
  <1> QED BY <1>1 DEF Result

\* The first value that is malformed or matches means what the scan answers at it.
LEMMA FirstDecides ==
  ASSUME NEW f, NEW compare, NEW l, l # Malformed, NEW r, DOMAIN r \subseteq Int,
         NEW n \in DOMAIN r, r[n] = Malformed \/ Same(f, l, r[n]),
         \A m \in 1..(n - 1) : r[m] # Malformed /\ ~Same(f, l, r[m]),
         \A m \in DOMAIN r : m >= 1
  PROVE  Result(f, compare, l, r) =
           IF r[n] = Malformed THEN "error" ELSE IF compare = "any" THEN "ok" ELSE "fails"
  <1>1. Decides(f, l, r, n)
    BY DEF Decides
  <1>2. ASSUME NEW m \in DOMAIN r, Decides(f, l, r, m) PROVE m = n
    <2>1. ~(m < n)
      BY <1>2 DEF Decides
    <2>2. ~(n < m)
      BY <1>2 DEF Decides
    <2> QED BY <2>1, <2>2
  <1>3. CASE r[n] = Malformed
    BY <1>1, <1>3 DEF Result
  <1>4. CASE r[n] # Malformed
    <2>1. ~ \E m \in DOMAIN r : Decides(f, l, r, m) /\ r[m] = Malformed
      BY <1>2, <1>4
    <2> QED BY <1>1, <1>4, <2>1 DEF Result
  <1> QED BY <1>3, <1>4

\* A call begins with nothing read.
LEMMA CallInitIInv == CallInit => CallIInv
  <1> SUFFICES ASSUME CallInit PROVE CallIInv
    OBVIOUS
  <1>1. Len(right) \in Nat
    BY ValuesAreList DEF CallInit
  <1>2. CallTyped
    BY <1>1 DEF CallInit, CallTyped, CallTypeOK, Outcomes
  <1> QED BY <1>2 DEF CallInit, CallIInv, CallSoFar, Compared, ScanMeansResult

\* A step answers or goes on within the values: the types are kept.
LEMMA CallNextTyped ==
  ASSUME CallTyped, [CallNext]_callVars PROVE CallTyped'
  <1> USE DEF CallTyped, CallTypeOK, Outcomes, End, call
  <1>1. Len(right) \in Nat
    BY ValuesAreList
  <1>2. CASE ParseLeft
    BY <1>2 DEF ParseLeft
  <1>3. CASE Scan
    BY <1>1, <1>3 DEF Scan
  <1>4. CASE CompareFirst
    BY <1>4 DEF CompareFirst
  <1>5. CASE CallWebhook
    <2>1. PICK o \in {"error", "panic", "ok", "fails"} : End(o)
      BY <1>5 DEF CallWebhook, Do
    <2>2. step = "first"
      BY <1>5 DEF CallWebhook
    <2> QED BY <2>1, <2>2
  <1>6. CASE UNCHANGED callVars
    BY <1>6 DEF callVars
  <1> QED BY <1>2, <1>3, <1>4, <1>5, <1>6 DEF CallNext

\* What a call has found out stays found out.
LEMMA CallNextSoFar ==
  ASSUME CallTyped, CallSoFar, [CallNext]_callVars PROVE CallSoFar'
  <1> USE DEF CallSoFar, Passed, End, call, Scans
  <1>1. CASE ParseLeft
    BY <1>1 DEF ParseLeft
  <1>2. CASE Scan
    <2>1. CASE step' = "done"
      BY <2>1
    <2>2. CASE step' # "done"
      <3>1. /\ right[place] # Malformed /\ ~Same(validator.family, left, right[place])
            /\ place' = place + 1 /\ step = "scan" /\ step' = "scan"
            /\ UNCHANGED <<validator, left, right>>
        BY <1>2, <2>2 DEF Scan
      <3>2. place \in Int
        BY DEF CallTyped, CallTypeOK
      <3>3. \A n \in 1..(place' - 1) : n \in 1..(place - 1) \/ n = place
        BY <3>1, <3>2
      <3> QED BY <3>1, <3>3 DEF Same
    <2> QED BY <2>1, <2>2
  <1>3. CASE CompareFirst
    BY <1>3 DEF CompareFirst
  <1>4. CASE CallWebhook
    BY <1>4 DEF CallWebhook
  <1>5. CASE UNCHANGED callVars
    BY <1>5 DEF callVars, Same
  <1> QED BY <1>1, <1>2, <1>3, <1>4, <1>5 DEF CallNext

\* The answer of a comparison is read from the operands, which stay as they are.
LEMMA CallNextCompared ==
  ASSUME CallTyped, CallSoFar, Compared, [CallNext]_callVars PROVE Compared'
  <1>0. UNCHANGED <<validator, left, right>>
    BY DEF CallNext, callVars, call, End, ParseLeft,
           Scan, CompareFirst, CallWebhook
  <1>i. InOrder(validator.family, validator.compare, left, right[1])'
          = InOrder(validator.family, validator.compare, left, right[1])
    BY <1>0 DEF InOrder, Ordered
  <1>s. Scans' = Scans
    BY <1>0 DEF Scans
  <1>1. CASE ParseLeft
    BY <1>0, <1>1 DEF ParseLeft, End, Compared
  <1>2. CASE Scan
    BY <1>0, <1>s, <1>2 DEF Scan, CallSoFar, Compared
  <1>3. CASE CompareFirst
    BY <1>0, <1>i, <1>3 DEF CompareFirst, End, Compared
  <1>4. CASE CallWebhook
    BY <1>0, <1>4 DEF CallWebhook, Compared
  <1>5. CASE UNCHANGED callVars
    BY <1>0, <1>i, <1>s, <1>5 DEF callVars, Compared
  <1> QED BY <1>1, <1>2, <1>3, <1>4, <1>5 DEF CallNext

\* A scan answers what its values mean.
LEMMA CallNextMeans ==
  ASSUME CallTyped, CallSoFar, ScanMeansResult, [CallNext]_callVars
  PROVE  ScanMeansResult'
  <1> DEFINE Means == Result(validator.family, validator.compare, left, right)
  <1>0. UNCHANGED <<validator, left, right>>
    BY DEF CallNext, callVars, call, End, ParseLeft,
           Scan, CompareFirst, CallWebhook
  <1>m. Means' = Means /\ Scans' = Scans
    BY <1>0 DEF Result, Decides, Same, Scans
  <1>1. CASE ParseLeft
    <2>1. CASE left = Malformed
      <3>1. outcome' = "error" /\ Means = "error"
        BY <1>1, <2>1 DEF ParseLeft, End, Result
      <3> QED BY <1>m, <3>1 DEF ScanMeansResult
    <2>2. CASE left # Malformed
      BY <1>1, <2>2 DEF ParseLeft, ScanMeansResult
    <2> QED BY <2>1, <2>2
  <1>2. CASE Scan
    <2>1. /\ step = "scan" /\ Scans /\ left # Malformed /\ place \in 1..(Len(right) + 1)
          /\ \A n \in 1..(place - 1) : right[n] # Malformed
                                      /\ ~Same(validator.family, left, right[n])
      BY <1>2 DEF Scan, CallSoFar, Passed, CallTyped, CallTypeOK
    <2>2. Len(right) \in Nat /\ DOMAIN right = 1..Len(right)
      BY ValuesAreList DEF CallTyped
    <2>3. CASE place > Len(right)
      <3>1. outcome' = IF validator.compare = "any" THEN "fails" ELSE "ok"
        BY <1>2, <2>3 DEF Scan, End
      <3>2. \A n \in DOMAIN right : right[n] # Malformed
                                   /\ ~Same(validator.family, left, right[n])
        BY <2>1, <2>2, <2>3
      <3>3. Means = IF validator.compare = "any" THEN "fails" ELSE "ok"
        BY <2>1, <3>2, NoneDecides
      <3> QED BY <1>m, <3>1, <3>3 DEF ScanMeansResult
    <2>4. CASE /\ ~(place > Len(right))
               /\ right[place] = Malformed \/ Same(validator.family, left, right[place])
      <3>1. outcome' = IF right[place] = Malformed THEN "error"
                       ELSE IF validator.compare = "any" THEN "ok" ELSE "fails"
        BY <1>2, <2>4 DEF Scan, End
      <3>2. place \in DOMAIN right /\ DOMAIN right \subseteq Int /\ \A m \in DOMAIN right : m >= 1
        BY <2>1, <2>2, <2>4
      <3>3. Means = IF right[place] = Malformed THEN "error"
                    ELSE IF validator.compare = "any" THEN "ok" ELSE "fails"
        BY <2>1, <2>4, <3>2, FirstDecides
      <3> QED BY <1>m, <3>1, <3>3 DEF ScanMeansResult
    <2>5. CASE /\ ~(place > Len(right)) /\ right[place] # Malformed
               /\ ~Same(validator.family, left, right[place])
      BY <1>2, <2>5 DEF Scan, call, ScanMeansResult
    <2> QED BY <2>3, <2>4, <2>5
  <1>3. CASE CompareFirst
    BY <1>m, <1>3 DEF CompareFirst, ScanMeansResult, CallSoFar
  <1>4. CASE CallWebhook
    BY <1>m, <1>4 DEF CallWebhook, ScanMeansResult, CallSoFar
  <1>5. CASE UNCHANGED callVars
    BY <1>m, <1>5 DEF callVars, ScanMeansResult
  <1> QED BY <1>1, <1>2, <1>3, <1>4, <1>5 DEF CallNext

\* The invariant of a call is one.
THEOREM CallInvariance == CallSpec => []CallIInv
  <1>1. CallIInv /\ [CallNext]_callVars => CallIInv'
    BY CallNextTyped, CallNextSoFar, CallNextCompared, CallNextMeans DEF CallIInv
  <1> QED BY CallInitIInv, <1>1, PTL DEF CallSpec

\* A call that ended has an outcome, and a scan stays within the values.
THEOREM CallTypeCorrect == CallSpec => []CallTypeOK
  BY CallInvariance, PTL DEF CallIInv, CallTyped

\* A scanning validator answers what its values, taken together, say.
THEOREM ScanMeans == CallSpec => []ScanMeansResult
  BY CallInvariance, PTL DEF CallIInv

\* A value equal to the first of a condition satisfies the order validators that
\* include equality.
THEOREM OrderAgrees == CallSpec => []OrderAgreesWithEquality
  <1>1. CallIInv => OrderAgreesWithEquality
    <2> SUFFICES ASSUME CallIInv, step = "done", validator.family \in {"numeric", "date"},
                        validator.compare \in {"<=", ">="}, right # << >>,
                        left # Malformed, right[1] # Malformed,
                        Same(validator.family, left, right[1])
                 PROVE  outcome = "ok"
      BY DEF OrderAgreesWithEquality
    <2>1. outcome = IF InOrder(validator.family, validator.compare, left, right[1])
                     THEN "ok" ELSE "fails"
      BY DEF CallIInv, Compared, Scans
    <2>2. InOrder(validator.family, validator.compare, left, right[1])
      <3>1. CASE validator.family = "numeric"
        <4>1. left \in Number /\ left = right[1] /\ left # NaN
          BY <3>1 DEF CallIInv, CallTyped, Lefts, Same
        <4>2. left <= left /\ left >= left
          BY <4>1, NumbersAreIntegers
        <4>3. Ordered(validator.compare, left, left)
          BY <4>2 DEF Ordered
        <4> QED BY <3>1, <4>1, <4>3 DEF InOrder
      <3>2. CASE validator.family = "date"
        <4>1. left \in Date /\ left.at = right[1].at
          BY <3>2 DEF CallIInv, CallTyped, Lefts, Same
        <4>2. left.at \in Int
          BY <4>1, NumbersAreIntegers DEF Date
        <4>3. left.at <= left.at /\ left.at >= left.at
          BY <4>2
        <4>4. Ordered(validator.compare, left.at, right[1].at)
          BY <4>1, <4>3 DEF Ordered
        <4> QED BY <3>2, <4>4 DEF InOrder
      <3> QED BY <3>1, <3>2
    <2> QED BY <2>1, <2>2
  <1> QED BY <1>1, CallInvariance, PTL

-----------------------------------------------------------------------------
(***************************************************************************)
(* Requests: the lists.                                                    *)
(***************************************************************************)
USE DEF asking, store, query

\* What the lists have is stored; they have all that is stored, and of a binding that
\* no two writers wrote at a time nothing else.
IndexFits ==
  /\ \A e \in lists : e[1] \in Bindings /\ bindings[e[1]] # None
  /\ \A b \in Bindings : Entries(b, Stored(b)) \subseteq lists
  /\ \A b \in Bindings \ torn : \A e \in lists : e[1] = b => e \in Entries(b, Stored(b))

\* An entry is one of its binding, for a subject of the content.
LEMMA EntriesAre ==
  ASSUME NEW b, NEW subjects, NEW e
  PROVE  /\ e \in Entries(b, subjects) => e[1] = b
         /\ \A f \in Fields : \A v : <<b, f, v>> \in Entries(b, subjects) <=> \E s \in subjects : s[f] = v
  <1>1. e \in Entries(b, subjects) => e[1] = b
    BY DEF Entries
  <1>2. ASSUME NEW f \in Fields, NEW v
        PROVE  <<b, f, v>> \in Entries(b, subjects) <=> \E s \in subjects : s[f] = v
    BY DEF Entries
  <1> QED BY <1>1, <1>2

\* The initial states.
LEMMA InitIndexFits == Init => IndexFits
  <1> SUFFICES ASSUME Init PROVE IndexFits
    OBVIOUS
  <1>1. PICK rest \in SUBSET {entry \in Leftovers : bindings[entry[1]] # None} :
          /\ lists = rest \cup UNION {Entries(b, Stored(b)) : b \in Bindings}
          /\ torn = {entry[1] : entry \in rest}
    BY DEF Init
  <1>2. \A e \in rest : e[1] \in Bindings /\ bindings[e[1]] # None /\ e[1] \in torn
    BY <1>1, BindingsAssumption
  <1>3. ASSUME NEW b \in Bindings, NEW e \in Entries(b, Stored(b))
        PROVE  e[1] = b /\ bindings[b] # None
    <2>1. e[1] = b
      BY EntriesAre
    <2>2. Stored(b) # {}
      BY DEF Entries
    <2> QED BY <2>1, <2>2 DEF Stored
  <1>4. \A e \in lists : e \in rest \/ \E b \in Bindings : e \in Entries(b, Stored(b))
    BY <1>1
  <1>5. \A b \in Bindings : Entries(b, Stored(b)) \subseteq lists
    BY <1>1
  <1>6. \A e \in lists : e[1] \in Bindings /\ bindings[e[1]] # None
    BY <1>2, <1>3, <1>4
  <1>7. \A b \in Bindings \ torn : \A e \in lists : e[1] = b => e \in Entries(b, Stored(b))
    BY <1>2, <1>3, <1>4
  <1> QED BY <1>5, <1>6, <1>7 DEF IndexFits

\* A Put of a binding keeps the lists fit.
LEMMA PutIndexFits ==
  ASSUME TypeOK, IndexFits, NEW b \in Bindings, NEW content \in Contents(b), NEW read,
         PutBinding(b, content, read)
  PROVE  IndexFits'
  <1>1. /\ bindings' = [bindings EXCEPT ![b] = content]
        /\ lists' = (lists \ Entries(b, read)) \cup Entries(b, content.subjects)
        /\ torn' = IF read = Stored(b) THEN torn ELSE torn \cup {b}
    BY DEF PutBinding
  <1>2. bindings'[b] = content /\ content # None /\ \A c \in Bindings \ {b} : bindings'[c] = bindings[c]
    BY <1>1, NoneAssumption DEF TypeOK, Contents
  <1>3. Stored(b)' = content.subjects /\ \A c \in Bindings \ {b} : Stored(c)' = Stored(c)
    BY <1>2 DEF Stored
  <1>4. \A c, S : Entries(c, S)' = Entries(c, S)
    BY DEF Entries
  <1>5. \A c, S : \A e \in Entries(c, S) : e[1] = c
    BY EntriesAre
  <1>6. \A e \in lists' : e[1] \in Bindings /\ bindings'[e[1]] # None
    BY <1>1, <1>2, <1>5 DEF IndexFits
  <1>7. ASSUME NEW c \in Bindings PROVE Entries(c, Stored(c)') \subseteq lists'
    <2>1. CASE c = b
      BY <1>1, <1>3, <2>1
    <2>2. CASE c # b
      <3>1. Entries(c, Stored(c)) \subseteq lists
        BY DEF IndexFits
      <3> QED BY <1>1, <1>3, <1>5, <2>2, <3>1
    <2> QED BY <2>1, <2>2
  <1>8. ASSUME NEW c \in Bindings \ torn', NEW e \in lists', e[1] = c PROVE e \in Entries(c, Stored(c)')
    <2>0. c \notin torn
      BY <1>1
    <2>1. CASE c = b
      <3>1. read = Stored(b)
        BY <1>1, <2>1
      <3>2. e \in lists => e \in Entries(b, read)
        BY <1>8, <2>0, <2>1, <3>1 DEF IndexFits
      <3> QED BY <1>1, <1>3, <2>1, <3>2
    <2>2. CASE c # b
      <3>1. e \in lists
        BY <1>1, <1>5, <1>8, <2>2
      <3>2. e \in Entries(c, Stored(c))
        BY <1>8, <2>0, <3>1 DEF IndexFits
      <3> QED BY <1>3, <2>2, <3>2
    <2> QED BY <2>1, <2>2
  <1> QED BY <1>4, <1>6, <1>7, <1>8 DEF IndexFits

\* Every step keeps the lists fit.
LEMMA NextIndexFits == TypeOK /\ IndexFits /\ [Next]_vars => IndexFits'
  <1> SUFFICES ASSUME TypeOK, IndexFits, [Next]_vars PROVE IndexFits'
    OBVIOUS
  <1>1. CASE Write
    <2>1. CASE UNCHANGED <<bindings, lists, torn>>
      BY <2>1 DEF IndexFits, Stored, Entries
    <2>2. CASE \E b \in Bindings : \E content \in Contents(b), read \in Readable(b) : PutBinding(b, content, read)
      BY <2>2, PutIndexFits
    <2> QED BY <1>1, <2>1, <2>2 DEF Write, PutPolicy, DeletePolicy
  <1>2. CASE ~Write
    <2>1. UNCHANGED store
      BY <1>2 DEF Next, vars, Begin, ReadList, GetPolicyBinding, GetGroupBinding, RoleListed, ListGroups,
           ListGroup, GroupsListed, Fetch, FetchNothing, Decide
    <2> QED BY <2>1 DEF IndexFits, Stored, Entries
  <1> QED BY <1>1, <1>2

-----------------------------------------------------------------------------
(***************************************************************************)
(* Type correctness.                                                       *)
(***************************************************************************)

\* What every list read so far had is stored.
HitsStored == todo # Fields => \A b \in hits : bindings[b] # None

\* What held at some moment is what there may be.
LEMMA EverIs ==
  ASSUME TypeOK
  PROVE  /\ Ever.contents \subseteq Bindings \X (Bound \cup Joined)
         /\ Ever.verdicts \subseteq Policies \X (Verdicts \cup {None})
         /\ \A b \in Bindings : bindings[b] # None => <<b, bindings[b]>> \in Ever.contents
         /\ \A p \in Policies : <<p, policies[p]>> \in Ever.verdicts
  <1>1. /\ Ever.contents = seen.contents \cup {<<b, bindings[b]>> : b \in {c \in Bindings : bindings[c] # None}}
        /\ Ever.verdicts = seen.verdicts \cup {<<p, policies[p]>> : p \in Policies}
    BY DEF Ever, Now
  <1>2. \A b \in Bindings : bindings[b] # None => bindings[b] \in Bound \cup Joined
    BY DEF TypeOK
  <1>3. \A p \in Policies : policies[p] \in Verdicts \cup {None}
    BY DEF TypeOK
  <1> QED BY <1>1, <1>2, <1>3 DEF TypeOK

\* A write keeps the types.
LEMMA WriteTypeOK == TypeOK /\ Write => TypeOK'
  <1> SUFFICES ASSUME TypeOK, Write PROVE TypeOK'
    OBVIOUS
  <1>1. UNCHANGED asking /\ seen' = Ever
    BY DEF Write, Noted
  <1>2. seen'.contents \subseteq Bindings \X (Bound \cup Joined) /\ seen'.verdicts \subseteq Policies \X (Verdicts \cup {None})
    BY <1>1, EverIs
  <1>3. CASE \E p \in Policies, v \in Verdicts \cup {None} : PutPolicy(p, v)
    <2>1. policies' \in [Policies -> Verdicts \cup {None}] /\ UNCHANGED <<bindings, torn>>
      BY <1>3 DEF PutPolicy, TypeOK
    <2> QED BY <1>1, <1>2, <2>1 DEF TypeOK, Listed
  <1>4. CASE \E b \in Bindings : \E content \in Contents(b), read \in Readable(b) : PutBinding(b, content, read)
    <2>1. PICK b \in Bindings : \E content \in Contents(b), read \in Readable(b) : PutBinding(b, content, read)
      BY <1>4
    <2>2. PICK content \in Contents(b) : \E read \in Readable(b) : PutBinding(b, content, read)
      BY <2>1
    <2>3. bindings' = [bindings EXCEPT ![b] = content] /\ torn' \subseteq torn \cup {b} /\ UNCHANGED policies
      BY <2>2 DEF PutBinding
    <2>4. content \in Bound \cup Joined
      BY DEF Contents
    <2>5. bindings' \in [Bindings -> Bound \cup Joined \cup {None}]
      BY <2>3, <2>4 DEF TypeOK
    <2>6. \A c \in Bindings : bindings'[c] = None \/ bindings'[c] \in Contents(c)
      BY <2>3 DEF TypeOK
    <2>7. torn' \subseteq Bindings
      BY <2>3 DEF TypeOK
    <2> QED BY <1>1, <1>2, <2>3, <2>5, <2>6, <2>7 DEF TypeOK, Listed, Contents
  <1> QED BY <1>3, <1>4 DEF Write, DeletePolicy

\* Every step keeps the types.
LEMMA NextTypeOK == TypeOK /\ HitsStored /\ [Next]_vars => TypeOK'
  <1> SUFFICES ASSUME TypeOK, HitsStored, [Next]_vars PROVE TypeOK'
    OBVIOUS
  <1>c. ASSUME UNCHANGED <<store, who, seen>>, NEW b \in Bindings
        PROVE  (bindings[b] = None \/ bindings[b] \in Contents(b))' <=> (bindings[b] = None \/ bindings[b] \in Contents(b))
    BY <1>c DEF Contents
  <1>1. CASE Write
    BY <1>1, WriteTypeOK
  <1>2. CASE Begin
    BY <1>2, <1>c DEF Begin, List, TypeOK, Steps, Listed
  <1>3. CASE ReadList
    BY <1>3, <1>c DEF ReadList, TypeOK, Listed
  <1>4. CASE GetPolicyBinding
    <2>1. PICK b \in hits : hits' = hits \ {b} /\ found' = Append(found, bindings[b].policy)
      BY <1>4 DEF GetPolicyBinding
    <2>2. pc \in {"account", "group"} /\ todo = {} /\ UNCHANGED <<store, writes, pc, who, of, todo, refs, said, answer, seen>>
      BY <1>4 DEF GetPolicyBinding
    <2>3. b \in PolicyBindings /\ bindings[b] # None
      BY <2>2, FieldsAssumption DEF TypeOK, HitsStored
    <2>4. bindings[b].policy \in Policies
      BY <2>3, BindingsAssumption DEF TypeOK, Bindings, Contents
    <2>5. found' \in Seq(Policies) /\ Len(found') = Len(found) + 1
      BY <2>1, <2>4 DEF TypeOK
    <2>6. Len(said') <= Len(found')
      BY <2>2, <2>5 DEF TypeOK
    <2> QED BY <2>1, <2>2, <2>5, <2>6, <1>c DEF TypeOK, Listed
  <1>5. CASE GetGroupBinding
    <2>1. PICK b \in hits : hits' = hits \ {b} /\ refs' = refs \cup {<<b, bindings[b].group>>}
      BY <1>5 DEF GetGroupBinding
    <2>2. pc = "groups" /\ todo = {} /\ UNCHANGED <<store, writes, pc, who, of, todo, found, said, answer, seen>>
      BY <1>5 DEF GetGroupBinding
    <2>3. b \in GroupBindings /\ bindings[b] # None
      BY <2>2, FieldsAssumption DEF TypeOK, HitsStored
    <2>4. bindings[b] \in Joined
      BY <2>3, BindingsAssumption DEF TypeOK, Bindings, Contents
    <2>5. refs' \subseteq GroupBindings \X {content.group : content \in Joined}
      BY <2>1, <2>3, <2>4 DEF TypeOK
    <2> QED BY <2>1, <2>2, <2>5, <1>c DEF TypeOK, Listed
  <1>6. CASE RoleListed
    BY <1>6, <1>c DEF RoleListed, TypeOK, Steps, Listed
  <1>7. CASE ListGroups
    BY <1>7, <1>c DEF ListGroups, List, TypeOK, Steps, Listed
  <1>8. CASE ListGroup
    BY <1>8, <1>c DEF ListGroup, List, TypeOK, Steps, Listed
  <1>9. CASE GroupsListed
    BY <1>9, <1>c DEF GroupsListed, TypeOK, Steps, Listed
  <1>10. CASE Fetch
    <2>1. Wanted \in Policies
      BY <1>10 DEF Fetch, Wanted, TypeOK
    <2>2. policies[Wanted] \in Verdicts
      BY <1>10, <2>1 DEF Fetch, TypeOK
    <2>3. said' \in Seq(Verdicts) /\ Len(said') <= Len(found')
      BY <1>10, <2>2 DEF Fetch, TypeOK
    <2>4. UNCHANGED <<store, pc, who, query, refs, found, answer, seen>> /\ pc = "fetch"
      BY <1>10 DEF Fetch
    <2> QED BY <2>3, <2>4, <1>c DEF TypeOK, Listed
  <1>11. CASE FetchNothing
    BY <1>11, <1>c DEF FetchNothing, TypeOK, Steps, Answers, Listed
  <1>12. CASE Decide
    BY <1>12, <1>c DEF Decide, TypeOK, Steps, Answers, Has, Listed
  <1>13. CASE UNCHANGED vars
    BY <1>13, <1>c DEF vars, TypeOK, Listed
  <1> QED BY <1>1, <1>2, <1>3, <1>4, <1>5, <1>6, <1>7, <1>8, <1>9, <1>10, <1>11, <1>12, <1>13 DEF Next

\* Every step keeps that what the lists read had is stored.
LEMMA NextHitsStored == TypeOK /\ IndexFits /\ HitsStored /\ [Next]_vars => HitsStored'
  <1> SUFFICES ASSUME TypeOK, IndexFits, HitsStored, [Next]_vars PROVE HitsStored'
    OBVIOUS
  <1>1. CASE Write
    <2>1. \A b \in Bindings : bindings[b] # None => bindings'[b] # None
      BY <1>1, NoneAssumption DEF Write, PutPolicy, DeletePolicy, PutBinding, Contents, TypeOK
    <2>2. UNCHANGED <<todo, hits>> /\ hits \subseteq Bindings
      BY <1>1 DEF Write, Noted, TypeOK, Bindings
    <2> QED BY <2>1, <2>2 DEF HitsStored
  <1>2. CASE ReadList
    <2>1. PICK f \in todo : hits' = {b \in hits : <<b, f, of[f]>> \in lists}
      BY <1>2 DEF ReadList
    <2>2. \A b \in hits' : bindings[b] # None
      BY <2>1 DEF IndexFits
    <2> QED BY <1>2, <2>2 DEF ReadList, HitsStored
  <1>3. CASE Begin \/ ListGroups \/ ListGroup
    BY <1>3 DEF Begin, ListGroups, ListGroup, List, HitsStored
  <1>4. CASE ~(Write \/ ReadList \/ Begin \/ ListGroups \/ ListGroup)
    <2>1. UNCHANGED <<store, todo>> /\ hits' \subseteq hits
      BY <1>4 DEF Next, vars, GetPolicyBinding, GetGroupBinding, RoleListed, GroupsListed, Fetch, FetchNothing, Decide
    <2> QED BY <2>1 DEF HitsStored
  <1> QED BY <1>1, <1>2, <1>3, <1>4

\* The initial states have the types.
LEMMA InitTypeOK == Init => TypeOK /\ HitsStored
  <1> SUFFICES ASSUME Init PROVE TypeOK /\ HitsStored
    OBVIOUS
  <1>1. torn \subseteq Bindings
    BY BindingsAssumption DEF Init
  <1>2. /\ bindings \in [Bindings -> Bound \cup Joined \cup {None}]
        /\ \A b \in Bindings : bindings[b] = None \/ bindings[b] \in Contents(b)
    BY DEF Init
  <1> QED BY <1>1, <1>2 DEF Init, TypeOK, HitsStored, Steps, Answers, Listed

\* The part of the inductive invariant the types rest on.
Typed == TypeOK /\ IndexFits /\ HitsStored

LEMMA InitTyped == Init => Typed
  BY InitTypeOK, InitIndexFits DEF Typed

LEMMA NextTyped == Typed /\ [Next]_vars => Typed'
  BY NextTypeOK, NextIndexFits, NextHitsStored DEF Typed

\* Every variable keeps its type, and an answer is given when the request is done.
THEOREM TypeCorrect == Spec => []TypeOK
  <1>1. Typed => TypeOK
    BY DEF Typed
  <1> QED BY <1>1, InitTyped, NextTyped, PTL DEF Spec

-----------------------------------------------------------------------------
(***************************************************************************)
(* The inductive invariant: each thing read was stored when it was read.   *)
(***************************************************************************)

\* A group a binding that held gave the account.
GroupOf(ref) ==
  \E g \in GroupBindings, c \in Joined : <<g, c>> \in Ever.contents /\ c.group = ref /\ Met(g, Account)

\* A binding met a principal the request acts for.
Entitles(b) == Met(b, who) \/ (who = Account /\ \E ref : GroupOf(ref) /\ Met(b, ref))

\* Every binding that is left of a query was met in the fields read.
QueryRead == \A b \in hits, f \in Fields \ todo : MetIn(b, of, f)

\* What a query asks for is a principal the request acts for.
GroupsRead ==
  /\ pc \in {"begin", "account"} => of = who
  /\ pc = "groups" => of = Account
  /\ pc = "group" => GroupOf(of)
  /\ pc \in {"groups", "group"} => who = Account
  /\ refs # {} => pc \in {"groups", "group"}
  /\ \A r \in refs : GroupOf(r[2])

\* The policies found are those that bindings gave the request.
PoliciesRead ==
  \A n \in DOMAIN found : \E b \in PolicyBindings, content \in Bound :
    <<b, content>> \in Ever.contents /\ content.policy = found[n] /\ Entitles(b)

\* Each policy fetched said what it is remembered to have said.
VerdictsRead ==
  /\ \A n \in DOMAIN said : <<found[n], said[n]>> \in Ever.verdicts
  /\ answer = "allowed" => Has(said) = "allowed"

IInv == Typed /\ QueryRead /\ GroupsRead /\ PoliciesRead /\ VerdictsRead

\* The initial states.
LEMMA InitIInv == Init => IInv
  <1> SUFFICES ASSUME Init PROVE IInv
    OBVIOUS
  <1>1. Typed
    BY InitTyped
  <1>2. GroupsRead /\ QueryRead
    BY DEF Init, GroupsRead, QueryRead
  <1>3. found = <<>> /\ said = <<>> /\ answer = "none"
    BY DEF Init
  <1>4. PoliciesRead
    BY <1>3 DEF PoliciesRead
  <1>5. VerdictsRead
    BY <1>3 DEF VerdictsRead
  <1> QED BY <1>1, <1>2, <1>4, <1>5 DEF IInv

\* What held during the request goes on having held.
LEMMA EverGrows ==
  ASSUME TypeOK, [Next]_vars
  PROVE  /\ Ever.contents \subseteq Ever'.contents /\ Ever.verdicts \subseteq Ever'.verdicts
         /\ who' = who /\ torn \subseteq torn'
  <1>1. CASE Write
    <2>1. seen' = Ever /\ who' = who
      BY <1>1 DEF Write, Noted
    <2>2. torn \subseteq torn'
      BY <1>1 DEF Write, PutPolicy, DeletePolicy, PutBinding
    <2>3. Ever' = [contents |-> seen'.contents \cup Now'.contents, verdicts |-> seen'.verdicts \cup Now'.verdicts]
      BY DEF Ever
    <2> QED BY <2>1, <2>2, <2>3
  <1>2. CASE ~Write
    <2>1. UNCHANGED <<store, seen, who>>
      BY <1>2 DEF Next, vars, Begin, ReadList, GetPolicyBinding, GetGroupBinding, RoleListed, ListGroups,
           ListGroup, GroupsListed, Fetch, FetchNothing, Decide
    <2>2. Ever' = Ever
      BY <2>1 DEF Ever, Now
    <2> QED BY <2>1, <2>2
  <1> QED BY <1>1, <1>2

\* So what met a principal, or gave a group, or entitled the request, goes on doing so.
LEMMA MetStill ==
  ASSUME TypeOK, [Next]_vars
  PROVE  /\ \A b, ref, f : MetIn(b, ref, f) => MetIn(b, ref, f)'
         /\ \A b, ref : Met(b, ref) => Met(b, ref)'
         /\ \A ref : GroupOf(ref) => GroupOf(ref)'
         /\ \A b : Entitles(b) => Entitles(b)'
  <1>1. ASSUME NEW b, NEW ref, NEW f, MetIn(b, ref, f) PROVE MetIn(b, ref, f)'
    BY <1>1, EverGrows DEF MetIn, Meets
  <1>2. ASSUME NEW b, NEW ref, Met(b, ref) PROVE Met(b, ref)'
    BY <1>1, <1>2 DEF Met
  <1>3. ASSUME NEW ref, GroupOf(ref) PROVE GroupOf(ref)'
    BY <1>2, <1>3, EverGrows DEF GroupOf
  <1>4. ASSUME NEW b, Entitles(b) PROVE Entitles(b)'
    BY <1>2, <1>3, <1>4, EverGrows DEF Entitles
  <1> QED BY <1>1, <1>2, <1>3, <1>4

\* A binding that is in the list of a field met it, or was written by two at a time.
LEMMA ListedMeets ==
  ASSUME TypeOK, IndexFits, NEW b \in Bindings, NEW ref, NEW f \in Fields, <<b, f, ref[f]>> \in lists
  PROVE  MetIn(b, ref, f)
  <1>1. bindings[b] # None
    BY DEF IndexFits
  <1>2. bindings[b] \in Bound \cup Joined /\ <<b, bindings[b]>> \in Ever.contents
    BY <1>1, EverIs DEF TypeOK
  <1>3. CASE b \notin torn
    <2>1. <<b, f, ref[f]>> \in Entries(b, Stored(b))
      BY <1>3 DEF IndexFits
    <2>2. \E s \in Stored(b) : s[f] = ref[f]
      BY <2>1, EntriesAre
    <2>3. Meets(bindings[b].subjects, ref, f)
      BY <1>1, <2>2 DEF Stored, Meets
    <2> QED BY <1>2, <2>3 DEF MetIn
  <1> QED BY <1>3 DEF MetIn

\* Every step keeps what is known of the query.
LEMMA NextQueryRead == Typed /\ QueryRead /\ [Next]_vars => QueryRead'
  <1> SUFFICES ASSUME Typed, QueryRead, [Next]_vars PROVE QueryRead'
    OBVIOUS
  <1>t. TypeOK /\ IndexFits
    BY DEF Typed
  <1>1. CASE ReadList
    <2>1. PICK f \in todo : todo' = todo \ {f} /\ hits' = {b \in hits : <<b, f, of[f]>> \in lists}
      BY <1>1 DEF ReadList
    <2>2. UNCHANGED of /\ f \in Fields /\ hits \subseteq Bindings
      BY <1>1, <1>t, <2>1 DEF ReadList, TypeOK, Bindings
    <2>3. \A b \in hits' : MetIn(b, of, f)
      BY <1>t, <2>1, <2>2, ListedMeets
    <2>4. \A b \in hits', g \in Fields \ todo' : MetIn(b, of, g)
      BY <2>1, <2>3 DEF QueryRead
    <2> QED BY <1>t, <2>2, <2>4, MetStill DEF QueryRead
  <1>2. CASE Begin \/ ListGroups \/ ListGroup
    BY <1>2 DEF Begin, ListGroups, ListGroup, List, QueryRead
  <1>3. CASE ~(ReadList \/ Begin \/ ListGroups \/ ListGroup)
    <2>1. UNCHANGED <<of, todo>> /\ hits' \subseteq hits
      BY <1>3 DEF Next, vars, Write, Noted, GetPolicyBinding, GetGroupBinding, RoleListed, GroupsListed,
           Fetch, FetchNothing, Decide
    <2> QED BY <1>t, <2>1, MetStill DEF QueryRead
  <1> QED BY <1>1, <1>2, <1>3

\* Every step keeps what is known of the groups read.
LEMMA NextGroupsRead == Typed /\ QueryRead /\ GroupsRead /\ [Next]_vars => GroupsRead'
  <1> SUFFICES ASSUME Typed, QueryRead, GroupsRead, [Next]_vars PROVE GroupsRead'
    OBVIOUS
  <1>t. TypeOK /\ IndexFits /\ HitsStored
    BY DEF Typed
  <1>e. who' = who /\ \A ref : GroupOf(ref) => GroupOf(ref)'
    BY <1>t, EverGrows, MetStill
  <1>a. ASSUME refs' = refs, of' = of, pc' = pc \/ (pc' \in {"fetch", "done"} /\ refs = {}) PROVE GroupsRead'
    BY <1>a, <1>e DEF GroupsRead
  <1>1. CASE Write
    BY <1>1, <1>a DEF Write, Noted
  <1>2. CASE Begin
    BY <1>2, <1>e DEF Begin, List, GroupsRead
  <1>3. CASE ReadList
    BY <1>3, <1>a DEF ReadList
  <1>4. CASE GetPolicyBinding
    BY <1>4, <1>a DEF GetPolicyBinding
  <1>5. CASE GetGroupBinding
    <2>1. PICK b \in hits : refs' = refs \cup {<<b, bindings[b].group>>}
      BY <1>5 DEF GetGroupBinding
    <2>2. pc = "groups" /\ todo = {} /\ UNCHANGED <<pc, of>>
      BY <1>5 DEF GetGroupBinding
    <2>3. b \in GroupBindings /\ bindings[b] # None
      BY <1>t, <2>2, FieldsAssumption DEF TypeOK, HitsStored
    <2>4. bindings[b] \in Joined /\ <<b, bindings[b]>> \in Ever.contents
      BY <1>t, <2>3, BindingsAssumption, EverIs DEF TypeOK, Bindings, Contents
    <2>5. Met(b, Account)
      BY <2>2 DEF QueryRead, GroupsRead, Met
    <2>6. GroupOf(bindings[b].group)
      BY <2>3, <2>4, <2>5 DEF GroupOf
    <2>7. \A r \in refs' : GroupOf(r[2])
      BY <2>1, <2>6 DEF GroupsRead
    <2> QED BY <1>e, <2>2, <2>7 DEF GroupsRead
  <1>6. CASE RoleListed
    BY <1>6, <1>a DEF RoleListed, GroupsRead
  <1>7. CASE ListGroups
    BY <1>7, <1>e DEF ListGroups, List, GroupsRead
  <1>8. CASE ListGroup
    BY <1>8, <1>e DEF ListGroup, List, GroupsRead
  <1>9. CASE GroupsListed
    BY <1>9, <1>a DEF GroupsListed
  <1>10. CASE Fetch
    BY <1>10, <1>a DEF Fetch
  <1>11. CASE FetchNothing
    BY <1>11, <1>a DEF FetchNothing, GroupsRead
  <1>12. CASE Decide
    BY <1>12, <1>a DEF Decide, GroupsRead
  <1>13. CASE UNCHANGED vars
    BY <1>13, <1>a DEF vars
  <1> QED BY <1>1, <1>2, <1>3, <1>4, <1>5, <1>6, <1>7, <1>8, <1>9, <1>10, <1>11, <1>12, <1>13 DEF Next

\* Every step keeps what is known of the policies found.
LEMMA NextPoliciesRead == Typed /\ QueryRead /\ GroupsRead /\ PoliciesRead /\ [Next]_vars => PoliciesRead'
  <1> SUFFICES ASSUME Typed, QueryRead, GroupsRead, PoliciesRead, [Next]_vars PROVE PoliciesRead'
    OBVIOUS
  <1>t. TypeOK /\ HitsStored
    BY DEF Typed
  <1>e. Ever.contents \subseteq Ever'.contents /\ \A b : Entitles(b) => Entitles(b)'
    BY <1>t, EverGrows, MetStill
  <1>f. \A n \in DOMAIN found : \E b \in PolicyBindings, content \in Bound :
          <<b, content>> \in Ever'.contents /\ content.policy = found[n] /\ Entitles(b)'
    BY <1>e DEF PoliciesRead
  <1>1. CASE GetPolicyBinding
    <2>1. PICK b \in hits : found' = Append(found, bindings[b].policy)
      BY <1>1 DEF GetPolicyBinding
    <2>2. pc \in {"account", "group"} /\ todo = {}
      BY <1>1 DEF GetPolicyBinding
    <2>3. b \in PolicyBindings /\ bindings[b] # None
      BY <1>t, <2>2, FieldsAssumption DEF TypeOK, HitsStored
    <2>4. bindings[b] \in Bound /\ <<b, bindings[b]>> \in Ever.contents
      BY <1>t, <2>3, EverIs DEF TypeOK, Bindings, Contents
    <2>5. Met(b, of)
      BY <2>2 DEF QueryRead, Met
    <2>6. Entitles(b)
      BY <2>2, <2>5 DEF Entitles, GroupsRead
    <2>7. \A n \in DOMAIN found' :
            \/ n \in DOMAIN found /\ found'[n] = found[n]
            \/ found'[n] = bindings[b].policy
      BY <1>t, <2>1, <2>4, BindingsAssumption DEF TypeOK
    <2> QED BY <1>e, <1>f, <2>3, <2>4, <2>6, <2>7 DEF PoliciesRead
  <1>2. CASE ~GetPolicyBinding
    <2>1. found' = found
      BY <1>2 DEF Next, vars, Write, Noted, Begin, ReadList, GetGroupBinding, RoleListed, ListGroups,
           ListGroup, GroupsListed, Fetch, FetchNothing, Decide
    <2> QED BY <2>1, <1>f DEF PoliciesRead
  <1> QED BY <1>1, <1>2

\* Every step keeps what is known of the policies fetched.
LEMMA NextVerdictsRead == TypeOK /\ VerdictsRead /\ [Next]_vars => VerdictsRead'
  <1> SUFFICES ASSUME TypeOK, VerdictsRead, [Next]_vars PROVE VerdictsRead'
    OBVIOUS
  <1>e. Ever.verdicts \subseteq Ever'.verdicts
    BY EverGrows
  <1>t. /\ found \in Seq(Policies) /\ said \in Seq(Verdicts) /\ Len(said) <= Len(found)
        /\ pc \notin {"fetch", "done"} => said = << >>
        /\ answer # "none" <=> pc = "done"
    BY DEF TypeOK
  <1>1. CASE Fetch
    <2>1. /\ pc = "fetch" /\ Len(said) < Len(found) /\ policies[Wanted] # None
          /\ said' = Append(said, policies[Wanted]) /\ UNCHANGED <<found, answer>>
      BY <1>1 DEF Fetch
    <2>2. answer = "none"
      BY <2>1, <1>t
    <2>3. Wanted \in Policies /\ Wanted = found[Len(said) + 1]
      BY <2>1, <1>t DEF Wanted
    <2>4. <<Wanted, policies[Wanted]>> \in Ever.verdicts
      BY <2>3, EverIs
    <2>5. \A n \in DOMAIN said' :
            \/ n \in DOMAIN said /\ said'[n] = said[n]
            \/ n = Len(said) + 1 /\ said'[n] = policies[Wanted]
      BY <2>1, <1>t
    <2>6. \A n \in DOMAIN said' : <<found[n], said'[n]>> \in Ever.verdicts
      BY <2>3, <2>4, <2>5 DEF VerdictsRead
    <2> QED BY <2>1, <2>2, <2>6, <1>e DEF VerdictsRead
  <1>2. CASE GetPolicyBinding
    <2>1. said = << >> /\ said' = said /\ answer' = answer /\ answer = "none"
      BY <1>2, <1>t DEF GetPolicyBinding
    <2> QED BY <2>1 DEF VerdictsRead
  <1>3. CASE Decide
    BY <1>3, <1>e DEF Decide, VerdictsRead
  <1>4. CASE ~(Fetch \/ GetPolicyBinding \/ Decide)
    <2>1. UNCHANGED <<found, said>> /\ (answer' = answer \/ answer' = "error")
      BY <1>4 DEF Next, vars, Write, Noted, Begin, ReadList, GetGroupBinding, RoleListed, ListGroups,
           ListGroup, GroupsListed, FetchNothing
    <2> QED BY <2>1, <1>e DEF VerdictsRead
  <1> QED BY <1>1, <1>2, <1>3, <1>4

-----------------------------------------------------------------------------
(***************************************************************************)
(* What follows of every behaviour.                                        *)
(***************************************************************************)

\* The invariant is one.
THEOREM Invariant == Spec => []IInv
  <1>1. Init => IInv
    BY InitIInv
  <1>2. IInv /\ [Next]_vars => IInv'
    BY NextTyped, NextQueryRead, NextGroupsRead, NextPoliciesRead, NextVerdictsRead DEF IInv, Typed
  <1> QED BY <1>1, <1>2, PTL DEF Spec

\* What is allowed was, at some moments of the request, said by a policy that a binding
\* named, which met the principal or a group that a binding gave the account.
THEOREM AllowedIsEntitled == Spec => []AllowedWasEntitled
  <1>1. IInv => AllowedWasEntitled
    <2> SUFFICES ASSUME IInv, answer = "allowed"
                 PROVE  \E b \in PolicyBindings, content \in Bound :
                          /\ <<b, content>> \in Ever.contents /\ <<content.policy, "allows">> \in Ever.verdicts
                          /\ Entitles(b)
      BY DEF AllowedWasEntitled, Entitles, GroupOf
    <2>1. Has(said) = "allowed" /\ \A n \in DOMAIN said : <<found[n], said[n]>> \in Ever.verdicts
      BY DEF IInv, VerdictsRead
    <2>2. PICK n \in DOMAIN said : said[n] = "allows"
      BY <2>1 DEF Has
    <2>3. n \in DOMAIN found
      BY DEF IInv, Typed, TypeOK
    <2>4. PICK b \in PolicyBindings, content \in Bound :
            <<b, content>> \in Ever.contents /\ content.policy = found[n] /\ Entitles(b)
      BY <2>3 DEF IInv, PoliciesRead
    <2> QED BY <2>1, <2>2, <2>4
  <1> QED BY <1>1, Invariant, PTL

-----------------------------------------------------------------------------
(***************************************************************************)
(* A request during which nothing is written.                              *)
(***************************************************************************)

\* The policies a sequence has, those some bindings name, and those of a principal's.
Named(list) == {list[n] : n \in DOMAIN list}
PoliciesOf(names) == {bindings[b].policy : b \in names}
BoundTo(ref) == PoliciesOf(Of(PolicyBindings, ref))

\* What is left of a query: the bindings that every list still to be read has too.
Coming == {b \in hits : \A f \in todo : <<b, f, of[f]>> \in lists}

\* While nothing is written, what was read is what there is, but for what is left of
\* the query and for the groups still to be listed.
QuietSoFar ==
  /\ writes \in Nat
  /\ writes = 0 /\ torn = {} =>
       /\ pc = "begin" => Named(found) = {}
       /\ pc = "account" => Named(found) \cup PoliciesOf(Coming) = BoundTo(who)
       /\ pc = "groups" => /\ Named(found) = BoundTo(Account)
                           /\ {r[2] : r \in refs} \cup {bindings[b].group : b \in Coming} = Groups
       /\ pc = "group" => Named(found) \cup PoliciesOf(Coming) \cup UNION {BoundTo(r[2]) : r \in refs} = Counting
       /\ pc \in {"fetch", "done"} => Named(found) = Counting
       /\ \A n \in DOMAIN said : said[n] = policies[found[n]]
       /\ pc = "done" => IF answer = "error" THEN Saying(None) # {}
                         ELSE Len(said) = Len(found) /\ answer = Has(said)

\* A set of natural numbers that has any has a least one: of the intervals up to them
\* one contains no other.
LEMMA LeastNumber ==
  ASSUME NEW S \in SUBSET Nat, S # {}
  PROVE  \E m \in S : \A n \in S : m <= n
  <1> DEFINE Upto == {0..n : n \in S}
  <1>0. \A n \in S : IsFiniteSet(0..n) /\ 0..n \subseteq Nat
    BY FS_Interval
  <1>1. Upto \subseteq FiniteSubsetsOf(Nat) /\ Upto # {}
    BY <1>0 DEF FiniteSubsetsOf
  <1>2. PICK x \in Upto : \A y \in Upto : <<y, x>> \notin StrictSubsetOrdering(Nat)
    <2> HIDE DEF Upto
    <2> QED BY <1>1, FS_StrictSubsetOrderingWellFounded, WFMin
  <1>3. PICK m \in S : x = 0..m
    OBVIOUS
  <1>4. ASSUME NEW n \in S, n < m PROVE FALSE
    <2>1. 0..n \in Upto /\ 0..n \subseteq 0..m /\ 0..n # 0..m /\ 0..m \subseteq Nat
      BY <1>4
    <2> QED BY <1>2, <1>3, <2>1 DEF StrictSubsetOrdering
  <1> QED BY <1>4

\* Unless two writers raced, the bindings that all the lists of a principal have are
\* those that match it.
LEMMA ListsAnswer ==
  ASSUME TypeOK, IndexFits, torn = {}, NEW names, names \subseteq Bindings, NEW ref
  PROVE  {b \in names : \A f \in Fields : <<b, f, ref[f]>> \in lists} = Of(names, ref)
  <1>1. ASSUME NEW b \in names, \A f \in Fields : <<b, f, ref[f]>> \in lists
        PROVE  bindings[b] # None /\ Matches(bindings[b].subjects, ref)
    <2>1. bindings[b] # None
      BY <1>1, FieldsAssumption DEF IndexFits
    <2>2. ASSUME NEW f \in Fields PROVE Meets(bindings[b].subjects, ref, f)
      <3>1. <<b, f, ref[f]>> \in Entries(b, Stored(b))
        BY <1>1 DEF IndexFits
      <3>2. \E s \in Stored(b) : s[f] = ref[f]
        BY <3>1, EntriesAre
      <3> QED BY <2>1, <3>2 DEF Stored, Meets
    <2> QED BY <2>1, <2>2 DEF Matches
  <1>2. ASSUME NEW b \in names, bindings[b] # None, Matches(bindings[b].subjects, ref), NEW f \in Fields
        PROVE  <<b, f, ref[f]>> \in lists
    <2>1. \E s \in Stored(b) : s[f] = ref[f]
      BY <1>2 DEF Matches, Meets, Stored
    <2>2. <<b, f, ref[f]>> \in Entries(b, Stored(b))
      BY <2>1, EntriesAre
    <2> QED BY <2>2 DEF IndexFits
  <1> QED BY <1>1, <1>2 DEF Of

\* A query that begins will find what matches.
LEMMA ListComes ==
  ASSUME TypeOK, IndexFits, torn = {}, UNCHANGED store, NEW names, names \subseteq Bindings, NEW ref,
         List(ref, names)
  PROVE  Coming' = Of(names, ref)
  <1>1. Coming' = {b \in names : \A f \in Fields : <<b, f, ref[f]>> \in lists}
    BY DEF Coming, List
  <1> QED BY <1>1, ListsAnswer

\* The policies that count are those of the account's bindings and of its groups'.
LEMMA CountingIs ==
  /\ who # Account => Counting = BoundTo(who)
  /\ who = Account => Counting = BoundTo(who) \cup UNION {BoundTo(g) : g \in Groups}
  BY DEF Counting, Principals, BoundTo, PoliciesOf

\* What is named does not change while the store and the principal do not.
LEMMA QuietStore ==
  ASSUME UNCHANGED <<store, who>>
  PROVE  /\ \A ref : BoundTo(ref)' = BoundTo(ref)
         /\ \A names : PoliciesOf(names)' = PoliciesOf(names)
         /\ Groups' = Groups /\ Counting' = Counting /\ \A v : Saying(v)' = Saying(v)
  <1>1. \A names, ref : Of(names, ref)' = Of(names, ref)
    BY DEF Of
  <1>2. \A names : PoliciesOf(names)' = PoliciesOf(names)
    BY DEF PoliciesOf
  <1>3. \A ref : BoundTo(ref)' = BoundTo(ref)
    BY <1>1 DEF BoundTo, PoliciesOf
  <1>4. Groups' = Groups
    BY <1>1 DEF Groups
  <1>5. Principals' = Principals
    BY <1>4 DEF Principals
  <1>6. Counting' = Counting
    BY <1>1, <1>5 DEF Counting
  <1> QED BY <1>2, <1>3, <1>4, <1>6 DEF Saying

\* When a query has been answered nothing is left of it.
LEMMA ListedComesNothing ==
  ASSUME Listed
  PROVE  Coming = {} /\ PoliciesOf(Coming) = {} /\ {bindings[b].group : b \in Coming} = {}
  BY DEF Listed, Coming, PoliciesOf

\* Every step keeps what is known of a request during which nothing is written.
LEMMA NextQuietSoFar == IInv /\ QuietSoFar /\ [Next]_vars => QuietSoFar'
  <1> SUFFICES ASSUME IInv, QuietSoFar, [Next]_vars PROVE QuietSoFar'
    OBVIOUS
  <1>i. TypeOK /\ IndexFits /\ HitsStored /\ GroupsRead
    BY DEF IInv, Typed
  <1>1. CASE Write
    <2>1. writes' = writes + 1 /\ writes \in Nat
      BY <1>1 DEF Write, Noted, QuietSoFar
    <2> QED BY <2>1 DEF QuietSoFar
  <1>2. CASE ~Write
    <2>1. UNCHANGED <<store, writes, who>>
      BY <1>2 DEF Next, vars, Begin, ReadList, GetPolicyBinding, GetGroupBinding, RoleListed, ListGroups,
           ListGroup, GroupsListed, Fetch, FetchNothing, Decide
    <2>2. CASE writes # 0 \/ torn # {}
      BY <2>1, <2>2 DEF QuietSoFar
    <2> SUFFICES ASSUME writes = 0, torn = {} PROVE QuietSoFar'
      BY <2>2
    <2>q. /\ \A ref : BoundTo(ref)' = BoundTo(ref)
          /\ \A names : PoliciesOf(names)' = PoliciesOf(names)
          /\ Groups' = Groups /\ Counting' = Counting /\ \A v : Saying(v)' = Saying(v)
      BY <2>1, QuietStore
    <2>t. /\ found \in Seq(Policies) /\ said \in Seq(Verdicts) /\ Len(said) <= Len(found)
          /\ (pc \notin {"fetch", "done"} => said = << >>) /\ (answer # "none" <=> pc = "done")
          /\ PolicyBindings \subseteq Bindings /\ GroupBindings \subseteq Bindings
      BY <1>i DEF TypeOK, Bindings
    <2>3. CASE Begin
      <3>1. pc = "begin" /\ pc' = "account" /\ List(who, PolicyBindings) /\ UNCHANGED <<store, found, said>>
        BY <2>3 DEF Begin
      <3>2. Coming' = Of(PolicyBindings, who)
        BY <1>i, <2>t, <3>1, ListComes
      <3>3. Named(found') \cup PoliciesOf(Coming') = BoundTo(who)
        BY <2>q, <3>1, <3>2 DEF QuietSoFar, BoundTo, Named
      <3> QED BY <2>1, <2>q, <2>t, <3>1, <3>3 DEF QuietSoFar
    <2>4. CASE ReadList
      <3>1. PICK f \in todo : todo' = todo \ {f} /\ hits' = {b \in hits : <<b, f, of[f]>> \in lists}
        BY <2>4 DEF ReadList
      <3>2. UNCHANGED <<pc, of, refs, found, said, answer>>
        BY <2>4 DEF ReadList
      <3>3. Coming' = Coming
        BY <2>1, <3>1, <3>2 DEF Coming
      <3> QED BY <2>1, <2>q, <3>2, <3>3 DEF QuietSoFar, Named
    <2>5. CASE GetPolicyBinding
      <3>1. PICK b \in hits : hits' = hits \ {b} /\ found' = Append(found, bindings[b].policy)
        BY <2>5 DEF GetPolicyBinding
      <3>2. pc \in {"account", "group"} /\ todo = {} /\ UNCHANGED <<pc, of, todo, refs, said, answer>>
        BY <2>5 DEF GetPolicyBinding
      <3>3. Coming = hits /\ Coming' = hits \ {b}
        BY <3>1, <3>2 DEF Coming
      <3>4. bindings[b].policy \in Policies
        <4>1. b \in PolicyBindings /\ bindings[b] # None
          BY <1>i, <3>2, FieldsAssumption DEF TypeOK, HitsStored
        <4> QED BY <1>i, <4>1, BindingsAssumption DEF TypeOK, Bindings, Contents
      <3>5. Named(found') = Named(found) \cup {bindings[b].policy}
        BY <2>t, <3>1, <3>4 DEF Named
      <3>6. PoliciesOf(Coming) = PoliciesOf(Coming') \cup {bindings[b].policy}
        BY <3>1, <3>3 DEF PoliciesOf
      <3>7. Named(found') \cup PoliciesOf(Coming') = Named(found) \cup PoliciesOf(Coming)
        BY <3>5, <3>6
      <3> QED BY <2>1, <2>q, <2>t, <3>2, <3>7 DEF QuietSoFar
    <2>6. CASE GetGroupBinding
      <3>1. PICK b \in hits : hits' = hits \ {b} /\ refs' = refs \cup {<<b, bindings[b].group>>}
        BY <2>6 DEF GetGroupBinding
      <3>2. pc = "groups" /\ todo = {} /\ UNCHANGED <<pc, of, todo, found, said, answer>>
        BY <2>6 DEF GetGroupBinding
      <3>3. Coming = hits /\ Coming' = hits \ {b}
        BY <3>1, <3>2 DEF Coming
      <3>4. {r[2] : r \in refs'} = {r[2] : r \in refs} \cup {bindings[b].group}
        <4>1. PICK pair : pair = <<b, bindings[b].group>>
          OBVIOUS
        <4>2. pair[2] = bindings[b].group /\ refs' = refs \cup {pair}
          BY <3>1, <4>1
        <4> QED BY <4>2
      <3>5. {bindings[c].group : c \in Coming} = {bindings[c].group : c \in Coming'} \cup {bindings[b].group}
        BY <3>1, <3>3
      <3>6. {r[2] : r \in refs'} \cup {bindings'[c].group : c \in Coming'} = Groups
        BY <2>1, <3>2, <3>4, <3>5 DEF QuietSoFar
      <3> QED BY <1>i, <2>1, <2>q, <2>t, <3>2, <3>6 DEF QuietSoFar, GroupsRead
    <2>7. CASE RoleListed
      <3>1. pc = "account" /\ Listed /\ who # Account /\ pc' = "fetch" /\ UNCHANGED <<found, said>>
        BY <2>7 DEF RoleListed
      <3>2. Named(found) = Counting
        BY <3>1, CountingIs, ListedComesNothing DEF QuietSoFar
      <3> QED BY <2>1, <2>q, <2>t, <3>1, <3>2 DEF QuietSoFar
    <2>8. CASE ListGroups
      <3>1. /\ pc = "account" /\ Listed /\ who = Account /\ pc' = "groups" /\ List(Account, GroupBindings)
            /\ UNCHANGED <<store, refs, found, said>>
        BY <2>8 DEF ListGroups
      <3>2. Named(found) = BoundTo(Account)
        BY <3>1, ListedComesNothing DEF QuietSoFar
      <3>3. Coming' = Of(GroupBindings, Account)
        BY <1>i, <2>t, <3>1, ListComes
      <3>4. refs = {}
        BY <1>i, <3>1 DEF GroupsRead
      <3>5. {r[2] : r \in refs'} \cup {bindings'[c].group : c \in Coming'} = Groups
        BY <3>1, <3>3, <3>4 DEF Groups
      <3> QED BY <2>1, <2>q, <2>t, <3>1, <3>2, <3>5 DEF QuietSoFar
    <2>9. CASE ListGroup
      <3>1. PICK r \in refs : refs' = refs \ {r} /\ pc' = "group" /\ List(r[2], PolicyBindings)
        BY <2>9 DEF ListGroup
      <3>2. pc \in {"groups", "group"} /\ Listed /\ UNCHANGED <<store, found, said>> /\ who = Account
        BY <1>i, <2>9 DEF ListGroup, GroupsRead
      <3>3. Coming' = Of(PolicyBindings, r[2])
        BY <1>i, <2>t, <3>1, <3>2, ListComes
      <3>4. Named(found) \cup UNION {BoundTo(s[2]) : s \in refs} = Counting
        <4>1. CASE pc = "group"
          BY <3>2, <4>1, ListedComesNothing DEF QuietSoFar
        <4>2. CASE pc = "groups"
          <5>1. Named(found) = BoundTo(Account) /\ {s[2] : s \in refs} = Groups
            BY <3>2, <4>2, ListedComesNothing DEF QuietSoFar
          <5>2. UNION {BoundTo(s[2]) : s \in refs} = UNION {BoundTo(g) : g \in Groups}
            BY <5>1
          <5> QED BY <3>2, <5>1, <5>2, CountingIs
        <4> QED BY <3>2, <4>1, <4>2
      <3>5. UNION {BoundTo(s[2]) : s \in refs} = BoundTo(r[2]) \cup UNION {BoundTo(s[2]) : s \in refs'}
        <4>1. refs = refs' \cup {r}
          BY <3>1
        <4>2. {BoundTo(s[2]) : s \in refs} = {BoundTo(s[2]) : s \in refs'} \cup {BoundTo(r[2])}
          BY <4>1
        <4> QED BY <4>2
      <3>6. PoliciesOf(Coming') = BoundTo(r[2])
        BY <3>3 DEF BoundTo
      <3>7. Named(found) \cup PoliciesOf(Coming') \cup UNION {BoundTo(s[2]) : s \in refs'} = Counting
        BY <3>4, <3>5, <3>6
      <3> QED BY <2>1, <2>q, <2>t, <3>1, <3>2, <3>7 DEF QuietSoFar
    <2>10. CASE GroupsListed
      <3>1. /\ pc \in {"groups", "group"} /\ Listed /\ refs = {} /\ pc' = "fetch" /\ UNCHANGED <<found, said>>
            /\ who = Account
        BY <1>i, <2>10 DEF GroupsListed, GroupsRead
      <3>2. UNION {BoundTo(r[2]) : r \in refs} = {} /\ {r[2] : r \in refs} = {}
        BY <3>1
      <3>3. Named(found) = Counting
        <4>1. CASE pc = "group"
          BY <3>1, <3>2, <4>1, ListedComesNothing DEF QuietSoFar
        <4>2. CASE pc = "groups"
          <5>1. Named(found) = BoundTo(Account) /\ Groups = {}
            BY <3>1, <3>2, <4>2, ListedComesNothing DEF QuietSoFar
          <5> QED BY <3>1, <5>1, CountingIs
        <4> QED BY <3>1, <4>1, <4>2
      <3> QED BY <2>1, <2>q, <2>t, <3>1, <3>3 DEF QuietSoFar
    <2>11. CASE Fetch
      <3>1. /\ pc = "fetch" /\ Len(said) < Len(found) /\ said' = Append(said, policies[Wanted])
            /\ UNCHANGED <<pc, found>> /\ Wanted = found[Len(said) + 1]
        BY <2>11 DEF Fetch, Wanted
      <3>2. Wanted \in Policies /\ policies[Wanted] \in Verdicts
        BY <1>i, <2>11, <2>t, <3>1 DEF Fetch, TypeOK
      <3>3. \A n \in DOMAIN said' :
              \/ n \in DOMAIN said /\ said'[n] = said[n]
              \/ n = Len(said) + 1 /\ said'[n] = policies[Wanted]
        BY <2>t, <3>1, <3>2
      <3>4. \A n \in DOMAIN said' : said'[n] = policies[found[n]]
        BY <3>1, <3>3 DEF QuietSoFar
      <3> QED BY <2>1, <2>q, <3>1, <3>4 DEF QuietSoFar
    <2>12. CASE FetchNothing
      <3>1. /\ pc = "fetch" /\ Len(said) < Len(found) /\ policies[Wanted] = None
            /\ pc' = "done" /\ answer' = "error" /\ UNCHANGED <<found, said>>
        BY <2>12 DEF FetchNothing
      <3>2. Wanted \in Named(found)
        BY <2>t, <3>1 DEF Wanted, Named
      <3>3. Wanted \in Saying(None)
        BY <3>1, <3>2 DEF Saying, QuietSoFar
      <3> QED BY <2>1, <2>q, <3>1, <3>3 DEF QuietSoFar
    <2>13. CASE Decide
      <3>1. /\ pc = "fetch" /\ Len(said) = Len(found) /\ pc' = "done" /\ answer' = Has(said)
            /\ UNCHANGED <<found, said>>
        BY <2>13 DEF Decide
      <3>2. Has(said) # "error"
        BY DEF Has
      <3> QED BY <2>1, <2>q, <3>1, <3>2 DEF QuietSoFar
    <2>14. CASE UNCHANGED vars
      <3>1. Coming' = Coming
        BY <2>14 DEF vars, Coming
      <3> QED BY <2>1, <2>q, <2>14, <3>1 DEF vars, QuietSoFar
    <2> QED BY <1>2, <2>3, <2>4, <2>5, <2>6, <2>7, <2>8, <2>9, <2>10, <2>11, <2>12, <2>13, <2>14 DEF Next
  <1> QED BY <1>1, <1>2

\* Nothing is known before a request begins.
LEMMA InitQuietSoFar == Init => QuietSoFar
  <1> SUFFICES ASSUME Init PROVE QuietSoFar
    OBVIOUS
  <1>1. found = <<>> /\ said = <<>> /\ pc = "begin" /\ writes = 0
    BY DEF Init
  <1>2. Named(found) = {}
    BY <1>1 DEF Named
  <1> QED BY <1>1, <1>2 DEF QuietSoFar

\* While nothing is written, and unless a race left entries behind, a request errs
\* exactly when a policy that counts is gone; it is allowed only if one allows it, and surely if, besides, none refuses it.
THEOREM QuietIsExact == Spec => []QuietAnswer
  <1>1. IInv /\ QuietSoFar => QuietAnswer
    <2> SUFFICES ASSUME IInv, QuietSoFar, pc = "done", writes = 0, torn = {}
                 PROVE  /\ answer = "error" <=> Saying(None) # {}
                        /\ answer = "allowed" => Saying("allows") # {}
                        /\ Saying(None) = {} /\ Saying("refuses") = {} /\ Saying("allows") # {}
                             => answer = "allowed"
      BY DEF QuietAnswer
    <2>t. found \in Seq(Policies) /\ said \in Seq(Verdicts)
      BY DEF IInv, Typed, TypeOK
    <2>1. CASE answer = "error"
      BY <2>1 DEF QuietSoFar
    <2>2. CASE answer # "error"
      <3>1. /\ Len(said) = Len(found) /\ answer = Has(said) /\ Counting = Named(found)
            /\ \A n \in DOMAIN said : said[n] = policies[found[n]]
        BY <2>2 DEF QuietSoFar
      <3>2. \A v : Saying(v) = {found[n] : n \in {m \in DOMAIN said : said[m] = v}}
        BY <2>t, <3>1 DEF Saying, Named
      <3>3. Saying(None) = {}
        BY <2>t, <3>2, NoneAssumption
      <3>4. ASSUME answer = "allowed" PROVE Saying("allows") # {}
        BY <3>1, <3>2, <3>4 DEF Has
      <3>5. ASSUME Saying("refuses") = {}, Saying("allows") # {} PROVE answer = "allowed"
        <4> DEFINE allowing == {m \in DOMAIN said : said[m] = "allows"}
        <4>1. allowing \in SUBSET Nat /\ allowing # {}
          BY <2>t, <3>2, <3>5
        <4>2. PICK n \in allowing : \A m \in allowing : n <= m
          <5> HIDE DEF allowing
          <5> QED BY <4>1, LeastNumber
        <4>3. ASSUME NEW m \in 1..(n - 1) PROVE said[m] = "passes"
          <5>1. m \in DOMAIN said /\ m \in Nat /\ m < n
            BY <2>t, <4>2
          <5>2. said[m] \in {"allows", "refuses", "passes"}
            BY <2>t, <5>1 DEF Verdicts
          <5>3. said[m] # "allows"
            BY <4>1, <4>2, <5>1
          <5>4. said[m] # "refuses"
            BY <3>2, <3>5, <5>1
          <5> QED BY <5>2, <5>3, <5>4
        <4> QED BY <3>1, <4>2, <4>3 DEF Has
      <3> QED BY <2>2, <3>3, <3>4, <3>5
    <2> QED BY <2>1, <2>2
  <1>2. IInv /\ QuietSoFar /\ [Next]_vars => QuietSoFar'
    BY NextQuietSoFar
  <1> QED BY <1>1, <1>2, InitQuietSoFar, Invariant, PTL DEF Spec
===============================================================================
