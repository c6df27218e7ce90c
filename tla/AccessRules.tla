----------------------------- MODULE AccessRules -----------------------------
(***************************************************************************)
(* access.DefaultImplementation.Has: the walk over the policy statements   *)
(* that apply to a request, which answers whether it may proceed.          *)
(*                                                                         *)
(* A statement names resources, actions and principals, each with an       *)
(* exclusion list, an effect and conditions.  The walk is modelled one     *)
(* check at a time, because what a check decides depends on the checks and *)
(* the statements before it.  A condition is abstracted to the principals  *)
(* it fails for ("failsFor"); the operators behind it are in Conditions.   *)
(***************************************************************************)
EXTENDS Integers, Sequences

CONSTANTS
  Statements,   \* the lists of statements a request may meet
  Requests,     \* the requests: action, principals and service
  Wild          \* the name, kind, namespace, action or tag value "*"

ASSUME StatementsAreLists ==
  \A ss \in Statements :
    /\ Len(ss) \in Nat /\ DOMAIN ss = 1..Len(ss)
    /\ \A n \in DOMAIN ss : ss[n].effect \in {"Allow", "Deny"}

VARIABLES
  statements,   \* the statements being walked, in order
  request,      \* the request they are walked for
  i,            \* the statement under examination
  check,        \* the check under way
  verdict       \* the answer

walkVars == <<statements, request, i, check, verdict>>

Checks == {"resource", "action", "principal", "condition"}
Endings == {"pending", "allowed", "denied", "condition failed", "no rule"}

-----------------------------------------------------------------------------
(***************************************************************************)
(* Matching.                                                               *)
(***************************************************************************)
Fits(rule, value) == rule = Wild \/ rule = value

\* A tag the target does not carry reads as the empty string.
TagOf(tags, t) == IF t \in DOMAIN tags THEN tags[t] ELSE ""

\* Tags.Fulfills: the rule's tags, not the target's, say what is compared.
Fulfills(tags, rule) == \A t \in DOMAIN rule : rule[t] = Wild \/ TagOf(tags, t) = rule[t]

\* checkResource
CheckResource(rule, target) ==
  /\ Fits(rule.name, target.name)
  /\ Fits(rule.namespace, target.namespace)
  /\ Fits(rule.kind, target.kind)
  /\ Fulfills(target.tags, rule.tags)

\* checkPrincipals
CheckPrincipals(principals, rule) ==
  \E principal \in principals :
    /\ Fits(rule.kind, principal.kind)
    /\ Fits(rule.name, principal.name)
    /\ Fits(rule.namespace, principal.namespace)

\* Named and not excluded.
ResourceMatch(s, r) ==
  /\ \E rule \in s.resources : CheckResource(rule, r.service)
  /\ ~ \E rule \in s.notResources : CheckResource(rule, r.service)

ActionMatch(s, r) ==
  /\ \E action \in s.actions : Fits(action, r.action)
  /\ ~ \E action \in s.notActions : Fits(action, r.action)

\* A statement that names no principal is about all of them.
PrincipalMatch(s, r) ==
  /\ s.principals = {} \/ \E rule \in s.principals : CheckPrincipals(r.principals, rule)
  /\ ~ \E rule \in s.notPrincipals : CheckPrincipals(r.principals, rule)

\* Every condition is put to every principal of the request.
ConditionsHold(s, r) == s.failsFor \cap r.principals = {}

-----------------------------------------------------------------------------
(***************************************************************************)
(* The walk.                                                               *)
(***************************************************************************)
Answer(v) == check' = "done" /\ verdict' = v /\ UNCHANGED i

Continue(here) == check' = here /\ UNCHANGED <<i, verdict>>

\* Mutant: the walk runs past the last statement.
SkipPastEnd ==
  IF i <= Len(statements)
    THEN i' = i + 1 /\ check' = "resource" /\ UNCHANGED verdict
    ELSE Answer("no rule")

\* The next statement, or the end of the list.
Skip ==
  IF i < Len(statements)
    THEN i' = i + 1 /\ check' = "resource" /\ UNCHANGED verdict
    ELSE Answer("no rule")

\* Mutant: a check that fails under Deny passes the statement over.
SoughtSkipping(here, matches, next) ==
  /\ check = here
  /\ IF matches THEN IF statements[i].effect = "Deny" THEN Answer("denied") ELSE Continue(next)
     ELSE Skip
  /\ UNCHANGED <<statements, request>>

\* One check: a mismatch passes an Allow statement over, a match ends a Deny
\* statement; otherwise the next check follows.
Sought(here, matches, next) ==
  /\ check = here
  /\ CASE ~matches /\ statements[i].effect = "Allow" -> Skip
       [] matches /\ statements[i].effect = "Deny" -> Answer("denied")
       [] OTHER -> Continue(next)
  /\ UNCHANGED <<statements, request>>

CheckResources == Sought("resource", ResourceMatch(statements[i], request), "action")
CheckActions == Sought("action", ActionMatch(statements[i], request), "principal")
CheckPrincipal == Sought("principal", PrincipalMatch(statements[i], request), "condition")

\* Mutant: a failing condition moves on to the next statement.
CheckConditionsSkipping ==
  /\ check = "condition"
  /\ CASE statements[i].effect = "Allow" /\ ~ConditionsHold(statements[i], request) -> Skip
       [] statements[i].effect = "Deny" -> Answer("denied")
       [] OTHER -> Answer("allowed")
  /\ UNCHANGED <<statements, request>>

\* The conditions decide an Allow statement; a Deny statement is past deciding.
CheckConditions ==
  /\ check = "condition"
  /\ CASE statements[i].effect = "Allow" /\ ~ConditionsHold(statements[i], request) ->
            Answer("condition failed")
       [] statements[i].effect = "Deny" -> Answer("denied")
       [] OTHER -> Answer("allowed")
  /\ UNCHANGED <<statements, request>>

WalkInit ==
  /\ statements \in Statements
  /\ request \in Requests
  /\ i = 1
  /\ check = IF Len(statements) = 0 THEN "done" ELSE "resource"
  /\ verdict = IF Len(statements) = 0 THEN "no rule" ELSE "pending"

WalkNext == CheckResources \/ CheckActions \/ CheckPrincipal \/ CheckConditions

WalkSpec == WalkInit /\ [][WalkNext]_walkVars

-----------------------------------------------------------------------------
(***************************************************************************)
(* Properties.                                                             *)
(***************************************************************************)

\* The walk stays within the list and ends exactly when it has an answer.
WalkTypeOK ==
  /\ statements \in Statements /\ request \in Requests
  /\ check \in Checks \cup {"done"}
  /\ check \in Checks => i \in DOMAIN statements
  /\ verdict \in Endings
  /\ verdict = "pending" <=> check # "done"

Applies(s, r) == ResourceMatch(s, r) /\ ActionMatch(s, r) /\ PrincipalMatch(s, r)

\* A statement that ends the walk: any Deny, and an Allow that applies.
Decisive(s, r) == s.effect = "Deny" \/ Applies(s, r)

\* What one decisive statement answers.
Says(s, r) ==
  IF s.effect = "Deny" THEN "denied"
  ELSE IF ConditionsHold(s, r) THEN "allowed" ELSE "condition failed"

\* n is the first decisive statement of ss.
FirstDecisive(ss, r, n) ==
  /\ n \in DOMAIN ss /\ Decisive(ss[n], r)
  /\ \A m \in 1..(n - 1) : ~Decisive(ss[m], r)

\* Has answers what the first decisive statement says, and "no rule" when there
\* is none: the reference definition of the walk.
FirstDecisiveAnswers ==
  check = "done" =>
    \/ \E n \in DOMAIN statements :
         FirstDecisive(statements, request, n) /\ verdict = Says(statements[n], request)
    \/ (\A n \in DOMAIN statements : ~Decisive(statements[n], request)) /\ verdict = "no rule"

\* Nothing is allowed without a statement that allows it: it names the resource,
\* the action and a principal of the request, excludes none of them, its
\* conditions hold for every principal, and no Deny statement comes before it.
AllowedByStatement ==
  verdict = "allowed" =>
    \E n \in DOMAIN statements :
      /\ statements[n].effect = "Allow"
      /\ Applies(statements[n], request) /\ ConditionsHold(statements[n], request)
      /\ \A m \in 1..(n - 1) : statements[m].effect = "Allow"

\* What the checks so far have established: everything before i was passed over,
\* and an Allow statement has matched in every dimension already checked.
WalkSoFar ==
  check # "done" =>
    /\ \A m \in 1..(i - 1) : ~Decisive(statements[m], request)
    /\ statements[i].effect = "Allow" =>
         /\ check \in {"action", "principal", "condition"} => ResourceMatch(statements[i], request)
         /\ check \in {"principal", "condition"} => ActionMatch(statements[i], request)
         /\ check = "condition" => PrincipalMatch(statements[i], request)

WalkIInv == WalkTypeOK /\ WalkSoFar /\ FirstDecisiveAnswers

-----------------------------------------------------------------------------
(***************************************************************************)
(* What the documentation says, and the code does not do.                  *)
(***************************************************************************)

\* README.md: a Policy "contains what you can/cannot access through all
\* dimensions": a denial rests on a Deny statement that applies.
DeniedByStatement ==
  verdict = "denied" =>
    \E n \in DOMAIN statements : statements[n].effect = "Deny" /\ Applies(statements[n], request)
===============================================================================
