---------------------------- MODULE MCAccessRules ----------------------------
(* Instances of AccessRules for TLC: lists of up to three statements drawn   *)
(* from a catalogue that has a statement of each shape for each effect.      *)
EXTENDS AccessRules, TLC

CONSTANTS alice, admins

User == [kind |-> "account", namespace |-> "ns", name |-> alice]
Team == [kind |-> "group", namespace |-> "ns", name |-> admins]

Service(name, env) ==
  [kind |-> "service", namespace |-> "ns", name |-> name,
   tags |-> IF env = "" THEN <<>> ELSE [env |-> env]]

NoTags == <<>>
AnyResource == [kind |-> Wild, namespace |-> Wild, name |-> Wild, tags |-> NoTags]
Named(name) == [AnyResource EXCEPT !.name = name]
Tagged(env) == [AnyResource EXCEPT !.tags = [env |-> env]]
AnyPrincipal == [kind |-> Wild, namespace |-> Wild, name |-> Wild]
OfKind(kind) == [AnyPrincipal EXCEPT !.kind = kind]

Everything == [effect |-> "Allow", resources |-> {AnyResource}, notResources |-> {},
               actions |-> {Wild}, notActions |-> {}, principals |-> {}, notPrincipals |-> {},
               failsFor |-> {}]

\* The shapes: each restricts one dimension, by inclusion or by exclusion.
Shapes ==
  { Everything,
    [Everything EXCEPT !.resources = {Named("db")}],
    [Everything EXCEPT !.resources = {Tagged("prod")}],
    [Everything EXCEPT !.notResources = {Tagged(Wild), Named("db")}],
    [Everything EXCEPT !.actions = {"get"}],
    [Everything EXCEPT !.notActions = {"get"}],
    [Everything EXCEPT !.principals = {OfKind("group")}],
    [Everything EXCEPT !.notPrincipals = {OfKind("group")}],
    [Everything EXCEPT !.failsFor = {Team}] }

Catalogue == Shapes \cup {[s EXCEPT !.effect = "Deny"] : s \in Shapes}

ListsUpTo3 == UNION {[1..n -> Catalogue] : n \in 0..3}

AllRequests ==
  [action : {"get", "put"}, principals : {{User}, {User, Team}},
   service : {Service("db", ""), Service("web", "prod")}]
===============================================================================
