--------------------------- MODULE MCConsoleForms ---------------------------
(* An instance of ConsoleForms for TLC. *)
EXTENDS ConsoleForms, TLC

CONSTANTS eu, us, x, y, a1, a2, b1, r, half

\* A page with statements, one that picks one reference of one kind, and one whose list
\* has many of three kinds.
SomeRoutes == {"/iam/policy", "/iam/policybinding", "/sts/assume"}
SomePickers == {RolePicker, PolicySubjects}

Sym == Permutations(Namespaces) \cup Permutations(Names)

\* Two loads of a policy a, whose first statement has a principal and a resource with tags
\* and whose second has a condition, and one of a policy b, which has no statements.
Policies == (a1 :> "a" @@ a2 :> "a" @@ b1 :> "b")
Order == (a1 :> 1 @@ b1 :> 1 @@ a2 :> 2)
Plain == [BlankStatement("a") EXCEPT !.priority = 1]
StatementsOfA(held) ==
  << [Plain EXCEPT !.resources = <<Resource(r, held)>>, !.notPrincipals = <<r>>],
     [Plain EXCEPT !.condition = [key \in {"Bool"} |-> [param \in {"x"} |-> <<"x">>]]] >>
InStore == (a1 :> StatementsOfA(1) @@ a2 :> StatementsOfA(2) @@ b1 :> << >>)
InStoreTags == [t \in {1, 2} |-> [k \in {"k"} |-> "x"]]

\* One link asks to view a, another to edit b.
SomeQueries == {[policy |-> "a", readOnly |-> TRUE], [policy |-> "b", readOnly |-> FALSE]}

SomeFields == {"actions", "notPrincipals", "resources", "condition"}

\* Bound: of two references the first is an account.
AccountFirst == Picks /\ Len(refs) = 2 => refs[1].kind = "account"
=============================================================================
