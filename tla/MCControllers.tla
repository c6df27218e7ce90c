---------------------------- MODULE MCControllers ----------------------------
(* Instances of Controllers for TLC. *)
EXTENDS Controllers, TLC

CONSTANTS p1, p2, s1, s2

\* A binding by the name of the namespace, a URL with a namespace that is cleared.
SomeUrls ==
  {Namespace, Admin("account"), Ref("policybinding", "oiam.io", "oiam.io")}

SomeBodies ==
  [kind \in {"namespace", "account", "policybinding"} |->
     IF kind = "policybinding" THEN {<<Admin("account"), Admin("policy")>>} ELSE {<<>>}]

Sym == Permutations(Procs) \cup Permutations(Servers)
===============================================================================
