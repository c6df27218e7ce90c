----------------------------- MODULE MCAuthorize -----------------------------
(* Instances of Authorize for TLC. *)
EXTENDS Authorize, TLC

CONSTANTS p, q, b1, b2, g1

Ref(kind, namespace, name) == [kind |-> kind, namespace |-> namespace, name |-> name]

alice == Ref("account", "eu", "alice")
admins == Ref("group", "eu", "admins")
deployer == Ref("role", "eu", "deployer")
viewer == Ref("role", "eu", "viewer")

\* A group that has the account's name: together with another account it meets it.
namesake == Ref("group", "eu", "alice")
bob == Ref("account", "eu", "bob")

\* A binding of the account and the role, or of a group and another role, or of others.
SomeBound == {[subjects |-> {alice, deployer}, policy |-> p], [subjects |-> {admins, viewer}, policy |-> q],
              [subjects |-> {bob, namesake}, policy |-> q]}
SomeJoined == {[subjects |-> {alice}, group |-> admins]}

\* An account once bound is left in the list of its name.
LeftInList == {<<b1, "name", "alice">>}
===============================================================================
