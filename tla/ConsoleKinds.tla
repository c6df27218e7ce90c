---------------------------- MODULE ConsoleKinds ----------------------------
(***************************************************************************)
(* What the console knows of each kind of object: which fields the server  *)
(* keeps, which of them the kind's form keeps and sends, what the schema   *)
(* of the kind's page asks for before a save, and how the kind's service   *)
(* addresses its objects.                                                  *)
(***************************************************************************)
CONSTANTS
  Namespaces, Names,   \* of objects
  None

\* The fields the server has for an object, its metadata aside.
AccountFields == {"description", "type"}
GroupFields == {"description"}
GroupBindingFields == {"subjects", "groupRef"}
NamespaceFields == {"description"}
PolicyFields == {"description", "statements", "priority"}
PolicyBindingFields == {"subjects", "policyRef"}
RoleFields == {"description", "tags"}
SecretFields == {"key", "secret", "description", "accountRef"}

\* Services: what of the metadata the URLs of a kind's calls carry.
AccountService == [inURL |-> {"namespace", "name"}]
GroupService == [inURL |-> {"namespace", "name"}]
GroupBindingService == [inURL |-> {"name"}]
NamespaceService == [inURL |-> {"name"}]
PolicyService == [inURL |-> {"namespace", "name"}]
PolicyBindingService == [inURL |-> {"name"}]
RoleService == [inURL |-> {"namespace", "name"}]
SecretService == [inURL |-> {"name"}]

\* Forms: the fields kept from the value the form is given and sent on a save, those
\* there is an input for, and what is loaded whenever the value changes.  The form of
\* a policy empties the bindings it shows first.
AccountForm ==
  [keeps |-> {"description", "type"}, inputs |-> {"description", "type"}, loads |-> "bindings", empties |-> FALSE]
GroupForm ==
  [keeps |-> {"description"}, inputs |-> {"description"}, loads |-> "bindings", empties |-> FALSE]
GroupBindingForm ==
  [keeps |-> {"subjects", "groupRef"}, inputs |-> {"subjects", "groupRef"}, loads |-> "namespaces", empties |-> FALSE]
NamespaceForm ==
  [keeps |-> {"description"}, inputs |-> {"description"}, loads |-> "nothing", empties |-> FALSE]
PolicyForm ==
  [keeps |-> {"description", "statements", "priority"}, inputs |-> {"description", "statements", "priority"},
   loads |-> "bindings", empties |-> TRUE]
PolicyBindingForm ==
  [keeps |-> {"subjects", "policyRef"}, inputs |-> {"subjects", "policyRef"}, loads |-> "namespaces", empties |-> FALSE]
RoleForm ==
  [keeps |-> {"description"}, inputs |-> {"description"}, loads |-> "bindings", empties |-> FALSE]
SecretForm ==
  [keeps |-> {"key", "secret", "description", "accountRef"}, inputs |-> {"key", "secret", "description", "accountRef"},
   loads |-> "namespaces", empties |-> FALSE]

\* Pages: the fields handleNew sets, what the schema asks of the metadata, and whether
\* what handleNew makes is ready to be saved once it has those.
AccountPage ==
  [fields |-> AccountFields, form |-> AccountForm, service |-> AccountService,
   new |-> {"type"}, asks |-> {"namespace", "name"}, ready |-> TRUE, disableNamespace |-> FALSE]
GroupPage ==
  [fields |-> GroupFields, form |-> GroupForm, service |-> GroupService,
   new |-> {}, asks |-> {"namespace", "name"}, ready |-> TRUE, disableNamespace |-> FALSE]
GroupBindingPage ==
  [fields |-> GroupBindingFields, form |-> GroupBindingForm, service |-> GroupBindingService,
   new |-> {"subjects", "groupRef"}, asks |-> {"name"}, ready |-> FALSE, disableNamespace |-> TRUE]
NamespacePage ==
  [fields |-> NamespaceFields, form |-> NamespaceForm, service |-> NamespaceService,
   new |-> {}, asks |-> {"name"}, ready |-> TRUE, disableNamespace |-> TRUE]
PolicyPage ==
  [fields |-> PolicyFields, form |-> PolicyForm, service |-> PolicyService,
   new |-> {"statements", "priority"}, asks |-> {"namespace", "name"}, ready |-> FALSE, disableNamespace |-> FALSE]
PolicyBindingPage ==
  [fields |-> PolicyBindingFields, form |-> PolicyBindingForm, service |-> PolicyBindingService,
   new |-> {"subjects", "policyRef"}, asks |-> {"name"}, ready |-> FALSE, disableNamespace |-> TRUE]
RolePage ==
  [fields |-> RoleFields, form |-> RoleForm, service |-> RoleService,
   new |-> {}, asks |-> {"namespace", "name"}, ready |-> TRUE, disableNamespace |-> FALSE]
SecretPage ==
  [fields |-> SecretFields, form |-> SecretForm, service |-> SecretService,
   new |-> {"key", "secret"}, asks |-> {"name"}, ready |-> TRUE, disableNamespace |-> TRUE]

PageOf ==
  [account |-> AccountPage, group |-> GroupPage, groupbinding |-> GroupBindingPage,
   namespace |-> NamespacePage, policy |-> PolicyPage, policybinding |-> PolicyBindingPage,
   role |-> RolePage, secret |-> SecretPage]

\* What an edit with the console takes from an object.
Lost(page) == page.fields \ page.form.keeps
===============================================================================
