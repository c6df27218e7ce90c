---------------------------- MODULE ResourcePage ----------------------------
(***************************************************************************)
(* A page of the console: ResourceList with the form of its kind, the      *)
(* user in front of it, and the server its calls go to.                    *)
(*                                                                         *)
(* Calls are answered, or fail, in any order and any time later; the page  *)
(* goes on meanwhile.  A dialog covers what is below it: the list is out   *)
(* of reach while the editor or the question before a delete is open.      *)
(* Others write to the server too.                                         *)
(***************************************************************************)
EXTENDS ConsoleKinds, Integers

CONSTANTS
  Kinds,               \* with a page
  Contents,            \* what a user fills the fields with
  MaxCalls,            \* bound on the calls under way
  MaxVersion,          \* bound on the writes of one object
  MaxActs              \* bound on what the user and the others do

ASSUME KindsAssumption == Kinds \subseteq DOMAIN PageOf
ASSUME NamesAssumption == "" \notin Names
ASSUME BoundsAssumption == MaxCalls \in Nat \ {0} /\ MaxVersion \in Nat \ {0} /\ MaxActs \in Nat

VARIABLES
  kind, query,         \* whose page it is, and the object its URL asks for, or None
  objects,             \* the server's: place -> [content, has, version], or None
  calls,               \* slot -> [op, arg, then, result], or None
  picked, list,        \* the namespace picked and the items shown
  editor,              \* [item, open, insert, readOnly]
  form,                \* what the form holds: [at, content, has]
  bindings,            \* the object whose bindings the form shows, or None
  alert,               \* the item whose removal is asked about, or None
  acts,
  doubt                \* history: which of "list" and "bindings" is in doubt, see Begun

server == <<kind, query, objects>>
dialogs == <<editor, form, bindings, alert>>
vars == <<server, calls, picked, list, dialogs, acts, doubt>>

page == PageOf[kind]

Place(namespace, name) == [namespace |-> namespace, name |-> name]
Everywhere == [namespace : Namespaces \cup {""}, name : Names]
Places == {at \in Everywhere : at.namespace = "" <=> "namespace" \notin page.service.inURL}

Item(at, content, has, version) == [at |-> at, content |-> content, has |-> has, version |-> version]
NoItem == Item(Place("", ""), "", {}, 0)

\* Objects and calls of a page: an object that is new may have no name yet.
Spots == [namespace : Namespaces \cup {""}, name : Names \cup {""}]
Texts == Contents \cup {"blank"}
ItemsOf(p) == {NoItem} \cup [at : Spots, content : Texts, has : SUBSET p.fields, version : 0..MaxVersion]
ListCalls(p) ==
  [op : {"namespaces", "list"}, arg : Namespaces \cup {"", "*"}, then : {"", "mount", "find"},
   result : {None} \cup SUBSET ItemsOf(p)]
SaveCalls(p) ==
  [op : {"save"}, arg : [at : Spots, content : Texts, has : SUBSET p.fields], then : {""}, result : {None, "ok"}]
OtherCalls == [op : {"remove", "bindings"}, arg : Spots, then : {""}, result : {None, "ok"}]

CallsOf(p) == ListCalls(p) \cup SaveCalls(p) \cup OtherCalls

ASSUME NoneAssumption == None # "ok" /\ \A k \in Kinds : None \notin CallsOf(PageOf[k])

\* What a list of a namespace answers; "" is the one of all kinds without namespaces.
Matching(ns) ==
  {Item(at, objects[at].content, objects[at].has, objects[at].version) :
     at \in {a \in Places : objects[a] # None /\ ns \in {a.namespace, "*"}}}

\* Mutant: the metadata stay those of the last value.
ResetFields(item) == [at |-> form.at, content |-> item.content, has |-> item.has \cap page.form.keeps]

\* componentDidUpdate of the form.
Reset(item) == [at |-> item.at, content |-> item.content, has |-> item.has \cap page.form.keeps]

-----------------------------------------------------------------------------
(***************************************************************************)
(* Calls and loads.                                                        *)
(***************************************************************************)
UnderWay == {c \in 1..MaxCalls : calls[c] # None}
Asks(c, op) == calls[c] # None /\ calls[c].op = op
IsNext(c) == calls[c] = None /\ \A d \in 1..MaxCalls : calls[d] = None => c <= d

Call(c, op, arg, then) ==
  calls' = [calls EXCEPT ![c] = [op |-> op, arg |-> arg, then |-> then, result |-> None]]
Hangup(c) == calls' = [calls EXCEPT ![c] = None]

\* A load that begins is not in doubt unless another like it is under way.
Ops(what) == IF what = "list" THEN {"namespaces", "list"} ELSE {what}
Begun(c, what, before) ==
  IF \E d \in UnderWay \ {c} : calls[d].op \in Ops(what) THEN before \cup {what} ELSE before \ {what}

loadFromNamespace(c, ns, then) ==
  Call(c, "list", ns, then) /\ picked' = ns /\ doubt' = Begun(c, "list", doubt)

loadList(c, then) ==
  IF page.disableNamespace
    THEN loadFromNamespace(c, "", then)
    ELSE Call(c, "namespaces", "*", then) /\ doubt' = Begun(c, "list", doubt) /\ UNCHANGED picked

\* Mutant: a new object does not load any.
PresentUnasked(c, item, insert, readOnly, before) ==
  LET loads == item # editor.item /\ page.form.loads = "bindings" /\ ~insert IN
  /\ editor' = [item |-> item, open |-> TRUE, insert |-> insert, readOnly |-> readOnly]
  /\ form' = IF item = editor.item THEN form ELSE Reset(item)
  /\ bindings' = IF loads /\ page.form.empties THEN None ELSE bindings
  /\ IF loads THEN Call(c, "bindings", item.at, "") ELSE Hangup(c)
  /\ doubt' = IF loads THEN Begun(c, "bindings", before) ELSE before

\* The form lives on while it is closed, and resets only to a value that differs: then
\* it loads the bindings, too, if it shows any.
Present(c, item, insert, readOnly, before) ==
  LET loads == item # editor.item /\ page.form.loads = "bindings" IN
  /\ editor' = [item |-> item, open |-> TRUE, insert |-> insert, readOnly |-> readOnly]
  /\ form' = IF item = editor.item THEN form ELSE Reset(item)
  /\ bindings' = IF loads /\ page.form.empties THEN None ELSE bindings
  /\ IF loads THEN Call(c, "bindings", item.at, "") ELSE Hangup(c)
  /\ doubt' = IF loads THEN Begun(c, "bindings", before) ELSE before

\* A load is over, for good or ill.  The first goes on to what the URL asks for: its
\* namespace is loaded, and then the item is looked for among those shown.
Resume(c, shown, before) ==
  LET asked == query # None /\ calls[c].then # ""
      goesOn == asked /\ calls[c].then = "mount" /\ ~page.disableNamespace
      found == IF asked /\ ~goesOn THEN {item \in shown : item.at = query.at} ELSE {}
  IN
  \/ /\ goesOn
     /\ loadFromNamespace(c, query.at.namespace, "find")
     /\ UNCHANGED <<editor, form, bindings>>
  \/ \E item \in found :
       /\ Present(c, item, FALSE, query.readOnly, before)
       /\ UNCHANGED picked
  \/ /\ ~goesOn /\ found = {}
     /\ Hangup(c) /\ doubt' = before /\ UNCHANGED <<picked, editor, form, bindings>>

-----------------------------------------------------------------------------
(***************************************************************************)
(* The user.                                                               *)
(***************************************************************************)
Acts == acts < MaxActs /\ acts' = acts + 1 /\ UNCHANGED <<server, list>>

Uncovered == ~editor.open /\ alert = None

handleChangeNamespace(c, ns) ==
  /\ Uncovered /\ ~page.disableNamespace /\ ns # picked /\ IsNext(c)
  /\ loadFromNamespace(c, ns, "")
  /\ Acts /\ UNCHANGED dialogs

Shows(c, item, insert, readOnly) ==
  /\ Uncovered /\ IsNext(c)
  /\ Present(c, item, insert, readOnly, doubt)
  /\ Acts /\ UNCHANGED <<picked, alert>>

handleShowInsertEditor(c) ==
  LET ns == IF picked = "*" THEN "" ELSE picked IN
  Shows(c, Item(Place(ns, ""), "blank", page.new, 0), TRUE, FALSE)

\* A file that holds an object of the kind.
handleImport(c, at, content) == Shows(c, Item(at, content, page.fields, 0), TRUE, FALSE)

handleShowEditor(c, item) == Shows(c, item, FALSE, FALSE)
handleShowReadOnly(c, item) == Shows(c, item, FALSE, TRUE)

Only(unchanged) == Acts /\ UNCHANGED <<unchanged, bindings, calls, picked, doubt>>

onClose ==
  /\ editor.open /\ editor' = [editor EXCEPT !.open = FALSE]
  /\ Only(<<form, alert>>)

Edits == editor.open /\ ~editor.readOnly /\ Only(<<editor, alert>>)

EditFields(content) == Edits /\ form' = [form EXCEPT !.content = content, !.has = @ \cup page.form.inputs]

\* The name is open only in a new object, the namespace always.
EditName(name) == Edits /\ editor.insert /\ form' = [form EXCEPT !.at.name = name]
EditNamespace(ns) == Edits /\ ~page.disableNamespace /\ form' = [form EXCEPT !.at.namespace = ns]

\* What the page's schema lets pass is sent; the editor stays open till the answer.
handleSave(c) ==
  /\ editor.open /\ ~editor.readOnly /\ IsNext(c)
  /\ \A field \in page.asks : form.at[field] # ""
  /\ form.content = "blank" => page.ready
  /\ Call(c, "save", form, "")
  /\ Acts /\ UNCHANGED <<picked, dialogs, doubt>>

handleDelete(item) ==
  /\ Uncovered /\ alert' = item
  /\ Only(<<editor, form>>)

Decide(c, flag) ==
  /\ alert # None /\ alert' = None
  /\ IF flag THEN IsNext(c) /\ Call(c, "remove", alert.at, "") ELSE c = 1 /\ UNCHANGED calls
  /\ Acts /\ UNCHANGED <<picked, editor, form, bindings, doubt>>

-----------------------------------------------------------------------------
(***************************************************************************)
(* The server, and others who write to it.  When namespaces and bindings    *)
(* were answered makes no difference here.                                 *)
(***************************************************************************)
VersionOf(at) == IF objects[at] = None THEN 0 ELSE objects[at].version

\* Mutant: a write leaves the version as it was.
PutSame(at, content, has) ==
  objects' = [objects EXCEPT ![at] =
                [content |-> content, has |-> has, version |-> VersionOf(at)]]

Put(at, content, has) ==
  /\ VersionOf(at) < MaxVersion
  /\ objects' = [objects EXCEPT ![at] =
                   [content |-> content, has |-> has, version |-> VersionOf(at) + 1]]

Replies(c, op, result) ==
  /\ Asks(c, op) /\ calls[c].result = None
  /\ calls' = [calls EXCEPT ![c].result = result]
  /\ UNCHANGED <<kind, query, picked, list, dialogs, acts, doubt>>

ServeList(c) == Replies(c, "list", Matching(calls[c].arg)) /\ UNCHANGED objects

ServeSave(c) ==
  /\ Replies(c, "save", "ok")
  /\ Put(calls[c].arg.at, calls[c].arg.content, calls[c].arg.has)

ServeRemove(c) ==
  /\ Replies(c, "remove", "ok")
  /\ objects[calls[c].arg] # None /\ objects' = [objects EXCEPT ![calls[c].arg] = None]

OtherWrites(at) ==
  /\ at \in Places /\ doubt' = doubt \cup {"list"}
  /\ \/ \E content \in Contents : Put(at, content, page.fields)
     \/ objects[at] # None /\ objects' = [objects EXCEPT ![at] = None]
  /\ acts < MaxActs /\ acts' = acts + 1
  /\ UNCHANGED <<kind, query, calls, picked, list, dialogs>>

-----------------------------------------------------------------------------
(***************************************************************************)
(* Answers.                                                                *)
(***************************************************************************)
Answers(c, op) == Asks(c, op) /\ calls[c].result # None

\* The first namespace is loaded; when there is none, the list stays.
AnswerNamespaces(c) ==
  /\ Asks(c, "namespaces")
  /\ \/ \E ns \in Namespaces :
          /\ Call(c, "list", ns, calls[c].then) /\ picked' = ns
          /\ UNCHANGED <<editor, form, bindings, doubt>>
     \/ Resume(c, list, doubt \cup {"list"})
  /\ UNCHANGED <<server, list, alert, acts>>

AnswerList(c) ==
  /\ Answers(c, "list")
  /\ list' = calls[c].result
  /\ Resume(c, calls[c].result, doubt)
  /\ UNCHANGED <<server, alert, acts>>

\* Mutant: the list is not loaded again.
AnswerSaveOnly(c) ==
  /\ Answers(c, "save")
  /\ editor' = [editor EXCEPT !.open = FALSE]
  /\ Hangup(c)
  /\ UNCHANGED <<server, picked, list, form, bindings, alert, acts, doubt>>

\* Whichever editor is open is closed.
AnswerSave(c) ==
  /\ Answers(c, "save")
  /\ editor' = [editor EXCEPT !.open = FALSE]
  /\ loadList(c, "")
  /\ UNCHANGED <<server, list, form, bindings, alert, acts>>

AnswerRemove(c) ==
  /\ Answers(c, "remove")
  /\ loadList(c, "")
  /\ UNCHANGED <<server, list, dialogs, acts>>

\* The bindings are of whom they were asked for.
AnswerBindings(c) ==
  /\ Asks(c, "bindings")
  /\ bindings' = calls[c].arg /\ Hangup(c)
  /\ UNCHANGED <<server, picked, list, editor, form, alert, acts, doubt>>

\* A notice is shown, whether or not the server did what it was asked.
Fail(c) ==
  /\ calls[c] # None
  /\ \/ calls[c].op \in Ops("list") /\ Resume(c, list, doubt \cup {"list"})
     \/ /\ calls[c].op \notin Ops("list")
        /\ Hangup(c) /\ UNCHANGED <<picked, editor, form, bindings>>
        /\ doubt' = doubt \cup {IF calls[c].op = "bindings" THEN "bindings" ELSE "list"}
  /\ UNCHANGED <<server, list, alert, acts>>

-----------------------------------------------------------------------------
\* componentDidMount.
Init ==
  /\ kind \in Kinds
  /\ objects \in [Everywhere -> {None} \cup [content : Contents, has : {page.fields}, version : {1}]]
  /\ \A at \in Everywhere \ Places : objects[at] = None
  /\ query \in {None} \cup [at : Places, readOnly : BOOLEAN]
  /\ calls = [c \in 1..MaxCalls |->
                IF c > 1 THEN None
                ELSE [op |-> IF page.disableNamespace THEN "list" ELSE "namespaces",
                      arg |-> IF page.disableNamespace THEN "" ELSE "*", then |-> "mount", result |-> None]]
  /\ picked = "" /\ list = {}
  /\ editor = [item |-> NoItem, open |-> FALSE, insert |-> FALSE, readOnly |-> FALSE]
  /\ form = [at |-> NoItem.at, content |-> "", has |-> {}]
  /\ bindings = None /\ alert = None /\ acts = 0 /\ doubt = {}

Next ==
  \/ \E c \in 1..MaxCalls :
       \/ \E ns \in Namespaces \cup {"*"} : handleChangeNamespace(c, ns)
       \/ handleSave(c)
       \/ \E flag \in BOOLEAN : Decide(c, flag)
       \/ ServeList(c) \/ ServeSave(c) \/ ServeRemove(c)
       \/ AnswerNamespaces(c) \/ AnswerList(c) \/ AnswerSave(c) \/ AnswerRemove(c) \/ AnswerBindings(c)
       \/ Fail(c)
       \/ handleShowInsertEditor(c)
       \/ \E at \in Places, content \in Contents : handleImport(c, at, content)
       \/ \E item \in list : handleShowEditor(c, item) \/ handleShowReadOnly(c, item)
  \/ onClose
  \/ \E item \in list : handleDelete(item)
  \/ \E content \in Contents : EditFields(content)
  \/ \E name \in Names : EditName(name)
  \/ \E ns \in Namespaces : EditNamespace(ns)
  \/ \E at \in Everywhere : OtherWrites(at)

Spec == Init /\ [][Next]_vars

-----------------------------------------------------------------------------
(***************************************************************************)
(* Properties.                                                             *)
(***************************************************************************)
TypeOK ==
  /\ kind \in DOMAIN PageOf
  /\ \A at \in Everywhere : objects[at] # None =>
       at \in Places /\ objects[at].version \in 1..MaxVersion /\ objects[at].has \subseteq page.fields
  /\ picked \in Namespaces \cup {"", "*"} /\ list \subseteq ItemsOf(page)
  /\ editor.item \in ItemsOf(page) /\ alert \in ItemsOf(page) \cup {None}
  /\ bindings \in Spots \cup {None} /\ form.has \subseteq page.form.keeps /\ acts \in 0..MaxActs

\* Every save and delete, and every pick of a namespace, ends in a list of what the
\* server has now where the page is: unless a call failed, another wrote, or loads
\* overlapped since the last load began (the answers of lists are shown in the order
\* they come).
QuietShowsStore == UnderWay = {} /\ "list" \notin doubt => list = Matching(picked)

\* An editor that is not for a new object holds the object it was opened for, whatever
\* was typed before and whichever dialog the URL's query opened it over: a save goes to
\* its name, in its namespace where the form has none to pick, and keeps its fields, but
\* for those the kind's form does not know.
EditorHoldsItem ==
  editor.open /\ ~editor.insert =>
    /\ form.at.name = editor.item.at.name
    /\ page.disableNamespace => form.at = editor.item.at
    /\ editor.item.has \ form.has \subseteq Lost(page)

\* The form shows the bindings of the object it shows, and not those of the one it
\* showed before, when their call is answered and did not fail or overlap another.
BindingsAreOwn ==
  editor.open /\ page.form.loads = "bindings" /\ "bindings" \notin doubt =>
    (\E c \in UnderWay : calls[c].op = "bindings") \/ bindings = editor.item.at
===============================================================================
