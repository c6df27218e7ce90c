------------------------------ MODULE RefPicker ------------------------------
(***************************************************************************)
(* The console's list of references (ReferenceEditor) and the dialog that  *)
(* adds one or changes one (RefEditor).                                    *)
(*                                                                         *)
(* The dialog offers names that calls answer: one begins when it opens and *)
(* one whenever a kind is picked, but none when a namespace is.  Answers   *)
(* come in any order, any time later, while the user goes on; those that   *)
(* come once the dialog is closed are dropped.                             *)
(*                                                                         *)
(* A click captures the list of its rendering, and what it opened edits    *)
(* that one when it is closed.  The form below may have got another list   *)
(* by then: what the page's URL asks for, or what it loads first, comes    *)
(* when it comes.                                                          *)
(***************************************************************************)
EXTENDS ConsoleKinds, Integers, SequencesExt

CONSTANTS
  Shown,       \* the namespaces the form knows, and the picker shows
  Pickers,     \* of AllPickers
  MaxRefs,     \* bound on the list
  MaxGiven,    \* bound on the lists a form is given ...
  GivenKinds,  \* ... and on the kinds of their references
  MaxLoads     \* bound on the calls of one dialog

\* What the forms of bindings and of secrets pick, and the page that assumes a role.
GroupPicker == [kinds |-> {"group"}, multiple |-> FALSE]
GroupSubjects == [kinds |-> {"account"}, multiple |-> TRUE]
PolicyPicker == [kinds |-> {"policy"}, multiple |-> FALSE]
PolicySubjects == [kinds |-> {"account", "group", "role"}, multiple |-> TRUE]
AccountPicker == [kinds |-> {"account"}, multiple |-> FALSE]
RolePicker == [kinds |-> {"role"}, multiple |-> FALSE]
AllPickers == {GroupPicker, GroupSubjects, PolicyPicker, PolicySubjects, AccountPicker, RolePicker}

RefKinds == UNION {p.kinds : p \in AllPickers}

\* References, complete or not, and dialogs.
Drafts == [namespace : Namespaces \cup {""}, kind : RefKinds \cup {""}, name : Names \cup {""}]
Dialogs == [at : 1..MaxRefs, refs : Seq(Drafts), opened : Drafts, ref : Drafts, names : SUBSET Names]
Alerts == [at : 1..MaxRefs, refs : Seq(Drafts)]

ASSUME PickersAssumption == Pickers \subseteq AllPickers /\ Shown \subseteq Namespaces
ASSUME PickerBoundsAssumption == MaxRefs \in Nat \ {0} /\ MaxGiven \in 0..MaxRefs /\ MaxLoads \in Nat
ASSUME PickerNoneAssumption == None \notin Drafts /\ None \notin Dialogs /\ None \notin Alerts

Ref(namespace, kind, name) == [namespace |-> namespace, kind |-> kind, name |-> name]
NoRef == Ref("", "", "")

VARIABLES
  picker,     \* which it is
  refs,       \* the list
  refDialog,  \* [at, refs, opened, ref, names]: the place in the list, the list captured and
              \* the ref it was opened with, what is picked, the names offered; or None
  alert,      \* [at, refs]: what is about to be removed, and the list captured; or None
  seeks,      \* what the URL asks for, or the page loads first, has not come yet
  loads,      \* what each call of the dialog asked: Ref(namespace, kind, ""), or None
  from,       \* history: the call that answered the names
  source,     \* history: the call that answered the name picked
  hasty,      \* history: the user did not wait for an answer, or a call failed
  swapped     \* history: the form was given another list since the click

history == <<from, source, hasty>>
listVars == <<refs, alert, seeks, swapped>>
pickerVars == <<picker, listVars, refDialog, loads, history>>

Refs == [namespace : Namespaces, kind : picker.kinds, name : Names]

\* The lists a form is given: of an object the page has, imports or begins.
Given ==
  LET some == {ref \in Refs : ref.kind \in GivenKinds}
      most == IF picker.multiple THEN MaxGiven ELSE IF MaxGiven = 0 THEN 0 ELSE 1
  IN IF picker = RolePicker THEN {<<>>} ELSE {given \in BoundedSeq(some, most) : IsInjective(given)}

UnderWay == {c \in 1..MaxLoads : loads[c] # None}
Slot == CHOOSE c \in 1..MaxLoads : loads[c] = None

\* What is the only one is picked at once.
Only(picked, options) == IF \E o \in options : options = {o} THEN CHOOSE o \in options : TRUE ELSE picked

load(ref) == UnderWay # 1..MaxLoads /\ loads' = [loads EXCEPT ![Slot] = [ref EXCEPT !.name = ""]]

-----------------------------------------------------------------------------
(***************************************************************************)
(* The list.                                                               *)
(***************************************************************************)
\* A dialog and an alert cover the form.
Idle == refDialog = None /\ alert = None

\* The form is reset: to another object the user opens, and once, also below a dialog,
\* to the one of the URL or, where a role is assumed, to nothing.
Reset(given) ==
  /\ \/ Idle /\ picker # RolePicker /\ UNCHANGED seeks
     \/ seeks /\ seeks' = FALSE
  /\ refs' = given
  /\ swapped' = (swapped \/ (~Idle /\ given # refs))
  /\ UNCHANGED <<picker, refDialog, alert, loads, history>>

present(at, opened) ==
  LET ref == [opened EXCEPT !.namespace = Only(@, Shown), !.kind = Only(@, picker.kinds)] IN
  /\ Idle /\ swapped' = FALSE
  /\ refDialog' = [at |-> at, refs |-> refs, opened |-> opened, ref |-> ref, names |-> {}]
  /\ load(ref)
  /\ from' = None /\ source' = None /\ hasty' = FALSE /\ UNCHANGED <<picker, refs, alert, seeks>>

\* Mutant: a reference is picked though there is one.
AddAlways == Len(refs) < MaxRefs /\ present(Len(refs) + 1, NoRef)

Add == (picker.multiple \/ refs = <<>>) /\ Len(refs) < MaxRefs /\ present(Len(refs) + 1, NoRef)

Edit(i) == picker.multiple /\ present(i, refs[i])

Drop(i) ==
  /\ Idle /\ swapped' = FALSE /\ alert' = [at |-> i, refs |-> refs]
  /\ UNCHANGED <<picker, refs, refDialog, seeks, loads, history>>

Confirm(flag) ==
  /\ alert # None /\ alert' = None /\ swapped' = FALSE
  /\ refs' = IF flag THEN RemoveAt(alert.refs, alert.at) ELSE refs
  /\ UNCHANGED <<picker, refDialog, seeks, loads, history>>

\* Mutant: only the complete is asked for.
checkComplete(ref) == ref.kind # "" /\ ref.namespace # "" /\ ref.name # ""

\* A ref is complete and not in the list of the click.
checkValue(ref) ==
  /\ ref.kind # "" /\ ref.namespace # "" /\ ref.name # ""
  /\ ref \notin Range(refDialog.refs)

\* What of the names and of the name picked is known to be the server's.
Notes(waited, names, name) ==
  LET careful == waited /\ ~hasty IN
  /\ hasty' = ~careful
  /\ from' = IF careful THEN names ELSE None
  /\ source' = IF careful THEN name ELSE None

-----------------------------------------------------------------------------
(***************************************************************************)
(* The dialog.                                                             *)
(***************************************************************************)
PickNamespace(ns) ==
  /\ refDialog # None
  /\ refDialog' = [refDialog EXCEPT !.ref = Ref(ns, "", "")]
  /\ Notes(UnderWay = {}, from, None)
  /\ UNCHANGED <<picker, listVars, loads>>

\* Mutant: the name stays.
PickKindOnly(kind) ==
  /\ refDialog # None
  /\ refDialog' = [refDialog EXCEPT !.ref.kind = kind]
  /\ load(Ref(refDialog.ref.namespace, kind, ""))
  /\ Notes(UnderWay = {}, from, None)
  /\ UNCHANGED <<picker, listVars>>

PickKind(kind) ==
  /\ refDialog # None
  /\ refDialog' = [refDialog EXCEPT !.ref.kind = kind, !.ref.name = ""]
  /\ load(Ref(refDialog.ref.namespace, kind, ""))
  /\ Notes(UnderWay = {}, from, None)
  /\ UNCHANGED <<picker, listVars>>

PickName(name) ==
  /\ refDialog # None /\ name \in refDialog.names
  /\ refDialog' = [refDialog EXCEPT !.ref.name = name]
  /\ Notes(UnderWay = {}, from, from)
  /\ UNCHANGED <<picker, listVars, loads>>

\* To add one, those in the list are not offered.
onList(asked, answer) ==
  IF refDialog.at > Len(refDialog.refs)
    THEN {n \in answer : [asked EXCEPT !.name = n] \notin Range(refDialog.refs)}
    ELSE answer

\* Names of a kind the form takes; none before a kind is picked.
NamesAnswered(c, answer) ==
  LET asked == loads[c]  names == onList(asked, answer) IN
  /\ refDialog # None /\ asked # None
  /\ asked.kind = "" => answer = {}
  /\ refDialog' = [refDialog EXCEPT !.names = names, !.ref.name = Only(@, names)]
  /\ Notes(TRUE, asked, IF \E n \in names : names = {n} THEN asked ELSE source)
  /\ loads' = [loads EXCEPT ![c] = None]
  /\ UNCHANGED <<picker, listVars>>

\* Nobody is told.
Fail(c) ==
  /\ refDialog # None /\ loads[c] # None
  /\ loads' = [loads EXCEPT ![c] = None]
  /\ Notes(FALSE, None, None)
  /\ UNCHANGED <<picker, listVars, refDialog>>

Closes ==
  /\ refDialog' = None /\ loads' = [c \in 1..MaxLoads |-> None]
  /\ from' = None /\ source' = None /\ hasty' = FALSE /\ swapped' = FALSE
  /\ UNCHANGED <<picker, alert, seeks>>

SaveRef ==
  /\ refDialog # None /\ Closes
  /\ refs' = IF ~checkValue(refDialog.ref) THEN refs
             ELSE IF refDialog.at > Len(refDialog.refs) THEN Append(refDialog.refs, refDialog.ref)
             ELSE [refDialog.refs EXCEPT ![refDialog.at] = refDialog.ref]

\* The handler is given what its list has, or nothing complete, and returns.
Cancel == refDialog # None /\ Closes /\ UNCHANGED refs

PickerInit ==
  /\ picker \in Pickers
  /\ refs \in Given /\ alert = None /\ seeks = TRUE /\ swapped = FALSE
  /\ refDialog = None /\ loads = [c \in 1..MaxLoads |-> None]
  /\ from = None /\ source = None /\ hasty = FALSE

PickerNext ==
  \/ \E given \in Given \cup {refs} : Reset(given)
  \/ Add
  \/ \E i \in DOMAIN refs : Edit(i) \/ Drop(i)
  \/ \E flag \in BOOLEAN : Confirm(flag)
  \/ \E ns \in Shown : PickNamespace(ns)
  \/ \E kind \in picker.kinds : PickKind(kind)
  \/ \E name \in Names : PickName(name)
  \/ \E c \in 1..MaxLoads : Fail(c) \/ \E answer \in SUBSET Names : NamesAnswered(c, answer)
  \/ SaveRef \/ Cancel

PickerSpec == PickerInit /\ [][PickerNext]_pickerVars

-----------------------------------------------------------------------------
(***************************************************************************)
(* Properties.                                                             *)
(***************************************************************************)

Captured == IF refDialog # None THEN refDialog.refs ELSE alert.refs

\* A form that takes one reference has one at most, and so has what its clicks captured.
PickerTypeOK ==
  LET Lists == Seq(Refs)  space == IF picker.multiple THEN MaxRefs ELSE 1 IN
  /\ picker \in AllPickers /\ refs \in Lists /\ Len(refs) <= space
  /\ seeks \in BOOLEAN /\ swapped \in BOOLEAN
  /\ loads \in [1..MaxLoads -> Drafts \cup {None}]
  /\ refDialog # None => refDialog \in Dialogs /\ refDialog.at <= Len(refDialog.refs) + 1
  /\ alert # None => alert \in Alerts /\ refDialog = None /\ alert.at \in DOMAIN alert.refs
  /\ ~Idle => Captured \in Lists /\ Len(Captured) <= space
  /\ hasty => from = None /\ source = None

\* A list that came with distinct references keeps to distinct ones, whatever is edited
\* into it, and into whichever list the form was given meanwhile: what is picked is
\* compared with the list that it is then put into.
NoRefTwice == IsInjective(refs)

\* What a click captured is the form's list, unless the form was given another below.
ListIsCurrent == ~Idle /\ ~swapped => Captured = refs

\* What the closing of a dialog or an alert puts in the form's list is a reference that
\* the server answered it has, for the namespace and kind saved, when the user waited for
\* each answer and none failed; else it has the name the dialog was opened with.  If the
\* form was given another list below, the rest of the list captured comes back with it.
PutsOffered ==
  ~Idle /\ Idle' =>
    \A ref \in Range(refs') \ Range(refs) :
      \/ swapped /\ ref \in Range(Captured)
      \/ /\ refDialog # None /\ ref = refDialog.ref
         /\ \/ source = [ref EXCEPT !.name = ""]
            \/ hasty \/ UnderWay # {} \/ ref.name = refDialog.opened.name
===============================================================================
