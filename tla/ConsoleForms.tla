---------------------------- MODULE ConsoleForms ----------------------------
(***************************************************************************)
(* The forms of the console that edit a list: the statements of a policy,  *)
(* and the references of a binding, of a secret and of an assumed role.    *)
(* The route says which page is mounted, and with it which form; leaving   *)
(* the page drops the form and whatever is answered to it later, so that   *)
(* the next page begins as this one did.                                   *)
(***************************************************************************)
EXTENDS RefPicker, PolicyEditor

CONSTANT Routes  \* of the pages mounted

VARIABLE route

picking == <<picker, refs, refDialog, alert, seeks, loads, from, source, hasty, swapped>>
editing == <<listed, asked, editor, statements, expanded, dialog, tags, saves, acts, late>>

\* The lists of references each page has; the page of policies has statements.
PickersOf ==
  [at \in Routes |->
     CASE at = "/iam/groupbinding" -> {GroupPicker, GroupSubjects}
       [] at = "/iam/policybinding" -> {PolicyPicker, PolicySubjects}
       [] at = "/iam/secret" -> {AccountPicker}
       [] at = "/sts/assume" -> {RolePicker}
       [] at = "/iam/policy" -> {}]

Picks == PickersOf[route] # {}

NotPicking ==
  /\ picker = None /\ refs = None /\ refDialog = None /\ loads = None
  /\ alert = None /\ seeks = None /\ from = None /\ source = None /\ hasty = None /\ swapped = None
NotEditing ==
  /\ listed = None /\ asked = None /\ editor = None /\ statements = None /\ expanded = None
  /\ dialog = None /\ tags = None /\ saves = None /\ acts = None /\ late = None

FormsInit ==
  /\ route \in Routes
  /\ IF Picks
       THEN PickerInit /\ picker \in PickersOf[route] /\ NotEditing
       ELSE PolicyInit /\ NotPicking

FormsNext ==
  /\ UNCHANGED route
  /\ \/ Picks /\ PickerNext /\ UNCHANGED editing
     \/ ~Picks /\ PolicyNext /\ UNCHANGED picking

formsVars == <<route, picking, editing>>

FormsSpec == FormsInit /\ [][FormsNext]_formsVars

-----------------------------------------------------------------------------
(***************************************************************************)
(* The properties of the form that is mounted; they are stated where it is *)
(* modelled.                                                               *)
(***************************************************************************)
\* The form that is mounted has its type.
FormsTypeOK == route \in Routes /\ IF Picks THEN PickerTypeOK ELSE PolicyTypeOK

\* A list of references that came with distinct ones keeps to distinct ones.
RefsDistinct == Picks => NoRefTwice

\* What a dialog puts in the form's list was offered to a user who waits, or was in the
\* list it captured and the form was given another.
PickedWasOffered == [][Picks => PutsOffered]_picking

\* What the handler of a dialog captured, a list or a statement, is what it replaces.
CapturedIsCurrent == IF Picks THEN ListIsCurrent ELSE DialogIsCurrent

\* The form of a policy holds statements of that policy.
StatementsAreOwn == ~Picks => FormIsOwn

\* A dialog of a statement edits one field of it, one entry of a list, the tags of one
\* resource.
DialogEditsOne == [][~Picks => EditsOne]_editing
=============================================================================
