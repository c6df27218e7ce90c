---------------------------- MODULE PolicyEditor ----------------------------
(***************************************************************************)
(* The statements of the console's policy form, and the dialogs that edit  *)
(* them.                                                                   *)
(*                                                                         *)
(* The form renders a PolicyStatementForm per statement.  A dialog is      *)
(* opened by a handler that has captured the statement of its rendering;   *)
(* when it closes, the handler builds a new statement from the captured    *)
(* one and puts it where the old one was.  A dialog covers the form, but   *)
(* not the page's promises: what the URL asks for may be found, and the    *)
(* answer to a save may come, while one is open.                           *)
(*                                                                         *)
(* Tags are an object of the heap, which the dialog of a resource writes   *)
(* in place.                                                               *)
(***************************************************************************)
EXTENDS ConsoleKinds, Integers, SequencesExt

CONSTANTS
  Items,          \* the policies the page has loaded
  LoadOf,         \* item -> the load of the page's list it is from, in 1..Loads
  Loads,          \* bound on the loads
  Queries,        \* what the URL may ask for: [policy, readOnly]
  PolicyOf,       \* item -> the policy it is a copy of
  Stored,         \* item -> its statements
  StoredTags,     \* tags that came with the items -> the object
  Words,          \* actions, names and values of parameters
  TypedRefs,      \* references a dialog may hold ...
  Incomplete,     \* ... and those of them that lack a part
  Keys,           \* of conditions
  TagKeys,
  Fields,         \* those the user edits
  MaxStatements, MaxEntries, MaxTags, MaxTaggings, MaxSaves, MaxActs   \* bounds

VARIABLES
  listed,      \* the load the page shows
  asked,       \* [policy, readOnly] of the URL while it is looked for, or None
  editor,      \* [item, open, readOnly]
  statements,  \* the form's
  expanded,    \* the statement unfolded, or 0
  dialog,      \* [i, st, field, op, at, tags, taggings], see Ask; or None
  tags,        \* the heap: 1..MaxTags -> a function of the keys, or None
  saves,       \* calls under way
  acts,
  late         \* history: the form was reset under a dialog, and not since without one

page == <<listed, asked, saves>>
form == <<editor, statements, expanded, late>>
policyVars == <<page, form, dialog, tags, acts>>

WordFields == {"actions", "notActions"}
RefFields == {"principals", "notPrincipals"}
ResourceFields == {"resources", "notResources"}
ListFields == WordFields \cup RefFields \cup ResourceFields

Nothing == [k \in {} |-> << >>]
Put(f, k, v) == [x \in DOMAIN f \cup {k} |-> IF x = k THEN v ELSE f[x]]
Omit(f, k) == Restrict(f, DOMAIN f \ {k})

\* "of" is history: the policy the statement was made in.
BlankStatement(policy) ==
  [of |-> policy, effect |-> "Allow", priority |-> 0, condition |-> Nothing,
   actions |-> << >>, notActions |-> << >>, principals |-> << >>, notPrincipals |-> << >>,
   resources |-> << >>, notResources |-> << >>]

\* A place of the form's list that was skipped: it has none of the fields.
Hole == Nothing

IsList(list) == Len(list) \in Nat /\ list = [n \in 1..Len(list) |-> list[n]]
IsStatement(st) ==
  /\ st = [field \in DOMAIN BlankStatement("") |-> st[field]]
  /\ \A field \in ListFields : IsList(st[field])

\* No two resources of a list of statements hold the same tags.
TagsAreOwn(list) ==
  \A i, j \in {k \in DOMAIN list : list[k] # Hole}, f, g \in ResourceFields :
    \A n \in DOMAIN list[i][f], m \in DOMAIN list[j][g] :
      list[i][f][n].tags # None /\ list[i][f][n].tags = list[j][g][m].tags => i = j /\ f = g /\ n = m

\* What the page loads are lists of statements of their policies, each with tags of its
\* own, as parsing makes them.
ASSUME StoredAssumption ==
  \A item \in Items :
    /\ IsList(Stored[item]) /\ Len(Stored[item]) <= MaxStatements /\ TagsAreOwn(Stored[item])
    /\ \A i \in DOMAIN Stored[item] :
         /\ IsStatement(Stored[item][i]) /\ Stored[item][i].of = PolicyOf[item]
         /\ \A field \in ResourceFields : \A n \in DOMAIN Stored[item][i][field] :
              Stored[item][i][field][n].tags \in DOMAIN StoredTags \cup {None}

\* The objects tags are.
TagValues == Words \cup {""} \cup UNION {{StoredTags[t][key] : key \in DOMAIN StoredTags[t]} : t \in DOMAIN StoredTags}
TagObjects == UNION {[keys -> TagValues] : keys \in SUBSET (TagKeys \cup {""})}

ASSUME TagsAssumption ==
  /\ DOMAIN StoredTags \subseteq 1..MaxTags
  /\ \A t \in DOMAIN StoredTags : StoredTags[t] \in TagObjects
ASSUME PolicyNoneAssumption == None \notin TagObjects \cup Items \cup Queries \cup 1..MaxTags
ASSUME QueriesAssumption == \A query \in Queries : query.readOnly \in BOOLEAN
ASSUME FieldsAssumption == Fields \subseteq ListFields \cup {"condition"}
ASSUME PolicyBoundsAssumption ==
  /\ Loads \in Nat \ {0} /\ MaxStatements \in Nat \ {0} /\ MaxTags \in Nat
  /\ MaxSaves \in Nat /\ MaxActs \in Nat

\* What _.isEqual compares: tags by what they hold.
Content(item) ==
  LET Tagged(list) == [n \in DOMAIN list |->
        [ref |-> list[n].ref, tags |-> IF list[n].tags = None THEN None ELSE tags[list[n].tags]]]
  IN <<PolicyOf[item],
       [i \in DOMAIN Stored[item] |->
          [Stored[item][i] EXCEPT !.resources = Tagged(@), !.notResources = Tagged(@)]]>>

-----------------------------------------------------------------------------
(***************************************************************************)
(* The page.                                                               *)
(***************************************************************************)
Rows == {item \in Items : LoadOf[item] = listed}

\* Mutant: a form that is shown again keeps what it holds.
PresentOnly(item, readOnly) ==
  /\ editor' = [item |-> item, open |-> TRUE, readOnly |-> readOnly]
  /\ statements' = IF editor.item = None THEN Stored[item] ELSE statements
  /\ UNCHANGED <<late, expanded>>

\* The form lives on while it is closed, and is reset only to a value that differs.
Present(item, readOnly) ==
  LET same == editor.item # None /\ Content(editor.item) = Content(item) IN
  /\ editor' = [item |-> item, open |-> TRUE, readOnly |-> readOnly]
  /\ statements' = IF same THEN statements ELSE Stored[item]
  /\ late' = IF same THEN late ELSE dialog # None
  /\ UNCHANGED expanded

Open(item, readOnly) ==
  /\ ~editor.open /\ dialog = None
  /\ Present(item, readOnly)
  /\ UNCHANGED <<page, dialog, tags, acts>>

\* The load the URL waits for is over: neither a form nor a dialog keeps it back.
Find ==
  /\ asked # None /\ asked' = None
  /\ LET found == {item \in Rows : PolicyOf[item] = asked.policy} IN
     \/ \E item \in found : Present(item, asked.readOnly)
     \/ found = {} /\ UNCHANGED form
  /\ UNCHANGED <<listed, saves, dialog, tags, acts>>

\* Another load of the list is answered: its items are other objects.
Reload ==
  /\ listed < Loads /\ listed' = listed + 1
  /\ UNCHANGED <<asked, saves, form, dialog, tags, acts>>

Close ==
  /\ editor.open /\ dialog = None
  /\ editor' = [editor EXCEPT !.open = FALSE]
  /\ UNCHANGED <<page, statements, expanded, late, dialog, tags, acts>>

Distinct(list) == IsInjective(list)
RefsOf(list) == [n \in DOMAIN list |-> list[n].ref]

\* What the page's schema accepts: no holes, an effect, a priority above 0, and entries
\* that are complete and distinct.
Valid(st) ==
  /\ st # Hole
  /\ st.effect # None /\ st.priority > 0
  /\ \A f \in WordFields : Distinct(st[f])
  /\ \A f \in RefFields : Distinct(st[f]) /\ Range(st[f]) \cap Incomplete = {}
  /\ \A f \in ResourceFields :
       Distinct(RefsOf(st[f])) /\ Range(RefsOf(st[f])) \cap Incomplete = {}
  /\ \A key \in DOMAIN st.condition : \A param \in DOMAIN st.condition[key] :
       Distinct(st.condition[key][param])

Save ==
  /\ editor.open /\ ~editor.readOnly /\ dialog = None
  /\ \A i \in DOMAIN statements : Valid(statements[i])
  /\ saves < MaxSaves /\ saves' = saves + 1
  /\ UNCHANGED <<listed, asked, form, dialog, tags, acts>>

\* Mutant: the form is emptied when it closes.
AnswerSaveAfresh(saved) ==
  /\ saves > 0 /\ saves' = saves - 1
  /\ editor' = IF saved THEN [editor EXCEPT !.open = FALSE] ELSE editor
  /\ statements' = IF saved THEN << >> ELSE statements
  /\ UNCHANGED <<listed, asked, expanded, late, dialog, tags, acts>>

\* Whatever form is open by then is closed, also below a dialog.
AnswerSave(saved) ==
  /\ saves > 0 /\ saves' = saves - 1
  /\ editor' = IF saved THEN [editor EXCEPT !.open = FALSE] ELSE editor
  /\ UNCHANGED <<listed, asked, statements, expanded, late, dialog, tags, acts>>

-----------------------------------------------------------------------------
(***************************************************************************)
(* The form.                                                               *)
(***************************************************************************)
Act == acts < MaxActs /\ acts' = acts + 1
Edits == editor.open /\ ~editor.readOnly /\ dialog = None /\ Act

StatementsOnly == UNCHANGED <<page, editor, late, dialog, tags>>

AddStatement ==
  /\ Edits /\ Len(statements) < MaxStatements
  /\ statements' = Append(statements, BlankStatement(PolicyOf[editor.item]))
  /\ UNCHANGED expanded /\ StatementsOnly

Toggled(i) == IF expanded = i THEN 0 ELSE i

\* The statements after it go, too; and the click is also one on the summary.
DeleteStatement(i) ==
  /\ Edits
  /\ statements' = SubSeq(statements, 1, i - 1)
  /\ expanded' = Toggled(i)
  /\ StatementsOnly

Toggle(i) ==
  /\ editor.open /\ dialog = None
  /\ expanded' = Toggled(i)
  /\ UNCHANGED <<page, editor, statements, late, dialog, tags, acts>>

\* A place past the end is reached over holes.
onChange(i, st) ==
  LET length == IF i > Len(statements) THEN i ELSE Len(statements) IN
  statements' = [n \in 1..length |->
                   IF n = i THEN st ELSE IF n <= Len(statements) THEN statements[n] ELSE Hole]

\* Only the fields of the statement unfolded are within reach.
Unfolded == expanded \in DOMAIN statements /\ statements[expanded] # Hole
Current == statements[expanded]

SetPriority(priority) ==
  /\ Edits /\ Unfolded
  /\ onChange(expanded, [Current EXCEPT !.priority = priority])
  /\ UNCHANGED expanded /\ StatementsOnly

\* The button that is down goes up, and leaves no effect.
SetEffect(effect) ==
  /\ Edits /\ Unfolded
  /\ onChange(expanded, [Current EXCEPT !.effect = IF @ = effect THEN None ELSE effect])
  /\ UNCHANGED expanded /\ StatementsOnly

-----------------------------------------------------------------------------
(***************************************************************************)
(* Dialogs: what each puts in place of the field it was opened for; None   *)
(* if its handler returns early.                                           *)
(***************************************************************************)
\* op is what the dialog does to the field, and at where: a place in the list, a key and
\* a parameter; tags is the object a ResourceEditor holds.
Ask(field, op, at, held) ==
  /\ Edits /\ Unfolded /\ field \in Fields
  /\ dialog' = [i |-> expanded, st |-> Current, field |-> field, op |-> op, at |-> at,
                 tags |-> held, taggings |-> 0]
  /\ UNCHANGED <<page, form>>

\* Prompt: both the button and a click beside it deliver what is typed, perhaps nothing.
WordAnswers(list, d) ==
  IF d.op = "add" THEN {Append(list, word) : word \in Words} \cup {None}
                  ELSE {RemoveAt(list, d.at[1]), None}

\* A new principal is dropped unless it is complete.
PrincipalAnswers(list) == {Append(list, ref) : ref \in TypedRefs \ Incomplete} \cup {None}

\* One that is edited is put back as it was typed, or as it was; Mutant: splice(i).
RefListSplices(list, d) ==
  IF d.op = "edit" THEN {ReplaceAt(list, d.at[1], ref) : ref \in TypedRefs} \cup {list}
                   ELSE {SubSeq(list, 1, d.at[1] - 1), None}

RefListAnswers(list, d) ==
  IF d.op = "edit" THEN {ReplaceAt(list, d.at[1], ref) : ref \in TypedRefs} \cup {list}
                   ELSE {RemoveAt(list, d.at[1]), None}

Resource(ref, held) == [ref |-> ref, tags |-> held]

ResourceAnswers(list, d) ==
  {Append(list, Resource(ref, d.tags)) : ref \in TypedRefs \ Incomplete} \cup {None}

ResourceListAnswers(list, d) ==
  IF d.op = "edit" THEN {ReplaceAt(list, d.at[1], Resource(ref, d.tags)) : ref \in TypedRefs} \cup {list}
                   ELSE {RemoveAt(list, d.at[1]), None}

\* Only keys that are not used yet are offered.
KeyAnswers(condition) == {Put(condition, key, Nothing) : key \in Keys \ DOMAIN condition} \cup {None}

\* A parameter added again begins anew.
ConditionAnswers(condition, d) ==
  LET key == d.at[1]
      param == d.at[2]
      params == condition[key]
      With(new) == Put(condition, key, new)
  IN
  CASE d.op = "removeKey" -> {Omit(condition, key), None}
    [] d.op = "addParam" -> {With(Put(params, word, << >>)) : word \in Words} \cup {None}
    [] d.op = "removeParam" -> {With(Omit(params, param)), None}
    [] d.op = "addValue" -> {With(Put(params, param, Append(params[param], word))) : word \in Words} \cup {None}
    [] d.op = "removeValue" -> {With(Put(params, param, RemoveAt(params[param], d.at[3]))), None}

Answers(d) ==
  LET old == d.st[d.field] IN
  IF d.field \in WordFields THEN WordAnswers(old, d)
  ELSE IF d.field \in RefFields THEN IF d.op = "add" THEN PrincipalAnswers(old) ELSE RefListAnswers(old, d)
  ELSE IF d.field \in ResourceFields THEN IF d.op = "add" THEN ResourceAnswers(old, d) ELSE ResourceListAnswers(old, d)
  ELSE IF d.op = "addKey" THEN KeyAnswers(old) ELSE ConditionAnswers(old, d)

\* The statement put is the one captured, with its field anew.
Answer(new) ==
  /\ dialog' = None
  /\ IF new = None THEN UNCHANGED statements
                   ELSE onChange(dialog.i, [dialog.st EXCEPT ![dialog.field] = new])
  /\ UNCHANGED <<page, editor, expanded, late, tags, acts>>

Room(list) == Len(list) < MaxEntries

AskAdd(field) ==
  /\ field \notin ResourceFields /\ Room(Current[field])
  /\ Ask(field, "add", << >>, None) /\ UNCHANGED tags

AskRemove(field, n) == n \in DOMAIN Current[field] /\ Ask(field, "remove", <<n>>, None) /\ UNCHANGED tags

AskEdit(n) ==
  \E field \in RefFields :
    n \in DOMAIN Current[field] /\ Ask(field, "edit", <<n>>, None) /\ UNCHANGED tags

AskCondition(op, at) == Ask("condition", op, at, None) /\ UNCHANGED tags

\* The controls of the conditions: of each key, of each parameter, of each value.
AskKey ==
  \/ AskCondition("addKey", << >>)
  \/ \E key \in DOMAIN Current.condition :
       AskCondition("removeKey", <<key>>) \/ AskCondition("addParam", <<key>>)

AskParam ==
  \E key \in DOMAIN Current.condition : \E param \in DOMAIN Current.condition[key] :
    LET values == Current.condition[key][param] IN
    \/ AskCondition("removeParam", <<key, param>>)
    \/ Room(values) /\ AskCondition("addValue", <<key, param>>)
    \/ \E n \in DOMAIN values : AskCondition("removeValue", <<key, param, n>>)

-----------------------------------------------------------------------------
(***************************************************************************)
(* The dialog of a resource and its tags.                                  *)
(***************************************************************************)
Free == {t \in 1..MaxTags : tags[t] = None}
Fresh == CHOOSE t \in Free : TRUE

\* Mutant: resources without tags get one object between them.
HoldDefault(field, op, at) ==
  LET held == IF op = "add" THEN None ELSE Current[field][at[1]].tags
      own == IF held = None THEN MaxTags ELSE held
  IN
  /\ Ask(field, op, at, own)
  /\ tags' = IF tags[own] = None THEN [tags EXCEPT ![own] = Nothing] ELSE tags

\* A resource without tags gets an object of its own.
Hold(field, op, at) ==
  LET held == IF op = "add" THEN None ELSE Current[field][at[1]].tags IN
  IF held # None
    THEN Ask(field, op, at, held) /\ UNCHANGED tags
    ELSE Free # {} /\ Ask(field, op, at, Fresh) /\ tags' = [tags EXCEPT ![Fresh] = Nothing]

AskResource(field) ==
  \/ Room(Current[field]) /\ Hold(field, "add", << >>)
  \/ \E n \in DOMAIN Current[field] : Hold(field, "edit", <<n>>)

\* The object is put in its state; taggings counts, for the bound.
Tagging(held) ==
  /\ dialog.taggings < MaxTaggings
  /\ dialog' = [dialog EXCEPT !.tags = held, !.taggings = @ + 1]
  /\ UNCHANGED <<page, form, acts>>
Held == tags[dialog.tags]
InPlace(key, value) ==
  Tagging(dialog.tags) /\ tags' = [tags EXCEPT ![dialog.tags] = Put(Held, key, value)]

\* In place: whoever shares the object sees it, and closing the dialog does not undo it.
EditTag(key, value) == key \in DOMAIN Held /\ InPlace(key, value)

\* Cancelled, the dialog of the tag delivers an empty key and value.
AddTag(key, value) == key \notin DOMAIN Held /\ InPlace(key, value)

DeleteTag(key) ==
  /\ key \in DOMAIN Held /\ Free # {}
  /\ Tagging(Fresh) /\ tags' = [tags EXCEPT ![Fresh] = Omit(Held, key)]

-----------------------------------------------------------------------------
PolicyInit ==
  /\ listed = 1 /\ saves = 0 /\ acts = 0 /\ late = FALSE
  /\ asked \in Queries \cup {None}
  /\ editor = [item |-> None, open |-> FALSE, readOnly |-> FALSE]
  /\ statements = << >> /\ expanded = 1 /\ dialog = None
  /\ tags = [t \in 1..MaxTags |-> IF t \in DOMAIN StoredTags THEN StoredTags[t] ELSE None]

AsksList ==
  /\ dialog = None /\ Unfolded
  /\ \E field \in Fields \cap ListFields :
       \/ AskAdd(field)
       \/ \E n \in 1..MaxEntries : AskRemove(field, n)

AsksRef ==
  /\ dialog = None /\ Unfolded
  /\ \/ \E n \in 1..MaxEntries : AskEdit(n)
     \/ \E field \in Fields \cap ResourceFields : AskResource(field)

AsksCondition == dialog = None /\ Unfolded /\ (AskKey \/ AskParam)

Answered == dialog # None /\ \E new \in Answers(dialog) : Answer(new)

EditsTags ==
  dialog # None /\ dialog.tags # None /\
  (\/ \E key \in TagKeys, value \in Words : EditTag(key, value) \/ AddTag(key, value)
   \/ AddTag("", "")
   \/ \E key \in TagKeys \cup {""} : DeleteTag(key))

EditsStatements ==
  \/ AddStatement
  \/ \E i \in DOMAIN statements : DeleteStatement(i) \/ Toggle(i)
  \/ \E priority \in {0, 1} : SetPriority(priority)
  \/ \E effect \in {"Allow", "Deny"} : SetEffect(effect)

PolicyNext ==
  \/ \E item \in Rows, readOnly \in BOOLEAN : Open(item, readOnly)
  \/ Find \/ Reload \/ Close \/ Save
  \/ \E saved \in BOOLEAN : AnswerSave(saved)
  \/ EditsStatements
  \/ AsksList \/ AsksRef \/ AsksCondition \/ Answered \/ EditsTags

PolicySpec == PolicyInit /\ [][PolicyNext]_policyVars

-----------------------------------------------------------------------------
Statements == {i \in DOMAIN statements : statements[i] # Hole}
Resources(i, field) == DOMAIN statements[i][field]

(***************************************************************************)
(* Type correctness: a form holds statements, without holes unless it was  *)
(* reset under a dialog, and tags that are there.                          *)
(***************************************************************************)
PolicyTypeOK ==
  /\ listed \in 1..Loads /\ saves \in 0..MaxSaves /\ acts \in 0..MaxActs /\ late \in BOOLEAN
  /\ editor.item \in Items \cup {None} /\ editor.open \in BOOLEAN /\ editor.readOnly \in BOOLEAN
  /\ expanded \in 0..MaxStatements
  /\ Len(statements) <= MaxStatements
  /\ \A i \in DOMAIN statements : statements[i] = Hole => late
  /\ \A i \in Statements :
       /\ IsStatement(statements[i])
       /\ \A field \in ResourceFields : \A n \in Resources(i, field) :
            LET held == statements[i][field][n].tags IN held # None => tags[held] # None

(***************************************************************************)
(* A dialog was opened for a statement that is still there as it was: what *)
(* its handler captured is what it replaces, so closing it undoes no other *)
(* edit.  Nothing in the handlers sees to it; it rests on the dialog       *)
(* covering the form, and on no promise of the page touching the form's    *)
(* statements but the one for what the URL asked.                          *)
(***************************************************************************)
DialogIsCurrent ==
  dialog # None /\ ~late => dialog.i \in DOMAIN statements /\ statements[dialog.i] = dialog.st

(***************************************************************************)
(* The form of a policy shows, and would save, statements of that policy   *)
(* only: none is left of the one shown before, and no dialog puts back one *)
(* it captured there, unless the form was reset below it.                  *)
(***************************************************************************)
FormIsOwn ==
  editor.item # None /\ ~late => \A i \in Statements : statements[i].of = PolicyOf[editor.item]

\* One entry is added, removed or changed, at most.
OneEntry(old, new) ==
  \/ old = new
  \/ \E n \in DOMAIN new : RemoveAt(new, n) = old
  \/ \E n \in DOMAIN old : RemoveAt(old, n) = new
  \/ \E n \in DOMAIN old \cap DOMAIN new : RemoveAt(old, n) = RemoveAt(new, n)

\* Closed, a dialog edits the field it was opened for.
ClosesOne ==
  dialog # None /\ dialog' = None =>
    LET i == dialog.i
        field == dialog.field
        old == statements[i]
        new == statements'[i]
    IN /\ statements' = [statements EXCEPT ![i] = new]
       /\ new = [old EXCEPT ![field] = new[field]]
       /\ field \in ListFields => OneEntry(old[field], new[field])

\* Where a dialog is; and what of the form has its tags edited in place by a step.
Place ==
  IF dialog # None /\ dialog.op = "edit" THEN {<<dialog.i, dialog.field, dialog.at[1]>>} ELSE {}
Retags(i, field, n) == LET held == statements[i][field][n].tags IN held # None /\ tags'[held] # tags[held]
TagsPlace ==
  \A i \in Statements, field \in ResourceFields : \A n \in Resources(i, field) :
    Retags(i, field, n) => <<i, field, n>> \in Place

(***************************************************************************)
(* A dialog edits one thing: closed, one field of the statement it was     *)
(* opened for and no other statement, and in a list one entry at most;     *)
(* meanwhile the tags of the resource it is for, which no other shares.    *)
(***************************************************************************)
EditsOne == ~late => ClosesOne /\ TagsPlace
=============================================================================
