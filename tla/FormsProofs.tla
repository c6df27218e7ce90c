----------------------------- MODULE FormsProofs -----------------------------
(***************************************************************************)
(* Proofs about the forms of the console that edit lists: for any lists of *)
(* references, and any policies with any statements, whatever the calls of *)
(* the dialogs and of the page are answered and when.                      *)
(***************************************************************************)
EXTENDS ConsoleForms, SequenceTheorems, TLAPS

-----------------------------------------------------------------------------
(***************************************************************************)
(* The list of references: what is known of it and of its dialog.          *)
(***************************************************************************)
Space == IF picker.multiple THEN MaxRefs ELSE 1
PickedRefs == {ref \in Drafts : ref.kind \in picker.kinds \cup {""}}

\* A list that a form of this kind has: its references are distinct.
IsListed(l) == l \in Seq(Refs) /\ Len(l) <= Space /\ IsInjective(l)

PickerTyped ==
  /\ picker \in AllPickers /\ IsListed(refs) /\ seeks \in BOOLEAN /\ swapped \in BOOLEAN
  /\ loads \in [1..MaxLoads -> Drafts \cup {None}]
  /\ hasty \in BOOLEAN /\ (hasty => from = None /\ source = None)
  /\ refDialog = None => UnderWay = {}
  /\ refDialog # None =>
       /\ refDialog \in Dialogs /\ alert = None
       /\ IsListed(refDialog.refs) /\ refDialog.at <= Len(refDialog.refs) + 1
       /\ refDialog.opened \in PickedRefs /\ refDialog.ref \in PickedRefs
       /\ refDialog.at > Len(refDialog.refs) => Len(refDialog.refs) < Space
  /\ alert # None =>
       alert \in Alerts /\ IsListed(alert.refs) /\ alert.at \in DOMAIN alert.refs

\* What a call asks for what is picked.
AskedFor == [refDialog.ref EXCEPT !.name = ""]
AsOpened == refDialog.ref.name \in {"", refDialog.opened.name}

\* With patience there is one call at a time, and it asks for what is picked; a name picked
\* was answered by the call for the namespace and the kind picked, or was there before.
PickedFits ==
  refDialog # None /\ ~hasty =>
    /\ \A c, d \in UnderWay : c = d
    /\ \A c \in UnderWay : loads[c] = AskedFor
    /\ UnderWay # {} => AsOpened
    /\ UnderWay = {} /\ refDialog.ref.kind # "" => from = AskedFor /\ (AsOpened \/ source = AskedFor)

PickerIInv == PickerTyped /\ ListIsCurrent /\ PickedFits

-----------------------------------------------------------------------------
(***************************************************************************)
(* The statements of a policy: what is known of them and of their dialog.  *)
(***************************************************************************)
PageTyped ==
  /\ listed \in 1..Loads /\ saves \in 0..MaxSaves /\ acts \in 0..MaxActs /\ late \in BOOLEAN
  /\ asked \in Queries \cup {None}
  /\ editor = [item |-> editor.item, open |-> editor.open, readOnly |-> editor.readOnly]
  /\ editor.item \in Items \cup {None} /\ editor.open \in BOOLEAN /\ editor.readOnly \in BOOLEAN
  /\ editor.open => editor.item # None
  /\ expanded \in 0..MaxStatements

StatementsTyped ==
  /\ IsList(statements) /\ Len(statements) <= MaxStatements
  /\ \A i \in DOMAIN statements : IF statements[i] = Hole THEN late ELSE IsStatement(statements[i])

TagsTyped ==
  /\ tags \in [1..MaxTags -> TagObjects \cup {None}]
  /\ \A t \in DOMAIN StoredTags : tags[t] # None

\* The tags a statement holds are there.
HoldsTags(st) ==
  \A field \in ResourceFields : \A n \in DOMAIN st[field] :
    st[field][n].tags # None => st[field][n].tags \in 1..MaxTags /\ tags[st[field][n].tags] # None

StatementsHold == \A i \in Statements : HoldsTags(statements[i])

\* A dialog is for a field of the statement it captured, and an entry of its list.
DialogFits ==
  dialog # None =>
    /\ dialog = [i |-> dialog.i, st |-> dialog.st, field |-> dialog.field, op |-> dialog.op, at |-> dialog.at,
                 tags |-> dialog.tags, taggings |-> dialog.taggings]
    /\ dialog.i \in 1..MaxStatements /\ dialog.field \in Fields
    /\ IsStatement(dialog.st) /\ HoldsTags(dialog.st)
    /\ dialog.field \in ListFields =>
         /\ dialog.op \in {"add", "remove", "edit"}
         /\ dialog.op # "add" => dialog.at[1] \in DOMAIN dialog.st[dialog.field]
    /\ dialog.field \in WordFields => dialog.op # "edit"
    /\ dialog.tags # None => /\ dialog.field \in ResourceFields /\ dialog.op # "remove"
                             /\ dialog.tags \in 1..MaxTags /\ tags[dialog.tags] # None
    /\ dialog.field \in ResourceFields /\ dialog.op # "remove" => dialog.tags # None

\* No resource holds the tags of a dialog but the one it is for.
DialogTagsAreOwn ==
  dialog # None /\ dialog.tags # None =>
    \A i \in Statements, field \in ResourceFields : \A n \in DOMAIN statements[i][field] :
      statements[i][field][n].tags = dialog.tags =>
        dialog.op = "edit" /\ i = dialog.i /\ field = dialog.field /\ n = dialog.at[1]

TagsFit == ~late => TagsAreOwn(statements) /\ DialogTagsAreOwn

PolicyIInv ==
  /\ PageTyped /\ StatementsTyped /\ TagsTyped /\ StatementsHold
  /\ DialogFits /\ DialogIsCurrent /\ FormIsOwn /\ TagsFit

-----------------------------------------------------------------------------
(***************************************************************************)
(* Lists.                                                                  *)
(***************************************************************************)

\* What taking an entry out of a list leaves.
LEMMA Removed ==
  ASSUME NEW S, NEW s \in Seq(S), NEW n \in 1..Len(s)
  PROVE  /\ RemoveAt(s, n) \in Seq(S) /\ Len(RemoveAt(s, n)) = Len(s) - 1
         /\ \A j \in 1..(Len(s) - 1) : RemoveAt(s, n)[j] = IF j < n THEN s[j] ELSE s[j + 1]
  <1> DEFINE a == SubSeq(s, 1, n - 1)
             b == SubSeq(s, n + 1, Len(s))
  <1>1. /\ a \in Seq(S) /\ Len(a) = n - 1
        /\ \A j \in 1..(n - 1) : a[j] = s[j]
    <2>1. \A j \in 1..(n - 1) : s[j] \in S OBVIOUS
    <2> QED BY <2>1, SubSeqProperties
  <1>2. /\ b \in Seq(S) /\ Len(b) = Len(s) - n
        /\ \A j \in 1..(Len(s) - n) : b[j] = s[n + j]
    <2>1. \A j \in (n + 1)..Len(s) : s[j] \in S OBVIOUS
    <2>2. /\ b \in Seq(S) /\ Len(b) = IF n + 1 <= Len(s) THEN Len(s) - (n + 1) + 1 ELSE 0
          /\ \A j \in 1..(Len(s) - (n + 1) + 1) : b[j] = s[(n + 1) + j - 1]
      BY <2>1, SubSeqProperties
    <2> HIDE DEF b
    <2>3. Len(b) = Len(s) - n BY <2>2
    <2>4. ASSUME NEW j \in 1..(Len(s) - n) PROVE b[j] = s[n + j]
      <3>1. (n + 1) + j - 1 = n + j /\ j \in 1..(Len(s) - (n + 1) + 1) OBVIOUS
      <3> QED BY <3>1, <2>2
    <2> QED BY <2>2, <2>3, <2>4
  <1>3. RemoveAt(s, n) = a \o b BY DEF RemoveAt
  <1> HIDE DEF a, b
  <1>4. /\ a \o b \in Seq(S) /\ Len(a \o b) = Len(a) + Len(b)
        /\ \A j \in 1..(Len(a) + Len(b)) : (a \o b)[j] = IF j <= Len(a) THEN a[j] ELSE b[j - Len(a)]
    BY <1>1, <1>2, ConcatProperties
  <1>5. ASSUME NEW j \in 1..(Len(s) - 1) PROVE (a \o b)[j] = IF j < n THEN s[j] ELSE s[j + 1]
    <2>0. j \in 1..(Len(a) + Len(b)) /\ (j < n <=> j <= Len(a)) BY <1>1, <1>2
    <2>1. CASE j < n
      <3>1. (a \o b)[j] = a[j] /\ j \in 1..(n - 1) BY <2>0, <2>1, <1>4
      <3> QED BY <2>1, <3>1, <1>1
    <2>2. CASE ~(j < n)
      <3>1. (a \o b)[j] = b[j - Len(a)] BY <2>0, <2>2, <1>4
      <3>2. j - Len(a) \in 1..(Len(s) - n) /\ n + (j - Len(a)) = j + 1 BY <2>2, <1>1
      <3>3. b[j - Len(a)] = s[n + (j - Len(a))] BY <3>2, <1>2
      <3> QED BY <2>2, <3>1, <3>2, <3>3
    <2> QED BY <2>1, <2>2
  <1>6. Len(a \o b) = Len(s) - 1 BY <1>1, <1>2, <1>4
  <1> QED BY <1>3, <1>4, <1>5, <1>6

\* A list is a sequence, of whatever is in it; and a sequence is a list.
LEMMA ListIsSeq ==
  ASSUME NEW l, IsList(l) PROVE l \in Seq(Range(l)) /\ DOMAIN l = 1..Len(l) /\ Len(l) \in Nat
  BY DEF IsList, Range

LEMMA SeqIsList ==
  ASSUME NEW S, NEW l \in Seq(S) PROVE IsList(l)
  BY DEF IsList

\* What is made of a list by taking an entry out, adding one, putting one in the place of
\* another, and cutting it short, is a list.
LEMMA RemovedList ==
  ASSUME NEW l, IsList(l), NEW n \in DOMAIN l
  PROVE  /\ IsList(RemoveAt(l, n)) /\ Len(RemoveAt(l, n)) = Len(l) - 1
         /\ \A j \in 1..(Len(l) - 1) : RemoveAt(l, n)[j] = IF j < n THEN l[j] ELSE l[j + 1]
  BY ListIsSeq, Removed, SeqIsList

LEMMA AppendedList ==
  ASSUME NEW l, IsList(l), NEW e
  PROVE  /\ IsList(Append(l, e)) /\ Len(Append(l, e)) = Len(l) + 1
         /\ \A j \in 1..Len(l) : Append(l, e)[j] = l[j]
         /\ Append(l, e)[Len(l) + 1] = e
  <1> DEFINE S == Range(l) \cup {e}
  <1>1. l \in Seq(S) /\ e \in S BY ListIsSeq
  <1> HIDE DEF S
  <1>2. /\ Append(l, e) \in Seq(S) /\ Len(Append(l, e)) = Len(l) + 1
        /\ \A j \in 1..Len(l) : Append(l, e)[j] = l[j]
        /\ Append(l, e)[Len(l) + 1] = e
    BY <1>1, AppendProperties
  <1> QED BY <1>2, SeqIsList

LEMMA ReplacedList ==
  ASSUME NEW l, IsList(l), NEW n \in DOMAIN l, NEW e
  PROVE  /\ IsList([l EXCEPT ![n] = e]) /\ Len([l EXCEPT ![n] = e]) = Len(l)
         /\ \A j \in 1..Len(l) : [l EXCEPT ![n] = e][j] = IF j = n THEN e ELSE l[j]
  <1> DEFINE S == Range(l) \cup {e}
  <1>1. l \in Seq(S) /\ e \in S /\ n \in 1..Len(l) BY ListIsSeq
  <1> HIDE DEF S
  <1>2. /\ [l EXCEPT ![n] = e] \in Seq(S) /\ Len([l EXCEPT ![n] = e]) = Len(l)
        /\ \A j \in 1..Len(l) : [l EXCEPT ![n] = e][j] = IF j = n THEN e ELSE l[j]
    BY <1>1, ExceptSeq
  <1> QED BY <1>2, SeqIsList

LEMMA CutList ==
  ASSUME NEW l, IsList(l), NEW n \in DOMAIN l
  PROVE  /\ IsList(SubSeq(l, 1, n - 1)) /\ Len(SubSeq(l, 1, n - 1)) = n - 1 /\ n - 1 <= Len(l)
         /\ \A j \in 1..(n - 1) : j \in DOMAIN l /\ SubSeq(l, 1, n - 1)[j] = l[j]
  <1>1. l \in Seq(Range(l)) /\ n \in 1..Len(l) /\ Len(l) \in Nat BY ListIsSeq
  <1>2. \A j \in 1..(n - 1) : l[j] \in Range(l) BY <1>1
  <1>3. /\ SubSeq(l, 1, n - 1) \in Seq(Range(l)) /\ Len(SubSeq(l, 1, n - 1)) = n - 1
        /\ \A j \in 1..(n - 1) : SubSeq(l, 1, n - 1)[j] = l[j]
    BY <1>1, <1>2, SubSeqProperties
  <1>4. IsList(SubSeq(l, 1, n - 1)) BY <1>3, SeqIsList
  <1>5. n - 1 <= Len(l) /\ \A j \in 1..(n - 1) : j \in DOMAIN l BY <1>1, ListIsSeq
  <1> QED BY <1>3, <1>4, <1>5

-----------------------------------------------------------------------------
(***************************************************************************)
(* The list of references: types.                                          *)
(***************************************************************************)

\* Every picker is one of those the pages have.
LEMMA PickerIs ==
  ASSUME picker \in AllPickers PROVE picker.multiple \in BOOLEAN /\ picker.kinds \subseteq RefKinds
  <1>1. ASSUME NEW p \in AllPickers PROVE p.multiple \in BOOLEAN
    <2>1. CASE p = GroupPicker BY <2>1 DEF GroupPicker
    <2>2. CASE p = GroupSubjects BY <2>2 DEF GroupSubjects
    <2>3. CASE p = PolicyPicker BY <2>3 DEF PolicyPicker
    <2>4. CASE p = PolicySubjects BY <2>4 DEF PolicySubjects
    <2>5. CASE p = AccountPicker BY <2>5 DEF AccountPicker
    <2>6. CASE p = RolePicker BY <2>6 DEF RolePicker
    <2> QED BY <2>1, <2>2, <2>3, <2>4, <2>5, <2>6 DEF AllPickers
  <1> QED BY <1>1 DEF RefKinds

\* A list holds complete references, which are drafts.
LEMMA ListedIs ==
  ASSUME picker \in AllPickers, NEW l, IsListed(l)
  PROVE  /\ Len(l) \in Nat /\ DOMAIN l = 1..Len(l) /\ l \in Seq(Drafts)
         /\ \A i \in DOMAIN l : l[i] \in Refs /\ l[i] \in PickedRefs
         /\ \A i \in DOMAIN l : i \in 1..MaxRefs
  <1>1. l \in Seq(Refs) /\ Len(l) \in Nat /\ DOMAIN l = 1..Len(l) /\ Len(l) <= Space BY DEF IsListed
  <1>2. picker.kinds \subseteq RefKinds BY PickerIs
  <1>3. \A ref \in Refs : ref \in PickedRefs /\ ref \in Drafts BY <1>2 DEF Refs, PickedRefs, Drafts
  <1>4. \A i \in DOMAIN l : l[i] \in Refs BY <1>1
  <1>5. l = [i \in 1..Len(l) |-> l[i]] /\ \A i \in 1..Len(l) : l[i] \in Drafts BY <1>1, <1>3, <1>4
  <1> HIDE DEF Drafts
  <1>6. l \in Seq(Drafts) BY <1>1, <1>5
  <1>7. Space \in Nat /\ Space <= MaxRefs BY PickerBoundsAssumption DEF Space
  <1>8. \A i \in DOMAIN l : i \in 1..MaxRefs BY <1>1, <1>7, PickerBoundsAssumption
  <1> QED BY <1>1, <1>3, <1>4, <1>6, <1>8

\* What is chosen for the user is an option.
LEMMA OnlyIs == ASSUME NEW picked, NEW options PROVE Only(picked, options) \in options \cup {picked}
  BY DEF Only

\* A draft with another name; with another kind, too; with another namespace and kind.
LEMMA Renamed ==
  ASSUME NEW ref \in Drafts, NEW name
  PROVE  [ref EXCEPT !.name = name] = [namespace |-> ref.namespace, kind |-> ref.kind, name |-> name]
  <1> DEFINE A == Namespaces \cup {""}
             B == RefKinds \cup {""}
             C == Names \cup {""}
  <1>1. ref \in [namespace : A, kind : B, name : C] BY DEF Drafts
  <1> HIDE DEF A, B, C
  <1> QED BY <1>1

LEMMA Repicked ==
  ASSUME NEW ref \in Drafts, NEW kind, NEW name
  PROVE  [ref EXCEPT !.kind = kind, !.name = name] = [namespace |-> ref.namespace, kind |-> kind, name |-> name]
  <1> DEFINE A == Namespaces \cup {""}
             B == RefKinds \cup {""}
             C == Names \cup {""}
             k == [ref EXCEPT !.kind = kind]
  <1>1. ref \in [namespace : A, kind : B, name : C] BY DEF Drafts
  <1>2. [ref EXCEPT !.kind = kind, !.name = name] = [k EXCEPT !.name = name] OBVIOUS
  <1> HIDE DEF A, B, C
  <1>3. k = [namespace |-> ref.namespace, kind |-> kind, name |-> ref.name] BY <1>1
  <1>4. ref.namespace \in A /\ ref.name \in C BY <1>1
  <1>5. k \in [namespace : A, kind : B \cup {kind}, name : C] BY <1>3, <1>4
  <1> HIDE DEF k
  <1>6. [k EXCEPT !.name = name] = [namespace |-> k.namespace, kind |-> k.kind, name |-> name] BY <1>5
  <1> QED BY <1>2, <1>3, <1>6

LEMMA Moved ==
  ASSUME NEW ref \in Drafts, NEW namespace, NEW kind
  PROVE  [ref EXCEPT !.namespace = namespace, !.kind = kind]
           = [namespace |-> namespace, kind |-> kind, name |-> ref.name]
  <1> DEFINE A == Namespaces \cup {""}
             B == RefKinds \cup {""}
             C == Names \cup {""}
             n == [ref EXCEPT !.namespace = namespace]
  <1>1. ref \in [namespace : A, kind : B, name : C] BY DEF Drafts
  <1>2. [ref EXCEPT !.namespace = namespace, !.kind = kind] = [n EXCEPT !.kind = kind] OBVIOUS
  <1> HIDE DEF A, B, C
  <1>3. n = [namespace |-> namespace, kind |-> ref.kind, name |-> ref.name] BY <1>1
  <1>4. ref.kind \in B /\ ref.name \in C BY <1>1
  <1>5. n \in [namespace : A \cup {namespace}, kind : B, name : C] BY <1>3, <1>4
  <1> HIDE DEF n
  <1>6. [n EXCEPT !.kind = kind] = [namespace |-> n.namespace, kind |-> kind, name |-> n.name] BY <1>5
  <1> QED BY <1>2, <1>3, <1>6

\* What is asked for a draft is a draft without a name.
LEMMA DraftIs ==
  ASSUME NEW ref \in Drafts
  PROVE  /\ [ref EXCEPT !.name = ""] = [namespace |-> ref.namespace, kind |-> ref.kind, name |-> ""]
         /\ [ref EXCEPT !.name = ""] \in Drafts
  <1>2. [ref EXCEPT !.name = ""] = [namespace |-> ref.namespace, kind |-> ref.kind, name |-> ""] BY Renamed
  <1>3. ref.namespace \in Namespaces \cup {""} /\ ref.kind \in RefKinds \cup {""} BY DEF Drafts
  <1> QED BY <1>2, <1>3 DEF Drafts

\* A call is kept in a slot that was free, and asks for what is picked but for the name.
LEMMA Loading ==
  ASSUME PickerTyped, NEW ref \in Drafts, load(ref)
  PROVE  /\ loads' \in [1..MaxLoads -> Drafts \cup {None}]
         /\ Slot \in 1..MaxLoads /\ UnderWay' = UnderWay \cup {Slot}
         /\ loads'[Slot] = [ref EXCEPT !.name = ""]
  <1>1. \E c \in 1..MaxLoads : loads[c] = None BY DEF load, UnderWay
  <1>2. Slot \in 1..MaxLoads /\ loads[Slot] = None BY <1>1 DEF Slot
  <1> DEFINE asks == [ref EXCEPT !.name = ""]
  <1>3. asks \in Drafts /\ asks # None BY DraftIs, PickerNoneAssumption
  <1>5. loads' = [loads EXCEPT ![Slot] = asks] BY DEF load
  <1> HIDE DEF asks
  <1>6. loads \in [1..MaxLoads -> Drafts \cup {None}] BY DEF PickerTyped
  <1>7. loads' \in [1..MaxLoads -> Drafts \cup {None}] /\ loads'[Slot] = asks
        /\ \A c \in 1..MaxLoads : c # Slot => loads'[c] = loads[c]
    BY <1>2, <1>3, <1>5, <1>6
  <1>8. UnderWay' = UnderWay \cup {Slot} BY <1>2, <1>3, <1>7 DEF UnderWay
  <1> QED BY <1>2, <1>7, <1>8 DEF asks

\* What is known when no call is noted: the slots are as they were, or one fewer.
LEMMA Unloading ==
  ASSUME PickerTyped, NEW c \in UnderWay, loads' = [loads EXCEPT ![c] = None]
  PROVE  loads' \in [1..MaxLoads -> Drafts \cup {None}] /\ UnderWay' = UnderWay \ {c}
  <1>1. loads \in [1..MaxLoads -> Drafts \cup {None}] /\ c \in 1..MaxLoads BY DEF PickerTyped, UnderWay
  <1> QED BY <1>1 DEF UnderWay

\* A careful user's history is kept, a hasty one's is not.
LEMMA Noting ==
  ASSUME NEW waited \in BOOLEAN, NEW names, NEW name, Notes(waited, names, name), hasty \in BOOLEAN
  PROVE  /\ hasty' \in BOOLEAN /\ (hasty' => from' = None /\ source' = None)
         /\ ~hasty' => waited /\ ~hasty /\ from' = names /\ source' = name
  BY DEF Notes

\* A dialog is opened for a place in the list, or for the one after it.
LEMMA PresentTyped ==
  ASSUME PickerTyped, NEW at \in 1..MaxRefs, at <= Len(refs) + 1,
         at > Len(refs) => Len(refs) < Space,
         NEW opened \in PickedRefs, present(at, opened)
  PROVE  /\ PickerTyped' /\ UnderWay' = {Slot}
         /\ loads'[Slot] = AskedFor' /\ AsOpened'
         /\ ~hasty' /\ ListIsCurrent'
  <1> DEFINE ref == [opened EXCEPT !.namespace = Only(@, Shown), !.kind = Only(@, picker.kinds)]
  <1>1. /\ refDialog = None /\ alert = None /\ load(ref) /\ UNCHANGED <<picker, refs, alert, seeks>>
        /\ refDialog' = [at |-> at, refs |-> refs, opened |-> opened, ref |-> ref, names |-> {}]
        /\ from' = None /\ source' = None /\ hasty' = FALSE /\ swapped' = FALSE
    BY DEF present, Idle
  <1>8. opened \in Drafts BY DEF PickedRefs
  <1>d. /\ opened \in Drafts
        /\ opened.namespace \in Namespaces \cup {""} /\ opened.kind \in picker.kinds \cup {""}
        /\ opened.name \in Names \cup {""}
    BY DEF PickedRefs, Drafts
  <1>2. ref = [namespace |-> Only(opened.namespace, Shown), kind |-> Only(opened.kind, picker.kinds), name |-> opened.name]
    <2> DEFINE namespace == Only(opened.namespace, Shown)
               kind == Only(opened.kind, picker.kinds)
    <2>1. ref = [opened EXCEPT !.namespace = namespace, !.kind = kind] OBVIOUS
    <2> HIDE DEF namespace, kind, ref
    <2>2. [opened EXCEPT !.namespace = namespace, !.kind = kind]
            = [namespace |-> namespace, kind |-> kind, name |-> opened.name]
      BY <1>8, Moved
    <2>3. ref = [namespace |-> namespace, kind |-> kind, name |-> opened.name] BY <2>1, <2>2
    <2> QED BY <2>3 DEF namespace, kind
  <1>3. /\ Only(opened.namespace, Shown) \in Namespaces \cup {""}
        /\ Only(opened.kind, picker.kinds) \in picker.kinds \cup {""}
        /\ opened.name \in Names \cup {""}
    <2>1. Only(opened.namespace, Shown) \in Shown \cup {opened.namespace} BY OnlyIs
    <2>2. Only(opened.kind, picker.kinds) \in picker.kinds \cup {opened.kind} BY OnlyIs
    <2> QED BY <1>d, <2>1, <2>2, PickersAssumption
  <1>4. picker.kinds \subseteq RefKinds BY PickerIs DEF PickerTyped
  <1>5. ref \in Drafts /\ ref.kind \in picker.kinds \cup {""} /\ ref.name = opened.name
    BY <1>2, <1>3, <1>4 DEF Drafts
  <1> HIDE DEF ref
  <1>6. /\ loads' \in [1..MaxLoads -> Drafts \cup {None}] /\ UnderWay' = UnderWay \cup {Slot}
        /\ loads'[Slot] = [ref EXCEPT !.name = ""]
    BY <1>1, <1>5, Loading
  <1>7. UnderWay = {} BY <1>1 DEF PickerTyped
  <1>l. IsListed(refs) /\ refs \in Seq(Drafts) BY ListedIs DEF PickerTyped
  <1>9. refDialog' \in Dialogs BY <1>1, <1>5, <1>8, <1>l DEF Dialogs
  <1>10. refDialog'.ref = ref /\ refDialog'.at = at /\ refDialog'.opened = opened /\ refDialog'.refs = refs BY <1>1
  <1>11. PickedRefs' = PickedRefs /\ Refs' = Refs /\ Space' = Space
    BY <1>1 DEF PickedRefs, Refs, Space
  <1>12. refDialog' # None BY <1>9, PickerNoneAssumption
  <1>13. ref \in PickedRefs BY <1>5 DEF PickedRefs
  <1>i. IsListed(refs)' /\ IsListed(refDialog.refs)' BY <1>1, <1>l, <1>10, <1>11 DEF IsListed
  <1>14. PickerTyped' BY <1>1, <1>6, <1>9, <1>10, <1>11, <1>12, <1>13, <1>i DEF PickerTyped
  <1>c. ListIsCurrent' BY <1>1, <1>10, <1>12 DEF ListIsCurrent, Captured
  <1>15. UnderWay' = {Slot} BY <1>6, <1>7
  <1>16. loads'[Slot] = AskedFor' /\ AsOpened' BY <1>5, <1>6, <1>10 DEF AskedFor, AsOpened
  <1> QED BY <1>1, <1>14, <1>15, <1>16, <1>c

\* What a dialog that goes on becomes, whichever of its parts change.
LEMMA DialogIs ==
  ASSUME NEW d \in Dialogs, NEW ref, NEW kind, NEW name
  PROVE  /\ [d EXCEPT !.ref = ref] = [at |-> d.at, refs |-> d.refs, opened |-> d.opened, ref |-> ref, names |-> d.names]
         /\ [d EXCEPT !.ref.name = name]
              = [at |-> d.at, refs |-> d.refs, opened |-> d.opened, ref |-> [d.ref EXCEPT !.name = name], names |-> d.names]
         /\ [d EXCEPT !.ref.kind = kind, !.ref.name = name]
              = [at |-> d.at, refs |-> d.refs, opened |-> d.opened, ref |-> [d.ref EXCEPT !.kind = kind, !.name = name], names |-> d.names]
         /\ d.at \in 1..MaxRefs /\ d.opened \in Drafts /\ d.ref \in Drafts /\ d.names \in SUBSET Names
  <1>1. d.at \in 1..MaxRefs /\ d.opened \in Drafts /\ d.ref \in Drafts /\ d.names \in SUBSET Names BY DEF Dialogs
  <1>2. [d EXCEPT !.ref = ref] = [at |-> d.at, refs |-> d.refs, opened |-> d.opened, ref |-> ref, names |-> d.names] BY DEF Dialogs
  <1>3. [d EXCEPT !.ref.name = name]
          = [at |-> d.at, refs |-> d.refs, opened |-> d.opened, ref |-> [d.ref EXCEPT !.name = name], names |-> d.names]
    BY DEF Dialogs
  <1> DEFINE At == 1..MaxRefs
             Lists == Seq(Drafts)
  <1>i. d \in [at : At, refs : Lists, opened : Drafts, ref : Drafts, names : SUBSET Names] BY DEF Dialogs
  <1> HIDE DEF At, Lists
  <1>4. [d EXCEPT !.ref.kind = kind, !.ref.name = name]
          = [at |-> d.at, refs |-> d.refs, opened |-> d.opened, ref |-> [d.ref EXCEPT !.kind = kind, !.name = name], names |-> d.names]
    <2> DEFINE k == [d EXCEPT !.ref.kind = kind]
               r == [d.ref EXCEPT !.kind = kind]
    <2>1. [d EXCEPT !.ref.kind = kind, !.ref.name = name] = [k EXCEPT !.ref.name = name] OBVIOUS
    <2>2. k = [at |-> d.at, refs |-> d.refs, opened |-> d.opened, ref |-> r, names |-> d.names] BY <1>i
    <2>3. [r EXCEPT !.name = name] = [d.ref EXCEPT !.kind = kind, !.name = name] OBVIOUS
    <2> HIDE DEF k, r
    <2>4. k \in [at : At, refs : Lists, opened : Drafts, ref : {r}, names : SUBSET Names] BY <1>i, <2>2
    <2>5. [k EXCEPT !.ref.name = name] = [at |-> k.at, refs |-> k.refs, opened |-> k.opened, ref |-> [k.ref EXCEPT !.name = name], names |-> k.names]
      BY <2>4
    <2> QED BY <2>1, <2>2, <2>3, <2>5
  <1> QED BY <1>1, <1>2, <1>3, <1>4

LEMMA DialogAnswered ==
  ASSUME NEW d \in Dialogs, NEW names, NEW name
  PROVE  [d EXCEPT !.names = names, !.ref.name = name]
           = [at |-> d.at, refs |-> d.refs, opened |-> d.opened, ref |-> [d.ref EXCEPT !.name = name], names |-> names]
  <1> DEFINE At == 1..MaxRefs
             Lists == Seq(Drafts)
             n == [d EXCEPT !.names = names]
  <1>1. d \in [at : At, refs : Lists, opened : Drafts, ref : Drafts, names : SUBSET Names] BY DEF Dialogs
  <1> HIDE DEF At, Lists
  <1>2. [d EXCEPT !.names = names, !.ref.name = name] = [n EXCEPT !.ref.name = name] OBVIOUS
  <1>3. n = [at |-> d.at, refs |-> d.refs, opened |-> d.opened, ref |-> d.ref, names |-> names] BY <1>1
  <1> HIDE DEF n
  <1>4. n \in [at : At, refs : Lists, opened : Drafts, ref : Drafts, names : {names}] BY <1>1, <1>3
  <1>5. [n EXCEPT !.ref.name = name] = [at |-> n.at, refs |-> n.refs, opened |-> n.opened, ref |-> [n.ref EXCEPT !.name = name], names |-> n.names]
    BY <1>4
  <1> QED BY <1>2, <1>3, <1>5

\* A dialog that goes on has its type.
LEMMA Continued ==
  ASSUME PickerTyped, ListIsCurrent, refDialog # None, NEW ref \in PickedRefs, NEW names \in SUBSET Names,
         refDialog' = [at |-> refDialog.at, refs |-> refDialog.refs, opened |-> refDialog.opened,
                       ref |-> ref, names |-> names],
         loads' \in [1..MaxLoads -> Drafts \cup {None}],
         hasty' \in BOOLEAN, hasty' => from' = None /\ source' = None,
         UNCHANGED <<picker, listVars>>
  PROVE  PickerTyped' /\ ListIsCurrent' /\ refDialog'.ref = ref /\ refDialog'.opened = refDialog.opened
  <1>0. UNCHANGED <<picker, refs, alert, seeks, swapped>> BY DEF listVars
  <1>1. refDialog \in Dialogs /\ alert = None BY DEF PickerTyped
  <1>2. refDialog.at \in 1..MaxRefs /\ refDialog.opened \in Drafts /\ refDialog.refs \in Seq(Drafts)
    BY <1>1 DEF Dialogs
  <1>3. refDialog' \in Dialogs BY <1>2 DEF Dialogs, PickedRefs
  <1>4. /\ refDialog'.at = refDialog.at /\ refDialog'.refs = refDialog.refs
        /\ refDialog'.ref = ref /\ refDialog'.opened = refDialog.opened
    OBVIOUS
  <1>5. refDialog' # None BY <1>3, PickerNoneAssumption
  <1>6. PickedRefs' = PickedRefs /\ Refs' = Refs /\ Space' = Space BY <1>0 DEF PickedRefs, Refs, Space
  <1>7. IsListed(refs)' /\ IsListed(refDialog.refs)' BY <1>0, <1>4, <1>6 DEF PickerTyped, IsListed
  <1>8. PickerTyped' BY <1>0, <1>1, <1>3, <1>4, <1>5, <1>6, <1>7 DEF PickerTyped
  <1>9. ListIsCurrent' BY <1>0, <1>4, <1>5 DEF ListIsCurrent, Captured, Idle
  <1> QED BY <1>4, <1>8, <1>9

-----------------------------------------------------------------------------
(***************************************************************************)
(* The list of references: each action keeps what is known.                *)
(***************************************************************************)
LEMMA PresentFits ==
  ASSUME PickerIInv, NEW at \in 1..MaxRefs, at <= Len(refs) + 1,
         at > Len(refs) => Len(refs) < Space,
         NEW opened \in PickedRefs, present(at, opened)
  PROVE  PickerIInv'
  <1>1. /\ PickerTyped' /\ UnderWay' = {Slot} /\ loads'[Slot] = AskedFor' /\ AsOpened' /\ ListIsCurrent'
    BY PresentTyped DEF PickerIInv
  <1>2. PickedFits' BY <1>1 DEF PickedFits
  <1> QED BY <1>1, <1>2 DEF PickerIInv

LEMMA AddFits == ASSUME PickerIInv, Add PROVE PickerIInv'
  <1>1. refs \in Seq(Refs) /\ Len(refs) < MaxRefs /\ (picker.multiple \/ refs = <<>>)
    BY DEF PickerIInv, PickerTyped, IsListed, Add
  <1>2. Len(refs) \in Nat /\ (refs = <<>> => Len(refs) = 0) BY <1>1
  <1>3. Len(refs) < Space BY <1>1, <1>2 DEF Space
  <1>4. Len(refs) + 1 \in 1..MaxRefs BY <1>1, <1>2, PickerBoundsAssumption
  <1>5. NoRef \in PickedRefs BY DEF NoRef, Ref, PickedRefs, Drafts
  <1>6. present(Len(refs) + 1, NoRef) BY DEF Add
  <1> QED BY <1>2, <1>3, <1>4, <1>5, <1>6, PresentFits

LEMMA EditFits == ASSUME PickerIInv, NEW i \in DOMAIN refs, Edit(i) PROVE PickerIInv'
  <1>1. i \in 1..Len(refs) /\ i \in 1..MaxRefs /\ refs[i] \in PickedRefs /\ Len(refs) \in Nat
    BY ListedIs DEF PickerIInv, PickerTyped
  <1>2. present(i, refs[i]) BY DEF Edit
  <1>3. i <= Len(refs) + 1 /\ ~(i > Len(refs)) BY <1>1
  <1> QED BY <1>1, <1>2, <1>3, PresentFits

\* What leaves no dialog leaves no claim on one.
LEMMA ClosedFits ==
  ASSUME PickerTyped, picker' = picker, refDialog' = None, NEW l, refs' = l, IsListed(l),
         alert' = None, seeks' \in BOOLEAN, swapped' \in BOOLEAN,
         loads' \in [1..MaxLoads -> Drafts \cup {None}], UnderWay' = {},
         hasty' \in BOOLEAN, hasty' => from' = None /\ source' = None
  PROVE  PickerIInv'
  <1>1. Refs' = Refs /\ Space' = Space BY DEF Refs, Space
  <1>2. IsListed(refs)' BY <1>1 DEF IsListed
  <1>3. PickerTyped' BY <1>2 DEF PickerTyped
  <1>4. ListIsCurrent' BY DEF ListIsCurrent, Idle
  <1>5. PickedFits' BY DEF PickedFits
  <1> QED BY <1>3, <1>4, <1>5 DEF PickerIInv

\* What the form is given is a list for it.
LEMMA GivenIs == ASSUME picker \in AllPickers, NEW l \in Given PROVE IsListed(l)
  <1>1. MaxGiven \in Nat /\ MaxRefs \in Nat \ {0} /\ MaxGiven <= MaxRefs BY PickerBoundsAssumption
  <1>2. Space \in Nat \ {0} BY <1>1 DEF Space
  <1>3. CASE picker = RolePicker
    <2>1. l = <<>> BY <1>3 DEF Given
    <2>2. l \in Seq(Refs) /\ Len(l) = 0 /\ DOMAIN l = {} BY <2>1
    <2>3. IsInjective(l) BY <2>2 DEF IsInjective
    <2> QED BY <1>2, <2>2, <2>3 DEF IsListed
  <1>4. CASE picker # RolePicker
    <2> DEFINE some == {ref \in Refs : ref.kind \in GivenKinds}
               most == IF picker.multiple THEN MaxGiven ELSE IF MaxGiven = 0 THEN 0 ELSE 1
    <2>1. l \in BoundedSeq(some, most) /\ IsInjective(l) BY <1>4 DEF Given
    <2>2. most \in Nat /\ most <= Space BY <1>1 DEF Space
    <2>3. \A ref \in some : ref \in Refs OBVIOUS
    <2> HIDE DEF some, most
    <2>b. BoundedSeq(some, most) = UNION {[1..n -> some] : n \in 0..most} BY DEF BoundedSeq, SeqOf
    <2>4. PICK n \in 0..most : l \in [1..n -> some] BY <2>1, <2>b
    <2>5. n \in Nat /\ n <= Space BY <1>2, <2>2
    <2>6. l = [i \in 1..n |-> l[i]] /\ \A i \in 1..n : l[i] \in Refs BY <2>3, <2>4
    <2>7. l \in Seq(Refs) /\ Len(l) = n BY <2>5, <2>6
    <2> QED BY <2>1, <2>5, <2>7 DEF IsListed
  <1> QED BY <1>3, <1>4

LEMMA ResetFits ==
  ASSUME PickerIInv, NEW given \in Given \cup {refs}, Reset(given)
  PROVE  PickerIInv'
  <1> USE DEF PickerIInv
  <1>1. /\ refs' = given /\ UNCHANGED <<picker, refDialog, alert, loads, from, source, hasty>>
        /\ seeks' \in BOOLEAN /\ swapped' = (swapped \/ (~Idle /\ given # refs))
    BY DEF Reset, history, PickerTyped
  <1>2. IsListed(given) BY GivenIs DEF PickerTyped
  <1>3. PickedRefs' = PickedRefs /\ Refs' = Refs /\ Space' = Space /\ UnderWay' = UnderWay
        /\ AskedFor' = AskedFor /\ (AsOpened' <=> AsOpened)
    BY <1>1 DEF PickedRefs, Refs, Space, UnderWay, AskedFor, AsOpened
  <1>4. swapped' \in BOOLEAN BY <1>1
  <1>5. IsListed(refs)' BY <1>1, <1>2, <1>3 DEF IsListed
  <1>6. refDialog # None => IsListed(refDialog.refs)' BY <1>1, <1>3 DEF PickerTyped, IsListed
  <1>7. alert # None => IsListed(alert.refs)' BY <1>1, <1>3 DEF PickerTyped, IsListed
  <1>8. PickerTyped' BY <1>1, <1>3, <1>4, <1>5, <1>6, <1>7 DEF PickerTyped
  <1>9. ListIsCurrent' BY <1>1 DEF ListIsCurrent, Captured, Idle
  <1>10. PickedFits' BY <1>1, <1>3 DEF PickedFits
  <1> QED BY <1>8, <1>9, <1>10

LEMMA DropFits == ASSUME PickerIInv, NEW i \in DOMAIN refs, Drop(i) PROVE PickerIInv'
  <1> USE DEF PickerIInv
  <1>1. /\ refDialog = None /\ alert' = [at |-> i, refs |-> refs] /\ swapped' = FALSE
        /\ UNCHANGED <<picker, refs, refDialog, seeks, loads, from, source, hasty>>
    BY DEF Drop, Idle, history
  <1>2. IsListed(refs) /\ refs \in Seq(Drafts) /\ i \in 1..MaxRefs BY ListedIs DEF PickerTyped
  <1>3. alert' \in Alerts /\ alert'.refs = refs /\ alert'.at = i BY <1>1, <1>2 DEF Alerts
  <1>4. Refs' = Refs /\ Space' = Space /\ UnderWay' = UnderWay BY <1>1 DEF Refs, Space, UnderWay
  <1>5. IsListed(refs)' /\ IsListed(alert.refs)' BY <1>1, <1>2, <1>3, <1>4 DEF IsListed
  <1>6. PickerTyped' BY <1>1, <1>3, <1>4, <1>5 DEF PickerTyped
  <1>7. ListIsCurrent' BY <1>1, <1>3 DEF ListIsCurrent, Captured
  <1>8. PickedFits' BY <1>1 DEF PickedFits
  <1> QED BY <1>6, <1>7, <1>8

\* A list without one of its references.
LEMMA Shortened ==
  ASSUME picker \in AllPickers, NEW l, IsListed(l), NEW i \in DOMAIN l
  PROVE  /\ IsListed(RemoveAt(l, i))
         /\ \A n \in DOMAIN RemoveAt(l, i) : \E j \in DOMAIN l : RemoveAt(l, i)[n] = l[j]
  <1> DEFINE s == RemoveAt(l, i)
             Was(n) == IF n < i THEN n ELSE n + 1
  <1>1. l \in Seq(Refs) /\ i \in 1..Len(l) /\ Len(l) \in Nat /\ DOMAIN l = 1..Len(l) /\ Len(l) <= Space BY DEF IsListed
  <1>2. /\ s \in Seq(Refs) /\ Len(s) = Len(l) - 1
        /\ \A n \in 1..(Len(l) - 1) : s[n] = IF n < i THEN l[n] ELSE l[n + 1]
    BY <1>1, Removed
  <1> HIDE DEF s
  <1>3. DOMAIN s = 1..(Len(l) - 1) BY <1>1, <1>2
  <1>4. Len(s) <= Space
    <2>1. Space \in Nat BY PickerBoundsAssumption DEF Space
    <2> QED BY <1>1, <1>2, <2>1
  <1>5. ASSUME NEW n \in DOMAIN s PROVE Was(n) \in DOMAIN l /\ s[n] = l[Was(n)] BY <1>1, <1>2, <1>3
  <1>6. IsInjective(s)
    <2> SUFFICES ASSUME NEW j \in DOMAIN s, NEW k \in DOMAIN s, s[j] = s[k] PROVE j = k
      BY DEF IsInjective
    <2>1. Was(j) = Was(k) BY <1>5 DEF IsListed, IsInjective
    <2> QED BY <1>1, <1>3, <2>1
  <1> QED BY <1>2, <1>4, <1>5, <1>6 DEF IsListed, s

LEMMA ConfirmFits == ASSUME PickerIInv, NEW flag \in BOOLEAN, Confirm(flag) PROVE PickerIInv'
  <1> USE DEF PickerIInv
  <1>1. /\ alert # None /\ alert' = None /\ swapped' = FALSE
        /\ refs' = IF flag THEN RemoveAt(alert.refs, alert.at) ELSE refs
        /\ UNCHANGED <<picker, refDialog, seeks, loads, from, source, hasty>>
    BY DEF Confirm, history
  <1>2. refDialog = None /\ IsListed(refs) /\ IsListed(alert.refs) /\ alert.at \in DOMAIN alert.refs
    BY <1>1 DEF PickerTyped
  <1>3. IsListed(RemoveAt(alert.refs, alert.at)) BY <1>2, Shortened DEF PickerTyped
  <1>4. IsListed(refs')
    <2>1. CASE flag BY <1>1, <1>3, <2>1
    <2>2. CASE ~flag BY <1>1, <1>2, <2>2
    <2> QED BY <2>1, <2>2
  <1>5. UnderWay' = {} BY <1>1, <1>2 DEF UnderWay, PickerTyped
  <1>6. /\ seeks' \in BOOLEAN /\ swapped' \in BOOLEAN /\ hasty' \in BOOLEAN
        /\ (hasty' => from' = None /\ source' = None)
        /\ loads' \in [1..MaxLoads -> Drafts \cup {None}] /\ refDialog' = None
    BY <1>1, <1>2 DEF PickerTyped
  <1> QED BY <1>1, <1>4, <1>5, <1>6, ClosedFits

LEMMA PickNamespaceFits == ASSUME PickerIInv, NEW ns \in Shown, PickNamespace(ns) PROVE PickerIInv'
  <1> USE DEF PickerIInv
  <1>1. /\ refDialog # None /\ refDialog' = [refDialog EXCEPT !.ref = Ref(ns, "", "")]
        /\ Notes(UnderWay = {}, from, None) /\ UNCHANGED <<picker, listVars, loads>>
    BY DEF PickNamespace
  <1> DEFINE ref == Ref(ns, "", "")
  <1>2. ref \in PickedRefs BY PickersAssumption DEF Ref, PickedRefs, Drafts
  <1>3. ref.kind = "" BY DEF Ref
  <1> HIDE DEF ref
  <1>4. refDialog \in Dialogs /\ hasty \in BOOLEAN BY <1>1 DEF PickerTyped
  <1>5. /\ refDialog' = [at |-> refDialog.at, refs |-> refDialog.refs, opened |-> refDialog.opened, ref |-> ref, names |-> refDialog.names]
        /\ refDialog.names \in SUBSET Names
    BY <1>1, <1>4, DialogIs DEF ref
  <1>6. /\ hasty' \in BOOLEAN /\ (hasty' => from' = None /\ source' = None)
        /\ ~hasty' => UnderWay = {}
    BY <1>1, <1>4, Noting
  <1>7. loads' \in [1..MaxLoads -> Drafts \cup {None}] BY <1>1 DEF PickerTyped
  <1>8. PickerTyped' /\ ListIsCurrent' /\ refDialog'.ref = ref BY <1>1, <1>2, <1>5, <1>6, <1>7, Continued
  <1>9. UnderWay' = UnderWay BY <1>1 DEF UnderWay
  <1>10. PickedFits' BY <1>3, <1>6, <1>8, <1>9 DEF PickedFits
  <1> QED BY <1>8, <1>10

LEMMA PickKindFits == ASSUME PickerIInv, NEW kind \in picker.kinds, PickKind(kind) PROVE PickerIInv'
  <1> USE DEF PickerIInv
  <1> DEFINE ref == [refDialog.ref EXCEPT !.kind = kind, !.name = ""]
             wants == Ref(refDialog.ref.namespace, kind, "")
  <1>1. /\ refDialog # None /\ refDialog' = [refDialog EXCEPT !.ref.kind = kind, !.ref.name = ""]
        /\ load(wants)
        /\ Notes(UnderWay = {}, from, None) /\ UNCHANGED <<picker, listVars>>
    BY DEF PickKind
  <1>2. refDialog \in Dialogs /\ hasty \in BOOLEAN BY <1>1 DEF PickerTyped
  <1>3. refDialog.ref \in Drafts /\ refDialog.names \in SUBSET Names BY <1>2, DialogIs
  <1>4. ref = wants BY <1>3, Repicked DEF Ref
  <1>5. refDialog.ref.namespace \in Namespaces \cup {""} BY <1>3 DEF Drafts
  <1>6. picker.kinds \subseteq RefKinds BY PickerIs DEF PickerTyped
  <1>7. wants \in PickedRefs /\ wants \in Drafts /\ wants.name = "" BY <1>5, <1>6 DEF Ref, PickedRefs, Drafts
  <1>8. refDialog' = [at |-> refDialog.at, refs |-> refDialog.refs, opened |-> refDialog.opened, ref |-> ref, names |-> refDialog.names]
    BY <1>1, <1>2, DialogIs
  <1>9. [wants EXCEPT !.name = ""] = wants BY <1>7, Renamed DEF Ref
  <1> HIDE DEF ref, wants
  <1>10. /\ loads' \in [1..MaxLoads -> Drafts \cup {None}] /\ UnderWay' = UnderWay \cup {Slot}
         /\ loads'[Slot] = wants
    BY <1>1, <1>7, <1>9, Loading
  <1>11. /\ hasty' \in BOOLEAN /\ (hasty' => from' = None /\ source' = None)
         /\ ~hasty' => UnderWay = {}
    BY <1>1, <1>2, Noting
  <1>12. PickerTyped' /\ ListIsCurrent' /\ refDialog'.ref = wants BY <1>1, <1>3, <1>4, <1>7, <1>8, <1>10, <1>11, Continued
  <1>13. AskedFor' = wants /\ AsOpened' BY <1>7, <1>9, <1>12 DEF AskedFor, AsOpened
  <1>14. PickedFits' BY <1>10, <1>11, <1>13 DEF PickedFits
  <1> QED BY <1>12, <1>14

\* Another name for what is picked: a call for it asks the same.
LEMMA NameMoves ==
  ASSUME PickerTyped, refDialog # None, NEW name \in Names \cup {""},
         refDialog'.ref = [refDialog.ref EXCEPT !.name = name]
  PROVE  /\ [refDialog.ref EXCEPT !.name = name] \in PickedRefs
         /\ refDialog'.ref.kind = refDialog.ref.kind /\ refDialog'.ref.name = name
         /\ AskedFor' = AskedFor
  <1>1. refDialog.ref \in PickedRefs BY DEF PickerTyped
  <1>2. /\ refDialog.ref \in Drafts /\ refDialog.ref.namespace \in Namespaces \cup {""}
        /\ refDialog.ref.kind \in RefKinds \cup {""} /\ refDialog.ref.kind \in picker.kinds \cup {""}
    BY <1>1 DEF PickedRefs, Drafts
  <1> DEFINE ref == [namespace |-> refDialog.ref.namespace, kind |-> refDialog.ref.kind, name |-> name]
  <1>3. refDialog'.ref = ref BY <1>2, Renamed
  <1>4. ref \in PickedRefs /\ ref \in Drafts BY <1>2 DEF PickedRefs, Drafts
  <1>5. ref.namespace = refDialog.ref.namespace /\ ref.kind = refDialog.ref.kind /\ ref.name = name OBVIOUS
  <1> HIDE DEF ref
  <1>6. AskedFor = [namespace |-> refDialog.ref.namespace, kind |-> refDialog.ref.kind, name |-> ""]
    BY <1>2, Renamed DEF AskedFor
  <1>7. [ref EXCEPT !.name = ""] = [namespace |-> ref.namespace, kind |-> ref.kind, name |-> ""]
    BY <1>4, Renamed
  <1>8. AskedFor' = [ref EXCEPT !.name = ""] BY <1>3 DEF AskedFor
  <1> QED BY <1>3, <1>4, <1>5, <1>6, <1>7, <1>8
LEMMA PickNameFits == ASSUME PickerIInv, NEW name \in Names, PickName(name) PROVE PickerIInv'
  <1> USE DEF PickerIInv
  <1> DEFINE ref == [refDialog.ref EXCEPT !.name = name]
  <1>1. /\ refDialog # None /\ refDialog' = [refDialog EXCEPT !.ref.name = name]
        /\ Notes(UnderWay = {}, from, from) /\ UNCHANGED <<picker, listVars, loads>>
    BY DEF PickName
  <1>2. refDialog \in Dialogs /\ hasty \in BOOLEAN BY <1>1 DEF PickerTyped
  <1>3. /\ refDialog' = [at |-> refDialog.at, refs |-> refDialog.refs, opened |-> refDialog.opened, ref |-> ref, names |-> refDialog.names]
        /\ refDialog.names \in SUBSET Names
    BY <1>1, <1>2, DialogIs
  <1>4. refDialog'.ref = ref BY <1>3
  <1>5. /\ ref \in PickedRefs /\ refDialog'.ref.kind = refDialog.ref.kind /\ AskedFor' = AskedFor
    BY <1>1, <1>4, NameMoves
  <1> HIDE DEF ref
  <1>6. /\ hasty' \in BOOLEAN /\ (hasty' => from' = None /\ source' = None)
        /\ ~hasty' => UnderWay = {} /\ ~hasty /\ from' = from /\ source' = from
    BY <1>1, <1>2, Noting
  <1>7. loads' \in [1..MaxLoads -> Drafts \cup {None}] BY <1>1 DEF PickerTyped
  <1>8. PickerTyped' /\ ListIsCurrent' BY <1>1, <1>3, <1>5, <1>6, <1>7, Continued
  <1>9. UnderWay' = UnderWay BY <1>1 DEF UnderWay
  <1>10. PickedFits' BY <1>1, <1>5, <1>6, <1>9 DEF PickedFits
  <1> QED BY <1>8, <1>10

LEMMA NamesAnsweredFits ==
  ASSUME PickerIInv, NEW c \in 1..MaxLoads, NEW answer \in SUBSET Names, NamesAnswered(c, answer)
  PROVE  PickerIInv'
  <1> USE DEF PickerIInv
  <1> DEFINE wanted == loads[c]
             names == onList(wanted, answer)
             name == Only(refDialog.ref.name, names)
             ref == [refDialog.ref EXCEPT !.name = name]
             by == IF \E n \in names : names = {n} THEN wanted ELSE source
  <1>1. /\ refDialog # None /\ wanted # None
        /\ refDialog' = [refDialog EXCEPT !.names = names, !.ref.name = name]
        /\ Notes(TRUE, wanted, by)
        /\ loads' = [loads EXCEPT ![c] = None] /\ UNCHANGED <<picker, listVars>>
    BY DEF NamesAnswered
  <1>2. refDialog \in Dialogs /\ hasty \in BOOLEAN BY <1>1 DEF PickerTyped
  <1>3. names \in SUBSET Names BY DEF onList
  <1>4. name \in names \cup {refDialog.ref.name} /\ ((\A n \in names : names # {n}) => name = refDialog.ref.name)
    BY OnlyIs DEF Only
  <1>5. refDialog.ref.name \in Names \cup {""} BY <1>2 DEF Dialogs, Drafts
  <1> HIDE DEF wanted, names, name
  <1>6. refDialog' = [at |-> refDialog.at, refs |-> refDialog.refs, opened |-> refDialog.opened, ref |-> ref, names |-> names]
    BY <1>1, <1>2, DialogAnswered
  <1>7. refDialog'.ref = ref BY <1>6
  <1>8. name \in Names \cup {""} BY <1>3, <1>4, <1>5
  <1>9. /\ ref \in PickedRefs /\ refDialog'.ref.kind = refDialog.ref.kind
        /\ refDialog'.ref.name = name /\ AskedFor' = AskedFor
    BY <1>1, <1>7, <1>8, NameMoves
  <1> HIDE DEF ref, by
  <1>10. /\ hasty' \in BOOLEAN /\ (hasty' => from' = None /\ source' = None)
         /\ ~hasty' => ~hasty /\ from' = wanted /\ source' = by
    BY <1>1, <1>2, Noting
  <1>11. c \in UnderWay BY <1>1 DEF UnderWay, wanted
  <1>12. loads' \in [1..MaxLoads -> Drafts \cup {None}] /\ UnderWay' = UnderWay \ {c}
    BY <1>1, <1>11, Unloading
  <1>13. PickerTyped' /\ ListIsCurrent' /\ refDialog'.opened = refDialog.opened
    BY <1>1, <1>3, <1>6, <1>9, <1>10, <1>12, Continued
  <1>14. PickedFits'
    <2> SUFFICES ASSUME ~hasty'
                 PROVE  /\ UnderWay' = {} /\ from' = AskedFor' /\ (AsOpened' \/ source' = AskedFor')
      BY DEF PickedFits
    <2>1. ~hasty /\ from' = wanted /\ source' = by BY <1>10
    <2>2. UnderWay = {c} /\ wanted = AskedFor /\ AsOpened BY <1>1, <1>11, <2>1 DEF PickedFits, wanted
    <2>3. CASE \E n \in names : names = {n} BY <1>9, <1>12, <2>1, <2>2, <2>3 DEF by
    <2>4. CASE \A n \in names : names # {n}
      <3>1. refDialog'.ref.name = refDialog.ref.name BY <1>4, <1>9, <2>4
      <3>2. AsOpened' BY <1>13, <2>2, <3>1 DEF AsOpened
      <3> QED BY <1>9, <1>12, <2>1, <2>2, <3>2
    <2> QED BY <2>3, <2>4
  <1> QED BY <1>13, <1>14

LEMMA FailFits == ASSUME PickerIInv, NEW c \in 1..MaxLoads, Fail(c) PROVE PickerIInv'
  <1> USE DEF PickerIInv
  <1>1. /\ refDialog # None /\ loads[c] # None
        /\ loads' = [loads EXCEPT ![c] = None] /\ UNCHANGED <<picker, listVars, refDialog>>
    BY DEF Fail
  <1>2. hasty' /\ from' = None /\ source' = None BY DEF Fail, Notes
  <1>3. c \in UnderWay BY <1>1 DEF UnderWay
  <1>4. loads' \in [1..MaxLoads -> Drafts \cup {None}] BY <1>1, <1>3, Unloading
  <1>5. hasty' \in BOOLEAN BY DEF Fail, Notes, PickerTyped
  <1>6. refDialog \in Dialogs /\ refDialog.ref \in PickedRefs BY <1>1 DEF PickerTyped
  <1>7. /\ refDialog' = [at |-> refDialog.at, refs |-> refDialog.refs, opened |-> refDialog.opened,
                         ref |-> refDialog.ref, names |-> refDialog.names]
        /\ refDialog.names \in SUBSET Names
    BY <1>1, <1>6 DEF Dialogs
  <1>8. PickerTyped' /\ ListIsCurrent' BY <1>1, <1>2, <1>4, <1>5, <1>6, <1>7, Continued
  <1>9. PickedFits' BY <1>2 DEF PickedFits
  <1> QED BY <1>8, <1>9

\* A closed dialog leaves its calls to nobody, and the form a list.
LEMMA ClosesFits ==
  ASSUME PickerIInv, refDialog # None, Closes, NEW l, refs' = l, IsListed(l)
  PROVE  PickerIInv'
  <1> USE DEF PickerIInv
  <1>1. /\ refDialog' = None /\ hasty' = FALSE /\ swapped' = FALSE
        /\ UNCHANGED <<picker, alert, seeks>>
    BY DEF Closes
  <1>2. loads' \in [1..MaxLoads -> Drafts \cup {None}] BY DEF Closes
  <1>3. UnderWay' = {} BY DEF Closes, UnderWay
  <1>4. alert' = None /\ seeks' \in BOOLEAN BY <1>1 DEF PickerTyped
  <1> QED BY <1>1, <1>2, <1>3, <1>4, ClosedFits

\* What is saved is complete, of a kind the form takes, and new.
LEMMA SavedIs ==
  ASSUME PickerTyped, refDialog # None, checkValue(refDialog.ref)
  PROVE  /\ refDialog.ref \in Refs /\ refDialog.ref.kind # "" /\ refDialog.ref.name # ""
         /\ \A i \in DOMAIN refDialog.refs : refDialog.refs[i] # refDialog.ref
  <1>1. refDialog.ref \in PickedRefs BY DEF PickerTyped
  <1>2. /\ refDialog.ref \in Drafts /\ refDialog.ref.namespace \in Namespaces
        /\ refDialog.ref.kind \in picker.kinds /\ refDialog.ref.name \in Names
    BY <1>1 DEF PickedRefs, Drafts, checkValue
  <1>3. refDialog.ref = [namespace |-> refDialog.ref.namespace, kind |-> refDialog.ref.kind, name |-> refDialog.ref.name]
    BY <1>2 DEF Drafts
  <1>4. refDialog.ref \in Refs BY <1>2, <1>3 DEF Refs
  <1> QED BY <1>4 DEF checkValue, Range

\* The list a save leaves: the form's, or the one captured with what was picked.
LEMMA SavedList ==
  ASSUME PickerTyped, SaveRef
  PROVE  /\ IsListed(refs')
         /\ \/ refs' = refs
            \/ /\ checkValue(refDialog.ref)
               /\ \A i \in DOMAIN refs' :
                    refs'[i] = refDialog.ref \/ \E j \in DOMAIN refDialog.refs : refs'[i] = refDialog.refs[j]
  <1> DEFINE ref == refDialog.ref
             at == refDialog.at
             old == refDialog.refs
  <1>1. refDialog # None BY DEF SaveRef
  <1>2. refDialog \in Dialogs /\ IsListed(old) BY <1>1 DEF PickerTyped
  <1>3. /\ old \in Seq(Refs) /\ Len(old) \in Nat /\ DOMAIN old = 1..Len(old) /\ Len(old) <= Space
        /\ \A i, j \in DOMAIN old : old[i] = old[j] => i = j
    BY <1>2 DEF IsListed, IsInjective
  <1>4. at \in 1..MaxRefs /\ at <= Len(old) + 1 /\ (at > Len(old) => Len(old) < Space)
    BY <1>1, <1>2 DEF PickerTyped, Dialogs
  <1>5. Space \in Nat BY PickerBoundsAssumption DEF Space
  <1>6. CASE ~checkValue(ref) BY <1>6 DEF SaveRef, PickerTyped
  <1>7. CASE checkValue(ref)
    <2>1. ref \in Refs /\ \A i \in DOMAIN old : old[i] # ref BY <1>1, <1>7, SavedIs
    <2>2. refs' = IF at > Len(old) THEN Append(old, ref) ELSE [old EXCEPT ![at] = ref]
      BY <1>7 DEF SaveRef
    <2> HIDE DEF ref, at, old
    <2>3. CASE at > Len(old)
      <3>1. refs' = Append(old, ref) BY <2>2, <2>3
      <3>2. /\ refs' \in Seq(Refs) /\ Len(refs') = Len(old) + 1
            /\ \A i \in 1..Len(old) : refs'[i] = old[i]
            /\ refs'[Len(old) + 1] = ref
        BY <1>3, <2>1, <3>1, AppendProperties
      <3>3. Len(refs') <= Space BY <1>3, <1>4, <1>5, <2>3, <3>2
      <3>4. DOMAIN refs' = 1..(Len(old) + 1) BY <3>2
      <3>5. ASSUME NEW i \in DOMAIN refs'
            PROVE  (i \in DOMAIN old /\ refs'[i] = old[i]) \/ (i = Len(old) + 1 /\ refs'[i] = ref)
        <4>1. i \in 1..Len(old) \/ i = Len(old) + 1 BY <1>3, <3>4
        <4> QED BY <1>3, <3>2, <4>1
      <3>6. IsInjective(refs') BY <1>3, <2>1, <3>5 DEF IsInjective
      <3>7. \A i \in DOMAIN refs' : refs'[i] = ref \/ \E j \in DOMAIN old : refs'[i] = old[j] BY <3>5
      <3> QED BY <1>7, <3>2, <3>3, <3>6, <3>7 DEF IsListed, ref, old
    <2>4. CASE ~(at > Len(old))
      <3>1. refs' = [old EXCEPT ![at] = ref] BY <2>2, <2>4
      <3>2. at \in 1..Len(old) BY <1>3, <1>4, <2>4
      <3>3. /\ refs' \in Seq(Refs) /\ Len(refs') = Len(old)
            /\ \A i \in 1..Len(old) : refs'[i] = IF i = at THEN ref ELSE old[i]
        BY <1>3, <2>1, <3>1, <3>2, ExceptSeq
      <3>4. DOMAIN refs' = DOMAIN old BY <1>3, <3>3
      <3>5. \A i \in DOMAIN refs' : i \in DOMAIN old /\ refs'[i] = IF i = at THEN ref ELSE old[i]
        BY <1>3, <3>3, <3>4
      <3>6. IsInjective(refs') BY <1>3, <2>1, <3>5 DEF IsInjective
      <3>7. \A i \in DOMAIN refs' : refs'[i] = ref \/ \E j \in DOMAIN old : refs'[i] = old[j] BY <3>5
      <3> QED BY <1>3, <1>7, <3>3, <3>6, <3>7 DEF IsListed, ref, old
    <2> QED BY <2>3, <2>4
  <1> QED BY <1>6, <1>7

LEMMA SaveRefFits == ASSUME PickerIInv, SaveRef PROVE PickerIInv'
  <1>1. refDialog # None /\ Closes BY DEF SaveRef
  <1>2. IsListed(refs') BY SavedList DEF PickerIInv
  <1> QED BY <1>1, <1>2, ClosesFits

LEMMA CancelFits == ASSUME PickerIInv, Cancel PROVE PickerIInv'
  <1>1. refDialog # None /\ Closes /\ refs' = refs BY DEF Cancel
  <1>2. IsListed(refs) BY DEF PickerIInv, PickerTyped
  <1> QED BY <1>1, <1>2, ClosesFits

LEMMA PickerInvariance == ASSUME PickerIInv, PickerNext PROVE PickerIInv'
  <1>1. CASE Add BY <1>1, AddFits
  <1>2. ASSUME NEW i \in DOMAIN refs, Edit(i) PROVE PickerIInv' BY <1>2, EditFits
  <1>3. ASSUME NEW i \in DOMAIN refs, Drop(i) PROVE PickerIInv' BY <1>3, DropFits
  <1>4. ASSUME NEW ns \in Shown, PickNamespace(ns) PROVE PickerIInv' BY <1>4, PickNamespaceFits
  <1>5. ASSUME NEW kind \in picker.kinds, PickKind(kind) PROVE PickerIInv' BY <1>5, PickKindFits
  <1>6. ASSUME NEW name \in Names, PickName(name) PROVE PickerIInv' BY <1>6, PickNameFits
  <1>7. ASSUME NEW c \in 1..MaxLoads, Fail(c) PROVE PickerIInv' BY <1>7, FailFits
  <1>8. ASSUME NEW c \in 1..MaxLoads, NEW answer \in SUBSET Names, NamesAnswered(c, answer) PROVE PickerIInv'
    BY <1>8, NamesAnsweredFits
  <1>9. CASE SaveRef BY <1>9, SaveRefFits
  <1>10. CASE Cancel BY <1>10, CancelFits
  <1>11. ASSUME NEW given \in Given \cup {refs}, Reset(given) PROVE PickerIInv' BY <1>11, ResetFits
  <1>12. ASSUME NEW flag \in BOOLEAN, Confirm(flag) PROVE PickerIInv' BY <1>12, ConfirmFits
  <1> QED BY <1>1, <1>2, <1>3, <1>4, <1>5, <1>6, <1>7, <1>8, <1>9, <1>10, <1>11, <1>12 DEF PickerNext

LEMMA PickerBegins == ASSUME PickerInit, picker \in AllPickers PROVE PickerIInv
  <1>1. IsListed(refs) BY GivenIs DEF PickerInit
  <1>2. loads \in [1..MaxLoads -> Drafts \cup {None}] /\ UnderWay = {} BY DEF PickerInit, UnderWay
  <1>3. refDialog = None /\ alert = None /\ hasty = FALSE /\ seeks = TRUE /\ swapped = FALSE BY DEF PickerInit
  <1>4. PickerTyped BY <1>1, <1>2, <1>3 DEF PickerTyped
  <1>5. ListIsCurrent BY <1>3 DEF ListIsCurrent, Idle
  <1>6. PickedFits BY <1>3 DEF PickedFits
  <1> QED BY <1>4, <1>5, <1>6 DEF PickerIInv

\* Only a save puts a reference in the form's list, or, if the form was given another
\* list, what closes puts the rest of the list captured there, too.
LEMMA Offered == ASSUME PickerIInv, PickerNext PROVE PutsOffered
  <1> SUFFICES ASSUME ~Idle, Idle', NEW ref \in Range(refs'), ref \notin Range(refs)
               PROVE  \/ swapped /\ ref \in Range(Captured)
                      \/ /\ refDialog # None /\ ref = refDialog.ref
                         /\ \/ source = [ref EXCEPT !.name = ""]
                            \/ hasty \/ UnderWay # {} \/ ref.name = refDialog.opened.name
    BY DEF PutsOffered
  <1>1. PICK i \in DOMAIN refs' : refs'[i] = ref BY DEF Range
  <1>2. refs' # refs OBVIOUS
  <1>3. SaveRef \/ \E flag \in BOOLEAN : Confirm(flag)
    <2>1. ASSUME NEW given, Reset(given) PROVE FALSE BY <2>1 DEF Reset, Idle
    <2>2. ASSUME NEW j, Drop(j) PROVE FALSE BY <2>2 DEF Drop
    <2> QED
      BY <1>2, <2>1, <2>2
      DEF PickerNext, Add, Edit, present, listVars, PickNamespace, PickKind, PickName, Fail, NamesAnswered, Cancel
  <1>4. CASE SaveRef
    <2>1. refDialog # None BY <1>4 DEF SaveRef
    <2>2. /\ checkValue(refDialog.ref)
          /\ refs'[i] = refDialog.ref \/ \E j \in DOMAIN refDialog.refs : refs'[i] = refDialog.refs[j]
      BY <1>2, <1>4, SavedList DEF PickerIInv
    <2>3. CASE ref = refDialog.ref
      <3>1. ref.kind # "" /\ ref.name # "" BY <2>2, <2>3 DEF checkValue
      <3>2. ~hasty /\ UnderWay = {} => AsOpened \/ source = AskedFor
        BY <2>1, <2>3, <3>1 DEF PickerIInv, PickedFits
      <3> QED BY <2>1, <2>3, <3>1, <3>2 DEF AsOpened, AskedFor
    <2>4. CASE ref # refDialog.ref
      <3>1. ref \in Range(Captured) /\ Captured = refDialog.refs
        BY <1>1, <2>1, <2>2, <2>4 DEF Captured, Range
      <3>2. swapped BY <3>1 DEF PickerIInv, ListIsCurrent
      <3> QED BY <3>1, <3>2
    <2> QED BY <2>3, <2>4
  <1>5. ASSUME NEW flag \in BOOLEAN, Confirm(flag)
        PROVE  swapped /\ ref \in Range(Captured)
    <2>1. alert # None /\ refs' = RemoveAt(alert.refs, alert.at) BY <1>2, <1>5 DEF Confirm
    <2>2. refDialog = None /\ IsListed(alert.refs) /\ alert.at \in DOMAIN alert.refs
      BY <2>1 DEF PickerIInv, PickerTyped
    <2>3. \E j \in DOMAIN alert.refs : ref = alert.refs[j]
      BY <1>1, <2>1, <2>2, Shortened DEF PickerIInv, PickerTyped
    <2>4. Captured = alert.refs BY <2>2 DEF Captured
    <2>5. ref \in Range(Captured) BY <2>3, <2>4 DEF Range
    <2>6. swapped BY <2>5 DEF PickerIInv, ListIsCurrent
    <2> QED BY <2>5, <2>6
  <1> QED BY <1>3, <1>4, <1>5
-----------------------------------------------------------------------------
(***************************************************************************)
(* The statements of a policy: what an edit makes of a statement and of    *)
(* the form's list.                                                        *)
(***************************************************************************)
FieldNames == DOMAIN BlankStatement("")

LEMMA NamesOfFields ==
  /\ FieldNames = {"of", "effect", "priority", "condition", "actions", "notActions", "principals", "notPrincipals",
                   "resources", "notResources"}
  /\ ListFields \subseteq FieldNames /\ Fields \subseteq FieldNames
  /\ "of" \notin ListFields /\ "effect" \notin ListFields /\ "priority" \notin ListFields /\ "condition" \notin ListFields
  /\ "of" \notin Fields /\ ResourceFields \subseteq ListFields /\ RefFields \subseteq ListFields /\ WordFields \subseteq ListFields
  /\ WordFields \cap ResourceFields = {} /\ RefFields \cap ResourceFields = {} /\ RefFields \cap WordFields = {}
  <1>1. FieldNames = {"of", "effect", "priority", "condition", "actions", "notActions", "principals", "notPrincipals",
                      "resources", "notResources"}
    BY DEF FieldNames, BlankStatement
  <1>2. ListFields = {"actions", "notActions", "principals", "notPrincipals", "resources", "notResources"}
    BY DEF ListFields, WordFields, RefFields, ResourceFields
  <1>3. Fields \subseteq ListFields \cup {"condition"} BY FieldsAssumption
  <1>4. /\ WordFields \cap ResourceFields = {} /\ RefFields \cap ResourceFields = {} /\ RefFields \cap WordFields = {}
    BY DEF WordFields, RefFields, ResourceFields
  <1>5. ResourceFields \subseteq ListFields /\ RefFields \subseteq ListFields /\ WordFields \subseteq ListFields
    BY DEF ListFields
  <1> QED BY <1>1, <1>2, <1>3, <1>4, <1>5

\* A statement has its fields, and is no hole.
LEMMA StatementIs ==
  ASSUME NEW st, IsStatement(st)
  PROVE  DOMAIN st = FieldNames /\ st # Hole /\ \A field \in ListFields : IsList(st[field])
  <1>1. DOMAIN st = FieldNames BY DEF IsStatement, FieldNames
  <1>2. DOMAIN Hole = {} BY DEF Hole, Nothing
  <1>3. "of" \in FieldNames BY NamesOfFields
  <1> QED BY <1>1, <1>2, <1>3 DEF IsStatement

\* A new statement has no entries.
LEMMA BlankIs ==
  ASSUME NEW policy
  PROVE  /\ IsStatement(BlankStatement(policy)) /\ BlankStatement(policy).of = policy
         /\ \A field \in ListFields : DOMAIN BlankStatement(policy)[field] = {}
  <1> DEFINE st == BlankStatement(policy)
  <1>1. DOMAIN st = FieldNames BY DEF BlankStatement, FieldNames
  <1>2. st = [field \in FieldNames |-> st[field]] BY <1>1 DEF BlankStatement
  <1>3. IsList(<< >>) /\ DOMAIN << >> = {} BY DEF IsList
  <1>4. ASSUME NEW field \in ListFields PROVE st[field] = << >>
    BY DEF ListFields, WordFields, RefFields, ResourceFields, BlankStatement
  <1> QED BY <1>2, <1>3, <1>4 DEF IsStatement, FieldNames, BlankStatement

\* A statement with one field anew is one, with the others as they were.
LEMMA Rewritten ==
  ASSUME NEW st, IsStatement(st), NEW field \in FieldNames, NEW new, field \in ListFields => IsList(new)
  PROVE  /\ IsStatement([st EXCEPT ![field] = new])
         /\ \A f \in FieldNames : [st EXCEPT ![field] = new][f] = IF f = field THEN new ELSE st[f]
  <1> DEFINE put == [st EXCEPT ![field] = new]
  <1>1. DOMAIN st = FieldNames /\ st = [f \in FieldNames |-> st[f]] BY StatementIs DEF IsStatement, FieldNames
  <1>2. DOMAIN put = FieldNames /\ \A f \in FieldNames : put[f] = IF f = field THEN new ELSE st[f] BY <1>1
  <1>3. put = [f \in FieldNames |-> put[f]] BY <1>1
  <1>4. \A f \in ListFields : IsList(put[f]) BY <1>2, NamesOfFields DEF IsStatement
  <1> QED BY <1>2, <1>3, <1>4 DEF IsStatement, FieldNames

\* What putting a statement into the form's list does.
LEMMA PutIn ==
  ASSUME IsList(statements), NEW i \in Nat \ {0}, NEW st, onChange(i, st)
  PROVE  /\ IsList(statements') /\ i \in DOMAIN statements' /\ statements'[i] = st
         /\ Len(statements') = IF i > Len(statements) THEN i ELSE Len(statements)
         /\ \A n \in DOMAIN statements' :
              n = i \/ (n \in DOMAIN statements /\ statements'[n] = statements[n])
                    \/ (statements'[n] = Hole /\ i \notin DOMAIN statements)
         /\ i \in DOMAIN statements => statements' = [statements EXCEPT ![i] = st]
  <1> DEFINE length == IF i > Len(statements) THEN i ELSE Len(statements)
             new == [n \in 1..length |->
                       IF n = i THEN st ELSE IF n <= Len(statements) THEN statements[n] ELSE Hole]
  <1>1. statements' = new BY DEF onChange
  <1>2. Len(statements) \in Nat /\ DOMAIN statements = 1..Len(statements) BY ListIsSeq
  <1>3. length \in Nat /\ i \in 1..length /\ Len(statements) <= length BY <1>2
  <1> HIDE DEF length
  <1>4. DOMAIN new = 1..length /\ Len(new) = length BY <1>3
  <1>5. new = [n \in 1..Len(new) |-> new[n]] BY <1>4
  <1>6. ASSUME NEW n \in 1..length
        PROVE  n = i \/ (n \in DOMAIN statements /\ new[n] = statements[n])
                     \/ (new[n] = Hole /\ i \notin DOMAIN statements)
    <2>1. CASE n <= Len(statements) BY <1>2, <1>3, <2>1
    <2>2. CASE ~(n <= Len(statements)) BY <1>2, <1>3, <2>2 DEF length
    <2> QED BY <2>1, <2>2
  <1>7. ASSUME i \in DOMAIN statements PROVE new = [statements EXCEPT ![i] = st]
    <2>0. i \in 1..Len(statements) BY <1>2, <1>7
    <2>1. length = Len(statements)
      <3>1. ~(i > Len(statements)) BY <1>2, <2>0
      <3> QED BY <3>1 DEF length
    <2>2. statements = [n \in 1..Len(statements) |-> statements[n]] BY DEF IsList
    <2>3. DOMAIN [statements EXCEPT ![i] = st] = 1..length BY <1>2, <2>1
    <2>4. \A n \in 1..length : [statements EXCEPT ![i] = st][n] = new[n] BY <1>2, <2>1
    <2>5. [statements EXCEPT ![i] = st] = [n \in 1..length |-> [statements EXCEPT ![i] = st][n]] BY <1>2, <2>1
    <2> HIDE DEF new
    <2>6. new = [n \in 1..length |-> new[n]] BY <1>4, <1>5
    <2> QED BY <2>4, <2>5, <2>6
  <1>8. new[i] = st BY <1>3
  <1> HIDE DEF new
  <1>9. IsList(new) BY <1>3, <1>4, <1>5 DEF IsList
  <1>10. length = IF i > Len(statements) THEN i ELSE Len(statements) BY DEF length
  <1> QED BY <1>1, <1>3, <1>4, <1>6, <1>7, <1>8, <1>9, <1>10
-----------------------------------------------------------------------------
(***************************************************************************)
(* The statements of a policy: each action of the page keeps what is known.*)
(***************************************************************************)

\* What leaves the form's statements and the dialog alone.
LEMMA FormStands ==
  ASSUME PolicyIInv, PageTyped', editor'.item = editor.item, UNCHANGED <<statements, late, dialog, tags>>
  PROVE  PolicyIInv'
  <1>1. StatementsTyped' BY DEF PolicyIInv, StatementsTyped
  <1>2. TagsTyped' BY DEF PolicyIInv, TagsTyped
  <1>3. Statements' = Statements BY DEF Statements
  <1>4. StatementsHold' BY <1>3 DEF PolicyIInv, StatementsHold, HoldsTags
  <1>5. DialogFits' BY DEF PolicyIInv, DialogFits, HoldsTags
  <1>6. DialogIsCurrent' BY DEF PolicyIInv, DialogIsCurrent
  <1>7. FormIsOwn' BY <1>3 DEF PolicyIInv, FormIsOwn
  <1>8. DialogTagsAreOwn' <=> DialogTagsAreOwn BY <1>3 DEF DialogTagsAreOwn
  <1>9. TagsFit' BY <1>8 DEF PolicyIInv, TagsFit
  <1> QED BY <1>1, <1>2, <1>4, <1>5, <1>6, <1>7, <1>9 DEF PolicyIInv

LEMMA ReloadKeeps == ASSUME PolicyIInv, Reload PROVE PolicyIInv'
  <1>1. listed' \in 1..Loads BY PolicyBoundsAssumption DEF PolicyIInv, PageTyped, Reload
  <1>2. UNCHANGED <<asked, saves, editor, statements, expanded, late, dialog, tags, acts>> BY DEF Reload, form
  <1>3. PageTyped' BY <1>1, <1>2 DEF PolicyIInv, PageTyped
  <1> QED BY <1>2, <1>3, FormStands

LEMMA CloseKeeps == ASSUME PolicyIInv, Close PROVE PolicyIInv'
  <1>1. /\ editor' = [editor EXCEPT !.open = FALSE]
        /\ UNCHANGED <<listed, asked, saves, statements, expanded, late, dialog, tags, acts>>
    BY DEF Close, page
  <1>2. editor = [item |-> editor.item, open |-> editor.open, readOnly |-> editor.readOnly] BY DEF PolicyIInv, PageTyped
  <1>3. editor' = [item |-> editor.item, open |-> FALSE, readOnly |-> editor.readOnly] BY <1>1, <1>2
  <1>4. editor'.item = editor.item /\ editor'.open = FALSE /\ editor'.readOnly = editor.readOnly BY <1>3
  <1>5. PageTyped' BY <1>1, <1>3, <1>4 DEF PolicyIInv, PageTyped
  <1> QED BY <1>1, <1>4, <1>5, FormStands

LEMMA SaveKeeps == ASSUME PolicyIInv, Save PROVE PolicyIInv'
  <1>1. saves' \in 0..MaxSaves BY PolicyBoundsAssumption DEF PolicyIInv, PageTyped, Save
  <1>2. UNCHANGED <<listed, asked, editor, statements, expanded, late, dialog, tags, acts>> BY DEF Save, form
  <1>3. PageTyped' BY <1>1, <1>2 DEF PolicyIInv, PageTyped
  <1> QED BY <1>2, <1>3, FormStands

LEMMA AnswerSaveKeeps == ASSUME PolicyIInv, NEW saved \in BOOLEAN, AnswerSave(saved) PROVE PolicyIInv'
  <1>1. saves' \in 0..MaxSaves BY PolicyBoundsAssumption DEF PolicyIInv, PageTyped, AnswerSave
  <1>2. /\ editor' = IF saved THEN [editor EXCEPT !.open = FALSE] ELSE editor
        /\ UNCHANGED <<listed, asked, statements, expanded, late, dialog, tags, acts>>
    BY DEF AnswerSave
  <1>3. editor = [item |-> editor.item, open |-> editor.open, readOnly |-> editor.readOnly] BY DEF PolicyIInv, PageTyped
  <1>5. CASE saved
    <2>0. editor' = [editor EXCEPT !.open = FALSE] BY <1>2, <1>5
    <2>1. editor' = [item |-> editor.item, open |-> FALSE, readOnly |-> editor.readOnly] BY <1>3, <2>0
    <2>2. editor'.item = editor.item /\ editor'.open = FALSE /\ editor'.readOnly = editor.readOnly BY <2>1
    <2>3. PageTyped' BY <1>1, <1>2, <2>1, <2>2 DEF PolicyIInv, PageTyped
    <2> QED BY <1>2, <2>2, <2>3, FormStands
  <1>6. CASE ~saved
    <2>1. editor' = editor BY <1>2, <1>6
    <2>2. PageTyped' BY <1>1, <1>2, <2>1 DEF PolicyIInv, PageTyped
    <2> QED BY <1>2, <2>1, <2>2, FormStands
  <1> QED BY <1>5, <1>6

\* A form that is shown, for a click or for what the URL asks, below a dialog or not.
LEMMA PresentKeeps ==
  ASSUME PolicyIInv, NEW item \in Items, NEW readOnly \in BOOLEAN, Present(item, readOnly),
         UNCHANGED <<listed, saves, dialog, tags, acts>>, asked' \in Queries \cup {None}
  PROVE  PolicyIInv'
  <1> DEFINE same == editor.item # None /\ Content(editor.item) = Content(item)
  <1>1. /\ editor' = [item |-> item, open |-> TRUE, readOnly |-> readOnly]
        /\ statements' = IF same THEN statements ELSE Stored[item]
        /\ late' = IF same THEN late ELSE dialog # None
        /\ expanded' = expanded
    BY DEF Present
  <1>2. same => PolicyOf[editor.item] = PolicyOf[item] BY DEF Content
  <1> HIDE DEF same
  <1>3. editor'.item = item /\ editor'.open = TRUE /\ editor'.readOnly = readOnly /\ item # None
    BY <1>1, PolicyNoneAssumption
  <1>4. late' \in BOOLEAN BY <1>1 DEF PolicyIInv, PageTyped
  <1>5. PageTyped' BY <1>1, <1>3, <1>4 DEF PolicyIInv, PageTyped
  <1>6. TagsTyped' BY DEF PolicyIInv, TagsTyped
  <1>7. DialogFits' BY DEF PolicyIInv, DialogFits, HoldsTags
  <1>8. CASE same
    <2>1. UNCHANGED <<statements, late, dialog, tags>> BY <1>1, <1>8
    <2>2. Statements' = Statements BY <2>1 DEF Statements
    <2>3. StatementsTyped' BY <2>1 DEF PolicyIInv, StatementsTyped
    <2>4. StatementsHold' BY <2>1, <2>2 DEF PolicyIInv, StatementsHold, HoldsTags
    <2>5. DialogIsCurrent' BY <2>1 DEF PolicyIInv, DialogIsCurrent
    <2>6. FormIsOwn' BY <1>2, <1>3, <1>8, <2>1, <2>2 DEF PolicyIInv, FormIsOwn, same
    <2>7. DialogTagsAreOwn' <=> DialogTagsAreOwn BY <2>1, <2>2 DEF DialogTagsAreOwn
    <2>8. TagsFit' BY <2>1, <2>7 DEF PolicyIInv, TagsFit
    <2> QED BY <1>5, <1>6, <1>7, <2>3, <2>4, <2>5, <2>6, <2>8 DEF PolicyIInv
  <1>9. CASE ~same
    <2>1. statements' = Stored[item] /\ late' = (dialog # None) /\ dialog' = dialog /\ tags' = tags BY <1>1, <1>9
    <2>2. /\ IsList(Stored[item]) /\ Len(Stored[item]) <= MaxStatements /\ TagsAreOwn(Stored[item])
          /\ \A i \in DOMAIN Stored[item] :
               /\ IsStatement(Stored[item][i]) /\ Stored[item][i].of = PolicyOf[item]
               /\ \A field \in ResourceFields : \A n \in DOMAIN Stored[item][i][field] :
                    Stored[item][i][field][n].tags \in DOMAIN StoredTags \cup {None}
      BY StoredAssumption
    <2>3. \A i \in DOMAIN Stored[item] : Stored[item][i] # Hole BY <2>2, StatementIs
    <2>4. StatementsTyped' BY <2>1, <2>2, <2>3 DEF StatementsTyped
    <2>5. StatementsHold' BY <2>1, <2>2, TagsAssumption DEF PolicyIInv, TagsTyped, StatementsHold, HoldsTags, Statements
    <2>6. DialogIsCurrent' BY <2>1 DEF DialogIsCurrent
    <2>7. FormIsOwn' BY <1>3, <2>1, <2>2 DEF FormIsOwn, Statements
    <2>8. ~late' => TagsAreOwn(statements') /\ DialogTagsAreOwn' BY <2>1, <2>2 DEF DialogTagsAreOwn
    <2>9. TagsFit' BY <2>8 DEF TagsFit
    <2> QED BY <1>5, <1>6, <1>7, <2>4, <2>5, <2>6, <2>7, <2>9 DEF PolicyIInv
  <1> QED BY <1>8, <1>9

LEMMA OpenKeeps ==
  ASSUME PolicyIInv, NEW item \in Rows, NEW readOnly \in BOOLEAN, Open(item, readOnly)
  PROVE  PolicyIInv'
  <1>1. item \in Items BY DEF Rows
  <1>2. Present(item, readOnly) /\ UNCHANGED <<listed, asked, saves, dialog, tags, acts>> BY DEF Open, page
  <1>3. asked' \in Queries \cup {None} BY <1>2 DEF PolicyIInv, PageTyped
  <1> QED BY <1>1, <1>2, <1>3, PresentKeeps

LEMMA FindKeeps == ASSUME PolicyIInv, Find PROVE PolicyIInv'
  <1> DEFINE found == {item \in Rows : PolicyOf[item] = asked.policy}
  <1>1. /\ asked # None /\ asked' = None
        /\ (\E item \in found : Present(item, asked.readOnly)) \/ (found = {} /\ UNCHANGED form)
        /\ UNCHANGED <<listed, saves, dialog, tags, acts>>
    BY DEF Find
  <1>2. asked \in Queries /\ asked.readOnly \in BOOLEAN BY <1>1, QueriesAssumption DEF PolicyIInv, PageTyped
  <1>3. ASSUME NEW item \in found, Present(item, asked.readOnly) PROVE PolicyIInv'
    <2>1. item \in Items BY DEF Rows
    <2> QED BY <1>1, <1>2, <1>3, <2>1, PresentKeeps
  <1>4. CASE UNCHANGED form
    <2>1. UNCHANGED <<editor, statements, expanded, late>> BY <1>4 DEF form
    <2>2. PageTyped' BY <1>1, <2>1 DEF PolicyIInv, PageTyped
    <2> QED BY <1>1, <2>1, <2>2, FormStands
  <1> QED BY <1>1, <1>3, <1>4
-----------------------------------------------------------------------------
(***************************************************************************)
(* The statements of a policy: each edit without a dialog keeps what is    *)
(* known.                                                                  *)
(***************************************************************************)

\* A list whose statements are of another's, as far as resources go, or have none.
LEMMA OwnKept ==
  ASSUME NEW old, TagsAreOwn(old), NEW new,
         \A i \in DOMAIN new : new[i] # Hole =>
           \/ i \in DOMAIN old /\ old[i] # Hole /\ \A f \in ResourceFields : new[i][f] = old[i][f]
           \/ \A f \in ResourceFields : DOMAIN new[i][f] = {}
  PROVE  TagsAreOwn(new)
  <1> SUFFICES ASSUME NEW i \in {k \in DOMAIN new : new[k] # Hole}, NEW j \in {k \in DOMAIN new : new[k] # Hole},
                      NEW f \in ResourceFields, NEW g \in ResourceFields,
                      NEW n \in DOMAIN new[i][f], NEW m \in DOMAIN new[j][g],
                      new[i][f][n].tags # None /\ new[i][f][n].tags = new[j][g][m].tags
               PROVE  i = j /\ f = g /\ n = m
    BY DEF TagsAreOwn
  <1>1. i \in DOMAIN old /\ old[i] # Hole /\ new[i][f] = old[i][f] OBVIOUS
  <1>2. j \in DOMAIN old /\ old[j] # Hole /\ new[j][g] = old[j][g] OBVIOUS
  <1> QED BY <1>1, <1>2 DEF TagsAreOwn

LEMMA Counts == ASSUME PolicyIInv, Act PROVE acts' \in 0..MaxActs
  BY PolicyBoundsAssumption DEF PolicyIInv, PageTyped, Act

\* What changes the form's statements while there is no dialog.
LEMMA FormEdited ==
  ASSUME PolicyIInv, dialog = None, UNCHANGED <<listed, asked, saves, editor, late, dialog, tags>>,
         acts' \in 0..MaxActs, expanded' \in 0..MaxStatements,
         StatementsTyped', StatementsHold', FormIsOwn', ~late => TagsAreOwn(statements')
  PROVE  PolicyIInv'
  <1>1. PageTyped' BY DEF PolicyIInv, PageTyped
  <1>2. TagsTyped' BY DEF PolicyIInv, TagsTyped
  <1>3. DialogFits' /\ DialogIsCurrent' /\ DialogTagsAreOwn' BY DEF DialogFits, DialogIsCurrent, DialogTagsAreOwn
  <1>4. TagsFit' BY <1>3 DEF TagsFit
  <1> QED BY <1>1, <1>2, <1>3, <1>4 DEF PolicyIInv

LEMMA AddStatementKeeps == ASSUME PolicyIInv, AddStatement PROVE PolicyIInv'
  <1> DEFINE blank == BlankStatement(PolicyOf[editor.item])
  <1>1. /\ Edits /\ Len(statements) < MaxStatements /\ statements' = Append(statements, blank)
        /\ UNCHANGED <<listed, asked, saves, editor, expanded, late, dialog, tags>>
    BY DEF AddStatement, StatementsOnly, page
  <1>2. dialog = None /\ editor.open /\ acts' \in 0..MaxActs BY <1>1, Counts DEF Edits
  <1>3. IsList(statements) /\ Len(statements) \in Nat /\ DOMAIN statements = 1..Len(statements)
    BY ListIsSeq DEF PolicyIInv, StatementsTyped
  <1>4. /\ IsStatement(blank) /\ blank # Hole /\ blank.of = PolicyOf[editor.item]
        /\ \A field \in ResourceFields : DOMAIN blank[field] = {}
    BY BlankIs, StatementIs, NamesOfFields
  <1> HIDE DEF blank
  <1>5. /\ IsList(statements') /\ Len(statements') = Len(statements) + 1
        /\ \A j \in 1..Len(statements) : statements'[j] = statements[j]
        /\ statements'[Len(statements) + 1] = blank
    BY <1>1, <1>3, AppendedList
  <1>6. ASSUME NEW i \in DOMAIN statements'
        PROVE  (i \in DOMAIN statements /\ statements'[i] = statements[i]) \/ statements'[i] = blank
    <2>1. DOMAIN statements' = 1..(Len(statements) + 1) BY <1>5, ListIsSeq
    <2>2. i \in 1..Len(statements) \/ i = Len(statements) + 1 BY <1>3, <2>1
    <2> QED BY <1>3, <1>5, <2>2
  <1>7. StatementsTyped'
    <2>1. Len(statements') <= MaxStatements BY <1>1, <1>3, <1>5, PolicyBoundsAssumption
    <2>2. ASSUME NEW i \in DOMAIN statements'
          PROVE  IF statements'[i] = Hole THEN late' ELSE IsStatement(statements'[i])
      BY <1>1, <1>4, <1>6 DEF PolicyIInv, StatementsTyped
    <2> QED BY <1>5, <2>1, <2>2 DEF StatementsTyped
  <1>8. StatementsHold'
    BY <1>1, <1>4, <1>6 DEF PolicyIInv, StatementsHold, HoldsTags, Statements
  <1>9. FormIsOwn' BY <1>1, <1>4, <1>6 DEF PolicyIInv, FormIsOwn, Statements
  <1>10. ASSUME ~late PROVE TagsAreOwn(statements')
    <2>1. TagsAreOwn(statements) BY <1>10 DEF PolicyIInv, TagsFit
    <2>2. ASSUME NEW i \in DOMAIN statements', statements'[i] # Hole
          PROVE  \/ i \in DOMAIN statements /\ statements[i] # Hole
                    /\ \A f \in ResourceFields : statements'[i][f] = statements[i][f]
                 \/ \A f \in ResourceFields : DOMAIN statements'[i][f] = {}
      BY <1>4, <1>6, <2>2
    <2> QED BY <2>1, <2>2, OwnKept
  <1>11. expanded' \in 0..MaxStatements BY <1>1 DEF PolicyIInv, PageTyped
  <1> QED BY <1>1, <1>2, <1>7, <1>8, <1>9, <1>10, <1>11, FormEdited

\* A click on a summary unfolds a statement of the form, or folds it.
LEMMA ToggledIs == ASSUME PolicyIInv, NEW i \in DOMAIN statements PROVE Toggled(i) \in 0..MaxStatements
  <1>1. i \in 1..Len(statements) /\ Len(statements) \in Nat /\ Len(statements) <= MaxStatements
    BY ListIsSeq DEF PolicyIInv, StatementsTyped
  <1>2. i \in 0..MaxStatements /\ 0 \in 0..MaxStatements BY <1>1, PolicyBoundsAssumption
  <1> QED BY <1>2 DEF Toggled

LEMMA ToggleKeeps == ASSUME PolicyIInv, NEW i \in DOMAIN statements, Toggle(i) PROVE PolicyIInv'
  <1>1. expanded' \in 0..MaxStatements BY ToggledIs DEF Toggle
  <1>2. UNCHANGED <<listed, asked, saves, editor, statements, late, dialog, tags, acts>> BY DEF Toggle, page
  <1>3. PageTyped' BY <1>1, <1>2 DEF PolicyIInv, PageTyped
  <1> QED BY <1>2, <1>3, FormStands

LEMMA DeleteStatementKeeps ==
  ASSUME PolicyIInv, NEW i \in DOMAIN statements, DeleteStatement(i)
  PROVE  PolicyIInv'
  <1>1. /\ Edits /\ statements' = SubSeq(statements, 1, i - 1) /\ expanded' = Toggled(i)
        /\ UNCHANGED <<listed, asked, saves, editor, late, dialog, tags>>
    BY DEF DeleteStatement, StatementsOnly, page
  <1>2. dialog = None /\ acts' \in 0..MaxActs BY <1>1, Counts DEF Edits
  <1>3. expanded' \in 0..MaxStatements BY <1>1, ToggledIs
  <1>4. IsList(statements) /\ Len(statements) \in Nat /\ Len(statements) <= MaxStatements /\ i \in 1..Len(statements)
    BY ListIsSeq DEF PolicyIInv, StatementsTyped
  <1>5. /\ IsList(statements') /\ Len(statements') = i - 1 /\ i - 1 <= Len(statements)
        /\ \A j \in 1..(i - 1) : j \in DOMAIN statements /\ statements'[j] = statements[j]
    BY <1>1, <1>4, CutList
  <1>6. \A j \in DOMAIN statements' : j \in DOMAIN statements /\ statements'[j] = statements[j]
    BY <1>5, ListIsSeq
  <1>7. StatementsTyped'
    <2>1. Len(statements') <= MaxStatements BY <1>4, <1>5, PolicyBoundsAssumption
    <2> QED BY <1>1, <1>5, <1>6, <2>1 DEF PolicyIInv, StatementsTyped
  <1>8. StatementsHold'
    <2> SUFFICES ASSUME NEW n \in Statements' PROVE HoldsTags(statements[n])'
      BY DEF StatementsHold
    <2>1. n \in Statements /\ statements'[n] = statements[n] BY <1>6 DEF Statements
    <2>2. HoldsTags(statements[n]) BY <2>1 DEF PolicyIInv, StatementsHold
    <2> QED BY <1>1, <2>1, <2>2 DEF HoldsTags
  <1>9. FormIsOwn' BY <1>1, <1>6 DEF PolicyIInv, FormIsOwn, Statements
  <1>10. ~late => TagsAreOwn(statements') BY <1>6, OwnKept DEF PolicyIInv, TagsFit
  <1> QED BY <1>1, <1>2, <1>3, <1>7, <1>8, <1>9, <1>10, FormEdited

\* A field that holds no list is set in the statement unfolded.
LEMMA FieldSet ==
  ASSUME PolicyIInv, Edits, Unfolded, NEW field \in {"priority", "effect"}, NEW value,
         onChange(expanded, [Current EXCEPT ![field] = value]),
         UNCHANGED <<listed, asked, saves, editor, expanded, late, dialog, tags>>
  PROVE  PolicyIInv'
  <1> DEFINE st == [Current EXCEPT ![field] = value]
  <1>1. dialog = None /\ acts' \in 0..MaxActs BY Counts DEF Edits
  <1>2. expanded \in Statements /\ expanded \in DOMAIN statements BY DEF Unfolded, Statements
  <1>3. IsStatement(Current) BY <1>2 DEF PolicyIInv, StatementsTyped, Statements, Current
  <1>4. field \in FieldNames /\ field \notin ListFields /\ field # "of"
    BY NamesOfFields
  <1>5. IsStatement(st) /\ \A f \in FieldNames : st[f] = IF f = field THEN value ELSE Current[f]
    BY <1>3, <1>4, Rewritten
  <1>6. st # Hole /\ st.of = Current.of /\ \A f \in ListFields : st[f] = Current[f]
    BY <1>4, <1>5, StatementIs, NamesOfFields
  <1>7. onChange(expanded, st) OBVIOUS
  <1> HIDE DEF st
  <1>8. IsList(statements) /\ Len(statements) \in Nat /\ DOMAIN statements = 1..Len(statements)
    BY ListIsSeq DEF PolicyIInv, StatementsTyped
  <1>9. expanded \in Nat \ {0} /\ ~(expanded > Len(statements)) BY <1>2, <1>8
  <1>10. /\ IsList(statements') /\ Len(statements') = Len(statements) /\ statements'[expanded] = st
         /\ \A n \in DOMAIN statements' :
              n = expanded \/ (n \in DOMAIN statements /\ statements'[n] = statements[n])
    BY <1>2, <1>7, <1>8, <1>9, PutIn
  <1>11. StatementsTyped'
    BY <1>5, <1>6, <1>10 DEF PolicyIInv, StatementsTyped
  <1>12. StatementsHold'
    <2> SUFFICES ASSUME NEW n \in Statements' PROVE HoldsTags(statements[n])'
      BY DEF StatementsHold
    <2>1. CASE n = expanded
      <3>1. statements'[n] = st /\ HoldsTags(Current) BY <1>2, <1>10, <2>1 DEF PolicyIInv, StatementsHold, Current
      <3> QED BY <1>6, <3>1, NamesOfFields DEF HoldsTags
    <2>2. CASE n # expanded BY <1>10, <2>2 DEF PolicyIInv, StatementsHold, HoldsTags, Statements
    <2> QED BY <2>1, <2>2
  <1>13. FormIsOwn' BY <1>2, <1>6, <1>10 DEF PolicyIInv, FormIsOwn, Statements, Current
  <1>14. ASSUME ~late PROVE TagsAreOwn(statements')
    <2>1. TagsAreOwn(statements) BY <1>14 DEF PolicyIInv, TagsFit
    <2>2. ASSUME NEW n \in DOMAIN statements', statements'[n] # Hole
          PROVE  n \in DOMAIN statements /\ statements[n] # Hole
                 /\ \A f \in ResourceFields : statements'[n][f] = statements[n][f]
      BY <1>2, <1>6, <1>10, <2>2, NamesOfFields DEF Statements, Current
    <2> QED BY <2>1, <2>2, OwnKept
  <1>15. expanded' \in 0..MaxStatements BY DEF PolicyIInv, PageTyped
  <1> QED BY <1>1, <1>11, <1>12, <1>13, <1>14, <1>15, FormEdited

LEMMA SetKeeps ==
  ASSUME PolicyIInv, NEW value, SetPriority(value) \/ SetEffect(value)
  PROVE  PolicyIInv'
  <1>1. CASE SetPriority(value)
    <2>1. Edits /\ Unfolded /\ onChange(expanded, [Current EXCEPT !["priority"] = value])
          /\ UNCHANGED <<listed, asked, saves, editor, expanded, late, dialog, tags>>
      BY <1>1 DEF SetPriority, StatementsOnly, page
    <2> QED BY <2>1, FieldSet
  <1>2. CASE SetEffect(value)
    <2> DEFINE effect == IF Current.effect = value THEN None ELSE value
    <2>1. Edits /\ Unfolded /\ onChange(expanded, [Current EXCEPT !["effect"] = effect])
          /\ UNCHANGED <<listed, asked, saves, editor, expanded, late, dialog, tags>>
      BY <1>2 DEF SetEffect, StatementsOnly, page
    <2> HIDE DEF effect
    <2> QED BY <2>1, FieldSet
  <1> QED BY <1>1, <1>2
-----------------------------------------------------------------------------
(***************************************************************************)
(* The statements of a policy: each dialog begins, goes on and ends with   *)
(* what is known.                                                          *)
(***************************************************************************)

\* A heap with more objects holds what it held.
LEMMA HeapGrows ==
  ASSUME StatementsHold, UNCHANGED statements, \A t \in 1..MaxTags : tags[t] # None => tags'[t] # None
  PROVE  StatementsHold'
  BY DEF StatementsHold, HoldsTags, Statements

\* What is asked about the statement unfolded, in a field of it or of an entry there.
LEMMA AskKeeps ==
  ASSUME PolicyIInv, NEW field, NEW op, NEW at, NEW held, Ask(field, op, at, held), Unfolded,
         field \in ListFields => /\ op \in {"add", "remove", "edit"}
                                 /\ op # "add" => at[1] \in DOMAIN Current[field],
         field \in WordFields => op # "edit",
         field \in ResourceFields /\ op # "remove" => held # None,
         held # None => /\ field \in ResourceFields /\ op # "remove"
                        /\ held \in 1..MaxTags /\ tags'[held] # None,
         ~late /\ held # None =>
           \A i \in Statements, f \in ResourceFields : \A n \in DOMAIN statements[i][f] :
             statements[i][f][n].tags = held => op = "edit" /\ i = expanded /\ f = field /\ n = at[1],
         TagsTyped', \A t \in 1..MaxTags : tags[t] # None => tags'[t] # None
  PROVE  PolicyIInv'
  <1>1. /\ Edits /\ field \in Fields
        /\ dialog' = [i |-> expanded, st |-> Current, field |-> field, op |-> op, at |-> at, tags |-> held, taggings |-> 0]
        /\ UNCHANGED <<listed, asked, saves, editor, statements, expanded, late>>
    BY DEF Ask, page, form
  <1>2. acts' \in 0..MaxActs BY <1>1, Counts DEF Edits
  <1>3. PageTyped' BY <1>1, <1>2 DEF PolicyIInv, PageTyped
  <1>4. StatementsTyped' BY <1>1 DEF PolicyIInv, StatementsTyped
  <1>5. StatementsHold' BY <1>1, HeapGrows DEF PolicyIInv
  <1>6. expanded \in Statements /\ expanded \in DOMAIN statements BY DEF Unfolded, Statements
  <1>7. expanded \in 1..MaxStatements
    BY <1>6, ListIsSeq, PolicyBoundsAssumption DEF PolicyIInv, StatementsTyped
  <1>8. IsStatement(Current) BY <1>6 DEF PolicyIInv, StatementsTyped, Statements, Current
  <1>9. HoldsTags(Current)'
    BY <1>1, <1>5, <1>6 DEF StatementsHold, Current, Statements, HoldsTags
  <1>10. /\ dialog'.i = expanded /\ dialog'.st = Current /\ dialog'.field = field /\ dialog'.op = op
         /\ dialog'.at = at /\ dialog'.tags = held /\ dialog'.taggings = 0
    BY <1>1
  <1>11. Current' = Current /\ Statements' = Statements BY <1>1 DEF Current, Statements
  <1>12. HoldsTags(dialog.st)' BY <1>9, <1>10, <1>11 DEF HoldsTags
  <1>13. DialogFits'
    BY <1>1, <1>7, <1>8, <1>10, <1>12 DEF DialogFits
  <1>14. DialogIsCurrent' BY <1>1, <1>6, <1>10 DEF DialogIsCurrent, Current
  <1>15. FormIsOwn' BY <1>1, <1>11 DEF PolicyIInv, FormIsOwn
  <1>16. ASSUME ~late PROVE DialogTagsAreOwn'
    BY <1>1, <1>10, <1>11, <1>16 DEF DialogTagsAreOwn
  <1>17. TagsFit' BY <1>1, <1>16 DEF PolicyIInv, TagsFit
  <1> QED BY <1>3, <1>4, <1>5, <1>13, <1>14, <1>15, <1>17 DEF PolicyIInv

LEMMA AskAddKeeps == ASSUME PolicyIInv, Unfolded, NEW field \in ListFields, AskAdd(field) PROVE PolicyIInv'
  <1>1. field \notin ResourceFields /\ Ask(field, "add", << >>, None) /\ tags' = tags BY DEF AskAdd
  <1>2. TagsTyped' BY <1>1 DEF PolicyIInv, TagsTyped
  <1> QED BY <1>1, <1>2, AskKeeps

LEMMA AskRemoveKeeps ==
  ASSUME PolicyIInv, Unfolded, NEW field \in ListFields, NEW n \in Nat, AskRemove(field, n)
  PROVE  PolicyIInv'
  <1>1. n \in DOMAIN Current[field] /\ Ask(field, "remove", <<n>>, None) /\ tags' = tags BY DEF AskRemove
  <1>2. TagsTyped' BY <1>1 DEF PolicyIInv, TagsTyped
  <1>3. <<n>>[1] = n OBVIOUS
  <1> QED BY <1>1, <1>2, <1>3, AskKeeps

LEMMA AskEditKeeps == ASSUME PolicyIInv, Unfolded, NEW n \in Nat, AskEdit(n) PROVE PolicyIInv'
  <1>1. PICK field \in RefFields :
          n \in DOMAIN Current[field] /\ Ask(field, "edit", <<n>>, None) /\ tags' = tags
    BY DEF AskEdit
  <1>2. TagsTyped' BY <1>1 DEF PolicyIInv, TagsTyped
  <1>3. <<n>>[1] = n OBVIOUS
  <1>4. field \in ListFields /\ field \notin WordFields /\ field \notin ResourceFields BY NamesOfFields
  <1> QED BY <1>1, <1>2, <1>3, <1>4, AskKeeps

LEMMA AskConditionKeeps ==
  ASSUME PolicyIInv, Unfolded, NEW op, NEW at, AskCondition(op, at)
  PROVE  PolicyIInv'
  <1>1. Ask("condition", op, at, None) /\ tags' = tags BY DEF AskCondition
  <1>2. TagsTyped' BY <1>1 DEF PolicyIInv, TagsTyped
  <1>3. "condition" \notin ListFields /\ "condition" \notin WordFields /\ "condition" \notin ResourceFields
    BY NamesOfFields
  <1> QED BY <1>1, <1>2, <1>3, AskKeeps

LEMMA AsksConditionKeeps == ASSUME PolicyIInv, AsksCondition PROVE PolicyIInv'
  <1>1. Unfolded /\ \E op, at : AskCondition(op, at) BY DEF AsksCondition, AskKey, AskParam
  <1> QED BY <1>1, AskConditionKeeps

\* An object for tags is one that nobody holds.
LEMMA FreshIs ==
  ASSUME Free # {}, TagsTyped, NEW object \in TagObjects, tags' = [tags EXCEPT ![Fresh] = object]
  PROVE  /\ Fresh \in 1..MaxTags /\ Fresh # None /\ tags[Fresh] = None /\ tags'[Fresh] = object /\ object # None
         /\ TagsTyped' /\ \A t \in 1..MaxTags : tags[t] # None => tags'[t] = tags[t]
  <1>1. Fresh \in Free BY DEF Fresh
  <1>2. Fresh \in 1..MaxTags /\ tags[Fresh] = None BY <1>1 DEF Free
  <1>3. object # None /\ Fresh # None BY <1>2, PolicyNoneAssumption
  <1>4. tags \in [1..MaxTags -> TagObjects \cup {None}] /\ \A t \in DOMAIN StoredTags : t \in 1..MaxTags /\ tags[t] # None
    BY TagsAssumption DEF TagsTyped
  <1>5. tags' \in [1..MaxTags -> TagObjects \cup {None}] /\ \A t \in 1..MaxTags : tags'[t] = IF t = Fresh THEN object ELSE tags[t]
    BY <1>2, <1>4
  <1>6. TagsTyped' BY <1>3, <1>4, <1>5 DEF TagsTyped
  <1> QED BY <1>2, <1>3, <1>5, <1>6

LEMMA NoStatementHoldsFresh ==
  ASSUME StatementsHold, NEW t, tags[t] = None, t # None
  PROVE  \A i \in Statements, f \in ResourceFields : \A n \in DOMAIN statements[i][f] : statements[i][f][n].tags # t
  BY DEF StatementsHold, HoldsTags

LEMMA NothingIsObject == Nothing \in TagObjects
  <1>1. Nothing \in [{} -> TagValues] BY DEF Nothing
  <1>2. {} \in SUBSET (TagKeys \cup {""}) OBVIOUS
  <1> QED BY <1>1, <1>2 DEF TagObjects

LEMMA HoldKeeps ==
  ASSUME PolicyIInv, Unfolded, NEW field \in ResourceFields, NEW op, NEW at, Hold(field, op, at),
         op = "add" \/ (op = "edit" /\ at[1] \in DOMAIN Current[field])
  PROVE  PolicyIInv'
  <1> DEFINE held == IF op = "add" THEN None ELSE Current[field][at[1]].tags
  <1>0. field \in ListFields /\ field \notin WordFields BY NamesOfFields
  <1>1. expanded \in Statements BY DEF Unfolded, Statements
  <1>2. CASE held # None
    <2>1. Ask(field, op, at, held) /\ tags' = tags BY <1>2 DEF Hold
    <2>2. op = "edit" /\ at[1] \in DOMAIN Current[field] /\ held = Current[field][at[1]].tags BY <1>2
    <2> HIDE DEF held
    <2>3. held \in 1..MaxTags /\ tags[held] # None
      BY <1>1, <1>2, <2>2 DEF PolicyIInv, StatementsHold, HoldsTags, Current
    <2>4. ASSUME ~late, NEW i \in Statements, NEW f \in ResourceFields, NEW n \in DOMAIN statements[i][f],
                 statements[i][f][n].tags = held
          PROVE  i = expanded /\ f = field /\ n = at[1]
      <3>1. TagsAreOwn(statements) BY <2>4 DEF PolicyIInv, TagsFit
      <3>2. i \in {k \in DOMAIN statements : statements[k] # Hole} /\ expanded \in {k \in DOMAIN statements : statements[k] # Hole}
        BY <1>1 DEF Statements
      <3>3. at[1] \in DOMAIN statements[expanded][field] /\ statements[expanded][field][at[1]].tags = held
        BY <2>2 DEF Current
      <3> QED BY <1>2, <2>4, <3>1, <3>2, <3>3 DEF TagsAreOwn
    <2>5. TagsTyped' BY <2>1 DEF PolicyIInv, TagsTyped
    <2> QED BY <1>0, <1>2, <2>1, <2>2, <2>3, <2>4, <2>5, AskKeeps
  <1>3. CASE held = None
    <2>1. Free # {} /\ Ask(field, op, at, Fresh) /\ tags' = [tags EXCEPT ![Fresh] = Nothing] BY <1>3 DEF Hold
    <2> HIDE DEF held
    <2>2. /\ Fresh \in 1..MaxTags /\ Fresh # None /\ tags[Fresh] = None /\ tags'[Fresh] # None
          /\ TagsTyped' /\ \A t \in 1..MaxTags : tags[t] # None => tags'[t] # None
      BY <2>1, FreshIs, NothingIsObject DEF PolicyIInv
    <2>3. \A i \in Statements, f \in ResourceFields : \A n \in DOMAIN statements[i][f] : statements[i][f][n].tags # Fresh
      BY <2>2, NoStatementHoldsFresh DEF PolicyIInv
    <2> QED BY <1>0, <2>1, <2>2, <2>3, AskKeeps
  <1> QED BY <1>2, <1>3
\* What a dialog puts in place of a list.
Puts(d, new) ==
  LET list == d.st[d.field] IN
  \/ new = list
  \/ /\ d.op = "add"
     /\ \E e : new = Append(list, e) /\ (d.field \in ResourceFields => e.tags = d.tags)
  \/ d.op = "remove" /\ new = RemoveAt(list, d.at[1])
  \/ /\ d.op = "edit"
     /\ \E e : new = [list EXCEPT ![d.at[1]] = e] /\ (d.field \in ResourceFields => e.tags = d.tags)

LEMMA AnswerIs ==
  ASSUME DialogFits, dialog # None, dialog.field \in ListFields, NEW new \in Answers(dialog), new # None
  PROVE  Puts(dialog, new)
  <1> DEFINE list == dialog.st[dialog.field]
  <1>1. dialog.op \in {"add", "remove", "edit"} /\ (dialog.field \in WordFields => dialog.op # "edit")
    BY DEF DialogFits
  <1>2. CASE dialog.field \in WordFields
    <2>1. new \in WordAnswers(list, dialog) BY <1>2, NamesOfFields DEF Answers
    <2>2. dialog.field \notin ResourceFields BY <1>2, NamesOfFields
    <2> QED BY <1>1, <1>2, <2>1, <2>2 DEF WordAnswers, Puts
  <1>3. CASE dialog.field \in RefFields
    <2>1. dialog.field \notin ResourceFields /\ dialog.field \notin WordFields BY <1>3, NamesOfFields
    <2>2. CASE dialog.op = "add"
      <3>1. new \in PrincipalAnswers(list) BY <1>3, <2>1, <2>2 DEF Answers
      <3> QED BY <2>1, <2>2, <3>1 DEF PrincipalAnswers, Puts
    <2>3. CASE dialog.op # "add"
      <3>1. new \in RefListAnswers(list, dialog) BY <1>3, <2>1, <2>3 DEF Answers
      <3> QED BY <1>1, <2>1, <2>3, <3>1 DEF RefListAnswers, ReplaceAt, Puts
    <2> QED BY <2>2, <2>3
  <1>4. CASE dialog.field \in ResourceFields
    <2>1. dialog.field \notin RefFields /\ dialog.field \notin WordFields BY <1>4, NamesOfFields
    <2>0. \A ref : Resource(ref, dialog.tags).tags = dialog.tags BY DEF Resource
    <2>2. CASE dialog.op = "add"
      <3>1. new \in ResourceAnswers(list, dialog) BY <1>4, <2>1, <2>2 DEF Answers
      <3> QED BY <2>0, <2>2, <3>1 DEF ResourceAnswers, Puts
    <2>3. CASE dialog.op # "add"
      <3>1. new \in ResourceListAnswers(list, dialog) BY <1>4, <2>1, <2>3 DEF Answers
      <3> QED BY <1>1, <2>0, <2>3, <3>1 DEF ResourceListAnswers, ReplaceAt, Puts
    <2> QED BY <2>2, <2>3
  <1> QED BY <1>2, <1>3, <1>4 DEF ListFields

\* The entry of the list before that is the nth after the kth is taken out.
From(k, n) == IF n < k THEN n ELSE n + 1

\* What is put is a list, of the entries there were but for the one the dialog is for.
LEMMA PutsFrom ==
  ASSUME DialogFits, dialog # None, dialog.field \in ListFields, NEW new, Puts(dialog, new)
  PROVE  /\ IsList(new) /\ OneEntry(dialog.st[dialog.field], new)
         /\ dialog.field \in ResourceFields =>
              \E k \in Nat, at \in Nat :
                /\ \A n \in DOMAIN new : n # at =>
                     From(k, n) \in DOMAIN dialog.st[dialog.field] /\ new[n] = dialog.st[dialog.field][From(k, n)]
                /\ at \in DOMAIN new =>
                     /\ dialog.op # "remove" /\ new[at].tags = dialog.tags
                     /\ dialog.op = "edit" => From(k, at) = dialog.at[1]
  <1> DEFINE list == dialog.st[dialog.field]
             place == dialog.at[1]
             Moves(k, at) ==
               /\ \A n \in DOMAIN new : n # at => From(k, n) \in DOMAIN list /\ new[n] = list[From(k, n)]
               /\ at \in DOMAIN new =>
                    /\ dialog.op # "remove" /\ new[at].tags = dialog.tags
                    /\ dialog.op = "edit" => From(k, at) = place
  <1>1. IsList(list) BY StatementIs DEF DialogFits
  <1>2. dialog.op # "add" => place \in DOMAIN list BY DEF DialogFits
  <1> SUFFICES IsList(new) /\ OneEntry(list, new)
               /\ (dialog.field \in ResourceFields => \E k \in Nat, at \in Nat : Moves(k, at))
    OBVIOUS
  <1>3. new = list
        \/ (dialog.op = "add" /\ \E e : new = Append(list, e) /\ (dialog.field \in ResourceFields => e.tags = dialog.tags))
        \/ (dialog.op = "remove" /\ new = RemoveAt(list, place))
        \/ (dialog.op = "edit" /\ \E e : new = [list EXCEPT ![place] = e] /\ (dialog.field \in ResourceFields => e.tags = dialog.tags))
    BY DEF Puts
  <1> HIDE DEF list, place
  <1>4. Len(list) \in Nat /\ DOMAIN list = 1..Len(list) BY <1>1, ListIsSeq
  <1>5. CASE new = list
    <2>1. Moves(Len(list) + 1, 0) BY <1>4, <1>5 DEF From
    <2>2. OneEntry(list, new) BY <1>5 DEF OneEntry
    <2>3. Len(list) + 1 \in Nat /\ 0 \in Nat BY <1>4
    <2> HIDE DEF Moves
    <2> QED BY <1>1, <1>5, <2>1, <2>2, <2>3
  <1>6. ASSUME dialog.op = "add", NEW e, new = Append(list, e), dialog.field \in ResourceFields => e.tags = dialog.tags
        PROVE  IsList(new) /\ OneEntry(list, new) /\ (dialog.field \in ResourceFields => \E k \in Nat, at \in Nat : Moves(k, at))
    <2>1. /\ IsList(new) /\ Len(new) = Len(list) + 1 /\ new[Len(list) + 1] = e
          /\ \A j \in 1..Len(list) : new[j] = list[j]
      BY <1>1, <1>6, AppendedList
    <2>2. DOMAIN new = 1..(Len(list) + 1) BY <2>1, ListIsSeq
    <2>3. RemoveAt(new, Len(list) + 1) = list
      <3>1. Len(list) + 1 \in DOMAIN new BY <1>4, <2>2
      <3>2. /\ IsList(RemoveAt(new, Len(list) + 1)) /\ Len(RemoveAt(new, Len(list) + 1)) = Len(new) - 1
            /\ \A j \in 1..(Len(new) - 1) : RemoveAt(new, Len(list) + 1)[j] = IF j < Len(list) + 1 THEN new[j] ELSE new[j + 1]
        BY <2>1, <3>1, RemovedList
      <3> DEFINE cut == RemoveAt(new, Len(list) + 1)
      <3>3. Len(new) - 1 = Len(list) BY <1>4, <2>1
      <3>4. IsList(cut) /\ Len(cut) = Len(list) /\ \A j \in 1..Len(list) : cut[j] = list[j]
        BY <1>4, <2>1, <3>2, <3>3
      <3> HIDE DEF cut
      <3>5. cut = [j \in 1..Len(list) |-> cut[j]] /\ list = [j \in 1..Len(list) |-> list[j]] BY <1>1, <3>4 DEF IsList
      <3>6. cut = list BY <3>4, <3>5
      <3> QED BY <3>6 DEF cut
    <2>4. OneEntry(list, new) BY <1>4, <2>2, <2>3 DEF OneEntry
    <2>5. ASSUME dialog.field \in ResourceFields PROVE Moves(Len(list) + 2, Len(list) + 1)
      BY <1>4, <1>6, <2>1, <2>2, <2>5 DEF From
    <2>6. Len(list) + 2 \in Nat /\ Len(list) + 1 \in Nat BY <1>4
    <2> HIDE DEF Moves
    <2> QED BY <2>1, <2>4, <2>5, <2>6
  <1>7. CASE dialog.op = "remove" /\ new = RemoveAt(list, place)
    <2>0. place \in DOMAIN list BY <1>2, <1>7
    <2>1. /\ IsList(new) /\ Len(new) = Len(list) - 1
          /\ \A j \in 1..(Len(list) - 1) : new[j] = IF j < place THEN list[j] ELSE list[j + 1]
      BY <1>1, <1>7, <2>0, RemovedList
    <2>2. DOMAIN new = 1..(Len(list) - 1) /\ place \in Nat BY <1>4, <2>0, <2>1, ListIsSeq
    <2>3. OneEntry(list, new) BY <1>7, <2>0 DEF OneEntry
    <2>4. Moves(place, 0)
      <3>1. ASSUME NEW n \in DOMAIN new PROVE From(place, n) \in DOMAIN list /\ new[n] = list[From(place, n)]
        <4>1. CASE n < place BY <1>4, <2>1, <2>2, <4>1 DEF From
        <4>2. CASE ~(n < place) BY <1>4, <2>1, <2>2, <4>2 DEF From
        <4> QED BY <4>1, <4>2
      <3> QED BY <2>2, <3>1
    <2> QED BY <2>1, <2>2, <2>3, <2>4
  <1>8. ASSUME dialog.op = "edit", NEW e, new = [list EXCEPT ![place] = e], dialog.field \in ResourceFields => e.tags = dialog.tags
        PROVE  IsList(new) /\ OneEntry(list, new) /\ (dialog.field \in ResourceFields => \E k \in Nat, at \in Nat : Moves(k, at))
    <2>0. place \in DOMAIN list /\ place \in Nat BY <1>2, <1>4, <1>8
    <2>1. /\ IsList(new) /\ Len(new) = Len(list)
          /\ \A j \in 1..Len(list) : new[j] = IF j = place THEN e ELSE list[j]
      <3>1. new = [list EXCEPT ![place] = e] BY <1>8
      <3>2. /\ IsList([list EXCEPT ![place] = e]) /\ Len([list EXCEPT ![place] = e]) = Len(list)
            /\ \A j \in 1..Len(list) : [list EXCEPT ![place] = e][j] = IF j = place THEN e ELSE list[j]
        BY <1>1, <2>0, ReplacedList
      <3> QED BY <3>1, <3>2
    <2>2. DOMAIN new = 1..Len(list) BY <2>1, ListIsSeq
    <2>3. RemoveAt(list, place) = RemoveAt(new, place)
      <3> DEFINE a == RemoveAt(list, place)
                 b == RemoveAt(new, place)
      <3>1. place \in DOMAIN new BY <1>4, <2>0, <2>2
      <3>2. /\ IsList(a) /\ Len(a) = Len(list) - 1
            /\ \A j \in 1..(Len(list) - 1) : a[j] = IF j < place THEN list[j] ELSE list[j + 1]
        BY <1>1, <2>0, RemovedList
      <3>3. /\ IsList(b) /\ Len(b) = Len(list) - 1
            /\ \A j \in 1..(Len(list) - 1) : b[j] = IF j < place THEN new[j] ELSE new[j + 1]
        BY <2>1, <3>1, RemovedList
      <3> HIDE DEF a, b
      <3>4. ASSUME NEW j \in 1..(Len(list) - 1) PROVE a[j] = b[j]
        <4>1. CASE j < place
          <5>1. j \in 1..Len(list) /\ j # place BY <1>4, <2>0, <4>1
          <5> QED BY <2>1, <3>2, <3>3, <4>1, <5>1
        <4>2. CASE ~(j < place)
          <5>1. j + 1 \in 1..Len(list) /\ j + 1 # place BY <1>4, <2>0, <4>2
          <5> QED BY <2>1, <3>2, <3>3, <4>2, <5>1
        <4> QED BY <4>1, <4>2
      <3>5. a = [j \in 1..(Len(list) - 1) |-> a[j]] /\ b = [j \in 1..(Len(list) - 1) |-> b[j]] BY <3>2, <3>3 DEF IsList
      <3>6. a = b BY <3>4, <3>5
      <3> QED BY <3>6 DEF a, b
    <2>4. OneEntry(list, new)
      <3>1. place \in DOMAIN list \cap DOMAIN new BY <1>4, <2>0, <2>2
      <3> QED BY <2>3, <3>1 DEF OneEntry
    <2>5. ASSUME dialog.field \in ResourceFields PROVE Moves(Len(list) + 1, place)
      BY <1>4, <1>8, <2>0, <2>1, <2>2, <2>5 DEF From
    <2>6. Len(list) + 1 \in Nat BY <1>4
    <2> HIDE DEF Moves
    <2> QED BY <2>0, <2>1, <2>4, <2>5, <2>6
  <1> QED BY <1>3, <1>5, <1>6, <1>7, <1>8
\* A list in which the entries of one field of one statement are of those before, but for
\* one, whose tags only the entry in its place held.
LEMMA OwnPut ==
  ASSUME NEW old, TagsAreOwn(old), NEW i \in DOMAIN old, old[i] # Hole, NEW field \in ResourceFields, NEW new,
         \A j \in DOMAIN new : j \in DOMAIN old /\ (j # i => new[j] = old[j]),
         \A f \in ResourceFields : f # field => new[i][f] = old[i][f],
         NEW k \in Nat, NEW at \in Nat, DOMAIN new[i][field] \subseteq Nat,
         \A n \in DOMAIN new[i][field] : n # at =>
           From(k, n) \in DOMAIN old[i][field] /\ new[i][field][n].tags = old[i][field][From(k, n)].tags,
         at \in DOMAIN new[i][field] =>
           \A j \in {l \in DOMAIN old : old[l] # Hole}, f \in ResourceFields : \A n \in DOMAIN old[j][f] :
             old[j][f][n].tags = new[i][field][at].tags => j = i /\ f = field /\ n = From(k, at)
  PROVE  TagsAreOwn(new)
  <1> DEFINE Full(list) == {l \in DOMAIN list : list[l] # Hole}
             Was(j, f, n) == IF j = i /\ f = field THEN From(k, n) ELSE n
             Special(j, f, n) == j = i /\ f = field /\ n = at
  <1>1. ASSUME NEW n \in Nat, NEW m \in Nat, From(k, n) = From(k, m) PROVE n = m
    BY <1>1 DEF From
  <1>2. ASSUME NEW j \in Full(new), NEW f \in ResourceFields, NEW n \in DOMAIN new[j][f], ~Special(j, f, n)
        PROVE  /\ j \in Full(old) /\ Was(j, f, n) \in DOMAIN old[j][f]
               /\ new[j][f][n].tags = old[j][f][Was(j, f, n)].tags
    <2>1. CASE j = i /\ f = field
      <3>1. n \in DOMAIN new[i][field] /\ n # at BY <1>2, <2>1
      <3>2. From(k, n) \in DOMAIN old[i][field] /\ new[i][field][n].tags = old[i][field][From(k, n)].tags BY <3>1
      <3> QED BY <2>1, <3>2
    <2>2. CASE j = i /\ f # field
      <3>1. new[j][f] = old[j][f] BY <2>2
      <3> QED BY <1>2, <2>2, <3>1
    <2>3. CASE j # i
      <3>1. j \in DOMAIN old /\ new[j] = old[j] BY <1>2, <2>3
      <3> QED BY <1>2, <2>3, <3>1
    <2> QED BY <2>1, <2>2, <2>3
  <1>3. ASSUME NEW f \in ResourceFields, NEW j \in Full(new), NEW n \in DOMAIN new[j][f], at \in DOMAIN new[i][field],
               new[i][field][at].tags = new[j][f][n].tags
        PROVE  Special(j, f, n)
    <2> SUFFICES ASSUME ~Special(j, f, n) PROVE FALSE OBVIOUS
    <2>1. /\ j \in Full(old) /\ Was(j, f, n) \in DOMAIN old[j][f]
          /\ old[j][f][Was(j, f, n)].tags = new[i][field][at].tags
      BY <1>2, <1>3
    <2>2. j = i /\ f = field /\ Was(j, f, n) = From(k, at) BY <1>3, <2>1
    <2>3. From(k, n) = From(k, at) /\ n \in Nat BY <2>2
    <2> QED BY <1>1, <2>2, <2>3
  <1> SUFFICES ASSUME NEW j \in Full(new), NEW l \in Full(new), NEW f \in ResourceFields, NEW g \in ResourceFields,
                      NEW n \in DOMAIN new[j][f], NEW m \in DOMAIN new[l][g],
                      new[j][f][n].tags # None, new[j][f][n].tags = new[l][g][m].tags
               PROVE  j = l /\ f = g /\ n = m
    BY DEF TagsAreOwn
  <1>4. CASE Special(j, f, n) BY <1>3, <1>4
  <1>5. CASE Special(l, g, m) BY <1>3, <1>5
  <1>6. CASE ~Special(j, f, n) /\ ~Special(l, g, m)
    <2>1. /\ j \in Full(old) /\ Was(j, f, n) \in DOMAIN old[j][f]
          /\ new[j][f][n].tags = old[j][f][Was(j, f, n)].tags
      BY <1>2, <1>6
    <2>2. /\ l \in Full(old) /\ Was(l, g, m) \in DOMAIN old[l][g]
          /\ new[l][g][m].tags = old[l][g][Was(l, g, m)].tags
      BY <1>2, <1>6
    <2> HIDE DEF Was
    <2>3. j = l /\ f = g /\ Was(j, f, n) = Was(l, g, m)
      <3>1. ASSUME NEW a \in DOMAIN old[j][f], NEW b \in DOMAIN old[l][g],
                   old[j][f][a].tags # None, old[j][f][a].tags = old[l][g][b].tags
            PROVE  j = l /\ f = g /\ a = b
        BY <2>1, <2>2, <3>1 DEF TagsAreOwn
      <3>2. PICK a : a = Was(j, f, n) OBVIOUS
      <3>3. PICK b : b = Was(l, g, m) OBVIOUS
      <3>4. a \in DOMAIN old[j][f] /\ b \in DOMAIN old[l][g] BY <2>1, <2>2, <3>2, <3>3
      <3>5. old[j][f][a].tags # None /\ old[j][f][a].tags = old[l][g][b].tags BY <2>1, <2>2, <3>2, <3>3
      <3>6. j = l /\ f = g /\ a = b BY <3>1, <3>4, <3>5
      <3> QED BY <3>2, <3>3, <3>6
    <2>4. CASE j = i /\ f = field
      <3>1. From(k, n) = From(k, m) /\ n \in Nat /\ m \in Nat BY <2>3, <2>4 DEF Was
      <3> QED BY <1>1, <2>3, <3>1
    <2>5. CASE ~(j = i /\ f = field) BY <2>3, <2>5 DEF Was
    <2> QED BY <2>4, <2>5
  <1> QED BY <1>4, <1>5, <1>6

\* The statement a dialog puts back.
LEMMA PutBack ==
  ASSUME PolicyIInv, dialog # None, NEW new \in Answers(dialog), new # None
  PROVE  LET st == [dialog.st EXCEPT ![dialog.field] = new] IN
         /\ IsStatement(st) /\ st # Hole /\ st.of = dialog.st.of /\ HoldsTags(st)
         /\ \A f \in FieldNames : st[f] = IF f = dialog.field THEN new ELSE dialog.st[f]
  <1> DEFINE st == [dialog.st EXCEPT ![dialog.field] = new]
  <1>1. IsStatement(dialog.st) /\ HoldsTags(dialog.st) /\ dialog.field \in Fields BY DEF PolicyIInv, DialogFits
  <1>2. dialog.field \in FieldNames /\ dialog.field # "of" /\ "of" \in FieldNames BY <1>1, NamesOfFields
  <1>3. ASSUME dialog.field \in ListFields PROVE Puts(dialog, new)
    BY <1>3, AnswerIs DEF PolicyIInv
  <1>4. dialog.field \in ListFields => IsList(new) BY <1>3, PutsFrom DEF PolicyIInv
  <1>5. IsStatement(st) /\ \A f \in FieldNames : st[f] = IF f = dialog.field THEN new ELSE dialog.st[f]
    BY <1>1, <1>2, <1>4, Rewritten
  <1> HIDE DEF st
  <1>6. st # Hole BY <1>5, StatementIs
  <1>7. HoldsTags(st)
    <2> SUFFICES ASSUME NEW f \in ResourceFields, NEW n \in DOMAIN st[f], st[f][n].tags # None
                 PROVE  st[f][n].tags \in 1..MaxTags /\ tags[st[f][n].tags] # None
      BY DEF HoldsTags
    <2>0. f \in FieldNames /\ f \in ListFields BY NamesOfFields
    <2>1. CASE f # dialog.field
      <3>1. st[f] = dialog.st[f] BY <1>5, <2>0, <2>1
      <3> QED BY <1>1, <3>1 DEF HoldsTags
    <2>2. CASE f = dialog.field
      <3>1. st[f] = new BY <1>5, <2>0, <2>2
      <3>2. PICK k \in Nat, at \in Nat :
              /\ \A m \in DOMAIN new : m # at =>
                   From(k, m) \in DOMAIN dialog.st[dialog.field] /\ new[m] = dialog.st[dialog.field][From(k, m)]
              /\ at \in DOMAIN new =>
                   /\ dialog.op # "remove" /\ new[at].tags = dialog.tags
                   /\ dialog.op = "edit" => From(k, at) = dialog.at[1]
        BY <1>3, <2>0, <2>2, PutsFrom DEF PolicyIInv
      <3>3. CASE n = at
        <4>1. st[f][n].tags = dialog.tags BY <3>1, <3>2, <3>3
        <4> QED BY <4>1 DEF PolicyIInv, DialogFits
      <3>4. CASE n # at
        <4>1. From(k, n) \in DOMAIN dialog.st[f] /\ st[f][n] = dialog.st[f][From(k, n)] BY <2>2, <3>1, <3>2, <3>4
        <4> QED BY <1>1, <4>1 DEF HoldsTags
      <3> QED BY <3>3, <3>4
    <2> QED BY <2>1, <2>2
  <1> QED BY <1>2, <1>5, <1>6, <1>7 DEF st

LEMMA AnsweredKeeps == ASSUME PolicyIInv, Answered PROVE PolicyIInv'
  <1>1. PICK new \in Answers(dialog) : Answer(new) BY DEF Answered
  <1>2. /\ dialog # None /\ dialog' = None
        /\ UNCHANGED <<listed, asked, saves, editor, expanded, late, tags, acts>>
    BY <1>1 DEF Answered, Answer, page
  <1>3. PageTyped' BY <1>2 DEF PolicyIInv, PageTyped
  <1>4. TagsTyped' BY <1>2 DEF PolicyIInv, TagsTyped
  <1>5. DialogFits' /\ DialogIsCurrent' /\ DialogTagsAreOwn' BY <1>2 DEF DialogFits, DialogIsCurrent, DialogTagsAreOwn
  <1>6. CASE new = None
    <2>1. statements' = statements BY <1>1, <1>6 DEF Answer
    <2>2. Statements' = Statements BY <2>1 DEF Statements
    <2>3. StatementsTyped' BY <1>2, <2>1 DEF PolicyIInv, StatementsTyped
    <2>4. StatementsHold' BY <1>2, <2>1, HeapGrows DEF PolicyIInv
    <2>5. FormIsOwn' BY <1>2, <2>1, <2>2 DEF PolicyIInv, FormIsOwn
    <2>6. TagsFit' BY <1>2, <1>5, <2>1 DEF PolicyIInv, TagsFit
    <2> QED BY <1>3, <1>4, <1>5, <2>3, <2>4, <2>5, <2>6 DEF PolicyIInv
  <1>7. CASE new # None
    <2> DEFINE st == [dialog.st EXCEPT ![dialog.field] = new]
               i == dialog.i
    <2>1. /\ IsStatement(st) /\ st # Hole /\ st.of = dialog.st.of /\ HoldsTags(st)
          /\ \A f \in FieldNames : st[f] = IF f = dialog.field THEN new ELSE dialog.st[f]
      BY <1>2, <1>7, PutBack
    <2>2. onChange(i, st) BY <1>1, <1>7 DEF Answer
    <2>3. dialog.field \in Fields /\ i \in 1..MaxStatements BY <1>2 DEF PolicyIInv, DialogFits
    <2>4. IsList(statements) /\ Len(statements) \in Nat /\ Len(statements) <= MaxStatements
          /\ DOMAIN statements = 1..Len(statements)
      BY ListIsSeq DEF PolicyIInv, StatementsTyped
    <2>5. ~late => i \in DOMAIN statements /\ statements[i] = dialog.st
      BY <1>2 DEF PolicyIInv, DialogIsCurrent
    <2>6. dialog.st # Hole BY <1>2, StatementIs DEF PolicyIInv, DialogFits
    <2> HIDE DEF st, i
    <2>7. /\ IsList(statements') /\ i \in DOMAIN statements' /\ statements'[i] = st
          /\ Len(statements') = IF i > Len(statements) THEN i ELSE Len(statements)
          /\ \A n \in DOMAIN statements' :
               n = i \/ (n \in DOMAIN statements /\ statements'[n] = statements[n])
                     \/ (statements'[n] = Hole /\ i \notin DOMAIN statements)
      BY <2>2, <2>3, <2>4, PutIn
    <2>8. StatementsTyped'
      <3>1. Len(statements') <= MaxStatements BY <2>3, <2>4, <2>7, PolicyBoundsAssumption
      <3>2. ASSUME NEW n \in DOMAIN statements'
            PROVE  IF statements'[n] = Hole THEN late' ELSE IsStatement(statements'[n])
        <4>1. CASE n = i BY <2>1, <2>7, <4>1
        <4>2. CASE n \in DOMAIN statements /\ statements'[n] = statements[n]
          BY <1>2, <4>2 DEF PolicyIInv, StatementsTyped
        <4>3. CASE statements'[n] = Hole /\ i \notin DOMAIN statements BY <1>2, <2>5, <4>3 DEF PolicyIInv, PageTyped
        <4> QED BY <2>7, <4>1, <4>2, <4>3
      <3> QED BY <2>7, <3>1, <3>2 DEF StatementsTyped
    <2>9. StatementsHold'
      <3> SUFFICES ASSUME NEW n \in Statements' PROVE HoldsTags(statements[n])'
        BY DEF StatementsHold
      <3>1. CASE n = i BY <1>2, <2>1, <2>7, <3>1 DEF HoldsTags
      <3>2. CASE n # i
        <4>1. n \in Statements /\ statements'[n] = statements[n] BY <2>7, <3>2 DEF Statements
        <4>2. HoldsTags(statements[n]) BY <4>1 DEF PolicyIInv, StatementsHold
        <4> QED BY <1>2, <4>1, <4>2 DEF HoldsTags
      <3> QED BY <3>1, <3>2
    <2>10. ASSUME ~late
           PROVE  \A n \in DOMAIN statements' : n \in DOMAIN statements /\ (n # i => statements'[n] = statements[n])
      BY <2>5, <2>7, <2>10
    <2>11. FormIsOwn'
      <3> SUFFICES ASSUME editor.item # None, ~late, NEW n \in Statements' PROVE statements'[n].of = PolicyOf[editor.item]
        BY <1>2 DEF FormIsOwn
      <3>1. CASE n = i
        <4>1. i \in Statements /\ statements[i] = dialog.st BY <2>5, <2>6 DEF Statements
        <4> QED BY <2>1, <2>7, <3>1, <4>1 DEF PolicyIInv, FormIsOwn
      <3>2. CASE n # i
        <4>1. n \in Statements /\ statements'[n] = statements[n] BY <2>10, <3>2 DEF Statements
        <4> QED BY <4>1 DEF PolicyIInv, FormIsOwn
      <3> QED BY <3>1, <3>2
    <2>12. ASSUME ~late PROVE TagsAreOwn(statements')
      <3>1. TagsAreOwn(statements) /\ DialogTagsAreOwn BY <2>12 DEF PolicyIInv, TagsFit
      <3>2. i \in DOMAIN statements /\ statements[i] = dialog.st /\ statements[i] # Hole BY <2>5, <2>6, <2>12
      <3>3. CASE dialog.field \notin ResourceFields
        <4>1. \A f \in ResourceFields : statements'[i][f] = statements[i][f]
          BY <2>1, <2>7, <3>2, <3>3, NamesOfFields
        <4>2. ASSUME NEW n \in DOMAIN statements', statements'[n] # Hole
              PROVE  n \in DOMAIN statements /\ statements[n] # Hole
                     /\ \A f \in ResourceFields : statements'[n][f] = statements[n][f]
          <5>1. CASE n = i BY <3>2, <4>1, <5>1
          <5>2. CASE n # i BY <2>10, <2>12, <4>2, <5>2
          <5> QED BY <5>1, <5>2
        <4> QED BY <3>1, <4>2, OwnKept
      <3>4. CASE dialog.field \in ResourceFields
        <4>0. dialog.field \in ListFields /\ dialog.field \in FieldNames BY <3>4, NamesOfFields
        <4>1. Puts(dialog, new) BY <1>2, <1>7, <4>0, AnswerIs DEF PolicyIInv
        <4>2. IsList(new) BY <1>2, <4>0, <4>1, PutsFrom DEF PolicyIInv
        <4>3. PICK k \in Nat, at \in Nat :
                /\ \A m \in DOMAIN new : m # at =>
                     From(k, m) \in DOMAIN dialog.st[dialog.field] /\ new[m] = dialog.st[dialog.field][From(k, m)]
                /\ at \in DOMAIN new =>
                     /\ dialog.op # "remove" /\ new[at].tags = dialog.tags
                     /\ dialog.op = "edit" => From(k, at) = dialog.at[1]
          BY <1>2, <3>4, <4>0, <4>1, PutsFrom DEF PolicyIInv
        <4>4. statements'[i][dialog.field] = new BY <2>1, <2>7, <4>0
        <4>5. DOMAIN new \subseteq Nat BY <4>2, ListIsSeq
        <4>6. ASSUME NEW f \in ResourceFields, f # dialog.field PROVE statements'[i][f] = statements[i][f]
          <5>1. f \in FieldNames BY NamesOfFields
          <5>2. st[f] = dialog.st[f] BY <2>1, <4>6, <5>1
          <5> QED BY <2>7, <3>2, <5>2
        <4>7. ASSUME at \in DOMAIN new, NEW j \in {l \in DOMAIN statements : statements[l] # Hole}, NEW f \in ResourceFields,
                     NEW n \in DOMAIN statements[j][f], statements[j][f][n].tags = new[at].tags
              PROVE  j = i /\ f = dialog.field /\ n = From(k, at)
          <5>1. /\ dialog.op # "remove" /\ new[at].tags = dialog.tags
                /\ dialog.op = "edit" => From(k, at) = dialog.at[1]
            BY <4>3, <4>7
          <5>2. j \in Statements BY DEF Statements
          <5>3. dialog.tags # None BY <1>2, <3>4, <5>1 DEF PolicyIInv, DialogFits
          <5> QED BY <1>2, <3>1, <4>7, <5>1, <5>2, <5>3 DEF DialogTagsAreOwn, i
        <4> QED BY <2>10, <2>12, <3>1, <3>2, <3>4, <4>3, <4>4, <4>5, <4>6, <4>7, OwnPut
      <3> QED BY <3>3, <3>4
    <2>13. TagsFit' BY <1>2, <1>5, <2>12 DEF TagsFit
    <2> QED BY <1>3, <1>4, <1>5, <2>8, <2>9, <2>11, <2>13 DEF PolicyIInv
  <1> QED BY <1>6, <1>7
\* What writing a tag, and taking one away, makes of an object is one.
LEMMA TagPut ==
  ASSUME NEW object \in TagObjects, NEW key \in TagKeys \cup {""}, NEW value \in Words \cup {""}
  PROVE  Put(object, key, value) \in TagObjects /\ Omit(object, key) \in TagObjects
  <1>1. PICK keys \in SUBSET (TagKeys \cup {""}) : object \in [keys -> TagValues] BY DEF TagObjects
  <1>2. value \in TagValues BY DEF TagValues
  <1>3. Put(object, key, value) \in [keys \cup {key} -> TagValues] BY <1>1, <1>2 DEF Put
  <1>4. Omit(object, key) \in [keys \ {key} -> TagValues] BY <1>1 DEF Omit, Restrict
  <1>5. keys \cup {key} \in SUBSET (TagKeys \cup {""}) /\ keys \ {key} \in SUBSET (TagKeys \cup {""}) BY <1>1
  <1> QED BY <1>3, <1>4, <1>5 DEF TagObjects

\* A dialog that goes on with its tags, or with others that nobody holds.
LEMMA TaggingKeeps ==
  ASSUME PolicyIInv, dialog # None, dialog.tags # None, NEW held, Tagging(held),
         held \in 1..MaxTags, held # None, tags'[held] # None,
         TagsTyped', \A t \in 1..MaxTags : tags[t] # None => tags'[t] # None,
         \/ held = dialog.tags
         \/ \A i \in Statements, f \in ResourceFields : \A n \in DOMAIN statements[i][f] : statements[i][f][n].tags # held
  PROVE  PolicyIInv'
  <1>1. /\ dialog' = [dialog EXCEPT !.tags = held, !.taggings = @ + 1]
        /\ UNCHANGED <<listed, asked, saves, editor, statements, expanded, late, acts>>
    BY DEF Tagging, page, form
  <1>2. dialog = [i |-> dialog.i, st |-> dialog.st, field |-> dialog.field, op |-> dialog.op, at |-> dialog.at,
                  tags |-> dialog.tags, taggings |-> dialog.taggings]
    BY DEF PolicyIInv, DialogFits
  <1>3. PICK count : count = dialog.taggings + 1 OBVIOUS
  <1>4. dialog' = [i |-> dialog.i, st |-> dialog.st, field |-> dialog.field, op |-> dialog.op, at |-> dialog.at,
                   tags |-> held, taggings |-> count]
    <2> DEFINE d == [dialog EXCEPT !.tags = held]
    <2>1. dialog' = [d EXCEPT !.taggings = count] BY <1>1, <1>3
    <2>2. d = [i |-> dialog.i, st |-> dialog.st, field |-> dialog.field, op |-> dialog.op, at |-> dialog.at,
               tags |-> held, taggings |-> dialog.taggings]
      BY <1>2
    <2> HIDE DEF d
    <2> QED BY <2>1, <2>2
  <1>5. /\ dialog'.i = dialog.i /\ dialog'.st = dialog.st /\ dialog'.field = dialog.field /\ dialog'.op = dialog.op
        /\ dialog'.at = dialog.at /\ dialog'.tags = held /\ dialog'.taggings = count
    BY <1>4
  <1>6. PageTyped' BY <1>1 DEF PolicyIInv, PageTyped
  <1>7. StatementsTyped' BY <1>1 DEF PolicyIInv, StatementsTyped
  <1>8. StatementsHold' BY <1>1, HeapGrows DEF PolicyIInv
  <1>9. Statements' = Statements BY <1>1 DEF Statements
  <1>10. HoldsTags(dialog.st)' BY <1>5 DEF PolicyIInv, DialogFits, HoldsTags
  <1>11. DialogFits' BY <1>4, <1>5, <1>10 DEF PolicyIInv, DialogFits
  <1>12. DialogIsCurrent' BY <1>1, <1>5 DEF PolicyIInv, DialogIsCurrent
  <1>13. FormIsOwn' BY <1>1, <1>9 DEF PolicyIInv, FormIsOwn
  <1>14. ASSUME ~late PROVE DialogTagsAreOwn'
    <2>1. DialogTagsAreOwn BY <1>14 DEF PolicyIInv, TagsFit
    <2> QED BY <1>1, <1>5, <1>9, <2>1 DEF DialogTagsAreOwn
  <1>15. TagsFit' BY <1>1, <1>14 DEF PolicyIInv, TagsFit
  <1> QED BY <1>6, <1>7, <1>8, <1>11, <1>12, <1>13, <1>15 DEF PolicyIInv

\* The dialog of a resource holds tags that are there.
LEMMA HeldIs ==
  ASSUME PolicyIInv, dialog # None, dialog.tags # None
  PROVE  dialog.tags \in 1..MaxTags /\ Held \in TagObjects
  <1>1. dialog.tags \in 1..MaxTags /\ tags[dialog.tags] # None BY DEF PolicyIInv, DialogFits
  <1>2. tags \in [1..MaxTags -> TagObjects \cup {None}] BY DEF PolicyIInv, TagsTyped
  <1> QED BY <1>1, <1>2 DEF Held

LEMMA InPlaceKeeps ==
  ASSUME PolicyIInv, dialog # None, dialog.tags # None, NEW key \in TagKeys \cup {""}, NEW value \in Words \cup {""},
         InPlace(key, value)
  PROVE  PolicyIInv' /\ \A t \in 1..MaxTags : t # dialog.tags => tags'[t] = tags[t]
  <1> DEFINE object == Put(Held, key, value)
  <1>1. Tagging(dialog.tags) /\ tags' = [tags EXCEPT ![dialog.tags] = object] BY DEF InPlace
  <1>2. dialog.tags \in 1..MaxTags /\ object \in TagObjects BY HeldIs, TagPut
  <1> HIDE DEF object
  <1>3. object # None BY <1>2, PolicyNoneAssumption
  <1>4. tags \in [1..MaxTags -> TagObjects \cup {None}] /\ \A t \in DOMAIN StoredTags : t \in 1..MaxTags /\ tags[t] # None
    BY TagsAssumption DEF PolicyIInv, TagsTyped
  <1>5. tags' \in [1..MaxTags -> TagObjects \cup {None}] /\ \A t \in 1..MaxTags : tags'[t] = IF t = dialog.tags THEN object ELSE tags[t]
    BY <1>1, <1>2, <1>4
  <1>6. TagsTyped' BY <1>3, <1>4, <1>5 DEF TagsTyped
  <1>7. tags'[dialog.tags] # None /\ \A t \in 1..MaxTags : tags[t] # None => tags'[t] # None BY <1>2, <1>3, <1>5
  <1>8. PolicyIInv' BY <1>1, <1>2, <1>6, <1>7, TaggingKeeps
  <1> QED BY <1>5, <1>8

LEMMA DeleteTagKeeps ==
  ASSUME PolicyIInv, dialog # None, dialog.tags # None, NEW key \in TagKeys \cup {""}, DeleteTag(key)
  PROVE  PolicyIInv'
  <1> DEFINE object == Omit(Held, key)
  <1>1. Free # {} /\ Tagging(Fresh) /\ tags' = [tags EXCEPT ![Fresh] = object] BY DEF DeleteTag
  <1>2. "" \in Words \cup {""} OBVIOUS
  <1>3. object \in TagObjects BY <1>2, HeldIs, TagPut
  <1> HIDE DEF object
  <1>4. /\ Fresh \in 1..MaxTags /\ Fresh # None /\ tags[Fresh] = None /\ tags'[Fresh] # None
        /\ TagsTyped' /\ \A t \in 1..MaxTags : tags[t] # None => tags'[t] # None
    BY <1>1, <1>3, FreshIs DEF PolicyIInv
  <1>5. \A i \in Statements, f \in ResourceFields : \A n \in DOMAIN statements[i][f] : statements[i][f][n].tags # Fresh
    BY <1>4, NoStatementHoldsFresh DEF PolicyIInv
  <1> QED BY <1>1, <1>4, <1>5, TaggingKeeps

-----------------------------------------------------------------------------
(***************************************************************************)
(* The statements of a policy: the invariant, and what a dialog edits.     *)
(***************************************************************************)
LEMMA AsksListKeeps == ASSUME PolicyIInv, AsksList PROVE PolicyIInv'
  <1>1. PICK field \in ListFields : AskAdd(field) \/ \E n \in 1..MaxEntries : AskRemove(field, n) BY DEF AsksList
  <1>2. Unfolded BY DEF AsksList
  <1>3. ASSUME NEW n \in 1..MaxEntries, AskRemove(field, n) PROVE PolicyIInv'
    BY <1>2, <1>3, AskRemoveKeeps
  <1> QED BY <1>1, <1>2, <1>3, AskAddKeeps

LEMMA AsksRefKeeps == ASSUME PolicyIInv, AsksRef PROVE PolicyIInv'
  <1>1. Unfolded BY DEF AsksRef
  <1>2. ASSUME NEW n \in 1..MaxEntries, AskEdit(n) PROVE PolicyIInv'
    BY <1>1, <1>2, AskEditKeeps
  <1>3. ASSUME NEW field \in ResourceFields, AskResource(field) PROVE PolicyIInv'
    <2>1. CASE Hold(field, "add", << >>) BY <1>1, <2>1, HoldKeeps
    <2>2. ASSUME NEW n \in DOMAIN Current[field], Hold(field, "edit", <<n>>) PROVE PolicyIInv'
      <3>1. <<n>>[1] = n OBVIOUS
      <3> QED BY <1>1, <2>2, <3>1, HoldKeeps
    <2> QED BY <1>3, <2>1, <2>2 DEF AskResource
  <1> QED BY <1>2, <1>3 DEF AsksRef

LEMMA EditsTagsKeeps == ASSUME PolicyIInv, EditsTags PROVE PolicyIInv'
  <1>1. dialog # None /\ dialog.tags # None BY DEF EditsTags
  <1>2. ASSUME NEW key \in TagKeys \cup {""}, NEW value \in Words \cup {""}, InPlace(key, value) PROVE PolicyIInv'
    BY <1>1, <1>2, InPlaceKeeps
  <1>3. ASSUME NEW key \in TagKeys \cup {""}, DeleteTag(key) PROVE PolicyIInv'
    BY <1>1, <1>3, DeleteTagKeeps
  <1> QED BY <1>2, <1>3 DEF EditsTags, EditTag, AddTag

LEMMA EditsStatementsKeeps == ASSUME PolicyIInv, EditsStatements PROVE PolicyIInv'
  <1>1. ASSUME NEW i \in DOMAIN statements, DeleteStatement(i) \/ Toggle(i) PROVE PolicyIInv'
    BY <1>1, DeleteStatementKeeps, ToggleKeeps
  <1>2. ASSUME NEW value, SetPriority(value) \/ SetEffect(value) PROVE PolicyIInv'
    BY <1>2, SetKeeps
  <1> QED BY <1>1, <1>2, AddStatementKeeps DEF EditsStatements

LEMMA PolicyInvariance == ASSUME PolicyIInv, PolicyNext PROVE PolicyIInv'
  <1>1. ASSUME NEW item \in Rows, NEW readOnly \in BOOLEAN, Open(item, readOnly) PROVE PolicyIInv'
    BY <1>1, OpenKeeps
  <1>2. ASSUME NEW saved \in BOOLEAN, AnswerSave(saved) PROVE PolicyIInv'
    BY <1>2, AnswerSaveKeeps
  <1>3. CASE Find \/ Reload \/ Close \/ Save BY <1>3, FindKeeps, ReloadKeeps, CloseKeeps, SaveKeeps
  <1>4. CASE EditsStatements BY <1>4, EditsStatementsKeeps
  <1>5. CASE AsksList \/ AsksRef \/ AsksCondition BY <1>5, AsksListKeeps, AsksRefKeeps, AsksConditionKeeps
  <1>6. CASE Answered \/ EditsTags BY <1>6, AnsweredKeeps, EditsTagsKeeps
  <1> QED BY <1>1, <1>2, <1>3, <1>4, <1>5, <1>6 DEF PolicyNext

LEMMA PolicyBegins == ASSUME PolicyInit PROVE PolicyIInv
  <1>1. PageTyped
    <2>1. /\ 1 \in 1..Loads /\ 0 \in 0..MaxSaves /\ 0 \in 0..MaxActs /\ 1 \in 0..MaxStatements
      BY PolicyBoundsAssumption
    <2>2. editor = [item |-> None, open |-> FALSE, readOnly |-> FALSE] BY DEF PolicyInit
    <2>3. editor.item = None /\ editor.open = FALSE /\ editor.readOnly = FALSE BY <2>2
    <2> QED BY <2>1, <2>2, <2>3 DEF PolicyInit, PageTyped
  <1>2. statements = << >> /\ dialog = None /\ late = FALSE BY DEF PolicyInit
  <1>3. IsList(<< >>) /\ Len(<< >>) = 0 /\ DOMAIN << >> = {} BY DEF IsList
  <1>4. StatementsTyped BY <1>2, <1>3, PolicyBoundsAssumption DEF StatementsTyped
  <1>5. TagsTyped
    <2>1. tags = [t \in 1..MaxTags |-> IF t \in DOMAIN StoredTags THEN StoredTags[t] ELSE None] BY DEF PolicyInit
    <2>2. \A t \in DOMAIN StoredTags : t \in 1..MaxTags /\ StoredTags[t] \in TagObjects /\ StoredTags[t] # None
      BY TagsAssumption, PolicyNoneAssumption
    <2> QED BY <2>1, <2>2 DEF TagsTyped
  <1>6. Statements = {} BY <1>2, <1>3 DEF Statements
  <1>7. StatementsHold /\ FormIsOwn BY <1>6 DEF StatementsHold, FormIsOwn
  <1>8. DialogFits /\ DialogIsCurrent /\ DialogTagsAreOwn BY <1>2 DEF DialogFits, DialogIsCurrent, DialogTagsAreOwn
  <1>9. TagsAreOwn(statements) BY <1>2, <1>3 DEF TagsAreOwn
  <1> QED BY <1>1, <1>4, <1>5, <1>7, <1>8, <1>9 DEF PolicyIInv, TagsFit

\* A step that leaves the form's statements has closed no dialog wrongly.
LEMMA NothingPut ==
  ASSUME PolicyIInv, ~late, statements' = statements
  PROVE  ClosesOne
  <1> SUFFICES ASSUME dialog # None, dialog' = None PROVE ClosesOne
    BY DEF ClosesOne
  <1> DEFINE i == dialog.i
             field == dialog.field
             old == statements[i]
  <1>1. i \in DOMAIN statements /\ old = dialog.st BY DEF PolicyIInv, DialogIsCurrent
  <1>2. IsStatement(old) BY <1>1 DEF PolicyIInv, DialogFits
  <1>3. IsList(statements) BY DEF PolicyIInv, StatementsTyped
  <1> HIDE DEF i, field
  <1>4. statements' = [statements EXCEPT ![i] = old] BY <1>3 DEF IsList
  <1>5. old = [old EXCEPT ![field] = old[field]] BY <1>2 DEF IsStatement
  <1>6. OneEntry(old[field], old[field]) BY DEF OneEntry
  <1> QED BY <1>4, <1>5, <1>6 DEF ClosesOne, i, field

LEMMA AnsweredClosesOne == ASSUME PolicyIInv, ~late, Answered PROVE ClosesOne
  <1>1. PICK new \in Answers(dialog) : Answer(new) BY DEF Answered
  <1>2. dialog # None BY DEF Answered
  <1>3. CASE new = None
    <2>1. statements' = statements BY <1>1, <1>3 DEF Answer
    <2> QED BY <2>1, NothingPut
  <1>4. CASE new # None
    <2> DEFINE i == dialog.i
               field == dialog.field
               st == [dialog.st EXCEPT ![field] = new]
    <2>1. i \in DOMAIN statements /\ statements[i] = dialog.st BY <1>2 DEF PolicyIInv, DialogIsCurrent
    <2>2. IsStatement(dialog.st) /\ field \in Fields /\ i \in 1..MaxStatements BY <1>2 DEF PolicyIInv, DialogFits
    <2>3. onChange(i, st) BY <1>1, <1>4 DEF Answer
    <2>4. IsList(statements) BY DEF PolicyIInv, StatementsTyped
    <2>5. field \in FieldNames BY <2>2, NamesOfFields
    <2>6. st[field] = new BY <1>2, <1>4, <2>5, PutBack
    <2>7. field \in ListFields => OneEntry(dialog.st[field], new)
      <3>1. ASSUME field \in ListFields PROVE OneEntry(dialog.st[field], new)
        <4>1. Puts(dialog, new) BY <1>2, <1>4, <3>1, AnswerIs DEF PolicyIInv
        <4> QED BY <1>2, <3>1, <4>1, PutsFrom DEF PolicyIInv
      <3> QED BY <3>1
    <2> DEFINE was == dialog.st
    <2>8. st = [was EXCEPT ![field] = st[field]] BY <2>6
    <2> HIDE DEF i, field, st, was
    <2>9. statements'[i] = st /\ statements' = [statements EXCEPT ![i] = st]
      BY <2>1, <2>2, <2>3, <2>4, PutIn
    <2> QED BY <2>1, <2>6, <2>7, <2>8, <2>9 DEF ClosesOne, i, field, was
  <1> QED BY <1>3, <1>4

\* Tags that nobody held are nobody's.
LEMMA FreshRetags ==
  ASSUME PolicyIInv, Free # {}, NEW object \in TagObjects, tags' = [tags EXCEPT ![Fresh] = object]
  PROVE  TagsPlace
  <1>1. \A t \in 1..MaxTags : tags[t] # None => tags'[t] = tags[t] BY FreshIs DEF PolicyIInv
  <1>2. \A i \in Statements, f \in ResourceFields : \A n \in DOMAIN statements[i][f] :
          statements[i][f][n].tags # None =>
            statements[i][f][n].tags \in 1..MaxTags /\ tags[statements[i][f][n].tags] # None
    BY DEF PolicyIInv, StatementsHold, HoldsTags
  <1>3. ASSUME NEW i \in Statements, NEW f \in ResourceFields, NEW n \in Resources(i, f) PROVE ~Retags(i, f, n)
    BY <1>1, <1>2 DEF Retags, Resources
  <1> QED BY <1>3 DEF TagsPlace

LEMMA EditsTagsRetags ==
  ASSUME PolicyIInv, ~late, EditsTags
  PROVE  TagsPlace
  <1>1. dialog # None /\ dialog.tags # None BY DEF EditsTags
  <1>2. ASSUME NEW key \in TagKeys \cup {""}, DeleteTag(key) PROVE TagsPlace
    <2>1. "" \in Words \cup {""} OBVIOUS
    <2>2. Omit(Held, key) \in TagObjects BY <1>1, <2>1, HeldIs, TagPut
    <2>3. Free # {} /\ tags' = [tags EXCEPT ![Fresh] = Omit(Held, key)] BY <1>2 DEF DeleteTag
    <2> QED BY <2>2, <2>3, FreshRetags
  <1>3. ASSUME NEW key \in TagKeys \cup {""}, NEW value \in Words \cup {""}, InPlace(key, value)
        PROVE  TagsPlace
    <2>1. \A t \in 1..MaxTags : t # dialog.tags => tags'[t] = tags[t] BY <1>1, <1>3, InPlaceKeeps
    <2>2. DialogTagsAreOwn BY DEF PolicyIInv, TagsFit
    <2>3. ASSUME NEW i \in Statements, NEW f \in ResourceFields, NEW n \in Resources(i, f), Retags(i, f, n)
          PROVE  <<i, f, n>> \in Place
      <3>1. /\ n \in DOMAIN statements[i][f] /\ statements[i][f][n].tags # None
            /\ tags'[statements[i][f][n].tags] # tags[statements[i][f][n].tags]
        BY <2>3 DEF Retags, Resources
      <3>2. statements[i][f][n].tags \in 1..MaxTags BY <3>1 DEF PolicyIInv, StatementsHold, HoldsTags
      <3>3. statements[i][f][n].tags = dialog.tags BY <2>1, <3>1, <3>2
      <3>4. dialog.op = "edit" /\ i = dialog.i /\ f = dialog.field /\ n = dialog.at[1]
        BY <1>1, <2>2, <3>1, <3>3 DEF DialogTagsAreOwn
      <3> QED BY <1>1, <3>4 DEF Place
    <2> QED BY <2>3 DEF TagsPlace
  <1> QED BY <1>2, <1>3 DEF EditsTags, EditTag, AddTag

LEMMA HoldRetags ==
  ASSUME PolicyIInv, NEW field, NEW op, NEW at, Hold(field, op, at), tags' # tags
  PROVE  TagsPlace
  <1>1. Free # {} /\ tags' = [tags EXCEPT ![Fresh] = Nothing] BY DEF Hold
  <1> QED BY <1>1, FreshRetags, NothingIsObject

LEMMA OneEdited == ASSUME PolicyIInv, PolicyNext PROVE EditsOne
  <1> SUFFICES ASSUME ~late PROVE ClosesOne /\ TagsPlace
    BY DEF EditsOne
  <1>0. tags' = tags => TagsPlace BY DEF TagsPlace, Retags
  <1>1. CASE Answered
    <2>1. tags' = tags BY <1>1 DEF Answered, Answer
    <2> QED BY <1>0, <1>1, <2>1, AnsweredClosesOne
  <1>2. CASE EditsTags
    <2>1. statements' = statements BY <1>2 DEF EditsTags, EditTag, AddTag, DeleteTag, InPlace, Tagging, form
    <2> QED BY <1>2, <2>1, NothingPut, EditsTagsRetags
  <1>3. CASE AsksRef
    <2>1. dialog = None BY <1>3 DEF AsksRef
    <2>2. CASE \E n \in 1..MaxEntries : AskEdit(n) BY <1>0, <2>1, <2>2 DEF AskEdit, ClosesOne
    <2>3. CASE \E field \in ResourceFields : \E op, at : Hold(field, op, at)
      BY <1>0, <2>1, <2>3, HoldRetags DEF ClosesOne
    <2> QED BY <1>3, <2>2, <2>3 DEF AsksRef, AskResource
  <1>4. CASE Find \/ Reload \/ Close \/ Save
    BY <1>0, <1>4 DEF Find, Reload, Close, Save, ClosesOne
  <1>5. ASSUME NEW item \in Rows, NEW readOnly \in BOOLEAN, Open(item, readOnly)
        PROVE  tags' = tags /\ ClosesOne
    BY <1>5 DEF Open, ClosesOne
  <1>6. ASSUME NEW saved \in BOOLEAN, AnswerSave(saved) PROVE tags' = tags /\ ClosesOne
    BY <1>6 DEF AnswerSave, ClosesOne
  <1>7. CASE EditsStatements
    BY <1>0, <1>7 DEF EditsStatements, AddStatement, DeleteStatement, Toggle, SetPriority, SetEffect, Edits, StatementsOnly, ClosesOne
  <1>8. CASE AsksList BY <1>0, <1>8 DEF AsksList, AskAdd, AskRemove, ClosesOne
  <1>9. CASE AsksCondition
    BY <1>0, <1>9 DEF AsksCondition, AskKey, AskParam, AskCondition, ClosesOne
  <1> QED BY <1>0, <1>1, <1>2, <1>3, <1>4, <1>5, <1>6, <1>7, <1>8, <1>9 DEF PolicyNext
-----------------------------------------------------------------------------
(***************************************************************************)
(* The forms: of the page that is mounted.                                 *)
(***************************************************************************)
FormsIInv == route \in Routes /\ IF Picks THEN PickerIInv ELSE PolicyIInv

LEMMA PickerStands == ASSUME PickerIInv, UNCHANGED picking PROVE PickerIInv'
  <1> USE DEF picking
  <1>1. /\ Refs' = Refs /\ Space' = Space /\ PickedRefs' = PickedRefs /\ UnderWay' = UnderWay
        /\ AskedFor' = AskedFor /\ (AsOpened' <=> AsOpened)
    BY DEF Refs, Space, PickedRefs, UnderWay, AskedFor, AsOpened
  <1>2. PickerTyped' BY <1>1 DEF PickerIInv, PickerTyped, IsListed
  <1>3. ListIsCurrent' BY DEF PickerIInv, ListIsCurrent, Captured, Idle
  <1>4. PickedFits' BY <1>1 DEF PickerIInv, PickedFits
  <1> QED BY <1>2, <1>3, <1>4 DEF PickerIInv

LEMMA PolicyStands == ASSUME PolicyIInv, UNCHANGED editing PROVE PolicyIInv'
  <1>1. PageTyped' BY DEF editing, PolicyIInv, PageTyped
  <1>2. editor'.item = editor.item /\ UNCHANGED <<statements, late, dialog, tags>> BY DEF editing
  <1> QED BY <1>1, <1>2, FormStands

\* FormsIInv is inductive.
THEOREM FormsInvariance == FormsSpec => []FormsIInv
  <1>1. ASSUME FormsInit PROVE FormsIInv
    <2>1. CASE Picks
      <3>1. PickerInit /\ picker \in AllPickers BY <1>1, <2>1, PickersAssumption DEF FormsInit, PickerInit
      <3> QED BY <1>1, <2>1, <3>1, PickerBegins DEF FormsInit, FormsIInv
    <2>2. CASE ~Picks BY <1>1, <2>2, PolicyBegins DEF FormsInit, FormsIInv
    <2> QED BY <2>1, <2>2
  <1>2. ASSUME FormsIInv, [FormsNext]_formsVars PROVE FormsIInv'
    <2>1. route' = route /\ (Picks' <=> Picks) BY <1>2 DEF FormsNext, formsVars, Picks
    <2>2. CASE Picks
      <3>1. PickerIInv BY <1>2, <2>2 DEF FormsIInv
      <3>2. PickerNext \/ UNCHANGED picking BY <1>2, <2>2 DEF FormsNext, formsVars
      <3>3. PickerIInv' BY <3>1, <3>2, PickerInvariance, PickerStands
      <3> QED BY <1>2, <2>1, <2>2, <3>3 DEF FormsIInv
    <2>3. CASE ~Picks
      <3>1. PolicyIInv BY <1>2, <2>3 DEF FormsIInv
      <3>2. PolicyNext \/ UNCHANGED editing BY <1>2, <2>3 DEF FormsNext, formsVars
      <3>3. PolicyIInv' BY <3>1, <3>2, PolicyInvariance, PolicyStands
      <3> QED BY <1>2, <2>1, <2>3, <3>3 DEF FormsIInv
    <2> QED BY <2>2, <2>3
  <1> QED BY <1>1, <1>2, PTL DEF FormsSpec

(***************************************************************************)
(* Type correctness: lists hold references of the kinds their form takes,  *)
(* forms hold statements, without holes unless reset under a dialog, and   *)
(* the tags a statement holds are there.                                   *)
(***************************************************************************)
THEOREM FormsTypeCorrect == FormsSpec => []FormsTypeOK
  <1>1. ASSUME FormsIInv PROVE FormsTypeOK
    <2>1. CASE Picks
      <3>1. PickerTyped BY <1>1, <2>1 DEF FormsIInv, PickerIInv
      <3>2. ~Idle => IsListed(Captured) BY <3>1 DEF PickerTyped, Captured, Idle
      <3>3. PickerTypeOK BY <3>1, <3>2 DEF PickerTyped, PickerTypeOK, IsListed, Space
      <3> QED BY <1>1, <2>1, <3>3 DEF FormsIInv, FormsTypeOK
    <2>2. CASE ~Picks
      <3>1. PolicyIInv BY <1>1, <2>2 DEF FormsIInv
      <3>2. \A i \in DOMAIN statements : statements[i] = Hole => late
        BY <3>1 DEF PolicyIInv, StatementsTyped
      <3>3. ASSUME NEW i \in Statements
            PROVE  /\ IsStatement(statements[i])
                   /\ \A field \in ResourceFields : \A n \in Resources(i, field) :
                        LET held == statements[i][field][n].tags IN held # None => tags[held] # None
        <4>1. IsStatement(statements[i]) BY <3>1 DEF PolicyIInv, StatementsTyped, Statements
        <4>2. HoldsTags(statements[i]) BY <3>1 DEF PolicyIInv, StatementsHold
        <4> QED BY <4>1, <4>2 DEF HoldsTags, Resources
      <3>4. PolicyTypeOK
        BY <3>1, <3>2, <3>3 DEF PolicyIInv, PageTyped, StatementsTyped, PolicyTypeOK
      <3> QED BY <1>1, <2>2, <3>4 DEF FormsIInv, FormsTypeOK
    <2> QED BY <2>1, <2>2
  <1> QED BY <1>1, FormsInvariance, PTL

(***************************************************************************)
(* A list that came with distinct references keeps to distinct ones,       *)
(* whatever is picked, edited and answered, and whichever list the form    *)
(* was given meanwhile.                                                    *)
(***************************************************************************)
THEOREM RefsStayDistinct == FormsSpec => []RefsDistinct
  <1>1. ASSUME FormsIInv PROVE RefsDistinct BY <1>1 DEF FormsIInv, PickerIInv, PickerTyped, IsListed, NoRefTwice, RefsDistinct
  <1> QED BY <1>1, FormsInvariance, PTL

(***************************************************************************)
(* What the closing of a dialog puts in the form's list is a reference the *)
(* server answered it has to a user who waits, for the namespace and the   *)
(* kind picked with it; or it was in the list captured, and the form was   *)
(* given another below.                                                    *)
(***************************************************************************)
THEOREM PicksAreOffered == FormsSpec => PickedWasOffered
  <1>1. ASSUME FormsIInv, [FormsNext]_formsVars PROVE [Picks => PutsOffered]_picking
    <2> SUFFICES ASSUME Picks, ~UNCHANGED picking PROVE PutsOffered
      OBVIOUS
    <2>1. PickerIInv /\ PickerNext BY <1>1 DEF FormsIInv, FormsNext, formsVars
    <2> QED BY <2>1, Offered
  <1> QED BY <1>1, FormsInvariance, PTL DEF FormsSpec, PickedWasOffered

(***************************************************************************)
(* What the handler of a dialog captured, a list of references or a        *)
(* statement, is what it replaces, unless the form was reset below it.     *)
(***************************************************************************)
THEOREM CapturesAreCurrent == FormsSpec => []CapturedIsCurrent
  <1>1. ASSUME FormsIInv PROVE CapturedIsCurrent BY <1>1 DEF FormsIInv, PickerIInv, PolicyIInv, CapturedIsCurrent
  <1> QED BY <1>1, FormsInvariance, PTL

(***************************************************************************)
(* The form of a policy shows, and would save, statements of that policy,  *)
(* unless it was reset below a dialog.                                     *)
(***************************************************************************)
THEOREM StatementsStayOwn == FormsSpec => []StatementsAreOwn
  <1>1. ASSUME FormsIInv PROVE StatementsAreOwn BY <1>1 DEF FormsIInv, PolicyIInv, StatementsAreOwn
  <1> QED BY <1>1, FormsInvariance, PTL

(***************************************************************************)
(* A dialog of a statement edits one field of it, in a list one entry at   *)
(* most, and the tags of the one resource it is for.                       *)
(***************************************************************************)
THEOREM DialogsEditOne == FormsSpec => DialogEditsOne
  <1>1. ASSUME FormsIInv, [FormsNext]_formsVars PROVE [~Picks => EditsOne]_editing
    <2> SUFFICES ASSUME ~Picks, ~UNCHANGED editing PROVE EditsOne
      OBVIOUS
    <2>1. PolicyIInv /\ PolicyNext BY <1>1 DEF FormsIInv, FormsNext, formsVars
    <2> QED BY <2>1, OneEdited
  <1> QED BY <1>1, FormsInvariance, PTL DEF FormsSpec, DialogEditsOne
=============================================================================
