---------------------------- MODULE ConsoleProofs ----------------------------
(***************************************************************************)
(* Proofs about the console: what a page shows and sends, whatever its     *)
(* calls are answered and when.                                            *)
(***************************************************************************)
EXTENDS ResourcePage, TLAPS

Slots == 1..MaxCalls

\* What is known of a page, for each kind.
PageFits ==
  /\ page.form.inputs \subseteq page.form.keeps /\ page.form.keeps \subseteq page.fields
  /\ page.new \subseteq page.fields /\ page.disableNamespace \in BOOLEAN
  /\ "name" \in page.asks
  /\ page.disableNamespace <=> "namespace" \notin page.service.inURL
  /\ page.disableNamespace <=> "namespace" \notin page.asks

\* What a list shows is stored, or was.
Listed == {item \in ItemsOf(page) : item.at \in Places /\ item.version > 0}
Forms == [at : Spots, content : Texts \cup {""}, has : SUBSET page.form.keeps]
Objects == [content : Texts, has : SUBSET page.fields, version : 1..MaxVersion]

\* A call is typed, and asks what the page and the server have: a save is of an object
\* with a place, a delete too.
Fits(call) ==
  /\ call \in CallsOf(page)
  /\ call.op = "namespaces" => ~page.disableNamespace
  /\ call.op = "list" /\ page.disableNamespace => call.arg = ""
  /\ call.op \in {"namespaces", "list"} => call.result \in {None} \cup SUBSET Listed
  /\ call.op = "save" => call.arg.at \in Places
  /\ call.op = "remove" => call.arg \in Places
CallsFit == calls \in [Slots -> {None} \cup CallsOf(page)] /\ \A c \in UnderWay : Fits(calls[c])

ServerFits ==
  /\ kind \in Kinds /\ query \in {None} \cup [at : Places, readOnly : BOOLEAN]
  /\ objects \in [Everywhere -> {None} \cup Objects]
  /\ \A at \in Everywhere \ Places : objects[at] = None

ListFits ==
  /\ picked \in Namespaces \cup {"", "*"} /\ (page.disableNamespace => picked = "")
  /\ list \subseteq Listed /\ alert \in Listed \cup {None}
  /\ acts \in 0..MaxActs

\* The editor, and the form behind it: what was opened from the list is not new, and its
\* name is out of reach.
EditorFits ==
  /\ editor \in [item : ItemsOf(page), open : BOOLEAN, insert : BOOLEAN, readOnly : BOOLEAN]
  /\ form \in Forms
  /\ bindings \in Spots \cup {None}
  /\ editor.open => editor.item # NoItem
  /\ editor.item # NoItem => form.content \in Texts
  /\ page.disableNamespace => editor.item.at.namespace = "" /\ form.at.namespace = ""
  /\ editor.open /\ ~editor.insert => editor.item.version > 0
  /\ editor.item.version > 0 =>
       ~editor.insert /\ form.at.name = editor.item.at.name /\ editor.item.has \ form.has \subseteq Lost(page)

\* The bindings asked for are those of the object the form shows.
BindingsOwn ==
  page.form.loads = "bindings" /\ editor.item # NoItem /\ "bindings" \notin doubt =>
    /\ \A c \in Slots : Asks(c, "bindings") => calls[c].arg = editor.item.at
    /\ (\A c \in Slots : ~Asks(c, "bindings")) => bindings = editor.item.at

\* Calls that end in a list, and writes the server has done and the page does not know of.
Lists(c) == calls[c] # None /\ calls[c].op \in {"namespaces", "list"}
Writes(c) == calls[c] # None /\ calls[c].op \in {"save", "remove"} /\ calls[c].result # None

\* While the list is not in doubt one call at most is to bring it, for the namespace
\* picked; and it is the server's, in the page or in the answer to that call, unless a
\* write is still to be answered.
ListOwn ==
  "list" \notin doubt =>
    /\ \A c, d \in Slots : Lists(c) /\ Lists(d) => c = d
    /\ \A c \in Slots : Asks(c, "list") => calls[c].arg = picked
    /\ (\A c \in Slots : ~Writes(c)) =>
         /\ (\A c \in Slots : ~Lists(c)) => list = Matching(picked)
         /\ \A c \in Slots : Answers(c, "list") => calls[c].result = Matching(picked)

Typed == ServerFits /\ CallsFit /\ ListFits /\ EditorFits

-----------------------------------------------------------------------------
(***************************************************************************)
(* The kinds' pages, and what does not change with a step of a page.       *)
(***************************************************************************)
LEMMA PageIs == ASSUME kind \in Kinds PROVE PageFits
<1>1. kind \in {"account", "group", "groupbinding", "namespace", "policy", "policybinding", "role", "secret"}
  BY KindsAssumption DEF PageOf
<1>2. CASE kind = "account"
  BY <1>2 DEF PageFits, page, PageOf, AccountPage, AccountForm, AccountService, AccountFields
<1>3. CASE kind = "group"
  BY <1>3 DEF PageFits, page, PageOf, GroupPage, GroupForm, GroupService, GroupFields
<1>4. CASE kind = "groupbinding"
  BY <1>4 DEF PageFits, page, PageOf, GroupBindingPage, GroupBindingForm, GroupBindingService, GroupBindingFields
<1>5. CASE kind = "namespace"
  BY <1>5 DEF PageFits, page, PageOf, NamespacePage, NamespaceForm, NamespaceService, NamespaceFields
<1>6. CASE kind = "policy"
  BY <1>6 DEF PageFits, page, PageOf, PolicyPage, PolicyForm, PolicyService, PolicyFields
<1>7. CASE kind = "policybinding"
  BY <1>7 DEF PageFits, page, PageOf, PolicyBindingPage, PolicyBindingForm, PolicyBindingService, PolicyBindingFields
<1>8. CASE kind = "role"
  BY <1>8 DEF PageFits, page, PageOf, RolePage, RoleForm, RoleService, RoleFields
<1>9. CASE kind = "secret"
  BY <1>9 DEF PageFits, page, PageOf, SecretPage, SecretForm, SecretService, SecretFields
<1> QED BY <1>1, <1>2, <1>3, <1>4, <1>5, <1>6, <1>7, <1>8, <1>9

LEMMA SamePage == ASSUME kind' = kind PROVE page' = page /\ Places' = Places
<1>1. page' = page BY DEF page
<1> QED BY <1>1 DEF Places

LEMMA SameListed == ASSUME kind' = kind PROVE Listed' = Listed
BY SamePage DEF Listed

LEMMA SameForms == ASSUME kind' = kind PROVE Forms' = Forms
BY SamePage DEF Forms

LEMMA NoneIsNoCall == ASSUME kind \in Kinds PROVE None # "ok" /\ None \notin CallsOf(page)
BY NoneAssumption DEF page

\* What has a place is at a spot, and a spot with a name that its kind's namespaces suit
\* is a place.
LEMMA PlacesAreSpots == Places \subseteq Spots /\ Places \subseteq Everywhere
BY DEF Places, Spots, Everywhere

LEMMA SameSpot ==
  ASSUME NEW at \in Spots, NEW other \in Spots, at.namespace = other.namespace, at.name = other.name
  PROVE  at = other
<1>1. at = [namespace |-> at.namespace, name |-> at.name] BY DEF Spots
<1>2. other = [namespace |-> other.namespace, name |-> other.name] BY DEF Spots
<1> QED BY <1>1, <1>2

LEMMA PlaceParts ==
  ASSUME NEW at \in Places
  PROVE  at.name # "" /\ (at.namespace = "" <=> "namespace" \notin page.service.inURL)
BY NamesAssumption DEF Places, Everywhere

LEMMA SpotIsPlace ==
  ASSUME NEW at \in Spots, at.name # "", at.namespace = "" <=> "namespace" \notin page.service.inURL
  PROVE  at \in Places
BY DEF Places, Spots, Everywhere

\* A slot of the calls is given another call, or none.
LEMMA CallsStep ==
  ASSUME CallsFit, kind' = kind, NEW c \in Slots, NEW new, calls' = [calls EXCEPT ![c] = new],
         new = None \/ Fits(new)
  PROVE  CallsFit'
<1>1. page' = page /\ Listed' = Listed /\ Places' = Places BY SamePage, SameListed
<1>2. calls' \in [Slots -> {None} \cup CallsOf(page)] BY DEF CallsFit, Fits
<1>3. ASSUME NEW d \in UnderWay' PROVE Fits(calls[d])'
  <2>1. calls'[d] = IF d = c THEN new ELSE calls[d] BY <1>3 DEF UnderWay, Slots, CallsFit
  <2>2. Fits(calls'[d]) BY <1>3, <2>1 DEF UnderWay, Slots, CallsFit
  <2> QED BY <2>2, <1>1 DEF Fits
<1> QED BY <1>1, <1>2, <1>3 DEF CallsFit

LEMMA SameCalls == ASSUME CallsFit, kind' = kind, UNCHANGED calls PROVE CallsFit'
<1>1. page' = page /\ Listed' = Listed /\ Places' = Places BY SamePage, SameListed
<1> QED BY <1>1 DEF CallsFit, Fits, UnderWay

LEMMA SameServer == ASSUME ServerFits, UNCHANGED server PROVE ServerFits' /\ kind' = kind
<1>1. Places' = Places BY SamePage DEF server
<1>2. page' = page BY SamePage DEF server
<1> QED BY <1>1, <1>2 DEF ServerFits, server, Objects

LEMMA SameEditor == ASSUME EditorFits, kind' = kind, UNCHANGED <<editor, form, bindings>> PROVE EditorFits'
<1>1. page' = page /\ Forms' = Forms BY SamePage, SameForms
<1> QED BY <1>1 DEF EditorFits

LEMMA ActsCounted ==
  ASSUME acts \in 0..MaxActs, acts' = acts \/ (acts < MaxActs /\ acts' = acts + 1)
  PROVE  acts' \in 0..MaxActs
BY BoundsAssumption

LEMMA ListStep ==
  ASSUME ListFits, kind' = kind,
         picked' \in Namespaces \cup {"", "*"}, page.disableNamespace => picked' = "",
         list' \subseteq Listed, alert' \in Listed \cup {None},
         acts' = acts \/ (acts < MaxActs /\ acts' = acts + 1)
  PROVE  ListFits'
<1>1. page' = page /\ Listed' = Listed BY SamePage, SameListed
<1>2. acts' \in 0..MaxActs BY ActsCounted DEF ListFits
<1> QED BY <1>1, <1>2 DEF ListFits

\* What an editor may be opened for: an item of the list, or a new object.
Presents(item, insert) ==
  /\ item \in ItemsOf(page) /\ item # NoItem /\ insert \in BOOLEAN
  /\ ~insert <=> item.version > 0
  /\ page.disableNamespace => item.at.namespace = ""

LEMMA ListedPresents == ASSUME ServerFits, NEW item \in Listed PROVE Presents(item, FALSE)
<1>1. item \in ItemsOf(page) /\ item.at \in Places /\ item.version > 0 BY DEF Listed
<1>2. NoItem.version = 0 BY DEF NoItem, Item
<1>4. item # NoItem BY <1>1, <1>2
<1>3. page.disableNamespace => item.at.namespace = "" BY <1>1, PageIs, PlaceParts DEF ServerFits, PageFits
<1> QED BY <1>1, <1>2, <1>3, <1>4 DEF Presents

LEMMA Presented ==
  ASSUME Typed, kind' = kind, NEW c \in Slots, NEW item, NEW insert, NEW readOnly \in BOOLEAN, NEW before,
         Presents(item, insert), Present(c, item, insert, readOnly, before)
  PROVE  CallsFit' /\ EditorFits'
<1>1. page' = page /\ Forms' = Forms BY SamePage, SameForms
<1>2. PageFits BY PageIs DEF Typed, ServerFits
<1>3. item.at \in Spots /\ item.has \subseteq page.fields /\ item.content \in Texts /\ item.version \in 0..MaxVersion
  BY DEF Presents, ItemsOf
<1>4. CallsFit'
  <2>1. CASE item # editor.item /\ page.form.loads = "bindings"
    <3> DEFINE new == [op |-> "bindings", arg |-> item.at, then |-> "", result |-> None]
    <3>1. Fits(new) BY <1>3 DEF Fits, CallsOf, OtherCalls
    <3>2. calls' = [calls EXCEPT ![c] = new] BY <2>1 DEF Present, Call
    <3> QED BY <3>1, <3>2, CallsStep DEF Typed
  <2>2. CASE ~(item # editor.item /\ page.form.loads = "bindings")
    <3>1. calls' = [calls EXCEPT ![c] = None] BY <2>2 DEF Present, Hangup
    <3> QED BY <3>1, CallsStep DEF Typed
  <2> QED BY <2>1, <2>2
<1>5. editor' = [item |-> item, open |-> TRUE, insert |-> insert, readOnly |-> readOnly]
      /\ form' = (IF item = editor.item THEN form ELSE Reset(item)) /\ bindings' \in {bindings, None}
  BY DEF Present
<1>6. editor' \in [item : ItemsOf(page), open : BOOLEAN, insert : BOOLEAN, readOnly : BOOLEAN]
  BY <1>5 DEF Presents
<1>7. editor'.item = item /\ editor'.insert = insert /\ editor'.open BY <1>5
<1>8. bindings' \in Spots \cup {None} BY <1>5 DEF Typed, EditorFits
<1>9. /\ form' \in Forms' /\ form'.content \in Texts
      /\ page'.disableNamespace => item.at.namespace = "" /\ form'.at.namespace = ""
      /\ item.version > 0 =>
           ~insert /\ form'.at.name = item.at.name /\ item.has \ form'.has \subseteq Lost(page)'
  <2>1. item.version > 0 => ~insert BY DEF Presents
  <2>2. CASE item = editor.item
    <3>1. form' = form BY <1>5, <2>2
    <3> QED BY <1>1, <2>1, <2>2, <3>1 DEF Presents, Typed, EditorFits
  <2>3. CASE item # editor.item
    <3>1. form' = [at |-> item.at, content |-> item.content, has |-> item.has \cap page.form.keeps]
      BY <1>5, <2>3 DEF Reset
    <3>2. form' \in Forms BY <1>3, <3>1 DEF Forms
    <3>3. item.has \ form'.has \subseteq Lost(page) BY <1>3, <3>1 DEF Lost
    <3> QED BY <1>1, <1>3, <2>1, <3>1, <3>2, <3>3 DEF Presents
  <2> QED BY <2>2, <2>3
<1>10. insert \in BOOLEAN /\ (~insert => item.version > 0) /\ item # NoItem BY <1>3 DEF Presents
<1>11. EditorFits' BY <1>1, <1>6, <1>7, <1>8, <1>9, <1>10 DEF EditorFits
<1> QED BY <1>4, <1>11

\* A call for the list, of either kind.
LEMMA Loading ==
  ASSUME Typed, kind' = kind, NEW c \in Slots, NEW then \in {"", "mount", "find"}, NEW ns \in Namespaces \cup {"", "*"},
         \/ page.disableNamespace /\ ns = "" /\ Call(c, "list", ns, then)
         \/ ~page.disableNamespace /\ Call(c, "list", ns, then)
         \/ ~page.disableNamespace /\ ns = "*" /\ Call(c, "namespaces", ns, then)
  PROVE  CallsFit'
<1> PICK op \in {"namespaces", "list"} : Call(c, op, ns, then) /\ (op = "namespaces" => ~page.disableNamespace)
  OBVIOUS
<1> DEFINE new == [op |-> op, arg |-> ns, then |-> then, result |-> None]
<1>1. Fits(new) BY DEF Fits, CallsOf, ListCalls
<1>2. calls' = [calls EXCEPT ![c] = new] BY DEF Call
<1> QED BY <1>1, <1>2, CallsStep DEF Typed

LEMMA LoadListFits ==
  ASSUME Typed, kind' = kind, NEW c \in Slots, loadList(c, "")
  PROVE  /\ CallsFit' /\ picked' \in Namespaces \cup {"", "*"} /\ (page.disableNamespace => picked' = "")
<1>1. CASE page.disableNamespace
  BY <1>1, Loading DEF loadList, loadFromNamespace
<1>2. CASE ~page.disableNamespace
  BY <1>2, Loading DEF loadList, Typed, ListFits
<1> QED BY <1>1, <1>2

LEMMA Resumed ==
  ASSUME Typed, kind' = kind, NEW c \in Slots, NEW shown, NEW before, shown \subseteq Listed, Resume(c, shown, before)
  PROVE  /\ CallsFit' /\ EditorFits'
         /\ picked' \in Namespaces \cup {"", "*"} /\ (page.disableNamespace => picked' = "")
<1> DEFINE sought == query # None /\ calls[c].then # ""
           goesOn == sought /\ calls[c].then = "mount" /\ ~page.disableNamespace
           found == IF sought /\ ~goesOn THEN {item \in shown : item.at = query.at} ELSE {}
<1>1. CASE goesOn /\ loadFromNamespace(c, query.at.namespace, "find") /\ UNCHANGED <<editor, form, bindings>>
  <2>1. query.at.namespace \in Namespaces \cup {""}
    BY <1>1, PlacesAreSpots DEF Typed, ServerFits, Spots
  <2>2. picked' = query.at.namespace /\ Call(c, "list", query.at.namespace, "find") BY <1>1 DEF loadFromNamespace
  <2>3. CallsFit' BY <1>1, <2>1, <2>2, Loading
  <2> QED BY <1>1, <2>1, <2>2, <2>3, SameEditor DEF Typed
<1>2. ASSUME NEW item \in found, Present(c, item, FALSE, query.readOnly, before), UNCHANGED picked
      PROVE  CallsFit' /\ EditorFits' /\ UNCHANGED picked
  <2>1. item \in Listed /\ query # None BY <1>2
  <2>2. query.readOnly \in BOOLEAN BY <2>1 DEF Typed, ServerFits
  <2>3. Presents(item, FALSE) BY <2>1, ListedPresents DEF Typed
  <2> QED BY <1>2, <2>2, <2>3, Presented
<1>3. CASE Hangup(c) /\ UNCHANGED <<picked, editor, form, bindings>>
  <2>1. CallsFit' BY <1>3, CallsStep DEF Hangup, Typed
  <2> QED BY <1>3, <2>1, SameEditor DEF Typed, ListFits
<1>4. UNCHANGED picked => picked' \in Namespaces \cup {"", "*"} /\ (page.disableNamespace => picked' = "")
  BY DEF Typed, ListFits
<1> QED BY <1>1, <1>2, <1>3, <1>4 DEF Resume

-----------------------------------------------------------------------------
(***************************************************************************)
(* Types.                                                                  *)
(***************************************************************************)
LEMMA TypedInit == Init => Typed
<1> SUFFICES ASSUME Init PROVE Typed OBVIOUS
<1>1. PageFits BY PageIs DEF Init
<1>2. ServerFits
  <2>1. ASSUME NEW new \in [content : Contents, has : {page.fields}, version : {1}] PROVE new \in Objects
    <3>1. 1 \in 1..MaxVersion BY BoundsAssumption
    <3> QED BY <3>1 DEF Objects, Texts
  <2>2. objects \in [Everywhere -> {None} \cup Objects] BY <2>1 DEF Init
  <2> QED BY <2>2 DEF Init, ServerFits
<1>3. CallsFit
  <2> DEFINE first == [op |-> IF page.disableNamespace THEN "list" ELSE "namespaces",
                       arg |-> IF page.disableNamespace THEN "" ELSE "*", then |-> "mount", result |-> None]
  <2>1. Fits(first)
    <3>1. CASE page.disableNamespace BY <3>1 DEF Fits, CallsOf, ListCalls
    <3>2. CASE ~page.disableNamespace BY <3>2 DEF Fits, CallsOf, ListCalls
    <3> QED BY <3>1, <3>2
  <2>2. calls = [c \in Slots |-> IF c > 1 THEN None ELSE first] BY DEF Init, Slots
  <2> HIDE DEF first
  <2>3. \A c \in UnderWay : calls[c] = first BY <2>2 DEF UnderWay, Slots
  <2>4. first \in CallsOf(page) BY <2>1 DEF Fits
  <2> QED BY <2>1, <2>2, <2>3, <2>4 DEF CallsFit
<1>4. ListFits
  <2>1. picked = "" /\ list = {} /\ alert = None /\ acts = 0 BY DEF Init
  <2>2. 0 \in 0..MaxActs BY BoundsAssumption
  <2> QED BY <2>1, <2>2 DEF ListFits
<1>5. EditorFits
  <2>1. NoItem \in ItemsOf(page) /\ NoItem.version = 0 /\ NoItem.at = Place("", "") BY DEF ItemsOf, NoItem, Item
  <2>2. Place("", "").namespace = "" /\ Place("", "") \in Spots BY DEF Place, Spots
  <2>3. form \in Forms /\ form.at = NoItem.at BY <2>1, <2>2 DEF Init, Forms
  <2>4. editor = [item |-> NoItem, open |-> FALSE, insert |-> FALSE, readOnly |-> FALSE] /\ bindings = None
    BY DEF Init
  <2>5. editor \in [item : ItemsOf(page), open : BOOLEAN, insert : BOOLEAN, readOnly : BOOLEAN]
        /\ editor.item = NoItem /\ ~editor.open
    BY <2>1, <2>4
  <2>6. ~(editor.item.version > 0)
    <3>1. NoItem.version = 0 BY <2>1
    <3>2. ~(NoItem.version > 0) BY <3>1
    <3> QED BY <3>2, <2>5
  <2>7. editor.item.at.namespace = "" /\ form.at.namespace = "" /\ bindings \in Spots \cup {None}
    BY <2>1, <2>2, <2>3, <2>4, <2>5
  <2> QED BY <2>3, <2>5, <2>6, <2>7 DEF EditorFits
<1> QED BY <1>2, <1>3, <1>4, <1>5 DEF Typed

\* The object at a place is written or deleted.
LEMMA PutFits ==
  ASSUME ServerFits, UNCHANGED <<kind, query>>, NEW at \in Places, NEW content \in Texts, NEW has \in SUBSET page.fields,
         Put(at, content, has)
  PROVE  ServerFits'
<1>1. page' = page /\ Places' = Places BY SamePage
<1>2. at \in Everywhere BY PlacesAreSpots
<1>3. VersionOf(at) \in Nat
  <2>1. CASE objects[at] = None BY <2>1 DEF VersionOf
  <2>2. CASE objects[at] # None
    <3>1. objects[at].version \in 1..MaxVersion BY <1>2, <2>2 DEF ServerFits, Objects
    <3> QED BY <2>2, <3>1 DEF VersionOf
  <2> QED BY <2>1, <2>2
<1> DEFINE new == [content |-> content, has |-> has, version |-> VersionOf(at) + 1]
<1>4. VersionOf(at) < MaxVersion /\ objects' = [objects EXCEPT ![at] = new] BY DEF Put
<1>5. VersionOf(at) + 1 \in 1..MaxVersion BY <1>3, <1>4, BoundsAssumption
<1>6. new \in Objects BY <1>5 DEF Objects
<1> HIDE DEF new
<1>7. objects' \in [Everywhere -> {None} \cup Objects] BY <1>4, <1>6 DEF ServerFits
<1>8. \A other \in Everywhere \ Places : objects'[other] = None BY <1>4 DEF ServerFits
<1>9. Objects' = Objects BY <1>1 DEF Objects
<1> QED BY <1>1, <1>7, <1>8, <1>9 DEF ServerFits

LEMMA RemoveFits ==
  ASSUME ServerFits, UNCHANGED <<kind, query>>, NEW at, objects' = [objects EXCEPT ![at] = None]
  PROVE  ServerFits'
<1>1. page' = page /\ Places' = Places BY SamePage
<1>2. objects' \in [Everywhere -> {None} \cup Objects] BY DEF ServerFits
<1>3. \A other \in Everywhere \ Places : objects'[other] = None BY DEF ServerFits
<1>4. Objects' = Objects BY <1>1 DEF Objects
<1> QED BY <1>1, <1>2, <1>3, <1>4 DEF ServerFits

\* What a list answers.
LEMMA MatchingListed == ASSUME ServerFits, NEW ns PROVE Matching(ns) \subseteq Listed
<1> SUFFICES ASSUME NEW at \in Places, objects[at] # None
             PROVE  Item(at, objects[at].content, objects[at].has, objects[at].version) \in Listed
  BY DEF Matching
<1>1. objects[at] \in Objects BY PlacesAreSpots DEF ServerFits
<1> DEFINE item == Item(at, objects[at].content, objects[at].has, objects[at].version)
<1>2. item.version = objects[at].version /\ item.at = at BY DEF Item
<1>3. objects[at].version \in 0..MaxVersion /\ objects[at].version > 0 BY <1>1, BoundsAssumption DEF Objects
<1>4. item \in ItemsOf(page) BY <1>1, <1>3, PlacesAreSpots DEF ItemsOf, Item, Objects
<1> QED BY <1>2, <1>3, <1>4 DEF Listed

LEMMA Sent ==
  ASSUME Typed, kind' = kind, NEW c \in Slots, NEW op, NEW arg, Call(c, op, arg, ""),
         \/ op = "remove" /\ arg \in Places
         \/ /\ op = "save" /\ arg.at \in Places
            /\ arg \in [at : Spots, content : Texts, has : SUBSET page.fields]
  PROVE  CallsFit'
<1> DEFINE new == [op |-> op, arg |-> arg, then |-> "", result |-> None]
<1>1. calls' = [calls EXCEPT ![c] = new] BY DEF Call
<1>2. Fits(new)
  <2>1. CASE op = "remove" /\ arg \in Places BY <2>1, PlacesAreSpots DEF Fits, CallsOf, OtherCalls
  <2>2. CASE op = "save" /\ arg.at \in Places /\ arg \in [at : Spots, content : Texts, has : SUBSET page.fields]
    BY <2>2 DEF Fits, CallsOf, SaveCalls
  <2> QED BY <2>1, <2>2
<1> QED BY <1>1, <1>2, CallsStep DEF Typed

LEMMA Replied ==
  ASSUME Typed, NEW c \in Slots, NEW op, NEW result, Replies(c, op, result),
         \/ op = "list" /\ result \in SUBSET Listed
         \/ op \in {"save", "remove"} /\ result = "ok"
  PROVE  /\ CallsFit' /\ ListFits' /\ EditorFits' /\ c \in UnderWay /\ calls[c].op = op /\ Fits(calls[c])
         /\ UNCHANGED <<kind, query>>
<1>1. c \in UnderWay /\ calls[c].op = op /\ UNCHANGED <<kind, query>> BY DEF Replies, Asks, UnderWay, Slots
<1>2. Fits(calls[c]) BY <1>1 DEF Typed, CallsFit
<1> DEFINE new == [calls[c] EXCEPT !.result = result]
<1>3. calls' = [calls EXCEPT ![c] = new] BY DEF Replies
<1>4. Fits(new)
  <2>1. CASE op = "list" /\ result \in SUBSET Listed
    <3>1. calls[c] \in ListCalls(page) BY <1>1, <1>2, <2>1 DEF Fits, CallsOf, SaveCalls, OtherCalls
    <3>2. new \in ListCalls(page) BY <2>1, <3>1 DEF ListCalls, Listed
    <3>3. new.op = "list" /\ new.arg = calls[c].arg /\ new.result = result BY <1>1, <2>1, <3>1 DEF ListCalls
    <3> QED BY <1>1, <1>2, <2>1, <3>2, <3>3 DEF Fits, CallsOf
  <2>2. CASE op \in {"save", "remove"} /\ result = "ok"
    <3>1. calls[c] \in SaveCalls(page) \cup OtherCalls BY <1>1, <1>2, <2>2 DEF Fits, CallsOf, ListCalls
    <3>2. new \in SaveCalls(page) \cup OtherCalls BY <2>2, <3>1 DEF SaveCalls, OtherCalls
    <3>3. new.op = op /\ new.arg = calls[c].arg BY <1>1, <2>2, <3>1 DEF SaveCalls, OtherCalls
    <3> QED BY <1>1, <1>2, <2>2, <3>2, <3>3 DEF Fits, CallsOf
  <2> QED BY <2>1, <2>2
<1>5. CallsFit' BY <1>1, <1>3, <1>4, CallsStep DEF Typed
<1>6. EditorFits' BY <1>1, SameEditor DEF Typed, Replies, dialogs
<1>7. ListFits' BY <1>1, ListStep DEF Typed, Replies, ListFits, dialogs
<1> QED BY <1>1, <1>2, <1>5, <1>6, <1>7

LEMMA Presenting ==
  ASSUME Typed, NEW c \in Slots, NEW item, NEW insert, NEW readOnly \in BOOLEAN, Presents(item, insert),
         Shows(c, item, insert, readOnly)
  PROVE  Typed'
<1>1. UNCHANGED <<server, list, picked, alert>> /\ acts < MaxActs /\ acts' = acts + 1
  BY DEF Shows, Acts
<1>2. Present(c, item, insert, readOnly, doubt) BY DEF Shows
<1>3. ServerFits' /\ kind' = kind BY <1>1, SameServer DEF Typed
<1>4. CallsFit' /\ EditorFits' BY <1>2, <1>3, Presented
<1>5. ListFits' BY <1>1, <1>3, ListStep DEF Typed, ListFits
<1> QED BY <1>3, <1>4, <1>5 DEF Typed

\* The user changes nothing but the editor and the question before a delete.
LEMMA Dialogued ==
  ASSUME Typed, UNCHANGED <<server, list, bindings, calls, picked>>, acts < MaxActs /\ acts' = acts + 1,
         alert' \in Listed \cup {None}, EditorFits'
  PROVE  Typed'
<1>1. ServerFits' /\ kind' = kind BY SameServer DEF Typed
<1>2. CallsFit' BY <1>1, SameCalls DEF Typed
<1>3. ListFits' BY <1>1, ListStep DEF Typed, ListFits
<1> QED BY <1>1, <1>2, <1>3 DEF Typed

\* A form edited keeps the name of an object that was opened from the list, and what it
\* has of its fields.
LEMMA Edited ==
  ASSUME EditorFits, kind' = kind, UNCHANGED <<editor, bindings>>,
         form' \in Forms, editor.item # NoItem => form'.content \in Texts,
         page.disableNamespace => form'.at.namespace = form.at.namespace,
         editor.insert \/ form'.at.name = form.at.name, form.has \subseteq form'.has
  PROVE  EditorFits'
<1>1. page' = page /\ Forms' = Forms BY SamePage, SameForms
<1>2. page'.disableNamespace => editor'.item.at.namespace = "" /\ form'.at.namespace = "" BY <1>1 DEF EditorFits
<1>3. editor'.item.version > 0 =>
        ~editor'.insert /\ form'.at.name = editor'.item.at.name /\ editor'.item.has \ form'.has \subseteq Lost(page)'
  BY <1>1 DEF EditorFits
<1> QED BY <1>1, <1>2, <1>3 DEF EditorFits

LEMMA NewItem ==
  ASSUME NEW at \in Spots, NEW content \in Texts, NEW has \in SUBSET page.fields
  PROVE  LET item == Item(at, content, has, 0) IN item \in ItemsOf(page) /\ ~(item.version > 0)
<1>1. 0 \in 0..MaxVersion /\ ~(0 > 0) BY BoundsAssumption
<1>2. Item(at, content, has, 0) \in ItemsOf(page) BY <1>1 DEF ItemsOf, Item
<1> QED BY <1>1, <1>2 DEF Item

LEMMA TypedUser ==
  ASSUME Typed, NEW c \in Slots,
         \/ \E ns \in Namespaces \cup {"*"} : handleChangeNamespace(c, ns)
         \/ handleSave(c)
         \/ \E flag \in BOOLEAN : Decide(c, flag)
         \/ handleShowInsertEditor(c)
         \/ \E at \in Places, content \in Contents : handleImport(c, at, content)
         \/ \E item \in list : handleShowEditor(c, item) \/ handleShowReadOnly(c, item)
  PROVE  Typed'
<1>1. PageFits BY PageIs DEF Typed, ServerFits
<1>2. ASSUME NEW ns \in Namespaces \cup {"*"}, handleChangeNamespace(c, ns) PROVE Typed'
  <2>1. ~page.disableNamespace /\ Call(c, "list", ns, "") /\ picked' = ns /\ UNCHANGED <<server, list, dialogs>>
        /\ acts < MaxActs /\ acts' = acts + 1
    BY <1>2 DEF handleChangeNamespace, loadFromNamespace, Acts
  <2>2. ServerFits' /\ kind' = kind BY <2>1, SameServer DEF Typed
  <2>3. CallsFit' BY <2>1, <2>2, Loading
  <2>4. ListFits' BY <2>1, <2>2, ListStep DEF Typed, ListFits, dialogs
  <2>5. EditorFits' BY <2>1, <2>2, SameEditor DEF Typed, dialogs
  <2> QED BY <2>2, <2>3, <2>4, <2>5 DEF Typed
<1>3. ASSUME handleSave(c) PROVE Typed'
  <2>1. editor.open /\ Call(c, "save", form, "") /\ UNCHANGED <<server, list, picked, dialogs>>
        /\ acts < MaxActs /\ acts' = acts + 1
    BY <1>3 DEF handleSave, Acts
  <2>2. ServerFits' /\ kind' = kind BY <2>1, SameServer DEF Typed
  <2>3. form \in [at : Spots, content : Texts, has : SUBSET page.fields]
    BY <1>1, <2>1 DEF Typed, EditorFits, Forms, PageFits
  <2>4. form.at \in Places
    <3>1. \A field \in page.asks : form.at[field] # "" BY <1>3 DEF handleSave
    <3>2. form.at.name # "" BY <1>1, <3>1 DEF PageFits
    <3>3. ~page.disableNamespace => form.at.namespace # "" BY <1>1, <3>1 DEF PageFits
    <3>4. page.disableNamespace => form.at.namespace = "" BY DEF Typed, EditorFits
    <3> QED BY <1>1, <2>3, <3>2, <3>3, <3>4, SpotIsPlace DEF PageFits
  <2>5. CallsFit' BY <2>1, <2>2, <2>3, <2>4, Sent
  <2>6. ListFits' BY <2>1, <2>2, ListStep DEF Typed, ListFits, dialogs
  <2>7. EditorFits' BY <2>1, <2>2, SameEditor DEF Typed, dialogs
  <2> QED BY <2>2, <2>5, <2>6, <2>7 DEF Typed
<1>4. ASSUME NEW flag \in BOOLEAN, Decide(c, flag) PROVE Typed'
  <2>1. alert # None /\ alert' = None /\ UNCHANGED <<server, list, picked, editor, form, bindings>>
        /\ acts < MaxActs /\ acts' = acts + 1
    BY <1>4 DEF Decide, Acts
  <2>2. ServerFits' /\ kind' = kind BY <2>1, SameServer DEF Typed
  <2>3. alert.at \in Places BY <2>1 DEF Typed, ListFits, Listed
  <2>4. CallsFit'
    <3>1. CASE flag
      <4>1. Call(c, "remove", alert.at, "") BY <1>4, <3>1 DEF Decide
      <4> QED BY <2>2, <2>3, <4>1, Sent
    <3>2. CASE ~flag
      <4>1. UNCHANGED calls BY <1>4, <3>2 DEF Decide
      <4> QED BY <2>2, <4>1, SameCalls DEF Typed
    <3> QED BY <3>1, <3>2
  <2>5. ListFits' BY <2>1, <2>2, ListStep DEF Typed, ListFits
  <2>6. EditorFits' BY <2>1, <2>2, SameEditor DEF Typed
  <2> QED BY <2>2, <2>4, <2>5, <2>6 DEF Typed
<1>5. ASSUME handleShowInsertEditor(c) PROVE Typed'
  <2> DEFINE ns == IF picked = "*" THEN "" ELSE picked
             item == Item(Place(ns, ""), "blank", page.new, 0)
  <2>1. ns \in Namespaces \cup {""} /\ (page.disableNamespace => ns = "") BY DEF Typed, ListFits
  <2>2. Place(ns, "") \in Spots /\ Place(ns, "").namespace = ns BY <2>1 DEF Place, Spots
  <2>3. item.at = Place(ns, "") /\ item.content = "blank" BY DEF Item
  <2>4. item \in ItemsOf(page) /\ ~(item.version > 0) BY <1>1, <2>2, NewItem DEF PageFits, Texts
  <2>5. NoItem.content = "" BY DEF NoItem, Item
  <2>6. item # NoItem BY <2>3, <2>5
  <2>7. Shows(c, item, TRUE, FALSE) BY <1>5 DEF handleShowInsertEditor
  <2> HIDE DEF item
  <2>8. Presents(item, TRUE) BY <2>1, <2>2, <2>3, <2>4, <2>6 DEF Presents
  <2> QED BY <2>7, <2>8, Presenting
<1>6. ASSUME NEW at \in Places, NEW content \in Contents, handleImport(c, at, content) PROVE Typed'
  <2> DEFINE item == Item(at, content, page.fields, 0)
  <2>1. at \in Spots /\ at.name # "" /\ (page.disableNamespace => at.namespace = "")
    BY <1>1, PlacesAreSpots, PlaceParts DEF PageFits
  <2>2. item.at = at BY DEF Item
  <2>3. item \in ItemsOf(page) /\ ~(item.version > 0) BY <2>1, NewItem DEF Texts
  <2>4. NoItem.at.name = "" BY DEF NoItem, Item, Place
  <2>5. item # NoItem BY <2>1, <2>2, <2>4
  <2>6. Shows(c, item, TRUE, FALSE) BY <1>6 DEF handleImport
  <2> HIDE DEF item
  <2>7. Presents(item, TRUE) BY <2>1, <2>2, <2>3, <2>5 DEF Presents
  <2> QED BY <2>6, <2>7, Presenting
<1>7. ASSUME NEW item \in list, handleShowEditor(c, item) \/ handleShowReadOnly(c, item) PROVE Typed'
  <2>1. Presents(item, FALSE) BY ListedPresents DEF Typed, ListFits
  <2>2. \E readOnly \in BOOLEAN : Shows(c, item, FALSE, readOnly) BY <1>7 DEF handleShowEditor, handleShowReadOnly
  <2> QED BY <2>1, <2>2, Presenting
<1> QED BY <1>2, <1>3, <1>4, <1>5, <1>6, <1>7

LEMMA TypedDialogs ==
  ASSUME Typed,
         \/ onClose
         \/ \E item \in list : handleDelete(item)
         \/ \E content \in Contents : EditFields(content)
         \/ \E name \in Names : EditName(name)
         \/ \E ns \in Namespaces : EditNamespace(ns)
  PROVE  Typed'
<1>1. PageFits BY PageIs DEF Typed, ServerFits
<1>2. CASE onClose
  <2>1. UNCHANGED <<server, list, bindings, calls, picked, form, alert>> /\ acts < MaxActs /\ acts' = acts + 1
        /\ editor' = [editor EXCEPT !.open = FALSE]
    BY <1>2 DEF onClose, Only, Acts
  <2>2. kind' = kind BY <2>1 DEF server
  <2>3. page' = page /\ Forms' = Forms BY <2>2, SamePage, SameForms
  <2>4. EditorFits' BY <2>1, <2>3 DEF Typed, EditorFits
  <2> QED BY <2>1, <2>4, Dialogued DEF Typed, ListFits
<1>3. ASSUME NEW item \in list, handleDelete(item) PROVE Typed'
  <2>1. UNCHANGED <<server, list, bindings, calls, picked, editor, form>> /\ acts < MaxActs /\ acts' = acts + 1
        /\ alert' = item
    BY <1>3 DEF handleDelete, Only, Acts
  <2>2. kind' = kind BY <2>1 DEF server
  <2>3. EditorFits' BY <2>1, <2>2, SameEditor DEF Typed
  <2> QED BY <2>1, <2>3, Dialogued DEF Typed, ListFits
<1>4. ASSUME Edits, EditorFits' PROVE Typed'
  <2>1. UNCHANGED <<server, list, bindings, calls, picked, alert>> /\ acts < MaxActs /\ acts' = acts + 1
    BY <1>4 DEF Edits, Only, Acts
  <2> QED BY <1>4, <2>1, Dialogued DEF Typed, ListFits
<1>5. Edits => UNCHANGED <<editor, bindings>> /\ kind' = kind
  BY DEF Edits, Only, Acts, server
<1>6. EditorFits /\ form \in Forms BY DEF Typed, EditorFits
<1>7. form \in [at : Spots, content : Texts \cup {""}, has : SUBSET page.form.keeps] BY <1>6 DEF Forms
<1>8. ASSUME NEW content \in Contents, EditFields(content) PROVE Typed'
  <2>1. Edits /\ form' = [form EXCEPT !.content = content, !.has = @ \cup page.form.inputs] BY <1>8 DEF EditFields
  <2>2. form' \in Forms BY <1>1, <1>7, <2>1 DEF Forms, Texts, PageFits
  <2>3. form'.at = form.at /\ form'.content \in Texts /\ form.has \subseteq form'.has BY <1>7, <2>1 DEF Texts
  <2>4. EditorFits' BY <1>5, <1>6, <2>1, <2>2, <2>3, Edited
  <2> QED BY <1>4, <2>1, <2>4
<1>9. ASSUME NEW name \in Names, EditName(name) PROVE Typed'
  <2>1. Edits /\ editor.insert /\ form' = [form EXCEPT !.at.name = name] BY <1>9 DEF EditName
  <2>2. form' \in Forms BY <1>7, <2>1 DEF Forms, Spots
  <2>3. form'.at.namespace = form.at.namespace /\ form'.content = form.content /\ form.has \subseteq form'.has
    BY <1>7, <2>1 DEF Spots
  <2>4. EditorFits' BY <1>5, <1>6, <2>1, <2>2, <2>3, Edited DEF EditorFits
  <2> QED BY <1>4, <2>1, <2>4
<1>10. ASSUME NEW ns \in Namespaces, EditNamespace(ns) PROVE Typed'
  <2>1. Edits /\ ~page.disableNamespace /\ form' = [form EXCEPT !.at.namespace = ns] BY <1>10 DEF EditNamespace
  <2>2. form' \in Forms BY <1>7, <2>1 DEF Forms, Spots
  <2>3. form'.at.name = form.at.name /\ form'.content = form.content /\ form.has \subseteq form'.has
    BY <1>7, <2>1 DEF Spots
  <2>4. EditorFits' BY <1>5, <1>6, <2>1, <2>2, <2>3, Edited DEF EditorFits
  <2> QED BY <1>4, <2>1, <2>4
<1> QED BY <1>2, <1>3, <1>8, <1>9, <1>10

LEMMA TypedServer ==
  ASSUME Typed,
         \/ \E c \in Slots : ServeList(c) \/ ServeSave(c) \/ ServeRemove(c)
         \/ \E at \in Everywhere : OtherWrites(at)
  PROVE  Typed'
<1>1. ASSUME NEW c \in Slots, ServeList(c) PROVE Typed'
  <2>1. Replies(c, "list", Matching(calls[c].arg)) /\ UNCHANGED objects BY <1>1 DEF ServeList
  <2>2. Matching(calls[c].arg) \subseteq Listed BY MatchingListed DEF Typed
  <2>3. CallsFit' /\ ListFits' /\ EditorFits' /\ UNCHANGED <<kind, query>> BY <2>1, <2>2, Replied
  <2> QED BY <2>1, <2>3, SameServer DEF Typed, server
<1>2. ASSUME NEW c \in Slots, ServeSave(c) PROVE Typed'
  <2>1. Replies(c, "save", "ok") /\ Put(calls[c].arg.at, calls[c].arg.content, calls[c].arg.has)
    BY <1>2 DEF ServeSave
  <2>2. CallsFit' /\ ListFits' /\ EditorFits' /\ UNCHANGED <<kind, query>> /\ Fits(calls[c]) /\ calls[c].op = "save"
    BY <2>1, Replied
  <2>3. calls[c].arg.at \in Places /\ calls[c].arg.content \in Texts /\ calls[c].arg.has \in SUBSET page.fields
    BY <2>2 DEF Fits, CallsOf, ListCalls, SaveCalls, OtherCalls
  <2>4. ServerFits' BY <2>1, <2>2, <2>3, PutFits DEF Typed
  <2> QED BY <2>2, <2>4 DEF Typed
<1>3. ASSUME NEW c \in Slots, ServeRemove(c) PROVE Typed'
  <2>1. Replies(c, "remove", "ok") /\ objects' = [objects EXCEPT ![calls[c].arg] = None] BY <1>3 DEF ServeRemove
  <2>2. CallsFit' /\ ListFits' /\ EditorFits' /\ UNCHANGED <<kind, query>> BY <2>1, Replied
  <2>3. ServerFits' BY <2>1, <2>2, RemoveFits DEF Typed
  <2> QED BY <2>2, <2>3 DEF Typed
<1>4. ASSUME NEW at \in Everywhere, OtherWrites(at) PROVE Typed'
  <2>1. UNCHANGED <<kind, query, calls, picked, list, dialogs>> /\ at \in Places /\ acts < MaxActs /\ acts' = acts + 1
    BY <1>4 DEF OtherWrites
  <2>2. ServerFits'
    <3>1. ASSUME NEW content \in Contents, Put(at, content, page.fields) PROVE ServerFits'
      BY <2>1, <3>1, PutFits DEF Typed, Texts
    <3>2. CASE objects' = [objects EXCEPT ![at] = None] BY <2>1, <3>2, RemoveFits DEF Typed
    <3> QED BY <1>4, <3>1, <3>2 DEF OtherWrites
  <2>3. CallsFit' BY <2>1, SameCalls DEF Typed
  <2>4. ListFits' BY <2>1, ListStep DEF Typed, ListFits, dialogs
  <2>5. EditorFits' BY <2>1, SameEditor DEF Typed, dialogs
  <2> QED BY <2>2, <2>3, <2>4, <2>5 DEF Typed
<1> QED BY <1>1, <1>2, <1>3, <1>4

LEMMA TypedAnswers ==
  ASSUME Typed, NEW c \in Slots,
         AnswerNamespaces(c) \/ AnswerList(c) \/ AnswerSave(c) \/ AnswerRemove(c) \/ AnswerBindings(c) \/ Fail(c)
  PROVE  Typed'
<1>1. UNCHANGED <<server, acts, alert>>
  BY DEF AnswerNamespaces, AnswerList, AnswerSave, AnswerRemove, AnswerBindings, Fail, dialogs
<1>2. ServerFits' /\ kind' = kind BY <1>1, SameServer DEF Typed
<1>3. page' = page BY <1>2, SamePage
<1>4. CallsFit /\ ListFits /\ EditorFits BY DEF Typed
<1>5. ASSUME CallsFit', EditorFits', list' \subseteq Listed,
             picked' \in Namespaces \cup {"", "*"} /\ (page.disableNamespace => picked' = "")
      PROVE  Typed'
  <2>1. ListFits' BY <1>1, <1>2, <1>4, <1>5, ListStep DEF ListFits
  <2> QED BY <1>2, <1>5, <2>1 DEF Typed
<1>6. calls[c] # None => Fits(calls[c]) BY <1>4 DEF CallsFit, UnderWay, Slots
<1>7. list \subseteq Listed /\ picked \in Namespaces \cup {"", "*"} /\ (page.disableNamespace => picked = "")
  BY <1>4 DEF ListFits
<1>8. ASSUME NEW shown, NEW before, Resume(c, shown, before), shown \subseteq Listed, list' \subseteq Listed PROVE Typed'
  BY <1>2, <1>5, <1>8, Resumed
<1>9. CASE AnswerNamespaces(c)
  <2>1. Asks(c, "namespaces") /\ UNCHANGED list BY <1>9 DEF AnswerNamespaces
  <2>2. Fits(calls[c]) /\ calls[c].op = "namespaces" BY <1>6, <2>1 DEF Asks
  <2>3. ~page.disableNamespace /\ calls[c].then \in {"", "mount", "find"}
    BY <2>2 DEF Fits, CallsOf, ListCalls, SaveCalls, OtherCalls
  <2>4. ASSUME NEW ns \in Namespaces, Call(c, "list", ns, calls[c].then), picked' = ns, UNCHANGED <<editor, form, bindings>>
        PROVE  Typed'
    <3>1. CallsFit' BY <1>2, <2>3, <2>4, Loading
    <3>2. EditorFits' BY <1>2, <1>4, <2>4, SameEditor
    <3> QED BY <1>5, <1>7, <2>1, <2>3, <2>4, <3>1, <3>2
  <2> QED BY <1>7, <1>8, <1>9, <2>1, <2>4 DEF AnswerNamespaces
<1>10. CASE AnswerList(c)
  <2>1. Answers(c, "list") /\ list' = calls[c].result /\ Resume(c, calls[c].result, doubt) BY <1>10 DEF AnswerList
  <2>2. calls[c].result \subseteq Listed BY <1>6, <2>1 DEF Answers, Asks, Fits
  <2> QED BY <1>8, <2>1, <2>2
<1>11. CASE AnswerSave(c)
  <2>1. editor' = [editor EXCEPT !.open = FALSE] /\ loadList(c, "") /\ UNCHANGED <<list, form, bindings>>
    BY <1>11 DEF AnswerSave
  <2>2. Forms' = Forms BY <1>2, SameForms
  <2>3. EditorFits' BY <1>3, <1>4, <2>1, <2>2 DEF EditorFits
  <2> QED BY <1>2, <1>5, <1>7, <2>1, <2>3, LoadListFits
<1>12. CASE AnswerRemove(c)
  <2>1. loadList(c, "") /\ UNCHANGED <<list, editor, form, bindings>> BY <1>12 DEF AnswerRemove, dialogs
  <2>2. EditorFits' BY <1>2, <1>4, <2>1, SameEditor
  <2> QED BY <1>2, <1>5, <1>7, <2>1, <2>2, LoadListFits
<1>13. ASSUME Hangup(c) PROVE CallsFit'
  BY <1>2, <1>4, <1>13, CallsStep DEF Hangup
<1>14. CASE AnswerBindings(c)
  <2>1. Asks(c, "bindings") /\ bindings' = calls[c].arg /\ Hangup(c) /\ UNCHANGED <<picked, list, editor, form>>
    BY <1>14 DEF AnswerBindings
  <2>2. calls[c].arg \in Spots BY <1>6, <2>1 DEF Asks, Fits, CallsOf, ListCalls, SaveCalls, OtherCalls
  <2>3. Forms' = Forms BY <1>2, SameForms
  <2>4. EditorFits' BY <1>3, <1>4, <2>1, <2>2, <2>3 DEF EditorFits
  <2> QED BY <1>5, <1>7, <1>13, <2>1, <2>4
<1>15. CASE Fail(c)
  <2>1. CASE Hangup(c) /\ UNCHANGED <<picked, editor, form, bindings>>
    <3>1. EditorFits' BY <1>2, <1>4, <2>1, SameEditor
    <3>2. UNCHANGED list BY <1>15 DEF Fail
    <3> QED BY <1>5, <1>7, <1>13, <2>1, <3>1, <3>2
  <2>2. CASE Resume(c, list, doubt \cup {"list"})
    <3>1. UNCHANGED list BY <1>15 DEF Fail
    <3> QED BY <1>7, <1>8, <2>2, <3>1
  <2> QED BY <1>15, <2>1, <2>2 DEF Fail
<1> QED BY <1>9, <1>10, <1>11, <1>12, <1>14, <1>15

LEMMA TypedNext == Typed /\ [Next]_vars => Typed'
<1> SUFFICES ASSUME Typed, [Next]_vars PROVE Typed' OBVIOUS
<1>1. CASE UNCHANGED vars
  <2>1. UNCHANGED <<server, calls, picked, list, alert, acts, editor, form, bindings>> BY <1>1 DEF vars, dialogs
  <2>2. ServerFits' /\ kind' = kind BY <2>1, SameServer DEF Typed
  <2>3. ListFits' BY <2>1, <2>2, ListStep DEF Typed, ListFits
  <2> QED BY <2>1, <2>2, <2>3, SameCalls, SameEditor DEF Typed
<1>2. CASE Next
  BY <1>2, TypedUser, TypedDialogs, TypedServer, TypedAnswers DEF Next, Slots
<1> QED BY <1>1, <1>2

LEMMA TypedAlways == Spec => []Typed
BY TypedInit, TypedNext, PTL DEF Spec

\* A page is well typed: what the server holds has a place its kind allows and a version
\* that counts its writes, and what the page shows, asks about and edits is of its kind.
THEOREM PageTypeCorrect == Spec => []TypeOK
<1>1. Typed => TypeOK
  <2> SUFFICES ASSUME Typed PROVE TypeOK OBVIOUS
  <2>1. kind \in DOMAIN PageOf BY KindsAssumption DEF Typed, ServerFits
  <2>2. \A at \in Everywhere : objects[at] # None =>
          at \in Places /\ objects[at].version \in 1..MaxVersion /\ objects[at].has \subseteq page.fields
    BY DEF Typed, ServerFits, Objects
  <2>3. list \subseteq ItemsOf(page) /\ alert \in ItemsOf(page) \cup {None} BY DEF Typed, ListFits, Listed
  <2>4. editor.item \in ItemsOf(page) /\ bindings \in Spots \cup {None} /\ form.has \subseteq page.form.keeps
    BY DEF Typed, EditorFits, Forms
  <2>5. picked \in Namespaces \cup {"", "*"} /\ acts \in 0..MaxActs BY DEF Typed, ListFits
  <2> QED BY <2>1, <2>2, <2>3, <2>4, <2>5 DEF TypeOK
<1> QED BY <1>1, TypedAlways, PTL

\* What is saved goes back to the object the editor was opened for, with all its fields
\* but those the form of its kind does not know.
THEOREM EditorHolds == Spec => []EditorHoldsItem
<1>1. Typed => EditorHoldsItem
  <2> SUFFICES ASSUME Typed, editor.open, ~editor.insert
               PROVE  /\ form.at.name = editor.item.at.name
                      /\ page.disableNamespace => form.at = editor.item.at
                      /\ editor.item.has \ form.has \subseteq Lost(page)
    BY DEF EditorHoldsItem
  <2>1. editor.item.version > 0 BY DEF Typed, EditorFits
  <2>2. form.at.name = editor.item.at.name /\ editor.item.has \ form.has \subseteq Lost(page)
    BY <2>1 DEF Typed, EditorFits
  <2>3. form.at \in Spots /\ editor.item.at \in Spots
    <3>1. form.at \in Spots BY DEF Typed, EditorFits, Forms
    <3>2. editor.item \in ItemsOf(page) /\ editor.item # NoItem BY DEF Typed, EditorFits
    <3> QED BY <3>1, <3>2 DEF ItemsOf
  <2>4. ASSUME page.disableNamespace PROVE form.at = editor.item.at
    <3>1. form.at.namespace = editor.item.at.namespace BY <2>4 DEF Typed, EditorFits
    <3> QED BY <2>2, <2>3, <3>1, SameSpot
  <2> QED BY <2>2, <2>4
<1> QED BY <1>1, TypedAlways, PTL

-----------------------------------------------------------------------------
(***************************************************************************)
(* Bindings.                                                               *)
(***************************************************************************)
\* A step leaves the bindings, what asks for them and whom they are for.
LEMMA BindingsStay ==
  ASSUME BindingsOwn, CallsFit, kind' = kind, UNCHANGED bindings, editor'.item = editor.item,
         "bindings" \in doubt => "bindings" \in doubt',
         NEW c \in Slots, NEW new, calls' = calls \/ calls' = [calls EXCEPT ![c] = new],
         ~Asks(c, "bindings"), new # None => new.op # "bindings"
  PROVE  BindingsOwn'
<1>1. page' = page BY SamePage
<1>2. ASSUME NEW d \in Slots PROVE (Asks(d, "bindings")' <=> Asks(d, "bindings")) /\ (Asks(d, "bindings") => calls'[d] = calls[d])
  <2>1. CASE d = c /\ calls' = [calls EXCEPT ![c] = new]
    <3>1. calls'[d] = new BY <2>1 DEF CallsFit
    <3>2. ~Asks(d, "bindings")' BY <3>1 DEF Asks
    <3> QED BY <2>1, <3>2
  <2>2. CASE calls' = calls BY <2>2 DEF Asks
  <2>3. CASE d # c /\ calls' = [calls EXCEPT ![c] = new]
    <3>1. calls'[d] = calls[d] BY <2>3 DEF CallsFit
    <3> QED BY <3>1 DEF Asks
  <2> QED BY <2>1, <2>2, <2>3
<1> QED BY <1>1, <1>2 DEF BindingsOwn

\* A load puts nothing in doubt but what it is of.
LEMMA BegunKeeps ==
  ASSUME NEW c, NEW before, NEW what \in {"list", "bindings"}, NEW other \in {"list", "bindings"}, what # other
  PROVE  other \in Begun(c, what, before) <=> other \in before
BY DEF Begun

LEMMA BindingsSame ==
  ASSUME BindingsOwn, kind' = kind, UNCHANGED <<calls, bindings>>, editor'.item = editor.item,
         "bindings" \in doubt => "bindings" \in doubt'
  PROVE  BindingsOwn'
<1>1. page' = page BY SamePage
<1> QED BY <1>1 DEF BindingsOwn, Asks

LEMMA BindingsPresented ==
  ASSUME Typed, BindingsOwn, kind' = kind, NEW c \in Slots, ~Asks(c, "bindings"),
         NEW item, NEW insert, NEW readOnly, NEW before, Present(c, item, insert, readOnly, before),
         item.at \in Spots, "bindings" \in doubt => "bindings" \in before
  PROVE  BindingsOwn'
<1>1. page' = page BY SamePage
<1>2. editor'.item = item BY DEF Present
<1>3. CASE item # editor.item /\ page.form.loads = "bindings"
  <2> DEFINE new == [op |-> "bindings", arg |-> item.at, then |-> "", result |-> None]
  <2>1. calls' = [calls EXCEPT ![c] = new] /\ doubt' = Begun(c, "bindings", before) BY <1>3 DEF Present, Call
  <2>2. new # None
    <3>1. new \in CallsOf(page) BY DEF CallsOf, OtherCalls
    <3> QED BY <3>1, NoneIsNoCall DEF Typed, ServerFits
  <2>3. calls'[c] = new BY <2>1 DEF Typed, CallsFit
  <2>4. ASSUME "bindings" \notin doubt', NEW d \in Slots, d # c PROVE ~Asks(d, "bindings")'
    <3>1. ~\E e \in UnderWay \ {c} : calls[e].op \in Ops("bindings") BY <2>1, <2>4 DEF Begun
    <3>2. Ops("bindings") = {"bindings"} BY DEF Ops
    <3>3. calls'[d] = calls[d] BY <2>1, <2>4 DEF Typed, CallsFit
    <3>4. ~(calls[d] # None /\ calls[d].op = "bindings") BY <2>4, <3>1, <3>2 DEF UnderWay, Slots
    <3> QED BY <3>3, <3>4 DEF Asks
  <2>5. new.op = "bindings" /\ new.arg = item.at OBVIOUS
  <2> HIDE DEF new
  <2>6. Asks(c, "bindings")' /\ calls'[c].arg = editor'.item.at BY <1>2, <2>2, <2>3, <2>5 DEF Asks
  <2> QED BY <2>4, <2>6 DEF BindingsOwn
<1>4. CASE page.form.loads # "bindings"
  BY <1>1, <1>4 DEF BindingsOwn
<1>5. CASE item = editor.item /\ page.form.loads = "bindings"
  <2>1. calls' = [calls EXCEPT ![c] = None] /\ UNCHANGED bindings /\ doubt' = before BY <1>5 DEF Present, Hangup
  <2> QED BY <1>2, <1>5, <2>1, BindingsStay DEF Typed
<1> QED BY <1>3, <1>4, <1>5

\* A slot that asks for no bindings is given a call that does not either.
LEMMA BindingsCall ==
  ASSUME BindingsOwn, CallsFit, kind' = kind, UNCHANGED bindings, editor'.item = editor.item,
         "bindings" \in doubt => "bindings" \in doubt',
         NEW c \in Slots, ~Asks(c, "bindings"),
         \/ Hangup(c)
         \/ \E arg, then : \E op \in {"namespaces", "list", "save", "remove"} : Call(c, op, arg, then)
  PROVE  BindingsOwn'
<1>1. CASE Hangup(c) BY <1>1, BindingsStay DEF Hangup
<1>2. ASSUME NEW op \in {"namespaces", "list", "save", "remove"}, NEW arg, NEW then, Call(c, op, arg, then)
      PROVE  BindingsOwn'
  <2> DEFINE new == [op |-> op, arg |-> arg, then |-> then, result |-> None]
  <2>1. calls' = [calls EXCEPT ![c] = new] BY <1>2 DEF Call
  <2>2. new.op # "bindings" OBVIOUS
  <2> HIDE DEF new
  <2> QED BY <2>1, <2>2, BindingsStay
<1> QED BY <1>1, <1>2

LEMMA BindingsLoad ==
  ASSUME BindingsOwn, CallsFit, kind' = kind, UNCHANGED bindings, editor'.item = editor.item,
         NEW c \in Slots, ~Asks(c, "bindings"),
         \/ loadList(c, "")
         \/ \E ns, then : loadFromNamespace(c, ns, then)
  PROVE  BindingsOwn'
<1>1. doubt' = Begun(c, "list", doubt) BY DEF loadList, loadFromNamespace
<1>2. "bindings" \in doubt => "bindings" \in doubt' BY <1>1, BegunKeeps
<1>3. \E arg, then : \E op \in {"namespaces", "list", "save", "remove"} : Call(c, op, arg, then)
  BY DEF loadList, loadFromNamespace
<1> QED BY <1>2, <1>3, BindingsCall

LEMMA BindingsResumed ==
  ASSUME Typed, BindingsOwn, kind' = kind, NEW c \in Slots, ~Asks(c, "bindings"),
         NEW shown, NEW before, Resume(c, shown, before), shown \subseteq Listed,
         "bindings" \in doubt => "bindings" \in before
  PROVE  BindingsOwn'
<1>1. ASSUME loadFromNamespace(c, query.at.namespace, "find"), UNCHANGED <<editor, form, bindings>> PROVE BindingsOwn'
  BY <1>1, BindingsLoad DEF Typed
<1>2. ASSUME NEW item \in shown, Present(c, item, FALSE, query.readOnly, before) PROVE BindingsOwn'
  <2>1. item.at \in Spots BY PlacesAreSpots DEF Listed
  <2> QED BY <1>2, <2>1, BindingsPresented
<1>3. ASSUME Hangup(c), doubt' = before, UNCHANGED <<editor, form, bindings>> PROVE BindingsOwn'
  BY <1>3, BindingsCall DEF Typed
<1> QED BY <1>1, <1>2, <1>3 DEF Resume

LEMMA BindingsReplied ==
  ASSUME Typed, BindingsOwn, NEW c \in Slots, NEW op \in {"list", "save", "remove"}, NEW result, Replies(c, op, result)
  PROVE  BindingsOwn'
<1>1. calls[c] # None /\ calls[c].op = op /\ UNCHANGED <<kind, editor, bindings, doubt>> BY DEF Replies, Asks, dialogs
<1> DEFINE new == [calls[c] EXCEPT !.result = result]
<1>2. calls' = [calls EXCEPT ![c] = new] BY DEF Replies
<1>3. calls[c] \in CallsOf(page) BY <1>1 DEF Typed, CallsFit
<1>4. new.op = op BY <1>1, <1>3 DEF CallsOf, ListCalls, SaveCalls, OtherCalls
<1> HIDE DEF new
<1>5. ~Asks(c, "bindings") /\ new.op # "bindings" BY <1>1, <1>4 DEF Asks
<1> QED BY <1>1, <1>2, <1>5, BindingsStay DEF Typed

LEMMA BindingsNext == Typed /\ BindingsOwn /\ [Next]_vars => BindingsOwn'
<1> SUFFICES ASSUME Typed, BindingsOwn, [Next]_vars PROVE BindingsOwn' OBVIOUS
<1>1. kind' = kind /\ CallsFit
  BY DEF Typed, Next, vars, server, handleChangeNamespace, handleSave, Decide, ServeList, ServeSave, ServeRemove, Replies,
     AnswerNamespaces, AnswerList, AnswerSave, AnswerRemove, AnswerBindings, Fail, handleShowInsertEditor, handleImport,
     handleShowEditor, handleShowReadOnly, Shows, onClose, handleDelete, EditFields, EditName, EditNamespace, Edits, Only,
     Acts, OtherWrites
<1>2. list \subseteq Listed /\ \A d \in Slots : calls[d] # None => Fits(calls[d])
  BY DEF Typed, ListFits, CallsFit, UnderWay, Slots
<1>3. \A c : IsNext(c) => ~Asks(c, "bindings") BY DEF IsNext, Asks
<1>4. ASSUME NEW c \in Slots, NEW ns, handleChangeNamespace(c, ns) PROVE BindingsOwn'
  <2>1. loadFromNamespace(c, ns, "") /\ IsNext(c) /\ UNCHANGED <<editor, bindings>>
    BY <1>4 DEF handleChangeNamespace, dialogs
  <2> QED BY <1>1, <1>3, <2>1, BindingsLoad
<1>5. ASSUME NEW c \in Slots, handleSave(c) PROVE BindingsOwn'
  <2>1. Call(c, "save", form, "") /\ IsNext(c) /\ UNCHANGED <<editor, bindings, doubt>>
    BY <1>5 DEF handleSave, dialogs
  <2> QED BY <1>1, <1>3, <2>1, BindingsCall
<1>6. ASSUME NEW c \in Slots, NEW flag \in BOOLEAN, Decide(c, flag) PROVE BindingsOwn'
  <2>1. UNCHANGED <<editor, bindings, doubt>> BY <1>6 DEF Decide
  <2>2. CASE flag
    <3>1. Call(c, "remove", alert.at, "") /\ IsNext(c) BY <1>6, <2>2 DEF Decide
    <3> QED BY <1>1, <1>3, <2>1, <3>1, BindingsCall
  <2>3. CASE ~flag
    <3>1. UNCHANGED calls BY <1>6, <2>3 DEF Decide
    <3> QED BY <1>1, <2>1, <3>1, BindingsSame
  <2> QED BY <2>2, <2>3
<1>7. ASSUME NEW c \in Slots, NEW item, NEW insert, NEW readOnly, Shows(c, item, insert, readOnly), item.at \in Spots
      PROVE  BindingsOwn'
  <2>1. Present(c, item, insert, readOnly, doubt) /\ IsNext(c) BY <1>7 DEF Shows
  <2> QED BY <1>1, <1>3, <1>7, <2>1, BindingsPresented
<1>8. ASSUME NEW c \in Slots, handleShowInsertEditor(c) PROVE BindingsOwn'
  <2> DEFINE ns == IF picked = "*" THEN "" ELSE picked
             item == Item(Place(ns, ""), "blank", page.new, 0)
  <2>1. ns \in Namespaces \cup {""} BY DEF Typed, ListFits
  <2>2. Place(ns, "") \in Spots BY <2>1 DEF Place, Spots
  <2>3. Shows(c, item, TRUE, FALSE) /\ item.at = Place(ns, "") BY <1>8 DEF handleShowInsertEditor, Item
  <2> QED BY <1>7, <2>2, <2>3
<1>9. ASSUME NEW c \in Slots, NEW at \in Places, NEW content, handleImport(c, at, content) PROVE BindingsOwn'
  <2> DEFINE item == Item(at, content, page.fields, 0)
  <2>1. Shows(c, item, TRUE, FALSE) /\ item.at = at BY <1>9 DEF handleImport, Item
  <2> QED BY <1>7, <2>1, PlacesAreSpots
<1>10. ASSUME NEW c \in Slots, NEW item \in list, handleShowEditor(c, item) \/ handleShowReadOnly(c, item)
       PROVE  BindingsOwn'
  <2>1. item.at \in Spots BY <1>2, PlacesAreSpots DEF Listed
  <2> QED BY <1>7, <1>10, <2>1 DEF handleShowEditor, handleShowReadOnly
<1>11. ASSUME NEW c \in Slots, ServeList(c) \/ ServeSave(c) \/ ServeRemove(c) PROVE BindingsOwn'
  BY <1>11, BindingsReplied DEF ServeList, ServeSave, ServeRemove
<1>12. ASSUME NEW c \in Slots, NEW op \in {"namespaces", "list", "save", "remove"}, calls[c].op = op
       PROVE  ~Asks(c, "bindings")
  BY <1>12 DEF Asks
<1>13. ASSUME NEW c \in Slots, AnswerNamespaces(c) PROVE BindingsOwn'
  <2>1. ~Asks(c, "bindings") BY <1>12, <1>13 DEF AnswerNamespaces, Asks
  <2>2. ASSUME NEW ns, Call(c, "list", ns, calls[c].then), UNCHANGED <<editor, bindings, doubt>> PROVE BindingsOwn'
    BY <1>1, <2>1, <2>2, BindingsCall
  <2>3. ASSUME Resume(c, list, doubt \cup {"list"}) PROVE BindingsOwn'
    BY <1>1, <1>2, <2>1, <2>3, BindingsResumed
  <2> QED BY <1>13, <2>2, <2>3 DEF AnswerNamespaces
<1>14. ASSUME NEW c \in Slots, AnswerList(c) PROVE BindingsOwn'
  <2>1. Answers(c, "list") /\ Resume(c, calls[c].result, doubt) BY <1>14 DEF AnswerList
  <2>2. ~Asks(c, "bindings") BY <1>12, <2>1 DEF Answers, Asks
  <2>3. calls[c].result \subseteq Listed BY <1>2, <2>1 DEF Answers, Asks, Fits
  <2> QED BY <1>1, <2>1, <2>2, <2>3, BindingsResumed
<1>15. ASSUME NEW c \in Slots, AnswerSave(c) \/ AnswerRemove(c) PROVE BindingsOwn'
  <2>1. ~Asks(c, "bindings") BY <1>12, <1>15 DEF AnswerSave, AnswerRemove, Answers, Asks
  <2>2. loadList(c, "") /\ UNCHANGED bindings BY <1>15 DEF AnswerSave, AnswerRemove, dialogs
  <2>3. editor'.item = editor.item BY <1>15 DEF AnswerSave, AnswerRemove, dialogs, Typed, EditorFits
  <2> QED BY <1>1, <2>1, <2>2, <2>3, BindingsLoad
<1>16. ASSUME NEW c \in Slots, AnswerBindings(c) PROVE BindingsOwn'
  <2>1. Asks(c, "bindings") /\ bindings' = calls[c].arg /\ calls' = [calls EXCEPT ![c] = None] /\ UNCHANGED <<editor, doubt>>
    BY <1>16 DEF AnswerBindings, Hangup
  <2>2. page' = page BY <1>1, SamePage
  <2>3. ASSUME NEW d \in Slots, Asks(d, "bindings")' PROVE Asks(d, "bindings") /\ calls'[d] = calls[d]
    BY <1>1, <2>1, <2>3 DEF Asks, CallsFit
  <2> QED BY <2>1, <2>2, <2>3 DEF BindingsOwn
<1>17. ASSUME NEW c \in Slots, Fail(c) PROVE BindingsOwn'
  <2>1. CASE calls[c].op \in Ops("list") /\ Resume(c, list, doubt \cup {"list"})
    <3>1. ~Asks(c, "bindings") BY <1>12, <2>1 DEF Ops
    <3> QED BY <1>1, <1>2, <2>1, <3>1, BindingsResumed
  <2>2. CASE calls[c].op = "bindings" /\ doubt' = doubt \cup {"bindings"}
    BY <2>2 DEF BindingsOwn
  <2>3. CASE calls[c].op # "bindings" /\ Hangup(c) /\ UNCHANGED <<editor, bindings>> /\ doubt' = doubt \cup {"list"}
    <3>1. ~Asks(c, "bindings") BY <2>3 DEF Asks
    <3> QED BY <1>1, <2>3, <3>1, BindingsCall
  <2> QED BY <1>17, <2>1, <2>2, <2>3 DEF Fail
<1>18. CASE onClose \/ (\E item \in list : handleDelete(item)) \/ (\E content \in Contents : EditFields(content))
            \/ (\E name \in Names : EditName(name)) \/ (\E ns \in Namespaces : EditNamespace(ns))
            \/ (\E at \in Everywhere : OtherWrites(at)) \/ UNCHANGED vars
  <2>1. UNCHANGED <<calls, bindings>> /\ ("bindings" \in doubt => "bindings" \in doubt')
    BY <1>18 DEF onClose, handleDelete, EditFields, EditName, EditNamespace, Edits, Only, OtherWrites, vars, dialogs
  <2>2. editor'.item = editor.item
    BY <1>18 DEF onClose, handleDelete, EditFields, EditName, EditNamespace, Edits, Only, OtherWrites, vars, dialogs,
       Typed, EditorFits
  <2> QED BY <1>1, <2>1, <2>2, BindingsSame
<1> QED BY <1>4, <1>5, <1>6, <1>8, <1>9, <1>10, <1>11, <1>13, <1>14, <1>15, <1>16, <1>17, <1>18 DEF Next, Slots

\* The bindings a form shows, or waits for, are those of the object it shows, unless their
\* call failed or overlapped another.
THEOREM BindingsAreIts == Spec => []BindingsAreOwn
<1>1. Init => BindingsOwn
  <2>1. Init => editor = [item |-> NoItem, open |-> FALSE, insert |-> FALSE, readOnly |-> FALSE] BY DEF Init
  <2>2. Init => editor.item = NoItem BY <2>1
  <2> QED BY <2>2 DEF BindingsOwn
<1>2. Spec => []BindingsOwn BY <1>1, BindingsNext, TypedAlways, PTL DEF Spec
<1>3. Typed /\ BindingsOwn => BindingsAreOwn
  <2> SUFFICES ASSUME Typed, BindingsOwn, editor.open, page.form.loads = "bindings", "bindings" \notin doubt,
                      ~\E c \in UnderWay : calls[c].op = "bindings"
               PROVE  bindings = editor.item.at
    BY DEF BindingsAreOwn
  <2>1. editor.item # NoItem BY DEF Typed, EditorFits
  <2>2. \A c \in Slots : ~Asks(c, "bindings") BY DEF Asks, UnderWay, Slots
  <2> QED BY <2>1, <2>2 DEF BindingsOwn
<1> QED BY <1>2, <1>3, TypedAlways, PTL

-----------------------------------------------------------------------------
(***************************************************************************)
(* The list.                                                               *)
(***************************************************************************)
LEMMA SameMatching ==
  ASSUME UNCHANGED <<kind, objects, picked>>
  PROVE  Matching(picked)' = Matching(picked)
<1>1. Places' = Places BY SamePage
<1> QED BY <1>1 DEF Matching

\* One slot is given another call, or none.
LEMMA SlotStep ==
  ASSUME CallsFit, NEW c \in Slots, NEW new, calls' = [calls EXCEPT ![c] = new]
  PROVE  /\ calls'[c] = new
         /\ \A d \in Slots : d # c => calls'[d] = calls[d]
BY DEF CallsFit

\* The one call that is to bring the list begins.
LEMMA ListBegins ==
  ASSUME CallsFit, NEW c \in Slots, NEW new, calls' = [calls EXCEPT ![c] = new],
         new # None, new.op \in {"namespaces", "list"}, new.result = None, new.op = "list" => new.arg = picked',
         "list" \notin doubt' => \A d \in Slots : d # c => ~Lists(d)
  PROVE  ListOwn'
<1> SUFFICES ASSUME "list" \notin doubt'
             PROVE  /\ \A d \in Slots : Lists(d)' => d = c
                    /\ Lists(c)'
                    /\ Asks(c, "list")' => calls'[c].arg = picked'
                    /\ ~Answers(c, "list")'
  <2>1. \A d \in Slots : Asks(d, "list")' => Lists(d)' BY DEF Asks, Lists
  <2>2. \A d \in Slots : Answers(d, "list")' => Asks(d, "list")' BY DEF Answers
  <2> QED BY <2>1, <2>2 DEF ListOwn
<1>1. calls'[c] = new /\ \A d \in Slots : d # c => calls'[d] = calls[d] BY SlotStep
<1>2. \A d \in Slots : Lists(d)' => d = c BY <1>1 DEF Lists
<1>3. Lists(c)' BY <1>1 DEF Lists
<1>4. Asks(c, "list")' => calls'[c].arg = picked' BY <1>1 DEF Asks
<1>5. ~Answers(c, "list")' BY <1>1 DEF Answers
<1> QED BY <1>2, <1>3, <1>4, <1>5

\* A slot that has no part in the list is given a call that has none.
LEMMA ListStays ==
  ASSUME ListOwn, CallsFit, UNCHANGED <<kind, objects, picked, list>>, "list" \in doubt => "list" \in doubt',
         NEW c \in Slots, NEW new, calls' = [calls EXCEPT ![c] = new], ~Lists(c), ~Writes(c),
         new # None => new.op \notin {"namespaces", "list"} /\ (new.op = "bindings" \/ new.result = None)
  PROVE  ListOwn'
<1>1. calls'[c] = new /\ \A d \in Slots : d # c => calls'[d] = calls[d] BY SlotStep
<1>2. ASSUME NEW d \in Slots
      PROVE  /\ Lists(d)' <=> Lists(d)
             /\ Writes(d)' <=> Writes(d)
             /\ Asks(d, "list")' => Asks(d, "list") /\ calls'[d] = calls[d]
             /\ Answers(d, "list")' => Answers(d, "list")
  <2>1. CASE d = c
    <3>1. ~Lists(d)' /\ ~Writes(d)' BY <1>1, <2>1 DEF Lists, Writes
    <3>2. ~Asks(d, "list")' BY <1>1, <2>1 DEF Asks
    <3> QED BY <2>1, <3>1, <3>2 DEF Answers
  <2>2. CASE d # c
    <3>1. calls'[d] = calls[d] BY <1>1, <2>2
    <3> QED BY <3>1 DEF Lists, Writes, Asks, Answers
  <2> QED BY <2>1, <2>2
<1>3. Matching(picked)' = Matching(picked) BY SameMatching
<1>4. ASSUME NEW d \in Slots, Answers(d, "list")' PROVE Answers(d, "list") /\ calls'[d].result = calls[d].result
  <2>1. Asks(d, "list")' BY <1>4 DEF Answers
  <2> QED BY <1>2, <1>4, <2>1
<1> QED BY <1>2, <1>3, <1>4 DEF ListOwn

LEMMA ListSame ==
  ASSUME ListOwn, UNCHANGED <<kind, objects, picked, list, calls>>, "list" \in doubt => "list" \in doubt'
  PROVE  ListOwn'
<1>1. Matching(picked)' = Matching(picked) BY SameMatching
<1> QED BY <1>1 DEF ListOwn, Lists, Writes, Asks, Answers

\* The call that was to bring the list is over, with the list or with a doubt.
LEMMA ListEnds ==
  ASSUME ListOwn, CallsFit, UNCHANGED <<kind, objects, picked>>,
         NEW c \in Slots, NEW new, calls' = [calls EXCEPT ![c] = new], new # None => new.op = "bindings", Lists(c),
         "list" \in doubt' \/ ("list" \notin doubt /\ Answers(c, "list") /\ list' = calls[c].result)
  PROVE  ListOwn'
<1> SUFFICES ASSUME "list" \notin doubt' PROVE ListOwn' BY DEF ListOwn
<1>1. calls'[c] = new /\ \A d \in Slots : d # c => calls'[d] = calls[d] BY SlotStep
<1>2. "list" \notin doubt /\ Answers(c, "list") /\ list' = calls[c].result OBVIOUS
<1>3. ASSUME NEW d \in Slots PROVE ~Lists(d)' /\ (Writes(d) => Writes(d)')
  <2>1. CASE d = c
    <3>1. ~Lists(d)' BY <1>1, <2>1 DEF Lists
    <3>2. ~Writes(d) BY <2>1 DEF Lists, Writes
    <3> QED BY <3>1, <3>2
  <2>2. CASE d # c
    <3>1. ~Lists(d) BY <1>2, <2>2 DEF ListOwn
    <3>2. calls'[d] = calls[d] BY <1>1, <2>2
    <3> QED BY <3>1, <3>2 DEF Lists, Writes
  <2> QED BY <2>1, <2>2
<1>4. \A d \in Slots : ~Asks(d, "list")' /\ ~Answers(d, "list")' BY <1>3 DEF Asks, Answers, Lists
<1>5. Matching(picked)' = Matching(picked) BY SameMatching
<1>6. (\A d \in Slots : ~Writes(d)) => list' = Matching(picked) BY <1>2 DEF ListOwn
<1> QED BY <1>3, <1>4, <1>5, <1>6 DEF ListOwn

LEMMA BegunAlone ==
  ASSUME NEW c, "list" \notin Begun(c, "list", doubt)
  PROVE  \A d \in Slots : d # c => ~Lists(d)
<1>1. ~\E d \in UnderWay \ {c} : calls[d].op \in Ops("list") BY DEF Begun
<1>2. Ops("list") = {"namespaces", "list"} BY DEF Ops
<1> QED BY <1>1, <1>2 DEF Lists, UnderWay, Slots

\* A load begins, or goes on from the namespaces to the list, and is alone unless the list
\* is in doubt.
LEMMA ListLoad ==
  ASSUME Typed, NEW c \in Slots, NEW op \in {"namespaces", "list"}, NEW ns \in Namespaces \cup {"", "*"},
         NEW then \in {"", "mount", "find"}, Call(c, op, ns, then), op = "list" => picked' = ns,
         \/ doubt' = Begun(c, "list", doubt)
         \/ doubt' = doubt /\ ListOwn /\ Lists(c)
  PROVE  ListOwn'
<1> DEFINE new == [op |-> op, arg |-> ns, then |-> then, result |-> None]
<1>1. calls' = [calls EXCEPT ![c] = new] BY DEF Call
<1>2. new \in CallsOf(page) BY DEF CallsOf, ListCalls
<1>3. new # None BY <1>2, NoneIsNoCall DEF Typed, ServerFits
<1>4. new.op = op /\ new.result = None /\ new.arg = ns OBVIOUS
<1>5. ASSUME "list" \notin doubt' PROVE \A d \in Slots : d # c => ~Lists(d)
  BY <1>5, BegunAlone DEF ListOwn
<1> HIDE DEF new
<1> QED BY <1>1, <1>3, <1>4, <1>5, ListBegins DEF Typed

LEMMA ListLoads == ASSUME Typed, NEW c \in Slots, loadList(c, "") PROVE ListOwn'
<1>1. CASE page.disableNamespace
  <2>1. Call(c, "list", "", "") /\ picked' = "" /\ doubt' = Begun(c, "list", doubt)
    BY <1>1 DEF loadList, loadFromNamespace
  <2> QED BY <2>1, ListLoad
<1>2. CASE ~page.disableNamespace
  <2>1. Call(c, "namespaces", "*", "") /\ doubt' = Begun(c, "list", doubt) BY <1>2 DEF loadList
  <2> QED BY <2>1, ListLoad
<1> QED BY <1>1, <1>2

\* What Present leaves in a slot.
LEMMA PresentLeaves ==
  ASSUME NEW c \in Slots, NEW item, NEW insert, NEW readOnly, NEW before, Present(c, item, insert, readOnly, before)
  PROVE  /\ \E new : calls' = [calls EXCEPT ![c] = new] /\ (new # None => new.op = "bindings")
         /\ "list" \in doubt' <=> "list" \in before
<1>1. CASE item # editor.item /\ page.form.loads = "bindings"
  <2> DEFINE new == [op |-> "bindings", arg |-> item.at, then |-> "", result |-> None]
  <2>1. calls' = [calls EXCEPT ![c] = new] /\ doubt' = Begun(c, "bindings", before) BY <1>1 DEF Present, Call
  <2>2. new.op = "bindings" OBVIOUS
  <2> HIDE DEF new
  <2> QED BY <2>1, <2>2, BegunKeeps
<1>2. CASE ~(item # editor.item /\ page.form.loads = "bindings")
  BY <1>2 DEF Present, Hangup
<1> QED BY <1>1, <1>2

\* A load that is over goes on, opens an editor or does nothing.
LEMMA ListResumed ==
  ASSUME Typed, ListOwn, UNCHANGED <<kind, objects>>, NEW c \in Slots, Lists(c),
         NEW shown, NEW before, Resume(c, shown, before),
         "list" \in before \/ ("list" \notin doubt /\ Answers(c, "list") /\ list' = calls[c].result)
  PROVE  ListOwn'
<1>1. ASSUME query # None, loadFromNamespace(c, query.at.namespace, "find") PROVE ListOwn'
  <2>1. query.at.namespace \in Namespaces \cup {"", "*"}
    BY <1>1, PlacesAreSpots DEF Typed, ServerFits, Spots
  <2>2. Call(c, "list", query.at.namespace, "find") /\ picked' = query.at.namespace
        /\ doubt' = Begun(c, "list", doubt)
    BY <1>1 DEF loadFromNamespace
  <2> QED BY <2>1, <2>2, ListLoad
<1>2. ASSUME NEW new, calls' = [calls EXCEPT ![c] = new], new # None => new.op = "bindings", UNCHANGED picked,
             "list" \in doubt' <=> "list" \in before
      PROVE  ListOwn'
  BY <1>2, ListEnds DEF Typed
<1>3. ASSUME NEW item, Present(c, item, FALSE, query.readOnly, before), UNCHANGED picked PROVE ListOwn'
  BY <1>2, <1>3, PresentLeaves
<1>4. ASSUME Hangup(c), doubt' = before, UNCHANGED picked PROVE ListOwn'
  BY <1>2, <1>4 DEF Hangup
<1> QED BY <1>1, <1>3, <1>4 DEF Resume

LEMMA ListShows ==
  ASSUME Typed, ListOwn, NEW c \in Slots, NEW item, NEW insert, NEW readOnly, Shows(c, item, insert, readOnly)
  PROVE  ListOwn'
<1>1. Present(c, item, insert, readOnly, doubt) /\ calls[c] = None /\ UNCHANGED <<kind, objects, picked, list>>
  BY DEF Shows, IsNext, Acts, server
<1>2. ~Lists(c) /\ ~Writes(c) BY <1>1 DEF Lists, Writes
<1>3. PICK new : calls' = [calls EXCEPT ![c] = new] /\ (new # None => new.op = "bindings")
  BY <1>1, PresentLeaves
<1>4. "list" \in doubt => "list" \in doubt' BY <1>1, PresentLeaves
<1> QED BY <1>1, <1>2, <1>3, <1>4, ListStays DEF Typed

\* The server's list is what the page shows once it is answered, for the namespace picked.
LEMMA ListServed ==
  ASSUME Typed, ListOwn, NEW c \in Slots, ServeList(c)
  PROVE  ListOwn'
<1> DEFINE result == Matching(calls[c].arg)
           new == [calls[c] EXCEPT !.result = result]
<1>1. Asks(c, "list") /\ calls' = [calls EXCEPT ![c] = new] /\ UNCHANGED <<kind, objects, picked, list, doubt>>
  BY DEF ServeList, Replies
<1>2. calls[c] \in ListCalls(page)
  BY <1>1 DEF Typed, CallsFit, Asks, CallsOf, SaveCalls, OtherCalls
<1>3. new.op = "list" /\ new.arg = calls[c].arg /\ new.result = result BY <1>1, <1>2 DEF Asks, ListCalls
<1>4. new \in CallsOf(page)
  <2>1. result \in SUBSET ItemsOf(page) BY MatchingListed DEF Typed, Listed
  <2> QED BY <1>2, <2>1 DEF CallsOf, ListCalls
<1>5. new # None BY <1>4, NoneIsNoCall DEF Typed, ServerFits
<1> HIDE DEF new
<1>6. calls'[c] = new /\ \A d \in Slots : d # c => calls'[d] = calls[d] BY <1>1, SlotStep DEF Typed
<1>7. ASSUME NEW d \in Slots
      PROVE  /\ Lists(d)' <=> Lists(d)
             /\ Writes(d)' <=> Writes(d)
             /\ Asks(d, "list")' => Asks(d, "list") /\ calls'[d].arg = calls[d].arg
  <2>1. CASE d = c BY <1>1, <1>3, <1>5, <1>6, <2>1 DEF Lists, Writes, Asks
  <2>2. CASE d # c
    <3>1. calls'[d] = calls[d] BY <1>6, <2>2
    <3> QED BY <3>1 DEF Lists, Writes, Asks
  <2> QED BY <2>1, <2>2
<1>8. Matching(picked)' = Matching(picked) BY <1>1, SameMatching
<1> SUFFICES ASSUME "list" \notin doubt PROVE ListOwn' BY <1>1 DEF ListOwn
<1>9. calls[c].arg = picked BY <1>1 DEF ListOwn
<1>10. Lists(c) BY <1>1 DEF Asks, Lists
<1>11. ASSUME NEW d \in Slots, Answers(d, "list")' PROVE calls'[d].result = Matching(picked)
  <2>1. Lists(d)' BY <1>11 DEF Answers, Asks, Lists
  <2>2. d = c BY <1>7, <1>10, <2>1 DEF ListOwn
  <2> QED BY <1>3, <1>6, <1>9, <2>2
<1> QED BY <1>1, <1>7, <1>8, <1>10, <1>11 DEF ListOwn

\* A write done is not the page's before it is answered.
LEMMA ListWritten ==
  ASSUME Typed, ListOwn, NEW c \in Slots, NEW op \in {"save", "remove"}, Replies(c, op, "ok")
  PROVE  ListOwn'
<1> DEFINE new == [calls[c] EXCEPT !.result = "ok"]
<1>1. Asks(c, op) /\ calls' = [calls EXCEPT ![c] = new] /\ UNCHANGED <<kind, picked, list, doubt>>
  BY DEF Replies
<1>2. calls[c] \in SaveCalls(page) \cup OtherCalls
  BY <1>1 DEF Typed, CallsFit, Asks, CallsOf, ListCalls
<1>3. new.op = op /\ new.result = "ok" BY <1>1, <1>2 DEF Asks, SaveCalls, OtherCalls
<1>4. new \in CallsOf(page) BY <1>2 DEF CallsOf, SaveCalls, OtherCalls
<1>5. new # None /\ None # "ok" BY <1>4, NoneIsNoCall DEF Typed, ServerFits
<1> HIDE DEF new
<1>6. calls'[c] = new /\ \A d \in Slots : d # c => calls'[d] = calls[d] BY <1>1, SlotStep DEF Typed
<1>7. Writes(c)' BY <1>3, <1>5, <1>6 DEF Writes
<1>8. ASSUME NEW d \in Slots
      PROVE  /\ Lists(d)' => Lists(d)
             /\ Asks(d, "list")' => Asks(d, "list") /\ calls'[d].arg = calls[d].arg
  <2>1. CASE d = c BY <1>3, <1>6, <2>1 DEF Lists, Asks
  <2>2. CASE d # c
    <3>1. calls'[d] = calls[d] BY <1>6, <2>2
    <3> QED BY <3>1 DEF Lists, Asks
  <2> QED BY <2>1, <2>2
<1> QED BY <1>1, <1>7, <1>8 DEF ListOwn

LEMMA ListNext == Typed /\ ListOwn /\ [Next]_vars => ListOwn'
<1> SUFFICES ASSUME Typed, ListOwn, [Next]_vars PROVE ListOwn' OBVIOUS
<1>1. kind' = kind /\ CallsFit
  BY DEF Typed, Next, vars, server, handleChangeNamespace, handleSave, Decide, ServeList, ServeSave, ServeRemove, Replies,
     AnswerNamespaces, AnswerList, AnswerSave, AnswerRemove, AnswerBindings, Fail, handleShowInsertEditor, handleImport,
     handleShowEditor, handleShowReadOnly, Shows, onClose, handleDelete, EditFields, EditName, EditNamespace, Edits, Only,
     Acts, OtherWrites
<1>2. \A d \in Slots : calls[d] # None => Fits(calls[d]) BY DEF Typed, CallsFit, UnderWay, Slots
<1>3. \A c : IsNext(c) => ~Lists(c) /\ ~Writes(c) BY DEF IsNext, Lists, Writes
<1>4. ASSUME NEW c \in Slots, NEW ns \in Namespaces \cup {"*"}, handleChangeNamespace(c, ns) PROVE ListOwn'
  <2>1. Call(c, "list", ns, "") /\ picked' = ns /\ doubt' = Begun(c, "list", doubt)
    BY <1>4 DEF handleChangeNamespace, loadFromNamespace
  <2> QED BY <2>1, ListLoad
\* A save or a delete is sent.
<1>5. ASSUME NEW c \in Slots, NEW op \in {"save", "remove"}, NEW arg, IsNext(c), Call(c, op, arg, ""),
             UNCHANGED <<objects, picked, list, doubt>>
      PROVE  ListOwn'
  <2> DEFINE new == [op |-> op, arg |-> arg, then |-> "", result |-> None]
  <2>1. calls' = [calls EXCEPT ![c] = new] BY <1>5 DEF Call
  <2>2. new.op = op /\ new.result = None OBVIOUS
  <2> HIDE DEF new
  <2> QED BY <1>1, <1>3, <1>5, <2>1, <2>2, ListStays
<1>6. ASSUME NEW c \in Slots, handleSave(c) PROVE ListOwn'
  <2>1. IsNext(c) /\ Call(c, "save", form, "") /\ UNCHANGED <<objects, picked, list, doubt>>
    BY <1>6 DEF handleSave, Acts, server
  <2> QED BY <1>5, <2>1
<1>7. ASSUME NEW c \in Slots, NEW flag \in BOOLEAN, Decide(c, flag) PROVE ListOwn'
  <2>1. UNCHANGED <<objects, picked, list, doubt>> BY <1>7 DEF Decide, Acts, server
  <2>2. CASE flag
    <3>1. IsNext(c) /\ Call(c, "remove", alert.at, "") BY <1>7, <2>2 DEF Decide
    <3> QED BY <1>5, <2>1, <3>1
  <2>3. CASE ~flag
    <3>1. UNCHANGED calls BY <1>7, <2>3 DEF Decide
    <3> QED BY <1>1, <2>1, <3>1, ListSame
  <2> QED BY <2>2, <2>3
<1>8. ASSUME NEW c \in Slots,
             \/ handleShowInsertEditor(c)
             \/ \E at \in Places, content \in Contents : handleImport(c, at, content)
             \/ \E item \in list : handleShowEditor(c, item) \/ handleShowReadOnly(c, item)
      PROVE  ListOwn'
  <2>1. \E item, insert, readOnly : Shows(c, item, insert, readOnly)
    BY <1>8 DEF handleShowInsertEditor, handleImport, handleShowEditor, handleShowReadOnly
  <2> QED BY <2>1, ListShows
<1>9. ASSUME NEW c \in Slots, ServeSave(c) \/ ServeRemove(c) PROVE ListOwn'
  BY <1>9, ListWritten DEF ServeSave, ServeRemove
<1>10. ASSUME NEW c \in Slots, AnswerNamespaces(c) PROVE ListOwn'
  <2>1. Asks(c, "namespaces") /\ UNCHANGED objects BY <1>10 DEF AnswerNamespaces, server
  <2>2. Lists(c) BY <2>1 DEF Asks, Lists
  <2>3. ASSUME NEW ns \in Namespaces, Call(c, "list", ns, calls[c].then), picked' = ns, UNCHANGED doubt PROVE ListOwn'
    <3>1. calls[c].then \in {"", "mount", "find"}
      BY <1>2, <2>1 DEF Asks, Fits, CallsOf, ListCalls, SaveCalls, OtherCalls
    <3> QED BY <2>2, <2>3, <3>1, ListLoad
  <2>4. ASSUME Resume(c, list, doubt \cup {"list"}) PROVE ListOwn'
    BY <1>1, <2>1, <2>2, <2>4, ListResumed
  <2> QED BY <1>10, <2>3, <2>4 DEF AnswerNamespaces
<1>11. ASSUME NEW c \in Slots, AnswerList(c) PROVE ListOwn'
  <2>1. Answers(c, "list") /\ list' = calls[c].result /\ Resume(c, calls[c].result, doubt) /\ UNCHANGED objects
    BY <1>11 DEF AnswerList, server
  <2>2. Lists(c) BY <2>1 DEF Answers, Asks, Lists
  <2> QED BY <1>1, <2>1, <2>2, ListResumed
<1>12. ASSUME NEW c \in Slots, AnswerSave(c) \/ AnswerRemove(c) PROVE ListOwn'
  BY <1>12, ListLoads DEF AnswerSave, AnswerRemove
<1>13. ASSUME NEW c \in Slots, AnswerBindings(c) PROVE ListOwn'
  <2>1. Asks(c, "bindings") /\ calls' = [calls EXCEPT ![c] = None] /\ UNCHANGED <<objects, picked, list, doubt>>
    BY <1>13 DEF AnswerBindings, Hangup, server
  <2>2. ~Lists(c) /\ ~Writes(c) BY <2>1 DEF Asks, Lists, Writes
  <2> QED BY <1>1, <2>1, <2>2, ListStays
<1>14. ASSUME NEW c \in Slots, Fail(c) PROVE ListOwn'
  <2>1. calls[c] # None /\ UNCHANGED <<objects, list>> BY <1>14 DEF Fail, server
  <2>2. CASE calls[c].op \in Ops("list") /\ Resume(c, list, doubt \cup {"list"})
    <3>1. Lists(c) BY <2>1, <2>2 DEF Ops, Lists
    <3> QED BY <1>1, <2>1, <2>2, <3>1, ListResumed
  <2>3. CASE calls[c].op = "bindings" /\ Hangup(c) /\ doubt' = doubt \cup {"bindings"} /\ UNCHANGED picked
    <3>1. ~Lists(c) /\ ~Writes(c) BY <2>3 DEF Lists, Writes
    <3> QED BY <1>1, <2>1, <2>3, <3>1, ListStays DEF Hangup
  <2>4. CASE doubt' = doubt \cup {"list"} BY <2>4 DEF ListOwn
  <2> QED BY <1>14, <2>2, <2>3, <2>4 DEF Fail
<1>15. CASE onClose \/ (\E item \in list : handleDelete(item)) \/ (\E content \in Contents : EditFields(content))
            \/ (\E name \in Names : EditName(name)) \/ (\E ns \in Namespaces : EditNamespace(ns)) \/ UNCHANGED vars
  <2>1. UNCHANGED <<objects, picked, list, calls, doubt>>
    BY <1>15 DEF onClose, handleDelete, EditFields, EditName, EditNamespace, Edits, Only, Acts, vars, server
  <2> QED BY <1>1, <2>1, ListSame
<1>16. ASSUME NEW at \in Everywhere, OtherWrites(at) PROVE ListOwn'
  <2>1. doubt' = doubt \cup {"list"} BY <1>16 DEF OtherWrites
  <2> QED BY <2>1 DEF ListOwn
<1> QED BY <1>4, <1>6, <1>7, <1>8, <1>9, <1>10, <1>11, <1>12, <1>13, <1>14, <1>15, <1>16, ListServed DEF Next, Slots

LEMMA ListInit == Init => ListOwn
<1> SUFFICES ASSUME Init PROVE ListOwn OBVIOUS
<1> DEFINE first == [op |-> IF page.disableNamespace THEN "list" ELSE "namespaces",
                     arg |-> IF page.disableNamespace THEN "" ELSE "*", then |-> "mount", result |-> None]
<1>1. calls = [c \in Slots |-> IF c > 1 THEN None ELSE first] /\ picked = "" /\ kind \in Kinds BY DEF Init, Slots
<1>2. first.op = (IF page.disableNamespace THEN "list" ELSE "namespaces") /\ first.result = None
      /\ first.arg = (IF page.disableNamespace THEN "" ELSE "*")
  OBVIOUS
<1>3. first \in CallsOf(page)
  <2>1. CASE page.disableNamespace BY <2>1 DEF CallsOf, ListCalls
  <2>2. CASE ~page.disableNamespace BY <2>2 DEF CallsOf, ListCalls
  <2> QED BY <2>1, <2>2
<1> HIDE DEF first
<1>4. first # None BY <1>1, <1>3, NoneIsNoCall
<1>5. 1 \in Slots /\ ~(1 > 1) BY BoundsAssumption DEF Slots
<1>6. calls[1] = first BY <1>1, <1>5
<1>7. Lists(1) BY <1>2, <1>4, <1>6 DEF Lists
<1>8. ASSUME NEW c \in Slots, calls[c] # None PROVE c = 1
  <2>1. ~(c > 1) BY <1>1, <1>8
  <2>2. c \in 1..MaxCalls BY DEF Slots
  <2> QED BY <2>1, <2>2, BoundsAssumption
<1>9. \A c \in Slots : Lists(c) => c = 1 BY <1>8 DEF Lists
<1>10. \A c \in Slots : Asks(c, "list") => calls[c].arg = picked
  <2>1. ASSUME NEW c \in Slots, Asks(c, "list") PROVE calls[c].arg = picked
    <3>1. c = 1 /\ first.op = "list" BY <1>6, <1>8, <2>1 DEF Asks
    <3>2. page.disableNamespace BY <1>2, <3>1
    <3> QED BY <1>1, <1>2, <1>6, <3>1, <3>2
  <2> QED BY <2>1
<1>11. \A c \in Slots : ~Answers(c, "list")
  <2>1. \A c \in Slots : Asks(c, "list") => c = 1 BY <1>8 DEF Asks
  <2> QED BY <2>1, <1>2, <1>6 DEF Answers
<1> QED BY <1>5, <1>7, <1>9, <1>10, <1>11 DEF ListOwn

\* When no call is under way the page shows what the server has in the namespace picked,
\* unless a call failed, another wrote, or loads overlapped since the last load began.
THEOREM QuietPageShowsStore == Spec => []QuietShowsStore
<1>1. Spec => []ListOwn BY ListInit, ListNext, TypedAlways, PTL DEF Spec
<1>2. ListOwn => QuietShowsStore
  <2> SUFFICES ASSUME ListOwn, UnderWay = {}, "list" \notin doubt PROVE list = Matching(picked)
    BY DEF QuietShowsStore
  <2>1. \A c \in Slots : ~Lists(c) /\ ~Writes(c) BY DEF UnderWay, Slots, Lists, Writes
  <2> QED BY <2>1 DEF ListOwn
<1> QED BY <1>1, <1>2, PTL
===============================================================================
