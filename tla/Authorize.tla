------------------------------- MODULE Authorize -------------------------------
(***************************************************************************)
(* sts.Access: what a token may do, put together from the store while      *)
(* administrators change it.  The policies of an account are those bound   *)
(* to it and to the groups it is bound to; the policies of a session are   *)
(* those bound to its role.  They are read in several queries, fetched one *)
(* by one and handed to access.Has.                                        *)
(*                                                                         *)
(* Each command a query sends to Redis is a step: one LRANGE per field of  *)
(* the principal it asks for, then one GET per key that every list had.    *)
(* What a GET answers is not compared with the query again, so a binding   *)
(* rewritten in between, or one an older race left in a list it no longer  *)
(* belongs to (RedisStore), is taken as it is.                             *)
(*                                                                         *)
(* The policies are reduced to what they say of one request: the           *)
(* statements of a policy end the walk of AccessRules with an allowance    *)
(* ("allows") or with anything else ("refuses"), or leave it to the next   *)
(* policy ("passes"), which is what AccessRules!FirstDecisiveAnswers lets  *)
(* one say.                                                                *)
(***************************************************************************)
EXTENDS Integers, Sequences

CONSTANTS
  Account, Role,  \* who a request acts for: an account, or the role of a session
  Fields,         \* the fields a principal is asked for by
  Policies,
  PolicyBindings, \* their names
  GroupBindings,
  Bound,          \* the contents of policy bindings: [subjects, policy]
  Joined,         \* the contents of group bindings: [subjects, group]
  Leftovers,      \* what races of the past may have left in the lists
  None,           \* nothing is stored under a name
  MaxWrites       \* bound on the writes of a behaviour

Verdicts == {"allows", "refuses", "passes"}
Bindings == PolicyBindings \cup GroupBindings
Contents(b) == IF b \in PolicyBindings THEN Bound ELSE Joined

ASSUME FieldsAssumption == Fields # {} /\ Fields \subseteq {"kind", "namespace", "name"}
ASSUME BindingsAssumption ==
  /\ PolicyBindings \cap GroupBindings = {}
  /\ \A content \in Bound : content.policy \in Policies
  /\ \A entry \in Leftovers : entry[1] \in Bindings
ASSUME NoneAssumption == None \notin Bound /\ None \notin Joined /\ None \notin Verdicts

VARIABLES
  policies,       \* what is stored, by name
  bindings,
  lists,          \* which binding is in the list of which field and value
  torn,           \* history: the bindings two writers once wrote at a time
  writes,         \* how many writes there were
  pc,             \* what the request does next
  who,            \* whom it acts for
  of,             \* the principal the query is for
  todo,           \* the fields whose lists are still to be read
  hits,           \* the bindings every list read had and that are still to be fetched
  refs,           \* the group bindings whose groups are still to be listed, and the groups
  found,          \* the policies found, in order
  said,           \* what those fetched so far say
  answer,
  seen            \* history: what held during the request before the last write

query == <<of, todo, hits>>
asking == <<pc, who, query, refs, found, said, answer>>
store == <<policies, bindings, lists, torn>>
vars == <<store, writes, asking, seen>>

Answers == {"none", "allowed", "refused", "error"}
Steps == {"begin", "account", "groups", "group", "fetch", "done"}

-----------------------------------------------------------------------------
(***************************************************************************)
(* The lists.  Subjects are indexed field by field.                        *)
(***************************************************************************)
Entries(b, subjects) == {<<b, f, s[f]>> : f \in Fields, s \in subjects}
Meets(subjects, ref, f) == \E s \in subjects : s[f] = ref[f]

\* The kind, the namespace and the name may be met by different subjects.
Matches(subjects, ref) == \A f \in Fields : Meets(subjects, ref, f)

\* The subjects a Put that reads what is stored now removes from the lists.
Stored(b) == IF bindings[b] = None THEN {} ELSE bindings[b].subjects

\* access.Has over the statements of the policies in turn.
Has(verdicts) ==
  IF \E n \in DOMAIN verdicts :
       verdicts[n] = "allows" /\ \A m \in 1..(n - 1) : verdicts[m] = "passes"
    THEN "allowed" ELSE "refused"

-----------------------------------------------------------------------------
(***************************************************************************)
(* History: what is stored at a moment.                                    *)
(***************************************************************************)
Now == [contents |-> {<<b, bindings[b]>> : b \in {c \in Bindings : bindings[c] # None}},
        verdicts |-> {<<p, policies[p]>> : p \in Policies}]

\* What held at some moment of the request.
Ever == [contents |-> seen.contents \cup Now.contents, verdicts |-> seen.verdicts \cup Now.verdicts]

\* A write is noted by the request in progress.
Noted ==
  /\ writes < MaxWrites /\ writes' = writes + 1
  /\ pc \notin {"begin", "done"}
  /\ seen' = Ever
  /\ UNCHANGED asking

-----------------------------------------------------------------------------
(***************************************************************************)
(* Administrators.  Bindings are only ever rewritten: deleting one through *)
(* the API is an error (its controller looks for a Namespace of that name),*)
(* so a binding that was in a list is there to be fetched.                 *)
(***************************************************************************)
PutPolicy(p, verdict) ==
  policies' = [policies EXCEPT ![p] = verdict] /\ UNCHANGED <<bindings, lists, torn>>
DeletePolicy(p) == PutPolicy(p, None)

\* The lists a binding is taken from are those of the content its writer read; it is
\* another one when a Put came in between.
PutBinding(b, content, read) ==
  /\ bindings' = [bindings EXCEPT ![b] = content]
  /\ lists' = (lists \ Entries(b, read)) \cup Entries(b, content.subjects)
  /\ torn' = IF read = Stored(b) THEN torn ELSE torn \cup {b}
  /\ UNCHANGED policies

\* What a writer may have read under a name.
Readable(b) == {{}} \cup IF bindings[b] = None THEN {} ELSE {c.subjects : c \in Contents(b)}

Write ==
  /\ \/ \E p \in Policies, verdict \in Verdicts : PutPolicy(p, verdict)
     \/ \E p \in Policies : policies[p] # None /\ DeletePolicy(p)
     \/ \E b \in Bindings : \E content \in Contents(b), read \in Readable(b) : PutBinding(b, content, read)
  /\ Noted

-----------------------------------------------------------------------------
(***************************************************************************)
(* A query: Redis.List.                                                    *)
(***************************************************************************)

\* The query for the bindings of a principal begins.
List(ref, names) == of' = ref /\ todo' = Fields /\ hits' = names

\* Mutant: a key that is in one of the lists is taken.
ReadAnyList ==
  /\ todo # {}
  /\ todo' = {} /\ \E f \in todo : hits' = {b \in hits : <<b, f, of[f]>> \in lists}
  /\ UNCHANGED <<store, writes, pc, who, of, refs, found, said, answer, seen>>

\* One list is read, in any order: the keys that are in all of them are fetched.
ReadList ==
  /\ \E f \in todo : todo' = todo \ {f} /\ hits' = {b \in hits : <<b, f, of[f]>> \in lists}
  /\ UNCHANGED <<store, writes, pc, who, of, refs, found, said, answer, seen>>

\* A binding of policies is fetched, as it is by now, in the order of a Go map.
GetPolicyBinding ==
  /\ pc \in {"account", "group"} /\ todo = {}
  /\ \E b \in hits : hits' = hits \ {b} /\ found' = Append(found, bindings[b].policy)
  /\ UNCHANGED <<store, writes, pc, who, of, todo, refs, said, answer, seen>>

\* A binding to a group is fetched.
GetGroupBinding ==
  /\ pc = "groups" /\ todo = {}
  /\ \E b \in hits : hits' = hits \ {b} /\ refs' = refs \cup {<<b, bindings[b].group>>}
  /\ UNCHANGED <<store, writes, pc, who, of, todo, found, said, answer, seen>>

Listed == todo = {} /\ hits = {}

-----------------------------------------------------------------------------
(***************************************************************************)
(* One request; requests do not touch what another reads.                  *)
(***************************************************************************)
Begin ==
  /\ pc = "begin" /\ pc' = "account" /\ List(who, PolicyBindings)
  /\ UNCHANGED <<store, writes, who, refs, found, said, answer, seen>>

\* A session has the policies of its role, and no groups.
RoleListed ==
  /\ pc = "account" /\ Listed /\ who # Account /\ pc' = "fetch"
  /\ UNCHANGED <<store, writes, who, query, refs, found, said, answer, seen>>

ListGroups ==
  /\ pc = "account" /\ Listed /\ who = Account
  /\ pc' = "groups" /\ List(Account, GroupBindings)
  /\ UNCHANGED <<store, writes, who, refs, found, said, answer, seen>>

\* Mutant: the policies of a group replace those found before.
ListGroupReplacing ==
  /\ pc \in {"groups", "group"} /\ Listed
  /\ \E r \in refs : refs' = refs \ {r} /\ pc' = "group" /\ List(r[2], PolicyBindings)
  /\ found' = <<>>
  /\ UNCHANGED <<store, writes, who, said, answer, seen>>

\* Group by group, in any order.
ListGroup ==
  /\ pc \in {"groups", "group"} /\ Listed
  /\ \E r \in refs : refs' = refs \ {r} /\ pc' = "group" /\ List(r[2], PolicyBindings)
  /\ UNCHANGED <<store, writes, who, found, said, answer, seen>>

GroupsListed ==
  /\ pc \in {"groups", "group"} /\ Listed /\ refs = {} /\ pc' = "fetch"
  /\ UNCHANGED <<store, writes, who, query, refs, found, said, answer, seen>>

\* The policy to fetch next.
Wanted == found[Len(said) + 1]

Fetch ==
  /\ pc = "fetch" /\ Len(said) < Len(found) /\ policies[Wanted] # None
  /\ said' = Append(said, policies[Wanted])
  /\ UNCHANGED <<store, writes, pc, who, query, refs, found, answer, seen>>

\* Mutant: the error of the Get is kept and the loop goes on.
FetchNothingGoingOn ==
  /\ pc = "fetch" /\ Len(said) < Len(found) /\ policies[Wanted] = None
  /\ answer' = "error" /\ said' = Append(said, "passes")
  /\ UNCHANGED <<store, writes, pc, who, query, refs, found, seen>>

\* A policy that is gone fails the request, whatever the others say.
FetchNothing ==
  /\ pc = "fetch" /\ Len(said) < Len(found) /\ policies[Wanted] = None
  /\ pc' = "done" /\ answer' = "error"
  /\ UNCHANGED <<store, writes, who, query, refs, found, said, seen>>

Decide ==
  /\ pc = "fetch" /\ Len(said) = Len(found)
  /\ pc' = "done" /\ answer' = Has(said)
  /\ UNCHANGED <<store, writes, who, query, refs, found, said, seen>>

Init ==
  /\ policies \in [Policies -> Verdicts \cup {None}]
  /\ bindings \in {held \in [Bindings -> Bound \cup Joined \cup {None}] :
                    \A b \in Bindings : held[b] = None \/ held[b] \in Contents(b)}
  /\ \E rest \in SUBSET {entry \in Leftovers : bindings[entry[1]] # None} :
       /\ lists = rest \cup UNION {Entries(b, Stored(b)) : b \in Bindings}
       /\ torn = {entry[1] : entry \in rest}
  /\ writes = 0
  /\ pc = "begin" /\ who \in {Account, Role} /\ of = who
  /\ todo = {} /\ hits = {}
  /\ refs = {} /\ found = <<>> /\ said = <<>> /\ answer = "none"
  /\ seen = [contents |-> {}, verdicts |-> {}]

Next ==
  \/ Write
  \/ Begin \/ ReadList \/ GetPolicyBinding \/ GetGroupBinding
  \/ RoleListed \/ ListGroups \/ ListGroup \/ GroupsListed
  \/ Fetch \/ FetchNothing \/ Decide

Spec == Init /\ [][Next]_vars

-----------------------------------------------------------------------------
(***************************************************************************)
(* Properties.                                                             *)
(***************************************************************************)
TypeOK ==
  /\ policies \in [Policies -> Verdicts \cup {None}]
  /\ bindings \in [Bindings -> Bound \cup Joined \cup {None}]
  /\ \A b \in Bindings : bindings[b] = None \/ bindings[b] \in Contents(b)
  /\ torn \subseteq Bindings
  /\ pc \in Steps /\ who \in {Account, Role} /\ answer \in Answers
  /\ answer # "none" <=> pc = "done"
  /\ todo \subseteq Fields /\ (pc \in {"begin", "fetch", "done"} => Listed)
  /\ hits \subseteq IF pc = "groups" THEN GroupBindings ELSE PolicyBindings
  /\ found \in Seq(Policies) /\ said \in Seq(Verdicts) /\ Len(said) <= Len(found)
  /\ pc \notin {"fetch", "done"} => said = <<>>
  /\ refs \subseteq GroupBindings \X {content.group : content \in Joined}
  /\ seen.contents \subseteq Bindings \X (Bound \cup Joined)
  /\ seen.verdicts \subseteq Policies \X (Verdicts \cup {None})

\* A subject of the binding was the principal's in a field at some moment of the
\* request, or entries may be left of two writers that once wrote it at a time.
MetIn(b, ref, f) ==
  \/ b \in torn
  \/ \E c \in Bound \cup Joined : <<b, c>> \in Ever.contents /\ Meets(c.subjects, ref, f)
Met(b, ref) == \A f \in Fields : MetIn(b, ref, f)

\* The answer of a request, though put together from many reads, rests on a policy
\* that allowed it, named by a binding that met a principal it acts for, each at some
\* moment of the request: what was revoked before it began has no effect, unless
\* two writers of that binding raced.
AllowedWasEntitled ==
  answer = "allowed" =>
    \E b \in PolicyBindings, content \in Bound :
      /\ <<b, content>> \in Ever.contents /\ <<content.policy, "allows">> \in Ever.verdicts
      /\ \/ Met(b, who)
         \/ /\ who = Account
            /\ \E g \in GroupBindings, c \in Joined :
                 <<g, c>> \in Ever.contents /\ Met(g, Account) /\ Met(b, c.group)

\* The policies that count, for a request during which nothing is written.
Of(names, ref) == {b \in names : bindings[b] # None /\ Matches(bindings[b].subjects, ref)}
Groups == {bindings[g].group : g \in Of(GroupBindings, Account)}
Principals == {who} \cup IF who = Account THEN Groups ELSE {}
Counting == {bindings[b].policy : b \in UNION {Of(PolicyBindings, m) : m \in Principals}}
Saying(verdict) == {p \in Counting : policies[p] = verdict}

\* While nothing is written, and unless a race left entries behind, a request errs
\* exactly when a policy that counts is gone; otherwise it is allowed only if one
\* allows it, and surely if, besides, none refuses it: the policies of every group
\* count, and so do the account's.
QuietAnswer ==
  pc = "done" /\ writes = 0 /\ torn = {} =>
    /\ answer = "error" <=> Saying(None) # {}
    /\ answer = "allowed" => Saying("allows") # {}
    /\ Saying(None) = {} /\ Saying("refuses") = {} /\ Saying("allows") # {} => answer = "allowed"

-----------------------------------------------------------------------------
(***************************************************************************)
(* What the documentation says, and the code does not do.                  *)
(***************************************************************************)

\* README.md: a Policy "contains what you can/cannot access": what a policy that
\* counts refuses is not allowed.
RefusalHeeded ==
  answer = "allowed" /\ writes = 0 => Saying("refuses") = {}

\* README.md: "through PolicyBinding, your Account will be given Policy": the
\* account, or one of its groups, is a subject of the binding.
SubjectsOnly ==
  answer = "allowed" /\ writes = 0 /\ torn = {} /\ who = Account =>
    \E b \in PolicyBindings :
      /\ bindings[b] # None /\ policies[bindings[b].policy] = "allows"
      /\ \/ Account \in bindings[b].subjects
         \/ \E g \in GroupBindings :
              /\ bindings[g] # None /\ Account \in bindings[g].subjects
              /\ bindings[g].group \in bindings[b].subjects

\* And so it is at one moment: some content of the binding met the principal and named
\* the policy.  One rewritten between the two pipelines of a List, or left in a list
\* by a race, gives a policy that no content of it gave.
GivenTogether ==
  answer = "allowed" =>
    \E b \in PolicyBindings, content \in Bound :
      /\ <<b, content>> \in Ever.contents /\ <<content.policy, "allows">> \in Ever.verdicts
      /\ \/ Matches(content.subjects, who)
         \/ /\ who = Account
            /\ \E g \in GroupBindings, c \in Joined :
                 <<g, c>> \in Ever.contents /\ Matches(c.subjects, Account) /\ Matches(content.subjects, c.group)
===============================================================================
