# oiam in TLA+

oiam is an identity and access manager: objects (accounts, groups, roles, policies, bindings, secrets,
namespaces) kept in Redis or etcd and edited over `/iam`, and a token service, `/sts`, that exchanges
secrets and assumed credentials for tokens and answers whether a token may do something. It is written
in Go, has no tests, and runs any number of servers over one store; each request is a goroutine that
issues storage commands one at a time. Nearly everything that is hard about it is in the order those
commands meet. A console in React edits the objects over the same API, with calls whose answers come in
any order.

The modules here are written from the source. An action is what the store executes atomically with
the computation around it; every definition that models code is listed with its lines in
`PROJECT.json` ("map").

## 1. The system

| part | code (under `src/`) | state it keeps | operations | what makes it right |
|---|---|---|---|---|
| Redis storage | `pkg/storage/redis.go`, `controlled.go` | one JSON value per object, one list per criterion | Put, Delete, List, Get, Has | lists agree with objects; a List overlooks nothing; versions count up |
| etcd storage | `pkg/storage/etcd.go`, `new.go` | etcd; in each server a copy in two maps | Start, watch, remove, add, List, Get, Put, Delete | the copy follows etcd; the index fits the copy |
| controllers | `pkg/controller` | none | PreFlightCheck, Put, Delete, Get, List per kind | nothing refers to what was never there; what is deleted is what was named |
| data model | `pkg/iam` | none | GetParams, Ref, Tags, Validate | query criteria identify what was meant |
| access rules | `pkg/access/default.go` | none | Has | the first decisive statement answers |
| conditions | `pkg/access/validators.go` | none | Validate per operator | an operator means what its values say |
| sessions | `pkg/sts/redis.go` | credentials and tokens in Redis, with times to live | Assume, FindCredential, Grant, Retrieve, Access | one live credential per name; tokens end with their credential |
| authorization | `pkg/sts/redis.go` (extractStatements, Access) | none | Access | what was revoked before has no effect; every policy counts |
| server | `cmd/oiam/app` | none | serveIAM, serveSTS, ServeHTTP | what is stored was allowed to whoever asked; a token is for an owner of what its key finds, and signed for |
| start | `cmd/oiam/main.go` | none | first-start bootstrap | the defaults are all there, or none |
| console, pages | `web/src/pages`, `components/ResourceList`, `services` | the list shown, one form per page that stays mounted, calls under way | list, add, import, view, edit, save, delete | after a write the page shows what the server has; the form holds the object it was opened for |
| console, references | `web/src/components/ReferenceEditor` | the list of references, the dialog, the names offered | add, edit, remove, pick | distinct references to what the server has |
| console, policies | `web/src/pages/Policy`, `components/TagEditor`, `Prompt`, `Alert` | the statements of the form, one dialog and what its handler captured, tags shared by reference | add, delete, unfold, edit a field in a dialog, tag a resource | an edit changes what the dialog was opened for, and nothing else |
| console, session | `App.tsx`, `pages/AssumeRole` | the token of the tab and of the browser | sign in, sign out, assume a role | the token is the one last granted |

How they meet: the console and other clients call the server; `ServeHTTP` retrieves the token from
`sts`; `serveIAM` asks `sts.Access` whether the token may act, and then a controller; controllers and
`sts` call `storage.Interface`, which is `Controlled` over Redis or over etcd. `sts.Access` collects
policy statements with several List and Get calls and hands them to `access.Has`. Nothing calls back,
except the etcd watch, which changes a server's copy while its requests read it.

Hard behaviours, each with its line in `PROJECT.json` ("hazards"): reads before a transaction used in
it (Redis Put and Delete, Assume, Grant); a query in two pipelines; a decision put together from many
reads; checks overtaken by deletes; times computed at one moment and counted from another; a snapshot
followed by a watch; unlocked maps; a bootstrap that can be cut short or run twice; a permission asked
one call before what it permits; answers shown in the order they come; a form that outlives what it
shows; a dialog that puts back what its handler captured when it was opened.

## 2. Modules

| module | models | instance | proofs |
|---|---|---|---|
| `RedisStore` | Redis storage under `Controlled` | `MCRedisStore` | `RedisStoreProofs` |
| `ObjectStore` | what controllers assume of `storage.Interface` | as a property of `MCRedisStore` | |
| `RedisStoreObserved` | `RedisStore` with the history its refinement needs, and the mapping | `MCRedisStore` | `RedisStoreProofs` |
| `EtcdCache` | etcd storage | `MCEtcdCache` | `EtcdCacheProofs` |
| `AccessRules` | the walk of `Has` | `MCAccessRules` | `AuthorizationProofs` |
| `Conditions` | the validators | `MCConditions` | `AuthorizationProofs` |
| `Sts` | sessions, tokens, the clock | `MCSts` | `StsProofs` |
| `Authorize` | `sts.Access` above the store | `MCAuthorize` | `AuthorizationProofs` |
| `Controllers` | controllers, `serveIAM` writes, bootstrap | `MCControllers` | `ControllersProofs` |
| `Server` | `ServeHTTP`, `serveIAM`, `serveSTS` over the layers below | `MCServer` | `ServerProofs` |
| `ConsoleKinds` | what the console knows of each kind (constants only) | through `ResourcePage`, `RefPicker` | |
| `ResourcePage` | a page: list, editor and form, calls and answers | `MCResourcePage` | `ConsoleProofs` |
| `RefPicker` | a list of references and its dialog | through `ConsoleForms` | `FormsProofs` |
| `PolicyEditor` | the statements of a policy's form, their dialogs and tags | through `ConsoleForms` | `FormsProofs` |
| `ConsoleForms` | the two, behind the route that mounts one of them | `MCConsoleForms` | `FormsProofs` |

A definition called `...Keeping`, `...Short` and the like, marked "Mutant", is a plausible bug of the
definition that follows it; no specification uses it. Each property is refuted when its mutant takes
the definition's place.

**RedisStore.** `store` is the `$:` keys, `index` the `!:` lists. Put is `PutBegin` (Controlled's Get
and the version), `PutRead` (Redis.Put's own Get, which decides the lists the key comes off) and
`PutCommit` (the MULTI/EXEC); Delete is `DeleteBegin` (the controller's Get) and `DeleteCommit`; List
is `ListBegin`, one `ListRange` per LRANGE of the first pipeline, `ListJoin`, one `ListFetch` per GET of
the second, `ListEnd` and `Return`. A pipeline is not atomic, so its commands are steps. The list of a
namespace and the one of `*` are one list seen under a scope, since every LREM and LPUSH is issued for
both. `fresh`, `steady`, `gone` and `torn` are history.

**ObjectStore** says what is left of that when one looks from above: no lists, no pipelines, no
transactions. A write takes effect at one moment of its call; unless another call wrote the key
meanwhile (`overtaken`), an object that replaces one carries the next version. A List reads objects one
at a time; it must have what matched throughout, may have only what met each criterion at some moment of
the call, and fails only for a key deleted meanwhile. What it may answer of a key two writes raced for
is open, since there the code promises nothing. `RedisStoreObserved` adds two history variables to
`RedisStore` (`within`, the keys a List ranges over, and `met`, the criteria they met since it began)
and the refinement mapping: a write is under way from its first read to its transaction, and overtaken
once that read no longer describes the store; a List runs from its first LRANGE to its last GET, and what
it has fetched is what it has read. `ImplementsObjectStore` is `ObjectStore`'s specification under that
mapping.

**EtcdCache.** `etcd` is the cluster, `store` and `paramStore` the server's maps. `Start` is the
snapshot, `Watch` the moment the watch is registered; `Take`, `Remove`, `Removed`, `Add`, `AddParam`,
`Added` are the watcher, one map write at a time; `ListBegin` ... `ListAnswered` a List that reads the
maps in between. `Covers` is what the regular expressions of a query, which have no anchors, match
beyond the param itself. The order in which Go ranges over a map is a free choice.

**AccessRules.** `i` and `check` are the position in the loop and in its body; `Sought` is the shape its
three matching blocks share, `CheckConditions` the fourth. A condition is the set of principals it
fails for.

**Conditions.** One call of a validator: parse the left operand, then scan the values or compare the
first. Operands are what their parsers make of them.

**Sts.** `issued` lists every credential made and `stored` the end of life of those in Redis; `tokens`
likewise. Assume is `AssumeBegin` / `AssumeKeys` (KEYS) / `AssumeCommit` (the transaction); Grant is
`GrantFind` / `GrantCompute` / `GrantSet`, or `GrantPlain` for a Secret; Access is `AccessRetrieve` /
`AccessKeys` / `AccessGet` / `AccessEnd`. `Tick` moves the clock between any two of them. `Covers` says
which names' keys the pattern of a name meets, since `@:secret:<name>:*` also meets a name that begins
with it and a colon. go-redis' Set takes a duration that is not positive for none (`Until`).

**Authorize.** One request puts together what it may do while `Write` rewrites policies and bindings.
A query is the commands it sends: one `ReadList` per LRANGE, which narrows `hits`, then a `GetPolicyBinding` or
`GetGroupBinding` per GET, which takes the binding as it is by then and compares nothing. `lists` has
what Puts leave: a writer takes its key off the lists of the content it read (`Readable`), which is not the
stored one if another wrote in between; the binding is then `torn` (history), and `Leftovers` are entries
that races before the request left. A policy is what its statements say of the request, which is what
`AccessRules!FirstDecisiveAnswers` entitles it to be. Subjects match field by field, as they are indexed.
`seen` is history, what was stored at some moment of the request.

**Controllers.** An object is what it refers to, `stored` by address. A PUT is `PutBegin`, one `Check`
per Get of the pre-flight and `Save`; a DELETE is `DeleteBegin`, `Fetch` and `Remove`; `Abandon` is a
failing storage. `Start`, `ListAccounts`, eight `PutDefault` and `Stop` are main.go. `Address` is where
Put stores and `Looked` where Get and Delete look; for kinds without a namespace they differ.

**Server.** `pc` and `req` are the requests, `work` their local variables. `Arrive` is ServeHTTP's look at the
token. Access is `Retrieve`, `FindSession` (the role of any live credential of the session's name), one
`Learn` for each thing it reads, and `Permitted` or `Refused`: what policies and bindings say is reduced to
`facts` that come and go, and `Grounds` are the sets of them that give someone leave, so that leave is put
together from several moments. For `/iam` follow `DoNothing` (an unknown kind, a method the switch has no
case for, a DELETE without a name), `Read`, `Reject`, `Check` and `Save`, or `Look`, `Miss` and `Remove`, since
Delete reads the object first. For `/sts` they are `FindKey` and `Sign` (FindCredential and the signature), `FindKey`
again and `Grant`; `AssumeKeys` and `Assume`; `Confirm`; `Fail`. A query for a key finds what `Finds` and
`Leftovers` say, several of them if the key is empty or a glob. Between any two steps facts, a
secret, a session or a token may change. `seen` notes what held at some moment of a request. A session that
ended leaves `Gone`, since its key, a random one, is not made again.

**ResourcePage.** `objects` is the server's, `calls` the calls under way: each is answered by `Serve...`,
taken by `Answer...` or `Resume`, or fails. `handle...` are the component's handlers under their own
names; `Present` is the form's componentDidUpdate, which resets the form and loads its bindings when
the value differs from the last. `then` is what a load goes on to: `mount` and `find` are the steps of
componentDidMount towards the object its URL names. The first namespace of a list is any. `doubt` is
history: which of the list and the bindings may be out of date since its last load began, because a
call failed, another wrote or two loads overlapped. The kinds of the instance are one whose form drops
a field (`role`), one whose form empties the bindings it shows and must be filled in first (`policy`),
and one without namespaces (`policybinding`); `ConsoleKinds` has all eight.

**RefPicker.** `refs` is the form's list. `refDialog` is the place it was opened for, the list its click
captured (`refs`), what is picked and the names offered, `alert` the place and the list of a removal to be
confirmed; `loads` are the dialog's calls. `SaveRef` and `Confirm` put back the list captured. `Reset` gives
the form another list: when the user opens another object, and once (`seeks`), also below a dialog, when the
object of the URL is answered. `Only` is the choice the dialog makes by itself when there is one option.
`from`, `source`, `hasty` and `swapped` are history: which call answered the names and the name picked,
whether the user went on before an answer, and whether the form was reset below the dialog.

**PolicyEditor.** `statements` is the state of `pages/Policy/Form.tsx`, each with the policy it was made in
(`of`, history); `expanded` the panel that is unfolded. `Ask` opens a dialog and keeps what the handler
captured: the place and the statement of its rendering (`dialog.i`, `dialog.st`). `Answer` closes it: the
captured statement with one field anew goes to that place (`onChange`), over places left empty (`Hole`) if
the list has become shorter. `WordAnswers` ... `ConditionAnswers` are the handlers of `PolicyStatementForm`,
`RefListEditor`, `ResourceListEditor` and `CondtionListEditor`, None standing for their early returns.
`tags` is a heap: `Hold` gives the dialog of a resource its tags or a new object, and the steps of
`TagEditor` write them in place. `Present`, `Find`, `Reload`, `Save` and `AnswerSave` are what the page
around the form does, `Find` and `AnswerSave` also below an open dialog, since they are promises. A load
makes other objects (`Items`) of the same policies, and `listed` is the load the list is from; `Content` is
what `_.isEqual` compares of them. `late` is history: the form was reset below a dialog.

**ConsoleForms** extends the two and mounts one of them behind `route`: the statements of a policy, or the
references of a binding, a secret or an assumed role. They do not interact, because leaving a page unmounts
its form; the module exists to run both, and states their properties for the one that is mounted. `EditsOne`
is what `DialogEditsOne` says of a step: closing a dialog changes one field of one statement and in a list
one entry (`ClosesOne`), and before that only the tags of the resource it is for change (`TagsPlace`).

## 3. Runs

Every run's configuration bounds only what is named a bound in its module, and checks deadlock unless
noted.

| run | instance | shows |
|---|---|---|
| `redis_two_keys` | 2 requests, 2 keys, 1 criterion, versions -1 to 1, 1 List at a time | TypeOK, IndexComplete, IndexExact, VersionSucceeds, ImplementsObjectStore |
| `etcd_cache` | 2 keys, 3 params, 3 writes, 2 starts, 1 List | TypeOK, IndexFitsStore, CopyFollows, ListMissesNothing, CatchesUp |
| `access_rules` | lists of up to 3 statements of 18 shapes, 8 requests | WalkTypeOK, FirstDecisiveAnswers, AllowedByStatement |
| `access_denied` | the same | a Deny that does not apply denies (violated) |
| `conditions` | every validator, up to 3 values | CallTypeOK, ScanMeansResult, OrderAgreesWithEquality |
| `sts` | 2 requests, 2 names, 2 credentials, 1 token, clock to 3 | TypeOK, AssumeReplaces, NeverReplacedRole, TokenLife |
| `authorize` | 2 policies, 2 policy bindings, 1 group binding, 2 fields, 1 leftover, 1 write | TypeOK, AllowedWasEntitled, QuietAnswer |
| `controllers` | 2 requests, 2 servers, 2 starts | TypeOK, LackingWasRemoved, DefaultsStand |
| `controllers_delete` | the same | DELETE of a binding removes a namespace (violated) |
| `server` | 2 requests, of 7 to `/iam` or of 5 to `/sts`; 2 tokens, 2 facts, 1 secret, 1 leftover, 2 session keys of one name; 1 change beside them | TypeOK, AnswerFits, WrittenByAllowed, TokenOfSigner |
| `resource_page` | 3 kinds, 2 namespaces, 1 name, 2 calls, 3 acts | TypeOK, QuietShowsStore, EditorHoldsItem, BindingsAreOwn |
| `console_forms` | references: 2 namespaces, 2 names, 2 references, 2 calls, forms given lists of up to 1 account; statements: 2 policies in 2 loads, 2 statements, 2 entries, 1 save, 2 acts | FormsTypeOK, RefsDistinct, PickedWasOffered, CapturedIsCurrent, StatementsAreOwn, DialogEditsOne |

Why these are enough. The races of `RedisStore` are between two commands of two writers of one key, or of a
writer and a List of several keys: two requests and two keys have them all, and the theorems hold for any
number. Lists write nothing, so two of them have no effect on each other and one at a time (`OneList`) is
enough. Versions go from -1 to 1, so that one object is overwritten and recreated; a client sends -1 or 0
(`Sent`), from which Controlled counts on for a new object, and which it ignores otherwise. A List that
fails only on a race and misses nothing is part of what `ImplementsObjectStore` says; both are also
invariants of their own, proved in `RedisStoreProofs`. In `EtcdCache` three writes make a key come, change
and go, or two keys change while a list is counted; two starts put a restart after any of them; params `a`
and `ab` are what an unanchored expression confuses. Three statements let a decisive one come first, between
and last, and each shape of the catalogue restricts one dimension by inclusion or exclusion. Two
credentials, one replaced by the other, and one token are every pair `Sts` compares; the second name is one
the first's pattern meets; durations 0 and 2 under a clock to 3 have an expiry before, between and after
every step. In `Authorize` one write changes a policy between two reads, or rewrites a binding between its
LRANGEs and its GET, or races for it, with two policies to find in either order; the leftover entry makes a
binding met in one field by nobody who is its subject. Two writes, which join three moments, were tried once
with one policy binding (905 506 states); the theorems hold for any number. The namespace, which tells the
principals of the instance apart no more, is not among `Fields`. In `Controllers` the URLs are a namespace,
an account in it and a binding of the namespace's name that refers to the account, which are the three
relations (lives in, refers to, is mistaken for); two starts are one that is cut short and one that finds
its remains, or two at once. In `server` the requests to `/iam` are PUTs with a name in either case, DELETEs
with and without a name, a POST of a kind without a namespace, a GET and a PATCH; an unknown kind is
answered as a PATCH is. What a PUT rests on are two facts, that a binding is in the account's list and that
it names the policy; one change may swap them, so that a PUT that reads them before and after has leave at
no one moment. Of those to `/sts`, a key finds the one secret, also by a leftover entry as an empty key
would, and a pattern the sessions; a name is assumed in two roles. The two kinds of requests share no more
than a token and facts, and run apart (`IamOrSts`). One change is what can come between the two looks at one
thing a request takes. In `ResourcePage` two calls overlap or are answered out of order, and three acts,
with the object the URL opens at no cost, are: open, type and close one object before another is opened;
save, and write beside it; or open one object, close it and open another while the bindings of the first are
still to come. In `PolicyEditor` two acts are: add a statement or change one, then open a dialog on it; the
promises of the page cost nothing and may come before, between and below. A policy is loaded twice, so that
the same content comes as another object. A heap of four objects has the tags of both loads and two new
ones, so that two resources may share one if anything lets them; one tag edit a dialog (`MaxTaggings`) is
what a cancelled dialog leaves. A third act, tried once without the references (1.18 million states),
changed nothing. In `RefPicker` two calls answer for different kinds or namespaces, and two references
repeat each other if anything lets them. The form is given lists of one account at most: enough to be
another's list, to repeat what is picked and to lose what was captured; and in a list of two the first is
one (`AccountFirst`).

Deadlock is not checked for `AccessRules` and `Conditions` (one call, which ends), `Authorize` (one
request, which ends), `Sts` (its clock and its numbers of credentials and tokens are bounded),
`Controllers` and `EtcdCache` (starts and writes are bounded, and a server may stay down) and
`ResourcePage` and `ConsoleForms` (the acts are bounded, and a page whose user does nothing rests).

Symmetry is used where it is sound: over requests, over servers, over keys when the one scope is all of
them, over policies' and bindings' names, over the console's namespaces and the names to pick, which
nothing tells apart. It is not used in `etcd_cache`,
whose `CatchesUp` is a liveness property. The action properties of `server` name no
request, so exchanging two cannot hide a step that breaks them.

**Fairness.** Only `EtcdCache` assumes any: `WF_vars(Watcher)`, because the watcher is a goroutine in a
loop over a channel and does nothing that could block. It is not assumed that etcd tells the watch
everything (`missed`), that the watch stays open (`WatchEnds`), or that requests end. The other modules
have no liveness property: a request may be abandoned at any step, and the code retries nothing.

## 4. Proofs

| module | theorems | what |
|---|---|---|
| `RedisStoreProofs` | `Invariance` | the strengthened invariant `IInv`, with `TypeCorrect`, `CompleteIndex`, `ExactIndex`, `CompleteList`, `ListFailure`, `VersionOfPut` as consequences |
| | `Refinement` | `ObservedSpec => ImplementsObjectStore`: the Redis commands implement `ObjectStore` |
| `EtcdCacheProofs` | `Invariant` | with `TypeCorrect`, `IndexIsFitting`, `CopyIsFollowing`, `ListIsComplete` |
| `AuthorizationProofs` | `Invariance` | of `AccessRules`; with `WalkTypeCorrect`, `FirstDecisiveStatement`, `AllowanceJustified` |
| | `CallInvariance` | of `Conditions`; with `CallTypeCorrect`, `ScanMeans`, `OrderAgrees` |
| | `Invariant` | of `Authorize`; with `TypeCorrect`, `AllowedIsEntitled`, and `QuietIsExact`, which has an invariant of its own |
| `StsProofs` | `Invariance` | with `TypeCorrect`, `Replaced`, `RoleIsCurrent` and `LifeBounded` |
| `ControllersProofs` | `Invariant` | with `TypeCorrect`, `LackingIsRemoved` and `DefaultsAreThere` |
| `ServerProofs` | `Invariant` | with `TypeCorrect`, `AnswersFit`, and the action properties `WritesAreAllowed` and `GrantsAreSigned` |
| `ConsoleProofs` | `PageTypeCorrect` | of `ResourcePage`; with `EditorHolds`, `BindingsAreIts` and `QuietPageShowsStore` |
| `FormsProofs` | `FormsInvariance` | of `ConsoleForms`; with `FormsTypeCorrect`, `RefsStayDistinct`, `CapturesAreCurrent`, `StatementsStayOwn`, and the action properties `PicksAreOffered` and `DialogsEditOne` |

They hold for every value of the constants that meets the assumptions stated in the modules. Most are about
types and bounds (`NoneAssumption`, `BoundsAssumption`, ...) and say that what stands for nothing, `None`, is
none of the values beside it. The others:

- what an unanchored expression is met by includes what it says (`CoversAssumption` of `EtcdCache` and `Sts`);
- sets that are counted are finite (`ParamsAssumption`, `BindingsAssumption`), and numbers compared are
  integers (`NumbersAreIntegers` of `Conditions`: they stand for finite floats and instants, of which only the order
  matters; NaN is a value of its own);
- requests and servers are different processes (`ActorsAssumption`);
- a request of `Controllers` asks for the addresses its URL makes (`UrlsAssumption`);
- requests of `Server` are what their operation takes, and lower case is the same done twice (`RequestsAssumption`);
- the keys of sessions are none of Secrets, and sessions no accounts (`NamesAssumption` of `Server`);
- versions that clients send are integers (`SentAreVersions` of `RedisStore`);
- objects on the server have a name (`NamesAssumption` of `ResourcePage`: `Metadata.Validate` requires one);
- what a page of policies loads are lists of statements made in that policy, no two of their resources sharing one
  object of tags (`StoredAssumption`, `TagsAssumption` of `PolicyEditor`), since the page gets them from `JSON.parse`.
  That they stay so is not assumed: it is `TagsFit`, below.

Numbers of requests, keys, names, objects, writes, statements, values, calls and acts are arbitrary.

*RedisStore.* `IndexExact` is not inductive: whether a commit cleans the right lists depends on what was
read before it. `ReadsCurrent` adds that a read no commit has overtaken still covers the stored
object's lists, and that one that was overtaken has marked its key `torn`. `ListMissesNothing` and
`ListFailsOnlyOnRace` need `GatheredBy`, which says what a query has gathered by each phase: the keys
that match throughout are among the hits, then among those to fetch or fetched, and each is stored,
deleted meanwhile or torn. A commit is the only step that disturbs these; the others leave the store alone
(`OnlyCommitsWrite`, `QueryLeavesWrites`).

*Refinement of RedisStore.* On top of `IInv`, `Observed` says that a write is about a key while it is under
way and a Put whose first read is current has a current second one (`WriteHolds`), and that what a List has
found lies in its scope and met, at some moment, every criterion it has ranged over (`ListHolds`); the second
needs `IndexExact`, which is why a raced key is exempt. Then each step is one of `ObjectStore` or a
stutter: PutBegin and DeleteBegin are `WriteBegin`, both commits `WriteAt`, an aborted call `WriteFails`,
a GET that finds its object `Read`, the last step of a List `ListAnswers` or `ListFails`; PutRead, the
LRANGEs and the join are stutters.

*EtcdCache.* `IndexFitsStore` holds between events only. `StoreHolds` and `IndexHolds` say what is true while one is
applied: the object is out of the map while its params are removed and in it while they are added, and
its key is on the lists still in `todo`, or on those already done. `EventsHold` ties the copy to etcd: of a key not
`missed` the last event on the way carries what etcd has, and without one so does the copy or the
event in hand; `CopyFollows` is the same said with one value. `ListsHold`
counts: a key that has matched since the List began has been met once by each query param already read.

*Authorize.* `IndexFits` is what races leave of the lists: they have every entry of what is stored, and of a
binding that is not `torn` no other. `AllowedWasEntitled` is about the end of a request; `QueryRead`,
`GroupsRead`, `PoliciesRead` and `VerdictsRead` say what is known at each step: what a query still has among
its hits met the principal in each field read (or is torn), each at some moment of the request; the groups
found were those of bindings that met the account, the policies found those of bindings that met it or such
a group; and the verdicts said were those policies' at some moment. The fields, the group and the policy of
one binding may so be of different moments: that they are of one is `GivenTogether`, which the code does not
keep. `QuietAnswer`, about requests during which nothing is written, needs the converse as well, that
nothing is left out: `QuietSoFar` says that the policies found, those still to be fetched and those of the
groups still to be listed are together exactly those that count. Where nothing refuses, the first verdict
that allows decides; that there is a first one is `LeastNumber`, from the well-foundedness of inclusion
among finite sets.

*Controllers.* `SavesHold` says that what a PUT needs and will not check any more was there when it was
checked, so that it is stored or was removed `during` the request, and the same of what a bootstrap has put;
`SavedHolds` that what is stored needs addresses there are. `DefaultsHold` says, of stores no
bootstrap was cut short on, that what it has put stays, and that by the time anybody sees an account a
bootstrap is under way or all eight are stored.

*Server.* `NowSeen` says that what holds now is in a request's history, which only grows (`Remembered`), so
a step of one request, or beside them, leaves what is known of the others as it was (`ProcKept`).
`WorkHolds` says that what a request has read was so at some moment of it: whom it acts for, the facts, the
credentials that are to make way, what its key found. `LeaveHolds` follows: a request past Access was
entitled, one past `Sign` had signed with a secret its key found, and one past `Look` had seen the object.
`PlaceHolds` says that one to be saved fits its URL, and `AnswerHolds` is `AnswerFits`. The properties of
steps follow by cases.

*AccessRules.* `WalkSoFar` adds what the position says: no statement before `i` was decisive, and an
Allow at `i` has matched in every dimension already checked.

*Sts.* `AssumeReplaces` needs that an Assume past its KEYS has found everything of `before` still alive
(`AssumeFits`), which needs that no two requests commit one credential (`OwnCredential`) and that a
stored credential's life counts from its commit (`StoredOK`). `NeverReplacedRole` follows from
`AccessFits`: what KEYS answers is alive, and a replaced credential is not. `TokenLife` needs
`GrantFits`, that the remaining duration was computed at a moment between the beginning of the
grant and its SET; its arithmetic is the lemma `GrantArithmetic`.

*Conditions.* `CallSoFar` says that a scan has passed over no value that is malformed or the same as the left
operand; then `NoneDecides` and `FirstDecides` are what the definition by which a result is judged says of such
a list, at its end and at the value that decides. `Compared` says of an order that both operands were read and
what they compared to, from which `OrderAgreesWithEquality` follows.

*ResourcePage.* `Typed` ties the calls under way to the page (`CallsFit`: a save is of an object with a place) and the
form to the editor (`EditorFits`: what was opened from the list keeps its name and all but the fields its
form drops), which is `EditorHoldsItem`. The other two properties speak of a page at rest; what makes them
inductive is what the calls under way will bring. `BindingsOwn`: while the bindings are not in `doubt`, whatever is
asked is for the object of the editor, and with nothing asked they are its. `ListOwn`: while the list is not in
doubt, one call at most is to bring it, for the namespace picked, and the list or the answer to that call
is the server's, unless a write was done that the page has not heard of, whose answer loads the list again.

*ConsoleForms.* Of a list of references, `PickedFits` says that a user who waits for answers (`hasty` is
false) has one call under way at most, for the namespace and the kind picked, and that a name picked was
among what such a call answered or is the one the dialog was opened with. `RefsDistinct` is inductive with
the types and the distinctness of what was captured (`PickerTyped`), since `SaveRef` looks for the reference
in the list it puts it into; removing one renumbers those behind it. `ListIsCurrent`: until the form is
reset below, what was captured is its list. Of the statements of a policy, `DialogFits` says that a dialog
is for a field and an entry its captured statement has, and `TagsFit` that no two resources share an object
of tags and none has those of the dialog but the one it is for: `Hold` takes an object nothing holds
(`Fresh`), a captured statement put back has the tags it had at the places it had them, and entry `n` of a
list that an entry was removed from is entry `From(k, n)` of the list before (`PutsFrom`, `OwnPut`). All of
it, like the properties, is suspended by `late`, once the form was reset below a dialog.

Only model-checked: the liveness property `CatchesUp` of `EtcdCache`, which is beyond the prover (it does not reason
about fairness or ENABLED). All invariants and action properties that the passing runs check are theorems. No
module uses a recursive operator. The inductive invariants were also checked on the instances of section 3 before they
were proved.

## 5. Where the code does not do what is said of it

With a run that shows it (`PROJECT.json`, "findings"):

- `DeniedByStatement` (README.md:37): a Deny denies at the first of its checks that matches, so that one whose
  resources match denies though its notPrincipals exclude whoever asks; and one none of whose checks matches denies
  too, at the end of the loop's body. A list of policies that begins with a Deny denies every request.
- `DeleteDeletes` (ResourceList/index.tsx:179): DELETE of a secret or a binding fails, or deletes a
  namespace of that name.

Stated in the modules and left without a run; each is refuted by the code as modelled:

- `RedisStore!ListAnswers` (README.md:100, queries are search criteria): a Delete that a Put overtakes
  leaves the Put's entries; every List over that criterion then fails with `redis.Nil`.
- `RedisStore!ListedMatches`: a List can answer an object that no longer meets the query.
- `RedisStore!VersionGrows`: two Puts that read one version store it twice.
- `Conditions!DateEqualsInstant`: two equal instants, parsed with an offset, differ (a location of their own
  each, in the Go 1.12 the Dockerfile builds with).
- `Sts!ExpiredTokenGone` (App.tsx:67): a Grant between a credential's `expireAt` and its end in Redis
  stores a token with no time to live; so does a credential of duration 0.
- `Sts!SessionRole`: a session whose name is assumed again answers with the new role.
- `Sts!LifeAsAsked`: `durationSeconds` of `/sts/auth` is not used (README.md:49).
- `Authorize!SubjectsOnly` (README.md:32): subjects are matched field by field, across subjects, so an
  account may be given a policy bound to two others.
- `Authorize!GivenTogether`: a binding rewritten between the two pipelines of a List, or left in a list by a race, gives a
  policy to whom no content of it ever named together with that policy.
- `Authorize!RefusalHeeded`: an Allow that Go's map order puts before a Deny wins.

Seen while reading, outside what is modelled: `ETCD.Get` panics for the `iam.Bare` of a reference check
(`etcd.go:218`), so bindings cannot be saved over etcd; `ETCD.Has` looks up ids with a prefix the map does
not have (`etcd.go:233`), and has no caller; a POST is authorised as the action `undefined` (`iam.go:53`); a
List of a kind without a namespace keeps the namespace of the URL (`without_namespace.go:17`); a Secret's
account is not looked up when the Secret is saved, and every save makes new keys (`secret.go:25`). In the
console: the namespace of an object is open while it is edited (`MetadataEditor/index.tsx:47`), so a save
copies the object into another namespace, or overwrites one of its name there; opening the same item again,
or adding twice, shows what was typed and not saved, also in View (`componentDidUpdate` of the forms); a
save that is answered closes whichever editor is open by then and goes to the first namespace
(`ResourceList/index.tsx:156`); editing a role drops its tags (`Role/Form.tsx:77`); where there is one
namespace to show, a reference that is opened is moved there (`RefEditor.tsx:39`); a click beside the dialog
of a reference saves it (`RefEditor.tsx`).

In the editor of policies, modelled as it is and with no word in the repository to hold it against: removing
a statement removes those after it (`Policy/Form.tsx:229`); tags are edited in place, so that a dialog that
is cancelled has changed them all the same, in the form and in the page's list (`TagEditor/index.tsx:40`);
adding a parameter that is there takes its values away (`CondtionListEditor.tsx:100`); the object a link
asks for resets the form also below a dialog, whose statement then goes into another policy or over holes
(`late`). On the page that assumes roles, namespaces that are answered late empty the name and the role
typed meanwhile (`AssumeRole/index.tsx:57`). A form reset below the dialog of a reference, or the alert of
its removal, has the list captured at the click put in the place of its own (`swapped`).

On the server, modelled as it is: two DELETEs of one object that overlap answer 200 both (`basic.go:44`); so
do requests with a method `serveIAM` has no case for (`iam.go:83`). A key that is empty, or a pattern, finds
several secrets or sessions (`sts/redis.go:38`, `:166`), and the two look-ups of a request need not take the
same one.

## 6. Not modelled

Extraction of condition values and the signature: pure functions of strings, with no state. Validation
rules, JSON, cloning: data; of Secrets, the new key every save makes. Configuration: read once. The static files
and CORS of `ServeHTTP`. In the console, `App.tsx` (it reads the browser's token once, takes it unless it
has expired and asks for another otherwise; Exit removes it and reloads: single assignments of one
user, with nothing to interleave) and what pages look like.

## 7. What may follow

Built in the order in which things rest on each other: storage, rules, sessions, authorization, controllers,
etcd, server, console; then the abstract store and the refinement; then the proofs. What would add to it:

1. `ObjectStore` under `Controllers`: the Gets and Puts of a request as calls of the abstract store, which would carry
   `LackingWasRemoved` down to the Redis commands.
2. A theorem that joins `AccessRules` to `Authorize`: that the walk over the statements of several policies,
   one after the other, answers as the first of them does that has a decisive one (`Authorize!Has`). It needs
   concatenations of sequences whose number is not known, an induction over data; TLC could check it on lists of two.
