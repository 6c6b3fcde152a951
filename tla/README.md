# A verification of the digita platform

TLA+ models of the engine of the digita platform (`src/packages/engine`) and of
the record page of its app (`src/packages/app`), their TLC configurations, and
proofs checked by TLAPS. The engine serves business documents over HTTP from
MongoDB: entities are defined by data, and one `DocumentService` runs every verb
on every entity. What is hard about it is what requests do to each other: a verb
judges documents, then writes some of them in a transaction that sees a snapshot,
is rerun after a write conflict, and is joined by hooks, rules and nested verbs. A
demo reset wipes the databases all of them write to; uploaded files live in a
second store that no transaction covers; permissions depend on stored values that
change under a query; and a browser tab edits a copy of a document that others
write.

Paths below are relative to `src/packages/engine/src/core/` unless they begin
with `src/`. `DS` is `document/document-service.ts`, `MS` is
`database/mongodb-service.ts`.

## 1. Inventory

### Parts that are modelled

**MongoDB transactions** (`MS` 276-292). State: the committed rows; per open
transaction its snapshot and its writes. Operations: `withTransaction` (the
driver reruns the callback after a write conflict or a transient error, any
other throw aborts), `getNextSequence`, single writes outside a transaction.
Hard: a transaction that only *reads* what another one writes does not conflict
with it (write skew); a rerun meets whatever the callback left in memory.

**Document lifecycle** (`DS`, `docstatus-engine.ts`, `link/*-protection.ts`).
State: per document its docstatus (0 draft, 1 submitted, 2 cancelled), its
Links and `amended_from`; the rows its hooks wrote. Operations: `insert`,
`update`, `submit`, `cancel`, `updateSubmitted`, `deleteDoc`, `amend`, `copy`.
Interactions: a submit checks the targets of its Links, a cancel and a delete
check for referrers; `_doc_guards` rows make the submit of a document and the
cancel of its target conflict; a hook or a rule calls a verb that joins the
transaction (`sessionOverride`) and skips the re-checks of the outer one. Correct
when: no submitted document names a
cancelled one; `on_submit` and `on_cancel` take effect once; a frozen document
keeps its core; an amendment amends what was cancelled; a delete removes no
submitted document and leaves no dangling Link.

**Document edits** (`DS` 1330-1640, 1670-2110). State: the fields of one
document, its `modified` stamp. Operations: a save of a form with or without
`If-Match`, `updateSubmitted` with `set` or `increment` on the fields of the
post-submit band. Correct when: increments add up, a stale save never lands on a
submitted document, `If-Match` replaces the version that was read.

**Demo reset** (`setup/reseed-lock.ts`, `setup/reseed-app-data.ts`). State: the
mode of the running reset, the set of writes under way, the promise its callers
share. Operations: `beginWrite`/`writeOutsideReset` around every verb and
action, `reseedAppData` (mark, wait, wipe, seed, seed again). Correct when: a
write that began before the reset never lands after its wipe, a reset that
reports success leaves exactly the seed, a reset never waits for the call it
runs in, and every reset ends and answers.

**Tree rules** (`tree/tree-rules.ts`). State: `parent`, and the copies
`_ancestors`, `_depth` that menus, filters and the rules read; `_tree_rev`.
Operations: `placeTreeNode` and `writeTreePlacement` inside an insert or a save,
`restampTreeNodes` at boot. Correct when: the copies equal the parent chain, no
cycle, depth within `max_depth`, a node in the tree of its parent.

**Naming** (`document/naming-service.ts`, `DS` 1211-1230). State: one counter
row per series in `_sequences`, the numbers of stored documents. Operations: draw
a number in the transaction of an insert, raising the counter past taken
numbers. Correct when: a number is given once and the counter never goes back.

**File store** (`api/upload-router.ts`, `storage/file-cleanup.ts`, `DS`
2901-2972). State: File rows, and blobs keyed by the hash of their content.
Operations: upload, replace, delete, clone (of `copy` and `amend`), cleanup after
a commit. Correct when: no row at rest points at a missing blob.

**Period close** (`period/`). State: the closed flags of periods and years, a
cache of period rows per process. Operations: `assertPeriodOpen` in every verb
whose phase the entity blocks, `getPeriodStatus`, saves of periods and years.
Correct when: nothing is written in a closed period by a transaction that began
after the close, whatever the cache holds.

**Workflow** (`workflow/`, `DS` 2285-2355). State: the workflow state of a document
beside its docstatus. Operations: `transition()`, which routes a move to a save or
a patch by a row it loads earlier; the state a submit or a cancel lands in.
Correct when: every move that commits is declared from the committed state, and
the state fits the docstatus.

**Permissions and queries** (`permissions/`, `search/`, `view/`, `link/`). State:
the grants of a role, and the record the gates of the grants are weighed on.
Operations: read masks, the merge of a save, locks of rows, filters of lists,
counts, searches and aggregates, shares. Correct when: a filter tells only about
what its user may read, a save keeps what its form did not show, a locked row
stays as it is.

**Record page and live sync** (`src/packages/app/src/pages/RecordPage.tsx`,
`hooks/useDocument.ts`, `realtime/`). State: per tab the query cache, the form with
the version it saves against, the calls under way, the socket. Operations: load,
edit, save under `If-Match`, workflow moves, reload after a conflict, notices of
writes. Correct when: no save drops a write of another; a page without edits
shows what it was notified of.

### Parts that are not modelled

| Part | Why |
|---|---|
| Snapshots, fetches, defaults, expressions, validation, entity definitions | field computations and schemas on one document in memory |
| Schema migration, indexes, seed content, plugins, configuration | boot, before requests are served |
| Versions, activity log | append-only, never read to decide |
| Import and export | loops of the modelled verbs |
| Translations, authentication, HTTP routing | lookups, a call to another service, parsing around the modelled services |
| Shared types, lists, dashboards, controls, themes, the website catalog | types, and rendering of what the engine answers |
| Deployment, release and test tooling | not the running system |

Of the parts that are modelled, `PROJECT.json` names what is left out of each.

## 2. Modules

| Module | Models |
|---|---|
| `MongoTxn` | transactions under snapshot isolation; instantiated by DocLifecycle, DocEdits, Submissions, TreeRules and Naming |
| `DocLifecycle` | the seven verbs on documents with one Link, and the verb a hook or rule calls inside one |
| `AtomicDocs` | the abstract specification: each verb, with its hooks, one step on the committed documents |
| `DocEdits` | concurrent writers of one document |
| `Submissions` | period close and workflow around the verbs |
| `TreeRules` | inserts, moves, changes of kind, deletes of tree nodes |
| `Naming` | the numbers of one series |
| `ReseedLock` | the reset lock and the writes around it |
| `FileStore` | File rows and blobs |
| `Access` | what a role sees, filters on and changes of a record |
| `RecordForm` | the record page of a tab, its query cache and its socket |
| `MC*` | verb sets, grants, workflows and symmetry for TLC |
| `DocLifecycleProofs`, `DocEditsProofs`, `SubmissionsProofs`, `TreeRulesProofs`, `NamingProofs`, `StoresProofs`, `AccessProofs`, `RecordFormProofs` | theorems |

**MongoTxn.** `store` holds the committed rows, `snap[p]` what the transaction of
`p` reads, `missed[p]` the keys others have committed since it began. `Commit` is
enabled only when none of the keys it writes is in `missed[p]`; `Abort` serves a
throw and a conflict alike. MongoDB reports a conflict at the write, the module
at the commit: what commits is the same. The server may also abort a transaction
against one that has not committed yet; the rerun then starts from the same
store, so it is no step of its own. A guard (`touchGuard`) is a key without a row.

**DocLifecycle.** `Call` is the part of a verb before its transaction, with the
loads and checks the code makes there (`Loads`); `CheckBlockers` and
`CheckReferences` are the protection checks of cancel and delete, a step of their
own because each is a query after the load. `Begin` takes the snapshot. One action
per verb carries out the checks repeated inside, the writes, the guards and the
commit. `Retry` is the driver's rerun, `Refuse` any throw at any point. What is
kept of a document is what the checks look at: `st`, `link`, `amendedFrom`;
`effects` counts the committed runs of `on_submit` and `on_cancel`. An id is
handed out once. The one Link of a document stands for the Links among its own
fields, each checked and guarded alone; those in its Tables and composites are
checked by the cancel protection and by the save too, but `guardSubmittableLinkTargets`
(`DS` 2352-2362) touches no guard for them, so nothing below about guards is about
them. `Nest` is a verb that a hook of a submit or a cancel, or
`create_document` of a rule, calls with the session of the outer one: it creates a
draft, creates and submits a document, or cancels one. It reads the transaction
with the outer write in it (`View`), its own writes land with the outer commit
(`WithNested`, `NestedGuards`), and a nested cancel is judged by the sessionless
check alone (`NestedSees`), as the code skips its re-check. One nested verb per
call is modelled, called after the outer write (`on_submit`, `on_cancel`): deeper
cascades, hooks before the write, and nested saves and deletes are not.

**DocEdits.** `Read` opens a form, `Send` is a call with or without `If-Match`
and its checks before the transaction, then as above. `text` stands for what
`set` and a save write, `count` for an incremented field; `bumps` counts the
committed increments. `ClockTicks` says whether two writes of a row may fall in
one millisecond.

**Submissions.** A document has its docstatus, its workflow state and its period; a
user stands for roles and conditions. `Call` is what a verb loads before its
transaction, for `transition()` the routing by docstatus and the state it found.
`Resolve` takes the period row from the cache, or from the snapshot into the cache,
as `resolvePeriod` does; `PeriodClosed` and `YearClosed` read the flags in the
transaction. `Lapse` is the end of a cache entry, at any time. `BandStates` are the
states a hook, a rule or an action patches the workflow field to where it is flagged
`allow_on_submit`: `updateSubmitted` takes such a value unjudged (`DS` 1728-1732), and
only a `transition()` is judged. Left out is a hook that sets the workflow field in the
verb's own document before the write. The workflow of the
instance (`MCSubmissions`) has a wildcard, states of each docstatus and three of
docstatus 1.

**Access.** The grants are chosen once, open ones and at most one
gated grant of those a small entity may declare; the record then changes hands,
meets a condition or not, is shared and is saved. `Readable` and `Writable` are the masks on one row, `Filterable` and
`ReadOnEveryRow` what a query may name before it has a row, `Merged` what a save
stores of what a form sent, `LocksKept` the judgement of locked rows. The start of
a query, with its judgement (`ListStart`, `CountStart`, `SearchStart`,
`AggregateStart`), and its match are steps of their own, and so are
the read of a form and its save. `ListMatch` matches and checks a row in one read. Where
some row is only admitted by a share, `getList` asks by an aggregate: `SharedMatch` is
its match on stored values (on masked ones for a row only a share admits),
`SharedReload` the later read of the row on which its grant is checked.

**RecordForm.** A write is known by its version, and the document holds the set of
writes its values carry: a form that saves what it shows without a write it has not
seen drops that write from the set. `Resynced` is the effect that follows the
query, `Rendered` the mount and unmount around it; `base` is `baseModified`. The
engine side is one handler per call; `Broadcast` is the unawaited notice, one per
commit, in any order with the GETs it causes. Calls of a tab overlap, up to `Calls` of
them: a save may start while a move is under way (`saving` knows the save alone, and
`busy` is the workflow bar's own), and those of a page that was left go on.
`overtaken` is a history variable: some tab has taken in an answer before the older,
or same, one of a move of that page. Pages left, lost answers, failed GETs and dropped
sockets are bounded by `MaxBreaks`.

**ReseedLock.** Node runs one handler at a time, so the judgement and the count of
a write, and the mark of a reset, are single steps. `staged[p]` are the rows the
open transaction of `p` has written: MongoDB makes another transaction's write of
them fail and a plain write wait (`Held`). `underWay` is `writesUnderWay`, with
nested verbs counted beside the outer one as the code does. The rows are one per
collection, `todo` the collections still to wipe or rows still to seed.

**TreeRules.** `Fits` and `MayChangeTree` are the refusals of `placeTreeNode`,
`Placed` the rows `writeTreePlacement` leaves, `Touched` the parent whose
`_tree_rev` it raises. That revision is not kept as a value: raising it is writing
the row, which is all it is for. `IsChain` says that some ids are what a climb by
the parents meets; the initial states are every tree a seed can store, each node
given the ids of its climb (`Climbed`, `Restamped`) as `restampTreeNodes` gives
them at boot. `MaxCalls` bounds the calls of a behaviour.

**Naming.** `doc[p]` is the document in memory, which survives a rerun; `drawn[p]`
what the open transaction raised the counter to; `kept` the documents stored with
a number an aborted attempt had drawn. The field carries no unique index and no
caller gives a number of its own.

**FileStore.** The row insert, the put, the count and the removal are four
separate steps of four stores' calls, as in the code. `lapsed` collects the rows
whose pointer the order of these steps does not secure, by the four cases
`MissingIsExplained` names. A failed removal leaves the blob, a failed put takes
the row back. Thumbnails, width variants and crashes are left out, and so is a
failure of the write that takes a row back.

## 3. Runs

| Run | Bounds | Asks |
|---|---|---|
| `DocLifecycle_all` | 2 requests, 2 documents, all verbs, one nested verb per call | types; forward immutability and what the guards buy; effects once; docstatus only 0, 1, 2 and a frozen core; amendments name a cancelled document; every interleaving is one of `AtomicDocs` |
| `DocEdits` | 3 writers, 1 document, 2 writes | increments are additive; no stale save on a submitted text; `If-Match` |
| `Submissions` | 2 requests, 1 document, 1 period, 2 years, 1 save of them | the seal of a close; moves declared from the committed state; verbs and moves leave a state that fits the docstatus, with hooks that patch the state |
| `ReseedLock` | 2 requests, 2 rows, both modes | the lock, and that resets end |
| `TreeRules` | 2 requests, 4 nodes, 2 trees, depth 3, 3 calls | paths faithful, no cycle, depth bound, one kind per tree |
| `Naming` | 3 inserts, 4 documents, numbers to 6, 2 skips | drawn numbers are unique, the counter ascends |
| `FileStore` | 3 requests, 3 rows, 2 contents | a missing blob has one of four causes |
| `Access` | a grant to change all, or one or two narrower open grants, and at most one gated grant, on one gated field and a Table with a gated and a locked cell, 2 saves | filters, hidden values, locks |
| `RecordForm` | 1 tab beside other writers, 2 calls at once, 2 writes, 1 break | no write lost, and the page catches up |

Why the bounds are enough: every hazard here is a matter of two calls (three for
a file: one that counts, one that writes, one that drops), and the properties
relate at most two documents; a hook's verb makes a third call of two. Two movers
in four nodes can each carry a subtree into the other's, and three calls are two
moves and an insert or a delete beside them; depth 3 is met by an insert racing a
move. One save of a period or a year is a close, a reopening or a new link beside
two verbs. Two saves are what the evasion of a lock takes. For `RecordForm`
two writes are enough, the one a form is based on and the one it misses, because
`NoWriteLost` looks at the save under way that `If-Match` would let through, not only
at what a third write leaves; two calls at once are a move and the save that
overlaps it. With two breaks TLC agrees as well, in three times the states.
Every invariant and action property of these runs is proved for every size as well;
what section 5 lists as model-checked only is liveness.
Where a number grows (`MaxWrites`, `MaxNumber`, `MaxSkips`, `MaxCalls`, `MaxSaves`,
`MaxBreaks`) it is bounded in a guard; the bounds leave room for two races.
`CHECK_DEADLOCK FALSE` is there because ids, numbers and writes run out.

Three runs show where the code does not do what it says:

- `DocLifecycle_delete_race`: `deleteDoc` judges the row before its transaction
  and deletes it whatever it has become, so it can remove a document submitted in
  between.
- `Naming_rerun`: a rerun of an insert keeps the number on the document, while the
  increment that produced it was rolled back; another insert draws it again.
- `Submissions_unjudged`: a `transition()` whose document another call has moved to
  the same state meanwhile writes it with neither a permission check nor a
  judgement.

Variants of these models, reached by a change of a constant, a verb set or a
property, are refuted too and limit what the passing runs say:

- `CancelNotForwarded` and `ForwardImmutability` with `BandLink = TRUE`: a Link
  flagged `allow_on_submit` is patched without a guard;
- `ForwardImmutability` with `HooksCancelTargets = TRUE`: a hook of a submit that
  cancels the target of the very Link submitted is judged by a check without the
  session, which does not see the open submit, and the re-check is skipped
  (`DS` 2588-2627);
- `CleanSlate` with `WipeFails = TRUE` (a `deleteMany` that throws is logged and
  skipped) and with `Kinds = {"coreAction"}` (actions on core entities are not
  counted, so an app row one of them writes may be committed after the wipe);
- `StagedIsCounted` and `NothingLandsAfterWipe` with `Kinds = {"app", "core"}`: a verb
  on a core entity that begins while a reset runs goes on uncounted (`DS` 2794-2801);
  it may outlive that reset, call verbs on app entities, and commit their rows
  after the wipe of the next reset, which does not wait for it;
- `MatchedWriteIsFresh` with `ClockTicks = FALSE` (stamps are milliseconds);
- `NoMissingBlob` in `FileStore`: a removal decided on a count taken before an
  upload of the same content destroys the blob the upload has put. The four cases
  `MissingIsExplained` allows contradict what `api/upload-router.ts` says of its order
  of steps ("so it never points at a missing blob", 405-409 and 564-570);
- `StateFitsDocstatus` where `BandStates` is not empty: a patch may leave a submitted
  document in a state of any docstatus, and `MovesAreDeclared` does not hold of patches;
- `FiltersReadableOnly` judged at the match of a list with shares that checks its rows
  one by one: the filter is compared with a value of the row its user may not read,
  and the row is answered if it meets the condition when it is loaded again;
- `NoWriteLost` without its condition (`~overtaken`): `onApplied` (`RecordPage.tsx` 757)
  resets the form to the answer of a move and leaves `baseModified` to an effect keyed
  on the loaded stamp (504-509). A move commits, its answer is slow; the form follows
  by a GET, is edited and saved; a GET of the move's version arrives late while the
  form is dirty again; then the answer of the move resets the form to that version, and
  the effect does not run. The form shows one version against the stamp of the next,
  and its save passes `If-Match` and undoes a write;
- `HiddenKept` for roles that write a cell they cannot read: the cell is not in
  the form, and the next save of the Table drops it.

Facts of the record page that were met while modelling and that no property
states: a background GET that fails replaces the open form and its edits by an
error; a form whose edits are undone shows the version it was reset to, not a
newer one in the query; a write between the GET of a mount (or of a reconnect)
and the subscription is not notified; what is typed while a save is under way is
discarded by the reset that follows it.

## 4. Fairness

Two modules state liveness. In `ReseedLock`, `WF_vars(Reset)`: the reset is one
chain of continuations and one timer, which the event loop runs; a `deleteMany` or
an insert waits at most for an open transaction. `WF_vars(Expire(p))`: nothing in
the code obliges a handler to end its transaction, but the server aborts one past
`transactionLifetimeLimitSeconds`. No fairness is assumed of a request.

In `RecordForm`, weak fairness of `EngineReads` (the engine answers a GET it has
got), `Loaded`, `Hear`, and `SaveDone` and `MoveDone` of each call (the browser
hands on an answer or an event that has arrived). Nobody is assumed to open, edit, save or reconnect, and
no broadcast is assumed to be sent.

## 5. Proofs

TLAPS proves, for all constants that meet the modules' assumptions:

| Theorem | Statement | Assumes |
|---|---|---|
| `TypeCorrect` | `Spec => []TypeOK` (DocLifecycle) | |
| `ForwardImmutabilityHolds` | `Spec => []ForwardImmutability` | `~BandLink`, `~HooksCancelTargets` |
| `EffectsOnceHolds` | `Spec => []EffectsOnce` | |
| `FrozenCoreHolds` | `Spec => FrozenCore` | `~BandLink` |
| `CancelNotForwardedHolds` | `Spec => CancelNotForwarded` | `~BandLink`, `~HooksCancelTargets` |
| `AmendsTheCancelledHolds` | `Spec => []AmendsTheCancelled` | |
| `GuardsAreSound` | `Spec => []GuardSoundness` | `~BandLink`, `~HooksCancelTargets` |
| `Refinement` | `Spec => ImplementsAtomic` | `~BandLink`, `~HooksCancelTargets` |
| `EditsTypeCorrect` | `Spec => []TypeOK` (DocEdits) | |
| `IncrementsAreAdditive` | `Spec => []NoLostIncrement` | |
| `MatchedWritesAreFresh` | `Spec => MatchedWriteIsFresh` | `ClockTicks` |
| `SubmittedTextsFrozen` | `Spec => SubmittedTextFrozen` | |
| `EditsAreSerial` | `Spec => SerialEdits` | |
| `SubmissionsTypeCorrect` | `Spec => []TypeOK` (Submissions) | |
| `VerbsFit` | `Spec => VerbsKeepFit` | |
| `StatesFit` | `Spec => [](BandStates = {} => StateFitsDocstatus)` | `BandStates = {}` |
| `SealsHold` | `Spec => SealHolds` | |
| `MovesDeclared` | `Spec => MovesAreDeclared` | |
| `StrangersOnlyMoves` | `Spec => StrangersOnlyMove` | |
| `TreeTypeCorrect` | `Spec => []TypeOK` (TreeRules) | |
| `PathsAreChains` | `Spec => []AncestorsFaithful` | |
| `DepthIsBounded` | `Spec => []DepthBound` | |
| `TreesStayApart` | `Spec => []OneKindPerTree` | |
| `CyclesNeverClose` | `Spec => []NoCycle` | |
| `TreeWritesAreSerial` | `Spec => SerialTree` | |
| `NamingTypeCorrect` | `Spec => []TypeOK` (Naming) | |
| `DrawnNumbersUnique` | `Spec => []DrawnUnique` | |
| `CounterAscends` | `Spec => NumbersAscend` | |
| `NumbersUniqueWithoutHooks` | `Spec => []NumbersUnique` | `~HookWrites` |
| `NumbersAreSerial` | `Spec => SerialSeries` | `~HookWrites` |
| `LockTypeCorrect` | `Spec => []TypeOK` (ReseedLock) | |
| `NeverWaitsForItself` | `Spec => []NoSelfWait` | |
| `StagedStayCounted` | `Spec => []StagedIsCounted` | `Kinds = {"app"}` |
| `NothingLands` | `Spec => NothingLandsAfterWipe` | `Kinds = {"app"}` |
| `SuccessIsASeed` | `Spec => CleanSlate` | `Kinds = {"app"}`, `~WipeFails` |
| `FilesTypeCorrect` | `FilesSpec => []FilesTypeOK` | |
| `LossesAreExplained` | `FilesSpec => []MissingIsExplained` | |
| `CallsAloneLoseNone` | `FilesSpec => []NoMissingBlob` | one request |
| `AccessTypeCorrect` | `Spec => []TypeOK` (Access) | |
| `FiltersReach` | `Spec => FiltersReadableOnly` | |
| `HiddenIsKept` | `Spec => HiddenKept` | |
| `LocksHold` | `Spec => LocksHoldOut` | |
| `FormTypeCorrect` | `Spec => []TypeOK` (RecordForm) | |
| `FormsLoseNoWrite` | `Spec => []NoWriteLost` | |
| `NoNoticeIsDropped` | `Spec => DutyIsKept` | |

*Forward immutability* is not inductive. Its invariant is
`TypeOK /\ SnapshotCurrent /\ GuardSoundness /\ ForwardImmutability`.
`SnapshotCurrent` says a row nobody committed since a transaction began is the row
its snapshot holds: this makes the read and the write of one row atomic.
`GuardSoundness` says what a guard buys: while nobody else has touched the guard
of `d` since `p` began, `d` has not been cancelled under `p`, nothing has been
submitted onto `d` that the snapshot does not show, and a nested cancel of `d` that
was judged is still judged right. A submit that commits has touched the guard of
its target and not missed it, so its snapshot's word on the target is still true; a
cancel likewise with its own guard. Every commit is first read as a set of rows
with what each is (`Lands`, `Writes`: a draft, a submit, a cancel, a patch, a
delete), the nested verb's row beside the outer one's, and the invariants are
carried over that set.

*Refinement* maps `docs` to `store`, deletes included. With `SnapshotCurrent` and
`GuardSoundness` each commit is the atomic verb judged on the committed rows, and a
nested verb is one verb of the hooks judged on what the outer one leaves
(`NestedIsHook`); every other step stutters. The pre-checks play no part but for
the nested cancel, which is the point: they may be stale. `RefineInv` adds what a
pending amendment and a pending delete know of their document, and that no
document a snapshot holds is forgotten (`SnapshotPast`).

*Amendments* are judged before the transaction. `AmendInv` adds `AmendPending`: the
source of an amendment under way is cancelled or already removed, which no step
undoes.

*Edits.* `EditsInv` adds to the types and `SnapshotCurrent` that submit and
cancel carry no `If-Match` and, where stamps are distinct (`ClockTicks`), that a
form's row is the stored one or has a smaller stamp (`FormsArePast`). `SerialEdits` is
the document with one writer at a time, over `store` and `bumps`: each of the five
writes is judged on the stored row and changes it in one step. `EditsAreSerial` shows
that `DocEdits` implements it; the row a commit was made from is the stored one
(`WriteEffect`), so neither the early judgement nor the form matters.

*Judged verbs.* `SubmissionsInv` adds to the types (`RowsOK`: a key is a document, a
period or a year throughout) `SnapshotCurrent` and `Routed`, what the loads of a
`transition()` have made sure of. Each verb commits one row of its document, read
through a snapshot that nobody has overtaken on that document (`CommitMeaning`), so
a move is judged on the committed state, which a hook may have patched. `VerbsFit` is a
fact of each commit; where no patch names a state, it carries `StateFitsDocstatus`
along (`UnbandedFit`). The seal needs no invariant of the cache:
the flag is read in the snapshot, and a flag that has changed since is in `missed`.
`StrangersOnlyMove` bounds what `Submissions_unjudged` lets through: a user without
write permission changes of a document its workflow state, as a transition declared
from the committed state allows or as a hook patches it, and nothing else but the
stamp. `Entitled` says why: such a user's request is a move or a patch, and neither
names a period.

*Trees.* What makes two moves safe is rows they do not write: `_tree_rev` of the new
parent. `TreeInv` is the types, `Faithful` (the path of a stored node is the chain
of its parents), `Kindred` (stored parents are in the tree of their child),
`SnapshotCurrent`, `OwnIds`, and two facts on an open transaction: unless it has
missed `n` or a row that its snapshot shows below `n`, what is below `n` now was
below `n` in its snapshot (`SubtreeSeen`), and likewise of the children of `n`
(`ChildrenSeen`), since whatever comes under a node raises the revision of the
parent it comes under. A placement that commits has written every row of the
subtree it carries and touched its new parent, so it was judged on what is stored
(`JudgedNow`); the rest is about rows alone: a placement that fits on faithful rows
leaves faithful rows, each in the tree of its parent, each within `MaxDepth`
(`PlacedRows`, `PlacedFaithful`, `PlacedKindred`, `BelowBounds`). No induction over
paths is needed: two climbs through one node count the same nodes above it
(`OneLevel`), by the least place where they would not, and `NoCycle` follows from
the least level of a set. `SerialTree` is an abstract tree whose one variable is
`store`: an insert or a move is judged and placed on the stored rows in one step, a
delete takes one stored node. `TreeWritesAreSerial` shows that `TreeRules` implements
it: `JudgedNow` turns the placement on the snapshot into the placement on the store
(`PlaceSerial`), and every other step stutters. `SerialDelete` asks nothing of the
children, because the check for them runs before the transaction and is not repeated.

*Naming.* `NamingInv` adds to the types, `SnapshotCurrent` and `DrawnUnique`: an insert
has an id of its own, nothing stored under it yet (`OwnIds`); at most one open
transaction has raised the counter, which has not moved since its snapshot, and
the number it drew was free there (`OneDraws`); while the counter has not moved
under a transaction, the only documents stored meanwhile are those that kept a
number (`SeesDrawn`). Where no hook conflicts after the draw, nobody keeps one
(`Unkept`), and numbers are unique without exception. `SerialSeries` is the series with
one insert at a time, over `store`: a document takes the next number that none holds.
`NumbersAreSerial` shows that `Naming` implements it there: the counter and the documents
its snapshot shows are still the stored ones when it commits, so a number drawn by an
insert that fails is drawn by the next, and there are no gaps either.

*Reset.* `CountInv`: only requests that are writing are counted. `LockInv` adds
that a write that runs is counted by its outer label and that nothing is once a
wipe has begun; `Progress`, for `CleanSlate`, that what is wiped is gone and what
the seed has reached is the seed's.

*Files.* `StoresProofs` extends `FileStore` beside `ReseedLock`, two specifications with
no name in common, so those of `FileStore` carry a prefix. The set of rows is finite,
the requests any number. `FileInv` adds to the types what a call carries at each step
(`CallsFit`) and two facts. `RemovedAreBare`: past its count, a call removes a blob no
other row relies on, unless it is the row of that very delete, or one in `lapsed`, the
history of the four cases `MissingIsExplained` names; a row that comes to point at a
blob another call is removing enters `lapsed` with that step. `BlobStands`: any stored
row not in `lapsed` has its blob, or is in the hands of a delete or of a call about to
put it. Together they give `MissingIsExplained`. `CallsAloneLoseNone` is about one
request: then what it has read of rows and blobs is still so at its next step
(`AloneFits`), and no blob is ever missing, whatever puts and removals fail. So every
loss takes two calls.

*Access.* What a query may name is judged on the grants alone, so `FiltersReach`
needs only that the grants are fixed and that a query is started on what
`Filterable` or `ReadOnEveryRow` allows (`ListInv`); lemmas show that this is
readable on a row that a scope admits and that passes its check (`NamedIsSeen`), or
that a share shows (`SharedIsSeen`): on the row matched (`MatchSees`), and for a list with
shares that checks its rows on the row loaded again (`ReloadSees`), which the match
says nothing of. `AccessInv` adds to the types that a form is of an
older version of the record, or shows the stored one through the mask of its user
(`FormInv`); with it the merge of a save changes nothing but the edit.

*Record form.* `FormInv` says, per tab (`TabInv`) and while no answer has overtaken a
move, that the cache, the answers on their way and the form hold a document with all
writes up to its version (`Copy`), and that a form or a save under way never carries
less than the version it is saved against, so a save that passes `If-Match` carries
every write (`Carried`). A move that is answered and not taken in yet is the one
moment where what a form shows and its base could part (`LateMove`): if the
form is based on a later version by then, the query holds another version than that
answer, so the re-sync that follows the answer runs and sets the two right. Calls that
overlap are handled call by call: an answer taken in leaves what is known of the
others (`OthersStay`), unless one of them is the older move, which is the condition of
the theorem. `Counted` bounds the notices by the writes. `DutyIsKept` is the safety
half of `CatchesUp`: a write made while a page follows its document is owed to the tab,
announced, asked for or in an answer, and no step loses it before the page shows it
or stops following (an edit, a page left, a lost connection). What fairness must add
is that each of these moves on.

`SerialEdits`, `SerialSeries`, `StrangersOnlyMove`, `SerialTree`, `DutyIsKept` and,
for one request, `NoMissingBlob` are stated beside their proofs and have no run of
their own; TLC agrees with each on the instances of section 3 or smaller ones.

Only model-checked is what is out of the prover's reach: the liveness properties
`ResetEnds`, `EveryCallAnswered` and `CatchesUp`. Where a theorem assumes something of
a constant, TLC refutes the property without it (section 3).

## 6. Plan, and what stays out

1. Deeper cascades: more than one nested verb per call, hooks before the write,
   nested saves (`update_document`) and deletes.
2. Time-series mirrors written outside the transaction (`MS` 406-419), and the
   reload of definitions, which deletes them all and inserts them one by one.
3. The link of a row that is being deleted: the delete protection runs before the
   transaction only, so a property of it needs a history of the checks.

The models stand for a small part of the lines of the repository, and a larger part
is not to be had without modelling what no property tells apart: most of the code
is type definitions, React components and controls, styling, schema validation,
field computations on one document, and HTTP plumbing, none of which keeps state
that two actors share.
