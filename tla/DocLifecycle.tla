---------------------------- MODULE DocLifecycle ----------------------------
(***************************************************************************)
(* The verbs of DocumentService on submittable documents: insert, update,  *)
(* submit, cancel, updateSubmitted, deleteDoc and amend, called by         *)
(* concurrent requests on the snapshot-isolated store of MongoTxn.         *)
(*                                                                         *)
(* A document is its docstatus, its Link field and its amended_from; what  *)
(* the hooks of a verb write beside it (ledger rows, reversals) is counted *)
(* in effects.  A call reads and checks before its transaction (Call,      *)
(* CheckBlockers, CheckReferences), then runs the transaction: Begin takes *)
(* the snapshot every check inside it reads, and one action per verb       *)
(* carries out those checks, the write and the commit.  The hooks of a     *)
(* submit and of a cancel, and the rules, may call one more verb that      *)
(* joins the transaction (sessionOverride): Nest.                          *)
(***************************************************************************)
EXTENDS Naturals

CONSTANTS
    Procs,     \* requests being served
    Docs,      \* document ids; the naming service hands each out once
    None,      \* an empty Link, an absent amended_from
    Verbs,     \* the verbs the clients of a run call
    BandLink,  \* TRUE iff the Link field is flagged allow_on_submit
    HooksCancelTargets  \* TRUE iff the hook of a submit may cancel the target of its Link

AllVerbs == {"insert", "update", "submit", "cancel", "updateSubmitted", "deleteDoc", "amend"}

ASSUME VerbsAssumption == Verbs \subseteq AllVerbs
ASSUME NoneAssumption == None \notin Docs
ASSUME BandAssumption == BandLink \in BOOLEAN
ASSUME HooksAssumption == HooksCancelTargets \in BOOLEAN

VARIABLES
    store, open, snap, missed,  \* see MongoTxn
    pc,        \* pc[p]: "idle", "loaded" (pre-load done), "checked" (may open its transaction)
    req,       \* req[p]: the call p serves
    nested,    \* nested[p]: the verb a hook has called inside p's transaction
    effects    \* effects[d]: what committed on_submit and on_cancel hooks of d have written

vars == <<store, open, snap, missed, pc, req, nested, effects>>

Status == {"fresh", "draft", "submitted", "cancelled", "deleted"}
LinkValues == Docs \cup {None}
Row == [st : Status, link : LinkValues, amendedFrom : LinkValues]
Effects == [posted : Nat, reversed : Nat]
Request == [verb : AllVerbs \cup {"none"}, doc : LinkValues, link : LinkValues, new : LinkValues]

Requests == [verb : Verbs, doc : Docs, link : LinkValues, new : LinkValues]

Nested == [kind : {"none", "create", "spawn", "cancel"}, doc : LinkValues, link : LinkValues]

NoRow == [st |-> "fresh", link |-> None, amendedFrom |-> None]
NoRequest == [verb |-> "none", doc |-> None, link |-> None, new |-> None]
NoNested == [kind |-> "none", doc |-> None, link |-> None]
EmptyStore == [d \in Docs |-> NoRow]

Txn == INSTANCE MongoTxn

(* The key touchGuard increments for a document in _doc_guards.            *)
GuardKey(d) == <<"guard", d>>

Exists(s, d) == s[d].st \in {"draft", "submitted", "cancelled"}

(* linkValidator: a set Link names a row that exists.                      *)
LinkResolves(s, l) == l = None \/ (l \in Docs /\ Exists(s, l))

(* a is a submitted document that names d: d was forwarded into it.        *)
Forwards(s, a, d) == s[a].st = "submitted" /\ s[a].link = d

(* CancelProtection.check and DeleteProtection.check find nothing.         *)
NoBlockers(s, d) == \A a \in Docs : ~Forwards(s, a, d)
NoReferences(s, d) == \A a \in Docs : Exists(s, a) => s[a].link # d

-----------------------------------------------------------------------------
(* Before the transaction.                                                 *)

(* The naming service hands an id to one insert only.                      *)
Unused(d) ==
    /\ store[d].st = "fresh"
    /\ \A p \in Procs : d \notin {req[p].doc, req[p].new, nested[p].doc}

(* What a verb loads and judges before it opens its transaction.  insert   *)
(* and update judge nothing there; they read inside.                       *)
InsertLoads(r) == r.verb = "insert" /\ Unused(r.doc) /\ r.new = None
UpdateLoads(r) == r.verb = "update" /\ store[r.doc].st # "fresh" /\ r.new = None

SubmitLoads(r) ==
    /\ r.verb = "submit" /\ r.link = None /\ r.new = None
    /\ store[r.doc].st = "draft"

CancelLoads(r) ==
    /\ r.verb = "cancel" /\ r.link = None /\ r.new = None
    /\ store[r.doc].st = "submitted"

PatchLoads(r) ==
    /\ r.verb = "updateSubmitted" /\ r.new = None
    /\ BandLink \/ r.link = None
    /\ store[r.doc].st = "submitted"

DeleteLoads(r) ==
    /\ r.verb = "deleteDoc" /\ r.link = None /\ r.new = None
    /\ Exists(store, r.doc) /\ store[r.doc].st # "submitted"

(* Mutant of AmendLoads: prepareAmend without its docstatus check.         *)
AmendLoadsAny(r) ==
    /\ r.verb = "amend" /\ r.new \in Docs /\ Unused(r.new)
    /\ Exists(store, r.doc) /\ r.link = store[r.doc].link

AmendLoads(r) ==
    /\ r.verb = "amend" /\ r.new \in Docs /\ Unused(r.new)
    /\ store[r.doc].st = "cancelled" /\ r.link = store[r.doc].link

Loads(r) ==
    \/ InsertLoads(r) \/ UpdateLoads(r) \/ SubmitLoads(r) \/ CancelLoads(r)
    \/ PatchLoads(r) \/ DeleteLoads(r) \/ AmendLoads(r)

Call(p, r) ==
    /\ pc[p] = "idle"
    /\ r.verb \in Verbs
    /\ Loads(r)
    /\ req' = [req EXCEPT ![p] = r]
    /\ pc' = [pc EXCEPT ![p] = IF r.verb \in {"cancel", "deleteDoc"} THEN "loaded" ELSE "checked"]
    /\ UNCHANGED <<store, open, snap, missed, nested, effects>>

(* cancel: the sessionless cancel-protection check, on the store of now.   *)
CheckBlockers(p) ==
    /\ pc[p] = "loaded" /\ req[p].verb = "cancel"
    /\ NoBlockers(store, req[p].doc)
    /\ pc' = [pc EXCEPT ![p] = "checked"]
    /\ UNCHANGED <<store, open, snap, missed, req, nested, effects>>

(* deleteDoc: the delete-protection check, made only here.                 *)
CheckReferences(p) ==
    /\ pc[p] = "loaded" /\ req[p].verb = "deleteDoc"
    /\ NoReferences(store, req[p].doc)
    /\ pc' = [pc EXCEPT ![p] = "checked"]
    /\ UNCHANGED <<store, open, snap, missed, req, nested, effects>>

-----------------------------------------------------------------------------
(* Inside the transaction.                                                 *)

Begin(p) ==
    /\ pc[p] = "checked"
    /\ Txn!Begin(p)
    /\ UNCHANGED <<pc, req, nested, effects>>

Return(p) ==
    /\ pc' = [pc EXCEPT ![p] = "idle"]
    /\ req' = [req EXCEPT ![p] = NoRequest]
    /\ nested' = [nested EXCEPT ![p] = NoNested]

InTxn(p, verb) == p \in open /\ req[p].verb = verb

(* The rows and the guards a verb writes, from what its snapshot holds.    *)
Put(d, row) == [k \in {d} |-> row]
PutStatus(p, st) == Put(req[p].doc, [snap[p][req[p].doc] EXCEPT !.st = st])
NewRow(l, from) == [st |-> "draft", link |-> l, amendedFrom |-> from]
LinkTargets(p) == {snap[p][req[p].doc].link} \ {None}

(* Mutant of TargetGuards: a submit that touches no guard.                 *)
TargetGuardsNone(p) == {}

(* Only Links of the document itself are guarded.  Those of its Tables and *)
(* composites are checked as well, and no guard is touched for them: link  *)
(* stands for a Link of the document.                                      *)
TargetGuards(p) == {GuardKey(t) : t \in LinkTargets(p)}

(* What a nested verb adds to the writes of the outer one.                 *)
NestedDocs(p) == {nested[p].doc} \ {None}

NestedRow(p) ==
    LET n == nested[p] IN
    CASE n.kind = "cancel" -> [snap[p][n.doc] EXCEPT !.st = "cancelled"]
      [] n.kind = "spawn"  -> [NewRow(n.link, None) EXCEPT !.st = "submitted"]
      [] OTHER             -> NewRow(n.link, None)

NestedGuards(p) ==
    CASE nested[p].kind = "cancel" -> {GuardKey(nested[p].doc)}
      [] nested[p].kind = "spawn"  -> {GuardKey(t) : t \in {nested[p].link} \ {None}}
      [] OTHER                     -> {}

NestedEffects(p) ==
    CASE nested[p].kind = "cancel" -> [effects EXCEPT ![nested[p].doc].reversed = @ + 1]
      [] nested[p].kind = "spawn"  -> [effects EXCEPT ![nested[p].doc].posted = @ + 1]
      [] OTHER                     -> effects

WithNested(p, st) ==
    [d \in {req[p].doc} \cup NestedDocs(p) |->
       IF d = req[p].doc THEN [snap[p][d] EXCEPT !.st = st] ELSE NestedRow(p)]

Insert(p) ==
    /\ InTxn(p, "insert")
    /\ LinkResolves(snap[p], req[p].link)
    /\ snap[p][req[p].doc].st = "fresh"
    /\ Txn!Commit(p, Put(req[p].doc, NewRow(req[p].link, None)), {})
    /\ Return(p) /\ UNCHANGED effects

(* Mutant of EditAllowed: validateEdit left to the caller.                 *)
EditAllowedAny(p) == Exists(snap[p], req[p].doc)

(* validateEdit, on the row the transaction read.                          *)
EditAllowed(p) == snap[p][req[p].doc].st = "draft"

Update(p) ==
    /\ InTxn(p, "update")
    /\ EditAllowed(p)
    /\ LinkResolves(snap[p], req[p].link)
    /\ Txn!Commit(p, Put(req[p].doc, [snap[p][req[p].doc] EXCEPT !.link = req[p].link]), {})
    /\ Return(p) /\ UNCHANGED effects

(* Mutants of SubmitAllowed: the pre-transaction validateSubmit is taken   *)
(* as enough; the target is not read again behind its guard.               *)
SubmitAllowedNoReload(p) ==
    /\ Exists(snap[p], req[p].doc)
    /\ \A t \in LinkTargets(p) : snap[p][t].st # "cancelled"
SubmitAllowedNoTargetRead(p) == snap[p][req[p].doc].st = "draft"

(* runSubmit: the reload, validateSubmit and guardSubmittableLinkTargets,  *)
(* which lets a target that no longer exists pass.                         *)
SubmitAllowed(p) ==
    /\ snap[p][req[p].doc].st = "draft"
    /\ \A t \in LinkTargets(p) : snap[p][t].st # "cancelled"

Submit(p) ==
    /\ InTxn(p, "submit")
    /\ SubmitAllowed(p)
    /\ Txn!Commit(p, WithNested(p, "submitted"), TargetGuards(p) \cup NestedGuards(p))
    /\ effects' = [NestedEffects(p) EXCEPT ![req[p].doc].posted = @ + 1]
    /\ Return(p)

(* Mutant of CancelAllowed: the sessionless check is taken as enough.      *)
CancelAllowedNoRecheck(p) == snap[p][req[p].doc].st = "submitted"

(* runCancel: the reload, validateCancel and the re-check of the blockers. *)
CancelAllowed(p) ==
    /\ snap[p][req[p].doc].st = "submitted"
    /\ NoBlockers(snap[p], req[p].doc)

(* Mutant of CancelGuards: a cancel that does not touch its own guard.     *)
CancelGuardsNone(p) == {}

CancelGuards(p) == {GuardKey(req[p].doc)}

Cancel(p) ==
    /\ InTxn(p, "cancel")
    /\ CancelAllowed(p)
    /\ Txn!Commit(p, WithNested(p, "cancelled"), CancelGuards(p) \cup NestedGuards(p))
    /\ effects' = [NestedEffects(p) EXCEPT ![req[p].doc].reversed = @ + 1]
    /\ Return(p)

(* A patch of the band; it moves the Link only where the Link is in it.    *)
UpdateSubmitted(p) ==
    /\ InTxn(p, "updateSubmitted")
    /\ snap[p][req[p].doc].st = "submitted"
    /\ BandLink => LinkResolves(snap[p], req[p].link)
    /\ Txn!Commit(p, Put(req[p].doc, IF BandLink
                                       THEN [snap[p][req[p].doc] EXCEPT !.link = req[p].link]
                                       ELSE snap[p][req[p].doc]), {})
    /\ Return(p) /\ UNCHANGED effects

(* runDelete re-checks nothing: the row goes, whatever it has become.      *)
DeleteDoc(p) ==
    /\ InTxn(p, "deleteDoc")
    /\ Txn!Commit(p, PutStatus(p, "deleted"), {})
    /\ Return(p) /\ UNCHANGED effects

(* The insert of the amendment; the cancelled original is not read again.  *)
Amend(p) ==
    /\ InTxn(p, "amend")
    /\ LinkResolves(snap[p], req[p].link)
    /\ snap[p][req[p].new].st = "fresh"
    /\ Txn!Commit(p, Put(req[p].new, NewRow(req[p].link, req[p].doc)), {})
    /\ Return(p) /\ UNCHANGED effects

-----------------------------------------------------------------------------
(* A verb called by a hook or a rule inside the transaction of a submit or *)
(* a cancel.  It reads the transaction, its own writes included: the outer *)
(* document already has its new docstatus.                                 *)
OuterSt(p) == IF req[p].verb = "submit" THEN "submitted" ELSE "cancelled"

View(p) == [snap[p] EXCEPT ![req[p].doc].st = OuterSt(p)]

OuterAllowed(p) ==
    \/ req[p].verb = "submit" /\ SubmitAllowed(p)
    \/ req[p].verb = "cancel" /\ CancelAllowed(p)

(* create_document of the rule engine, or an insert by a hook: a draft.    *)
CreateAllowed(p, n) ==
    /\ n.kind \in {"create", "spawn"}
    /\ snap[p][n.doc].st = "fresh"
    /\ LinkResolves(View(p), n.link)

(* A hook inserts a document and submits it at once; the target of its     *)
(* Link is guarded and read again for a nested submit too.                 *)
SpawnAllowed(p, n) ==
    n.kind = "spawn" /\ n.link # None => View(p)[n.link].st # "cancelled"

(* A hook cancels another document.                                        *)
CascadeAllowed(p, n) ==
    /\ n.kind = "cancel" /\ n.link = None
    /\ snap[p][n.doc].st = "submitted"
    /\ HooksCancelTargets \/ req[p].verb = "cancel" \/ snap[p][req[p].doc].link # n.doc

NestedAllowed(p, n) ==
    /\ req[p].verb \in {"submit", "cancel"} /\ OuterAllowed(p)
    /\ n.doc \in Docs \ {req[p].doc}
    /\ \/ CreateAllowed(p, n) /\ SpawnAllowed(p, n)
       \/ CascadeAllowed(p, n)

(* Mutant of NestedSees: no cancel-protection check for a nested cancel.   *)
NestedSeesNothing(n) == n.kind \in {"create", "spawn"} => Unused(n.doc)

(* What a nested verb judges on the committed documents: the naming of a   *)
(* new one, and the cancel-protection check, made without the session.     *)
(* The re-check under the session is skipped.                              *)
NestedSees(n) ==
    /\ n.kind \in {"create", "spawn"} => Unused(n.doc)
    /\ n.kind = "cancel" => NoBlockers(store, n.doc)

Nest(p, n) ==
    /\ p \in open /\ nested[p] = NoNested
    /\ NestedAllowed(p, n) /\ NestedSees(n)
    /\ nested' = [nested EXCEPT ![p] = n]
    /\ UNCHANGED <<store, open, snap, missed, pc, req, effects>>

-----------------------------------------------------------------------------
(* The rows and guards the open verb of p is about to write.               *)
WritesOf(p) ==
    LET r == req[p] IN
    CASE r.verb = "submit" -> {r.doc} \cup TargetGuards(p) \cup NestedDocs(p) \cup NestedGuards(p)
      [] r.verb = "cancel" -> {r.doc} \cup CancelGuards(p) \cup NestedDocs(p) \cup NestedGuards(p)
      [] r.verb = "amend"  -> {r.new}
      [] OTHER             -> {r.doc}

(* The driver reruns the callback after a write conflict.                  *)
Retry(p) ==
    /\ p \in open
    /\ WritesOf(p) \cap missed[p] # {}
    /\ Txn!Abort(p)
    /\ nested' = [nested EXCEPT ![p] = NoNested]
    /\ UNCHANGED <<pc, req, effects>>

(* Mutant of Refuse: the throw ends the call and leaves the session open.  *)
RefuseLeaks(p) ==
    /\ pc[p] # "idle"
    /\ Return(p) /\ UNCHANGED <<store, open, snap, missed, effects>>

(* A failed check, a permission, a hook, a rule or a validation that       *)
(* throws ends the call, and with it the transaction.                      *)
Refuse(p) ==
    /\ pc[p] # "idle"
    /\ IF p \in open THEN Txn!Abort(p) ELSE UNCHANGED <<store, open, snap, missed>>
    /\ Return(p) /\ UNCHANGED effects

-----------------------------------------------------------------------------
Init ==
    /\ Txn!TxnInit
    /\ pc = [p \in Procs |-> "idle"]
    /\ req = [p \in Procs |-> NoRequest]
    /\ nested = [p \in Procs |-> NoNested]
    /\ effects = [d \in Docs |-> [posted |-> 0, reversed |-> 0]]

Commits(p) ==
    \/ Insert(p) \/ Update(p) \/ Submit(p) \/ Cancel(p)
    \/ UpdateSubmitted(p) \/ DeleteDoc(p) \/ Amend(p)

Step(p) ==
    \/ \E r \in Requests : Call(p, r)
    \/ CheckBlockers(p) \/ CheckReferences(p)
    \/ Begin(p) \/ (\E n \in Nested : Nest(p, n)) \/ Commits(p) \/ Retry(p) \/ Refuse(p)

Next == \E p \in Procs : Step(p)

Spec == Init /\ [][Next]_vars

-----------------------------------------------------------------------------
(* Every variable has its type, a transaction is open only for a call that *)
(* has passed its checks, and a call in progress names a document.         *)
TypeOK ==
    /\ store \in [Docs -> Row]
    /\ open \subseteq Procs
    /\ snap \in [Procs -> [Docs -> Row]]
    /\ missed \in [Procs -> SUBSET (Docs \cup {GuardKey(d) : d \in Docs})]
    /\ pc \in [Procs -> {"idle", "loaded", "checked"}]
    /\ req \in [Procs -> Request]
    /\ nested \in [Procs -> Nested]
    /\ effects \in [Docs -> Effects]
    /\ \A p \in open : pc[p] = "checked"
    /\ \A p \in Procs : pc[p] # "idle" =>
         req[p] \in Requests /\ (req[p].verb = "amend" => req[p].new \in Docs)
    /\ \A p \in Procs : nested[p] # NoNested => p \in open /\ NestedAllowed(p, nested[p])

(* Forward immutability: no submitted document names a cancelled one.  It  *)
(* is what CancelProtection, the in-transaction re-check and the guards of *)
(* _doc_guards are there for; submit and cancel write different rows, so   *)
(* snapshot isolation alone lets both commit.                              *)
ForwardImmutability ==
    \A a, d \in Docs : Forwards(store, a, d) => store[d].st # "cancelled"

(* H7: on_submit and on_cancel take effect once each, in step with the     *)
(* docstatus, whatever calls ran twice, raced or were rerun by the driver. *)
EffectsOnce ==
    \A d \in Docs :
      /\ store[d].st \in {"fresh", "draft"} => effects[d] = [posted |-> 0, reversed |-> 0]
      /\ store[d].st = "submitted" => effects[d] = [posted |-> 1, reversed |-> 0]
      /\ store[d].st = "cancelled" => effects[d] = [posted |-> 1, reversed |-> 1]

(* amended_from names a document that was cancelled, and no later call     *)
(* brings that document back.                                              *)
AmendsTheCancelled ==
    \A d \in Docs : store[d].amendedFrom # None =>
      store[store[d].amendedFrom].st \in {"cancelled", "deleted"}

(* A step may move a docstatus only 0 -> 1 -> 2, create a row (a spawned   *)
(* one is submitted at once) or remove it; and a submitted or cancelled    *)
(* row keeps its Link and its amended_from: the frozen core, outside the   *)
(* band.                                                                   *)
FrozenCoreStep ==
    \A d \in Docs :
      /\ store[d].st # store'[d].st =>
           \/ store'[d].st = "deleted"
           \/ <<store[d].st, store'[d].st>> \in
                {<<"fresh", "draft">>, <<"fresh", "submitted">>,
                 <<"draft", "submitted">>, <<"submitted", "cancelled">>}
      /\ store[d].st \in {"submitted", "cancelled"} =>
           store'[d].link = store[d].link /\ store'[d].amendedFrom = store[d].amendedFrom

FrozenCore == [][FrozenCoreStep]_vars

(* A row no one else has committed since a transaction began is the row    *)
(* its snapshot holds: why a read and a write of one row are atomic.       *)
SnapshotCurrent ==
    \A p \in open : \A d \in Docs : d \notin missed[p] => snap[p][d] = store[d]

(* What the guard of d buys: while no one else has touched it since a      *)
(* transaction began, d has not been cancelled under that transaction, and *)
(* nothing has been submitted onto d, be it after the transaction began or *)
(* after a nested cancel was judged.  Those are facts about other rows     *)
(* than the ones the transaction writes, so a snapshot does not give them. *)
GuardSoundness ==
    \A p \in open : \A d \in Docs : GuardKey(d) \notin missed[p] =>
      /\ store[d].st = "cancelled" => snap[p][d].st = "cancelled"
      /\ \A a \in Docs : Forwards(store, a, d) => Forwards(snap[p], a, d)
      /\ nested[p].kind = "cancel" /\ nested[p].doc = d => NoBlockers(store, d)

(* The source of a pending amendment stays cancelled until it is removed.  *)
AmendPending ==
    \A p \in Procs : req[p].verb = "amend" =>
      store[req[p].doc].st \in {"cancelled", "deleted"}

(* cancel commits only while nothing submitted names the document, judged  *)
(* on the committed documents and not on a snapshot of them.               *)
CancelStep ==
    \A d \in Docs :
      store[d].st = "submitted" /\ store'[d].st = "cancelled" => NoBlockers(store, d)

CancelNotForwarded == [][CancelStep]_vars

(* Every interleaving of the calls is one of the atomic verbs: a commit is *)
(* the verb taking effect, every other step changes nothing.               *)
Atomic == INSTANCE AtomicDocs WITH docs <- store
ImplementsAtomic == Atomic!Spec

(* validateDelete refuses a submitted document: no step removes one.       *)
NoSubmittedDelete ==
    [][\A d \in Docs : store[d].st = "submitted" => store'[d].st # "deleted"]_vars

=============================================================================
