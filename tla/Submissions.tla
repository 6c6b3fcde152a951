---------------------------- MODULE Submissions ----------------------------
(***************************************************************************)
(* The period close and the workflow, as the verbs of DocumentService run  *)
(* them: insert, a save, submit, cancel, a patch after the submit and      *)
(* transition(), called by users of different roles while periods and      *)
(* their years are closed, reopened and linked anew.                       *)
(*                                                                         *)
(* A verb loads its document (Call), opens a transaction on the snapshot   *)
(* store of MongoTxn (Begin), resolves the period of the document through  *)
(* the cache of PeriodCloseValidator (Resolve), then judges, writes and    *)
(* commits.  DocLifecycle has the Links between documents, which are left  *)
(* out here.                                                               *)
(***************************************************************************)
EXTENDS Naturals, FiniteSets

CONSTANTS
    Procs,        \* requests being served
    Docs, Periods, Years,
    Users,        \* who asks; a user stands for the roles held and the conditions met
    Writers,      \* the users with the plain write permission on every document
    Admins,       \* the administrators
    States,       \* the workflow states the entity declares
    StateDef,     \* state |-> [docStatus, initial, terminal, default]
    Transitions,  \* the declared transitions: [from, to, allowed]
    AnyState,     \* the wildcard of a transition's from
    BlockOn,      \* the phases that period_check.block_on lists
    BandStates,   \* what hooks set the workflow field to where it is flagged
                  \* allow_on_submit; {} where it is not
    FirstYear,    \* the year every period is linked to at first
    Stamps,       \* bound: whether the rows keep modified_by
    MaxWrites,    \* bound: how often periods and years are saved
    None          \* no document, no state, no cached row

ASSUME SubsetAssumption == Writers \subseteq Users /\ Admins \subseteq Users
ASSUME KeysAssumption == Docs \cap (Periods \cup Years) = {} /\ Periods \cap Years = {}
ASSUME YearAssumption == Periods # {} /\ FirstYear \in Years
ASSUME BandAssumption == BandStates \subseteq States
ASSUME BoundsAssumption == MaxWrites \in Nat /\ Stamps \in BOOLEAN
ASSUME NoneAssumption == None \notin Docs \cup Periods \cup Years \cup States

VARIABLES
    store, open, snap, missed,  \* see MongoTxn; the rows of documents, periods and years
    cache,     \* cache[k]: the row PeriodCache holds for period k, or None
    pc,        \* pc[p]: "idle", "called", "resolved" (the period row is chosen)
    req,       \* req[p]: the call p serves
    res,       \* res[p]: the period row p's transaction resolved, or None
    writes     \* how often periods and years have been saved

vars == <<store, open, snap, missed, cache, pc, req, res, writes>>

DocRow == [st : {"fresh", "draft", "submitted", "cancelled"},
           wf : States \cup {None}, period : Periods, by : Users \cup {None}]
PeriodRow == [closed : BOOLEAN, year : Years]
YearRow == [closed : BOOLEAN]

Verbs == {"insert", "save", "submit", "cancel", "patch", "moveDraft", "movePosted"}
Requests == [verb : Verbs, doc : Docs, user : Users, to : States \cup {None},
             period : Periods \cup {None}, from : States \cup {None}]
NoRequest == [verb |-> "none", doc |-> None, user |-> None, to |-> None, period |-> None, from |-> None]

Keys == Docs \cup Periods \cup Years
Rows(first) ==
    [k \in Keys |->
       IF k \in Docs THEN [st |-> "fresh", wf |-> None, period |-> first, by |-> None]
       ELSE IF k \in Periods THEN [closed |-> FALSE, year |-> FirstYear]
       ELSE [closed |-> FALSE]]
EmptyStore == Rows(CHOOSE k \in Periods : TRUE)

Txn == INSTANCE MongoTxn

-----------------------------------------------------------------------------
(* WorkflowEngine: pure judgements on the definition of the entity.        *)

InitialState == LET initial == {s \in States : StateDef[s].initial}
                IN  IF initial = {} THEN None ELSE CHOOSE s \in initial : TRUE

(* The states a docstatus flip may land in: the flagged ones where there   *)
(* are several, else the ones with a way out.                              *)
Candidates(n) ==
    LET matches == {s \in States : StateDef[s].docStatus = n}
        flagged == {s \in matches : StateDef[s].default}
        goOn    == {s \in matches : ~StateDef[s].terminal}
    IN  IF Cardinality(matches) <= 1 THEN matches
        ELSE IF flagged # {} THEN flagged
        ELSE IF Cardinality(goOn) = 1 THEN goOn ELSE matches

(* Several candidates are an AmbiguousDocStatusStateError: no flip.        *)
Unambiguous(n) == Cardinality(Candidates(n)) <= 1

StateForDocStatus(n, current) ==
    IF Candidates(n) = {} THEN current ELSE CHOOSE s \in Candidates(n) : TRUE

(* validateTransition: the administrator passes every gate.                *)
MayMove(user, from, to) ==
    \/ user \in Admins
    \/ \E t \in Transitions : t.from \in {from, AnyState} /\ t.to = to /\ user \in t.allowed

(* judgeFieldWrite: a write that keeps the state is no move.               *)
Judged(user, from, to) == to = from \/ (to # None /\ MayMove(user, from, to))

-----------------------------------------------------------------------------
(* Before the transaction.                                                 *)

Unused(d) == store[d].st = "fresh" /\ \A p \in Procs : req[p].doc # d

(* transition() routes a move by the docstatus of the row it loads: a save *)
(* of a draft, a patch of a submitted document.  Calls that are refused    *)
(* whatever comes to pass are left out.                                    *)
MoveDraftLoads(r) ==
    /\ r.verb = "moveDraft" /\ r.to \in States /\ r.to # r.from
    /\ store[r.doc].st = "draft"

(* Mutant of MovePostedLoads: any declared state may be moved to.          *)
MovePostedLoadsAny(r) ==
    /\ r.verb = "movePosted" /\ r.to \in States /\ r.to # r.from
    /\ store[r.doc].st = "submitted"

MovePostedLoads(r) ==
    /\ r.verb = "movePosted" /\ r.to \in States /\ r.to # r.from
    /\ store[r.doc].st = "submitted"
    /\ StateDef[r.to].docStatus = 1

(* One permission stands for the ones to create, write, submit and cancel. *)
WriterLoads(r) ==
    \/ r.verb = "insert" /\ Unused(r.doc) /\ r.period # None
    \/ r.verb = "save" /\ store[r.doc].st = "draft" /\ r.period # store[r.doc].period
    \/ r.verb = "submit" /\ store[r.doc].st = "draft" /\ r.to = None
    \/ r.verb = "cancel" /\ store[r.doc].st = "submitted" /\ r.to = None

(* A hook, a rule or an action calls updateSubmitted, and may skip the     *)
(* write check.  The workflow field is one of the fields it may set where  *)
(* it is flagged for the band.                                             *)
PatchLoads(r) ==
    /\ r.verb = "patch" /\ store[r.doc].st = "submitted"
    /\ r.to \in BandStates \cup {None}

Loads(r) ==
    \/ r.user \in Writers /\ WriterLoads(r)
    \/ PatchLoads(r)
    \/ MoveDraftLoads(r)
    \/ MovePostedLoads(r)

(* Only an insert and a save name a period of their own; a move keeps the  *)
(* state it loaded.                                                        *)
Call(p, r) ==
    /\ pc[p] = "idle"
    /\ r.from = IF r.verb \in {"moveDraft", "movePosted"} THEN store[r.doc].wf ELSE None
    /\ r.verb \notin {"insert", "save"} => r.period = None
    /\ Loads(r)
    /\ pc' = [pc EXCEPT ![p] = "called"]
    /\ req' = [req EXCEPT ![p] = r]
    /\ UNCHANGED <<store, open, snap, missed, cache, res, writes>>

Begin(p) ==
    /\ pc[p] = "called"
    /\ Txn!Begin(p)
    /\ UNCHANGED <<cache, pc, req, res, writes>>

-----------------------------------------------------------------------------
(* PeriodCloseValidator and its cache.                                     *)

Phase(verb) ==
    CASE verb \in {"save", "moveDraft"} -> "update"
      [] verb \in {"patch", "movePosted"} -> "post_submit_update"
      [] OTHER -> verb

Seals(p) == Phase(req[p].verb) \in BlockOn

Mine(p) == snap[p][req[p].doc]

(* The period of the document as the verb is about to write it.            *)
PeriodOf(p) == IF req[p].period # None THEN req[p].period ELSE Mine(p).period

(* resolvePeriod by the linked id: the cached row, else the row the        *)
(* transaction sees, which goes to the cache whatever becomes of it.       *)
Resolve(p) ==
    LET k == PeriodOf(p)
        row == IF cache[k] # None THEN cache[k] ELSE snap[p][k]
    IN  /\ p \in open /\ pc[p] = "called" /\ Seals(p)
        /\ pc' = [pc EXCEPT ![p] = "resolved"]
        /\ res' = [res EXCEPT ![p] = row]
        /\ cache' = [cache EXCEPT ![k] = row]
        /\ UNCHANGED <<store, open, snap, missed, req, writes>>

(* getPeriodStatus resolves without a session, and fills the cache too.    *)
Preflight(k) ==
    /\ cache[k] = None
    /\ cache' = [cache EXCEPT ![k] = store[k]]
    /\ UNCHANGED <<store, open, snap, missed, pc, req, res, writes>>

(* The entry outlives its five seconds, or the process.                    *)
Lapse(k) ==
    /\ cache[k] # None
    /\ cache' = [cache EXCEPT ![k] = None]
    /\ UNCHANGED <<store, open, snap, missed, pc, req, res, writes>>

(* Mutant of PeriodClosed: the flag of the cached row is believed.         *)
PeriodClosedCached(p) == res[p].closed

(* assertOpenCascade: the flags are read live, in the transaction; which   *)
(* year is asked for comes from the resolved row.                          *)
PeriodClosed(p) == snap[p][PeriodOf(p)].closed

YearClosed(p) == snap[p][res[p].year].closed

PeriodOpen(p) ==
    IF Seals(p) THEN pc[p] = "resolved" /\ ~PeriodClosed(p) /\ ~YearClosed(p)
    ELSE TRUE

-----------------------------------------------------------------------------
(* The verbs, inside the transaction.                                      *)

InTxn(p, verbs) == p \in open /\ req[p].verb \in verbs /\ PeriodOpen(p)

Return(p) ==
    /\ pc' = [pc EXCEPT ![p] = "idle"]
    /\ req' = [req EXCEPT ![p] = NoRequest]
    /\ res' = [res EXCEPT ![p] = None]

CommitRow(p, row) ==
    /\ Txn!Commit(p, [k \in {req[p].doc} |-> [row EXCEPT !.by = IF Stamps THEN req[p].user ELSE None]], {})
    /\ Return(p)
    /\ UNCHANGED <<cache, writes>>

(* A state the caller sends is taken as it is; else the initial one.       *)
Insert(p) ==
    /\ InTxn(p, {"insert"})
    /\ CommitRow(p, [st |-> "draft",
                     wf |-> IF req[p].to = None THEN InitialState ELSE req[p].to,
                     period |-> req[p].period, by |-> None])

(* performUpdate: editable, and the move judged, both on the row it reads. *)
Save(p) ==
    /\ InTxn(p, {"save", "moveDraft"})
    /\ Mine(p).st = "draft"
    /\ req[p].to # None => Judged(req[p].user, Mine(p).wf, req[p].to)
    /\ CommitRow(p, [Mine(p) EXCEPT !.wf = IF req[p].to = None THEN @ ELSE req[p].to,
                                    !.period = PeriodOf(p)])

SubmitState(p) == StateForDocStatus(1, Mine(p).wf)

Submit(p) ==
    /\ InTxn(p, {"submit"})
    /\ Mine(p).st = "draft"
    /\ Unambiguous(1)
    /\ CommitRow(p, [Mine(p) EXCEPT !.st = "submitted", !.wf = SubmitState(p)])

Cancel(p) ==
    /\ InTxn(p, {"cancel"})
    /\ Mine(p).st = "submitted"
    /\ Unambiguous(2)
    /\ CommitRow(p, [Mine(p) EXCEPT !.st = "cancelled", !.wf = StateForDocStatus(2, @)])

(* updateSubmitted outside of transition(): a workflow state among the     *)
(* patched fields is a plain band write, which nothing judges.             *)
Patch(p) ==
    /\ InTxn(p, {"patch"})
    /\ Mine(p).st = "submitted"
    /\ CommitRow(p, [Mine(p) EXCEPT !.wf = IF req[p].to = None THEN @ ELSE req[p].to])

(* Mutant of PostedMoveFrom: the pre-loaded row is judged.                 *)
PostedMoveFromPreDoc(p) == req[p].from

(* updateSubmitted judges the move on the row it reads again.              *)
PostedMoveFrom(p) == Mine(p).wf

MovePosted(p) ==
    /\ InTxn(p, {"movePosted"})
    /\ Mine(p).st = "submitted"
    /\ Judged(req[p].user, PostedMoveFrom(p), req[p].to)
    /\ CommitRow(p, [Mine(p) EXCEPT !.wf = req[p].to])

(* The driver reruns the callback after a write conflict.                  *)
Retry(p) ==
    /\ p \in open
    /\ req[p].doc \in missed[p]
    /\ Txn!Abort(p)
    /\ pc' = [pc EXCEPT ![p] = "called"]
    /\ res' = [res EXCEPT ![p] = None]
    /\ UNCHANGED <<cache, req, writes>>

(* Mutant of Refuse: the throw ends the call and leaves the session open.  *)
RefuseLeaks(p) ==
    /\ pc[p] # "idle"
    /\ Return(p) /\ UNCHANGED <<store, open, snap, missed, cache, writes>>

(* A refusal: a closed period, an undeclared move, a date outside the      *)
(* window of the period, a permission, a hook or a validation that throws. *)
Refuse(p) ==
    /\ pc[p] # "idle"
    /\ IF p \in open THEN Txn!Abort(p) ELSE UNCHANGED <<store, open, snap, missed>>
    /\ Return(p) /\ UNCHANGED <<cache, writes>>

-----------------------------------------------------------------------------
(* The periods and the years: saves of one row, outside of these calls.    *)

Rewrite(k, row) ==
    /\ writes < MaxWrites
    /\ writes' = writes + 1
    /\ Txn!WriteThrough([j \in {k} |-> row])
    /\ UNCHANGED <<cache, pc, req, res>>

SetClosed(k) == Rewrite(k, [store[k] EXCEPT !.closed = ~@])
Relink(k, y) == y # store[k].year /\ Rewrite(k, [store[k] EXCEPT !.year = y])

Init ==
    /\ Txn!TxnInit
    /\ cache = [k \in Periods |-> None]
    /\ pc = [p \in Procs |-> "idle"]
    /\ req = [p \in Procs |-> NoRequest]
    /\ res = [p \in Procs |-> None]
    /\ writes = 0

Commits(p) ==
    \/ Insert(p) \/ Save(p) \/ Submit(p) \/ Cancel(p) \/ Patch(p) \/ MovePosted(p)

Step(p) ==
    \/ \E r \in Requests : Call(p, r)
    \/ Begin(p) \/ Resolve(p) \/ Commits(p) \/ Retry(p) \/ Refuse(p)

Next ==
    \/ \E p \in Procs : Step(p)
    \/ \E k \in Periods : Preflight(k) \/ Lapse(k)
    \/ \E k \in Periods \cup Years : SetClosed(k)
    \/ \E k \in Periods : \E y \in Years : Relink(k, y)

Spec == Init /\ [][Next]_vars

-----------------------------------------------------------------------------
(* A store holds a row of its kind under every key.                        *)
RowsOK(rows) ==
    /\ DOMAIN rows = Keys
    /\ \A k \in Docs : rows[k] \in DocRow
    /\ \A k \in Periods : rows[k] \in PeriodRow
    /\ \A k \in Years : rows[k] \in YearRow

(* Every variable has its type, and a transaction is open only for a call  *)
(* in progress.                                                            *)
TypeOK ==
    /\ RowsOK(store)
    /\ open \subseteq Procs
    /\ DOMAIN snap = Procs /\ \A p \in Procs : RowsOK(snap[p])
    /\ missed \in [Procs -> SUBSET Keys]
    /\ cache \in [Periods -> PeriodRow \cup {None}]
    /\ pc \in [Procs -> {"idle", "called", "resolved"}]
    /\ req \in [Procs -> Requests \cup {NoRequest}]
    /\ res \in [Procs -> PeriodRow \cup {None}]
    /\ writes \in 0..MaxWrites
    /\ \A p \in open : pc[p] # "idle"
    /\ \A p \in Procs : pc[p] # "idle" => req[p] \in Requests
    /\ \A p \in Procs : pc[p] = "resolved" => p \in open /\ res[p] \in PeriodRow

(* p's verb commits in this step, and leaves its document other than it    *)
(* found it.                                                               *)
Lands(p, d) == p \in open /\ p \notin open' /\ d = req[p].doc /\ store[d] # store'[d]

(* No document enters a closed period, or leaves it, through a phase the   *)
(* entity blocks, unless the transaction was already open when the period  *)
(* was closed: the flag is read live in it, whatever the cache holds.  The *)
(* same for the year that the resolved row names.                          *)
SealStep ==
    \A p \in Procs : \A d \in Docs : Lands(p, d) /\ Seals(p) =>
      /\ store[PeriodOf(p)].closed => PeriodOf(p) \in missed[p]
      /\ store[res[p].year].closed => res[p].year \in missed[p]

SealHolds == [][SealStep]_vars

(* A state is left only for one a transition declared from it leads to,    *)
(* allowed to the user whose call commits it; only a submit, a cancel and  *)
(* a band write of the state itself go without.  Judged on the committed   *)
(* state, and not on the one the call loaded.                              *)
MoveStep ==
    \A p \in Procs : \A d \in Docs :
      /\ Lands(p, d)
      /\ store[d].wf # store'[d].wf
      /\ req[p].verb \notin {"insert", "submit", "cancel", "patch"}
      => MayMove(req[p].user, store[d].wf, store'[d].wf)

MovesAreDeclared == [][MoveStep]_vars

(* A submitted document is in a state of docstatus 1 and a cancelled one   *)
(* in a state of docstatus 2, where the entity declares such states.       *)
Fits(row) ==
    /\ row.st = "submitted" /\ Candidates(1) # {} => StateDef[row.wf].docStatus = 1
    /\ row.st = "cancelled" /\ Candidates(2) # {} => StateDef[row.wf].docStatus = 2

(* No move after the submit takes the state where only a verb may, and     *)
(* whatever state a band write left, the verb or the move that lands next  *)
(* leaves one that fits; a patch without the state does not unfit a        *)
(* document.                                                               *)
FitStep ==
    \A p \in Procs : \A d \in Docs : Lands(p, d) =>
      \/ Fits(store'[d])
      \/ req[p].verb = "patch" /\ (req[p].to = None => ~Fits(store[d]))

VerbsKeepFit == [][FitStep]_vars

(* What that gives where no band write can name the state.                 *)
StateFitsDocstatus == \A d \in Docs : Fits(store[d])

(* "its judgement is what stands in for the write check; a move to no      *)
(* state or to the current one would write without it": whoever saves or   *)
(* moves a document may write it, or moves it as the workflow allows.      *)
ClearedStep ==
    \A p \in Procs : \A d \in Docs :
      /\ Lands(p, d)
      /\ req[p].verb \in {"save", "moveDraft", "movePosted"}
      => req[p].user \in Writers \/ MayMove(req[p].user, store[d].wf, store'[d].wf)

WritesAreCleared == [][ClearedStep]_vars

=============================================================================
