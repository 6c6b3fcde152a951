------------------------- MODULE SubmissionsProofs -------------------------
(***************************************************************************)
(* Proofs about Submissions, for any number of requests, documents,        *)
(* periods and years, any workflow and any phases that a close blocks.     *)
(***************************************************************************)
EXTENDS Submissions, TLAPS

(* A row no one else has committed since a transaction began is the row    *)
(* its snapshot holds.                                                     *)
SnapshotCurrent ==
    \A p \in open : \A k \in Keys : k \notin missed[p] => snap[p][k] = store[k]

(* A move of a submitted document was let through to a state of docstatus  *)
(* 1 only, a patch to one a hook may set, and an insert with a period.     *)
Routed ==
    \A p \in Procs :
      /\ req[p].verb = "movePosted" => req[p].to \in States /\ StateDef[req[p].to].docStatus = 1
      /\ req[p].verb = "patch" => req[p].to \in BandStates \cup {None}
      /\ req[p].verb = "insert" => req[p].period \in Periods

(* Without band writes of the state, every document fits.                  *)
UnbandedFit == BandStates = {} => StateFitsDocstatus

SubmissionsInv == TypeOK /\ SnapshotCurrent /\ Routed /\ UnbandedFit

-----------------------------------------------------------------------------
LEMMA RequestFacts ==
    /\ \A r \in Requests : /\ r.verb \in Verbs /\ r.doc \in Docs /\ r.user \in Users
                           /\ r.to \in States \cup {None} /\ r.from \in States \cup {None}
                           /\ r.period \in Periods \cup {None}
    /\ NoRequest.verb = "none"
  BY DEF Requests, NoRequest

LEMMA EmptyRows == RowsOK(EmptyStore)
  <1> DEFINE k == CHOOSE k \in Periods : TRUE
  <1>1. k \in Periods
    BY YearAssumption
  <1>2. EmptyStore = Rows(k)
    BY DEF EmptyStore
  <1> HIDE DEF k
  <1> QED BY <1>1, <1>2, KeysAssumption, YearAssumption
          DEF Rows, RowsOK, Keys, DocRow, PeriodRow, YearRow

(* A flip of the docstatus lands in a state of that docstatus, where the   *)
(* entity declares one.                                                    *)
LEMMA FlipFacts ==
    ASSUME NEW n \in {1, 2}, NEW current \in States \cup {None}
    PROVE  /\ StateForDocStatus(n, current) \in States \cup {None}
           /\ Candidates(n) # {} => StateDef[StateForDocStatus(n, current)].docStatus = n
  <1>1. Candidates(n) \subseteq {s \in States : StateDef[s].docStatus = n}
    BY DEF Candidates
  <1> HIDE DEF Candidates
  <1>2. CASE Candidates(n) = {}
    BY <1>2 DEF StateForDocStatus
  <1>3. CASE Candidates(n) # {}
    <2>1. StateForDocStatus(n, current) = CHOOSE s \in Candidates(n) : TRUE
      BY <1>3 DEF StateForDocStatus
    <2>2. StateForDocStatus(n, current) \in Candidates(n)
      BY <1>3, <2>1
    <2> QED BY <1>1, <2>2
  <1> QED BY <1>2, <1>3

LEMMA InitialFacts == InitialState \in States \cup {None}
  BY DEF InitialState

(* What a row looks like to a transaction, and the period it is sealed by. *)
LEMMA MineFacts ==
    ASSUME TypeOK, NEW p \in open
    PROVE  /\ p \in Procs /\ req[p] \in Requests /\ req[p].doc \in Docs
           /\ Mine(p) \in DocRow
           /\ Mine(p).wf \in States \cup {None} /\ Mine(p).period \in Periods
           /\ PeriodOf(p) \in Periods
  <1>1. p \in Procs /\ req[p] \in Requests /\ RowsOK(snap[p])
    BY DEF TypeOK
  <1>2. req[p].doc \in Docs /\ req[p].period \in Periods \cup {None}
    BY <1>1, RequestFacts
  <1>3. Mine(p) \in DocRow
    BY <1>1, <1>2 DEF Mine, RowsOK
  <1>4. Mine(p).wf \in States \cup {None} /\ Mine(p).period \in Periods
    BY <1>3 DEF DocRow
  <1> QED BY <1>1, <1>2, <1>3, <1>4 DEF PeriodOf

(* The effect of the commit of a row.                                      *)
Committed(p, row) ==
    /\ store' = [k \in Keys |-> IF k = req[p].doc THEN row ELSE store[k]]
    /\ open' = open \ {p}
    /\ snap' = [snap EXCEPT ![p] = EmptyStore]
    /\ missed' = [q \in Procs |-> IF q \in open \ {p} THEN missed[q] \cup {req[p].doc} ELSE {}]
    /\ req[p].doc \notin missed[p]
    /\ Return(p)
    /\ UNCHANGED <<cache, writes>>

(* Every verb commits one row: of its document, in an open period, in a    *)
(* state that fits, reached as the verb may reach it from the committed    *)
(* state.                                                                  *)
LEMMA CommitMeaning ==
    ASSUME SubmissionsInv, NEW p \in Procs, Commits(p)
    PROVE  /\ p \in open /\ PeriodOpen(p) /\ req[p].doc \in Docs
           /\ \E row \in DocRow :
                /\ Committed(p, row)
                /\ \/ Fits(row)
                   \/ req[p].verb = "patch" /\ (req[p].to = None => ~Fits(store[req[p].doc]))
                /\ \/ req[p].verb \in {"insert", "submit", "cancel"}
                   \/ row.wf = store[req[p].doc].wf
                   \/ req[p].verb = "patch" /\ row.wf \in BandStates
                   \/ MayMove(req[p].user, store[req[p].doc].wf, row.wf)
  <1> DEFINE d == req[p].doc
             Good(row) == /\ row \in DocRow
                          /\ \/ Fits(row)
                             \/ req[p].verb = "patch" /\ (req[p].to = None => ~Fits(Mine(p)))
                          /\ \/ req[p].verb \in {"insert", "submit", "cancel"}
                             \/ row.wf = Mine(p).wf
                             \/ req[p].verb = "patch" /\ row.wf \in BandStates
                             \/ MayMove(req[p].user, Mine(p).wf, row.wf)
  <1> USE DEF SubmissionsInv
  <1>1. p \in open /\ PeriodOpen(p)
    BY DEF Commits, Insert, Save, Submit, Cancel, Patch, MovePosted, InTxn
  <1>2. /\ req[p] \in Requests /\ d \in Docs /\ Mine(p) \in DocRow
        /\ Mine(p).wf \in States \cup {None} /\ Mine(p).period \in Periods /\ PeriodOf(p) \in Periods
    BY <1>1, MineFacts
  <1>3. /\ req[p].user \in Users /\ req[p].to \in States \cup {None}
        /\ req[p].period \in Periods \cup {None} /\ req[p].verb \in Verbs
    BY <1>2, RequestFacts
  <1>4. ASSUME NEW row, CommitRow(p, row), Good(row)
        PROVE  \E r \in DocRow : Committed(p, r) /\ Good(r) /\ Mine(p) = store[d]
    <2> DEFINE r == [row EXCEPT !.by = IF Stamps THEN req[p].user ELSE None]
    <2>1. r \in DocRow /\ r.st = row.st /\ r.wf = row.wf
      BY <1>3, <1>4 DEF DocRow
    <2>2. Good(r)
      BY <1>4, <2>1 DEF Fits
    <2>3. Txn!Commit(p, [k \in {d} |-> r], {}) /\ Return(p) /\ UNCHANGED <<cache, writes>>
      BY <1>4 DEF CommitRow
    <2> HIDE DEF r, Good
    <2>4. Committed(p, r)
      BY <1>2, <2>3 DEF Committed, Txn!Commit, Txn!Overlay, Txn!Written, Txn!Conflicts, TypeOK, RowsOK
    <2>5. Mine(p) = store[d]
      BY <1>1, <1>2, <2>4 DEF Committed, SnapshotCurrent, Mine, Keys
    <2> QED BY <2>1, <2>2, <2>4, <2>5
  <1>5. ASSUME NEW row, CommitRow(p, row)
        PROVE  Mine(p) = store[d]
    <2>1. d \notin missed[p]
      BY <1>5 DEF CommitRow, Txn!Commit, Txn!Conflicts, Txn!Written
    <2> QED BY <1>1, <1>2, <2>1 DEF SnapshotCurrent, Mine, Keys
  <1>6. \E row : CommitRow(p, row) /\ Good(row)
    <2>1. CASE Insert(p)
      <3> DEFINE row == [st |-> "draft", wf |-> IF req[p].to = None THEN InitialState ELSE req[p].to,
                         period |-> req[p].period, by |-> None]
      <3>1. CommitRow(p, row) /\ req[p].verb = "insert"
        BY <2>1 DEF Insert, InTxn
      <3>2. req[p].period \in Periods
        BY <3>1 DEF Routed
      <3>3. row \in DocRow
        BY <1>3, <3>2, InitialFacts DEF DocRow
      <3> QED BY <3>1, <3>3 DEF Fits
    <2>2. CASE Save(p)
      <3> DEFINE row == [Mine(p) EXCEPT !.wf = IF req[p].to = None THEN @ ELSE req[p].to,
                                        !.period = PeriodOf(p)]
      <3>1. CommitRow(p, row) /\ Mine(p).st = "draft"
            /\ (req[p].to # None => Judged(req[p].user, Mine(p).wf, req[p].to))
        BY <2>2 DEF Save
      <3>2. row \in DocRow /\ row.st = "draft" /\ row.wf = IF req[p].to = None THEN Mine(p).wf ELSE req[p].to
        BY <1>2, <1>3, <3>1 DEF DocRow
      <3> QED BY <3>1, <3>2 DEF Fits, Judged
    <2>3. CASE Submit(p)
      <3> DEFINE row == [Mine(p) EXCEPT !.st = "submitted", !.wf = SubmitState(p)]
      <3>1. CommitRow(p, row) /\ req[p].verb = "submit"
        BY <2>3 DEF Submit, InTxn
      <3>2. /\ SubmitState(p) \in States \cup {None}
            /\ Candidates(1) # {} => StateDef[SubmitState(p)].docStatus = 1
        BY <1>2, FlipFacts DEF SubmitState
      <3>3. row \in DocRow /\ row.st = "submitted" /\ row.wf = SubmitState(p)
        BY <1>2, <3>2 DEF DocRow
      <3> QED BY <3>1, <3>2, <3>3 DEF Fits
    <2>4. CASE Cancel(p)
      <3> DEFINE row == [Mine(p) EXCEPT !.st = "cancelled", !.wf = StateForDocStatus(2, @)]
      <3>1. CommitRow(p, row) /\ req[p].verb = "cancel"
        BY <2>4 DEF Cancel, InTxn
      <3>2. /\ StateForDocStatus(2, Mine(p).wf) \in States \cup {None}
            /\ Candidates(2) # {} => StateDef[StateForDocStatus(2, Mine(p).wf)].docStatus = 2
        BY <1>2, FlipFacts
      <3>3. row \in DocRow /\ row.st = "cancelled" /\ row.wf = StateForDocStatus(2, Mine(p).wf)
        BY <1>2, <3>2 DEF DocRow
      <3> QED BY <3>1, <3>2, <3>3 DEF Fits
    <2>5. CASE Patch(p)
      <3> DEFINE row == [Mine(p) EXCEPT !.wf = IF req[p].to = None THEN @ ELSE req[p].to]
      <3>1. CommitRow(p, row) /\ req[p].verb = "patch"
        BY <2>5 DEF Patch, InTxn
      <3>2. req[p].to \in BandStates \cup {None}
        BY <3>1 DEF Routed
      <3>3. /\ row \in DocRow /\ row.st = Mine(p).st
            /\ row.wf = IF req[p].to = None THEN Mine(p).wf ELSE req[p].to
        BY <1>2, <1>3 DEF DocRow
      <3>4. req[p].to = None => (Fits(row) <=> Fits(Mine(p)))
        BY <3>3 DEF Fits
      <3> HIDE DEF row
      <3> QED BY <3>1, <3>2, <3>3, <3>4
    <2>6. CASE MovePosted(p)
      <3> DEFINE row == [Mine(p) EXCEPT !.wf = req[p].to]
      <3>1. /\ CommitRow(p, row) /\ Mine(p).st = "submitted" /\ req[p].verb = "movePosted"
            /\ Judged(req[p].user, Mine(p).wf, req[p].to)
        BY <2>6 DEF MovePosted, InTxn, PostedMoveFrom
      <3>2. req[p].to \in States /\ StateDef[req[p].to].docStatus = 1
        BY <3>1 DEF Routed
      <3>3. row \in DocRow /\ row.st = "submitted" /\ row.wf = req[p].to
        BY <1>2, <3>1, <3>2 DEF DocRow
      <3> QED BY <3>1, <3>2, <3>3 DEF Fits, Judged
    <2> QED BY <2>1, <2>2, <2>3, <2>4, <2>5, <2>6 DEF Commits
  <1>7. \E r \in DocRow : Committed(p, r) /\ Good(r) /\ Mine(p) = store[d]
    BY <1>4, <1>6
  <1> QED BY <1>1, <1>2, <1>7

-----------------------------------------------------------------------------
LEMMA SubmissionsInit == Init => SubmissionsInv
  <1> SUFFICES ASSUME Init PROVE SubmissionsInv
    OBVIOUS
  <1>1. /\ store = EmptyStore /\ open = {} /\ snap = [p \in Procs |-> EmptyStore]
        /\ missed = [p \in Procs |-> {}] /\ cache = [k \in Periods |-> None]
        /\ pc = [p \in Procs |-> "idle"] /\ req = [p \in Procs |-> NoRequest]
        /\ res = [p \in Procs |-> None] /\ writes = 0
    BY DEF Init, Txn!TxnInit
  <1>2. TypeOK
    BY <1>1, EmptyRows, BoundsAssumption DEF TypeOK
  <1>3. \A d \in Docs : store[d].st = "fresh"
    BY <1>1 DEF EmptyStore, Rows, Keys
  <1> QED
    BY <1>1, <1>2, <1>3, RequestFacts DEF SubmissionsInv, SnapshotCurrent, Routed, UnbandedFit, StateFitsDocstatus, Fits

(* Steps that write no row leave what the rows say.                        *)
LEMMA QuietFits ==
    ASSUME UnbandedFit, store' = store
    PROVE  UnbandedFit'
  BY DEF UnbandedFit, StateFitsDocstatus

LEMMA CallKeeps ==
    ASSUME SubmissionsInv, NEW p \in Procs, NEW r \in Requests, Call(p, r)
    PROVE  SubmissionsInv'
  <1> USE RequestFacts DEF SubmissionsInv
  <1>1. /\ pc' = [pc EXCEPT ![p] = "called"] /\ req' = [req EXCEPT ![p] = r]
        /\ UNCHANGED <<store, open, snap, missed, cache, res, writes>>
        /\ pc[p] = "idle" /\ Loads(r)
    BY DEF Call
  <1>2. TypeOK'
    BY <1>1 DEF TypeOK, RowsOK
  <1>3. /\ r.verb = "movePosted" => r.to \in States /\ StateDef[r.to].docStatus = 1
        /\ r.verb = "patch" => r.to \in BandStates \cup {None}
        /\ r.verb = "insert" => r.period \in Periods
    BY <1>1 DEF Loads, WriterLoads, PatchLoads, MoveDraftLoads, MovePostedLoads
  <1>4. Routed'
    BY <1>1, <1>3 DEF Routed, TypeOK
  <1> QED BY <1>1, <1>2, <1>4, QuietFits DEF SnapshotCurrent

LEMMA BeginKeeps ==
    ASSUME SubmissionsInv, NEW p \in Procs, Begin(p)
    PROVE  SubmissionsInv'
  <1> USE DEF SubmissionsInv
  <1>1. /\ pc[p] = "called" /\ open' = open \cup {p} /\ snap' = [snap EXCEPT ![p] = store]
        /\ missed' = [missed EXCEPT ![p] = {}] /\ UNCHANGED <<store, cache, pc, req, res, writes>>
    BY DEF Begin, Txn!Begin
  <1>2. TypeOK'
    BY <1>1 DEF TypeOK, RowsOK
  <1>3. SnapshotCurrent'
    BY <1>1 DEF SnapshotCurrent, TypeOK
  <1> QED BY <1>1, <1>2, <1>3, QuietFits DEF Routed

LEMMA ResolveKeeps ==
    ASSUME SubmissionsInv, NEW p \in Procs, Resolve(p)
    PROVE  SubmissionsInv'
  <1> DEFINE k == PeriodOf(p)
             row == IF cache[k] # None THEN cache[k] ELSE snap[p][k]
  <1> USE DEF SubmissionsInv
  <1>1. /\ p \in open /\ pc' = [pc EXCEPT ![p] = "resolved"] /\ res' = [res EXCEPT ![p] = row]
        /\ cache' = [cache EXCEPT ![k] = row]
        /\ UNCHANGED <<store, open, snap, missed, req, writes>>
    BY DEF Resolve
  <1>2. k \in Periods /\ RowsOK(snap[p])
    BY <1>1, MineFacts DEF TypeOK
  <1>3. row \in PeriodRow
    BY <1>2 DEF TypeOK, RowsOK
  <1> HIDE DEF k, row
  <1>4. TypeOK'
    BY <1>1, <1>2, <1>3 DEF TypeOK, RowsOK
  <1> QED BY <1>1, <1>4, QuietFits DEF SnapshotCurrent, Routed

LEMMA CacheKeeps ==
    ASSUME SubmissionsInv, NEW k \in Periods, Preflight(k) \/ Lapse(k)
    PROVE  SubmissionsInv'
  <1> USE DEF SubmissionsInv
  <1>1. /\ UNCHANGED <<store, open, snap, missed, pc, req, res, writes>>
        /\ cache' = [cache EXCEPT ![k] = store[k]] \/ cache' = [cache EXCEPT ![k] = None]
    BY DEF Preflight, Lapse
  <1>2. cache' \in [Periods -> PeriodRow \cup {None}]
    BY <1>1 DEF TypeOK, RowsOK
  <1>3. TypeOK'
    BY <1>1, <1>2 DEF TypeOK, RowsOK
  <1> QED BY <1>1, <1>3, QuietFits DEF SnapshotCurrent, Routed

LEMMA ReturnTypes ==
    ASSUME TypeOK, NEW p \in Procs, Return(p)
    PROVE  /\ pc' = [pc EXCEPT ![p] = "idle"] /\ req' = [req EXCEPT ![p] = NoRequest]
           /\ res' = [res EXCEPT ![p] = None]
           /\ pc' \in [Procs -> {"idle", "called", "resolved"}]
           /\ req' \in [Procs -> Requests \cup {NoRequest}]
           /\ res' \in [Procs -> PeriodRow \cup {None}]
           /\ \A q \in Procs \ {p} : pc'[q] = pc[q] /\ req'[q] = req[q] /\ res'[q] = res[q]
           /\ pc'[p] = "idle" /\ req'[p].verb = "none"
  BY RequestFacts DEF Return, TypeOK

LEMMA CommitKeeps ==
    ASSUME SubmissionsInv, NEW p \in Procs, Commits(p)
    PROVE  SubmissionsInv'
  <1> USE DEF SubmissionsInv
  <1> DEFINE d == req[p].doc
  <1>1. p \in open /\ d \in Docs
    BY CommitMeaning
  <1>2. PICK row \in DocRow :
          /\ Committed(p, row)
          /\ Fits(row) \/ (req[p].verb = "patch" /\ (req[p].to = None => ~Fits(store[req[p].doc])))
    BY CommitMeaning
  <1>3. /\ store' = [k \in Keys |-> IF k = d THEN row ELSE store[k]]
        /\ open' = open \ {p} /\ snap' = [snap EXCEPT ![p] = EmptyStore]
        /\ missed' = [q \in Procs |-> IF q \in open \ {p} THEN missed[q] \cup {d} ELSE {}]
        /\ UNCHANGED <<cache, writes>> /\ Return(p)
    BY <1>2 DEF Committed
  <1> HIDE DEF d
  <1>4. RowsOK(store')
    <2>1. d \notin Periods /\ d \notin Years
      BY <1>1, KeysAssumption
    <2> QED BY <1>1, <1>3, <2>1 DEF RowsOK, TypeOK, Keys
  <1>5. DOMAIN snap' = Procs /\ \A q \in Procs : RowsOK(snap'[q])
    BY <1>3, EmptyRows DEF TypeOK
  <1>6. missed' \in [Procs -> SUBSET Keys] /\ open' \subseteq Procs
    BY <1>1, <1>3 DEF TypeOK, Keys
  <1>7. TypeOK'
    BY <1>3, <1>4, <1>5, <1>6, ReturnTypes DEF TypeOK, RowsOK
  <1>8. SnapshotCurrent'
    <2> SUFFICES ASSUME NEW q \in open', NEW k \in Keys, k \notin missed'[q]
                 PROVE  snap'[q][k] = store'[k]
      BY DEF SnapshotCurrent
    <2>1. q \in open /\ q # p /\ q \in Procs /\ snap'[q] = snap[q] /\ k \notin missed[q] /\ k # d
      BY <1>3 DEF TypeOK
    <2> QED BY <1>3, <2>1 DEF SnapshotCurrent
  <1>9. Routed'
    BY <1>3, ReturnTypes DEF Routed
  <1>10. UnbandedFit'
    <2> SUFFICES ASSUME BandStates = {} PROVE StateFitsDocstatus'
      BY DEF UnbandedFit
    <2>1. StateFitsDocstatus
      BY DEF UnbandedFit
    <2>2. Fits(row)
      BY <1>1, <1>2, <2>1 DEF StateFitsDocstatus, Routed, d
    <2>3. \A e \in Docs : store'[e] = IF e = d THEN row ELSE store[e]
      BY <1>3 DEF Keys
    <2>4. \A e \in Docs : Fits(store'[e])
      BY <2>1, <2>2, <2>3 DEF StateFitsDocstatus
    <2> QED BY <2>4 DEF StateFitsDocstatus, Fits
  <1> QED BY <1>7, <1>8, <1>9, <1>10

LEMMA AbortKeeps ==
    ASSUME SubmissionsInv, NEW p \in Procs, Retry(p) \/ Refuse(p)
    PROVE  SubmissionsInv' /\ store' = store
  <1> USE DEF SubmissionsInv
  <1>1. /\ store' = store /\ UNCHANGED <<cache, writes>>
        /\ \/ open' = open /\ snap' = snap /\ missed' = missed /\ p \notin open
           \/ /\ open' = open \ {p} /\ snap' = [snap EXCEPT ![p] = EmptyStore]
              /\ missed' = [missed EXCEPT ![p] = {}]
    BY DEF Retry, Refuse, Txn!Abort
  <1>2. \/ Return(p)
        \/ /\ pc' = [pc EXCEPT ![p] = "called"] /\ res' = [res EXCEPT ![p] = None] /\ req' = req
           /\ p \in open
    BY DEF Retry, Refuse
  <1>3. /\ pc' \in [Procs -> {"idle", "called", "resolved"}]
        /\ req' \in [Procs -> Requests \cup {NoRequest}]
        /\ res' \in [Procs -> PeriodRow \cup {None}]
        /\ \A q \in Procs \ {p} : pc'[q] = pc[q] /\ req'[q] = req[q] /\ res'[q] = res[q]
        /\ pc'[p] \in {"idle", "called"}
        /\ pc'[p] # "idle" => pc[p] # "idle" /\ req'[p] = req[p]
        /\ req'[p] = req[p] \/ req'[p].verb = "none"
    <2>1. CASE Return(p)
      BY <2>1, ReturnTypes
    <2>2. CASE ~Return(p)
      BY <1>2, <2>2 DEF TypeOK
    <2> QED BY <2>1, <2>2
  <1>4. p \notin open' /\ open' \subseteq open /\ \A q \in open' : snap'[q] = snap[q] /\ missed'[q] = missed[q]
    BY <1>1 DEF TypeOK
  <1>5. DOMAIN snap' = Procs /\ \A q \in Procs : RowsOK(snap'[q])
    BY <1>1, EmptyRows DEF TypeOK
  <1>6. missed' \in [Procs -> SUBSET Keys]
    BY <1>1 DEF TypeOK
  <1>7. \A q \in Procs \ {p} : q \in open => q \in open'
    BY <1>1
  <1>8. TypeOK'
    BY <1>1, <1>3, <1>4, <1>5, <1>6, <1>7 DEF TypeOK, RowsOK
  <1>9. SnapshotCurrent'
    BY <1>1, <1>4 DEF SnapshotCurrent
  <1>10. Routed'
    BY <1>3 DEF Routed
  <1> QED BY <1>1, <1>8, <1>9, <1>10, QuietFits

LEMMA RewriteKeeps ==
    ASSUME SubmissionsInv, NEW k \in Periods \cup Years, NEW row, Rewrite(k, row),
           k \in Periods => row \in PeriodRow, k \in Years => row \in YearRow
    PROVE  SubmissionsInv' /\ \A d \in Docs : store'[d] = store[d]
  <1> USE DEF SubmissionsInv
  <1>1. /\ store' = [j \in Keys |-> IF j = k THEN row ELSE store[j]]
        /\ missed' = [q \in Procs |-> IF q \in open THEN missed[q] \cup {k} ELSE {}]
        /\ UNCHANGED <<open, snap, cache, pc, req, res>> /\ writes' = writes + 1 /\ writes < MaxWrites
    BY DEF Rewrite, Txn!WriteThrough, Txn!Overlay, TypeOK, RowsOK
  <1>2. k \in Keys /\ k \notin Docs
    BY KeysAssumption DEF Keys
  <1>3. \A d \in Docs : store'[d] = store[d]
    BY <1>1, <1>2 DEF Keys
  <1>4. RowsOK(store')
    BY <1>1, <1>2, <1>3 DEF RowsOK, TypeOK, Keys
  <1>5. missed' \in [Procs -> SUBSET Keys] /\ writes' \in 0..MaxWrites
    BY <1>1, <1>2, BoundsAssumption DEF TypeOK
  <1>6. TypeOK'
    BY <1>1, <1>4, <1>5 DEF TypeOK, RowsOK
  <1>7. SnapshotCurrent'
    <2> SUFFICES ASSUME NEW q \in open, NEW j \in Keys, j \notin missed'[q]
                 PROVE  snap[q][j] = store'[j]
      BY <1>1 DEF SnapshotCurrent
    <2>1. j # k /\ j \notin missed[q]
      BY <1>1 DEF TypeOK
    <2> QED BY <1>1, <2>1 DEF SnapshotCurrent
  <1>8. Routed' /\ UnbandedFit'
    BY <1>1, <1>3 DEF Routed, UnbandedFit, StateFitsDocstatus
  <1> QED BY <1>3, <1>6, <1>7, <1>8

LEMMA PeriodsKeep ==
    ASSUME SubmissionsInv
    PROVE  /\ \A k \in Periods \cup Years : SetClosed(k) =>
                SubmissionsInv' /\ \A d \in Docs : store'[d] = store[d]
           /\ \A k \in Periods : \A y \in Years : Relink(k, y) =>
                SubmissionsInv' /\ \A d \in Docs : store'[d] = store[d]
  <1>1. ASSUME NEW k \in Periods \cup Years, SetClosed(k)
        PROVE  SubmissionsInv' /\ \A d \in Docs : store'[d] = store[d]
    <2> DEFINE row == [store[k] EXCEPT !.closed = ~@]
    <2>1. k \in Periods => row \in PeriodRow
      BY DEF SubmissionsInv, TypeOK, RowsOK, PeriodRow
    <2>2. k \in Years => row \in YearRow
      BY DEF SubmissionsInv, TypeOK, RowsOK, YearRow
    <2> QED BY <1>1, <2>1, <2>2, RewriteKeeps DEF SetClosed
  <1>2. ASSUME NEW k \in Periods, NEW y \in Years, Relink(k, y)
        PROVE  SubmissionsInv' /\ \A d \in Docs : store'[d] = store[d]
    <2> DEFINE row == [store[k] EXCEPT !.year = y]
    <2>1. row \in PeriodRow /\ k \notin Years
      BY KeysAssumption DEF SubmissionsInv, TypeOK, RowsOK, PeriodRow
    <2> QED BY <1>2, <2>1, RewriteKeeps DEF Relink
  <1> QED BY <1>1, <1>2

LEMMA SubmissionsStep == SubmissionsInv /\ [Next]_vars => SubmissionsInv'
  <1> SUFFICES ASSUME SubmissionsInv, [Next]_vars PROVE SubmissionsInv'
    OBVIOUS
  <1>1. CASE UNCHANGED vars
    BY <1>1 DEF vars, SubmissionsInv, TypeOK, RowsOK, SnapshotCurrent, Routed,
           UnbandedFit, StateFitsDocstatus
  <1>2. ASSUME NEW p \in Procs, Step(p)
        PROVE  SubmissionsInv'
    BY <1>2, CallKeeps, BeginKeeps, ResolveKeeps, CommitKeeps, AbortKeeps DEF Step
  <1> QED BY <1>1, <1>2, CacheKeeps, PeriodsKeep DEF Next

(* A document changes only by the commit of a verb, which takes its        *)
(* process out of its transaction.                                         *)
LEMMA Lander ==
    ASSUME SubmissionsInv, [Next]_vars, NEW p \in Procs, NEW d \in Docs, Lands(p, d)
    PROVE  Commits(p)
  <1> USE DEF Lands
  <1>1. ASSUME NEW q \in Procs, Step(q)
        PROVE  Commits(p)
    <2>1. CASE q = p
      <3>1. ~(\E r \in Requests : Call(p, r)) /\ ~Begin(p) /\ ~Resolve(p) /\ ~Retry(p) /\ ~Refuse(p)
        BY AbortKeeps DEF Call, Begin, Txn!Begin, Resolve
      <3> QED BY <1>1, <2>1, <3>1 DEF Step
    <2>2. CASE q # p
      <3>1. p \in open'
        <4>1. Commits(q) => open' = open \ {q}
          BY CommitMeaning DEF Committed
        <4> QED BY <1>1, <2>2, <4>1
                DEF Step, Call, Begin, Txn!Begin, Resolve, Retry, Refuse, Txn!Abort
      <3> QED BY <3>1
    <2> QED BY <2>1, <2>2
  <1>2. ~(\E k \in Periods : Preflight(k) \/ Lapse(k))
    BY DEF Preflight, Lapse
  <1>3. /\ ~\E k \in Periods \cup Years : SetClosed(k)
        /\ ~\E k \in Periods : \E y \in Years : Relink(k, y)
    BY PeriodsKeep
  <1> QED BY <1>1, <1>2, <1>3 DEF Next, vars

-----------------------------------------------------------------------------
(* The rows, the requests and the cache keep their types, and only a call  *)
(* in progress is in a transaction.                                        *)
THEOREM SubmissionsTypeCorrect == Spec => []TypeOK
  <1>1. SubmissionsInv => TypeOK
    BY DEF SubmissionsInv
  <1> QED BY SubmissionsInit, SubmissionsStep, <1>1, PTL DEF Spec

(* Whatever workflow an entity declares, every verb and every move leaves  *)
(* a submitted document in a state of its docstatus, and a cancelled one,  *)
(* whatever state hooks have patched it into before; and a patch that does *)
(* not name the state unfits none.                                         *)
THEOREM VerbsFit == Spec => VerbsKeepFit
  <1>1. SubmissionsInv /\ [Next]_vars => [FitStep]_vars
    <2> SUFFICES ASSUME SubmissionsInv, [Next]_vars, NEW p \in Procs, NEW d \in Docs, Lands(p, d)
                 PROVE  \/ Fits(store'[d])
                        \/ req[p].verb = "patch" /\ (req[p].to = None => ~Fits(store[d]))
      BY DEF FitStep
    <2>1. Commits(p) /\ d = req[p].doc
      BY Lander DEF Lands
    <2>2. PICK row \in DocRow :
            /\ Committed(p, row)
            /\ \/ Fits(row)
               \/ req[p].verb = "patch" /\ (req[p].to = None => ~Fits(store[d]))
      BY <2>1, CommitMeaning
    <2>3. store'[d] = row
      BY <2>1, <2>2 DEF Committed, Keys
    <2> QED BY <2>2, <2>3
  <1> QED BY SubmissionsInit, SubmissionsStep, <1>1, PTL DEF Spec, VerbsKeepFit

(* So no chain of moves and verbs takes a document out of the states of    *)
(* its docstatus where hooks may not write the workflow field.             *)
THEOREM StatesFit == Spec => [](BandStates = {} => StateFitsDocstatus)
  <1>1. SubmissionsInv => (BandStates = {} => StateFitsDocstatus)
    BY DEF SubmissionsInv, UnbandedFit
  <1> QED BY SubmissionsInit, SubmissionsStep, <1>1, PTL DEF Spec

(* A closed period or year seals its documents against every transaction   *)
(* that began after the close, however stale the cache is.                 *)
THEOREM SealsHold == Spec => SealHolds
  <1>1. SubmissionsInv /\ [Next]_vars => [SealStep]_vars
    <2> SUFFICES ASSUME SubmissionsInv, [Next]_vars, NEW p \in Procs, NEW d \in Docs,
                        Lands(p, d), Seals(p)
                 PROVE  /\ store[PeriodOf(p)].closed => PeriodOf(p) \in missed[p]
                        /\ store[res[p].year].closed => res[p].year \in missed[p]
      BY DEF SealStep
    <2>1. Commits(p)
      BY Lander
    <2>2. p \in open /\ pc[p] = "resolved" /\ ~PeriodClosed(p) /\ ~YearClosed(p)
      BY <2>1, CommitMeaning DEF PeriodOpen
    <2>3. PeriodOf(p) \in Keys
      BY <2>2, MineFacts DEF SubmissionsInv, Keys
    <2>4. res[p].year \in Keys
      BY <2>2 DEF SubmissionsInv, TypeOK, PeriodRow, Keys
    <2> QED BY <2>2, <2>3, <2>4 DEF SubmissionsInv, SnapshotCurrent, PeriodClosed, YearClosed
  <1> QED BY SubmissionsInit, SubmissionsStep, <1>1, PTL DEF Spec, SealHolds

(* A save, or a move of transition(), that commits a change of the state   *)
(* follows a transition declared from the state the document is in at that *)
(* moment, and allowed to the user who asked.                              *)
THEOREM MovesDeclared == Spec => MovesAreDeclared
  <1>1. SubmissionsInv /\ [Next]_vars => [MoveStep]_vars
    <2> SUFFICES ASSUME SubmissionsInv, [Next]_vars, NEW p \in Procs, NEW d \in Docs,
                        Lands(p, d), store[d].wf # store'[d].wf,
                        req[p].verb \notin {"insert", "submit", "cancel", "patch"}
                 PROVE  MayMove(req[p].user, store[d].wf, store'[d].wf)
      BY DEF MoveStep
    <2>1. Commits(p) /\ d = req[p].doc
      BY Lander DEF Lands
    <2>2. PICK row \in DocRow :
            /\ Committed(p, row)
            /\ row.wf = store[d].wf \/ MayMove(req[p].user, store[d].wf, row.wf)
      BY <2>1, CommitMeaning
    <2>3. store'[d] = row
      BY <2>1, <2>2 DEF Committed, Keys
    <2> QED BY <2>2, <2>3
  <1> QED BY SubmissionsInit, SubmissionsStep, <1>1, PTL DEF Spec, MovesAreDeclared

-----------------------------------------------------------------------------
(* What a user does to a document who may not write it, through            *)
(* transition() and through the patches of hooks: the docstatus and the    *)
(* period stay as they are, and the workflow state goes only where a       *)
(* transition declared from the committed state leads this user, or where  *)
(* a hook's patch sets it.  What is left of an unjudged write              *)
(* (WritesAreCleared) is a stamp.                                          *)
StrangerStep ==
    \A p \in Procs : \A d \in Docs :
      Lands(p, d) /\ req[p].user \notin Writers =>
        /\ store'[d].st = store[d].st /\ store'[d].period = store[d].period
        /\ \/ store'[d].wf = store[d].wf
           \/ req[p].verb = "patch" /\ store'[d].wf \in BandStates
           \/ MayMove(req[p].user, store[d].wf, store'[d].wf)

StrangersOnlyMove == [][StrangerStep]_vars

(* Who may not write has asked for a move, or has set off a hook's patch,  *)
(* and neither names a period.                                             *)
Entitled ==
    \A p \in Procs : req[p].verb # "none" /\ req[p].user \notin Writers =>
      req[p].verb \in {"patch", "moveDraft", "movePosted"} /\ req[p].period = None

LEMMA EntitledStep ==
    ASSUME SubmissionsInv, Entitled, [Next]_vars
    PROVE  Entitled'
  <1> USE RequestFacts
  <1>1. CASE UNCHANGED vars
    BY <1>1 DEF vars, Entitled
  <1>2. ASSUME NEW p \in Procs, NEW r \in Requests, Call(p, r)
        PROVE  Entitled'
    <2>1. /\ req' = [req EXCEPT ![p] = r] /\ Loads(r)
          /\ r.verb \notin {"insert", "save"} => r.period = None
      BY <1>2 DEF Call
    <2>2. r.user \notin Writers => r.verb \in {"patch", "moveDraft", "movePosted"} /\ r.period = None
      BY <2>1 DEF Loads, PatchLoads, MoveDraftLoads, MovePostedLoads
    <2> QED BY <2>1, <2>2 DEF Entitled, SubmissionsInv, TypeOK
  <1>3. ASSUME NEW p \in Procs, Commits(p) \/ Retry(p) \/ Refuse(p)
        PROVE  Entitled'
    <2>1. req' = req \/ Return(p)
      BY <1>3, CommitMeaning DEF Retry, Refuse, Committed
    <2>2. \A q \in Procs : req'[q] = req[q] \/ req'[q].verb = "none"
      BY <2>1, ReturnTypes DEF SubmissionsInv
    <2> QED BY <2>2 DEF Entitled
  <1>4. ASSUME NEW p \in Procs, Begin(p) \/ Resolve(p)
        PROVE  req' = req
    BY <1>4 DEF Begin, Resolve
  <1>5. ASSUME NEW k \in Periods, Preflight(k) \/ Lapse(k) \/ SetClosed(k)
                                     \/ (\E y \in Years : Relink(k, y))
        PROVE  req' = req
    BY <1>5 DEF Preflight, Lapse, SetClosed, Relink, Rewrite
  <1>6. ASSUME NEW k \in Years, SetClosed(k)
        PROVE  req' = req
    BY <1>6 DEF SetClosed, Rewrite
  <1>7. req' = req => Entitled'
    BY DEF Entitled
  <1> QED BY <1>1, <1>2, <1>3, <1>4, <1>5, <1>6, <1>7 DEF Next, Step

(* A move or a patch writes the state that was asked for, a stamp and      *)
(* nothing else of what is modelled.                                       *)
LEMMA MoveMeaning ==
    ASSUME SubmissionsInv, NEW p \in Procs, Commits(p),
           req[p].verb \in {"patch", "moveDraft", "movePosted"}, req[p].period = None
    PROVE  LET d == req[p].doc
           IN  store'[d].st = store[d].st /\ store'[d].period = store[d].period
  <1> DEFINE d == req[p].doc
  <1> USE DEF SubmissionsInv
  <1>1. /\ p \in open /\ d \in Docs /\ Mine(p) \in DocRow /\ PeriodOf(p) = Mine(p).period
        /\ req[p].to \in States \cup {None}
    BY CommitMeaning, MineFacts, RequestFacts DEF PeriodOf
  <1>2. \E row : /\ CommitRow(p, row)
                 /\ row \in DocRow /\ row.st = Mine(p).st /\ row.period = Mine(p).period
    <2>1. CASE Save(p)
      <3> DEFINE row == [Mine(p) EXCEPT !.wf = IF req[p].to = None THEN @ ELSE req[p].to,
                                        !.period = PeriodOf(p)]
      <3>1. CommitRow(p, row)
        BY <2>1 DEF Save
      <3>2. row \in DocRow /\ row.st = Mine(p).st /\ row.period = Mine(p).period
        BY <1>1 DEF DocRow
      <3> QED BY <3>1, <3>2
    <2>2. CASE MovePosted(p)
      <3> DEFINE row == [Mine(p) EXCEPT !.wf = req[p].to]
      <3>1. CommitRow(p, row)
        BY <2>2 DEF MovePosted
      <3>2. row \in DocRow /\ row.st = Mine(p).st /\ row.period = Mine(p).period
        BY <1>1 DEF DocRow
      <3> QED BY <3>1, <3>2
    <2>3. CASE Patch(p)
      <3> DEFINE row == [Mine(p) EXCEPT !.wf = IF req[p].to = None THEN @ ELSE req[p].to]
      <3>1. CommitRow(p, row)
        BY <2>3 DEF Patch
      <3>2. row \in DocRow /\ row.st = Mine(p).st /\ row.period = Mine(p).period
        BY <1>1 DEF DocRow
      <3> QED BY <3>1, <3>2
    <2>4. ~Insert(p) /\ ~Submit(p) /\ ~Cancel(p)
      BY DEF Insert, Submit, Cancel, InTxn
    <2> QED BY <2>1, <2>2, <2>3, <2>4 DEF Commits
  <1>3. PICK row : /\ CommitRow(p, row)
                   /\ row \in DocRow /\ row.st = Mine(p).st /\ row.period = Mine(p).period
    BY <1>2
  <1> DEFINE r == [row EXCEPT !.by = IF Stamps THEN req[p].user ELSE None]
  <1>4. r.st = Mine(p).st /\ r.period = Mine(p).period
    BY <1>3
  <1>5. Txn!Commit(p, [k \in {d} |-> r], {})
    BY <1>3 DEF CommitRow
  <1> HIDE DEF r
  <1>6. store'[d] = r /\ d \notin missed[p]
    BY <1>1, <1>5 DEF Txn!Commit, Txn!Overlay, Txn!Written, Txn!Conflicts, TypeOK, RowsOK, Keys
  <1>7. Mine(p) = store[d]
    BY <1>1, <1>6 DEF SnapshotCurrent, Mine, Keys
  <1> QED BY <1>4, <1>6, <1>7

(* A user without the write permission changes nothing of a document but   *)
(* its state, by the transitions the committed state declares for this     *)
(* user or as a hook sets it, and the stamp of the last writer.            *)
THEOREM StrangersOnlyMoves == Spec => StrangersOnlyMove
  <1>1. Init => SubmissionsInv /\ Entitled
    BY SubmissionsInit, RequestFacts DEF Init, Entitled
  <1>2. SubmissionsInv /\ Entitled /\ [Next]_vars => SubmissionsInv' /\ Entitled'
    BY SubmissionsStep, EntitledStep
  <1>3. SubmissionsInv /\ Entitled /\ [Next]_vars => [StrangerStep]_vars
    <2> SUFFICES ASSUME SubmissionsInv, Entitled, [Next]_vars, NEW p \in Procs, NEW d \in Docs,
                        Lands(p, d), req[p].user \notin Writers
                 PROVE  /\ store'[d].st = store[d].st /\ store'[d].period = store[d].period
                        /\ \/ store'[d].wf = store[d].wf
                           \/ req[p].verb = "patch" /\ store'[d].wf \in BandStates
                           \/ MayMove(req[p].user, store[d].wf, store'[d].wf)
      BY DEF StrangerStep
    <2>1. Commits(p) /\ d = req[p].doc
      BY Lander DEF Lands
    <2>2. req[p].verb \in Verbs /\ p \in open
      BY <2>1, CommitMeaning, MineFacts, RequestFacts DEF SubmissionsInv
    <2>3. req[p].verb \in {"patch", "moveDraft", "movePosted"} /\ req[p].period = None
      BY <2>2 DEF Entitled, Verbs
    <2>4. store'[d].st = store[d].st /\ store'[d].period = store[d].period
      BY <2>1, <2>3, MoveMeaning
    <2>5. PICK row \in DocRow :
            /\ Committed(p, row)
            /\ \/ row.wf = store[d].wf
               \/ req[p].verb = "patch" /\ row.wf \in BandStates
               \/ MayMove(req[p].user, store[d].wf, row.wf)
      BY <2>1, <2>3, CommitMeaning
    <2>6. store'[d] = row
      BY <2>1, <2>2, <2>5, MineFacts DEF Committed, Keys, SubmissionsInv
    <2> QED BY <2>4, <2>5, <2>6
  <1> QED BY <1>1, <1>2, <1>3, PTL DEF Spec, StrangersOnlyMove

=============================================================================
