------------------------- MODULE DocLifecycleProofs -------------------------
(***************************************************************************)
(* Proofs about DocLifecycle, for any number of requests and documents.    *)
(***************************************************************************)
EXTENDS DocLifecycle, TLAPS

(* The type of a request a client may make.                                *)
LEMMA RequestType ==
    \A r \in Requests : r \in Request
  BY VerbsAssumption DEF Requests, Request, AllVerbs, LinkValues

(* What a commit of p that writes rows for the documents of D and touches  *)
(* the guards G does to the store and to the other transactions.           *)
Committed(p, D, rows, G) ==
    /\ store' = [x \in Docs |-> IF x \in D THEN rows[x] ELSE store[x]]
    /\ open' = open \ {p}
    /\ snap' = [snap EXCEPT ![p] = EmptyStore]
    /\ missed' = [q \in Procs |-> IF q \in open \ {p} THEN missed[q] \cup (D \cup G) ELSE {}]
    /\ D \cap missed[p] = {} /\ G \cap missed[p] = {}

(* The effect of a committed write, whatever verb makes it.                *)
LEMMA WriteType ==
    ASSUME TypeOK, NEW p \in Procs, NEW D \in SUBSET Docs, NEW rows \in [D -> Row],
           NEW G \in SUBSET {GuardKey(x) : x \in Docs},
           Txn!Commit(p, rows, G)
    PROVE  /\ Committed(p, D, rows, G)
           /\ store' \in [Docs -> Row]
           /\ snap' \in [Procs -> [Docs -> Row]]
           /\ missed' \in [Procs -> SUBSET (Docs \cup {GuardKey(x) : x \in Docs})]
  <1>1. EmptyStore \in [Docs -> Row]
    BY DEF EmptyStore, NoRow, Row, Status, LinkValues
  <1>2. DOMAIN rows = D
    OBVIOUS
  <1>3. Txn!Written(rows, G) = D \cup G
    BY <1>2 DEF Txn!Written
  <1>4. store' = [x \in Docs |-> IF x \in D THEN rows[x] ELSE store[x]]
    BY <1>2 DEF Txn!Commit, Txn!Overlay, TypeOK
  <1>5. missed' = [q \in Procs |-> IF q \in open \ {p}
                                     THEN missed[q] \cup (D \cup G) ELSE {}]
    BY <1>3 DEF Txn!Commit
  <1>6. missed' \in [Procs -> SUBSET (Docs \cup {GuardKey(x) : x \in Docs})]
    <2>1. \A q \in Procs : missed[q] \cup (D \cup G) \in SUBSET (Docs \cup {GuardKey(x) : x \in Docs})
      BY DEF TypeOK
    <2> QED BY <1>5, <2>1
  <1>7. D \cap missed[p] = {} /\ G \cap missed[p] = {}
    BY <1>3 DEF Txn!Commit, Txn!Conflicts
  <1>8. snap' \in [Procs -> [Docs -> Row]]
    BY <1>1 DEF Txn!Commit, TypeOK
  <1>9. store' \in [Docs -> Row]
    <2>1. \A x \in Docs : (IF x \in D THEN rows[x] ELSE store[x]) \in Row
      BY DEF TypeOK
    <2> QED BY <1>4, <2>1
  <1>10. open' = open \ {p} /\ snap' = [snap EXCEPT ![p] = EmptyStore]
    BY DEF Txn!Commit
  <1> QED BY <1>4, <1>5, <1>6, <1>7, <1>8, <1>9, <1>10 DEF Committed

(* The write of one row.                                                   *)
LEMMA PutType ==
    ASSUME NEW d \in Docs, NEW row \in Row
    PROVE  Put(d, row) \in [{d} -> Row] /\ Put(d, row)[d] = row
  BY DEF Put

(* The rows the verbs write are rows.                                      *)
LEMMA RowTypes ==
    ASSUME TypeOK, NEW p \in Procs
    PROVE  /\ \A l, f \in LinkValues : NewRow(l, f) \in Row
           /\ \A d \in Docs : \A s \in Status : [snap[p][d] EXCEPT !.st = s] \in Row
           /\ \A d \in Docs : \A l \in LinkValues : [snap[p][d] EXCEPT !.link = l] \in Row
           /\ \A d \in Docs : snap[p][d] \in Row
           /\ None \in LinkValues
           /\ req[p].doc \in Docs => TargetGuards(p) \in SUBSET {GuardKey(x) : x \in Docs}
  <1>1. \A d \in Docs : snap[p][d] \in Row
    BY DEF TypeOK
  <1>2. None \in LinkValues
    BY DEF LinkValues
  <1>3. \A l, f \in LinkValues : NewRow(l, f) \in Row
    BY DEF NewRow, Row, Status
  <1>4. ASSUME req[p].doc \in Docs
        PROVE  TargetGuards(p) \in SUBSET {GuardKey(x) : x \in Docs}
    BY <1>1, <1>4 DEF TargetGuards, LinkTargets, Row, LinkValues
  <1>5. \A d \in Docs : \A s \in Status : [snap[p][d] EXCEPT !.st = s] \in Row
    BY <1>1 DEF Row
  <1>6. \A d \in Docs : \A l \in LinkValues : [snap[p][d] EXCEPT !.link = l] \in Row
    BY <1>1 DEF Row
  <1> QED BY <1>1, <1>2, <1>3, <1>4, <1>5, <1>6

(* What a nested verb adds to the writes of a submit or a cancel.          *)
LEMMA NestedTypes ==
    ASSUME TypeOK, NEW p \in Procs, req[p].doc \in Docs, NEW st \in Status
    PROVE  /\ NestedDocs(p) \in SUBSET Docs
           /\ req[p].doc \notin NestedDocs(p)
           /\ WithNested(p, st) \in [{req[p].doc} \cup NestedDocs(p) -> Row]
           /\ WithNested(p, st)[req[p].doc] = [snap[p][req[p].doc] EXCEPT !.st = st]
           /\ \A e \in NestedDocs(p) : WithNested(p, st)[e] = NestedRow(p)
           /\ NestedGuards(p) \in SUBSET {GuardKey(x) : x \in Docs}
           /\ NestedEffects(p) \in [Docs -> Effects]
           /\ NestedEffects(p)[req[p].doc] = effects[req[p].doc]
  <1> DEFINE n == nested[p]
             d == req[p].doc
  <1>1. n \in Nested /\ effects \in [Docs -> Effects]
    BY DEF TypeOK
  <1>2. ASSUME n = NoNested
        PROVE  NestedDocs(p) = {} /\ NestedGuards(p) = {} /\ NestedEffects(p) = effects
    BY <1>2 DEF NestedDocs, NestedGuards, NestedEffects, NoNested
  <1>3. ASSUME n # NoNested
        PROVE  /\ n.doc \in Docs \ {d} /\ NestedDocs(p) = {n.doc}
               /\ n.kind \in {"create", "spawn", "cancel"} /\ n.link \in LinkValues
    <2>1. NestedAllowed(p, n)
      BY <1>3 DEF TypeOK
    <2>2. n.doc \in Docs \ {d} /\ n.kind \in {"create", "spawn", "cancel"}
      BY <2>1 DEF NestedAllowed, CreateAllowed, CascadeAllowed
    <2> QED BY <1>1, <2>2, NoneAssumption DEF NestedDocs, Nested
  <1>4. NestedDocs(p) \in SUBSET Docs /\ d \notin NestedDocs(p)
    BY <1>2, <1>3
  <1>5. ASSUME n # NoNested
        PROVE  NestedRow(p) \in Row
    <2>1. NewRow(n.link, None) \in Row /\ [snap[p][n.doc] EXCEPT !.st = "cancelled"] \in Row
      BY <1>3, <1>5, RowTypes DEF Status
    <2>2. [NewRow(n.link, None) EXCEPT !.st = "submitted"] \in Row
      BY <2>1 DEF Row, Status
    <2> QED BY <2>1, <2>2 DEF NestedRow
  <1>6. [snap[p][d] EXCEPT !.st = st] \in Row
    BY RowTypes
  <1>7. \A e \in NestedDocs(p) : NestedRow(p) \in Row
    BY <1>2, <1>5
  <1>8. WithNested(p, st) \in [{d} \cup NestedDocs(p) -> Row]
    BY <1>6, <1>7 DEF WithNested
  <1>9. /\ WithNested(p, st)[d] = [snap[p][d] EXCEPT !.st = st]
        /\ \A e \in NestedDocs(p) : WithNested(p, st)[e] = NestedRow(p)
    BY <1>4 DEF WithNested
  <1>10. NestedGuards(p) \in SUBSET {GuardKey(x) : x \in Docs}
    BY <1>2, <1>3 DEF NestedGuards, LinkValues
  <1>11. NestedEffects(p) \in [Docs -> Effects] /\ NestedEffects(p)[d] = effects[d]
    <2>1. CASE n = NoNested
      BY <1>1, <1>2, <2>1
    <2>2. CASE n # NoNested
      <3>1. n.doc \in Docs /\ n.doc # d /\ effects[n.doc] \in Effects
        BY <1>1, <1>3, <2>2
      <3>2. /\ [effects[n.doc] EXCEPT !.posted = @ + 1] \in Effects
            /\ [effects[n.doc] EXCEPT !.reversed = @ + 1] \in Effects
        BY <3>1 DEF Effects
      <3> QED BY <1>1, <3>1, <3>2 DEF NestedEffects
    <2> QED BY <2>1, <2>2
  <1> QED BY <1>4, <1>8, <1>9, <1>10, <1>11

(* Every commit writes rows of documents, and guards of documents.         *)
LEMMA CommitShape ==
    ASSUME TypeOK, NEW p \in Procs, Commits(p)
    PROVE  /\ p \in open
           /\ \E D \in SUBSET Docs : \E rows \in [D -> Row] :
                \E G \in SUBSET {GuardKey(x) : x \in Docs} : Txn!Commit(p, rows, G)
           /\ effects' \in [Docs -> Effects]
           /\ Return(p)
  <1> DEFINE Guards == SUBSET {GuardKey(x) : x \in Docs}
             Shape == \E D \in SUBSET Docs : \E rows \in [D -> Row] : \E G \in Guards :
                        Txn!Commit(p, rows, G)
  <1>0. p \in open
    BY DEF Commits, Insert, Update, Submit, Cancel, UpdateSubmitted, DeleteDoc, Amend, InTxn
  <1>1. /\ req[p].doc \in Docs /\ req[p].link \in LinkValues
        /\ req[p].verb = "amend" => req[p].new \in Docs
        /\ req[p].doc \in LinkValues
    BY <1>0 DEF TypeOK, Requests, LinkValues
  <1>2. {"submitted", "cancelled", "deleted"} \subseteq Status
    BY DEF Status
  <1>3. ASSUME NEW fx \in [Docs -> Effects], NEW d \in Docs
        PROVE  /\ [fx EXCEPT ![d].posted = @ + 1] \in [Docs -> Effects]
               /\ [fx EXCEPT ![d].reversed = @ + 1] \in [Docs -> Effects]
    <2>1. /\ [fx[d] EXCEPT !.posted = @ + 1] \in Effects
          /\ [fx[d] EXCEPT !.reversed = @ + 1] \in Effects
      BY DEF Effects
    <2> QED BY <2>1
  <1>4. ASSUME NEW d \in Docs, NEW row \in Row, NEW G \in Guards, Txn!Commit(p, Put(d, row), G)
        PROVE  Shape
    <2>1. {d} \in SUBSET Docs /\ Put(d, row) \in [{d} -> Row]
      BY PutType
    <2> QED BY <1>4, <2>1
  <1> HIDE DEF Shape
  <1>5. CASE Insert(p)
    <2>1. NewRow(req[p].link, None) \in Row
      BY <1>1, RowTypes
    <2>2. Shape
      BY <1>1, <1>4, <1>5, <2>1 DEF Insert
    <2> QED BY <1>0, <1>5, <2>2 DEF Insert, TypeOK, Shape
  <1>6. CASE Update(p)
    <2>1. [snap[p][req[p].doc] EXCEPT !.link = req[p].link] \in Row
      BY <1>1, RowTypes
    <2>2. Shape
      BY <1>1, <1>4, <1>6, <2>1 DEF Update
    <2> QED BY <1>0, <1>6, <2>2 DEF Update, TypeOK, Shape
  <1>7. CASE Submit(p)
    <2>1. TargetGuards(p) \cup NestedGuards(p) \in Guards
      BY <1>1, <1>2, RowTypes, NestedTypes
    <2>2. /\ {req[p].doc} \cup NestedDocs(p) \in SUBSET Docs
          /\ WithNested(p, "submitted") \in [{req[p].doc} \cup NestedDocs(p) -> Row]
          /\ NestedEffects(p) \in [Docs -> Effects]
      BY <1>1, <1>2, NestedTypes
    <2> QED BY <1>0, <1>1, <1>3, <1>7, <2>1, <2>2 DEF Submit
  <1>8. CASE Cancel(p)
    <2>1. CancelGuards(p) \cup NestedGuards(p) \in Guards
      BY <1>1, <1>2, NestedTypes DEF CancelGuards
    <2>2. /\ {req[p].doc} \cup NestedDocs(p) \in SUBSET Docs
          /\ WithNested(p, "cancelled") \in [{req[p].doc} \cup NestedDocs(p) -> Row]
          /\ NestedEffects(p) \in [Docs -> Effects]
      BY <1>1, <1>2, NestedTypes
    <2> QED BY <1>0, <1>1, <1>3, <1>8, <2>1, <2>2 DEF Cancel
  <1>9. CASE UpdateSubmitted(p)
    <2> DEFINE row == IF BandLink THEN [snap[p][req[p].doc] EXCEPT !.link = req[p].link]
                                  ELSE snap[p][req[p].doc]
    <2>1. row \in Row
      BY <1>1, RowTypes
    <2>2. Txn!Commit(p, Put(req[p].doc, row), {})
      BY <1>9 DEF UpdateSubmitted
    <2> HIDE DEF row
    <2>3. Shape
      BY <1>1, <1>4, <2>1, <2>2
    <2> QED BY <1>0, <1>9, <2>3 DEF UpdateSubmitted, TypeOK, Shape
  <1>10. CASE DeleteDoc(p)
    <2>1. [snap[p][req[p].doc] EXCEPT !.st = "deleted"] \in Row
      BY <1>1, <1>2, RowTypes
    <2>2. Shape
      BY <1>1, <1>4, <1>10, <2>1 DEF DeleteDoc, PutStatus
    <2> QED BY <1>0, <1>10, <2>2 DEF DeleteDoc, TypeOK, Shape
  <1>11. CASE Amend(p)
    <2>0. req[p].new \in Docs
      BY <1>1, <1>11 DEF Amend, InTxn
    <2>1. NewRow(req[p].link, req[p].doc) \in Row
      BY <1>1, RowTypes
    <2>2. Shape
      BY <1>4, <1>11, <2>0, <2>1 DEF Amend
    <2> QED BY <1>0, <1>11, <2>2 DEF Amend, TypeOK, Shape
  <1> QED BY <1>5, <1>6, <1>7, <1>8, <1>9, <1>10, <1>11 DEF Commits

(* What a nested verb was allowed on stays true while it waits for the     *)
(* commit: its transaction reads one snapshot, for one request.            *)
LEMMA NestedKept ==
    ASSUME NEW q \in Procs, snap'[q] = snap[q], req'[q] = req[q], nested'[q] = nested[q],
           NestedAllowed(q, nested[q])
    PROVE  NestedAllowed(q, nested[q])'
  <1>1. SubmitAllowed(q)' = SubmitAllowed(q) /\ CancelAllowed(q)' = CancelAllowed(q)
    BY DEF SubmitAllowed, CancelAllowed, LinkTargets, NoBlockers, Forwards
  <1>2. View(q)' = View(q)
    BY DEF View, OuterSt
  <1> QED BY <1>1, <1>2 DEF NestedAllowed, OuterAllowed, CreateAllowed, SpawnAllowed,
             CascadeAllowed, LinkResolves, Exists

LEMMA TypeInit == Init => TypeOK
  BY DEF Init, TypeOK, Txn!TxnInit, EmptyStore, NoRow, Row, Status, LinkValues,
         Effects, NoRequest, Request, Nested, NoNested

LEMMA TypeStep == TypeOK /\ [Next]_vars => TypeOK'
  <1> SUFFICES ASSUME TypeOK, [Next]_vars PROVE TypeOK'
    OBVIOUS
  <1> DEFINE NestedFits(q) == nested[q] # NoNested => q \in open /\ NestedAllowed(q, nested[q])
  <1>a. NoRequest \in Request /\ NoNested \in Nested /\ EmptyStore \in [Docs -> Row]
    BY DEF NoRequest, Request, LinkValues, NoNested, Nested, EmptyStore, NoRow, Row, Status
  <1>b. ASSUME NEW q \in Procs, snap'[q] = snap[q], req'[q] = req[q], nested'[q] = nested[q],
               q \in open => q \in open'
        PROVE  NestedFits(q)'
    BY <1>b, NestedKept DEF TypeOK
  <1>1. CASE UNCHANGED vars
    <2>1. \A q \in Procs : NestedFits(q)'
      BY <1>1, <1>b DEF vars
    <2> QED BY <1>1, <2>1 DEF TypeOK, vars
  <1>2. ASSUME NEW p \in Procs, NEW r \in Requests, Call(p, r)
        PROVE  TypeOK'
    <2>1. r \in Request
      BY RequestType
    <2>2. r \in Requests /\ (r.verb = "amend" => r.new \in Docs)
      BY <1>2 DEF Call, Loads, Requests, InsertLoads, UpdateLoads, SubmitLoads, CancelLoads,
                  PatchLoads, DeleteLoads, AmendLoads
    <2>3. req' \in [Procs -> Request] /\ pc' \in [Procs -> {"idle", "loaded", "checked"}]
      BY <1>2, <2>1 DEF Call, TypeOK
    <2>4. \A q \in open' : pc'[q] = "checked"
      BY <1>2 DEF Call, TypeOK
    <2>5. \A q \in Procs \ {p} : NestedFits(q)'
      BY <1>2, <1>b DEF Call, TypeOK
    <2>6. NestedFits(p)'
      <3>1. p \notin open /\ nested'[p] = nested[p]
        BY <1>2 DEF Call, TypeOK
      <3> QED BY <3>1 DEF TypeOK
    <2>7. \A q \in Procs : NestedFits(q)'
      BY <2>5, <2>6
    <2> HIDE DEF NestedFits
    <2>8. /\ store' \in [Docs -> Row] /\ open' \subseteq Procs
          /\ snap' \in [Procs -> [Docs -> Row]]
          /\ missed' \in [Procs -> SUBSET (Docs \cup {GuardKey(d) : d \in Docs})]
          /\ nested' \in [Procs -> Nested] /\ effects' \in [Docs -> Effects]
      BY <1>2 DEF Call, TypeOK
    <2>9. \A q \in Procs : pc'[q] # "idle" =>
            req'[q] \in Requests /\ (req'[q].verb = "amend" => req'[q].new \in Docs)
      BY <1>2, <2>2 DEF Call, TypeOK
    <2> QED BY <2>3, <2>4, <2>7, <2>8, <2>9 DEF TypeOK, NestedFits
  <1>3. ASSUME NEW p \in Procs, CheckBlockers(p) \/ CheckReferences(p)
        PROVE  TypeOK'
    <2>1. \A q \in Procs : NestedFits(q)'
      BY <1>3, <1>b DEF CheckBlockers, CheckReferences
    <2> QED BY <1>3, <2>1 DEF CheckBlockers, CheckReferences, TypeOK
  <1>4. ASSUME NEW p \in Procs, Begin(p)
        PROVE  TypeOK'
    <2>1. p \notin open /\ nested[p] = NoNested
      BY <1>4 DEF Begin, Txn!Begin, TypeOK
    <2>2. \A q \in Procs \ {p} : NestedFits(q)'
      BY <1>4, <1>b DEF Begin, Txn!Begin, TypeOK
    <2>3. \A q \in Procs : NestedFits(q)'
      BY <1>4, <2>1, <2>2 DEF Begin
    <2> QED BY <1>4, <2>3 DEF Begin, Txn!Begin, TypeOK
  <1>5. ASSUME NEW p \in Procs, NEW n \in Nested, Nest(p, n)
        PROVE  TypeOK'
    <2>1. nested' = [nested EXCEPT ![p] = n] /\ p \in open /\ NestedAllowed(p, n)
      BY <1>5 DEF Nest
    <2>2. UNCHANGED <<store, open, snap, missed, pc, req, effects>>
      BY <1>5 DEF Nest
    <2>3. \A q \in Procs \ {p} : NestedFits(q)'
      BY <1>b, <2>1, <2>2 DEF TypeOK
    <2>4. nested'[p] = n /\ nested' \in [Procs -> Nested]
      BY <2>1 DEF TypeOK
    <2>5. NestedAllowed(p, nested[p])'
      <3>1. SubmitAllowed(p)' = SubmitAllowed(p) /\ CancelAllowed(p)' = CancelAllowed(p)
        BY <2>2 DEF SubmitAllowed, CancelAllowed, LinkTargets, NoBlockers, Forwards
      <3>2. View(p)' = View(p)
        BY <2>2 DEF View, OuterSt
      <3> QED BY <2>1, <2>2, <2>4, <3>1, <3>2 DEF NestedAllowed, OuterAllowed, CreateAllowed,
                 SpawnAllowed, CascadeAllowed, LinkResolves, Exists
    <2>6. \A q \in Procs : NestedFits(q)'
      BY <2>1, <2>2, <2>3, <2>5
    <2> HIDE DEF NestedFits
    <2> QED BY <2>2, <2>4, <2>6 DEF TypeOK, NestedFits
  <1>6. ASSUME NEW p \in Procs, Return(p), p \notin open', open' \subseteq open,
               \A q \in open \ {p} : q \in open' /\ snap'[q] = snap[q]
        PROVE  /\ req' \in [Procs -> Request] /\ pc' \in [Procs -> {"idle", "loaded", "checked"}]
               /\ nested' \in [Procs -> Nested]
               /\ \A q \in open' : pc'[q] = "checked"
               /\ \A q \in Procs : pc'[q] # "idle" =>
                    req'[q] \in Requests /\ (req'[q].verb = "amend" => req'[q].new \in Docs)
               /\ \A q \in Procs : NestedFits(q)'
    <2>1. /\ pc' = [pc EXCEPT ![p] = "idle"] /\ req' = [req EXCEPT ![p] = NoRequest]
          /\ nested' = [nested EXCEPT ![p] = NoNested]
      BY <1>6 DEF Return
    <2>2. /\ req' \in [Procs -> Request] /\ pc' \in [Procs -> {"idle", "loaded", "checked"}]
          /\ nested' \in [Procs -> Nested]
      BY <1>a, <2>1 DEF TypeOK
    <2>3. \A q \in Procs \ {p} : pc'[q] = pc[q] /\ req'[q] = req[q] /\ nested'[q] = nested[q]
      BY <2>1 DEF TypeOK
    <2>4. pc'[p] = "idle" /\ nested'[p] = NoNested
      BY <2>1 DEF TypeOK
    <2>5. \A q \in Procs \ {p} : NestedFits(q)'
      <3> SUFFICES ASSUME NEW q \in Procs \ {p}, nested'[q] # NoNested
                   PROVE  q \in open' /\ NestedAllowed(q, nested[q])'
        OBVIOUS
      <3>1. q \in open /\ NestedAllowed(q, nested[q])
        BY <2>3 DEF TypeOK
      <3> QED BY <1>6, <2>3, <3>1, NestedKept
    <2>6. \A q \in Procs : NestedFits(q)'
      BY <2>4, <2>5
    <2>7. \A q \in open' : pc'[q] = "checked"
      BY <1>6, <2>3 DEF TypeOK
    <2>8. \A q \in Procs : pc'[q] # "idle" =>
            req'[q] \in Requests /\ (req'[q].verb = "amend" => req'[q].new \in Docs)
      BY <2>3, <2>4 DEF TypeOK
    <2> QED BY <2>2, <2>6, <2>7, <2>8
  <1>7. ASSUME NEW p \in Procs, Commits(p)
        PROVE  TypeOK'
    <2>1. PICK D \in SUBSET Docs : \E rows \in [D -> Row] :
            \E G \in SUBSET {GuardKey(x) : x \in Docs} : Txn!Commit(p, rows, G)
      BY <1>7, CommitShape
    <2>2. /\ store' \in [Docs -> Row]
          /\ open' = open \ {p}
          /\ snap' = [snap EXCEPT ![p] = EmptyStore]
          /\ snap' \in [Procs -> [Docs -> Row]]
          /\ missed' \in [Procs -> SUBSET (Docs \cup {GuardKey(x) : x \in Docs})]
      BY <2>1, WriteType DEF Committed
    <2>3. Return(p) /\ effects' \in [Docs -> Effects]
      BY <1>7, CommitShape
    <2>4. \A q \in open \ {p} : q \in open' /\ snap'[q] = snap[q]
      BY <2>2 DEF TypeOK
    <2>5. open' \subseteq Procs
      BY <2>2 DEF TypeOK
    <2> QED BY <1>6, <2>2, <2>3, <2>4, <2>5 DEF TypeOK
  <1>8. ASSUME NEW p \in Procs, Retry(p)
        PROVE  TypeOK'
    <2>1. /\ open' = open \ {p} /\ snap' = [snap EXCEPT ![p] = EmptyStore]
          /\ nested' = [nested EXCEPT ![p] = NoNested] /\ UNCHANGED <<store, pc, req, effects>>
          /\ missed' = [missed EXCEPT ![p] = {}]
      BY <1>8 DEF Retry, Txn!Abort
    <2>2. \A q \in Procs : NestedFits(q)'
      <3> SUFFICES ASSUME NEW q \in Procs, nested'[q] # NoNested
                   PROVE  q \in open' /\ NestedAllowed(q, nested[q])'
        OBVIOUS
      <3>1. q # p
        BY <2>1 DEF TypeOK
      <3>2. snap'[q] = snap[q] /\ req'[q] = req[q] /\ nested'[q] = nested[q]
        BY <2>1, <3>1 DEF TypeOK
      <3>3. q \in open /\ NestedAllowed(q, nested[q])
        BY <3>2 DEF TypeOK
      <3> QED BY <2>1, <3>1, <3>2, <3>3, NestedKept
    <2> HIDE DEF NestedFits
    <2>3. /\ snap' \in [Procs -> [Docs -> Row]] /\ nested' \in [Procs -> Nested]
          /\ missed' \in [Procs -> SUBSET (Docs \cup {GuardKey(d) : d \in Docs})]
      BY <1>a, <2>1 DEF TypeOK
    <2> QED BY <2>1, <2>2, <2>3 DEF TypeOK, NestedFits
  <1>9. ASSUME NEW p \in Procs, Refuse(p)
        PROVE  TypeOK'
    <2>1. /\ store' = store /\ effects' = effects /\ Return(p)
          /\ open' = open \ {p}
          /\ snap' \in [Procs -> [Docs -> Row]]
          /\ missed' \in [Procs -> SUBSET (Docs \cup {GuardKey(d) : d \in Docs})]
          /\ \A q \in Procs \ {p} : snap'[q] = snap[q]
      BY <1>9, <1>a DEF Refuse, Txn!Abort, TypeOK
    <2>2. /\ p \notin open' /\ open' \subseteq open
          /\ \A q \in open \ {p} : q \in open' /\ snap'[q] = snap[q]
      BY <2>1 DEF TypeOK
    <2>3. store' \in [Docs -> Row] /\ effects' \in [Docs -> Effects] /\ open' \subseteq Procs
      BY <2>1 DEF TypeOK
    <2> QED BY <1>6, <2>1, <2>2, <2>3 DEF TypeOK
  <1> QED BY <1>1, <1>2, <1>3, <1>4, <1>5, <1>7, <1>8, <1>9 DEF Next, Step

(* Every state of every execution is well typed.                           *)
THEOREM TypeCorrect == Spec => []TypeOK
  BY TypeInit, TypeStep, PTL DEF Spec

-----------------------------------------------------------------------------
(* Each commit read against the committed store: the write conflict makes  *)
(* the rows it read the rows it replaces.                                  *)

(* The five things a commit can do to the row of d.                        *)
Drafts(p, d, row) ==
    /\ store[d].st \in {"fresh", "draft"} /\ row.st = "draft" /\ effects'[d] = effects[d]
    /\ \/ row.amendedFrom \in {None, store[d].amendedFrom}
       \/ req[p].verb = "amend" /\ row.amendedFrom = req[p].doc

(* The target of a submit is guarded, and as the transaction reads it, its *)
(* own writes included, not cancelled.                                     *)
TargetHolds(p, t, rows, G) ==
    /\ GuardKey(t) \in G
    /\ IF t \in DOMAIN rows
         THEN HooksCancelTargets \/ rows[t].st # "cancelled"
         ELSE snap[p][t].st # "cancelled"

Submits(p, d, rows, G) ==
    /\ store[d].st \in {"fresh", "draft"} /\ rows[d].st = "submitted"
    /\ rows[d].amendedFrom \in {None, store[d].amendedFrom}
    /\ \A t \in {rows[d].link} \ {None} : TargetHolds(p, t, rows, G)
    /\ effects'[d] = [effects[d] EXCEPT !.posted = @ + 1]

Cancels(p, d, row, G) ==
    /\ store[d].st = "submitted"
    /\ row = [store[d] EXCEPT !.st = "cancelled"]
    /\ GuardKey(d) \in G
    /\ NoBlockers(snap[p], d) \/ (nested[p].kind = "cancel" /\ nested[p].doc = d)
    /\ effects'[d] = [effects[d] EXCEPT !.reversed = @ + 1]

Patches(d, row) ==
    /\ store[d].st = "submitted" /\ row.st = "submitted" /\ effects'[d] = effects[d]
    /\ row.amendedFrom = store[d].amendedFrom
    /\ ~BandLink => row = store[d]

Deletes(p, d, row) ==
    /\ p \in open /\ req[p].verb = "deleteDoc"
    /\ row = [store[d] EXCEPT !.st = "deleted"]
    /\ effects'[d] = effects[d]

Writes(p, d, rows, G) ==
    \/ Drafts(p, d, rows[d]) \/ Submits(p, d, rows, G) \/ Cancels(p, d, rows[d], G)
    \/ Patches(d, rows[d]) \/ Deletes(p, d, rows[d])

(* The commit of p lands: rows replaces the rows of D, G are its guards.   *)
Lands(p, D, rows, G) ==
    /\ p \in open
    /\ Committed(p, D, rows, G)
    /\ \A d \in D : Writes(p, d, rows, G)
    /\ \A x \in Docs \ D : effects'[x] = effects[x]

(* A row no one else has committed is the row the snapshot holds.          *)
LEMMA ReadIsCurrent ==
    ASSUME TypeOK, SnapshotCurrent, NEW p \in open, NEW D \in SUBSET Docs, NEW rows \in [D -> Row],
           NEW G \in SUBSET {GuardKey(x) : x \in Docs}, Txn!Commit(p, rows, G)
    PROVE  \A d \in D : snap[p][d] = store[d]
  BY WriteType DEF Committed, SnapshotCurrent, TypeOK

(* A commit of one row, once it is known what it does to it.               *)
LEMMA OneRowLands ==
    ASSUME TypeOK, NEW p \in open, NEW d \in Docs, NEW row \in Row,
           NEW G \in SUBSET {GuardKey(x) : x \in Docs},
           Txn!Commit(p, Put(d, row), G), Writes(p, d, Put(d, row), G), UNCHANGED effects
    PROVE  \E D \in SUBSET Docs : \E rows \in [D -> Row] :
             \E H \in SUBSET {GuardKey(x) : x \in Docs} : Lands(p, D, rows, H)
  <1>1. p \in Procs /\ {d} \in SUBSET Docs /\ Put(d, row) \in [{d} -> Row]
    BY PutType DEF TypeOK
  <1> DEFINE D == {d}
             rows == Put(d, row)
  <1>2. Committed(p, D, rows, G)
    <2>1. D \in SUBSET Docs /\ rows \in [D -> Row] /\ Txn!Commit(p, rows, G) /\ p \in Procs
      BY <1>1
    <2> HIDE DEF D, rows
    <2> QED BY <2>1, WriteType
  <1>3. Lands(p, {d}, Put(d, row), G)
    BY <1>2 DEF Lands
  <1> QED BY <1>1, <1>3

(* What a nested verb adds to a submit or a cancel, read like the rest.    *)
LEMMA NestedWrites ==
    ASSUME TypeOK, NEW p \in open, nested[p] # NoNested, NEW G,
           NEW rows, nested[p].doc \in DOMAIN rows, req[p].doc \in DOMAIN rows,
           DOMAIN rows \subseteq {nested[p].doc, req[p].doc},
           rows[nested[p].doc] = NestedRow(p),
           rows[req[p].doc].st = OuterSt(p),
           NestedGuards(p) \subseteq G,
           snap[p][nested[p].doc] = store[nested[p].doc],
           effects'[nested[p].doc] = NestedEffects(p)[nested[p].doc]
    PROVE  Writes(p, nested[p].doc, rows, G)
  <1> DEFINE n == nested[p]
             e == n.doc
             d == req[p].doc
  <1>1. /\ n \in Nested /\ p \in Procs /\ effects \in [Docs -> Effects]
        /\ store \in [Docs -> Row] /\ snap[p] \in [Docs -> Row]
    BY DEF TypeOK
  <1>2. NestedAllowed(p, n)
    BY DEF TypeOK
  <1>3. e \in Docs /\ e # d
    BY <1>2 DEF NestedAllowed
  <1>4. CASE n.kind = "create"
    <2>1. store[e].st = "fresh"
      BY <1>2, <1>4 DEF NestedAllowed, CreateAllowed, CascadeAllowed
    <2>2. rows[e].st = "draft" /\ rows[e].amendedFrom = None
      BY <1>4 DEF NestedRow, NewRow
    <2>3. effects'[e] = effects[e]
      BY <1>4 DEF NestedEffects
    <2> QED BY <2>1, <2>2, <2>3 DEF Writes, Drafts
  <1>5. CASE n.kind = "spawn"
    <2>1. store[e].st = "fresh" /\ (n.link # None => View(p)[n.link].st # "cancelled")
      BY <1>2, <1>5 DEF NestedAllowed, CreateAllowed, SpawnAllowed, CascadeAllowed
    <2>2. rows[e].st = "submitted" /\ rows[e].amendedFrom = None /\ rows[e].link = n.link
      BY <1>5 DEF NestedRow, NewRow
    <2>3. effects'[e] = [effects[e] EXCEPT !.posted = @ + 1]
      BY <1>1, <1>3, <1>5 DEF NestedEffects
    <2>4. ASSUME n.link # None
          PROVE  TargetHolds(p, n.link, rows, G)
      <3>1. n.link \in Docs /\ GuardKey(n.link) \in G
        BY <1>1, <1>5, <2>4 DEF Nested, LinkValues, NestedGuards
      <3>2. n.link = e => rows[e].st # "cancelled"
        BY <2>2
      <3>3. n.link = d => rows[d].st # "cancelled"
        <4>1. ASSUME n.link = d
              PROVE  rows[d].st = View(p)[d].st
          BY <1>1, <3>1, <4>1 DEF View, Row
        <4> QED BY <2>1, <2>4, <4>1
      <3>4. n.link \notin {d, e} => snap[p][n.link].st # "cancelled"
        BY <1>1, <2>1, <2>4, <3>1 DEF View
      <3> QED BY <3>1, <3>2, <3>3, <3>4 DEF TargetHolds
    <2> QED BY <2>1, <2>2, <2>3, <2>4 DEF Writes, Submits
  <1>6. CASE n.kind = "cancel"
    <2>1. snap[p][e].st = "submitted"
      BY <1>2, <1>6 DEF NestedAllowed, CreateAllowed, CascadeAllowed
    <2>2. rows[e] = [store[e] EXCEPT !.st = "cancelled"] /\ GuardKey(e) \in G
      BY <1>6 DEF NestedRow, NestedGuards
    <2>3. effects'[e] = [effects[e] EXCEPT !.reversed = @ + 1]
      BY <1>1, <1>3, <1>6 DEF NestedEffects
    <2> QED BY <1>6, <2>1, <2>2, <2>3 DEF Writes, Cancels
  <1>7. n.kind \in {"create", "spawn", "cancel"}
    BY <1>2 DEF NestedAllowed, CreateAllowed, CascadeAllowed
  <1> QED BY <1>4, <1>5, <1>6, <1>7

LEMMA CommitMeaning ==
    ASSUME TypeOK, SnapshotCurrent, NEW p \in Procs, Commits(p)
    PROVE  \E D \in SUBSET Docs : \E rows \in [D -> Row] :
             \E G \in SUBSET {GuardKey(x) : x \in Docs} : Lands(p, D, rows, G)
  <1> DEFINE Guards == SUBSET {GuardKey(x) : x \in Docs}
             Meaning == \E D \in SUBSET Docs : \E rows \in [D -> Row] : \E G \in Guards :
                          Lands(p, D, rows, G)
             d == req[p].doc
  <1> SUFFICES Meaning
    OBVIOUS
  <1>0. p \in open
    BY CommitShape
  <1>1. /\ d \in Docs /\ req[p].link \in LinkValues /\ d \in LinkValues
        /\ req[p].verb = "amend" => req[p].new \in Docs
    BY <1>0 DEF TypeOK, Requests, LinkValues
  <1>2. ASSUME NEW e \in Docs, NEW row \in Row, Txn!Commit(p, Put(e, row), {})
        PROVE  snap[p][e] = store[e] /\ Put(e, row)[e] = row
    <2>1. {e} \in SUBSET Docs /\ Put(e, row) \in [{e} -> Row] /\ Put(e, row)[e] = row
          /\ {} \in Guards
      BY PutType
    <2> QED BY <1>0, <1>2, <2>1, ReadIsCurrent
  <1>3. {"submitted", "cancelled", "deleted"} \subseteq Status
    BY DEF Status
  <1>4. \A x \in Docs : store[x] \in Row
    BY DEF TypeOK
  <1>a. ASSUME NEW e \in Docs, NEW row \in Row, Txn!Commit(p, Put(e, row), {}), UNCHANGED effects,
               Drafts(p, e, row) \/ Patches(e, row) \/ Deletes(p, e, row)
        PROVE  Meaning
    <2>1. Writes(p, e, Put(e, row), {})
      BY <1>a, <1>2 DEF Writes
    <2> QED BY <1>0, <1>a, <2>1, OneRowLands
  <1> HIDE DEF Meaning
  <1>5. CASE Insert(p)
    <2> DEFINE row == NewRow(req[p].link, None)
    <2>1. row \in Row /\ row.st = "draft" /\ row.amendedFrom = None
      BY <1>1, RowTypes DEF NewRow
    <2>2. Txn!Commit(p, Put(d, row), {}) /\ snap[p][d].st = "fresh" /\ UNCHANGED effects
      BY <1>5 DEF Insert
    <2>3. Drafts(p, d, row)
      BY <1>1, <1>2, <2>1, <2>2 DEF Drafts
    <2> HIDE DEF row
    <2> QED BY <1>1, <1>a, <2>1, <2>2, <2>3
  <1>6. CASE Update(p)
    <2> DEFINE row == [snap[p][d] EXCEPT !.link = req[p].link]
    <2>1. row \in Row
      BY <1>1, RowTypes
    <2>2. snap[p][d].st = "draft" /\ Txn!Commit(p, Put(d, row), {}) /\ UNCHANGED effects
      BY <1>6 DEF Update, EditAllowed
    <2>3. snap[p][d] = store[d]
      BY <1>1, <1>2, <2>1, <2>2
    <2>4. row.st = "draft" /\ row.amendedFrom = store[d].amendedFrom
      BY <1>1, <1>4, <2>2, <2>3 DEF Row
    <2>5. Drafts(p, d, row)
      BY <2>2, <2>3, <2>4 DEF Drafts
    <2> HIDE DEF row
    <2> QED BY <1>1, <1>a, <2>1, <2>2, <2>5
  <1>7. ASSUME NEW st \in Status, NEW G \in Guards, Txn!Commit(p, WithNested(p, st), G),
               NestedGuards(p) \subseteq G, OuterSt(p) = st,
               snap[p][d] = store[d] => Writes(p, d, WithNested(p, st), G),
               \A x \in Docs \ {d} : effects'[x] = NestedEffects(p)[x]
        PROVE  Meaning
    <2> DEFINE D == {d} \cup NestedDocs(p)
               rows == WithNested(p, st)
    <2>1. /\ D \in SUBSET Docs /\ rows \in [D -> Row] /\ d \notin NestedDocs(p)
          /\ rows[d] = [snap[p][d] EXCEPT !.st = st]
          /\ \A e \in NestedDocs(p) : rows[e] = NestedRow(p)
      BY <1>1, NestedTypes
    <2>2. \A e \in D : snap[p][e] = store[e]
      BY <1>0, <1>7, <2>1, ReadIsCurrent
    <2>3. rows[d].st = st
      BY <1>1, <2>1 DEF TypeOK, Row
    <2> HIDE DEF rows
    <2>4. ASSUME NEW e \in NestedDocs(p)
          PROVE  Writes(p, e, rows, G)
      <3>1. e = nested[p].doc /\ nested[p] # NoNested
        BY <2>4 DEF NestedDocs, NoNested
      <3>2. e \in Docs \ {d} /\ DOMAIN rows = {d, e}
        BY <2>1, <2>4, <3>1 DEF NestedDocs
      <3>3. effects'[e] = NestedEffects(p)[e] /\ rows[e] = NestedRow(p) /\ snap[p][e] = store[e]
        BY <1>7, <2>1, <2>2, <2>4, <3>2
      <3> QED BY <1>0, <1>7, <2>3, <3>1, <3>2, <3>3, NestedWrites
    <2>5. Writes(p, d, rows, G)
      BY <1>7, <2>2 DEF rows
    <2>6. \A x \in Docs \ D : effects'[x] = effects[x]
      <3> SUFFICES ASSUME NEW x \in Docs \ D PROVE NestedEffects(p)[x] = effects[x]
        BY <1>7
      <3>1. CASE nested[p] = NoNested
        BY <3>1 DEF NestedEffects, NoNested
      <3>2. CASE nested[p] # NoNested
        <4>1. NestedAllowed(p, nested[p])
          BY <3>2 DEF TypeOK
        <4>2. nested[p].doc \in Docs /\ nested[p].doc # None
          BY <4>1, NoneAssumption DEF NestedAllowed
        <4>3. x # nested[p].doc
          BY <4>2 DEF NestedDocs
        <4> QED BY <4>2, <4>3 DEF NestedEffects, TypeOK
      <3> QED BY <3>1, <3>2
    <2>7. \A e \in D : Writes(p, e, rows, G)
      BY <2>4, <2>5
    <2>8. Lands(p, D, rows, G)
      <3>1. Txn!Commit(p, rows, G)
        BY <1>7 DEF rows
      <3>2. rows \in [D -> Row] /\ D \in SUBSET Docs
        BY <2>1
      <3> HIDE DEF D
      <3>3. Committed(p, D, rows, G)
        BY <3>1, <3>2, WriteType
      <3> QED BY <1>0, <2>6, <2>7, <3>3 DEF Lands
    <2> HIDE DEF D
    <2> QED BY <2>1, <2>8 DEF Meaning
  <1>8. CASE Submit(p)
    <2> DEFINE rows == WithNested(p, "submitted")
               G == TargetGuards(p) \cup NestedGuards(p)
    <2>1. /\ G \in Guards /\ rows[d] = [snap[p][d] EXCEPT !.st = "submitted"]
          /\ {d} \cup NestedDocs(p) \in SUBSET Docs /\ rows \in [{d} \cup NestedDocs(p) -> Row]
          /\ \A e \in NestedDocs(p) : rows[e] = NestedRow(p)
          /\ NestedEffects(p) \in [Docs -> Effects] /\ NestedEffects(p)[d] = effects[d]
      BY <1>1, <1>3, RowTypes, NestedTypes
    <2>2. /\ Txn!Commit(p, rows, G) /\ SubmitAllowed(p) /\ req[p].verb = "submit"
          /\ effects' = [NestedEffects(p) EXCEPT ![d].posted = @ + 1]
      BY <1>8 DEF Submit, InTxn
    <2>3. OuterSt(p) = "submitted"
      BY <2>2 DEF OuterSt
    <2>4. /\ effects'[d] = [effects[d] EXCEPT !.posted = @ + 1]
          /\ \A x \in Docs \ {d} : effects'[x] = NestedEffects(p)[x]
      BY <1>1, <2>1, <2>2
    <2>5. rows[d].st = "submitted" /\ rows[d].link = snap[p][d].link
          /\ rows[d].amendedFrom = snap[p][d].amendedFrom
      <3>1. snap[p][d] \in Row
        BY <1>1, RowTypes
      <3> HIDE DEF rows
      <3> QED BY <2>1, <3>1 DEF Row
    <2>6. ASSUME NEW t \in {rows[d].link} \ {None}
          PROVE  TargetHolds(p, t, rows, G)
      <3>1. GuardKey(t) \in G /\ snap[p][t].st # "cancelled"
        BY <2>2, <2>5 DEF SubmitAllowed, TargetGuards, LinkTargets
      <3>2. t = d => rows[t].st # "cancelled"
        BY <2>5
      <3>3. ASSUME t \in NestedDocs(p)
            PROVE  HooksCancelTargets \/ rows[t].st # "cancelled"
        <4>1. nested[p] # NoNested /\ t = nested[p].doc
          BY <3>3 DEF NestedDocs, NoNested
        <4>2. NestedAllowed(p, nested[p])
          BY <4>1 DEF TypeOK
        <4>3. nested[p].kind # "cancel" \/ HooksCancelTargets
          BY <2>2, <2>5, <4>1, <4>2 DEF NestedAllowed, CreateAllowed, CascadeAllowed
        <4>4. nested[p].kind # "cancel" => NestedRow(p).st # "cancelled"
          BY DEF NestedRow, NewRow
        <4> QED BY <2>1, <3>3, <4>3, <4>4
      <3>4. DOMAIN rows = {d} \cup NestedDocs(p)
        BY <2>1
      <3> QED BY <3>1, <3>2, <3>3, <3>4 DEF TargetHolds
    <2>7. snap[p][d] = store[d] => Submits(p, d, rows, G)
      BY <2>2, <2>4, <2>5, <2>6 DEF Submits, SubmitAllowed
    <2> HIDE DEF rows, G
    <2>8. Txn!Commit(p, WithNested(p, "submitted"), G) /\ NestedGuards(p) \subseteq G
      BY <2>2 DEF rows, G
    <2>9. snap[p][d] = store[d] => Writes(p, d, WithNested(p, "submitted"), G)
      BY <2>7 DEF Writes, rows
    <2> QED BY <1>3, <1>7, <2>1, <2>3, <2>4, <2>8, <2>9
  <1>9. CASE Cancel(p)
    <2> DEFINE rows == WithNested(p, "cancelled")
               G == CancelGuards(p) \cup NestedGuards(p)
    <2>1. /\ G \in Guards /\ rows[d] = [snap[p][d] EXCEPT !.st = "cancelled"]
          /\ NestedEffects(p) \in [Docs -> Effects] /\ NestedEffects(p)[d] = effects[d]
      BY <1>1, <1>3, NestedTypes DEF CancelGuards
    <2>2. /\ Txn!Commit(p, rows, G) /\ CancelAllowed(p) /\ req[p].verb = "cancel"
          /\ effects' = [NestedEffects(p) EXCEPT ![d].reversed = @ + 1]
      BY <1>9 DEF Cancel, InTxn
    <2>3. OuterSt(p) = "cancelled"
      BY <2>2 DEF OuterSt
    <2>4. /\ effects'[d] = [effects[d] EXCEPT !.reversed = @ + 1]
          /\ \A x \in Docs \ {d} : effects'[x] = NestedEffects(p)[x]
      BY <1>1, <2>1, <2>2
    <2>5. GuardKey(d) \in G
      BY DEF CancelGuards
    <2>7. snap[p][d] = store[d] => Cancels(p, d, rows[d], G)
      BY <2>1, <2>2, <2>4, <2>5 DEF Cancels, CancelAllowed
    <2> HIDE DEF rows, G
    <2>8. Txn!Commit(p, WithNested(p, "cancelled"), G) /\ NestedGuards(p) \subseteq G
      BY <2>2 DEF rows, G
    <2>9. snap[p][d] = store[d] => Writes(p, d, WithNested(p, "cancelled"), G)
      BY <2>7 DEF Writes, rows
    <2> QED BY <1>3, <1>7, <2>1, <2>3, <2>4, <2>8, <2>9
  <1>10. CASE UpdateSubmitted(p)
    <2> DEFINE row == IF BandLink THEN [snap[p][d] EXCEPT !.link = req[p].link] ELSE snap[p][d]
    <2>1. row \in Row
      BY <1>1, RowTypes
    <2>2. snap[p][d].st = "submitted" /\ Txn!Commit(p, Put(d, row), {}) /\ UNCHANGED effects
      BY <1>10 DEF UpdateSubmitted
    <2>3. snap[p][d] = store[d]
      BY <1>1, <1>2, <2>1, <2>2
    <2>4. Patches(d, row)
      BY <1>1, <1>4, <2>2, <2>3 DEF Patches, Row
    <2> HIDE DEF row
    <2> QED BY <1>1, <1>a, <2>1, <2>2, <2>4
  <1>11. CASE DeleteDoc(p)
    <2> DEFINE row == [snap[p][d] EXCEPT !.st = "deleted"]
    <2>1. row \in Row
      BY <1>1, <1>3, RowTypes
    <2>2. Txn!Commit(p, Put(d, row), {}) /\ UNCHANGED effects
      BY <1>11 DEF DeleteDoc, PutStatus
    <2>3. snap[p][d] = store[d]
      BY <1>1, <1>2, <2>1, <2>2
    <2>4. Deletes(p, d, row)
      BY <1>0, <1>11, <2>2, <2>3 DEF Deletes, DeleteDoc, InTxn
    <2> HIDE DEF row
    <2> QED BY <1>1, <1>a, <2>1, <2>2, <2>4
  <1>12. CASE Amend(p)
    <2> DEFINE row == NewRow(req[p].link, d)
    <2>0. req[p].new \in Docs /\ req[p].verb = "amend"
      BY <1>1, <1>12 DEF Amend, InTxn
    <2>1. row \in Row /\ row.st = "draft" /\ row.amendedFrom = d
      BY <1>1, RowTypes DEF NewRow
    <2>2. Txn!Commit(p, Put(req[p].new, row), {}) /\ snap[p][req[p].new].st = "fresh" /\ UNCHANGED effects
      BY <1>12 DEF Amend
    <2>3. snap[p][req[p].new] = store[req[p].new]
      BY <1>2, <2>0, <2>1, <2>2
    <2>4. Drafts(p, req[p].new, row)
      BY <2>0, <2>1, <2>2, <2>3 DEF Drafts
    <2> HIDE DEF row
    <2> QED BY <1>a, <2>0, <2>1, <2>2, <2>4
  <1> QED BY <1>5, <1>6, <1>8, <1>9, <1>10, <1>11, <1>12 DEF Commits, Meaning

-----------------------------------------------------------------------------
(* Snapshots.                                                              *)

(* The steps that commit nothing.                                          *)
Quiet(p) ==
    \/ \E r \in Requests : Call(p, r)
    \/ CheckBlockers(p) \/ CheckReferences(p) \/ Begin(p) \/ Retry(p) \/ Refuse(p)
    \/ \E n \in Nested : Nest(p, n)

(* They leave the rows and the effects as they are, and at most open or    *)
(* close a transaction, or record a nested verb in it.                     *)
LEMMA QuietStep ==
    ASSUME TypeOK, NEW p \in Procs, Quiet(p)
    PROVE  /\ UNCHANGED <<store, effects>>
           /\ open' \subseteq open \cup {p}
           /\ \A q \in open' : \/ snap'[q] = snap[q] /\ missed'[q] = missed[q] /\ q \in open
                               \/ snap'[q] = store /\ missed'[q] = {}
           /\ \A q \in open' : \/ nested'[q] = nested[q] /\ (q \in open \/ nested[q] = NoNested)
                               \/ nested'[q].kind = "cancel" => NoBlockers(store, nested'[q].doc)
  <1>1. CASE \/ \E r \in Requests : Call(p, r)
             \/ CheckBlockers(p) \/ CheckReferences(p)
    BY <1>1 DEF Call, CheckBlockers, CheckReferences, TypeOK
  <1>2. CASE Begin(p)
    BY <1>2 DEF Begin, Txn!Begin, TypeOK
  <1>3. CASE Retry(p)
    BY <1>3 DEF Retry, Txn!Abort, TypeOK
  <1>4. CASE Refuse(p)
    BY <1>4 DEF Refuse, Return, Txn!Abort, TypeOK
  <1>5. ASSUME NEW n \in Nested, Nest(p, n)
        PROVE  /\ UNCHANGED <<store, effects, open, snap, missed>>
               /\ nested' = [nested EXCEPT ![p] = n]
               /\ n.kind = "cancel" => NoBlockers(store, n.doc)
    BY <1>5 DEF Nest, NestedSees
  <1>6. CASE \E n \in Nested : Nest(p, n)
    BY <1>5, <1>6 DEF TypeOK
  <1> QED BY <1>1, <1>2, <1>3, <1>4, <1>6 DEF Quiet

LEMMA SnapshotStep == TypeOK /\ SnapshotCurrent /\ [Next]_vars => SnapshotCurrent'
  <1> SUFFICES ASSUME TypeOK, SnapshotCurrent, [Next]_vars PROVE SnapshotCurrent'
    OBVIOUS
  <1>1. CASE UNCHANGED vars
    BY <1>1 DEF SnapshotCurrent, vars
  <1>2. ASSUME NEW p \in Procs, Quiet(p)
        PROVE  SnapshotCurrent'
    BY <1>2, QuietStep DEF SnapshotCurrent
  <1>3. ASSUME NEW p \in Procs, Commits(p)
        PROVE  SnapshotCurrent'
    <2>0. PICK D \in SUBSET Docs : \E rows \in [D -> Row] :
            \E G \in SUBSET {GuardKey(x) : x \in Docs} : Lands(p, D, rows, G)
      BY <1>3, CommitMeaning
    <2>1. PICK rows \in [D -> Row], G \in SUBSET {GuardKey(x) : x \in Docs} :
            Lands(p, D, rows, G)
      BY <2>0
    <2>2. \A q \in open' : q \in open /\ snap'[q] = snap[q] /\ D \subseteq missed'[q]
                          /\ missed[q] \subseteq missed'[q]
      BY <2>1 DEF Lands, Committed, TypeOK
    <2>3. \A x \in Docs \ D : store'[x] = store[x]
      BY <2>1 DEF Lands, Committed
    <2> QED BY <2>2, <2>3 DEF SnapshotCurrent
  <1> QED BY <1>1, <1>2, <1>3 DEF Next, Step, Quiet

-----------------------------------------------------------------------------
(* Forward immutability.                                                   *)

(* The inductive invariant.  ForwardImmutability alone is not inductive:   *)
(* that a submit or a cancel may commit depends on what its snapshot says  *)
(* of other rows, and GuardSoundness is what makes that say something of   *)
(* the committed ones.                                                     *)
ForwardInv == TypeOK /\ SnapshotCurrent /\ GuardSoundness /\ ForwardImmutability

LEMMA ForwardInit == Init => ForwardInv
  <1> SUFFICES ASSUME Init PROVE ForwardInv
    OBVIOUS
  <1>1. open = {} /\ \A d \in Docs : store[d].st = "fresh"
    BY DEF Init, Txn!TxnInit, EmptyStore, NoRow
  <1> QED BY <1>1, TypeInit DEF ForwardInv, SnapshotCurrent, GuardSoundness, ForwardImmutability, Forwards

LEMMA ForwardStep ==
    ASSUME ~BandLink, ~HooksCancelTargets, ForwardInv, [Next]_vars
    PROVE  ForwardInv'
  <1> USE DEF ForwardInv
  <1>0. TypeOK' /\ SnapshotCurrent'
    BY TypeStep, SnapshotStep
  <1>1. CASE UNCHANGED vars
    BY <1>0, <1>1 DEF GuardSoundness, ForwardImmutability, Forwards, vars
  <1>2. ASSUME NEW p \in Procs, Quiet(p)
        PROVE  ForwardInv'
    <2>1. UNCHANGED store
      BY <1>2, QuietStep
    <2>2. GuardSoundness'
      <3> SUFFICES ASSUME NEW q \in open', NEW x \in Docs, GuardKey(x) \notin missed'[q]
                   PROVE  /\ store[x].st = "cancelled" => snap'[q][x].st = "cancelled"
                          /\ \A a \in Docs : Forwards(store, a, x) => Forwards(snap'[q], a, x)
                          /\ nested'[q].kind = "cancel" /\ nested'[q].doc = x => NoBlockers(store, x)
        BY <2>1 DEF GuardSoundness
      <3>1. \/ snap'[q] = snap[q] /\ missed'[q] = missed[q] /\ q \in open
            \/ snap'[q] = store
        BY <1>2, QuietStep
      <3>2. \/ nested'[q] = nested[q] /\ (q \in open \/ nested[q] = NoNested)
            \/ nested'[q].kind = "cancel" => NoBlockers(store, nested'[q].doc)
        BY <1>2, QuietStep
      <3>3. q \in open => missed'[q] = missed[q]
        <4>1. q \in open => ~Begin(q)
          BY DEF Begin, Txn!Begin
        <4> QED BY <1>2, <4>1 DEF Quiet, Call, CheckBlockers, CheckReferences, Begin, Txn!Begin,
                   Retry, Refuse, Txn!Abort, Nest, TypeOK
      <3>4. nested'[q].kind = "cancel" /\ nested'[q].doc = x => NoBlockers(store, x)
        BY <3>2, <3>3 DEF GuardSoundness, NoNested
      <3> QED BY <3>1, <3>4 DEF GuardSoundness
    <2>3. ForwardImmutability'
      BY <2>1 DEF ForwardImmutability, Forwards
    <2> QED BY <1>0, <2>2, <2>3
  <1>3. ASSUME NEW p \in Procs, Commits(p)
        PROVE  ForwardInv'
    <2>0. PICK D \in SUBSET Docs : \E rows \in [D -> Row] :
            \E G \in SUBSET {GuardKey(x) : x \in Docs} : Lands(p, D, rows, G)
      BY <1>3, CommitMeaning
    <2>1. PICK rows \in [D -> Row], G \in SUBSET {GuardKey(x) : x \in Docs} :
            Lands(p, D, rows, G)
      BY <2>0
    <2>2. \A x \in Docs : store'[x] = IF x \in D THEN rows[x] ELSE store[x]
      BY <2>1 DEF Lands, Committed
    <2>3. \A a, x \in Docs :
            Forwards(store', a, x) => \/ Forwards(store, a, x)
                                      \/ a \in D /\ TargetHolds(p, x, rows, G)
      <3> SUFFICES ASSUME NEW a \in Docs, NEW x \in Docs, Forwards(store', a, x), a \in D,
                          ~Forwards(store, a, x)
                   PROVE  TargetHolds(p, x, rows, G)
        BY <2>2 DEF Forwards
      <3>1. rows[a].st = "submitted" /\ rows[a].link = x /\ Writes(p, a, rows, G)
        BY <2>1, <2>2 DEF Forwards, Lands
      <3>2. Submits(p, a, rows, G)
        <4>1. store[a] \in Row
          BY DEF TypeOK
        <4>2. Deletes(p, a, rows[a]) => rows[a].st = "deleted"
          BY <4>1 DEF Deletes, Row
        <4>3. Cancels(p, a, rows[a], G) => rows[a].st = "cancelled"
          BY <4>1 DEF Cancels, Row
        <4> QED BY <3>1, <4>2, <4>3 DEF Writes, Drafts, Patches, Forwards
      <3> QED BY <3>1, <3>2, NoneAssumption DEF Submits
    <2>4. \A x \in Docs :
            store'[x].st = "cancelled" =>
              IF x \in D THEN Cancels(p, x, rows[x], G) ELSE store[x].st = "cancelled"
      <3> SUFFICES ASSUME NEW x \in D, rows[x].st = "cancelled"
                   PROVE  Cancels(p, x, rows[x], G)
        BY <2>2
      <3>1. Writes(p, x, rows, G) /\ store[x] \in Row
        BY <2>1 DEF Lands, TypeOK
      <3>2. ~Deletes(p, x, rows[x])
        BY <3>1 DEF Deletes, Row
      <3> QED BY <3>1, <3>2 DEF Writes, Drafts, Submits, Patches
    <2>5. \A x \in Docs : GuardKey(x) \in G =>
            /\ store[x].st = "cancelled" => snap[p][x].st = "cancelled"
            /\ Cancels(p, x, rows[x], G) => NoBlockers(store, x)
      BY <2>1 DEF Lands, Committed, GuardSoundness, Cancels, NoBlockers
    <2>6. GuardSoundness'
      <3> SUFFICES ASSUME NEW q \in open', NEW x \in Docs, GuardKey(x) \notin missed'[q]
                   PROVE  /\ store'[x].st = "cancelled" => snap'[q][x].st = "cancelled"
                          /\ \A a \in Docs : Forwards(store', a, x) => Forwards(snap'[q], a, x)
                          /\ nested'[q].kind = "cancel" /\ nested'[q].doc = x => NoBlockers(store', x)
        BY DEF GuardSoundness
      <3>1. /\ q \in open /\ q # p /\ snap'[q] = snap[q]
            /\ GuardKey(x) \notin missed[q] /\ GuardKey(x) \notin G
        BY <2>1 DEF Lands, Committed, TypeOK
      <3>2. nested'[q] = nested[q]
        BY <1>3, <3>1, CommitShape DEF Return, TypeOK
      <3>3. /\ store[x].st = "cancelled" => snap[q][x].st = "cancelled"
            /\ \A a \in Docs : Forwards(store, a, x) => Forwards(snap[q], a, x)
            /\ nested[q].kind = "cancel" /\ nested[q].doc = x => NoBlockers(store, x)
        BY <3>1 DEF GuardSoundness
      <3>4. store'[x].st = "cancelled" => store[x].st = "cancelled"
        BY <2>4, <3>1 DEF Cancels
      <3>5. \A a \in Docs : Forwards(store', a, x) => Forwards(store, a, x)
        BY <2>3, <3>1 DEF TargetHolds
      <3>6. NoBlockers(store, x) => NoBlockers(store', x)
        BY <3>5 DEF NoBlockers
      <3> QED BY <3>1, <3>2, <3>3, <3>4, <3>5, <3>6
    <2>7. ForwardImmutability'
      <3> SUFFICES ASSUME NEW a \in Docs, NEW x \in Docs, Forwards(store', a, x),
                          store'[x].st = "cancelled"
                   PROVE  FALSE
        BY DEF ForwardImmutability, Forwards
      <3>1. DOMAIN rows = D
        OBVIOUS
      <3>2. CASE x \in D
        <4>1. Cancels(p, x, rows[x], G) /\ rows[x].st = "cancelled"
          BY <2>2, <2>4, <3>2
        <4>2. ~Forwards(store, a, x)
          BY <2>5, <4>1 DEF Cancels, NoBlockers
        <4>3. TargetHolds(p, x, rows, G)
          BY <2>3, <4>2
        <4> QED BY <3>1, <3>2, <4>1, <4>3 DEF TargetHolds
      <3>3. CASE x \notin D
        <4>1. store[x].st = "cancelled"
          BY <2>4, <3>3
        <4>2. ~Forwards(store, a, x)
          BY <4>1 DEF ForwardImmutability
        <4>3. TargetHolds(p, x, rows, G)
          BY <2>3, <4>2
        <4> QED BY <2>5, <3>1, <3>3, <4>1, <4>3 DEF TargetHolds
      <3> QED BY <3>2, <3>3
    <2> QED BY <1>0, <2>6, <2>7
  <1> QED BY <1>1, <1>2, <1>3 DEF Next, Step, Quiet

(* No submitted document ever names a cancelled one, for any number of     *)
(* concurrent requests, as long as the Link is outside the band.           *)
THEOREM ForwardImmutabilityHolds ==
    ASSUME ~BandLink, ~HooksCancelTargets
    PROVE  Spec => []ForwardImmutability
  <1>1. Init => ForwardInv
    BY ForwardInit
  <1>2. ForwardInv /\ [Next]_vars => ForwardInv'
    BY ForwardStep
  <1>3. ForwardInv => ForwardImmutability
    BY DEF ForwardInv
  <1> QED BY <1>1, <1>2, <1>3, PTL DEF Spec

(* The guards do what they are for, for any number of concurrent requests: *)
(* an open transaction that nobody has overtaken on the guard of d reads   *)
(* the truth about d and about what has been submitted onto it.            *)
THEOREM GuardsAreSound ==
    ASSUME ~BandLink, ~HooksCancelTargets
    PROVE  Spec => []GuardSoundness
  <1>1. Init => ForwardInv
    BY ForwardInit
  <1>2. ForwardInv /\ [Next]_vars => ForwardInv'
    BY ForwardStep
  <1>3. ForwardInv => GuardSoundness
    BY DEF ForwardInv
  <1> QED BY <1>1, <1>2, <1>3, PTL DEF Spec

-----------------------------------------------------------------------------
(* Effects once, and the frozen core.                                      *)

EffectsInv == TypeOK /\ SnapshotCurrent /\ EffectsOnce

LEMMA EffectsInit == Init => EffectsInv
  <1> SUFFICES ASSUME Init PROVE EffectsInv
    OBVIOUS
  <1>1. open = {} /\ \A d \in Docs : store[d].st = "fresh"
    BY DEF Init, Txn!TxnInit, EmptyStore, NoRow
  <1>2. \A d \in Docs : effects[d] = [posted |-> 0, reversed |-> 0]
    BY DEF Init
  <1> QED BY <1>1, <1>2, TypeInit DEF EffectsInv, SnapshotCurrent, EffectsOnce

LEMMA EffectsStep == EffectsInv /\ [Next]_vars => EffectsInv'
  <1> SUFFICES ASSUME EffectsInv, [Next]_vars PROVE EffectsInv'
    OBVIOUS
  <1> USE DEF EffectsInv
  <1>0. TypeOK' /\ SnapshotCurrent'
    BY TypeStep, SnapshotStep
  <1>1. CASE UNCHANGED vars
    BY <1>0, <1>1 DEF EffectsOnce, vars
  <1>2. ASSUME NEW p \in Procs, Quiet(p)
        PROVE  EffectsInv'
    BY <1>0, <1>2, QuietStep DEF EffectsOnce
  <1>3. ASSUME NEW p \in Procs, Commits(p)
        PROVE  EffectsInv'
    <2>0. PICK D \in SUBSET Docs : \E rows \in [D -> Row] :
            \E G \in SUBSET {GuardKey(x) : x \in Docs} : Lands(p, D, rows, G)
      BY <1>3, CommitMeaning
    <2>1. PICK rows \in [D -> Row], G \in SUBSET {GuardKey(x) : x \in Docs} :
            Lands(p, D, rows, G)
      BY <2>0
    <2>2. \A x \in Docs : store'[x] = IF x \in D THEN rows[x] ELSE store[x]
      BY <2>1 DEF Lands, Committed
    <2>3. \A x \in Docs : store[x] \in Row /\ effects[x] \in Effects
      BY DEF TypeOK
    <2> DEFINE OnceAt(x) ==
                 /\ store'[x].st \in {"fresh", "draft"} => effects'[x] = [posted |-> 0, reversed |-> 0]
                 /\ store'[x].st = "submitted" => effects'[x] = [posted |-> 1, reversed |-> 0]
                 /\ store'[x].st = "cancelled" => effects'[x] = [posted |-> 1, reversed |-> 1]
    <2>4. ASSUME NEW x \in Docs \ D
          PROVE  OnceAt(x)
      BY <2>1, <2>2 DEF Lands, EffectsOnce
    <2>5. ASSUME NEW x \in D
          PROVE  OnceAt(x)
      <3>1. Writes(p, x, rows, G) /\ store'[x] = rows[x] /\ x \in Docs
        BY <2>1, <2>2 DEF Lands
      <3>2. CASE Drafts(p, x, rows[x]) \/ Patches(x, rows[x]) \/ Deletes(p, x, rows[x])
        <4>1. \/ rows[x].st = "deleted"
              \/ store[x].st \in {"fresh", "draft"} /\ rows[x].st = "draft"
              \/ store[x].st = "submitted" /\ rows[x].st = "submitted"
          BY <2>3, <3>1, <3>2 DEF Drafts, Patches, Deletes, Row
        <4>2. effects'[x] = effects[x]
          BY <3>2 DEF Drafts, Patches, Deletes
        <4> QED BY <3>1, <4>1, <4>2 DEF EffectsOnce
      <3>3. CASE Submits(p, x, rows, G)
        <4>1. effects[x] = [posted |-> 0, reversed |-> 0]
          BY <3>1, <3>3 DEF Submits, EffectsOnce
        <4>2. effects'[x] = [posted |-> 1, reversed |-> 0]
          BY <3>3, <4>1 DEF Submits
        <4> QED BY <3>1, <3>3, <4>2 DEF Submits
      <3>4. CASE Cancels(p, x, rows[x], G)
        <4>1. effects[x] = [posted |-> 1, reversed |-> 0]
          BY <3>1, <3>4 DEF Cancels, EffectsOnce
        <4>2. effects'[x] = [posted |-> 1, reversed |-> 1]
          BY <3>4, <4>1 DEF Cancels
        <4>3. rows[x].st = "cancelled"
          BY <2>3, <3>1, <3>4 DEF Cancels, Row
        <4> QED BY <3>1, <4>2, <4>3
      <3> QED BY <3>1, <3>2, <3>3, <3>4 DEF Writes
    <2>6. \A x \in Docs : OnceAt(x)
      BY <2>4, <2>5
    <2> QED BY <1>0, <2>6 DEF EffectsOnce
  <1> QED BY <1>1, <1>2, <1>3 DEF Next, Step, Quiet

(* on_submit and on_cancel of a document each take effect once, whatever   *)
(* raced or was rerun, with or without deletes and a Link in the band.     *)
THEOREM EffectsOnceHolds == Spec => []EffectsOnce
  <1>1. EffectsInv => EffectsOnce
    BY DEF EffectsInv
  <1> QED BY EffectsInit, EffectsStep, <1>1, PTL DEF Spec

LEMMA FrozenStep ==
    ASSUME ~BandLink, TypeOK, SnapshotCurrent, [Next]_vars
    PROVE  [FrozenCoreStep]_vars
  <1>1. CASE UNCHANGED vars
    BY <1>1
  <1>2. ASSUME NEW p \in Procs, Quiet(p)
        PROVE  FrozenCoreStep
    BY <1>2, QuietStep DEF FrozenCoreStep
  <1>3. ASSUME NEW p \in Procs, Commits(p)
        PROVE  FrozenCoreStep
    <2>0. PICK D \in SUBSET Docs : \E rows \in [D -> Row] :
            \E G \in SUBSET {GuardKey(x) : x \in Docs} : Lands(p, D, rows, G)
      BY <1>3, CommitMeaning
    <2>1. PICK rows \in [D -> Row], G \in SUBSET {GuardKey(x) : x \in Docs} :
            Lands(p, D, rows, G)
      BY <2>0
    <2>2. \A x \in Docs : store'[x] = (IF x \in D THEN rows[x] ELSE store[x]) /\ store[x] \in Row
      BY <2>1 DEF Lands, Committed, TypeOK
    <2>3. \A x \in D : Writes(p, x, rows, G)
      BY <2>1 DEF Lands
    <2>4. ASSUME NEW x \in D
          PROVE  /\ store[x].st # rows[x].st =>
                      \/ rows[x].st = "deleted"
                      \/ <<store[x].st, rows[x].st>> \in
                           {<<"fresh", "draft">>, <<"fresh", "submitted">>,
                            <<"draft", "submitted">>, <<"submitted", "cancelled">>}
                 /\ store[x].st \in {"submitted", "cancelled"} =>
                      rows[x].link = store[x].link /\ rows[x].amendedFrom = store[x].amendedFrom
      <3>1. store[x] \in Row /\ Writes(p, x, rows, G)
        BY <2>2, <2>3
      <3> QED BY <3>1 DEF Writes, Drafts, Submits, Cancels, Patches, Deletes, Row
    <2> QED BY <2>2, <2>4 DEF FrozenCoreStep
  <1> QED BY <1>1, <1>2, <1>3 DEF Next, Step, Quiet

(* No step changes a docstatus but forward, nor the core of a submitted or *)
(* cancelled document.                                                     *)
THEOREM FrozenCoreHolds ==
    ASSUME ~BandLink
    PROVE  Spec => FrozenCore
  <1>1. Init => EffectsInv
    BY EffectsInit
  <1>2. EffectsInv /\ [Next]_vars => EffectsInv'
    BY EffectsStep
  <1>3. EffectsInv /\ [Next]_vars => [FrozenCoreStep]_vars
    BY FrozenStep DEF EffectsInv
  <1> QED BY <1>1, <1>2, <1>3, PTL DEF Spec, FrozenCore

LEMMA CancelStepHolds ==
    ASSUME ForwardInv, [Next]_vars
    PROVE  [CancelStep]_vars
  <1> USE DEF ForwardInv
  <1>1. CASE UNCHANGED vars
    BY <1>1
  <1>2. ASSUME NEW p \in Procs, Quiet(p)
        PROVE  CancelStep
    BY <1>2, QuietStep DEF CancelStep
  <1>3. ASSUME NEW p \in Procs, Commits(p)
        PROVE  CancelStep
    <2>0. PICK D \in SUBSET Docs : \E rows \in [D -> Row] :
            \E G \in SUBSET {GuardKey(x) : x \in Docs} : Lands(p, D, rows, G)
      BY <1>3, CommitMeaning
    <2>1. PICK rows \in [D -> Row], G \in SUBSET {GuardKey(x) : x \in Docs} :
            Lands(p, D, rows, G)
      BY <2>0
    <2>2. \A x \in Docs : store'[x] = (IF x \in D THEN rows[x] ELSE store[x]) /\ store[x] \in Row
      BY <2>1 DEF Lands, Committed, TypeOK
    <2>3. ASSUME NEW x \in Docs, store[x].st = "submitted", store'[x].st = "cancelled"
          PROVE  NoBlockers(store, x)
      <3>1. x \in D /\ Writes(p, x, rows, G) /\ rows[x].st = "cancelled"
        BY <2>1, <2>2, <2>3 DEF Lands
      <3>2. Cancels(p, x, rows[x], G)
        BY <2>2, <3>1 DEF Writes, Drafts, Submits, Patches, Deletes, Row
      <3>3. p \in open /\ GuardKey(x) \notin missed[p]
        BY <2>1, <3>2 DEF Lands, Committed, Cancels
      <3> QED BY <3>2, <3>3 DEF Cancels, GuardSoundness, NoBlockers
    <2> QED BY <2>3 DEF CancelStep
  <1> QED BY <1>1, <1>2, <1>3 DEF Next, Step, Quiet

(* A cancel commits only while no committed submitted document names its   *)
(* document: the race with a concurrent submit is closed.                  *)
THEOREM CancelNotForwardedHolds ==
    ASSUME ~BandLink, ~HooksCancelTargets
    PROVE  Spec => CancelNotForwarded
  <1>1. Init => ForwardInv
    BY ForwardInit
  <1>2. ForwardInv /\ [Next]_vars => ForwardInv'
    BY ForwardStep
  <1>3. ForwardInv /\ [Next]_vars => [CancelStep]_vars
    BY CancelStepHolds
  <1> QED BY <1>1, <1>2, <1>3, PTL DEF Spec, CancelNotForwarded

-----------------------------------------------------------------------------
(* Amendments.                                                             *)

(* A request keeps what it was called with until it returns.               *)
LEMMA RequestStep ==
    ASSUME TypeOK, [Next]_vars, NEW q \in Procs, req'[q].verb = "amend"
    PROVE  req'[q] = req[q] \/ (req'[q].doc \in Docs /\ store[req'[q].doc].st = "cancelled")
  <1>1. CASE UNCHANGED vars
    BY <1>1 DEF vars
  <1>2. ASSUME NEW p \in Procs, NEW r \in Requests, Call(p, r)
        PROVE  req'[q] = req[q] \/ (req'[q].doc \in Docs /\ store[req'[q].doc].st = "cancelled")
    BY <1>2 DEF Requests, Call, Loads, InsertLoads, UpdateLoads, SubmitLoads, CancelLoads, PatchLoads,
                DeleteLoads, AmendLoads, TypeOK
  <1>3. ASSUME NEW p \in Procs,
               \/ CheckBlockers(p) \/ CheckReferences(p) \/ Begin(p) \/ Retry(p)
               \/ \E n \in Nested : Nest(p, n)
        PROVE  req'[q] = req[q]
    BY <1>3 DEF CheckBlockers, CheckReferences, Begin, Retry, Nest
  <1>4. ASSUME NEW p \in Procs, Commits(p) \/ Refuse(p)
        PROVE  req'[q] = req[q]
    <2>1. Return(p)
      BY <1>4, CommitShape DEF Refuse
    <2> QED BY <2>1 DEF Return, NoRequest, TypeOK
  <1> QED BY <1>1, <1>2, <1>3, <1>4 DEF Next, Step, Quiet

(* An amendment under way is one of a document that was cancelled, and a   *)
(* cancelled document is only ever removed.                                *)
AmendInv ==
    /\ TypeOK
    /\ SnapshotCurrent
    /\ AmendPending
    /\ AmendsTheCancelled
    /\ \A p \in Procs : req[p].verb = "amend" => req[p].doc \in Docs

LEMMA AmendInit == Init => AmendInv
  <1> SUFFICES ASSUME Init PROVE AmendInv
    OBVIOUS
  <1>1. /\ open = {} /\ \A p \in Procs : req[p].verb = "none"
        /\ \A d \in Docs : store[d].amendedFrom = None
    BY DEF Init, Txn!TxnInit, EmptyStore, NoRow, NoRequest
  <1> QED BY <1>1, TypeInit DEF AmendInv, SnapshotCurrent, AmendPending, AmendsTheCancelled

LEMMA AmendStep == AmendInv /\ [Next]_vars => AmendInv'
  <1> SUFFICES ASSUME AmendInv, [Next]_vars PROVE AmendInv'
    OBVIOUS
  <1> USE DEF AmendInv
  <1> DEFINE Gone == {"cancelled", "deleted"}
             StaysGone == \A d \in Docs : store[d].st \in Gone => store'[d].st \in Gone
             KnownSource ==
               \A d \in Docs : store'[d].amendedFrom # None =>
                 \/ \E x \in Docs : store'[d].amendedFrom = store[x].amendedFrom
                 \/ \E p \in Procs : req[p].verb = "amend" /\ store'[d].amendedFrom = req[p].doc
  <1>0. TypeOK' /\ SnapshotCurrent'
    BY TypeStep, SnapshotStep
  <1>1. StaysGone /\ KnownSource
    <2>1. CASE UNCHANGED store
      BY <2>1
    <2>2. ASSUME NEW p \in Procs, Commits(p)
          PROVE  StaysGone /\ KnownSource
      <3>0. PICK D \in SUBSET Docs : \E rows \in [D -> Row] :
              \E G \in SUBSET {GuardKey(x) : x \in Docs} : Lands(p, D, rows, G)
        BY <2>2, CommitMeaning
      <3>1. PICK rows \in [D -> Row], G \in SUBSET {GuardKey(x) : x \in Docs} :
              Lands(p, D, rows, G)
        BY <3>0
      <3>2. \A x \in Docs : store'[x] = (IF x \in D THEN rows[x] ELSE store[x]) /\ store[x] \in Row
        BY <3>1 DEF Lands, Committed, TypeOK
      <3>3. ASSUME NEW x \in D
            PROVE  /\ store[x].st \in Gone => rows[x].st \in Gone
                   /\ \/ rows[x].amendedFrom \in {None, store[x].amendedFrom}
                      \/ req[p].verb = "amend" /\ rows[x].amendedFrom = req[p].doc
        <4>1. Writes(p, x, rows, G) /\ store[x] \in Row
          BY <3>1, <3>2 DEF Lands
        <4> QED BY <4>1 DEF Writes, Drafts, Submits, Cancels, Patches, Deletes, Row
      <3> QED BY <3>2, <3>3
    <2> QED BY <2>1, <2>2, QuietStep DEF Next, Step, Quiet, vars
  <1>2. AmendPending'
    <2> SUFFICES ASSUME NEW q \in Procs, req'[q].verb = "amend"
                 PROVE  store'[req'[q].doc].st \in Gone
      BY DEF AmendPending
    <2>1. req'[q].doc \in Docs /\ store[req'[q].doc].st \in Gone
      BY RequestStep DEF AmendPending
    <2> QED BY <1>1, <2>1
  <1>3. AmendsTheCancelled'
    <2> SUFFICES ASSUME NEW d \in Docs, store'[d].amendedFrom # None
                 PROVE  store'[store'[d].amendedFrom].st \in Gone
      BY DEF AmendsTheCancelled
    <2>1. store'[d].amendedFrom \in Docs
      BY <1>0 DEF TypeOK, Row, LinkValues
    <2>2. store[store'[d].amendedFrom].st \in Gone
      BY <1>1, <2>1 DEF AmendsTheCancelled, AmendPending
    <2> QED BY <1>1, <2>1, <2>2
  <1>4. \A q \in Procs : req'[q].verb = "amend" => req'[q].doc \in Docs
    BY RequestStep
  <1> QED BY <1>0, <1>2, <1>3, <1>4

(* amended_from names a document that was cancelled, with or without       *)
(* deletes and a Link in the band: prepareAmend judges its source before   *)
(* the transaction, and no verb brings a cancelled document back.          *)
THEOREM AmendsTheCancelledHolds == Spec => []AmendsTheCancelled
  <1>1. AmendInv => AmendsTheCancelled
    BY DEF AmendInv
  <1> QED BY AmendInit, AmendStep, <1>1, PTL DEF Spec

-----------------------------------------------------------------------------
(***************************************************************************)
(* DocLifecycle implements AtomicDocs: the interleaved, rerun, snapshot-   *)
(* isolated calls are some serial execution of the atomic verbs.           *)
(***************************************************************************)

(* What a pending amendment carries is still what its source holds, or     *)
(* held when it was removed.                                               *)
AmendCarries ==
    \A p \in Procs : req[p].verb = "amend" =>
      /\ req[p].doc \in Docs
      /\ store[req[p].doc].st \in {"cancelled", "deleted"}
      /\ req[p].link = store[req[p].doc].link

(* A document an open snapshot holds was created, and is not forgotten.    *)
SnapshotPast ==
    \A p \in open : \A d \in Docs : Exists(snap[p], d) => store[d].st # "fresh"

(* A pending delete names a document that was created.                     *)
DeleteKnown ==
    \A p \in Procs : req[p].verb = "deleteDoc" =>
      req[p].doc \in Docs /\ store[req[p].doc].st # "fresh"

RefineInv == ForwardInv /\ AmendCarries /\ SnapshotPast /\ DeleteKnown

LEMMA RefineInit == Init => RefineInv
  <1> SUFFICES ASSUME Init PROVE RefineInv
    OBVIOUS
  <1>1. open = {} /\ \A p \in Procs : req[p].verb = "none"
    BY DEF Init, Txn!TxnInit, NoRequest
  <1> QED BY <1>1, ForwardInit DEF RefineInv, AmendCarries, SnapshotPast, DeleteKnown

LEMMA RefineStep ==
    ASSUME ~BandLink, ~HooksCancelTargets, RefineInv, [Next]_vars
    PROVE  RefineInv'
  <1>0. ForwardInv'
    BY ForwardStep DEF RefineInv
  <1> USE DEF RefineInv, ForwardInv
  <1>1. CASE UNCHANGED vars
    BY <1>0, <1>1 DEF AmendCarries, SnapshotPast, DeleteKnown, Exists, vars
  <1>2. ASSUME NEW p \in Procs, Quiet(p)
        PROVE  RefineInv'
    <2>1. SnapshotPast'
      BY <1>2, QuietStep DEF SnapshotPast, Exists
    <2>2. UNCHANGED store
      BY <1>2, QuietStep
    <2>3. CASE \E r \in Requests : Call(p, r)
      <3>1. PICK r \in Requests : Call(p, r)
        BY <2>3
      <3>2. req' = [req EXCEPT ![p] = r] /\ Loads(r)
        BY <3>1 DEF Call
      <3>3. /\ r.doc \in Docs
            /\ r.verb = "amend" => store[r.doc].st = "cancelled" /\ r.link = store[r.doc].link
            /\ r.verb = "deleteDoc" => store[r.doc].st # "fresh"
        BY <3>2 DEF Loads, Requests, InsertLoads, UpdateLoads, SubmitLoads, CancelLoads,
                    PatchLoads, DeleteLoads, AmendLoads, Exists
      <3> QED BY <1>0, <2>1, <2>2, <3>2, <3>3 DEF AmendCarries, DeleteKnown, TypeOK
    <2>4. CASE UNCHANGED req
      BY <1>0, <2>1, <2>2, <2>4 DEF AmendCarries, DeleteKnown
    <2>5. CASE Refuse(p)
      <3>1. req' = [req EXCEPT ![p] = NoRequest] /\ NoRequest.verb \notin {"amend", "deleteDoc"}
        BY <2>5 DEF Refuse, Return, NoRequest
      <3> QED BY <1>0, <2>1, <2>2, <3>1 DEF AmendCarries, DeleteKnown, TypeOK
    <2> QED BY <1>2, <2>3, <2>4, <2>5 DEF Quiet, CheckBlockers, CheckReferences, Begin, Retry, Nest
  <1>3. ASSUME NEW p \in Procs, Commits(p)
        PROVE  RefineInv'
    <2>0. PICK D \in SUBSET Docs : \E rows \in [D -> Row] :
            \E G \in SUBSET {GuardKey(x) : x \in Docs} : Lands(p, D, rows, G)
      BY <1>3, CommitMeaning
    <2>1. PICK rows \in [D -> Row], G \in SUBSET {GuardKey(x) : x \in Docs} :
            Lands(p, D, rows, G)
      BY <2>0
    <2>2. \A x \in Docs : store'[x] = (IF x \in D THEN rows[x] ELSE store[x]) /\ store[x] \in Row
      BY <2>1 DEF Lands, Committed, TypeOK
    <2>3. ASSUME NEW x \in D
          PROVE  \/ store[x].st \notin {"cancelled", "deleted"} /\ rows[x].st # "fresh"
                 \/ rows[x].st = "deleted" /\ rows[x].link = store[x].link
      <3>1. store[x] \in Row /\ Writes(p, x, rows, G)
        BY <2>1, <2>2 DEF Lands
      <3>2. CASE Cancels(p, x, rows[x], G) \/ Deletes(p, x, rows[x])
        BY <3>1, <3>2 DEF Cancels, Deletes, Row
      <3>3. CASE Drafts(p, x, rows[x]) \/ Submits(p, x, rows, G) \/ Patches(x, rows[x])
        BY <3>3 DEF Drafts, Submits, Patches
      <3> QED BY <3>1, <3>2, <3>3 DEF Writes
    <2>4. \A x \in Docs : store[x].st # "fresh" => store'[x].st # "fresh"
      BY <2>2, <2>3
    <2>5. SnapshotPast'
      <3>1. \A q \in open' : q \in open /\ snap'[q] = snap[q]
        BY <2>1 DEF Lands, Committed, TypeOK
      <3> QED BY <2>4, <3>1 DEF SnapshotPast, Exists
    <2>6. \A x \in Docs : store[x].st \in {"cancelled", "deleted"} =>
             store'[x].st \in {"cancelled", "deleted"} /\ store'[x].link = store[x].link
      BY <2>2, <2>3
    <2>7. AmendCarries' /\ DeleteKnown'
      <3>1. req' = [req EXCEPT ![p] = NoRequest] /\ NoRequest.verb \notin {"amend", "deleteDoc"}
        BY <1>3, CommitShape DEF Return, NoRequest
      <3> QED BY <2>4, <2>6, <3>1 DEF AmendCarries, DeleteKnown, TypeOK
    <2> QED BY <1>0, <2>5, <2>7
  <1> QED BY <1>1, <1>2, <1>3 DEF Next, Step, Quiet

-----------------------------------------------------------------------------
(* The snapshot facts a commit relies on, carried to the committed rows.   *)
LEMMA SnapshotFacts ==
    ASSUME RefineInv, NEW p \in open
    PROVE  /\ \A l \in LinkValues : LinkResolves(snap[p], l) => Atomic!LinkResolves(store, l)
           /\ \A x \in Docs : GuardKey(x) \notin missed[p] =>
                /\ store[x].st = "cancelled" => snap[p][x].st = "cancelled"
                /\ NoBlockers(snap[p], x) => NoBlockers(store, x)
  <1>1. \A l \in LinkValues : LinkResolves(snap[p], l) => Atomic!LinkResolves(store, l)
    BY DEF RefineInv, SnapshotPast, LinkResolves, Atomic!LinkResolves, Atomic!Existed, Exists
  <1>2. ASSUME NEW x \in Docs, GuardKey(x) \notin missed[p]
        PROVE  /\ store[x].st = "cancelled" => snap[p][x].st = "cancelled"
               /\ NoBlockers(snap[p], x) => NoBlockers(store, x)
    BY <1>2 DEF RefineInv, ForwardInv, GuardSoundness, NoBlockers
  <1> QED BY <1>1, <1>2

(* A nested verb is one verb of the hooks, judged on the documents as the  *)
(* outer verb leaves them.                                                 *)
LEMMA NestedIsHook ==
    ASSUME ~HooksCancelTargets, RefineInv, NEW p \in open, NEW fx \in [Docs -> Effects],
           req[p].doc \in Docs,
           \A x \in {req[p].doc} \cup NestedDocs(p) : snap[p][x] = store[x],
           NestedGuards(p) \cap missed[p] = {},
           store' = [x \in Docs |-> IF x \in {req[p].doc} \cup NestedDocs(p)
                                      THEN WithNested(p, OuterSt(p))[x] ELSE store[x]],
           effects' = [NestedEffects(p) EXCEPT ![req[p].doc] = fx[req[p].doc]],
           \A x \in Docs \ {req[p].doc} : fx[x] = effects[x]
    PROVE  Atomic!Hooks([store EXCEPT ![req[p].doc].st = OuterSt(p)], fx)
  <1> USE DEF RefineInv, ForwardInv
  <1> DEFINE d == req[p].doc
             n == nested[p]
             e == n.doc
             st == OuterSt(p)
             mid == [store EXCEPT ![d].st = st]
  <1>1. /\ p \in Procs /\ store \in [Docs -> Row] /\ snap[p] \in [Docs -> Row]
        /\ effects \in [Docs -> Effects] /\ n \in Nested
    BY DEF TypeOK
  <1>2. st \in Status /\ st \in {"submitted", "cancelled"}
    BY DEF OuterSt, Status
  <1>3. /\ mid[d].st = st /\ mid[d].link = store[d].link /\ mid \in [Docs -> Row]
        /\ \A x \in Docs \ {d} : mid[x] = store[x]
    BY <1>1, <1>2 DEF Row
  <1>4. /\ WithNested(p, st)[d] = mid[d]
        /\ \A x \in NestedDocs(p) : WithNested(p, st)[x] = NestedRow(p) /\ x # d
    <2>1. /\ WithNested(p, st)[d] = [snap[p][d] EXCEPT !.st = st]
          /\ \A x \in NestedDocs(p) : WithNested(p, st)[x] = NestedRow(p) /\ x # d
      BY <1>1, <1>2, NestedTypes
    <2> QED BY <1>1, <2>1
  <1>5. \A x \in Docs : store'[x] = IF x \in NestedDocs(p) THEN NestedRow(p) ELSE mid[x]
    BY <1>3, <1>4
  <1>6. store' = [x \in Docs |-> store'[x]]
    OBVIOUS
  <1> HIDE DEF st, mid
  <1>7. CASE n = NoNested
    <2>1. NestedDocs(p) = {} /\ NestedEffects(p) = effects
      BY <1>7 DEF NestedDocs, NestedEffects, NoNested
    <2>2. store' = mid
      BY <1>3, <1>5, <1>6, <2>1
    <2>3. effects' = fx
      BY <1>1, <2>1
    <2> QED BY <2>2, <2>3 DEF Atomic!Hooks, mid, st
  <1>8. CASE n # NoNested
    <2>1. NestedAllowed(p, n)
      BY <1>1, <1>8 DEF TypeOK
    <2>2. e \in Docs \ {d} /\ NestedDocs(p) = {e} /\ n.link \in LinkValues
      BY <1>1, <2>1, NoneAssumption DEF NestedAllowed, NestedDocs, Nested
    <2>3. /\ store' = [mid EXCEPT ![e] = NestedRow(p)]
          /\ snap[p][e] = store[e] /\ mid[e] = store[e]
      <3>1. snap[p][e] = store[e] /\ mid[e] = store[e]
        BY <1>3, <2>2
      <3>2. \A x \in Docs : store'[x] = IF x = e THEN NestedRow(p) ELSE mid[x]
        BY <1>5, <2>2
      <3>3. mid = [x \in Docs |-> mid[x]]
        BY <1>3
      <3> QED BY <1>6, <2>2, <3>1, <3>2, <3>3
    <2>4. ASSUME n.kind \in {"create", "spawn"}
          PROVE  /\ Atomic!CanCreate(mid, e, n.link)
                 /\ NewRow(n.link, None) = [st |-> "draft", link |-> n.link, amendedFrom |-> None]
      <3>1. snap[p][e].st = "fresh" /\ LinkResolves(View(p), n.link)
        BY <2>1, <2>4 DEF NestedAllowed, CreateAllowed, CascadeAllowed
      <3>2. ASSUME n.link # None
            PROVE  n.link \in Docs /\ mid[n.link].st # "fresh"
        <4>1. n.link \in Docs /\ Exists(View(p), n.link)
          BY <2>2, <3>1, <3>2 DEF LinkResolves, LinkValues
        <4>2. CASE n.link = d
          BY <1>2, <1>3, <4>1, <4>2
        <4>3. CASE n.link # d
          <5>1. View(p)[n.link] = snap[p][n.link]
            BY <1>1, <4>1, <4>3 DEF View
          <5>2. store[n.link].st # "fresh"
            BY <4>1, <5>1 DEF SnapshotPast, Exists
          <5> QED BY <1>3, <4>1, <4>3, <5>2
        <4> QED BY <4>1, <4>2, <4>3
      <3> QED BY <2>3, <3>1, <3>2 DEF Atomic!CanCreate, Atomic!LinkResolves, Atomic!Existed, NewRow
    <2>5. CASE n.kind = "create"
      <3>1. NestedRow(p) = NewRow(n.link, None) /\ NestedEffects(p) = effects
        BY <2>5 DEF NestedRow, NestedEffects
      <3>2. store' = Atomic!Created(mid, e, n.link, None)
        BY <2>3, <2>4, <2>5, <3>1 DEF Atomic!Created
      <3>3. effects' = fx
        BY <1>1, <3>1
      <3>4. Atomic!HookCreates(mid, fx, e, n.link)
        BY <2>4, <2>5, <3>2, <3>3 DEF Atomic!HookCreates
      <3> QED BY <2>2, <3>4 DEF Atomic!Hooks, LinkValues, mid, st
    <2>6. CASE n.kind = "spawn"
      <3> DEFINE ds == Atomic!Created(mid, e, n.link, None)
      <3>1. NestedRow(p) = [NewRow(n.link, None) EXCEPT !.st = "submitted"]
        BY <2>6 DEF NestedRow
      <3>2. ds = [mid EXCEPT ![e] = NewRow(n.link, None)]
        BY <2>4, <2>6 DEF Atomic!Created
      <3>3. /\ ds[e] = NewRow(n.link, None) /\ ds[e].st = "draft" /\ ds[e].link = n.link
            /\ \A x \in Docs \ {e} : ds[x] = mid[x]
        BY <1>3, <2>2, <3>2 DEF NewRow
      <3>4. ASSUME n.link # None
            PROVE  ds[n.link].st # "cancelled"
        <4>1. n.link \in Docs /\ View(p)[n.link].st # "cancelled"
          BY <2>1, <2>2, <2>6, <3>4 DEF NestedAllowed, CreateAllowed, SpawnAllowed, CascadeAllowed, LinkValues
        <4>2. CASE n.link = e
          BY <3>3, <4>2
        <4>3. CASE n.link = d
          <5>1. View(p)[d].st = st
            BY <1>1 DEF View, st, Row
          <5> QED BY <1>3, <2>2, <3>3, <4>1, <4>3, <5>1
        <4>4. CASE n.link \notin {d, e}
          <5>1. snap[p][n.link].st # "cancelled"
            BY <1>1, <4>1, <4>4 DEF View
          <5>2. GuardKey(n.link) \notin missed[p]
            BY <2>6, <3>4 DEF NestedGuards
          <5>3. store[n.link].st # "cancelled"
            BY <4>1, <5>1, <5>2, SnapshotFacts
          <5> QED BY <1>3, <3>3, <4>1, <4>4, <5>3
        <4> QED BY <4>2, <4>3, <4>4
      <3>5. Atomic!CanSubmit(ds, e)
        BY <3>3, <3>4 DEF Atomic!CanSubmit
      <3>6. store' = Atomic!Submitted(ds, e)
        BY <1>3, <2>2, <2>3, <3>1, <3>2 DEF Atomic!Submitted
      <3>7. effects' = Atomic!Posted(fx, e)
        <4>1. NestedEffects(p) = [effects EXCEPT ![e].posted = @ + 1]
          BY <2>6 DEF NestedEffects
        <4> QED BY <1>1, <2>2, <4>1 DEF Atomic!Posted
      <3>8. Atomic!HookSpawns(mid, fx, e, n.link)
        BY <2>4, <2>6, <3>5, <3>6, <3>7 DEF Atomic!HookSpawns
      <3> QED BY <2>2, <3>8 DEF Atomic!Hooks, LinkValues, mid, st
    <2>7. CASE n.kind = "cancel"
      <3>1. /\ snap[p][e].st = "submitted"
            /\ req[p].verb = "submit" => snap[p][d].link # e
        BY <2>1, <2>7 DEF NestedAllowed, CreateAllowed, CascadeAllowed
      <3>2. NoBlockers(store, e)
        <4>1. GuardKey(e) \notin missed[p]
          BY <2>7 DEF NestedGuards
        <4> QED BY <2>2, <2>7, <4>1 DEF GuardSoundness
      <3>3. ASSUME NEW a \in Docs, mid[a].st = "submitted", mid[a].link = e
            PROVE  FALSE
        <4>1. CASE a = d
          <5>1. req[p].verb = "submit"
            BY <1>3, <3>3, <4>1 DEF st, OuterSt
          <5> QED BY <1>3, <3>1, <3>3, <4>1, <5>1
        <4>2. CASE a # d
          BY <1>3, <3>2, <3>3, <4>2 DEF NoBlockers, Forwards
        <4> QED BY <4>1, <4>2
      <3>4. Atomic!CanCancel(mid, e)
        BY <2>3, <3>1, <3>3 DEF Atomic!CanCancel
      <3>5. store' = Atomic!Cancelled(mid, e)
        <4>1. NestedRow(p) = [mid[e] EXCEPT !.st = "cancelled"]
          BY <2>3, <2>7 DEF NestedRow
        <4> QED BY <1>3, <2>2, <2>3, <4>1 DEF Atomic!Cancelled
      <3>6. effects' = Atomic!Reversed(fx, e)
        <4>1. NestedEffects(p) = [effects EXCEPT ![e].reversed = @ + 1]
          BY <2>7 DEF NestedEffects
        <4> QED BY <1>1, <2>2, <4>1 DEF Atomic!Reversed
      <3>7. Atomic!HookCancels(mid, fx, e)
        BY <3>4, <3>5, <3>6 DEF Atomic!HookCancels
      <3> QED BY <2>2, <3>7 DEF Atomic!Hooks, mid, st
    <2>8. n.kind \in {"create", "spawn", "cancel"}
      BY <2>1 DEF NestedAllowed, CreateAllowed, CascadeAllowed
    <2> QED BY <2>5, <2>6, <2>7, <2>8
  <1> QED BY <1>7, <1>8


(* A submit or a cancel, with what its hooks called, lands on the rows its *)
(* snapshot holds.                                                         *)
LEMMA OuterCommit ==
    ASSUME TypeOK, SnapshotCurrent, NEW p \in open, req[p].doc \in Docs,
           NEW G \in SUBSET {GuardKey(x) : x \in Docs},
           Txn!Commit(p, WithNested(p, OuterSt(p)), G \cup NestedGuards(p))
    PROVE  /\ \A x \in {req[p].doc} \cup NestedDocs(p) : snap[p][x] = store[x]
           /\ (G \cup NestedGuards(p)) \cap missed[p] = {}
           /\ store' = [x \in Docs |-> IF x \in {req[p].doc} \cup NestedDocs(p)
                                         THEN WithNested(p, OuterSt(p))[x] ELSE store[x]]
           /\ NestedEffects(p)[req[p].doc] = effects[req[p].doc]
  <1> DEFINE D == {req[p].doc} \cup NestedDocs(p)
             rows == WithNested(p, OuterSt(p))
             H == G \cup NestedGuards(p)
  <1>0. p \in Procs /\ OuterSt(p) \in Status
    BY DEF TypeOK, OuterSt, Status
  <1>1. /\ D \in SUBSET Docs /\ rows \in [D -> Row]
        /\ H \in SUBSET {GuardKey(x) : x \in Docs}
        /\ NestedEffects(p)[req[p].doc] = effects[req[p].doc]
    BY <1>0, NestedTypes
  <1>2. Txn!Commit(p, rows, H)
    OBVIOUS
  <1> HIDE DEF D, rows, H
  <1>3. Committed(p, D, rows, H) /\ \A x \in D : snap[p][x] = store[x]
    BY <1>0, <1>1, <1>2, WriteType, ReadIsCurrent
  <1> QED BY <1>1, <1>3 DEF Committed, D, rows, H

(* A commit of a verb is the atomic verb.                                  *)
LEMMA CommitIsAtomic ==
    ASSUME ~BandLink, ~HooksCancelTargets, RefineInv, NEW p \in Procs, Commits(p)
    PROVE  [Atomic!Next]_(Atomic!vars)
  <1> USE DEF RefineInv, ForwardInv
  <1>0. p \in open
    BY CommitShape
  <1>1. /\ req[p].doc \in Docs /\ req[p].link \in LinkValues /\ req[p].doc \in LinkValues
        /\ req[p].verb = "amend" => req[p].new \in Docs
    BY <1>0 DEF TypeOK, Requests, LinkValues
  <1>2. ASSUME NEW d \in Docs, NEW row \in Row, NEW G \in SUBSET {GuardKey(x) : x \in Docs},
               Txn!Commit(p, Put(d, row), G)
        PROVE  /\ store' = [store EXCEPT ![d] = row]
               /\ snap[p][d] = store[d]
               /\ G \cap missed[p] = {}
    <2>1. Put(d, row) \in [{d} -> Row] /\ Put(d, row)[d] = row /\ {d} \in SUBSET Docs
      BY <1>2, PutType
    <2>2. Committed(p, {d}, Put(d, row), G)
      BY <1>2, <2>1, WriteType
    <2>3. snap[p][d] = store[d]
      BY <1>0, <2>2 DEF Committed, SnapshotCurrent
    <2>4. store' = [store EXCEPT ![d] = row]
      BY <2>1, <2>2 DEF Committed, TypeOK
    <2> QED BY <2>2, <2>3, <2>4 DEF Committed
  <1>3. store \in [Docs -> Row] /\ effects \in [Docs -> Effects]
    BY DEF TypeOK
  <1> DEFINE d == req[p].doc
             l == req[p].link
  <1>4. CASE Insert(p)
    <2>1. NewRow(l, None) \in Row
      BY <1>1, RowTypes
    <2>2. Txn!Commit(p, Put(d, NewRow(l, None)), {}) /\ snap[p][d].st = "fresh"
          /\ LinkResolves(snap[p], l) /\ UNCHANGED effects
      BY <1>4 DEF Insert
    <2>3. store' = [store EXCEPT ![d] = NewRow(l, None)] /\ store[d].st = "fresh"
      BY <1>1, <1>2, <2>1, <2>2
    <2>4. Atomic!Insert(d, l)
      BY <1>0, <1>1, <2>2, <2>3, SnapshotFacts
      DEF Atomic!Insert, Atomic!CanCreate, Atomic!Created, NewRow
    <2> QED BY <1>1, <2>4 DEF Atomic!Next, LinkValues
  <1>5. CASE Update(p)
    <2> DEFINE row == [snap[p][d] EXCEPT !.link = l]
    <2>1. row \in Row
      BY <1>1, RowTypes
    <2>2. Txn!Commit(p, Put(d, row), {}) /\ snap[p][d].st = "draft"
          /\ LinkResolves(snap[p], l) /\ UNCHANGED effects
      BY <1>5 DEF Update, EditAllowed
    <2>3. store' = [store EXCEPT ![d] = row] /\ snap[p][d] = store[d]
      BY <1>1, <1>2, <2>1, <2>2
    <2>4. store' = [store EXCEPT ![d].link = l]
      BY <1>1, <1>3, <2>3
    <2>5. Atomic!Update(d, l)
      BY <1>0, <1>1, <2>2, <2>3, <2>4, SnapshotFacts DEF Atomic!Update
    <2> QED BY <1>1, <2>5 DEF Atomic!Next, LinkValues
  <1>6. CASE Submit(p)
    <2> DEFINE fx == Atomic!Posted(effects, d)
               G == TargetGuards(p)
    <2>1. /\ Txn!Commit(p, WithNested(p, "submitted"), G \cup NestedGuards(p)) /\ SubmitAllowed(p)
          /\ effects' = [NestedEffects(p) EXCEPT ![d].posted = @ + 1]
      BY <1>6 DEF Submit
    <2>2. OuterSt(p) = "submitted"
      BY <1>6 DEF Submit, InTxn, OuterSt
    <2>3. G \in SUBSET {GuardKey(x) : x \in Docs}
      BY <1>1, RowTypes
    <2>4. /\ \A x \in {d} \cup NestedDocs(p) : snap[p][x] = store[x]
          /\ (G \cup NestedGuards(p)) \cap missed[p] = {}
          /\ store' = [x \in Docs |-> IF x \in {d} \cup NestedDocs(p)
                                        THEN WithNested(p, OuterSt(p))[x] ELSE store[x]]
          /\ NestedEffects(p)[d] = effects[d]
      <3> HIDE DEF G
      <3> QED BY <1>0, <1>1, <2>1, <2>2, <2>3, OuterCommit
    <2>5. /\ fx \in [Docs -> Effects] /\ \A x \in Docs \ {d} : fx[x] = effects[x]
          /\ fx[d] = [effects[d] EXCEPT !.posted = @ + 1]
      BY <1>1, <1>3 DEF Atomic!Posted, Effects
    <2>6. effects' = [NestedEffects(p) EXCEPT ![d] = fx[d]]
      BY <1>1, <2>1, <2>4, <2>5
    <2>7. Atomic!Hooks([store EXCEPT ![d].st = OuterSt(p)], fx)
      <3> HIDE DEF fx, G
      <3> QED BY <1>0, <1>1, <2>4, <2>5, <2>6, NestedIsHook
    <2>8. Atomic!CanSubmit(store, d)
      <3> DEFINE t == store[d].link
      <3>1. snap[p][d] = store[d] /\ store[d].st = "draft"
        BY <2>1, <2>4 DEF SubmitAllowed
      <3>2. ASSUME t # None
            PROVE  store[t].st # "cancelled"
        <4>1. t \in Docs
          BY <1>1, <1>3, <3>2 DEF Row, LinkValues
        <4>2. t \in LinkTargets(p) /\ GuardKey(t) \in G
          BY <3>1, <3>2 DEF LinkTargets, TargetGuards
        <4>3. GuardKey(t) \notin missed[p] /\ snap[p][t].st # "cancelled"
          BY <2>1, <2>4, <4>2 DEF SubmitAllowed
        <4> QED BY <1>0, <4>1, <4>3, SnapshotFacts
      <3> QED BY <3>1, <3>2 DEF Atomic!CanSubmit
    <2>9. Atomic!Submit(d)
      BY <2>2, <2>7, <2>8 DEF Atomic!Submit, Atomic!Submitted
    <2> QED BY <1>1, <2>9 DEF Atomic!Next
  <1>7. CASE Cancel(p)
    <2> DEFINE fx == Atomic!Reversed(effects, d)
               G == CancelGuards(p)
    <2>1. /\ Txn!Commit(p, WithNested(p, "cancelled"), G \cup NestedGuards(p)) /\ CancelAllowed(p)
          /\ effects' = [NestedEffects(p) EXCEPT ![d].reversed = @ + 1]
      BY <1>7 DEF Cancel
    <2>2. OuterSt(p) = "cancelled"
      BY <1>7 DEF Cancel, InTxn, OuterSt
    <2>3. G \in SUBSET {GuardKey(x) : x \in Docs}
      BY <1>1 DEF CancelGuards
    <2>4. /\ \A x \in {d} \cup NestedDocs(p) : snap[p][x] = store[x]
          /\ (G \cup NestedGuards(p)) \cap missed[p] = {}
          /\ store' = [x \in Docs |-> IF x \in {d} \cup NestedDocs(p)
                                        THEN WithNested(p, OuterSt(p))[x] ELSE store[x]]
          /\ NestedEffects(p)[d] = effects[d]
      <3> HIDE DEF G
      <3> QED BY <1>0, <1>1, <2>1, <2>2, <2>3, OuterCommit
    <2>5. /\ fx \in [Docs -> Effects] /\ \A x \in Docs \ {d} : fx[x] = effects[x]
          /\ fx[d] = [effects[d] EXCEPT !.reversed = @ + 1]
      BY <1>1, <1>3 DEF Atomic!Reversed, Effects
    <2>6. effects' = [NestedEffects(p) EXCEPT ![d] = fx[d]]
      BY <1>1, <2>1, <2>4, <2>5
    <2>7. Atomic!Hooks([store EXCEPT ![d].st = OuterSt(p)], fx)
      <3> HIDE DEF fx, G
      <3> QED BY <1>0, <1>1, <2>4, <2>5, <2>6, NestedIsHook
    <2>8. Atomic!CanCancel(store, d)
      <3>1. snap[p][d] = store[d] /\ GuardKey(d) \notin missed[p]
        BY <2>4 DEF CancelGuards
      <3>2. NoBlockers(store, d)
        BY <1>0, <1>1, <2>1, <3>1, SnapshotFacts DEF CancelAllowed
      <3> QED BY <2>1, <3>1, <3>2 DEF CancelAllowed, Atomic!CanCancel, NoBlockers, Forwards
    <2>9. Atomic!Cancel(d)
      BY <2>2, <2>7, <2>8 DEF Atomic!Cancel, Atomic!Cancelled
    <2> QED BY <1>1, <2>9 DEF Atomic!Next
  <1>8. CASE UpdateSubmitted(p)
    <2>1. snap[p][d] \in Row
      BY <1>1, RowTypes
    <2>2. Txn!Commit(p, Put(d, snap[p][d]), {}) /\ UNCHANGED effects
      BY <1>8 DEF UpdateSubmitted
    <2>3. store' = store
      BY <1>1, <1>2, <1>3, <2>1, <2>2
    <2> QED BY <2>2, <2>3 DEF Atomic!vars
  <1>9. CASE Amend(p)
    <2> DEFINE n == req[p].new
    <2>0. n \in Docs /\ req[p].verb = "amend"
      BY <1>1, <1>9 DEF Amend, InTxn
    <2>1. NewRow(l, d) \in Row
      BY <1>1, RowTypes
    <2>2. Txn!Commit(p, Put(n, NewRow(l, d)), {}) /\ snap[p][n].st = "fresh"
          /\ LinkResolves(snap[p], l) /\ UNCHANGED effects
      BY <1>9 DEF Amend
    <2>3. store' = [store EXCEPT ![n] = NewRow(l, d)] /\ store[n].st = "fresh"
      BY <1>2, <2>0, <2>1, <2>2
    <2>4. store[d].st \in {"cancelled", "deleted"} /\ l = store[d].link
      BY <2>0 DEF AmendCarries
    <2>5. Atomic!Amend(d, n)
      BY <1>0, <1>1, <2>2, <2>3, <2>4, SnapshotFacts
      DEF Atomic!Amend, Atomic!CanCreate, Atomic!Created, NewRow
    <2> QED BY <1>1, <2>0, <2>5 DEF Atomic!Next
  <1>10. CASE DeleteDoc(p)
    <2> DEFINE row == [snap[p][d] EXCEPT !.st = "deleted"]
    <2>1. row \in Row
      BY <1>1, RowTypes DEF Status
    <2>2. Txn!Commit(p, Put(d, row), {}) /\ req[p].verb = "deleteDoc" /\ UNCHANGED effects
      BY <1>10 DEF DeleteDoc, PutStatus, InTxn
    <2>3. store' = [store EXCEPT ![d] = row] /\ snap[p][d] = store[d]
      BY <1>1, <1>2, <2>1, <2>2
    <2>4. store' = [store EXCEPT ![d].st = "deleted"]
      BY <1>1, <1>3, <2>3
    <2>5. store[d].st # "fresh"
      BY <2>2 DEF DeleteKnown
    <2>6. Atomic!Delete(d)
      BY <2>2, <2>4, <2>5 DEF Atomic!Delete, Atomic!Existed
    <2> QED BY <1>1, <2>6 DEF Atomic!Next
  <1> QED BY <1>4, <1>5, <1>6, <1>7, <1>8, <1>9, <1>10 DEF Commits

(* DocumentService's concurrent verbs are atomic: for a Link outside the   *)
(* band and hooks that do not cancel the target of their own Link, every   *)
(* execution is an execution of AtomicDocs.                                *)
THEOREM Refinement ==
    ASSUME ~BandLink, ~HooksCancelTargets
    PROVE  Spec => ImplementsAtomic
  <1>1. Init => RefineInv
    BY RefineInit
  <1>2. RefineInv /\ [Next]_vars => RefineInv'
    BY RefineStep
  <1>3. Init => Atomic!Init
    BY DEF Init, Txn!TxnInit, EmptyStore, NoRow, Atomic!Init, Atomic!NoRow
  <1>4. RefineInv /\ [Next]_vars => [Atomic!Next]_(Atomic!vars)
    <2> SUFFICES ASSUME RefineInv, [Next]_vars PROVE [Atomic!Next]_(Atomic!vars)
      OBVIOUS
    <2>1. CASE UNCHANGED vars
      BY <2>1 DEF vars, Atomic!vars
    <2>2. ASSUME NEW p \in Procs, Quiet(p)
          PROVE  [Atomic!Next]_(Atomic!vars)
      BY <2>2, QuietStep DEF Atomic!vars, RefineInv, ForwardInv
    <2>3. ASSUME NEW p \in Procs, Commits(p)
          PROVE  [Atomic!Next]_(Atomic!vars)
      BY <2>3, CommitIsAtomic
    <2> QED BY <2>1, <2>2, <2>3 DEF Next, Step, Quiet
  <1> QED BY <1>1, <1>2, <1>3, <1>4, PTL DEF Spec, ImplementsAtomic, Atomic!Spec
=============================================================================
