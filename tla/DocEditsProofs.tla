--------------------------- MODULE DocEditsProofs ---------------------------
(***************************************************************************)
(* Proofs about DocEdits, for any number of writers, documents and writes. *)
(***************************************************************************)
EXTENDS DocEdits, TLAPS

(* A submit or a cancel sends no If-Match.                                 *)
StatusCallsUnmatched ==
    \A p \in Procs : call[p].verb \in {"submit", "cancel"} => call[p].match = NoMatch

(* What every step preserves: the types, what a snapshot is worth, and     *)
(* that a client's copy is the stored row or an older version of it.       *)
EditsInv ==
    /\ TypeOK
    /\ SnapshotCurrent
    /\ NoLostIncrement
    /\ StatusCallsUnmatched
    /\ ClockTicks => FormsArePast

(* The types of what a variable is reset to.                               *)
LEMMA NewDocType ==
    /\ NewDoc \in Row
    /\ EmptyStore \in [Docs -> Row]
    /\ NoForm \in [doc : Docs, row : Row]
    /\ NoCall \in Call
  <1>1. NewDoc \in Row
    BY DEF NewDoc, Row
  <1>2. (CHOOSE d \in Docs : TRUE) \in Docs
    BY DocsAssumption
  <1>3. NoCall \in Call
    BY DEF NoCall, Call, NoMatch
  <1> QED BY <1>1, <1>2, <1>3 DEF EmptyStore, NoForm

(* The effect of the write that ends a transaction.                        *)
LEMMA WriteEffect ==
    ASSUME TypeOK, SnapshotCurrent, NEW p \in Procs, NEW row \in Row, Write(p, row)
    PROVE  /\ p \in open
           /\ Target(p) \in Docs
           /\ Loaded(p) = store[Target(p)]
           /\ \E stamp \in Stamps(p) :
                /\ stamp \in Nat
                /\ store' = [store EXCEPT ![Target(p)] = [row EXCEPT !.modified = stamp]]
           /\ open' = open \ {p}
           /\ snap' = [snap EXCEPT ![p] = EmptyStore]
           /\ missed' = [q \in Procs |-> IF q \in open \ {p} THEN missed[q] \cup {Target(p)} ELSE {}]
           /\ Return(p)
  <1> DEFINE d == Target(p)
  <1>1. d \in Docs
    BY DEF TypeOK, Target
  <1>2. PICK stamp \in Stamps(p) : Txn!Commit(p, [x \in {d} |-> [row EXCEPT !.modified = stamp]], {})
    BY DEF Write
  <1>3. stamp \in Nat
    <2>1. snap[p][d] \in Row
      BY <1>1 DEF TypeOK
    <2> QED BY <1>2, <2>1 DEF Stamps, Loaded, Row
  <1> DEFINE rows == [x \in {d} |-> [row EXCEPT !.modified = stamp]]
  <1>4. DOMAIN rows = {d} /\ rows[d] = [row EXCEPT !.modified = stamp]
    OBVIOUS
  <1>5. Txn!Written(rows, {}) = {d}
    BY <1>4 DEF Txn!Written
  <1>6. store' = [store EXCEPT ![d] = [row EXCEPT !.modified = stamp]]
    BY <1>2, <1>4 DEF Txn!Commit, Txn!Overlay, TypeOK
  <1>7. /\ p \in open /\ d \notin missed[p]
        /\ open' = open \ {p}
        /\ snap' = [snap EXCEPT ![p] = EmptyStore]
        /\ missed' = [q \in Procs |-> IF q \in open \ {p} THEN missed[q] \cup {d} ELSE {}]
    BY <1>2, <1>5 DEF Txn!Commit, Txn!Conflicts
  <1>8. Loaded(p) = store[d]
    BY <1>1, <1>7 DEF SnapshotCurrent, Loaded
  <1>9. Return(p)
    BY DEF Write
  <1> QED BY <1>1, <1>2, <1>3, <1>6, <1>7, <1>8, <1>9

(* Every commit is a write of a row made from the loaded one.              *)
LEMMA CommitShape ==
    ASSUME TypeOK, NEW p \in Procs, Commits(p)
    PROVE  \E row \in Row :
             /\ Write(p, row)
             /\ IF Increment(p)
                  THEN /\ row.count = Loaded(p).count + 1
                       /\ bumps' = [bumps EXCEPT ![Target(p)] = @ + 1]
                  ELSE row.count = Loaded(p).count /\ UNCHANGED bumps
             /\ call[p].verb \in {"update", "set", "increment"} => Expected(p)
  <1>1. Loaded(p) \in Row
    BY DEF TypeOK, Loaded, Target
  <1> USE DEF Row
  <1>2. CASE Update(p)
    <2>1. ~Increment(p)
      BY <1>2 DEF Update, Increment, InTxn
    <2>2. [Loaded(p) EXCEPT !.text = @ + 1] \in Row
      BY <1>1
    <2> QED BY <1>1, <1>2, <2>1, <2>2 DEF Update
  <1>3. CASE Set(p)
    <2>1. ~Increment(p)
      BY <1>3 DEF Set, Increment, InTxn
    <2>2. [Loaded(p) EXCEPT !.text = @ + 1] \in Row
      BY <1>1
    <2> QED BY <1>1, <1>3, <2>1, <2>2 DEF Set, BandAllowed
  <1>4. CASE Increment(p)
    <2>1. [Loaded(p) EXCEPT !.count = @ + 1] \in Row
      BY <1>1
    <2> QED BY <1>1, <1>4, <2>1 DEF Increment, BandAllowed, Bumped
  <1>5. CASE Submit(p)
    <2>1. ~Increment(p) /\ call[p].verb \notin {"update", "set", "increment"}
      BY <1>5 DEF Submit, Increment, InTxn
    <2>2. [Loaded(p) EXCEPT !.st = "submitted"] \in Row
      BY <1>1
    <2> QED BY <1>1, <1>5, <2>1, <2>2 DEF Submit
  <1>6. CASE Cancel(p)
    <2>1. ~Increment(p) /\ call[p].verb \notin {"update", "set", "increment"}
      BY <1>6 DEF Cancel, Increment, InTxn
    <2>2. [Loaded(p) EXCEPT !.st = "cancelled"] \in Row
      BY <1>1
    <2> QED BY <1>1, <1>6, <2>1, <2>2 DEF Cancel
  <1> QED BY <1>2, <1>3, <1>4, <1>5, <1>6 DEF Commits

-----------------------------------------------------------------------------
LEMMA EditsInit == Init => EditsInv
  <1> SUFFICES ASSUME Init PROVE EditsInv
    OBVIOUS
  <1>1. TypeOK
    BY NewDocType DEF Init, Txn!TxnInit, TypeOK
  <1>2. SnapshotCurrent /\ NoLostIncrement /\ StatusCallsUnmatched /\ FormsArePast
    BY DEF Init, Txn!TxnInit, SnapshotCurrent, NoLostIncrement, StatusCallsUnmatched, FormsArePast,
           EmptyStore, NewDoc, NoCall
  <1> QED BY <1>1, <1>2 DEF EditsInv

LEMMA EditsStep == EditsInv /\ [Next]_vars => EditsInv'
  <1> SUFFICES ASSUME EditsInv, [Next]_vars PROVE EditsInv'
    OBVIOUS
  <1> USE DEF EditsInv
  <1>1. CASE UNCHANGED vars
    BY <1>1 DEF vars, TypeOK, SnapshotCurrent, NoLostIncrement, StatusCallsUnmatched, FormsArePast, Target
  <1>2. ASSUME NEW p \in Procs, NEW d \in Docs, Read(p, d)
        PROVE  EditsInv'
    <2>1. p \notin open /\ call[p] = NoCall
      BY <1>2 DEF Read, TypeOK
    <2>2. TypeOK'
      BY <1>2, <2>1 DEF Read, TypeOK, NoCall
    <2>3. FormsArePast => FormsArePast'
      BY <1>2 DEF Read, FormsArePast, Target, TypeOK
    <2> QED BY <1>2, <2>2, <2>3 DEF Read, SnapshotCurrent, NoLostIncrement, StatusCallsUnmatched
  <1>3. ASSUME NEW p \in Procs, NEW verb \in Verbs, NEW match \in {NoMatch, {form[p].row.modified}},
               Send(p, verb, match)
        PROVE  EditsInv'
    <2>1. form[p].row.modified \in Nat
      BY DEF TypeOK, Row
    <2>2. [verb |-> verb, match |-> match] \in Call
      BY <2>1 DEF Call, NoMatch
    <2>3. TypeOK'
      BY <1>3, <2>2 DEF Send, TypeOK
    <2>4. StatusCallsUnmatched'
      BY <1>3 DEF Send, TypeOK, StatusCallsUnmatched, Judged
    <2>5. FormsArePast => FormsArePast'
      BY <1>3 DEF Send, FormsArePast, Target, TypeOK
    <2> QED BY <1>3, <2>3, <2>4, <2>5 DEF Send, SnapshotCurrent, NoLostIncrement
  <1>4. ASSUME NEW p \in Procs, Begin(p)
        PROVE  EditsInv'
    BY <1>4 DEF Begin, Txn!Begin, TypeOK, SnapshotCurrent, NoLostIncrement, StatusCallsUnmatched, FormsArePast, Target
  <1>5. ASSUME NEW p \in Procs, Commits(p)
        PROVE  EditsInv'
    <2> DEFINE d == Target(p)
    <2>1. PICK row \in Row :
             /\ Write(p, row)
             /\ IF Increment(p)
                  THEN /\ row.count = Loaded(p).count + 1
                       /\ bumps' = [bumps EXCEPT ![d] = @ + 1]
                  ELSE row.count = Loaded(p).count /\ UNCHANGED bumps
      BY <1>5, CommitShape
    <2>2. /\ p \in open
          /\ d \in Docs
          /\ Loaded(p) = store[d]
          /\ open' = open \ {p}
          /\ snap' = [snap EXCEPT ![p] = EmptyStore]
          /\ missed' = [q \in Procs |-> IF q \in open \ {p} THEN missed[q] \cup {d} ELSE {}]
          /\ Return(p)
      BY <2>1, WriteEffect
    <2>3. PICK stamp \in Stamps(p) :
            stamp \in Nat /\ store' = [store EXCEPT ![d] = [row EXCEPT !.modified = stamp]]
      BY <2>1, WriteEffect
    <2>4. /\ store' \in [Docs -> Row]
          /\ store'[d].count = row.count /\ store'[d].modified = stamp
          /\ \A x \in Docs \ {d} : store'[x] = store[x]
      BY <2>2, <2>3 DEF TypeOK, Row
    <2>5. TypeOK'
      <3>1. snap' \in [Procs -> [Docs -> Row]] /\ missed' \in [Procs -> SUBSET Docs]
        BY <2>2, NewDocType DEF TypeOK
      <3>3. /\ pc' \in [Procs -> {"idle", "editing", "checked"}]
            /\ call' \in [Procs -> Call]
            /\ form' \in [Procs -> [doc : Docs, row : Row]]
        BY <2>2, NewDocType DEF Return, TypeOK
      <3>4. bumps' \in [Docs -> Nat]
        BY <2>1, <2>2 DEF TypeOK
      <3>5. /\ \A q \in open' : pc'[q] = "checked"
            /\ \A q \in Procs :
                 IF pc'[q] = "checked" THEN call'[q].match \in {NoMatch, {form'[q].row.modified}}
                                       ELSE call'[q] = NoCall
        BY <2>2 DEF Return, TypeOK
      <3> QED BY <2>2, <2>4, <3>1, <3>3, <3>4, <3>5 DEF TypeOK
    <2>6. SnapshotCurrent'
      BY <2>2, <2>4 DEF TypeOK, SnapshotCurrent
    <2>7. NoLostIncrement'
      <3>1. CASE Increment(p)
        <4>1. store'[d].count = store[d].count + 1 /\ bumps' = [bumps EXCEPT ![d] = @ + 1]
          BY <2>1, <2>2, <2>4, <3>1
        <4> QED BY <2>2, <2>4, <4>1 DEF TypeOK, NoLostIncrement
      <3>2. CASE ~Increment(p)
        BY <2>1, <2>2, <2>4, <3>2 DEF TypeOK, NoLostIncrement
      <3> QED BY <3>1, <3>2
    <2>8. StatusCallsUnmatched'
      BY <2>2 DEF TypeOK, Return, NoCall, StatusCallsUnmatched
    <2>9. ASSUME ClockTicks, FormsArePast
          PROVE  FormsArePast'
      <3>1. stamp = store[d].modified + 1
        BY <2>2, <2>3, <2>9 DEF Stamps
      <3>2. SUFFICES ASSUME NEW q \in Procs, pc'[q] # "idle"
                     PROVE  \/ form'[q].row = store'[form'[q].doc]
                            \/ form'[q].row.modified < store'[form'[q].doc].modified
        BY DEF FormsArePast, Target
      <3>3. q # p /\ pc[q] # "idle" /\ form'[q] = form[q] /\ form[q].doc \in Docs
        BY <2>2, <3>2 DEF Return, TypeOK
      <3>4. CASE form[q].doc # d
        BY <2>4, <2>9, <3>3, <3>4 DEF FormsArePast, Target
      <3>5. CASE form[q].doc = d
        <4>1. form[q].row.modified \in Nat /\ store[d].modified \in Nat
          BY <2>2 DEF TypeOK, Row
        <4>2. form[q].row.modified =< store[d].modified
          BY <2>9, <3>3, <3>5, <4>1 DEF FormsArePast, Target
        <4> QED BY <2>4, <3>1, <3>3, <3>5, <4>1, <4>2
      <3> QED BY <3>4, <3>5
    <2> QED BY <2>5, <2>6, <2>7, <2>8, <2>9
  <1>6. ASSUME NEW p \in Procs, Retry(p)
        PROVE  EditsInv'
    BY <1>6, NewDocType DEF Retry, Txn!Abort, TypeOK, SnapshotCurrent, NoLostIncrement, StatusCallsUnmatched, FormsArePast, Target
  <1>7. ASSUME NEW p \in Procs, Refuse(p)
        PROVE  EditsInv'
    <2>1. /\ store' = store /\ open' \subseteq open \ {p} /\ bumps' = bumps /\ Return(p)
          /\ snap' \in [Procs -> [Docs -> Row]] /\ missed' \in [Procs -> SUBSET Docs]
          /\ \A q \in open' : snap'[q] = snap[q] /\ missed'[q] = missed[q]
      <3>1. CASE p \in open
        BY <1>7, <3>1, NewDocType DEF Refuse, Txn!Abort, TypeOK
      <3>2. CASE p \notin open
        BY <1>7, <3>2 DEF Refuse, TypeOK
      <3> QED BY <3>1, <3>2
    <2>3. TypeOK'
      BY <2>1, NewDocType DEF Return, TypeOK
    <2>4. SnapshotCurrent' /\ NoLostIncrement'
      BY <2>1 DEF SnapshotCurrent, NoLostIncrement
    <2>5. StatusCallsUnmatched' /\ (FormsArePast => FormsArePast')
      BY <2>1 DEF Return, TypeOK, StatusCallsUnmatched, FormsArePast, Target, NoCall
    <2> QED BY <2>3, <2>4, <2>5
  <1> QED BY <1>1, <1>2, <1>3, <1>4, <1>5, <1>6, <1>7 DEF Next, Step

(* EditsInv holds throughout.                                              *)
THEOREM EditsInvariant == Spec => []EditsInv
  BY EditsInit, EditsStep, PTL DEF Spec

(* TypeOK holds throughout.                                                *)
THEOREM EditsTypeCorrect == Spec => []TypeOK
  <1>1. EditsInv => TypeOK
    BY DEF EditsInv
  <1> QED BY <1>1, EditsInvariant, PTL

(* updateSubmitted loses no increment: a counter is the number of its      *)
(* committed increments, because each is resolved against a row that no    *)
(* one has written when it commits.                                        *)
THEOREM IncrementsAreAdditive == Spec => []NoLostIncrement
  <1>1. EditsInv => NoLostIncrement
    BY DEF EditsInv
  <1> QED BY <1>1, EditsInvariant, PTL

(* If-Match, where no two writes of a row share a millisecond: a write     *)
(* sent with it replaces the version its client read.                      *)
THEOREM MatchedWritesAreFresh ==
    ASSUME ClockTicks
    PROVE  Spec => MatchedWriteIsFresh
  <1>1. EditsInv /\ [Next]_vars => [FreshStep]_vars
    <2> SUFFICES ASSUME EditsInv, [Next]_vars, NEW p \in Procs, CommitsNow(p), call[p].match # NoMatch
                 PROVE  store[Target(p)] = form[p].row
      BY DEF FreshStep
    <2> USE DEF EditsInv
    <2>1. PICK q \in Procs : Step(q)
      BY DEF CommitsNow, vars, Next
    <2>2. p = q /\ Commits(p)
      <3>1. ASSUME Commits(q)
            PROVE  open' = open \ {q}
        BY <3>1, CommitShape, WriteEffect
      <3>2. ASSUME ~Commits(q)
            PROVE  store' = store
        BY <2>1, <3>2 DEF Step, Read, Send, Begin, Txn!Begin, Retry, Txn!Abort, Refuse
      <3> QED BY <3>1, <3>2 DEF CommitsNow
    <2>3. call[p].verb \in {"update", "set", "increment"} /\ pc[p] = "checked"
      BY <2>2 DEF StatusCallsUnmatched, TypeOK, Commits, Update, Set, Increment, Submit, Cancel, InTxn
    <2>4. PICK row \in Row : Write(p, row) /\ Expected(p)
      BY <2>2, <2>3, CommitShape
    <2>5. Loaded(p) = store[Target(p)] /\ Target(p) \in Docs
      BY <2>4, WriteEffect
    <2>6. call[p].match = {form[p].row.modified}
      BY <2>3 DEF TypeOK
    <2>7. store[Target(p)].modified = form[p].row.modified /\ form[p].row.modified \in Nat
      BY <2>4, <2>5, <2>6 DEF Expected, Matches, TypeOK, Row
    <2> QED BY ClockTicks, <2>3, <2>7 DEF FormsArePast
  <1> QED BY <1>1, EditsInvariant, PTL DEF MatchedWriteIsFresh, Spec

-----------------------------------------------------------------------------
(* What a commit does to the text and the docstatus of the row it replaces.*)
LEMMA CommitVerbs ==
    ASSUME TypeOK, SnapshotCurrent, NEW p \in Procs, Commits(p)
    PROVE  \E row \in Row :
             /\ Write(p, row)
             /\ LET old == store[Target(p)] IN
                \/ old.st = "draft" /\ row.st = "draft"
                \/ old.st = "submitted" /\ row.st = "submitted" /\ call[p].verb = "set"
                \/ old.st = "submitted" /\ row.st = "submitted" /\ row.text = old.text
                \/ old.st = "draft" /\ row.st = "submitted" /\ row.text = old.text
                \/ old.st = "submitted" /\ row.st = "cancelled" /\ row.text = old.text
  <1> DEFINE old == Loaded(p)
  <1>1. old \in Row
    BY DEF TypeOK, Loaded, Target
  <1>2. \A row \in Row : Write(p, row) => store[Target(p)] = old
    BY WriteEffect
  <1> USE DEF Row
  <1>3. CASE Update(p)
    <2> DEFINE row == [old EXCEPT !.text = @ + 1]
    <2>1. row \in Row /\ Write(p, row) /\ old.st = "draft" /\ row.st = "draft"
      BY <1>1, <1>3 DEF Update, EditAllowed
    <2> QED BY <1>2, <2>1
  <1>4. CASE Set(p)
    <2> DEFINE row == [old EXCEPT !.text = @ + 1]
    <2>1. /\ row \in Row /\ Write(p, row) /\ old.st = "submitted" /\ row.st = "submitted"
          /\ call[p].verb = "set"
      BY <1>1, <1>4 DEF Set, BandAllowed, InTxn, Loaded
    <2> QED BY <1>2, <2>1
  <1>5. CASE Increment(p)
    <2> DEFINE row == Bumped(p)
    <2>1. /\ row \in Row /\ Write(p, row) /\ old.st = "submitted" /\ row.st = "submitted"
          /\ row.text = old.text
      BY <1>1, <1>5 DEF Increment, BandAllowed, Bumped, Loaded
    <2> QED BY <1>2, <2>1
  <1>6. CASE Submit(p)
    <2> DEFINE row == [old EXCEPT !.st = "submitted"]
    <2>1. /\ row \in Row /\ Write(p, row) /\ old.st = "draft" /\ row.st = "submitted"
          /\ row.text = old.text
      BY <1>1, <1>6 DEF Submit
    <2> QED BY <1>2, <2>1
  <1>7. CASE Cancel(p)
    <2> DEFINE row == [old EXCEPT !.st = "cancelled"]
    <2>1. /\ row \in Row /\ Write(p, row) /\ old.st = "submitted" /\ row.st = "cancelled"
          /\ row.text = old.text
      BY <1>1, <1>7 DEF Cancel
    <2> QED BY <1>2, <2>1
  <1> QED BY <1>3, <1>4, <1>5, <1>6, <1>7 DEF Commits

(* A submitted text changes by a band set alone, a submit keeps the text   *)
(* as last saved, and a cancelled document stays as it is.                 *)
THEOREM SubmittedTextsFrozen == Spec => SubmittedTextFrozen
  <1>1. EditsInv /\ [Next]_vars => [SubmittedStep]_vars
    <2> SUFFICES ASSUME EditsInv, [Next]_vars
                 PROVE  store' = store \/ SubmittedStep
      BY DEF SubmittedStep
    <2> USE DEF EditsInv
    <2>1. SUFFICES ASSUME store' # store PROVE SubmittedStep
      OBVIOUS
    <2>2. PICK p \in Procs : Step(p)
      BY <2>1 DEF vars, Next
    <2>3. Commits(p)
      BY <2>1, <2>2 DEF Step, Read, Send, Begin, Txn!Begin, Retry, Txn!Abort, Refuse
    <2> DEFINE d == Target(p)
               old == store[d]
    <2>4. PICK row \in Row :
            /\ Write(p, row)
            /\ \/ old.st = "draft" /\ row.st = "draft"
               \/ old.st = "submitted" /\ row.st = "submitted" /\ call[p].verb = "set"
               \/ old.st = "submitted" /\ row.st = "submitted" /\ row.text = old.text
               \/ old.st = "draft" /\ row.st = "submitted" /\ row.text = old.text
               \/ old.st = "submitted" /\ row.st = "cancelled" /\ row.text = old.text
      BY <2>3, CommitVerbs
    <2>5. PICK stamp \in Stamps(p) :
            stamp \in Nat /\ store' = [store EXCEPT ![d] = [row EXCEPT !.modified = stamp]]
      BY <2>4, WriteEffect
    <2>6. /\ d \in Docs /\ store'[d].st = row.st /\ store'[d].text = row.text
          /\ \A x \in Docs \ {d} : store'[x] = store[x]
      BY <2>4, <2>5, WriteEffect DEF TypeOK, Row
    <2>7. CommitsNow(p)
      BY <2>1, <2>4, WriteEffect DEF CommitsNow
    <2> HIDE DEF d
    <2> QED BY <2>4, <2>6, <2>7 DEF SubmittedStep
  <1> QED BY <1>1, EditsInvariant, PTL DEF SubmittedTextFrozen, Spec

-----------------------------------------------------------------------------
(* One writer at a time: each write is judged on the stored document and   *)
(* applied to it in one step.  A stamp may repeat unless the clock ticks.  *)
SerialWrite(d, row) ==
    \E stamp \in {row.modified, row.modified + 1} :
      /\ ClockTicks => stamp = row.modified + 1
      /\ store' = [store EXCEPT ![d] = [row EXCEPT !.modified = stamp]]

SerialUpdate(d) ==
    /\ store[d].st = "draft"
    /\ SerialWrite(d, [store[d] EXCEPT !.text = @ + 1])
    /\ UNCHANGED bumps

SerialSet(d) ==
    /\ store[d].st = "submitted"
    /\ SerialWrite(d, [store[d] EXCEPT !.text = @ + 1])
    /\ UNCHANGED bumps

SerialIncrement(d) ==
    /\ store[d].st = "submitted"
    /\ SerialWrite(d, [store[d] EXCEPT !.count = @ + 1])
    /\ bumps' = [bumps EXCEPT ![d] = @ + 1]

SerialSubmit(d) ==
    /\ store[d].st = "draft"
    /\ SerialWrite(d, [store[d] EXCEPT !.st = "submitted"])
    /\ UNCHANGED bumps

SerialCancel(d) ==
    /\ store[d].st = "submitted"
    /\ SerialWrite(d, [store[d] EXCEPT !.st = "cancelled"])
    /\ UNCHANGED bumps

SerialEdit(d) ==
    SerialUpdate(d) \/ SerialSet(d) \/ SerialIncrement(d) \/ SerialSubmit(d) \/ SerialCancel(d)

SerialEdits ==
    /\ store = EmptyStore /\ bumps = [d \in Docs |-> 0]
    /\ [][\E d \in Docs : SerialEdit(d)]_<<store, bumps>>

(* A write made from the loaded row is one made from the stored row.       *)
LEMMA WriteSerial ==
    ASSUME TypeOK, SnapshotCurrent, NEW p \in Procs, NEW row \in Row, Write(p, row),
           row.modified = Loaded(p).modified
    PROVE  /\ Target(p) \in Docs /\ Loaded(p) = store[Target(p)]
           /\ SerialWrite(Target(p), row)
  <1>1. PICK stamp \in Stamps(p) :
          stamp \in Nat /\ store' = [store EXCEPT ![Target(p)] = [row EXCEPT !.modified = stamp]]
    BY WriteEffect
  <1>2. stamp \in {row.modified, row.modified + 1} /\ (ClockTicks => stamp = row.modified + 1)
    BY <1>1 DEF Stamps
  <1> QED BY <1>1, <1>2, WriteEffect DEF SerialWrite

(* The writes of a document, whoever races and is rerun, are as if each    *)
(* writer had the document to itself: saves, band patches, submit and      *)
(* cancel are atomic, although each works on a copy loaded earlier and,    *)
(* but for a save, was first judged before its transaction.                *)
THEOREM EditsAreSerial == Spec => SerialEdits
  <1>1. Init => store = EmptyStore /\ bumps = [d \in Docs |-> 0]
    BY DEF Init, Txn!TxnInit
  <1>2. EditsInv /\ [Next]_vars => [\E d \in Docs : SerialEdit(d)]_<<store, bumps>>
    <2> SUFFICES ASSUME EditsInv, [Next]_vars, <<store, bumps>>' # <<store, bumps>>
                 PROVE  \E d \in Docs : SerialEdit(d)
      OBVIOUS
    <2> USE DEF EditsInv
    <2>1. PICK p \in Procs : Commits(p)
      BY DEF vars, Next, Step, Read, Send, Begin, Txn!Begin, Retry, Txn!Abort, Refuse
    <2> DEFINE d == Target(p)
    <2>2. Loaded(p) \in Row
      BY DEF TypeOK, Loaded, Target
    <2>3. CASE Update(p)
      <3> DEFINE row == [Loaded(p) EXCEPT !.text = @ + 1]
      <3>1. row \in Row /\ row.modified = Loaded(p).modified /\ Write(p, row)
        BY <2>2, <2>3 DEF Update, Row
      <3>2. d \in Docs /\ Loaded(p) = store[d] /\ SerialWrite(d, row)
        BY <3>1, WriteSerial
      <3>3. SerialUpdate(d)
        BY <2>3, <3>2 DEF Update, EditAllowed, SerialUpdate
      <3> QED BY <3>2, <3>3 DEF SerialEdit
    <2>4. CASE Set(p)
      <3> DEFINE row == [Loaded(p) EXCEPT !.text = @ + 1]
      <3>1. row \in Row /\ row.modified = Loaded(p).modified /\ Write(p, row)
        BY <2>2, <2>4 DEF Set, Row
      <3>2. d \in Docs /\ Loaded(p) = store[d] /\ SerialWrite(d, row)
        BY <3>1, WriteSerial
      <3>3. SerialSet(d)
        BY <2>4, <3>2 DEF Set, BandAllowed, Loaded, SerialSet
      <3> QED BY <3>2, <3>3 DEF SerialEdit
    <2>5. CASE Increment(p)
      <3> DEFINE row == [Loaded(p) EXCEPT !.count = @ + 1]
      <3>1. row \in Row /\ row.modified = Loaded(p).modified /\ Write(p, row)
        BY <2>2, <2>5 DEF Increment, Bumped, Row
      <3>2. d \in Docs /\ Loaded(p) = store[d] /\ SerialWrite(d, row)
        BY <3>1, WriteSerial
      <3>3. SerialIncrement(d)
        BY <2>5, <3>2 DEF Increment, BandAllowed, Loaded, SerialIncrement
      <3> QED BY <3>2, <3>3 DEF SerialEdit
    <2>6. CASE Submit(p)
      <3> DEFINE row == [Loaded(p) EXCEPT !.st = "submitted"]
      <3>1. row \in Row /\ row.modified = Loaded(p).modified /\ Write(p, row)
        BY <2>2, <2>6 DEF Submit, Row
      <3>2. d \in Docs /\ Loaded(p) = store[d] /\ SerialWrite(d, row)
        BY <3>1, WriteSerial
      <3>3. SerialSubmit(d)
        BY <2>6, <3>2 DEF Submit, SerialSubmit
      <3> QED BY <3>2, <3>3 DEF SerialEdit
    <2>7. CASE Cancel(p)
      <3> DEFINE row == [Loaded(p) EXCEPT !.st = "cancelled"]
      <3>1. row \in Row /\ row.modified = Loaded(p).modified /\ Write(p, row)
        BY <2>2, <2>7 DEF Cancel, Row
      <3>2. d \in Docs /\ Loaded(p) = store[d] /\ SerialWrite(d, row)
        BY <3>1, WriteSerial
      <3>3. SerialCancel(d)
        BY <2>7, <3>2 DEF Cancel, SerialCancel
      <3> QED BY <3>2, <3>3 DEF SerialEdit
    <2> QED BY <2>1, <2>3, <2>4, <2>5, <2>6, <2>7 DEF Commits
  <1> QED BY <1>1, <1>2, EditsInvariant, PTL DEF SerialEdits, Spec
=============================================================================
