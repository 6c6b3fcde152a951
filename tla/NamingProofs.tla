---------------------------- MODULE NamingProofs ----------------------------
(***************************************************************************)
(* Proofs about Naming, for any number of inserts, documents and numbers.  *)
(***************************************************************************)
EXTENDS Naming, TLAPS

(* A row no one else has committed since a transaction began is the row    *)
(* its snapshot holds.                                                     *)
SnapshotCurrent ==
    \A p \in open : \A k \in Keys : k \notin missed[p] => snap[p][k] = store[k]

(* An insert has an id of its own, which nothing is stored under yet.      *)
OwnIds ==
    \A p \in Procs : doc[p] # NoDoc =>
      /\ store[doc[p].id] = 0
      /\ \A q \in Procs \ {p} : doc[q].id # doc[p].id

(* At most one open transaction has raised the counter, past what its      *)
(* snapshot holds, and nobody has raised it since that snapshot.           *)
OneDraws ==
    \A p \in Procs : drawn[p] # 0 =>
      /\ \A q \in Procs \ {p} : drawn[q] = 0
      /\ Counter \notin missed[p]
      /\ NextFree(snap[p], drawn[p])

(* While the counter has not moved under a transaction, the only documents *)
(* stored meanwhile are those that kept a number.                          *)
SeesDrawn ==
    \A p \in open : Counter \notin missed[p] =>
      \A d \in Docs : store[d] # snap[p][d] => d \in kept

NamingInv == TypeOK /\ SnapshotCurrent /\ OwnIds /\ OneDraws /\ SeesDrawn /\ DrawnUnique

-----------------------------------------------------------------------------
LEMMA NoDocFacts ==
    /\ NoDoc.id = Counter /\ NoDoc.number = 0 /\ NoDoc.hooked = FALSE
    /\ \A d \in InMemory : d # NoDoc /\ d.id \in Docs /\ d.number \in Nat /\ d.hooked \in BOOLEAN
  BY KeysAssumption DEF NoDoc, InMemory

LEMMA EmptyType == EmptyStore \in [Keys -> Nat]
  BY DEF EmptyStore

LEMMA NamingInit == Init => NamingInv
  <1> SUFFICES ASSUME Init PROVE NamingInv
    OBVIOUS
  <1>1. /\ store \in [Keys -> 0..MaxNumber]
        /\ \A d, e \in Docs : d # e /\ store[d] # 0 => store[d] # store[e]
    BY DEF Init
  <1>2. /\ open = {} /\ kept = {} /\ snap = [p \in Procs |-> EmptyStore]
        /\ missed = [p \in Procs |-> {}] /\ doc = [p \in Procs |-> NoDoc] /\ drawn = [p \in Procs |-> 0]
    BY DEF Init
  <1>3. store \in [Keys -> Nat]
    BY <1>1, BoundAssumption
  <1>4. TypeOK
    BY <1>2, <1>3, EmptyType DEF TypeOK
  <1> QED
    BY <1>1, <1>2, <1>4 DEF NamingInv, SnapshotCurrent, OwnIds, OneDraws, SeesDrawn, DrawnUnique

-----------------------------------------------------------------------------
(* The steps, one by one.                                                  *)

LEMMA CallStep ==
    ASSUME NamingInv, NEW p \in Procs, NEW d \in Docs, NEW hooked \in BOOLEAN, Call(p, d, hooked)
    PROVE  NamingInv'
  <1> USE NoDocFacts DEF NamingInv, TypeOK, Call
  <1> DEFINE new == [id |-> d, number |-> 0, hooked |-> hooked]
  <1>1. new \in InMemory /\ new # NoDoc /\ new.id = d /\ new.number = 0
    BY KeysAssumption DEF InMemory
  <1>2. doc' = [doc EXCEPT ![p] = new]
    OBVIOUS
  <1> HIDE DEF new
  <1>3. p \notin open /\ drawn[p] = 0
    OBVIOUS
  <1>4. TypeOK'
    BY <1>1, <1>2, <1>3
  <1>5. OwnIds'
    BY <1>1, <1>2 DEF OwnIds
  <1> QED BY <1>4, <1>5 DEF SnapshotCurrent, OneDraws, SeesDrawn, DrawnUnique, NextFree, Taken

LEMMA BeginStep ==
    ASSUME NamingInv, NEW p \in Procs, Begin(p)
    PROVE  NamingInv'
  <1> USE DEF NamingInv, TypeOK, Begin, Txn!Begin
  <1>1. p \notin open /\ drawn[p] = 0
    OBVIOUS
  <1>2. TypeOK'
    OBVIOUS
  <1>3. SnapshotCurrent' /\ SeesDrawn'
    BY DEF SnapshotCurrent, SeesDrawn
  <1>4. OneDraws'
    BY <1>1 DEF OneDraws
  <1> QED BY <1>2, <1>3, <1>4 DEF OwnIds, DrawnUnique

LEMMA DrawStep ==
    ASSUME NamingInv, NEW p \in Procs, NEW n \in 1..MaxNumber, Draw(p, n)
    PROVE  NamingInv' /\ n > store[Counter]
  <1> USE NoDocFacts, BoundAssumption DEF NamingInv, TypeOK, Draw
  <1>1. n \in Nat /\ n # 0 /\ doc[p] \in InMemory
    OBVIOUS
  <1>2. [doc[p] EXCEPT !.number = n] \in InMemory
    BY <1>1 DEF InMemory
  <1>3. doc'[p].number = n /\ doc'[p].id = doc[p].id /\ doc' = [doc EXCEPT ![p] = doc'[p]]
    BY <1>1 DEF InMemory
  <1>4. TypeOK'
    BY <1>1, <1>2, <1>3
  <1>5. OwnIds'
    BY <1>1, <1>2, <1>3 DEF OwnIds
  <1>6. OneDraws'
    <2>1. \A q \in Procs \ {p} : drawn[q] = 0 /\ drawn'[q] = 0
      BY DEF CounterFree
    <2>2. drawn'[p] = n /\ snap' = snap /\ missed' = missed
      OBVIOUS
    <2>3. Counter \notin missed[p] /\ NextFree(snap[p], n)
      BY DEF CounterFree
    <2> QED BY <2>1, <2>2, <2>3 DEF OneDraws, NextFree, Taken
  <1>7. n > store[Counter]
    BY <1>1 DEF CounterFree, NextFree, SnapshotCurrent, Keys
  <1> QED BY <1>4, <1>5, <1>6, <1>7 DEF SnapshotCurrent, SeesDrawn, DrawnUnique

(* The rows a commit writes: the insert's document, under a number no      *)
(* document of the snapshot has, and the counter; or the document alone.   *)
LEMMA RowFacts ==
    ASSUME NamingInv, NEW p \in open, doc[p].number # 0
    PROVE  /\ doc[p].id \in Docs /\ doc[p].id # Counter /\ doc[p].id # Shared
           /\ DOMAIN Rows(p) \subseteq Keys
           /\ DOMAIN Rows(p) \cap Docs = {doc[p].id}
           /\ Counter \in DOMAIN Rows(p) <=> drawn[p] # 0
           /\ Rows(p)[doc[p].id] = doc[p].number
           /\ drawn[p] # 0 => Rows(p)[Counter] = drawn[p]
           /\ Shared \in DOMAIN Rows(p) => Rows(p)[Shared] = 0
           /\ doc[p].number \in Nat
           /\ drawn[p] # 0 => drawn[p] = doc[p].number
  <1> USE NoDocFacts, KeysAssumption DEF NamingInv, TypeOK
  <1>1. p \in Procs /\ doc[p] \in InMemory /\ doc[p].id \in Docs
    OBVIOUS
  <1> QED BY <1>1 DEF Rows, Counted, Hooked, Keys

LEMMA InsertStep ==
    ASSUME NamingInv, NEW p \in Procs, Insert(p)
    PROVE  NamingInv' /\ store'[Counter] >= store[Counter]
  <1> DEFINE d == doc[p].id
             n == doc[p].number
             D == DOMAIN Rows(p)
  <1> USE NoDocFacts, KeysAssumption DEF NamingInv
  <1>1. /\ p \in open /\ n # 0 /\ n \in Nat /\ d \in Docs /\ d # Counter /\ d # Shared
        /\ D \subseteq Keys /\ D \cap Docs = {d} /\ Rows(p)[d] = n
        /\ Counter \in D <=> drawn[p] # 0
        /\ drawn[p] # 0 => Rows(p)[Counter] = drawn[p] /\ drawn[p] = n
        /\ Shared \in D => Rows(p)[Shared] = 0
    BY RowFacts DEF Insert
  <1>2. /\ store' = [k \in Keys |-> IF k \in D THEN Rows(p)[k] ELSE store[k]]
        /\ open' = open \ {p} /\ snap' = [snap EXCEPT ![p] = EmptyStore]
        /\ missed' = [q \in Procs |-> IF q \in open \ {p} THEN missed[q] \cup D ELSE {}]
        /\ D \cap missed[p] = {}
    BY DEF Insert, Txn!Commit, Txn!Overlay, Txn!Written, Txn!Conflicts, TypeOK
  <1>3. /\ doc' = [doc EXCEPT ![p] = NoDoc] /\ drawn' = [drawn EXCEPT ![p] = 0]
        /\ kept' = IF drawn[p] = 0 THEN kept \cup {d} ELSE kept
    BY DEF Insert, Return
  <1>4. store[d] = 0
    BY <1>1 DEF OwnIds, TypeOK
  <1> HIDE DEF D, d, n
  <1>5. \A k \in Keys : k \in D => Rows(p)[k] \in Nat
    BY <1>1 DEF Keys
  <1>6. TypeOK'
    BY <1>1, <1>2, <1>3, <1>5, EmptyType DEF TypeOK
  <1>7. SnapshotCurrent'
    BY <1>1, <1>2 DEF SnapshotCurrent, TypeOK
  <1>8. OwnIds'
    <2> SUFFICES ASSUME NEW q \in Procs, doc'[q] # NoDoc
                 PROVE  store'[doc'[q].id] = 0 /\ \A o \in Procs \ {q} : doc'[o].id # doc'[q].id
      BY DEF OwnIds
    <2>1. q # p /\ doc'[q] = doc[q] /\ doc[q] \in InMemory /\ doc[q].id \in Docs /\ doc[q].id # d
      BY <1>1, <1>3 DEF OwnIds, TypeOK, d
    <2>2. doc[q].id \notin D /\ doc[q].id \in Keys
      BY <1>1, <2>1 DEF Keys
    <2>3. store'[doc[q].id] = 0
      BY <1>2, <2>1, <2>2 DEF OwnIds
    <2>4. \A o \in Procs \ {q} : doc'[o].id # doc[q].id
      BY <1>3, <2>1 DEF OwnIds, TypeOK
    <2> QED BY <2>1, <2>3, <2>4
  <1>9. OneDraws'
    <2> SUFFICES ASSUME NEW q \in Procs, drawn'[q] # 0
                 PROVE  /\ \A o \in Procs \ {q} : drawn'[o] = 0
                        /\ Counter \notin missed'[q]
                        /\ NextFree(snap'[q], drawn'[q])
      BY DEF OneDraws
    <2>1. q # p /\ drawn'[q] = drawn[q] /\ drawn[p] = 0
      BY <1>3 DEF TypeOK, OneDraws
    <2>2. Counter \notin D /\ snap'[q] = snap[q] /\ missed'[q] \subseteq missed[q] \cup D
      BY <1>1, <1>2, <2>1 DEF TypeOK
    <2> QED BY <1>3, <2>1, <2>2 DEF OneDraws, TypeOK
  <1>10. SeesDrawn'
    <2> SUFFICES ASSUME NEW q \in open', Counter \notin missed'[q],
                        NEW e \in Docs, store'[e] # snap'[q][e]
                 PROVE  e \in kept'
      BY DEF SeesDrawn
    <2>1. /\ q \in open /\ q # p /\ q \in Procs /\ snap'[q] = snap[q]
          /\ Counter \notin missed[q] /\ Counter \notin D
      BY <1>2 DEF TypeOK
    <2>2. drawn[p] = 0 /\ kept' = kept \cup {d}
      BY <1>1, <1>3, <2>1
    <2>3. e # d => store'[e] = store[e]
      BY <1>1, <1>2 DEF Keys
    <2> QED BY <2>1, <2>2, <2>3 DEF SeesDrawn
  <1>11. DrawnUnique'
    <2>1. ASSUME NEW e \in Docs \ kept, e # d, drawn[p] # 0
          PROVE  n # store[e]
      <3>1. Counter \notin missed[p] /\ NextFree(snap[p], n)
        BY <1>1, <2>1 DEF OneDraws
      <3>2. store[e] = snap[p][e]
        BY <1>1, <2>1, <3>1 DEF SeesDrawn
      <3>3. n \notin Taken(snap[p])
        BY <3>1 DEF NextFree
      <3> QED BY <1>1, <2>1, <3>2, <3>3 DEF Taken
    <2>2. \A e \in Docs : store'[e] = IF e = d THEN n ELSE store[e]
      BY <1>1, <1>2 DEF Keys
    <2>3. d \in kept' \/ (drawn[p] # 0 /\ kept' = kept)
      BY <1>3
    <2>4. kept \subseteq kept'
      BY <1>3
    <2> QED BY <2>1, <2>2, <2>3, <2>4 DEF DrawnUnique
  <1>12. store'[Counter] >= store[Counter]
    <2>1. Counter \in Keys /\ store[Counter] \in Nat
      BY DEF Keys, TypeOK
    <2>2. CASE drawn[p] = 0
      BY <1>1, <1>2, <2>1, <2>2
    <2>3. CASE drawn[p] # 0
      <3>1. snap[p][Counter] = store[Counter] /\ NextFree(snap[p], n)
        BY <1>1, <2>1, <2>3 DEF OneDraws, SnapshotCurrent
      <3>2. n > store[Counter]
        BY <3>1 DEF NextFree
      <3> QED BY <1>1, <1>2, <2>1, <2>3, <3>2
    <2> QED BY <2>2, <2>3
  <1> QED BY <1>6, <1>7, <1>8, <1>9, <1>10, <1>11, <1>12

LEMMA RetryStep ==
    ASSUME NamingInv, NEW p \in Procs, Retry(p)
    PROVE  NamingInv'
  <1> USE EmptyType DEF NamingInv, TypeOK, Retry, Txn!Abort
  <1>1. TypeOK'
    OBVIOUS
  <1>2. SnapshotCurrent' /\ SeesDrawn'
    BY DEF SnapshotCurrent, SeesDrawn
  <1>3. OneDraws'
    BY DEF OneDraws
  <1> QED BY <1>1, <1>2, <1>3 DEF OwnIds, DrawnUnique

LEMMA RefuseStep ==
    ASSUME NamingInv, NEW p \in Procs, Refuse(p)
    PROVE  NamingInv'
  <1> USE EmptyType, NoDocFacts DEF NamingInv, TypeOK, Refuse, Return, Txn!Abort
  <1>1. TypeOK'
    OBVIOUS
  <1>2. SnapshotCurrent' /\ SeesDrawn'
    BY DEF SnapshotCurrent, SeesDrawn
  <1>3. OneDraws'
    BY DEF OneDraws
  <1>4. OwnIds'
    <2>1. doc' = [doc EXCEPT ![p] = NoDoc] /\ store' = store
      OBVIOUS
    <2>2. \A q \in Procs : doc[q] # NoDoc => doc[q].id # NoDoc.id
      BY KeysAssumption
    <2> QED BY <2>1, <2>2 DEF OwnIds
  <1> QED BY <1>1, <1>2, <1>3, <1>4 DEF DrawnUnique

LEMMA SaveSharedStep ==
    ASSUME NamingInv, SaveShared
    PROVE  NamingInv' /\ store'[Counter] = store[Counter]
  <1> USE KeysAssumption DEF NamingInv
  <1>1. /\ store' = [k \in Keys |-> IF k = Shared THEN 0 ELSE store[k]]
        /\ missed' = [q \in Procs |-> IF q \in open THEN missed[q] \cup {Shared} ELSE {}]
        /\ UNCHANGED <<open, snap, doc, drawn, kept>>
    BY DEF SaveShared, Txn!WriteThrough, Txn!Overlay, TypeOK
  <1>2. (\A d \in Docs : store'[d] = store[d]) /\ store'[Counter] = store[Counter]
    BY <1>1 DEF Keys
  <1>4. TypeOK'
    BY <1>1 DEF TypeOK, Keys
  <1>5. SnapshotCurrent'
    BY <1>1 DEF SnapshotCurrent, TypeOK
  <1>6. OwnIds'
    BY <1>1, <1>2, NoDocFacts DEF OwnIds, TypeOK
  <1>7. OneDraws' /\ SeesDrawn'
    BY <1>1, <1>2 DEF OneDraws, SeesDrawn, TypeOK
  <1>8. DrawnUnique'
    BY <1>1, <1>2 DEF DrawnUnique
  <1> QED BY <1>2, <1>4, <1>5, <1>6, <1>7, <1>8

LEMMA NamingStep ==
    ASSUME NamingInv, [Next]_vars
    PROVE  NamingInv' /\ [AscendStep]_vars
  <1>1. CASE UNCHANGED vars
    BY <1>1 DEF vars, NamingInv, TypeOK, SnapshotCurrent, OwnIds, OneDraws, SeesDrawn, DrawnUnique
  <1>2. CASE SaveShared
    <2>1. store[Counter] \in Nat /\ drawn' = drawn /\ drawn \in [Procs -> Nat]
      BY <1>2 DEF SaveShared, NamingInv, TypeOK, Keys
    <2> QED BY <1>2, <2>1, SaveSharedStep DEF AscendStep
  <1>3. ASSUME NEW p \in Procs, Step(p)
        PROVE  NamingInv' /\ AscendStep
    <2> USE DEF NamingInv, TypeOK, Keys
    <2>1. store[Counter] \in Nat /\ drawn \in [Procs -> Nat]
      OBVIOUS
    <2>2. ASSUME NEW n \in 1..MaxNumber, Draw(p, n)
          PROVE  NamingInv' /\ AscendStep
      <3>1. store' = store /\ \A q \in Procs : drawn'[q] = IF q = p THEN n ELSE drawn[q]
        BY <2>1, <2>2 DEF Draw
      <3>2. NamingInv' /\ n > store[Counter]
        BY <2>2, DrawStep
      <3> HIDE DEF NamingInv
      <3> QED BY <2>1, <3>1, <3>2 DEF AscendStep
    <2>3. CASE Insert(p)
      <3>1. \A q \in Procs : drawn'[q] = IF q = p THEN 0 ELSE drawn[q]
        BY <2>1, <2>3 DEF Insert, Return
      <3>2. NamingInv' /\ store'[Counter] >= store[Counter]
        BY <2>3, InsertStep
      <3> HIDE DEF NamingInv
      <3> QED BY <2>1, <3>1, <3>2 DEF AscendStep
    <2>4. CASE Begin(p) \/ Retry(p) \/ Refuse(p) \/ \E d \in Docs, hooked \in BOOLEAN : Call(p, d, hooked)
      <3>1. store' = store /\ (drawn' = drawn \/ drawn' = [drawn EXCEPT ![p] = 0])
        BY <2>4 DEF Begin, Txn!Begin, Retry, Refuse, Return, Txn!Abort, Call
      <3>2. NamingInv'
        BY <2>4, BeginStep, RetryStep, RefuseStep, CallStep
      <3> QED BY <2>1, <3>1, <3>2 DEF AscendStep
    <2> QED BY <1>3, <2>2, <2>3, <2>4 DEF Step
  <1> QED BY <1>1, <1>2, <1>3 DEF Next

-----------------------------------------------------------------------------
(* The variables keep their types, and an open transaction that raised the *)
(* counter holds the number it drew on the document it inserts.            *)
THEOREM NamingTypeCorrect == Spec => []TypeOK
  <1>1. NamingInv /\ [Next]_vars => NamingInv'
    BY NamingStep
  <1>2. NamingInv => TypeOK
    BY DEF NamingInv
  <1> QED BY NamingInit, <1>1, <1>2, PTL DEF Spec

(* However many inserts of a series race, are rerun and fail, a number     *)
(* that is stored by the transaction which drew it is no one else's.       *)
THEOREM DrawnNumbersUnique == Spec => []DrawnUnique
  <1>1. NamingInv /\ [Next]_vars => NamingInv'
    BY NamingStep
  <1>2. NamingInv => DrawnUnique
    BY DEF NamingInv
  <1> QED BY NamingInit, <1>1, <1>2, PTL DEF Spec

(* The counter of a series never goes back, and every number is drawn from *)
(* above it.                                                               *)
THEOREM CounterAscends == Spec => NumbersAscend
  <1>1. NamingInv /\ [Next]_vars => NamingInv' /\ [AscendStep]_vars
    BY NamingStep
  <1> QED BY NamingInit, <1>1, PTL DEF Spec, NumbersAscend

(* No insert has been rerun with a number in hand: each holds none, or one *)
(* it drew in this transaction, and misses no document but stored ones.    *)
Unkept ==
    /\ kept = {}
    /\ \A p \in Procs : doc[p].number # 0 => drawn[p] # 0
    /\ \A p \in Procs : ~doc[p].hooked
    /\ \A p \in open : missed[p] \cap Docs \subseteq {d \in Docs : store[d] # 0}

(* Without such hooks, no step gives an insert a number to keep.           *)
LEMMA UnkeptStep ==
    ASSUME ~HookWrites, NamingInv, Unkept, [Next]_vars
    PROVE  NamingInv' /\ Unkept'
  <1>0. NamingInv'
    BY NamingStep
  <1> USE NoDocFacts DEF NamingInv, TypeOK, Unkept
  <1>1. CASE UNCHANGED vars
    BY <1>0, <1>1 DEF vars
  <1>2. ~SaveShared
    BY DEF SaveShared
  <1>3. ASSUME NEW p \in Procs, NEW d \in Docs, NEW hooked \in BOOLEAN, Call(p, d, hooked)
        PROVE  Unkept'
    BY <1>3 DEF Call
  <1>4. ASSUME NEW p \in Procs, Begin(p)
        PROVE  Unkept'
    BY <1>4 DEF Begin, Txn!Begin
  <1>5. ASSUME NEW p \in Procs, NEW n \in 1..MaxNumber, Draw(p, n)
        PROVE  Unkept'
    <2>1. /\ doc[p] \in InMemory /\ n # 0
          /\ doc' = [doc EXCEPT ![p].number = n] /\ drawn' = [drawn EXCEPT ![p] = n]
          /\ UNCHANGED <<store, open, snap, missed, kept>>
      BY <1>5 DEF Draw
    <2> QED BY <2>1 DEF InMemory
  <1>6. ASSUME NEW p \in Procs, Insert(p)
        PROVE  Unkept'
    <2>1. /\ p \in open /\ doc[p].number # 0 /\ drawn[p] # 0 /\ doc[p].id \in Docs
          /\ DOMAIN Rows(p) \cap Docs = {doc[p].id} /\ Rows(p)[doc[p].id] = doc[p].number
      BY <1>6, RowFacts DEF Insert
    <2>2. /\ store' = [k \in Keys |-> IF k \in DOMAIN Rows(p) THEN Rows(p)[k] ELSE store[k]]
          /\ open' = open \ {p}
          /\ missed' = [q \in Procs |-> IF q \in open \ {p} THEN missed[q] \cup DOMAIN Rows(p) ELSE {}]
          /\ doc' = [doc EXCEPT ![p] = NoDoc] /\ drawn' = [drawn EXCEPT ![p] = 0] /\ kept' = kept
      BY <1>6, <2>1 DEF Insert, Return, Txn!Commit, Txn!Overlay, Txn!Written
    <2>3. \A d \in Docs : store'[d] = IF d = doc[p].id THEN doc[p].number ELSE store[d]
      BY <2>1, <2>2 DEF Keys
    <2>4. ASSUME NEW q \in Procs
          PROVE  (doc'[q].number # 0 => drawn'[q] # 0) /\ ~doc'[q].hooked
      BY <2>2
    <2>5. ASSUME NEW q \in open', NEW d \in missed'[q] \cap Docs
          PROVE  store'[d] # 0
      <3>1. q \in open /\ q \in Procs /\ d \in missed[q] \cup {doc[p].id}
        BY <2>1, <2>2
      <3> QED BY <2>1, <2>3, <3>1
    <2>6. kept' = {}
      BY <2>2
    <2> QED BY <2>4, <2>5, <2>6
  <1>7. ASSUME NEW p \in Procs, Retry(p)
        PROVE  Unkept'
    <2>1. p \in open /\ doc[p] \in InMemory
      BY <1>7 DEF Retry
    <2>2. CASE doc[p].number # 0
      <3>1. DOMAIN Rows(p) \cap missed[p] # {}
        BY <1>7, <2>2 DEF Retry, Txn!Conflicts, Txn!Written
      <3>2. DOMAIN Rows(p) = {doc[p].id, Counter}
        BY <2>1, <2>2 DEF Rows, Counted, Hooked
      <3>3. Counter \notin missed[p] /\ doc[p].id \notin missed[p]
        BY <2>1, <2>2 DEF OneDraws, OwnIds
      <3> QED BY <3>1, <3>2, <3>3
    <2>3. CASE doc[p].number = 0
      BY <1>7, <2>3 DEF Retry, Txn!Abort
    <2> QED BY <2>2, <2>3
  <1>8. ASSUME NEW p \in Procs, Refuse(p)
        PROVE  Unkept'
    BY <1>8 DEF Refuse, Return, Txn!Abort
  <1> QED BY <1>0, <1>1, <1>2, <1>3, <1>4, <1>5, <1>6, <1>7, <1>8 DEF Next, Step

(* Where the hooks of an insert write nothing that others write, no two    *)
(* documents share a number: the write conflicts hooks bring are all that  *)
(* lets a number be drawn twice.                                           *)
THEOREM NumbersUniqueWithoutHooks ==
    ASSUME ~HookWrites
    PROVE  Spec => []NumbersUnique
  <1>1. Init => NamingInv /\ Unkept
    BY NamingInit, NoDocFacts DEF Init, Unkept
  <1>2. NamingInv /\ Unkept /\ [Next]_vars => NamingInv' /\ Unkept'
    BY UnkeptStep
  <1>3. NamingInv /\ Unkept => NumbersUnique
    BY DEF NamingInv, Unkept, DrawnUnique, NumbersUnique
  <1> QED BY <1>1, <1>2, <1>3, PTL DEF Spec

-----------------------------------------------------------------------------
(* The series with one insert at a time: a document takes the next number  *)
(* that none holds, and the counter stands there.                          *)
SerialInsert(d, n) ==
    /\ store[d] = 0
    /\ NextFree(store, n)
    /\ store' = [store EXCEPT ![d] = n, ![Counter] = n]

SerialSeries ==
    /\ NumbersUnique
    /\ [][\E d \in Docs, n \in Nat : SerialInsert(d, n)]_store

LEMMA InsertSerial ==
    ASSUME NamingInv, Unkept, NEW p \in Procs, Insert(p)
    PROVE  SerialInsert(doc[p].id, doc[p].number)
  <1> DEFINE d == doc[p].id
             n == doc[p].number
  <1> USE NoDocFacts, KeysAssumption DEF NamingInv
  <1>1. /\ p \in open /\ n # 0 /\ n \in Nat /\ d \in Docs /\ d # Counter
        /\ drawn[p] # 0 /\ drawn[p] = n /\ store[d] = 0
        /\ Counter \notin missed[p] /\ NextFree(snap[p], n)
    BY RowFacts DEF Insert, Unkept, OneDraws, OwnIds, TypeOK
  <1>2. DOMAIN Rows(p) = {d, Counter} /\ Rows(p)[d] = n /\ Rows(p)[Counter] = n
    BY <1>1, RowFacts DEF Rows, Counted, Hooked, Unkept
  <1>3. store' = [k \in Keys |-> IF k \in {d, Counter} THEN Rows(p)[k] ELSE store[k]]
    BY <1>2 DEF Insert, Txn!Commit, Txn!Overlay, TypeOK
  <1>4. store' = [store EXCEPT ![d] = n, ![Counter] = n]
    BY <1>1, <1>2, <1>3 DEF TypeOK, Keys
  <1>5. snap[p][Counter] = store[Counter] /\ \A e \in Docs : snap[p][e] = store[e]
    BY <1>1 DEF SnapshotCurrent, SeesDrawn, Unkept, Keys
  <1>6. NextFree(store, n)
    BY <1>1, <1>5 DEF NextFree, Taken
  <1> QED BY <1>1, <1>4, <1>6 DEF SerialInsert

(* Where the hooks of an insert write nothing that others write, a series  *)
(* has neither duplicates nor gaps: a number drawn by an insert that fails *)
(* goes back with its transaction, and the next insert draws it.           *)
THEOREM NumbersAreSerial ==
    ASSUME ~HookWrites
    PROVE  Spec => SerialSeries
  <1>1. Init => NamingInv /\ Unkept /\ NumbersUnique
    BY NamingInit, NoDocFacts DEF Init, Unkept, NumbersUnique
  <1>2. NamingInv /\ Unkept /\ [Next]_vars => NamingInv' /\ Unkept'
    BY UnkeptStep
  <1>3. NamingInv /\ Unkept /\ [Next]_vars => [\E d \in Docs, n \in Nat : SerialInsert(d, n)]_store
    <2> SUFFICES ASSUME NamingInv, Unkept, [Next]_vars, store' # store
                 PROVE  \E d \in Docs, n \in Nat : SerialInsert(d, n)
      OBVIOUS
    <2>1. PICK p \in Procs : Insert(p)
      BY DEF vars, Next, Step, SaveShared, Call, Begin, Txn!Begin, Draw, Retry, Refuse, Txn!Abort
    <2>2. doc[p].id \in Docs /\ doc[p].number \in Nat
      BY <2>1, RowFacts DEF Insert
    <2> QED BY <2>1, <2>2, InsertSerial
  <1> QED BY <1>1, <1>2, <1>3, PTL DEF Spec, SerialSeries
=============================================================================
