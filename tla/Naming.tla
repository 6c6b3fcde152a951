------------------------------- MODULE Naming -------------------------------
(***************************************************************************)
(* The document numbers of one series: performInsert draws a number for    *)
(* the business key from the counter of _sequences inside its transaction  *)
(* (generateSeries, resolveUniqueSequence), and keeps it on the document   *)
(* it builds, which a rerun of the transaction's callback meets again.     *)
(*                                                                         *)
(* The store holds the number of each document (0: no such document), the  *)
(* counter, and one row the hooks of some inserts also write.  No caller   *)
(* gives a number of its own, and the field has no unique index.           *)
(***************************************************************************)
EXTENDS Naturals

CONSTANTS
    Procs,       \* inserts being served
    Docs,        \* document ids (_id, an ObjectId of its own per insert)
    Counter,     \* the key of the series' counter
    Shared,      \* the key of the row hooks write
    MaxNumber,   \* bound: the highest number a run draws
    MaxSkips,    \* MAX_SEQUENCE_SKIP_ATTEMPTS
    HookWrites   \* TRUE iff hooks of some inserts write a row others write too

ASSUME BoundAssumption == MaxNumber \in Nat /\ MaxSkips \in Nat
ASSUME HookAssumption == HookWrites \in BOOLEAN
ASSUME KeysAssumption == Counter \notin Docs /\ Shared \notin Docs /\ Counter # Shared

VARIABLES
    store, open, snap, missed,  \* see MongoTxn
    doc,       \* doc[p]: the document p inserts, as it stands in memory
    drawn,     \* drawn[p]: what p's open transaction has raised the counter to, or 0
    kept       \* the documents stored with a number an aborted attempt had drawn

vars == <<store, open, snap, missed, doc, drawn, kept>>

Keys == Docs \cup {Counter, Shared}
EmptyStore == [k \in Keys |-> 0]

(* The document an insert builds; hooked: its hooks write the shared row.  *)
InMemory == [id : Docs, number : Nat, hooked : BOOLEAN]
NoDoc == [id |-> Counter, number |-> 0, hooked |-> FALSE]

Txn == INSTANCE MongoTxn

Taken(rows) == {rows[d] : d \in Docs} \ {0}

-----------------------------------------------------------------------------
(* insert is called, without a number.                                     *)
Call(p, d, hooked) ==
    /\ doc[p] = NoDoc
    /\ store[d] = 0 /\ \A q \in Procs : doc[q].id # d
    /\ hooked => HookWrites
    /\ doc' = [doc EXCEPT ![p] = [id |-> d, number |-> 0, hooked |-> hooked]]
    /\ UNCHANGED <<store, open, snap, missed, drawn, kept>>

Begin(p) ==
    /\ doc[p] # NoDoc
    /\ Txn!Begin(p)
    /\ UNCHANGED <<doc, drawn, kept>>

(* Mutant of CounterFree: the counter is read, and not incremented in the  *)
(* session.                                                                *)
CounterFreeAlways(p) == TRUE

(* No other open transaction has raised the counter, and none has since    *)
(* this one began: $inc would report a write conflict.                     *)
CounterFree(p) ==
    /\ \A q \in Procs \ {p} : drawn[q] = 0
    /\ Counter \notin missed[p]

(* Mutant of NextFree: the counter is trusted, drift and all.              *)
NextFreeTrusting(rows, n) == n = rows[Counter] + 1

(* n is the next number no document of the series holds: the counter is    *)
(* raised past every occupied one.                                         *)
NextFree(rows, n) ==
    /\ n > rows[Counter] /\ n \notin Taken(rows)
    /\ \A k \in rows[Counter] + 1 .. n - 1 : k \in Taken(rows)

(* Only a document without a number draws one.                             *)
Draw(p, n) ==
    /\ p \in open /\ doc[p].number = 0
    /\ CounterFree(p)
    /\ NextFree(snap[p], n)
    /\ n - snap[p][Counter] - 1 =< MaxSkips
    /\ drawn' = [drawn EXCEPT ![p] = n]
    /\ doc' = [doc EXCEPT ![p].number = n]
    /\ UNCHANGED <<store, open, snap, missed, kept>>

Counted(p) == IF drawn[p] = 0 THEN {} ELSE {Counter}

Hooked(p) == IF doc[p].hooked THEN {Shared} ELSE {}

(* What the insert writes: its document, the counter it raised, and what   *)
(* its hooks write.                                                        *)
Rows(p) ==
    [k \in {doc[p].id} \cup Counted(p) \cup Hooked(p) |->
       CASE k = Counter -> drawn[p]
         [] k = Shared  -> 0
         [] OTHER       -> doc[p].number]

Return(p) ==
    /\ doc' = [doc EXCEPT ![p] = NoDoc]
    /\ drawn' = [drawn EXCEPT ![p] = 0]

Insert(p) ==
    /\ p \in open /\ doc[p].number # 0
    /\ Txn!Commit(p, Rows(p), {})
    /\ kept' = IF drawn[p] = 0 THEN kept \cup {doc[p].id} ELSE kept
    /\ Return(p)

(* A write conflict, on the counter before a number is drawn or on any row *)
(* after: the driver aborts and reruns the callback, on the same document. *)
Retry(p) ==
    /\ p \in open
    /\ IF doc[p].number = 0 THEN Counter \in missed[p] ELSE Txn!Conflicts(p, Rows(p), {})
    /\ Txn!Abort(p)
    /\ drawn' = [drawn EXCEPT ![p] = 0]
    /\ UNCHANGED <<doc, kept>>

(* Mutant of Refuse: the throw ends the call and leaves the session open.  *)
RefuseLeaks(p) ==
    /\ p \in open
    /\ Return(p) /\ UNCHANGED <<store, open, snap, missed, kept>>

(* A hook or a validation that throws; a counter too far behind.           *)
Refuse(p) ==
    /\ p \in open
    /\ Txn!Abort(p)
    /\ Return(p) /\ UNCHANGED kept

(* A save of the shared row from elsewhere.                                *)
SaveShared ==
    /\ HookWrites
    /\ Txn!WriteThrough([k \in {Shared} |-> 0])
    /\ UNCHANGED <<doc, drawn, kept>>

-----------------------------------------------------------------------------
(* Seeded and imported rows hold numbers the counter has not reached.      *)
Init ==
    /\ store \in {rows \in [Keys -> 0..MaxNumber] :
                    /\ rows[Shared] = 0
                    /\ \A d, e \in Docs : d # e /\ rows[d] # 0 => rows[d] # rows[e]}
    /\ open = {}
    /\ snap = [p \in Procs |-> EmptyStore]
    /\ missed = [p \in Procs |-> {}]
    /\ doc = [p \in Procs |-> NoDoc]
    /\ drawn = [p \in Procs |-> 0]
    /\ kept = {}

Step(p) ==
    \/ \E d \in Docs, hooked \in BOOLEAN : Call(p, d, hooked)
    \/ \E n \in 1..MaxNumber : Draw(p, n)
    \/ Begin(p) \/ Insert(p) \/ Retry(p) \/ Refuse(p)

Next == SaveShared \/ \E p \in Procs : Step(p)

Spec == Init /\ [][Next]_vars

-----------------------------------------------------------------------------
(* Every variable has its type; a transaction that raised the counter is   *)
(* open, and its document has the number.                                  *)
TypeOK ==
    /\ store \in [Keys -> Nat]
    /\ open \subseteq Procs
    /\ snap \in [Procs -> [Keys -> Nat]]
    /\ missed \in [Procs -> SUBSET Keys]
    /\ doc \in [Procs -> InMemory \cup {NoDoc}]
    /\ drawn \in [Procs -> Nat]
    /\ kept \subseteq Docs
    /\ \A p \in open : doc[p] # NoDoc
    /\ \A p \in Procs : drawn[p] # 0 => p \in open /\ drawn[p] = doc[p].number

(* A number drawn in the transaction that stores it is no one else's,      *)
(* seeded, imported or drawn, however the inserts raced: of two documents  *)
(* with one number, one was stored with a number an aborted attempt drew.  *)
DrawnUnique ==
    \A d, e \in Docs \ kept : d # e /\ store[d] # 0 => store[d] # store[e]

(* The business key is unique per entity: no two documents hold one        *)
(* number, however the inserts that drew theirs raced and were rerun.      *)
NumbersUnique ==
    \A d, e \in Docs : d # e /\ store[d] # 0 => store[d] # store[e]

(* The counter is never rewound, and a number that is drawn lies above     *)
(* every number the counter has reached by then.                           *)
AscendStep ==
    /\ store'[Counter] >= store[Counter]
    /\ \A p \in Procs : drawn'[p] > drawn[p] => drawn'[p] > store[Counter]

NumbersAscend == [][AscendStep]_vars

=============================================================================
