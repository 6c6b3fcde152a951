------------------------------ MODULE MongoTxn ------------------------------
(***************************************************************************)
(* Multi-document transactions as MongoDBService.withTransaction runs      *)
(* them: snapshot isolation with a write conflict on the keys a            *)
(* transaction writes, and a driver that reruns the callback after one.    *)
(*                                                                         *)
(* A transaction reads the store as it was when it began (snap).  missed   *)
(* collects the keys other writers committed since.  A transaction that    *)
(* writes a key it missed cannot commit; every other one does, whatever it *)
(* read: that is where write skew comes from, and what the guard keys of   *)
(* touchGuard are for (a guard is a key without a row of its own).         *)
(*                                                                         *)
(* MongoDB reports the conflict at the write and this module at the        *)
(* commit: what commits is the same.  The server may also abort a          *)
(* transaction against one that has not committed yet; the rerun then      *)
(* starts from the same store, so it is not a step of its own here.        *)
(***************************************************************************)
CONSTANTS
    Procs,      \* the concurrent calls
    EmptyStore  \* what a closed transaction's snapshot is reset to

VARIABLES
    store,      \* key |-> row, the committed rows
    open,       \* the processes that are inside a transaction
    snap,       \* snap[p]: the store as p's transaction sees it
    missed      \* missed[p]: the keys committed by others since p began

txnVars == <<store, open, snap, missed>>

TxnInit ==
    /\ store = EmptyStore
    /\ open = {}
    /\ snap = [p \in Procs |-> EmptyStore]
    /\ missed = [p \in Procs |-> {}]

(* The rows a write leaves: the written ones replaced, the others kept.    *)
Overlay(rows) ==
    [k \in DOMAIN store |-> IF k \in DOMAIN rows THEN rows[k] ELSE store[k]]

Written(rows, guards) == DOMAIN rows \cup guards

Conflicts(p, rows, guards) == Written(rows, guards) \cap missed[p] # {}

Begin(p) ==
    /\ p \notin open
    /\ open' = open \cup {p}
    /\ snap' = [snap EXCEPT ![p] = store]
    /\ missed' = [missed EXCEPT ![p] = {}]
    /\ UNCHANGED store

(* The commit of p's transaction, which writes rows and touches guards.    *)
Commit(p, rows, guards) ==
    /\ p \in open
    /\ ~Conflicts(p, rows, guards)
    /\ store' = Overlay(rows)
    /\ open' = open \ {p}
    /\ snap' = [snap EXCEPT ![p] = EmptyStore]
    /\ missed' = [q \in Procs |-> IF q \in open \ {p}
                                    THEN missed[q] \cup Written(rows, guards)
                                    ELSE {}]

(* A throw inside the callback, or a write conflict: nothing is written.   *)
Abort(p) ==
    /\ p \in open
    /\ open' = open \ {p}
    /\ snap' = [snap EXCEPT ![p] = EmptyStore]
    /\ missed' = [missed EXCEPT ![p] = {}]
    /\ UNCHANGED store

(* A write that joins no transaction commits at once.                      *)
WriteThrough(rows) ==
    /\ store' = Overlay(rows)
    /\ missed' = [q \in Procs |-> IF q \in open THEN missed[q] \cup DOMAIN rows ELSE {}]
    /\ UNCHANGED <<open, snap>>

=============================================================================
