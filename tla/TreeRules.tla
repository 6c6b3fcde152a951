----------------------------- MODULE TreeRules ------------------------------
(***************************************************************************)
(* The tree an entity keeps of its nodes: each node stores its parent and, *)
(* as the engine writes them, the ids from the root down to that parent    *)
(* (_ancestors) and its level (_depth).  Concurrent inserts, moves and     *)
(* changes of kind, each a transaction on the store of MongoTxn, judged by *)
(* placeTreeNode and written by writeTreePlacement; deletes beside them;   *)
(* and restampTreeNodes, which places the nodes a seed stored raw.         *)
(*                                                                         *)
(* _tree_rev is not kept as a value: raising it is writing the row, which  *)
(* is all it is for.                                                       *)
(***************************************************************************)
EXTENDS Naturals, Sequences, SequencesExt, FiniteSetsExt

CONSTANTS
    Procs,     \* requests being served
    Nodes,     \* node ids
    KindSet,   \* values of the partition fields: the trees of the entity
    MaxDepth,  \* tree.max_depth
    MaxCalls,  \* bound: the writes and deletes asked for in a behaviour
    None       \* no parent, no node, no tree

ASSUME DepthAssumption == MaxDepth \in Nat \ {0}
ASSUME BoundsAssumption == MaxCalls \in Nat
ASSUME KindAssumption == KindSet # {}
ASSUME NoneAssumption == None \notin Nodes \cup KindSet

VARIABLES
    store, open, snap, missed,  \* see MongoTxn
    req,       \* req[p]: the write p serves
    calls      \* how many have been asked for

vars == <<store, open, snap, missed, req, calls>>

(* What lies above a node: one id less than its level.                     *)
Paths == UNION {[1..k -> Nodes] : k \in 0..(MaxDepth - 1)}

(* A node's row; an id is handed out once, so a deleted one stays so.      *)
Row == [st : {"unused", "stored", "deleted"}, parent : Nodes \cup {None},
        kind : KindSet \cup {None}, ancestors : Paths, depth : 0..MaxDepth]
Unused == [st |-> "unused", parent |-> None, kind |-> None,
           ancestors |-> <<>>, depth |-> 0]
EmptyStore == [n \in Nodes |-> Unused]

Stored(rows) == {n \in Nodes : rows[n].st = "stored"}

Txn == INSTANCE MongoTxn

Requests ==
    [verb : {"insert", "save"}, node : Nodes, parent : Nodes \cup {None}, kind : KindSet]
Idle == [verb |-> "none", node |-> None, parent |-> None, kind |-> None]
Deletion(id) == [Idle EXCEPT !.verb = "delete", !.node = id]

(* The ids inserts under way have been handed.                             *)
Reserved == {req[q].node : q \in {q \in Procs : req[q].verb = "insert"}}

-----------------------------------------------------------------------------
(* The place the rules give a node: below parent, at the end of its path.  *)

PathBelow(rows, parent) ==
    IF parent = None THEN <<>> ELSE Append(rows[parent].ancestors, parent)

(* The subtree a node carries along, found by the ids it keeps.            *)
Subtree(rows, id) == {n \in Stored(rows) : id \in ToSet(rows[n].ancestors)}

HasChildren(rows, id) == \E n \in Stored(rows) : rows[n].parent = id

(* Mutant of Below: a node moves as if it were a leaf.                     *)
BelowAlone(rows, id) == 0

(* How far the deepest node of the subtree lies below its root.            *)
Below(rows, id) ==
    LET depths == {rows[n].depth : n \in Subtree(rows, id)}
    IN  IF depths = {} THEN 0 ELSE Max(depths) - rows[id].depth

(* Mutant of MayChangeTree: the children are not counted.                  *)
MayChangeTreeWithChildren(rows, r) == r.parent = None

(* A node changes trees only as a root, and alone.                         *)
MayChangeTree(rows, r) == r.parent = None /\ ~HasChildren(rows, r.node)

ClosesCycle(rows, r) == r.node \in ToSet(PathBelow(rows, r.parent))

(* placeTreeNode: what a write is refused for.                             *)
Fits(rows, r) ==
    /\ r.parent # None => /\ r.parent \in Stored(rows)
                          /\ ~ClosesCycle(rows, r)
                          /\ rows[r.parent].kind = r.kind
    /\ Len(PathBelow(rows, r.parent)) + 1 + Below(rows, r.node) =< MaxDepth

(* A save that keeps the parent and the tree of a node moves nothing.      *)
StaysPut(rows, r) == r.parent = rows[r.node].parent /\ r.kind = rows[r.node].kind

-----------------------------------------------------------------------------
(* writeTreePlacement.                                                     *)

Behind(row, from, path) ==
    LET kept == SubSeq(row.ancestors, from, Len(row.ancestors))
    IN  [row EXCEPT !.ancestors = path \o kept, !.depth = Len(path) + Len(kept) + 1]

(* Mutant of Carried: the slice starts at id, not behind it.               *)
CarriedTwice(row, id, path) ==
    Behind(row, SelectInSeq(row.ancestors, LAMBDA n : n = id), path)

(* A node below keeps the part of its path below id, behind id's new path. *)
Carried(row, id, path) ==
    Behind(row, SelectInSeq(row.ancestors, LAMBDA n : n = id) + 1, path)

Placed(rows, r) ==
    LET path == PathBelow(rows, r.parent)
    IN  [n \in {r.node} \cup Subtree(rows, r.node) |->
           IF n = r.node
             THEN [st |-> "stored", parent |-> r.parent, kind |-> r.kind,
                   ancestors |-> path, depth |-> Len(path) + 1]
             ELSE Carried(rows[n], r.node, Append(path, r.node))]

(* Mutant of Touched: the parent's revision is not raised.                 *)
TouchedNone(r) == {}

(* The new parent, whose _tree_rev every placement below it raises.        *)
Touched(r) == {r.parent} \ {None}

-----------------------------------------------------------------------------
(* One more write or delete is asked for.                                  *)
Asked == calls < MaxCalls /\ calls' = calls + 1

(* A write of a node: its transaction begins at once and judges the write. *)
Request(p, r) ==
    /\ req[p] = Idle
    /\ Asked
    /\ r.verb = "insert" => r.node \notin Reserved /\ store[r.node].st = "unused"
    /\ r.verb = "save" => r.node \in Stored(store)
    /\ Txn!Begin(p)
    /\ req' = [req EXCEPT ![p] = r]

(* A delete, which is judged here, before its transaction.                 *)
RequestDelete(p, id) ==
    /\ req[p] = Idle
    /\ Asked
    /\ id \in Stored(store)
    /\ ~HasChildren(store, id)
    /\ req' = [req EXCEPT ![p] = Deletion(id)]
    /\ UNCHANGED <<store, open, snap, missed>>

(* The transaction of a delete; the rerun of any.                          *)
Begin(p) ==
    /\ req[p] # Idle
    /\ Txn!Begin(p)
    /\ UNCHANGED <<req, calls>>

InTxn(p, verb) == p \in open /\ req[p].verb = verb

Commit(p, rows, guards) ==
    /\ Txn!Commit(p, rows, guards)
    /\ req' = [req EXCEPT ![p] = Idle]
    /\ UNCHANGED calls

Insert(p) ==
    /\ InTxn(p, "insert")
    /\ Fits(snap[p], req[p])
    /\ Commit(p, Placed(snap[p], req[p]), Touched(req[p]))

(* update: a save of a node, which moves it when its parent or its tree    *)
(* is not the stored one.                                                  *)
Save(p) ==
    /\ InTxn(p, "save")
    /\ req[p].node \in Stored(snap[p])
    /\ IF StaysPut(snap[p], req[p])
         THEN Commit(p, [n \in {req[p].node} |-> snap[p][n]], {})
         ELSE /\ req[p].kind # snap[p][req[p].node].kind => MayChangeTree(snap[p], req[p])
              /\ Fits(snap[p], req[p])
              /\ Commit(p, Placed(snap[p], req[p]), Touched(req[p]))

(* runDelete judges nothing again.                                         *)
Delete(p) ==
    /\ InTxn(p, "delete")
    /\ req[p].node \in Stored(snap[p])
    /\ Commit(p, [n \in {req[p].node} |-> [snap[p][n] EXCEPT !.st = "deleted"]], {})

(* A write conflict: the driver reruns the callback.                       *)
Retry(p) ==
    /\ p \in open
    /\ missed[p] # {}
    /\ Txn!Abort(p)
    /\ UNCHANGED <<req, calls>>

(* Mutant of Refuse: the throw ends the call and leaves the session open.  *)
RefuseLeaks(p) ==
    /\ p \in open
    /\ req' = [req EXCEPT ![p] = Idle]
    /\ UNCHANGED <<store, open, snap, missed, calls>>

(* A refusal, or a hook that throws.                                       *)
Refuse(p) ==
    /\ p \in open
    /\ Txn!Abort(p)
    /\ req' = [req EXCEPT ![p] = Idle]
    /\ UNCHANGED calls

-----------------------------------------------------------------------------
(* restampTreeNodes.                                                       *)

(* ids are the nodes a climb from n meets, parent by parent, the root      *)
(* first.                                                                  *)
IsChain(rows, n, ids) ==
    LET above(i) == IF i = 0 THEN None ELSE ids[i]
    IN  /\ rows[n].parent = above(Len(ids))
        /\ \A i \in 1..Len(ids) : rows[ids[i]].parent = above(i - 1)

Climbed(raw, n) == CHOOSE ids \in Paths : IsChain(raw, n, ids)

(* Every climb ends at a root, within MaxDepth, over stored nodes of one   *)
(* tree; a seed with any other is refused whole.                           *)
ValidSeed(raw) ==
    \A n \in Stored(raw) :
        /\ \E ids \in Paths : IsChain(raw, n, ids)
        /\ raw[n].parent # None => /\ raw[n].parent \in Stored(raw)
                                   /\ raw[n].kind = raw[raw[n].parent].kind

Restamped(raw) ==
    [n \in Nodes |-> IF n \in Stored(raw)
                       THEN [raw[n] EXCEPT !.ancestors = Climbed(raw, n),
                                           !.depth = Len(Climbed(raw, n)) + 1]
                       ELSE raw[n]]

(* The rows as a seed stores them: a parent and a tree, no place yet.      *)
RawRows ==
    {Unused} \cup [st : {"stored"}, parent : Nodes \cup {None}, kind : KindSet,
                   ancestors : {<<>>}, depth : {0}]

Init ==
    /\ store \in {Restamped(raw) : raw \in {rows \in [Nodes -> RawRows] : ValidSeed(rows)}}
    /\ open = {}
    /\ snap = [p \in Procs |-> EmptyStore]
    /\ missed = [p \in Procs |-> {}]
    /\ req = [p \in Procs |-> Idle]
    /\ calls = 0

Next ==
    \E p \in Procs :
        \/ \E r \in Requests : Request(p, r)
        \/ \E id \in Nodes : RequestDelete(p, id)
        \/ Begin(p) \/ Insert(p) \/ Save(p) \/ Delete(p) \/ Retry(p) \/ Refuse(p)

Spec == Init /\ [][Next]_vars

-----------------------------------------------------------------------------
(* Every variable has its type; only a stored row has a place.             *)
TypeOK ==
    /\ store \in [Nodes -> Row]
    /\ open \subseteq Procs
    /\ snap \in [Procs -> [Nodes -> Row]]
    /\ missed \in [Procs -> SUBSET Nodes]
    /\ req \in [Procs -> Requests \cup {Idle} \cup {Deletion(id) : id \in Nodes}]
    /\ calls \in 0..MaxCalls
    /\ \A n \in Nodes : store[n].st = "unused" => store[n] = Unused
    /\ \A p \in open : req[p] # Idle

(* The ids a node keeps are those a climb by the parents meets, deleted    *)
(* ones on the way too, and its level is their number and one.  Menus,     *)
(* breadcrumbs, subtree filters and the rules themselves read these copies *)
(* and never climb.                                                        *)
AncestorsFaithful ==
    \A n \in Stored(store) :
        /\ store[n].depth = Len(store[n].ancestors) + 1
        /\ IsChain(store, n, store[n].ancestors)

(* No two moves close a cycle between them: no nodes have all of their     *)
(* parents among themselves.                                               *)
NoCycle ==
    \A S \in SUBSET Stored(store) : S # {} => \E n \in S : store[n].parent \notin S

(* A climb from a node ends at a root within max_depth, however moves and  *)
(* inserts above and below it raced.                                       *)
DepthBound == \A n \in Stored(store) : \E ids \in Paths : IsChain(store, n, ids)

(* A node is in the tree of its parent.                                    *)
OneKindPerTree ==
    \A n \in Stored(store) :
        store[n].parent \in Stored(store) => store[n].kind = store[store[n].parent].kind

=============================================================================
