--------------------------- MODULE TreeRulesProofs ---------------------------
(***************************************************************************)
(* Proofs about TreeRules, for any number of requests, nodes and trees and *)
(* every max_depth.                                                        *)
(***************************************************************************)
EXTENDS TreeRules, SequenceTheorems, WellFoundedInduction, TLAPS

-----------------------------------------------------------------------------
(* Numbers.                                                                *)

(* A set of naturals that is not empty has a least one.                    *)
LEMMA LeastOf ==
    ASSUME NEW S, S \subseteq Nat, S # {}
    PROVE  \E x \in S : \A y \in S : x =< y
  <1>1. \E x \in S : \A y \in S : ~ (<<y, x>> \in OpToRel(<, Nat))
    BY NatLessThanWellFounded, WFMin
  <1>2. PICK x \in S : \A y \in S : ~ (<<y, x>> \in OpToRel(<, Nat))
    BY <1>1
  <1>3. ASSUME NEW y \in S PROVE x =< y
    <2>1. y < x => <<y, x>> \in OpToRel(<, Nat)
      BY DEF OpToRel
    <2>2. ~ (y < x)
      BY <1>2, <2>1
    <2> QED BY <2>2
  <1> QED BY <1>3

(* The largest of a set of naturals below a bound is in it and bounds it.  *)
LEMMA MaxOf ==
    ASSUME NEW b \in Nat, NEW S \in SUBSET (0..b), S # {}
    PROVE  Max(S) \in S /\ \A y \in S : Max(S) >= y
  <1> DEFINE slack == {b - y : y \in S}
  <1>1. slack \subseteq Nat /\ slack # {}
    <2>1. \A y \in S : b - y \in Nat
      OBVIOUS
    <2> QED BY <2>1
  <1>2. PICK z \in slack : \A w \in slack : z =< w
    BY <1>1, LeastOf
  <1>3. PICK x \in S : z = b - x
    BY <1>2
  <1>4. ASSUME NEW y \in S PROVE x >= y
    <2>1. b - x =< b - y
      BY <1>2, <1>3
    <2> QED BY <2>1
  <1> QED BY <1>3, <1>4 DEF Max

(* The place of the first item of a sequence that is e.                    *)
LEMMA FirstPlace ==
    ASSUME NEW s, NEW e, NEW i \in 1..Len(s), s[i] = e
    PROVE  LET k == SelectInSeq(s, LAMBDA n : n = e) IN k \in 1..Len(s) /\ s[k] = e
  <1> DEFINE I == {j \in 1..Len(s) : s[j] = e}
  <1>1. I # {} /\ I \subseteq Nat
    OBVIOUS
  <1>2. Min(I) \in I
    BY <1>1, LeastOf DEF Min
  <1>3. SelectInSeq(s, LAMBDA n : n = e) = Min(I)
    BY <1>1 DEF SelectInSeq
  <1> QED BY <1>2, <1>3

-----------------------------------------------------------------------------
(* Chains.                                                                 *)

(* A path is a sequence of nodes shorter than max_depth, and such a        *)
(* sequence is a path.                                                     *)
LEMMA SeqOfPath ==
    ASSUME NEW ids \in Paths
    PROVE  ids \in Seq(Nodes) /\ Len(ids) \in 0..(MaxDepth - 1)
  <1>1. PICK k \in 0..(MaxDepth - 1) : ids \in [1..k -> Nodes]
    BY DEF Paths
  <1> QED BY <1>1, DepthAssumption

LEMMA PathOfSeq ==
    ASSUME NEW ids \in Seq(Nodes), Len(ids) < MaxDepth
    PROVE  ids \in Paths
  <1>1. Len(ids) \in 0..(MaxDepth - 1) /\ ids \in [1..Len(ids) -> Nodes]
    BY LenProperties, DepthAssumption
  <1> QED BY <1>1 DEF Paths

(* The first k nodes of a are a line: each is the parent of the next, and  *)
(* the first is a root.                                                    *)
Line(rows, a, k) ==
    \A i \in 1..k :
      /\ a[i] \in Nodes
      /\ i = 1 => rows[a[i]].parent = None
      /\ i # 1 => rows[a[i]].parent = a[i - 1]

(* A chain and the node it ends above are one.                             *)
LEMMA LineDown ==
    ASSUME NEW rows, NEW n \in Nodes, NEW s \in Seq(Nodes), IsChain(rows, n, s)
    PROVE  Line(rows, Append(s, n), Len(s) + 1)
  <1> SUFFICES ASSUME NEW i \in 1..(Len(s) + 1)
               PROVE  /\ Append(s, n)[i] \in Nodes
                      /\ i = 1 => rows[Append(s, n)[i]].parent = None
                      /\ i # 1 => rows[Append(s, n)[i]].parent = Append(s, n)[i - 1]
    BY DEF Line
  <1>1. Len(s) \in Nat
    OBVIOUS
  <1>2. CASE i = Len(s) + 1
    BY <1>1, <1>2, AppendProperties DEF IsChain
  <1>3. CASE i \in 1..Len(s)
    BY <1>1, <1>3, AppendProperties, ElementOfSeq DEF IsChain
  <1> QED BY <1>1, <1>2, <1>3

(* A node has one level: two lines that meet in it count the same nodes    *)
(* above it.                                                               *)
LEMMA OneLevel ==
    ASSUME NEW rows,
           NEW a, NEW k \in Nat, Line(rows, a, k), NEW i \in 1..k,
           NEW b, NEW l \in Nat, Line(rows, b, l), NEW j \in 1..l,
           a[i] = b[j]
    PROVE  i = j
  <1> DEFINE Odd == {x \in 1..k : \E y \in 1..l : x # y /\ a[x] = b[y]}
  <1>1. SUFFICES ASSUME Odd # {} PROVE FALSE
    OBVIOUS
  <1>2. Odd \subseteq Nat
    OBVIOUS
  <1>3. PICK x \in Odd : \A z \in Odd : x =< z
    BY <1>1, <1>2, LeastOf
  <1>4. PICK y \in 1..l : x # y /\ a[x] = b[y]
    BY <1>3
  <1>5. x \in 1..k /\ x \in Nat /\ y \in Nat
    BY <1>3, <1>4
  <1>6. /\ a[x] \in Nodes
        /\ x = 1 => rows[a[x]].parent = None
        /\ x # 1 => rows[a[x]].parent = a[x - 1] /\ x - 1 \in 1..k /\ a[x - 1] \in Nodes
    BY <1>5 DEF Line
  <1>7. /\ y = 1 => rows[b[y]].parent = None
        /\ y # 1 => rows[b[y]].parent = b[y - 1] /\ y - 1 \in 1..l /\ b[y - 1] \in Nodes
    BY <1>4, <1>5 DEF Line
  <1>8. x # 1 /\ y # 1
    BY <1>4, <1>6, <1>7, NoneAssumption
  <1>9. x - 1 # y - 1
    BY <1>4, <1>5
  <1>10. x - 1 \in Odd
    BY <1>4, <1>6, <1>7, <1>8, <1>9
  <1> QED BY <1>3, <1>5, <1>10

(* So a node meets no node twice above it, nor itself, and a node that is  *)
(* met has its own level.                                                  *)
LEMMA OnceAbove ==
    ASSUME NEW rows, NEW n \in Nodes, NEW s \in Seq(Nodes), IsChain(rows, n, s)
    PROVE  /\ \A i, j \in 1..Len(s) : s[i] = s[j] => i = j
           /\ \A i \in 1..Len(s) : s[i] # n
           /\ \A i \in 1..Len(s) : \A t \in Seq(Nodes) : IsChain(rows, s[i], t) => i = Len(t) + 1
  <1> DEFINE a == Append(s, n)
             k == Len(s) + 1
  <1>1. k \in Nat /\ k - 1 = Len(s) /\ k - 1 \in Nat
    OBVIOUS
  <1>2. /\ \A i \in 1..Len(s) : a[i] = s[i] /\ s[i] \in Nodes
        /\ a[k] = n
    BY AppendProperties, ElementOfSeq
  <1>3. Line(rows, a, k)
    BY LineDown
  <1> HIDE DEF a, k
  <1>4. \A i \in 1..Len(s) : i \in 1..k /\ i # k /\ k \in 1..k
    BY <1>1
  <1>5. \A i, j \in 1..k : a[i] = a[j] => i = j
    BY <1>1, <1>3, OneLevel
  <1>6. ASSUME NEW i \in 1..Len(s), NEW t \in Seq(Nodes), IsChain(rows, s[i], t)
        PROVE  i = Len(t) + 1
    <2> DEFINE b == Append(t, s[i])
               l == Len(t) + 1
    <2>1. b[l] = s[i] /\ l \in Nat /\ l \in 1..l
      BY <1>2, AppendProperties
    <2>2. Line(rows, b, l)
      BY <1>2, <1>6, LineDown
    <2> HIDE DEF b, l
    <2>3. i = l
      BY <1>1, <1>2, <1>3, <1>4, <2>1, <2>2, OneLevel
    <2> QED BY <2>3 DEF l
  <1> QED BY <1>2, <1>4, <1>5, <1>6

-----------------------------------------------------------------------------
(* A placement, on the rows it is judged on.                               *)

(* What a set of rows keeps: a stored node's ids are its chain and its     *)
(* level counts them; its parent has been stored, and in its tree.         *)
Faithful(rows) ==
    \A n \in Stored(rows) :
      /\ rows[n].depth = Len(rows[n].ancestors) + 1
      /\ IsChain(rows, n, rows[n].ancestors)

Kindred(rows) ==
    \A n \in Stored(rows) : rows[n].parent # None =>
      /\ rows[rows[n].parent].st # "unused"
      /\ rows[n].kind = rows[rows[n].parent].kind

Rows == [Nodes -> Row]

(* The fields of a row have their types.                                   *)
LEMMA RowFacts ==
    ASSUME NEW rows \in Rows, NEW n \in Nodes
    PROVE  /\ rows[n].st \in {"unused", "stored", "deleted"}
           /\ rows[n].parent \in Nodes \cup {None}
           /\ rows[n].kind \in KindSet \cup {None}
           /\ rows[n].ancestors \in Paths
           /\ rows[n].ancestors \in Seq(Nodes)
           /\ Len(rows[n].ancestors) \in 0..(MaxDepth - 1)
           /\ rows[n].depth \in 0..MaxDepth
  <1>1. rows[n] \in Row
    BY DEF Rows
  <1>2. rows[n].ancestors \in Paths
    BY <1>1 DEF Row
  <1> QED BY <1>1, <1>2, SeqOfPath DEF Row

(* What a path holds stands at some place of it.                           *)
LEMMA InPath ==
    ASSUME NEW s \in Seq(Nodes), NEW e
    PROVE  e \in ToSet(s) <=> \E i \in 1..Len(s) : s[i] = e
  <1>1. DOMAIN s = 1..Len(s)
    OBVIOUS
  <1> QED BY <1>1 DEF ToSet

(* The path below a parent: its chain, then itself.                        *)
LEMMA PathDown ==
    ASSUME NEW rows \in Rows, Faithful(rows), NEW parent \in Stored(rows) \cup {None}
    PROVE  LET path == PathBelow(rows, parent) IN
           /\ path \in Seq(Nodes)
           /\ Len(path) \in Nat
           /\ parent = IF Len(path) = 0 THEN None ELSE path[Len(path)]
           /\ \A i \in 1..Len(path) :
                 rows[path[i]].parent = IF i = 1 THEN None ELSE path[i - 1]
  <1> DEFINE path == PathBelow(rows, parent)
  <1>1. CASE parent = None
    <2>1. path = <<>>
      BY <1>1 DEF PathBelow
    <2> QED BY <1>1, <2>1
  <1>2. CASE parent # None
    <2> DEFINE s == rows[parent].ancestors
    <2>1. parent \in Nodes /\ path = Append(s, parent)
      BY <1>2 DEF PathBelow, Stored
    <2>2. s \in Seq(Nodes) /\ Len(s) \in Nat /\ IsChain(rows, parent, s)
      BY <1>2, <2>1, RowFacts DEF Faithful
    <2> HIDE DEF s, path
    <2>3. path \in Seq(Nodes) /\ Len(path) = Len(s) + 1 /\ path[Len(s) + 1] = parent
      BY <2>1, <2>2, AppendProperties
    <2>4. Line(rows, path, Len(s) + 1)
      BY <2>1, <2>2, LineDown
    <2>5. \A i \in 1..Len(path) : rows[path[i]].parent = IF i = 1 THEN None ELSE path[i - 1]
      BY <2>3, <2>4 DEF Line
    <2> QED BY <1>2, <2>2, <2>3, <2>5 DEF path
  <1> QED BY <1>1, <1>2

(* new is row, carried along behind path: the ids of the new path, id,     *)
(* which was the k-th above row, and what lay between the two.             *)
Rebased(row, id, k, path, new) ==
    LET rest == Len(row.ancestors) - k
    IN  /\ \A i \in 1..Len(row.ancestors) : row.ancestors[i] = id <=> i = k
        /\ new = [row EXCEPT !.ancestors = new.ancestors, !.depth = new.depth]
        /\ new.ancestors \in Seq(Nodes)
        /\ Len(new.ancestors) = Len(path) + 1 + rest
        /\ new.depth = Len(path) + 1 + rest + 1
        /\ \A i \in 1..Len(path) : new.ancestors[i] = path[i]
        /\ new.ancestors[Len(path) + 1] = id
        /\ \A i \in 1..rest : new.ancestors[Len(path) + 1 + i] = row.ancestors[k + i]

(* Carried carries a row along so, whichever place id has in its path.     *)
LEMMA CarriedPath ==
    ASSUME NEW rows \in Rows, NEW n \in Nodes, NEW id \in Nodes, NEW path \in Seq(Nodes),
           NEW k \in 1..Len(rows[n].ancestors),
           \A i \in 1..Len(rows[n].ancestors) : rows[n].ancestors[i] = id <=> i = k
    PROVE  Rebased(rows[n], id, k, path, Carried(rows[n], id, Append(path, id)))
  <1> DEFINE s == rows[n].ancestors
             from == SelectInSeq(s, LAMBDA m : m = id) + 1
             kept == SubSeq(s, from, Len(s))
             base == Append(path, id)
             new == Carried(rows[n], id, base)
  <1>1. s \in Seq(Nodes) /\ Len(s) \in Nat /\ Len(path) \in Nat /\ k \in Nat /\ Len(s) - k \in Nat
    BY RowFacts
  <1>2. from = k + 1
    BY FirstPlace
  <1>3. /\ kept \in Seq(Nodes) /\ Len(kept) = Len(s) - k
        /\ \A i \in 1..(Len(s) - k) : kept[i] = s[k + i]
    <2>1. k + 1 \in Int /\ Len(s) \in Int /\ \A i \in (k + 1)..Len(s) : s[i] \in Nodes
      BY <1>1, ElementOfSeq
    <2> DEFINE tail == SubSeq(s, k + 1, Len(s))
    <2>2. /\ tail \in Seq(Nodes)
          /\ Len(tail) = IF k + 1 <= Len(s) THEN Len(s) - (k + 1) + 1 ELSE 0
          /\ \A i \in 1..(Len(s) - (k + 1) + 1) : tail[i] = s[(k + 1) + i - 1]
      BY <2>1, SubSeqProperties
    <2>3. kept = tail
      BY <1>2
    <2> HIDE DEF kept, tail, s
    <2>4. Len(tail) = Len(s) - k
      BY <1>1, <2>2
    <2>5. ASSUME NEW i \in 1..(Len(s) - k) PROVE tail[i] = s[k + i]
      <3>1. i \in 1..(Len(s) - (k + 1) + 1) /\ (k + 1) + i - 1 = k + i
        BY <1>1
      <3> QED BY <2>2, <3>1
    <2> QED BY <2>2, <2>3, <2>4, <2>5
  <1>4. /\ base \in Seq(Nodes) /\ Len(base) = Len(path) + 1 /\ base[Len(path) + 1] = id
        /\ \A i \in 1..Len(path) : base[i] = path[i]
    BY AppendProperties
  <1>5. new = [rows[n] EXCEPT !.ancestors = base \o kept, !.depth = Len(base) + Len(kept) + 1]
    BY DEF Carried, Behind
  <1>6. rows[n] \in Row
    BY DEF Rows
  <1> HIDE DEF s, from, kept, base, new
  <1>7. /\ base \o kept \in Seq(Nodes)
        /\ Len(base \o kept) = Len(base) + Len(kept)
        /\ \A i \in 1..Len(base) + Len(kept) : (base \o kept)[i] =
              IF i <= Len(base) THEN base[i] ELSE kept[i - Len(base)]
    <2>1. base \in Seq(Nodes) /\ kept \in Seq(Nodes)
      BY <1>3, <1>4
    <2> QED BY <2>1, ConcatProperties, Zenon
  <1>8. new.ancestors = base \o kept /\ new.depth = Len(base) + Len(kept) + 1
    BY <1>5, <1>6 DEF Row
  <1>9. new = [rows[n] EXCEPT !.ancestors = new.ancestors, !.depth = new.depth]
    BY <1>5, <1>8
  <1>10. \A i \in 1..Len(path) + 1 : new.ancestors[i] = base[i]
    BY <1>1, <1>3, <1>4, <1>7, <1>8
  <1>11. ASSUME NEW i \in 1..(Len(s) - k)
         PROVE  new.ancestors[Len(path) + 1 + i] = s[k + i]
    <2>1. Len(path) + 1 + i \in 1..Len(base) + Len(kept) /\ ~(Len(path) + 1 + i <= Len(base))
      BY <1>1, <1>3, <1>4
    <2>2. Len(path) + 1 + i - Len(base) = i
      BY <1>1, <1>4
    <2> QED BY <1>3, <1>7, <1>8, <2>1, <2>2
  <1>12. \A i \in 1..Len(path) : new.ancestors[i] = path[i]
    BY <1>1, <1>4, <1>10
  <1>13. new.ancestors[Len(path) + 1] = id
    BY <1>1, <1>4, <1>10
  <1>14. Len(new.ancestors) = Len(path) + 1 + (Len(s) - k) /\ new.depth = Len(path) + 1 + (Len(s) - k) + 1
    BY <1>3, <1>4, <1>7, <1>8
  <1>15. new.ancestors \in Seq(Nodes)
    BY <1>7, <1>8
  <1> QED BY <1>9, <1>11, <1>12, <1>13, <1>14, <1>15 DEF Rebased, s, new, base

-----------------------------------------------------------------------------
(* The rows after a write r is placed.                                     *)
After(rows, r) ==
    [n \in Nodes |-> IF n \in DOMAIN Placed(rows, r) THEN Placed(rows, r)[n] ELSE rows[n]]

(* A write that may be placed on the rows: it fits, and its node is stored *)
(* or new.                                                                 *)
Placeable(rows, r) ==
    /\ Fits(rows, r)
    /\ r.node \in Stored(rows) \/ rows[r.node] = Unused

(* The fields of a request have their types.                               *)
LEMMA RequestFacts ==
    ASSUME NEW r \in Requests
    PROVE  /\ r.verb \in {"insert", "save"} /\ r.node \in Nodes
           /\ r.parent \in Nodes \cup {None} /\ r.kind \in KindSet /\ r.node # None
  BY NoneAssumption DEF Requests

(* Where the node that moves stands in the path of one below it.           *)
LEMMA BelowFacts ==
    ASSUME NEW rows \in Rows, Faithful(rows), NEW id \in Nodes, NEW n \in Subtree(rows, id),
           id \in Stored(rows) \/ rows[id] = Unused
    PROVE  /\ n \in Stored(rows) /\ n \in Nodes /\ n # id
           /\ rows[n].depth = Len(rows[n].ancestors) + 1
           /\ \E k \in 1..Len(rows[n].ancestors) :
                /\ \A i \in 1..Len(rows[n].ancestors) : rows[n].ancestors[i] = id <=> i = k
                /\ rows[id].depth =< k
  <1> DEFINE s == rows[n].ancestors
  <1>1. n \in Stored(rows) /\ n \in Nodes /\ id \in ToSet(s)
    BY DEF Subtree, Stored
  <1>2. s \in Seq(Nodes) /\ IsChain(rows, n, s) /\ rows[n].depth = Len(s) + 1
    BY <1>1, RowFacts DEF Faithful
  <1> HIDE DEF s
  <1>3. PICK k \in 1..Len(s) : s[k] = id
    BY <1>1, <1>2, InPath
  <1>4. /\ \A i, j \in 1..Len(s) : s[i] = s[j] => i = j
        /\ \A i \in 1..Len(s) : s[i] # n
        /\ \A t \in Seq(Nodes) : IsChain(rows, id, t) => k = Len(t) + 1
    BY <1>1, <1>2, <1>3, OnceAbove
  <1>5. rows[id].depth =< k
    <2>1. CASE id \in Stored(rows)
      BY <1>4, <2>1, RowFacts DEF Faithful
    <2>2. CASE rows[id] = Unused
      BY <1>3, <2>2 DEF Unused
    <2> QED BY <2>1, <2>2
  <1> QED BY <1>1, <1>2, <1>3, <1>4, <1>5 DEF s

(* What a placement leaves of each row.                                    *)
LEMMA AfterFacts ==
    ASSUME NEW rows \in Rows, Faithful(rows), NEW r \in Requests, Placeable(rows, r)
    PROVE  LET path == PathBelow(rows, r.parent)
               new == After(rows, r)
           IN  /\ r.node \in Nodes /\ path \in Seq(Nodes) /\ Len(path) \in Nat
               /\ r.parent \in Stored(rows) \cup {None} /\ r.parent # r.node
               /\ \A i \in 1..Len(path) : path[i] # r.node
               /\ new[r.node] = [st |-> "stored", parent |-> r.parent, kind |-> r.kind,
                                 ancestors |-> path, depth |-> Len(path) + 1]
               /\ \A n \in Subtree(rows, r.node) :
                     new[n] = Carried(rows[n], r.node, Append(path, r.node))
               /\ \A n \in Nodes \ Subtree(rows, r.node) : n # r.node => new[n] = rows[n]
  <1> DEFINE path == PathBelow(rows, r.parent)
             new == After(rows, r)
             id == r.node
             D == Subtree(rows, id)
  <1>1. r.parent \in Stored(rows) \cup {None} /\ id \in Nodes /\ id # None
    BY RequestFacts DEF Placeable, Fits
  <1>2. /\ path \in Seq(Nodes) /\ Len(path) \in Nat
        /\ r.parent = IF Len(path) = 0 THEN None ELSE path[Len(path)]
    BY <1>1, PathDown
  <1>3. \A i \in 1..Len(path) : path[i] # id
    <2>1. CASE r.parent = None
      <3>1. path = <<>>
        BY <2>1 DEF PathBelow
      <3> QED BY <3>1
    <2>2. CASE r.parent # None
      <3>1. id \notin ToSet(path)
        BY <2>2 DEF Placeable, Fits, ClosesCycle
      <3> HIDE DEF path, id
      <3> QED BY <1>2, <3>1, InPath
    <2> QED BY <2>1, <2>2
  <1>4. r.parent # id
    BY <1>1, <1>2, <1>3
  <1>5. \A n \in D : n # id /\ n \in Nodes
    BY <1>1, BelowFacts DEF Placeable
  <1>6. DOMAIN Placed(rows, r) = {id} \cup D
    BY DEF Placed
  <1>7. new[id] = [st |-> "stored", parent |-> r.parent, kind |-> r.kind,
                   ancestors |-> path, depth |-> Len(path) + 1]
    BY <1>1, <1>6 DEF After, Placed
  <1>8. \A n \in D : new[n] = Carried(rows[n], id, Append(path, id))
    BY <1>5, <1>6 DEF After, Placed
  <1>9. \A n \in Nodes \ D : n # id => new[n] = rows[n]
    BY <1>6 DEF After
  <1> QED BY <1>1, <1>2, <1>3, <1>4, <1>7, <1>8, <1>9

(* The depth check counts every node of the subtree.                       *)
LEMMA BelowBounds ==
    ASSUME NEW rows \in Rows, Faithful(rows), NEW id \in Nodes,
           id \in Stored(rows) \/ rows[id] = Unused
    PROVE  /\ Below(rows, id) \in Nat
           /\ \A n \in Subtree(rows, id) : rows[n].depth =< Below(rows, id) + rows[id].depth
  <1> DEFINE D == Subtree(rows, id)
             depths == {rows[n].depth : n \in D}
  <1>0. rows[id].depth \in Nat /\ MaxDepth \in Nat
    BY RowFacts, DepthAssumption
  <1>1. CASE D = {}
    BY <1>1 DEF Below
  <1>2. CASE D # {}
    <2>1. \A n \in D : n \in Nodes /\ rows[n].depth \in 0..MaxDepth /\ rows[n].depth > rows[id].depth
      <3> TAKE n \in D
      <3>1. PICK k \in 1..Len(rows[n].ancestors) : rows[id].depth =< k
        BY BelowFacts
      <3>2. n \in Nodes /\ rows[n].depth = Len(rows[n].ancestors) + 1
        BY BelowFacts
      <3>3. Len(rows[n].ancestors) \in Nat /\ rows[n].depth \in 0..MaxDepth
        BY <3>2, RowFacts
      <3> QED BY <1>0, <3>1, <3>2, <3>3
    <2>2. depths # {} /\ depths \in SUBSET (0..MaxDepth)
      BY <1>2, <2>1
    <2>3. Max(depths) \in depths /\ \A y \in depths : Max(depths) >= y
      BY <1>0, <2>2, MaxOf
    <2>4. Below(rows, id) = Max(depths) - rows[id].depth
      BY <2>2 DEF Below
    <2>5. Max(depths) \in Nat /\ Max(depths) > rows[id].depth
      BY <2>1, <2>3
    <2>6. ASSUME NEW n \in D
          PROVE  rows[n].depth =< Max(depths) /\ rows[n].depth \in Nat
      BY <2>1, <2>3
    <2> HIDE DEF D, depths
    <2>7. Below(rows, id) \in Nat /\ Below(rows, id) + rows[id].depth = Max(depths)
      BY <1>0, <2>4, <2>5
    <2> QED BY <2>6, <2>7 DEF D
  <1> QED BY <1>1, <1>2

(* A node n is carried along, the node that moved being the k-th of its    *)
(* path.                                                                   *)
CarriedFrom(rows, r, n, k) ==
    /\ rows[r.node].depth =< k
    /\ Rebased(rows[n], r.node, k, PathBelow(rows, r.parent), After(rows, r)[n])

(* Every node of the subtree is.                                           *)
LEMMA CarriedDown ==
    ASSUME NEW rows \in Rows, Faithful(rows), NEW r \in Requests, Placeable(rows, r),
           NEW n \in Subtree(rows, r.node)
    PROVE  /\ n \in Stored(rows) /\ n \in Nodes /\ n # r.node
           /\ rows[n].depth = Len(rows[n].ancestors) + 1
           /\ \E k \in 1..Len(rows[n].ancestors) : CarriedFrom(rows, r, n, k)
  <1> DEFINE path == PathBelow(rows, r.parent)
             id == r.node
             anc == rows[n].ancestors
             car == Carried(rows[n], id, Append(path, id))
  <1>1. /\ id \in Nodes /\ path \in Seq(Nodes) /\ After(rows, r)[n] = car
        /\ id \in Stored(rows) \/ rows[id] = Unused
    BY AfterFacts DEF Placeable
  <1>2. /\ n \in Stored(rows) /\ n \in Nodes /\ n # id
        /\ rows[n].depth = Len(anc) + 1
        /\ \E k \in 1..Len(anc) : /\ \A i \in 1..Len(anc) : anc[i] = id <=> i = k
                                  /\ rows[id].depth =< k
    BY <1>1, BelowFacts
  <1>3. PICK k \in 1..Len(anc) : /\ \A i \in 1..Len(anc) : anc[i] = id <=> i = k
                                /\ rows[id].depth =< k
    BY <1>2
  <1>4. CarriedFrom(rows, r, n, k)
    <2>1. id \in Nodes
      BY <1>1
    <2>2. path \in Seq(Nodes)
      BY <1>1
    <2>3. n \in Nodes
      BY <1>2
    <2>4. \A i \in 1..Len(rows[n].ancestors) : rows[n].ancestors[i] = id <=> i = k
      BY <1>3
    <2>5. k \in 1..Len(rows[n].ancestors)
      BY <1>3
    <2>6. Rebased(rows[n], id, k, path, Carried(rows[n], id, Append(path, id)))
      BY <2>1, <2>2, <2>3, <2>4, <2>5, CarriedPath
    <2> QED BY <1>1, <1>3, <2>6 DEF CarriedFrom
  <1> QED BY <1>2, <1>4

(* A placement leaves rows of their type: no path outgrows max_depth.      *)
LEMMA PlacedRows ==
    ASSUME NEW rows \in Rows, Faithful(rows), NEW r \in Requests, Placeable(rows, r)
    PROVE  After(rows, r) \in Rows
  <1> DEFINE path == PathBelow(rows, r.parent)
             new == After(rows, r)
             id == r.node
             D == Subtree(rows, id)
  <1>1. /\ id \in Nodes /\ path \in Seq(Nodes) /\ Len(path) \in Nat
        /\ new[id] = [st |-> "stored", parent |-> r.parent, kind |-> r.kind,
                      ancestors |-> path, depth |-> Len(path) + 1]
        /\ \A n \in D : new[n] = Carried(rows[n], id, Append(path, id))
        /\ \A n \in Nodes \ D : n # id => new[n] = rows[n]
    BY AfterFacts
  <1>2. id \in Stored(rows) \/ rows[id] = Unused
    BY DEF Placeable
  <1>3. /\ Below(rows, id) \in Nat
        /\ Len(path) + 1 + Below(rows, id) =< MaxDepth
        /\ \A n \in D : rows[n].depth =< Below(rows, id) + rows[id].depth
    BY <1>1, <1>2, BelowBounds DEF Placeable, Fits
  <1>4. new[id] \in Row
    <2> HIDE DEF path
    <2>1. path \in Paths /\ Len(path) + 1 \in 0..MaxDepth
      BY <1>1, <1>3, PathOfSeq, DepthAssumption
    <2> QED BY <1>1, <2>1, RequestFacts DEF Row
  <1>5. ASSUME NEW n \in D PROVE new[n] \in Row
    <2> DEFINE anc == rows[n].ancestors
    <2>1. n \in Nodes /\ rows[n].depth = Len(anc) + 1
      BY CarriedDown
    <2>2. PICK k \in 1..Len(anc) : CarriedFrom(rows, r, n, k)
      BY CarriedDown
    <2>3. /\ rows[id].depth =< k
          /\ new[n] = [rows[n] EXCEPT !.ancestors = new[n].ancestors, !.depth = new[n].depth]
          /\ new[n].ancestors \in Seq(Nodes)
          /\ Len(new[n].ancestors) = Len(path) + 1 + (Len(anc) - k)
          /\ new[n].depth = Len(path) + 1 + (Len(anc) - k) + 1
      BY <2>2 DEF CarriedFrom, Rebased
    <2> DEFINE rest == Len(anc) - k
    <2>4. Len(anc) \in Nat /\ rows[id].depth \in Nat /\ MaxDepth \in Nat
      BY <1>1, <2>1, RowFacts, DepthAssumption
    <2>5. rows[n].depth =< Below(rows, id) + rows[id].depth
      BY <1>3
    <2>6. rows[n] \in Row
      BY <2>1 DEF Rows
    <2> HIDE DEF path, new, id, anc, D
    <2>7. Len(path) + 1 + rest + 1 =< MaxDepth /\ rest \in Nat
      BY <1>1, <1>3, <2>1, <2>3, <2>4, <2>5
    <2>8. new[n].ancestors \in Paths /\ new[n].depth \in 0..MaxDepth
      BY <1>1, <2>3, <2>4, <2>7, PathOfSeq
    <2> QED BY <2>3, <2>6, <2>8 DEF Row
  <1>6. ASSUME NEW n \in Nodes PROVE new[n] \in Row
    BY <1>1, <1>4, <1>5 DEF Rows
  <1> QED BY <1>6 DEF After, Rows

(* A placement leaves every chain as its node keeps it.                    *)
LEMMA PlacedFaithful ==
    ASSUME NEW rows \in Rows, Faithful(rows), NEW r \in Requests, Placeable(rows, r)
    PROVE  Faithful(After(rows, r))
  <1> DEFINE path == PathBelow(rows, r.parent)
             new == After(rows, r)
             id == r.node
             D == Subtree(rows, id)
  <1>1. /\ id \in Nodes /\ path \in Seq(Nodes) /\ Len(path) \in Nat
        /\ r.parent \in Stored(rows) \cup {None} /\ r.parent # id
        /\ \A i \in 1..Len(path) : path[i] # id /\ path[i] \in Nodes
        /\ new[id] = [st |-> "stored", parent |-> r.parent, kind |-> r.kind,
                      ancestors |-> path, depth |-> Len(path) + 1]
        /\ \A n \in Nodes \ D : n # id => new[n] = rows[n]
    BY AfterFacts, ElementOfSeq
  <1>2. \A n \in Nodes : n # id => new[n].parent = rows[n].parent /\ new[n].st = rows[n].st
    <2> SUFFICES ASSUME NEW n \in Nodes, n # id
                 PROVE  new[n].parent = rows[n].parent /\ new[n].st = rows[n].st
      OBVIOUS
    <2>1. CASE n \in D
      <3>1. PICK k : CarriedFrom(rows, r, n, k)
        BY <2>1, CarriedDown
      <3>2. new[n] = [rows[n] EXCEPT !.ancestors = new[n].ancestors, !.depth = new[n].depth]
        BY <3>1 DEF CarriedFrom, Rebased
      <3>3. rows[n] \in Row
        BY DEF Rows
      <3> HIDE DEF new
      <3> QED BY <3>2, <3>3 DEF Row
    <2> QED BY <1>1, <2>1
  <1>3. /\ r.parent = IF Len(path) = 0 THEN None ELSE path[Len(path)]
        /\ \A i \in 1..Len(path) :
              rows[path[i]].parent = IF i = 1 THEN None ELSE path[i - 1]
    BY <1>1, PathDown
  <1> HIDE DEF path, new, id, D
  <1>4. \A i \in 1..Len(path) :
          new[path[i]].parent = IF i = 1 THEN None ELSE path[i - 1]
    BY <1>1, <1>2, <1>3
  <1>5. ASSUME NEW n \in Stored(new)
        PROVE  /\ new[n].depth = Len(new[n].ancestors) + 1
               /\ IsChain(new, n, new[n].ancestors)
    <2>0. n \in Nodes
      BY DEF Stored
    <2>1. CASE n = id
      <3>1. new[n].parent = r.parent /\ new[n].ancestors = path /\ new[n].depth = Len(path) + 1
        BY <1>1, <2>1
      <3>2. \A i \in 1..Len(path) : new[path[i]].parent = IF i - 1 = 0 THEN None ELSE path[i - 1]
        BY <1>1, <1>4
      <3> QED BY <1>3, <3>1, <3>2 DEF IsChain
    <2>2. CASE n \in D
      <3> DEFINE s == rows[n].ancestors
                 t == new[n].ancestors
                 L == Len(path)
      <3>1. n \in Stored(rows) /\ n # id /\ s \in Seq(Nodes) /\ Len(s) \in Nat
        BY <2>0, <2>2, CarriedDown, RowFacts DEF D, id
      <3>2. PICK k \in 1..Len(s) : CarriedFrom(rows, r, n, k)
        BY <2>2, CarriedDown DEF D, id
      <3>3. /\ \A i \in 1..Len(s) : s[i] = id <=> i = k
            /\ Len(t) = L + 1 + (Len(s) - k)
            /\ new[n].depth = L + 1 + (Len(s) - k) + 1
            /\ \A i \in 1..L : t[i] = path[i]
            /\ t[L + 1] = id
            /\ \A i \in 1..(Len(s) - k) : t[L + 1 + i] = s[k + i]
        BY <3>2 DEF CarriedFrom, Rebased, path, new, id
      <3>4. IsChain(rows, n, s)
        BY <3>1 DEF Faithful
      <3>5. rows[n].parent = s[Len(s)] /\ \A i \in 1..Len(s) : i > 1 => rows[s[i]].parent = s[i - 1]
        BY <3>1, <3>2, <3>4 DEF IsChain
      <3> HIDE DEF s, t, L
      <3>6. k \in Nat /\ L \in Nat /\ Len(s) - k \in Nat /\ Len(s) \in Nat
        BY <1>1, <3>1, <3>2 DEF L
      <3>7. new[n].parent = t[Len(t)]
        <4>1. new[n].parent = s[Len(s)]
          BY <1>2, <2>0, <3>1, <3>5
        <4>2. CASE Len(s) = k
          <5>1. Len(t) = L + 1 /\ Len(s) \in 1..Len(s)
            BY <3>2, <3>3, <3>6, <4>2
          <5> QED BY <3>3, <4>1, <4>2, <5>1
        <4>3. CASE Len(s) # k
          <5>1. Len(s) - k \in 1..(Len(s) - k) /\ k + (Len(s) - k) = Len(s)
            BY <3>6, <4>3
          <5>2. t[L + 1 + (Len(s) - k)] = s[k + (Len(s) - k)]
            BY <3>3, <5>1
          <5> QED BY <3>3, <4>1, <5>1, <5>2
        <4> QED BY <4>2, <4>3
      <3>8. ASSUME NEW i \in 1..Len(t)
            PROVE  new[t[i]].parent = IF i - 1 = 0 THEN None ELSE t[i - 1]
        <4>1. CASE i \in 1..L
          <5>1. t[i] = path[i] /\ (i # 1 => t[i - 1] = path[i - 1])
            BY <3>3, <3>6, <4>1
          <5> QED BY <1>4, <3>6, <4>1, <5>1 DEF L
        <4>2. CASE i = L + 1
          <5>1. new[t[i]].parent = r.parent
            BY <1>1, <3>3, <4>2
          <5>2. L # 0 => t[L] = path[L]
            BY <3>3, <3>6
          <5>3. i - 1 = L
            BY <3>6, <4>2
          <5> QED BY <1>3, <3>6, <5>1, <5>2, <5>3 DEF L
        <4>3. CASE i > L + 1
          <5> DEFINE j == i - (L + 1)
          <5>1. j \in 1..(Len(s) - k) /\ i = L + 1 + j /\ i \in Nat
            BY <3>3, <3>6, <4>3
          <5> HIDE DEF j
          <5> DEFINE x == k + j
          <5>2. t[i] = s[x]
            <6>1. t[L + 1 + j] = s[k + j]
              BY <3>3, <5>1
            <6> QED BY <5>1, <6>1
          <5>3. x \in 1..Len(s) /\ x # k /\ x > 1
            BY <3>2, <3>6, <5>1
          <5> HIDE DEF x
          <5>4. new[t[i]].parent = s[x - 1]
            <6>1. s[x] # id /\ s[x] \in Nodes /\ rows[s[x]].parent = s[x - 1]
              BY <3>1, <3>3, <3>5, <5>3, ElementOfSeq DEF s
            <6> QED BY <1>2, <5>2, <6>1
          <5>5. t[i - 1] = s[k + j - 1]
            <6>1. CASE j = 1
              <7>1. i - 1 = L + 1 /\ k + j - 1 = k /\ k \in 1..Len(s)
                BY <3>6, <5>1, <6>1, <3>2
              <7>2. s[k] = id
                BY <3>3, <7>1
              <7> QED BY <3>3, <7>1, <7>2
            <6>2. CASE j # 1
              <7>1. j - 1 \in 1..(Len(s) - k) /\ i - 1 = L + 1 + (j - 1) /\ k + j - 1 = k + (j - 1)
                BY <3>6, <5>1, <6>2
              <7> QED BY <3>3, <7>1
            <6> QED BY <6>1, <6>2
          <5> QED BY <3>6, <4>3, <5>1, <5>4, <5>5 DEF x
        <4> QED BY <3>6, <4>1, <4>2, <4>3
      <3>9. new[n].depth = Len(t) + 1 /\ Len(t) # 0
        BY <3>3, <3>6
      <3> QED BY <3>7, <3>8, <3>9 DEF IsChain, t
    <2>3. CASE n \notin D /\ n # id
      <3> DEFINE s == rows[n].ancestors
      <3>1. new[n] = rows[n] /\ n \in Stored(rows)
        BY <1>1, <2>0, <2>3 DEF Stored
      <3>2. s \in Seq(Nodes) /\ rows[n].depth = Len(s) + 1 /\ IsChain(rows, n, s)
        BY <2>0, <3>1, RowFacts DEF Faithful
      <3>3. id \notin ToSet(s)
        BY <2>3, <3>1 DEF Subtree, D
      <3> HIDE DEF s
      <3>4. \A i \in 1..Len(s) : s[i] # id /\ s[i] \in Nodes
        BY <3>2, <3>3, InPath, ElementOfSeq
      <3>5. \A i \in 1..Len(s) : new[s[i]].parent = rows[s[i]].parent
        BY <1>2, <3>4
      <3>6. IsChain(new, n, s)
        BY <3>1, <3>2, <3>5 DEF IsChain
      <3> QED BY <3>1, <3>2, <3>6 DEF s
    <2> QED BY <2>1, <2>2, <2>3
  <1> QED BY <1>5 DEF Faithful, new

(* A placement leaves every node in the tree of its parent: a node that    *)
(* changes trees is a root without children.                               *)
LEMMA PlacedKindred ==
    ASSUME NEW rows \in Rows, Faithful(rows), Kindred(rows),
           NEW r \in Requests, Placeable(rows, r),
           r.node \in Stored(rows) /\ r.kind # rows[r.node].kind => MayChangeTree(rows, r)
    PROVE  Kindred(After(rows, r))
  <1> DEFINE new == After(rows, r)
             id == r.node
             D == Subtree(rows, id)
  <1>0. /\ id \in Nodes /\ r.parent \in Stored(rows) \cup {None} /\ r.parent # id
        /\ new[id] = [st |-> "stored", parent |-> r.parent, kind |-> r.kind,
                      ancestors |-> PathBelow(rows, r.parent), depth |-> Len(PathBelow(rows, r.parent)) + 1]
        /\ \A n \in Nodes \ D : n # id => new[n] = rows[n]
    BY AfterFacts
  <1>1. /\ id \in Nodes /\ r.parent \in Stored(rows) \cup {None} /\ r.parent # id
        /\ new[id].st = "stored" /\ new[id].parent = r.parent /\ new[id].kind = r.kind
        /\ \A n \in Nodes \ D : n # id => new[n] = rows[n]
    <2> HIDE DEF new, id, D
    <2> QED BY <1>0
  <1>2. ASSUME NEW n \in Nodes, n # id
        PROVE  new[n].parent = rows[n].parent /\ new[n].st = rows[n].st /\ new[n].kind = rows[n].kind
    <2>1. CASE n \in D
      <3>1. PICK k : CarriedFrom(rows, r, n, k)
        BY <2>1, CarriedDown
      <3>2. new[n] = [rows[n] EXCEPT !.ancestors = new[n].ancestors, !.depth = new[n].depth]
        BY <3>1 DEF CarriedFrom, Rebased
      <3>3. rows[n] \in Row
        BY DEF Rows
      <3> HIDE DEF new
      <3> QED BY <3>2, <3>3 DEF Row
    <2> QED BY <1>1, <1>2, <2>1
  <1>3. r.parent # None => rows[r.parent].kind = r.kind /\ rows[r.parent].st = "stored"
    BY DEF Placeable, Fits, Stored
  <1> HIDE DEF new, id
  <1>4. ASSUME NEW n \in Stored(new), new[n].parent # None
        PROVE  /\ new[new[n].parent].st # "unused"
               /\ new[n].kind = new[new[n].parent].kind
    <2>0. n \in Nodes
      BY DEF Stored
    <2>1. CASE n = id
      <3>1. new[n].parent = r.parent /\ r.parent \in Nodes /\ r.parent # id
        BY <1>1, <1>4, <2>1 DEF Stored
      <3> QED BY <1>1, <1>2, <1>3, <1>4, <2>1, <3>1
    <2>2. CASE n # id
      <3> DEFINE m == rows[n].parent
      <3>1. /\ n \in Stored(rows) /\ new[n].parent = m /\ new[n].kind = rows[n].kind
            /\ m # None /\ m \in Nodes
        BY <1>2, <1>4, <2>0, <2>2, RowFacts DEF Stored
      <3>2. rows[m].st # "unused" /\ rows[n].kind = rows[m].kind
        BY <3>1 DEF Kindred
      <3>3. CASE m # id
        BY <1>2, <3>1, <3>2, <3>3
      <3>4. CASE m = id
        <4>1. rows[id].st # "unused"
          BY <3>2, <3>4
        <4>2. id \in Stored(rows)
          BY <4>1 DEF Placeable, Unused, id
        <4>3. HasChildren(rows, id)
          BY <3>1, <3>4 DEF HasChildren
        <4>4. r.kind = rows[id].kind
          BY <4>2, <4>3 DEF MayChangeTree, id
        <4> QED BY <1>1, <3>1, <3>2, <3>4, <4>4
      <3> QED BY <3>3, <3>4
    <2> QED BY <2>1, <2>2
  <1> QED BY <1>4 DEF Kindred, new

-----------------------------------------------------------------------------
(* The inductive invariant.                                                *)

(* A node no one has written or touched since a transaction began is as    *)
(* its snapshot holds it.                                                  *)
SnapshotCurrent ==
    \A p \in open : \A k \in Nodes : k \notin missed[p] => snap[p][k] = store[k]

(* While no one has written or touched a node and the nodes of its subtree *)
(* in a snapshot, the subtree has no other nodes: what comes under it      *)
(* touches the parent it comes under.                                      *)
SubtreeSeen ==
    \A p \in open : \A z \in Nodes :
      z \notin missed[p] /\ Subtree(snap[p], z) \cap missed[p] = {}
        => Subtree(store, z) \subseteq Subtree(snap[p], z)

(* The same of the children of a node, which a change of tree asks for.    *)
ChildrenSeen ==
    \A p \in open : \A z \in Nodes :
      z \notin missed[p] /\ HasChildren(store, z) => HasChildren(snap[p], z)

(* An insert has an id of its own, which nothing is stored under yet.      *)
OwnIds ==
    \A p \in Procs : req[p].verb = "insert" =>
      /\ store[req[p].node].st = "unused"
      /\ \A q \in Procs \ {p} : req[q].verb = "insert" => req[q].node # req[p].node

TreeInv ==
    /\ TypeOK
    /\ Faithful(store)
    /\ Kindred(store)
    /\ SnapshotCurrent
    /\ SubtreeSeen
    /\ ChildrenSeen
    /\ OwnIds

(* The empty store holds rows.                                             *)
LEMMA UnusedRow == Unused \in Row /\ EmptyStore \in Rows
  <1>1. <<>> \in Paths
    <2>1. <<>> \in Seq(Nodes) /\ Len(<<>>) < MaxDepth
      BY DepthAssumption
    <2> QED BY <2>1, PathOfSeq
  <1>2. Unused \in Row
    BY <1>1, DepthAssumption DEF Unused, Row
  <1> QED BY <1>2 DEF EmptyStore, Rows

(* What a commit leaves of the transactions, whatever it writes.           *)
LEMMA CommitFacts ==
    ASSUME TypeOK, NEW p \in Procs, NEW rows, NEW guards, Commit(p, rows, guards)
    PROVE  LET W == DOMAIN rows \cup guards IN
           /\ p \in open /\ W \cap missed[p] = {}
           /\ store' = [n \in Nodes |-> IF n \in DOMAIN rows THEN rows[n] ELSE store[n]]
           /\ open' = open \ {p}
           /\ \A q \in open' : /\ q \in open /\ q \in Procs /\ snap'[q] = snap[q]
                               /\ missed'[q] = missed[q] \cup W
           /\ snap' \in [Procs -> Rows]
           /\ W \subseteq Nodes => missed' \in [Procs -> SUBSET Nodes]
           /\ req' = [req EXCEPT ![p] = Idle] /\ calls' = calls
  BY UnusedRow DEF Commit, Txn!Commit, Txn!Conflicts, Txn!Written, Txn!Overlay, TypeOK, Rows

(* The verb tells an insert and a save from a delete and from no request.  *)
LEMMA VerbFacts ==
    /\ Idle.verb = "none"
    /\ \A id : Deletion(id).verb = "delete" /\ Deletion(id).node = id
    /\ \A r \in Requests : r # Idle /\ r.verb \in {"insert", "save"} /\ r.node \in Nodes
    /\ \A id \in Nodes : Deletion(id) # Idle
  <1>1. Idle.verb = "none"
    BY DEF Idle
  <1>2. ASSUME NEW id PROVE Deletion(id).verb = "delete" /\ Deletion(id).node = id
    BY DEF Idle, Deletion
  <1>3. ASSUME NEW r \in Requests PROVE r # Idle /\ r.verb \in {"insert", "save"} /\ r.node \in Nodes
    BY <1>1 DEF Requests
  <1> QED BY <1>1, <1>2, <1>3

-----------------------------------------------------------------------------
(* The commits.                                                            *)

(* A placement that commits was judged on what is stored: nobody has       *)
(* written its node, its subtree or its parent, and its subtree is whole.  *)
LEMMA JudgedNow ==
    ASSUME TreeInv, NEW p \in Procs, NEW r \in Requests, req[p] = r,
           Fits(snap[p], r),
           r.verb = "insert" \/ r.node \in Stored(snap[p]),
           r.verb = "save" /\ r.kind # snap[p][r.node].kind => MayChangeTree(snap[p], r),
           Commit(p, Placed(snap[p], r), Touched(r))
    PROVE  /\ Placeable(store, r)
           /\ r.node \in Stored(store) /\ r.kind # store[r.node].kind => MayChangeTree(store, r)
           /\ Placed(snap[p], r) = Placed(store, r)
           /\ r.verb = "insert" \/ r.node \in Stored(store)
  <1> DEFINE id == r.node
             S == snap[p]
             T == store
             D == Subtree(S, id)
  <1>1. id \in Nodes /\ DOMAIN Placed(S, r) = {id} \cup D
    BY RequestFacts DEF Placed
  <1>2. p \in open /\ ({id} \cup D \cup Touched(r)) \cap missed[p] = {}
    BY <1>1, CommitFacts DEF TreeInv
  <1>3. S[id] = T[id] /\ \A n \in D : n \in Nodes /\ S[n] = T[n]
    BY <1>1, <1>2 DEF TreeInv, SnapshotCurrent, Subtree, Stored
  <1>4. Subtree(T, id) = D
    <2>1. Subtree(T, id) \subseteq D
      BY <1>1, <1>2 DEF TreeInv, SubtreeSeen
    <2>2. D \subseteq Subtree(T, id)
      BY <1>3 DEF Subtree, Stored
    <2> QED BY <2>1, <2>2
  <1>5. r.parent # None => r.parent \in Nodes /\ S[r.parent] = T[r.parent]
    BY <1>2, RequestFacts DEF Touched, TreeInv, SnapshotCurrent
  <1>6. PathBelow(S, r.parent) = PathBelow(T, r.parent)
    BY <1>5 DEF PathBelow
  <1>7. Placed(S, r) = Placed(T, r)
    BY <1>3, <1>4, <1>6 DEF Placed
  <1>8. Below(S, id) = Below(T, id)
    <2>1. {S[n].depth : n \in D} = {T[n].depth : n \in D}
      BY <1>3
    <2> QED BY <1>3, <1>4, <2>1 DEF Below
  <1>9. Fits(T, r)
    BY <1>5, <1>6, <1>8 DEF Fits, ClosesCycle, Stored
  <1>10. id \in Stored(T) \/ T[id] = Unused
    <2>1. CASE r.verb = "insert"
      BY <1>1, <2>1 DEF TreeInv, OwnIds, TypeOK
    <2>2. CASE id \in Stored(S)
      BY <1>3, <2>2 DEF Stored
    <2> QED BY <2>1, <2>2
  <1>11. ASSUME id \in Stored(T), r.kind # T[id].kind PROVE MayChangeTree(T, r)
    <2>1. r.verb = "save"
      BY <1>1, <1>11, RequestFacts DEF TreeInv, OwnIds, Stored
    <2>2. r.parent = None /\ ~HasChildren(S, id)
      BY <1>3, <1>11, <2>1 DEF MayChangeTree
    <2>3. ~HasChildren(T, id)
      BY <1>1, <1>2, <2>2 DEF TreeInv, ChildrenSeen
    <2> QED BY <2>2, <2>3 DEF MayChangeTree
  <1>12. r.verb = "insert" \/ id \in Stored(T)
    BY <1>3 DEF Stored
  <1> QED BY <1>7, <1>9, <1>10, <1>11, <1>12 DEF Placeable

(* The placement itself: an insert, or a save that moves its node.         *)
LEMMA PlaceStep ==
    ASSUME TreeInv, NEW p \in Procs, NEW r \in Requests, req[p] = r,
           Fits(snap[p], r),
           r.verb = "insert" \/ r.node \in Stored(snap[p]),
           r.verb = "save" /\ r.kind # snap[p][r.node].kind => MayChangeTree(snap[p], r),
           Commit(p, Placed(snap[p], r), Touched(r))
    PROVE  TreeInv'
  <1> DEFINE id == r.node
             T == store
             D == Subtree(T, id)
             path == PathBelow(T, r.parent)
             new == After(T, r)
             W == {id} \cup D \cup Touched(r)
  <1>1. /\ Placeable(T, r) /\ Placed(snap[p], r) = Placed(T, r)
        /\ id \in Stored(T) /\ r.kind # T[id].kind => MayChangeTree(T, r)
        /\ r.verb = "insert" \/ id \in Stored(T)
    BY JudgedNow
  <1>2. T \in Rows /\ Faithful(T) /\ Kindred(T)
    BY DEF TreeInv, TypeOK, Rows
  <1>3. new \in Rows /\ Faithful(new) /\ Kindred(new)
    BY <1>1, <1>2, PlacedRows, PlacedFaithful, PlacedKindred
  <1>4. DOMAIN Placed(T, r) = {id} \cup D
    BY DEF Placed
  <1>5. /\ p \in open /\ open' = open \ {p} /\ store' = new
        /\ \A q \in open' : /\ q \in open /\ q \in Procs /\ snap'[q] = snap[q]
                            /\ missed'[q] = missed[q] \cup W
        /\ snap' \in [Procs -> Rows]
        /\ W \subseteq Nodes => missed' \in [Procs -> SUBSET Nodes]
        /\ req' = [req EXCEPT ![p] = Idle] /\ calls' = calls
    BY <1>1, <1>4, CommitFacts DEF TreeInv, After
  <1>6. /\ id \in Nodes /\ path \in Seq(Nodes)
        /\ r.parent \in Stored(T) \cup {None} /\ r.parent # id
        /\ new[id] = [st |-> "stored", parent |-> r.parent, kind |-> r.kind,
                      ancestors |-> path, depth |-> Len(path) + 1]
        /\ \A n \in Nodes \ D : n # id => new[n] = T[n]
    BY <1>1, <1>2, AfterFacts
  <1>7. /\ new[id].st = "stored" /\ new[id].parent = r.parent /\ new[id].ancestors = path
        /\ W \subseteq Nodes
    BY <1>6 DEF Touched, Stored, Subtree
  <1>8. ASSUME NEW n \in D
        PROVE  /\ n \in Stored(T) /\ n \in Nodes /\ new[n].parent = T[n].parent /\ new[n].st = "stored"
               /\ ToSet(new[n].ancestors) \subseteq ToSet(path) \cup {id} \cup ToSet(T[n].ancestors)
    <2> DEFINE s == T[n].ancestors
               t == new[n].ancestors
    <2>1. n \in Stored(T) /\ n \in Nodes /\ T[n] \in Row /\ s \in Seq(Nodes)
      BY <1>1, <1>2, CarriedDown, RowFacts DEF Rows
    <2>2. PICK k \in 1..Len(s) : CarriedFrom(T, r, n, k)
      BY <1>1, <1>2, CarriedDown
    <2>3. /\ new[n] = [T[n] EXCEPT !.ancestors = new[n].ancestors, !.depth = new[n].depth]
          /\ t \in Seq(Nodes)
          /\ Len(t) = Len(path) + 1 + (Len(s) - k)
          /\ \A i \in 1..Len(path) : t[i] = path[i]
          /\ t[Len(path) + 1] = id
          /\ \A i \in 1..(Len(s) - k) : t[Len(path) + 1 + i] = s[k + i]
      BY <2>2 DEF CarriedFrom, Rebased
    <2> HIDE DEF new, path, id, D, s, t
    <2>4. new[n].parent = T[n].parent /\ new[n].st = "stored"
      BY <2>1, <2>3 DEF Row, Stored
    <2>5. ASSUME NEW e \in ToSet(t) PROVE e \in ToSet(path) \cup {id} \cup ToSet(s)
      <3>1. PICK i \in 1..Len(t) : t[i] = e
        BY <2>3, <2>5, InPath
      <3>2. Len(path) \in Nat /\ Len(s) \in Nat /\ k \in Nat /\ Len(t) \in Nat /\ i \in Nat
        BY <1>6, <2>1, <2>2, <2>3, <3>1
      <3>3. CASE i =< Len(path)
        <4>1. i \in 1..Len(path) /\ path[i] = e
          BY <2>3, <3>1, <3>2, <3>3
        <4> QED BY <1>6, <4>1, InPath
      <3>4. CASE i = Len(path) + 1
        BY <2>3, <3>1, <3>4
      <3>5. CASE i > Len(path) + 1
        <4> DEFINE j == i - (Len(path) + 1)
        <4>1. j \in 1..(Len(s) - k) /\ i = Len(path) + 1 + j /\ k + j \in 1..Len(s)
          BY <2>2, <2>3, <3>1, <3>2, <3>5
        <4> HIDE DEF j
        <4>2. t[Len(path) + 1 + j] = s[k + j]
          BY <2>3, <4>1
        <4>3. s[k + j] = e
          BY <3>1, <4>1, <4>2
        <4> QED BY <2>1, <4>1, <4>3, InPath
      <3> QED BY <3>2, <3>3, <3>4, <3>5
    <2> QED BY <2>1, <2>4, <2>5 DEF s, t
  <1>9. r.parent # None => /\ r.parent \in Stored(T) /\ r.parent \in W
                          /\ ToSet(path) \subseteq ToSet(T[r.parent].ancestors) \cup {r.parent}
    <2> SUFFICES ASSUME r.parent # None
                 PROVE  /\ r.parent \in Stored(T) /\ r.parent \in W
                        /\ ToSet(path) \subseteq ToSet(T[r.parent].ancestors) \cup {r.parent}
      OBVIOUS
    <2> DEFINE s == T[r.parent].ancestors
    <2>1. r.parent \in Nodes /\ s \in Seq(Nodes) /\ path = Append(s, r.parent)
      BY <1>2, <1>6, RowFacts DEF Stored, PathBelow
    <2> HIDE DEF s, path, T
    <2>2. ASSUME NEW e \in ToSet(path) PROVE e \in ToSet(s) \cup {r.parent}
      <3>1. PICK i \in 1..Len(path) : path[i] = e
        BY <1>6, <2>2, InPath
      <3>2. /\ Len(path) = Len(s) + 1 /\ Len(s) \in Nat
            /\ \A m \in 1..Len(s) : path[m] = s[m]
            /\ path[Len(s) + 1] = r.parent
        BY <2>1, AppendProperties
      <3>3. CASE i = Len(s) + 1
        BY <3>1, <3>2, <3>3
      <3>4. CASE i # Len(s) + 1
        <4>1. i \in 1..Len(s) /\ s[i] = e
          BY <3>1, <3>2, <3>4
        <4> QED BY <2>1, <4>1, InPath
      <3> QED BY <3>3, <3>4
    <2> QED BY <1>6, <2>1, <2>2 DEF Touched, s
  <1>10. r.parent = None => ToSet(path) = {}
    BY DEF PathBelow, ToSet
  <1> HIDE DEF new, path, D, W, id
  <1>11. SnapshotCurrent'
    <2> SUFFICES ASSUME NEW q \in open', NEW n \in Nodes, n \notin missed'[q]
                 PROVE  snap'[q][n] = store'[n]
      BY DEF SnapshotCurrent
    <2>1. n \notin missed[q] /\ n \notin D /\ n # id
      BY <1>5 DEF W
    <2> QED BY <1>5, <1>6, <2>1 DEF TreeInv, SnapshotCurrent
  <1>12. SubtreeSeen'
    <2> SUFFICES ASSUME NEW q \in open', NEW z \in Nodes, z \notin missed'[q],
                        Subtree(snap'[q], z) \cap missed'[q] = {},
                        NEW n \in Subtree(new, z)
                 PROVE  n \in Subtree(snap'[q], z)
      BY <1>5 DEF SubtreeSeen
    <2>1. /\ q \in open /\ snap'[q] = snap[q] /\ z \notin missed[q] /\ z \notin W
          /\ Subtree(snap[q], z) \cap missed[q] = {} /\ Subtree(snap[q], z) \cap W = {}
      BY <1>5
    <2>2. Subtree(T, z) \subseteq Subtree(snap[q], z)
      BY <2>1 DEF TreeInv, SubtreeSeen
    <2>3. z \notin ToSet(path)
      <3>1. CASE r.parent # None
        <4>1. z # r.parent /\ r.parent \notin Subtree(T, z)
          BY <1>9, <2>1, <2>2, <3>1
        <4> QED BY <1>9, <3>1, <4>1 DEF Subtree
      <3> QED BY <1>10, <3>1
    <2>4. n \in Nodes /\ z \in ToSet(new[n].ancestors) /\ new[n].st = "stored"
      BY DEF Subtree, Stored
    <2>5. n # id
      BY <1>7, <2>3, <2>4
    <2>6. n \in Subtree(T, z)
      <3>1. CASE n \in D
        <4>1. z \in ToSet(T[n].ancestors)
          BY <1>8, <2>1, <2>3, <2>4, <3>1 DEF W
        <4> QED BY <1>8, <3>1, <4>1 DEF Subtree
      <3>2. CASE n \notin D
        BY <1>6, <2>4, <2>5, <3>2 DEF Subtree, Stored
      <3> QED BY <3>1, <3>2
    <2> QED BY <2>1, <2>2, <2>6
  <1>13. ChildrenSeen'
    <2> SUFFICES ASSUME NEW q \in open', NEW z \in Nodes, z \notin missed'[q], HasChildren(new, z)
                 PROVE  HasChildren(snap'[q], z)
      BY <1>5 DEF ChildrenSeen
    <2>1. q \in open /\ snap'[q] = snap[q] /\ z \notin missed[q] /\ z \notin W
      BY <1>5
    <2>2. PICK n \in Stored(new) : new[n].parent = z
      BY DEF HasChildren
    <2>3. n \in Nodes /\ n # id
      BY <1>7, <1>9, <2>1, <2>2, NoneAssumption DEF Stored
    <2>4. n \in Stored(T) /\ T[n].parent = z
      BY <1>6, <1>8, <2>2, <2>3 DEF Stored
    <2> QED BY <2>1, <2>4 DEF HasChildren, TreeInv, ChildrenSeen
  <1>14. OwnIds'
    <2> SUFFICES ASSUME NEW q \in Procs, req'[q].verb = "insert"
                 PROVE  /\ store'[req'[q].node].st = "unused"
                        /\ \A o \in Procs \ {q} : req'[o].verb = "insert" => req'[o].node # req'[q].node
      BY DEF OwnIds
    <2>1. /\ \A o \in Procs : req'[o] = IF o = p THEN Idle ELSE req[o]
          /\ Idle.verb = "none"
      BY <1>5, VerbFacts DEF TreeInv, TypeOK
    <2>2. q # p /\ req'[q] = req[q] /\ T[req[q].node].st = "unused" /\ req[q].node \in Nodes
      <3>1. q # p /\ req'[q] = req[q]
        BY <2>1
      <3>2. req[q] \in Requests
        BY <2>1, <3>1, VerbFacts DEF TreeInv, TypeOK
      <3> QED BY <3>1, <3>2, VerbFacts DEF TreeInv, OwnIds
    <2>3. req[q].node # id
      BY <1>1, <2>2 DEF TreeInv, OwnIds, Stored, id
    <2>4. req[q].node \notin D
      BY <1>8, <2>2 DEF Stored
    <2> QED BY <1>5, <1>6, <2>1, <2>2, <2>3, <2>4 DEF TreeInv, OwnIds
  <1>15. TypeOK'
    <2>1. \A n \in Nodes : store'[n].st = "unused" => store'[n] = Unused
      BY <1>5, <1>6, <1>7, <1>8 DEF TreeInv, TypeOK
    <2>2. req' \in [Procs -> Requests \cup {Idle} \cup {Deletion(d) : d \in Nodes}]
      BY <1>5 DEF TreeInv, TypeOK
    <2>3. \A q \in open' : req'[q] # Idle
      BY <1>5 DEF TreeInv, TypeOK
    <2>4. open' \subseteq Procs /\ calls' \in 0..MaxCalls /\ missed' \in [Procs -> SUBSET Nodes]
      BY <1>5, <1>7 DEF TreeInv, TypeOK
    <2> QED BY <1>3, <1>5, <2>1, <2>2, <2>3, <2>4 DEF TypeOK, Rows
  <1> QED BY <1>3, <1>5, <1>11, <1>12, <1>13, <1>14, <1>15 DEF TreeInv

(* A commit that writes one stored node and leaves it where it is, or      *)
(* deletes it.                                                             *)
LEMMA InPlaceStep ==
    ASSUME TreeInv, NEW p \in Procs, NEW id \in Nodes, id \in Stored(snap[p]),
           NEW row, row = snap[p][id] \/ row = [snap[p][id] EXCEPT !.st = "deleted"],
           Commit(p, [n \in {id} |-> row], {})
    PROVE  TreeInv'
  <1> DEFINE T == store
             new == store'
  <1>0. DOMAIN [n \in {id} |-> row] = {id} /\ [n \in {id} |-> row][id] = row
    OBVIOUS
  <1>1. /\ p \in open /\ id \notin missed[p] /\ open' = open \ {p}
        /\ new = [n \in Nodes |-> IF n = id THEN row ELSE T[n]]
        /\ \A q \in open' : /\ q \in open /\ q \in Procs /\ snap'[q] = snap[q]
                            /\ missed'[q] = missed[q] \cup {id}
        /\ snap' \in [Procs -> Rows] /\ missed' \in [Procs -> SUBSET Nodes]
        /\ req' = [req EXCEPT ![p] = Idle] /\ calls' = calls
    <2> DEFINE w == [n \in {id} |-> row]
    <2> HIDE DEF w
    <2>1. /\ p \in open /\ (DOMAIN w \cup {}) \cap missed[p] = {} /\ open' = open \ {p}
          /\ new = [n \in Nodes |-> IF n \in DOMAIN w THEN w[n] ELSE T[n]]
          /\ \A q \in open' : /\ q \in open /\ q \in Procs /\ snap'[q] = snap[q]
                              /\ missed'[q] = missed[q] \cup (DOMAIN w \cup {})
          /\ snap' \in [Procs -> Rows]
          /\ DOMAIN w \cup {} \subseteq Nodes => missed' \in [Procs -> SUBSET Nodes]
          /\ req' = [req EXCEPT ![p] = Idle] /\ calls' = calls
      BY CommitFacts DEF TreeInv, w
    <2>2. DOMAIN w = {id} /\ w[id] = row
      BY <1>0 DEF w
    <2> QED BY <2>1, <2>2
  <1>2. /\ T[id] = snap[p][id] /\ T[id] \in Row /\ T[id].st = "stored"
        /\ row = T[id] \/ row = [T[id] EXCEPT !.st = "deleted"]
    BY <1>1 DEF TreeInv, SnapshotCurrent, Stored, TypeOK
  <1>3. /\ row \in Row /\ row.st \in {"stored", "deleted"} /\ row.parent = T[id].parent
        /\ row.kind = T[id].kind
        /\ row.st = "stored" => row = T[id]
    BY <1>2 DEF Row
  <1>4. /\ \A n \in Nodes : /\ new[n].parent = T[n].parent /\ new[n].kind = T[n].kind
                            /\ new[n].st = "unused" <=> T[n].st = "unused"
                            /\ new[n] \in Row
        /\ \A n \in Stored(new) : n \in Stored(T) /\ new[n] = T[n] /\ n \in Nodes
        /\ \A n \in Nodes : n # id => new[n] = T[n]
    <2>1. new[id] = row /\ \A n \in Nodes : n # id => new[n] = T[n] /\ T[n] \in Row
      BY <1>1 DEF TreeInv, TypeOK
    <2> HIDE DEF new
    <2> QED BY <1>2, <1>3, <2>1 DEF Stored
  <1> HIDE DEF new
  <1>5. Faithful(new)
    <2> SUFFICES ASSUME NEW n \in Stored(new)
                 PROVE  /\ new[n].depth = Len(new[n].ancestors) + 1
                        /\ IsChain(new, n, new[n].ancestors)
      BY DEF Faithful
    <2> DEFINE s == T[n].ancestors
    <2>1. /\ n \in Stored(T) /\ new[n] = T[n] /\ n \in Nodes /\ s \in Seq(Nodes)
          /\ T \in Rows /\ T[n].depth = Len(s) + 1 /\ IsChain(T, n, s)
      BY <1>4, RowFacts DEF TreeInv, TypeOK, Rows, Faithful
    <2> HIDE DEF s
    <2>2. \A i \in 1..Len(s) : new[s[i]].parent = T[s[i]].parent
      BY <1>4, <2>1, ElementOfSeq
    <2> QED BY <2>1, <2>2 DEF IsChain, s
  <1>6. Kindred(new)
    <2> SUFFICES ASSUME NEW n \in Stored(new), new[n].parent # None
                 PROVE  /\ new[new[n].parent].st # "unused"
                        /\ new[n].kind = new[new[n].parent].kind
      BY DEF Kindred
    <2>1. n \in Stored(T) /\ new[n] = T[n] /\ n \in Nodes /\ T[n].parent \in Nodes
      BY <1>4, RowFacts DEF TreeInv, TypeOK, Rows
    <2> QED BY <1>4, <2>1 DEF TreeInv, Kindred
  <1>7. SnapshotCurrent'
    BY <1>1, <1>4 DEF TreeInv, SnapshotCurrent, new
  <1>8. SubtreeSeen'
    <2> SUFFICES ASSUME NEW q \in open', NEW z \in Nodes, z \notin missed'[q],
                        Subtree(snap'[q], z) \cap missed'[q] = {},
                        NEW n \in Subtree(new, z)
                 PROVE  n \in Subtree(snap'[q], z)
      BY DEF SubtreeSeen, new
    <2>1. n \in Subtree(T, z)
      BY <1>4 DEF Subtree
    <2> QED BY <1>1, <2>1 DEF TreeInv, SubtreeSeen
  <1>9. ChildrenSeen'
    <2> SUFFICES ASSUME NEW q \in open', NEW z \in Nodes, z \notin missed'[q], HasChildren(new, z)
                 PROVE  HasChildren(snap'[q], z)
      BY DEF ChildrenSeen, new
    <2>1. HasChildren(T, z)
      BY <1>4 DEF HasChildren
    <2> QED BY <1>1, <2>1 DEF TreeInv, ChildrenSeen
  <1>10. OwnIds'
    <2> SUFFICES ASSUME NEW q \in Procs, req'[q].verb = "insert"
                 PROVE  /\ new[req'[q].node].st = "unused"
                        /\ \A o \in Procs \ {q} : req'[o].verb = "insert" => req'[o].node # req'[q].node
      BY DEF OwnIds, new
    <2>1. /\ \A o \in Procs : req'[o] = IF o = p THEN Idle ELSE req[o]
          /\ Idle.verb = "none"
      BY <1>1, VerbFacts DEF TreeInv, TypeOK
    <2>2. q # p /\ req'[q] = req[q] /\ T[req[q].node].st = "unused" /\ req[q].node \in Nodes
      <3>1. q # p /\ req'[q] = req[q]
        BY <2>1
      <3>2. req[q] \in Requests
        BY <2>1, <3>1, VerbFacts DEF TreeInv, TypeOK
      <3> QED BY <3>1, <3>2, VerbFacts DEF TreeInv, OwnIds
    <2> QED BY <1>4, <2>1, <2>2 DEF TreeInv, OwnIds
  <1>11. TypeOK'
    <2>1. \A n \in Nodes : new[n].st = "unused" => new[n] = Unused
      BY <1>2, <1>4 DEF TreeInv, TypeOK
    <2>2. /\ req' \in [Procs -> Requests \cup {Idle} \cup {Deletion(d) : d \in Nodes}]
          /\ \A q \in open' : req'[q] # Idle
          /\ open' \subseteq Procs /\ calls' \in 0..MaxCalls
      BY <1>1 DEF TreeInv, TypeOK
    <2>3. store' \in [Nodes -> Row]
      BY <1>1, <1>4 DEF new
    <2> QED BY <1>1, <2>1, <2>2, <2>3 DEF TypeOK, Rows, new
  <1> QED BY <1>5, <1>6, <1>7, <1>8, <1>9, <1>10, <1>11 DEF TreeInv, new

-----------------------------------------------------------------------------
(* The steps that write nothing.                                           *)

(* A write takes a fresh snapshot, and an insert an id no one else has.    *)
LEMMA RequestStep ==
    ASSUME TreeInv, NEW p \in Procs, NEW r \in Requests, Request(p, r)
    PROVE  TreeInv'
  <1>1. /\ req[p] = Idle /\ req' = [req EXCEPT ![p] = r] /\ calls' \in 0..MaxCalls
        /\ r.verb = "insert" => r.node \notin Reserved /\ store[r.node].st = "unused"
        /\ p \notin open /\ open' = open \cup {p} /\ snap' = [snap EXCEPT ![p] = store]
        /\ missed' = [missed EXCEPT ![p] = {}] /\ store' = store
    BY BoundsAssumption DEF Request, Asked, Txn!Begin, TreeInv, TypeOK
  <1>2. \A q \in Procs : /\ req'[q] = IF q = p THEN r ELSE req[q]
                         /\ snap'[q] = IF q = p THEN store ELSE snap[q]
                         /\ missed'[q] = IF q = p THEN {} ELSE missed[q]
    BY <1>1 DEF TreeInv, TypeOK
  <1>3. TypeOK'
    BY <1>1, <1>2, VerbFacts DEF TreeInv, TypeOK
  <1>4. SnapshotCurrent'
    BY <1>1, <1>2 DEF TreeInv, TypeOK, SnapshotCurrent
  <1>5. SubtreeSeen'
    BY <1>1, <1>2 DEF TreeInv, TypeOK, SubtreeSeen
  <1>6. ChildrenSeen'
    BY <1>1, <1>2 DEF TreeInv, TypeOK, ChildrenSeen
  <1>7. OwnIds'
    BY <1>1, <1>2 DEF TreeInv, OwnIds, Reserved
  <1> QED BY <1>1, <1>3, <1>4, <1>5, <1>6, <1>7 DEF TreeInv

(* A delete begins nothing yet.                                            *)
LEMMA RequestDeleteStep ==
    ASSUME TreeInv, NEW p \in Procs, NEW id \in Nodes, RequestDelete(p, id)
    PROVE  TreeInv'
  <1>1. /\ req[p] = Idle /\ req' = [req EXCEPT ![p] = Deletion(id)] /\ calls' \in 0..MaxCalls
        /\ UNCHANGED <<store, open, snap, missed>>
    BY BoundsAssumption DEF RequestDelete, Asked, TreeInv, TypeOK
  <1>2. TypeOK'
    BY <1>1 DEF TreeInv, TypeOK
  <1>3. OwnIds'
    BY <1>1, VerbFacts DEF TreeInv, TypeOK, OwnIds
  <1> QED BY <1>1, <1>2, <1>3 DEF TreeInv, SnapshotCurrent, SubtreeSeen, ChildrenSeen

(* The transaction of a delete, or of a rerun, takes a fresh snapshot.     *)
LEMMA BeginStep ==
    ASSUME TreeInv, NEW p \in Procs, Begin(p)
    PROVE  TreeInv'
  <1>1. /\ req[p] # Idle /\ UNCHANGED <<req, calls, store>>
        /\ p \notin open /\ open' = open \cup {p} /\ snap' = [snap EXCEPT ![p] = store]
        /\ missed' = [missed EXCEPT ![p] = {}]
    BY DEF Begin, Txn!Begin
  <1>2. \A q \in Procs : /\ snap'[q] = IF q = p THEN store ELSE snap[q]
                         /\ missed'[q] = IF q = p THEN {} ELSE missed[q]
    BY <1>1 DEF TreeInv, TypeOK
  <1>3. TypeOK'
    BY <1>1 DEF TreeInv, TypeOK
  <1>4. SnapshotCurrent'
    BY <1>1, <1>2 DEF TreeInv, TypeOK, SnapshotCurrent
  <1>5. SubtreeSeen'
    BY <1>1, <1>2 DEF TreeInv, TypeOK, SubtreeSeen
  <1>6. ChildrenSeen'
    BY <1>1, <1>2 DEF TreeInv, TypeOK, ChildrenSeen
  <1> QED BY <1>1, <1>3, <1>4, <1>5, <1>6 DEF TreeInv, OwnIds

(* A transaction that ends without a commit, to be rerun or refused.       *)
LEMMA AbortStep ==
    ASSUME TreeInv, NEW p \in Procs, Retry(p) \/ Refuse(p)
    PROVE  TreeInv'
  <1>1. /\ open' = open \ {p} /\ snap' = [snap EXCEPT ![p] = EmptyStore]
        /\ missed' = [missed EXCEPT ![p] = {}] /\ UNCHANGED <<store, calls>>
        /\ req' = req \/ req' = [req EXCEPT ![p] = Idle]
    BY DEF Retry, Refuse, Txn!Abort
  <1>2. \A q \in open' : q \in open /\ snap'[q] = snap[q] /\ missed'[q] = missed[q] /\ req'[q] = req[q]
    BY <1>1 DEF TreeInv, TypeOK
  <1>3. TypeOK'
    BY <1>1, <1>2, UnusedRow DEF TreeInv, TypeOK, Rows
  <1>4. OwnIds'
    <2>1. \A q \in Procs : req'[q] = req[q] \/ req'[q].verb = "none"
      BY <1>1, VerbFacts DEF TreeInv, TypeOK
    <2>2. \A q \in Procs : req'[q].verb = "insert" => req'[q] = req[q]
      BY <2>1
    <2> QED BY <1>1, <2>2 DEF TreeInv, OwnIds
  <1> QED BY <1>1, <1>2, <1>3, <1>4 DEF TreeInv, SnapshotCurrent, SubtreeSeen, ChildrenSeen

-----------------------------------------------------------------------------
(* The initial rows: a restamped seed.                                     *)
LEMMA TreeInit == Init => TreeInv
  <1> SUFFICES ASSUME Init PROVE TreeInv
    OBVIOUS
  <1>1. PICK raw \in [Nodes -> RawRows] : ValidSeed(raw) /\ store = Restamped(raw)
    BY DEF Init
  <1>2. ASSUME NEW n \in Nodes
        PROVE  /\ raw[n].st \in {"unused", "stored"}
               /\ raw[n].st = "unused" => raw[n] = Unused /\ store[n] = Unused
               /\ raw[n].st = "stored" =>
                    /\ raw[n].parent \in Nodes \cup {None} /\ raw[n].kind \in KindSet
                    /\ store[n] = [st |-> "stored", parent |-> raw[n].parent, kind |-> raw[n].kind,
                                   ancestors |-> Climbed(raw, n), depth |-> Len(Climbed(raw, n)) + 1]
    <2>0. Unused.st = "unused"
      BY DEF Unused
    <2>1. CASE raw[n] = Unused
      <3>1. n \notin Stored(raw)
        BY <2>0, <2>1 DEF Stored
      <3>2. store[n] = Unused
        BY <1>1, <2>1, <3>1 DEF Restamped
      <3> QED BY <2>0, <2>1, <3>2
    <2>2. CASE raw[n] # Unused
      <3> DEFINE ids == Climbed(raw, n)
      <3>1. raw[n] \in RawRows
        OBVIOUS
      <3>2. raw[n] \in [st : {"stored"}, parent : Nodes \cup {None}, kind : KindSet,
                       ancestors : {<<>>}, depth : {0}]
        BY <2>2, <3>1 DEF RawRows
      <3>3. n \in Stored(raw) /\ raw[n].st = "stored" /\ raw[n].parent \in Nodes \cup {None} /\ raw[n].kind \in KindSet
        BY <3>2 DEF Stored
      <3>4. store[n] = [raw[n] EXCEPT !.ancestors = ids, !.depth = Len(ids) + 1]
        BY <1>1, <3>3 DEF Restamped
      <3> HIDE DEF ids
      <3>5. store[n] = [st |-> "stored", parent |-> raw[n].parent, kind |-> raw[n].kind,
                        ancestors |-> ids, depth |-> Len(ids) + 1]
        BY <3>2, <3>4
      <3> QED BY <3>3, <3>5 DEF ids
    <2> QED BY <2>1, <2>2
  <1>3. ASSUME NEW n \in Nodes, raw[n].st = "stored"
        PROVE  /\ Climbed(raw, n) \in Paths /\ IsChain(raw, n, Climbed(raw, n))
               /\ raw[n].parent # None => raw[n].parent \in Stored(raw) /\ raw[n].kind = raw[raw[n].parent].kind
    <2>1. n \in Stored(raw)
      BY <1>3 DEF Stored
    <2> QED BY <1>1, <2>1 DEF ValidSeed, Climbed
  <1>4. ASSUME NEW n \in Nodes
        PROVE  store[n].parent = raw[n].parent /\ store[n].st = raw[n].st /\ store[n].kind = raw[n].kind
    <2>1. CASE raw[n].st = "unused"
      BY <1>2, <2>1
    <2>2. CASE raw[n].st = "stored"
      <3> DEFINE ids == Climbed(raw, n)
      <3>1. store[n] = [st |-> "stored", parent |-> raw[n].parent, kind |-> raw[n].kind,
                        ancestors |-> ids, depth |-> Len(ids) + 1]
        BY <1>2, <2>2
      <3> HIDE DEF ids
      <3> QED BY <2>2, <3>1
    <2> QED BY <1>2, <2>1, <2>2
  <1>5. Unused.st = "unused" /\ store = [n \in Nodes |-> store[n]]
    BY <1>1 DEF Unused, Restamped
  <1>6. store \in Rows
    <2> SUFFICES ASSUME NEW n \in Nodes PROVE store[n] \in Row
      BY <1>5 DEF Rows
    <2>1. CASE raw[n].st = "stored"
      <3>1. /\ Climbed(raw, n) \in Paths /\ Len(Climbed(raw, n)) + 1 \in 0..MaxDepth
        BY <1>3, <2>1, SeqOfPath, DepthAssumption
      <3> QED BY <1>2, <1>5, <2>1, <3>1 DEF Row
    <2>2. CASE raw[n].st # "stored"
      BY <1>2, <2>2, UnusedRow
    <2> QED BY <2>1, <2>2
  <1>7. Faithful(store)
    <2> SUFFICES ASSUME NEW n \in Stored(store)
                 PROVE  /\ store[n].depth = Len(store[n].ancestors) + 1
                        /\ IsChain(store, n, store[n].ancestors)
      BY DEF Faithful
    <2> DEFINE s == Climbed(raw, n)
    <2>1. n \in Nodes /\ raw[n].st = "stored"
      BY <1>4 DEF Stored
    <2>2. s \in Seq(Nodes) /\ IsChain(raw, n, s)
      BY <1>3, <2>1, SeqOfPath
    <2>3. store[n].ancestors = s /\ store[n].depth = Len(s) + 1
      <3>1. store[n] = [st |-> "stored", parent |-> raw[n].parent, kind |-> raw[n].kind,
                        ancestors |-> s, depth |-> Len(s) + 1]
        BY <1>2, <2>1
      <3> HIDE DEF s
      <3> QED BY <3>1
    <2> HIDE DEF s
    <2>4. \A i \in 1..Len(s) : store[s[i]].parent = raw[s[i]].parent
      BY <1>4, <2>2, ElementOfSeq
    <2> QED BY <1>4, <2>1, <2>2, <2>3, <2>4 DEF IsChain
  <1>8. Kindred(store)
    <2> SUFFICES ASSUME NEW n \in Stored(store), store[n].parent # None
                 PROVE  /\ store[store[n].parent].st # "unused"
                        /\ store[n].kind = store[store[n].parent].kind
      BY DEF Kindred
    <2>1. n \in Nodes /\ raw[n].st = "stored" /\ raw[n].parent # None
      BY <1>4 DEF Stored
    <2>2. raw[n].parent \in Stored(raw) /\ raw[n].kind = raw[raw[n].parent].kind
      BY <1>3, <2>1
    <2> QED BY <1>4, <2>1, <2>2 DEF Stored
  <1>9. TypeOK
    <2>1. \A n \in Nodes : store[n].st = "unused" => store[n] = Unused
      BY <1>2, <1>4
    <2>2. /\ open = {} /\ snap = [p \in Procs |-> EmptyStore] /\ missed = [p \in Procs |-> {}]
          /\ req = [p \in Procs |-> Idle] /\ calls = 0
      BY DEF Init
    <2> QED BY <1>6, <2>1, <2>2, UnusedRow, BoundsAssumption DEF TypeOK, Rows
  <1>10. OwnIds
    BY VerbFacts DEF Init, OwnIds
  <1>11. SnapshotCurrent /\ SubtreeSeen /\ ChildrenSeen
    BY DEF Init, SnapshotCurrent, SubtreeSeen, ChildrenSeen
  <1> QED BY <1>7, <1>8, <1>9, <1>10, <1>11 DEF TreeInv

-----------------------------------------------------------------------------
(* Every step keeps the invariant.                                         *)
LEMMA TreeStep ==
    ASSUME TreeInv, [Next]_vars
    PROVE  TreeInv'
  <1>1. CASE UNCHANGED vars
    BY <1>1 DEF vars, TreeInv, TypeOK, SnapshotCurrent, SubtreeSeen, ChildrenSeen, OwnIds
  <1>2. ASSUME NEW p \in Procs, NEW r \in Requests, Request(p, r) PROVE TreeInv'
    BY <1>2, RequestStep
  <1>3. ASSUME NEW p \in Procs, NEW id \in Nodes, RequestDelete(p, id) PROVE TreeInv'
    BY <1>3, RequestDeleteStep
  <1>4. ASSUME NEW p \in Procs, Begin(p) PROVE TreeInv'
    BY <1>4, BeginStep
  <1>5. ASSUME NEW p \in Procs, p \in open, req[p].verb \in {"insert", "save"}
        PROVE  req[p] \in Requests
    BY <1>5, VerbFacts DEF TreeInv, TypeOK
  <1>6. ASSUME NEW p \in Procs, Insert(p) PROVE TreeInv'
    <2>1. req[p].verb = "insert" /\ req[p] \in Requests
      BY <1>5, <1>6 DEF Insert, InTxn
    <2> QED BY <1>6, <2>1, PlaceStep DEF Insert
  <1>7. ASSUME NEW p \in Procs, Save(p) PROVE TreeInv'
    <2>1. /\ req[p].verb = "save" /\ req[p] \in Requests /\ req[p].node \in Stored(snap[p])
          /\ req[p].node \in Nodes
      BY <1>5, <1>7, RequestFacts DEF Save, InTxn
    <2>2. CASE StaysPut(snap[p], req[p])
      <3> DEFINE id == req[p].node
                 row == snap[p][id]
      <3>1. Commit(p, [n \in {id} |-> snap[p][n]], {})
        BY <1>7, <2>2 DEF Save
      <3>2. [n \in {id} |-> snap[p][n]] = [n \in {id} |-> row]
        OBVIOUS
      <3>3. Commit(p, [n \in {id} |-> row], {})
        BY <3>1, <3>2
      <3> QED BY <2>1, <3>3, InPlaceStep
    <2>3. CASE ~StaysPut(snap[p], req[p])
      <3>1. /\ req[p].kind # snap[p][req[p].node].kind => MayChangeTree(snap[p], req[p])
            /\ Fits(snap[p], req[p])
            /\ Commit(p, Placed(snap[p], req[p]), Touched(req[p]))
        BY <1>7, <2>3 DEF Save
      <3> QED BY <2>1, <3>1, PlaceStep
    <2> QED BY <2>2, <2>3
  <1>8. ASSUME NEW p \in Procs, Delete(p) PROVE TreeInv'
    <2> DEFINE id == req[p].node
               row == [snap[p][id] EXCEPT !.st = "deleted"]
    <2>1. id \in Stored(snap[p]) /\ Commit(p, [n \in {id} |-> [snap[p][n] EXCEPT !.st = "deleted"]], {})
      BY <1>8 DEF Delete
    <2>2. [n \in {id} |-> [snap[p][n] EXCEPT !.st = "deleted"]] = [n \in {id} |-> row]
      OBVIOUS
    <2>3. Commit(p, [n \in {id} |-> row], {}) /\ id \in Nodes
      BY <2>1, <2>2 DEF Stored
    <2> QED BY <2>1, <2>3, InPlaceStep
  <1>9. ASSUME NEW p \in Procs, Retry(p) \/ Refuse(p) PROVE TreeInv'
    BY <1>9, AbortStep
  <1> QED BY <1>1, <1>2, <1>3, <1>4, <1>6, <1>7, <1>8, <1>9 DEF Next

(* So it holds in every state.                                             *)
LEMMA TreeAlways == Spec => []TreeInv
  BY TreeInit, TreeStep, PTL DEF Spec

(* The variables of the tree keep their types: no stored path is longer    *)
(* than max_depth allows, and an id that is not used has no place.         *)
THEOREM TreeTypeCorrect == Spec => []TypeOK
  <1>1. TreeInv => TypeOK
    BY DEF TreeInv
  <1> QED BY TreeAlways, <1>1, PTL

(* The ids a node keeps are its parent chain after any race of inserts,    *)
(* moves, changes of tree and deletes.                                     *)
THEOREM PathsAreChains == Spec => []AncestorsFaithful
  <1>1. TreeInv => AncestorsFaithful
    BY DEF TreeInv, Faithful, AncestorsFaithful
  <1> QED BY TreeAlways, <1>1, PTL

(* Every climb ends at a root within max_depth.                            *)
THEOREM DepthIsBounded == Spec => []DepthBound
  <1>1. ASSUME TreeInv, NEW n \in Stored(store)
        PROVE  \E ids \in Paths : IsChain(store, n, ids)
    BY <1>1 DEF TreeInv, TypeOK, Faithful, Row, Stored
  <1>2. TreeInv => DepthBound
    BY <1>1 DEF DepthBound
  <1> QED BY TreeAlways, <1>2, PTL

(* A node is in the tree of its parent.                                    *)
THEOREM TreesStayApart == Spec => []OneKindPerTree
  <1>1. TreeInv => OneKindPerTree
    BY NoneAssumption DEF TreeInv, Kindred, OneKindPerTree, Stored
  <1> QED BY TreeAlways, <1>1, PTL

(* No moves close a cycle between them: of some nodes, the one of the      *)
(* least level has its parent elsewhere.                                   *)
THEOREM CyclesNeverClose == Spec => []NoCycle
  <1>1. ASSUME TreeInv, NEW S \in SUBSET Stored(store), S # {}
        PROVE  \E n \in S : store[n].parent \notin S
    <2> DEFINE levels == {store[n].depth : n \in S}
    <2>1. \A n \in S : /\ n \in Nodes /\ store[n].depth = Len(store[n].ancestors) + 1
                      /\ store[n].ancestors \in Seq(Nodes) /\ Len(store[n].ancestors) \in Nat
                      /\ IsChain(store, n, store[n].ancestors)
      BY <1>1, RowFacts DEF TreeInv, TypeOK, Rows, Faithful, Stored
    <2>2. levels # {} /\ levels \subseteq Nat
      BY <1>1, <2>1
    <2>3. PICK least \in levels : \A y \in levels : least =< y
      BY <2>2, LeastOf
    <2>4. PICK n \in S : store[n].depth = least
      BY <2>3
    <2>5. SUFFICES ASSUME store[n].parent \in S PROVE FALSE
      OBVIOUS
    <2> DEFINE m == store[n].parent
               s == store[n].ancestors
               t == store[m].ancestors
    <2>6. m \in S /\ m # None
      BY <2>1, <2>5, NoneAssumption
    <2> HIDE DEF m
    <2>7. Len(s) # 0 /\ s[Len(s)] = m
      BY <2>1, <2>4, <2>6 DEF IsChain, m
    <2>8. Len(s) \in 1..Len(s)
      BY <2>1, <2>4, <2>7
    <2>9. Len(s) = Len(t) + 1
      <3>1. n \in Nodes /\ s \in Seq(Nodes) /\ IsChain(store, n, s)
        BY <2>1, <2>4
      <3>2. t \in Seq(Nodes) /\ IsChain(store, m, t)
        BY <2>1, <2>6
      <3> HIDE DEF s, t
      <3>3. \A i \in 1..Len(s) : \A u \in Seq(Nodes) : IsChain(store, s[i], u) => i = Len(u) + 1
        BY <3>1, OnceAbove
      <3>4. IsChain(store, s[Len(s)], t)
        BY <2>7, <3>2
      <3> QED BY <2>8, <3>2, <3>3, <3>4
    <2>10. store[n].depth =< store[m].depth
      BY <2>3, <2>4, <2>6
    <2>11. /\ store[n].depth = Len(s) + 1 /\ store[m].depth = Len(t) + 1
           /\ Len(s) \in Nat /\ Len(t) \in Nat
      BY <2>1, <2>4, <2>6
    <2> HIDE DEF s, t
    <2> QED BY <2>9, <2>10, <2>11
  <1>2. TreeInv => NoCycle
    BY <1>1 DEF NoCycle
  <1> QED BY TreeAlways, <1>2, PTL

-----------------------------------------------------------------------------
(* The tree as its readers may think of it: one write at a time, each      *)
(* judged on the committed rows and done in one step.  A save that moves   *)
(* nothing is no step, and a delete asks for nothing but its node: that no *)
(* node is below it is judged before its transaction only.                 *)
SerialPlace(r) == Fits(store, r) /\ store' = After(store, r)

SerialInsert(r) ==
    /\ r.verb = "insert"
    /\ store[r.node] = Unused
    /\ SerialPlace(r)

SerialMove(r) ==
    /\ r.verb = "save"
    /\ r.node \in Stored(store)
    /\ ~StaysPut(store, r)
    /\ r.kind # store[r.node].kind => MayChangeTree(store, r)
    /\ SerialPlace(r)

SerialDelete(id) ==
    /\ id \in Stored(store)
    /\ store' = [store EXCEPT ![id].st = "deleted"]

SerialNext ==
    \/ \E r \in Requests : SerialInsert(r) \/ SerialMove(r)
    \/ \E id \in Nodes : SerialDelete(id)

SerialTree ==
    /\ \E raw \in [Nodes -> RawRows] : ValidSeed(raw) /\ store = Restamped(raw)
    /\ [][SerialNext]_store

(* What the commit of one row in place leaves.                             *)
LEMMA OneRow ==
    ASSUME TreeInv, NEW p \in Procs, NEW id \in Stored(snap[p]), NEW row,
           Commit(p, [n \in {id} |-> row], {})
    PROVE  /\ id \in Nodes /\ snap[p][id] = store[id] /\ id \in Stored(store)
           /\ store' = [store EXCEPT ![id] = row]
  <1> DEFINE w == [n \in {id} |-> row]
  <1>1. DOMAIN w = {id} /\ w[id] = row /\ id \in Nodes
    BY DEF Stored
  <1> HIDE DEF w
  <1>2. /\ p \in open /\ (DOMAIN w \cup {}) \cap missed[p] = {}
        /\ store' = [n \in Nodes |-> IF n \in DOMAIN w THEN w[n] ELSE store[n]]
    BY CommitFacts DEF TreeInv, w
  <1>3. snap[p][id] = store[id]
    BY <1>1, <1>2 DEF TreeInv, SnapshotCurrent
  <1>4. store' = [store EXCEPT ![id] = row]
    BY <1>1, <1>2 DEF TreeInv, TypeOK
  <1> QED BY <1>1, <1>3, <1>4 DEF Stored

(* A placement that commits is the placement of the committed rows.        *)
LEMMA PlaceSerial ==
    ASSUME TreeInv, NEW p \in Procs, NEW r \in Requests, req[p] = r,
           Fits(snap[p], r),
           r.verb = "insert" \/ r.node \in Stored(snap[p]),
           r.verb = "save" /\ r.kind # snap[p][r.node].kind => MayChangeTree(snap[p], r),
           Commit(p, Placed(snap[p], r), Touched(r))
    PROVE  /\ Fits(store, r) /\ store' = After(store, r)
           /\ r.verb = "save" => /\ r.node \in Stored(store) /\ snap[p][r.node] = store[r.node]
                                 /\ r.kind # store[r.node].kind => MayChangeTree(store, r)
  <1>1. /\ Placeable(store, r) /\ Placed(snap[p], r) = Placed(store, r)
        /\ r.node \in Stored(store) /\ r.kind # store[r.node].kind => MayChangeTree(store, r)
        /\ r.verb = "insert" \/ r.node \in Stored(store)
    BY JudgedNow
  <1>2. store' = After(store, r)
    BY <1>1, CommitFacts DEF TreeInv, After
  <1>3. r.node \in Nodes /\ r.node \in DOMAIN Placed(snap[p], r)
    BY RequestFacts DEF Placed
  <1>4. snap[p][r.node] = store[r.node]
    BY <1>3, CommitFacts DEF TreeInv, SnapshotCurrent
  <1> QED BY <1>1, <1>2, <1>4 DEF Placeable

(* Every step is a write of the serial tree, or leaves the rows.           *)
LEMMA SerialStep ==
    ASSUME TreeInv, [Next]_vars
    PROVE  [SerialNext]_store
  <1>1. CASE UNCHANGED vars
    BY <1>1 DEF vars
  <1>2. ASSUME NEW p \in Procs, p \in open, req[p].verb \in {"insert", "save"}
        PROVE  req[p] \in Requests
    BY <1>2, VerbFacts DEF TreeInv, TypeOK
  <1>3. ASSUME NEW p \in Procs, Insert(p) PROVE SerialNext
    <2>1. req[p].verb = "insert" /\ req[p] \in Requests
      BY <1>2, <1>3 DEF Insert, InTxn
    <2>2. Fits(store, req[p]) /\ store' = After(store, req[p])
      BY <1>3, <2>1, PlaceSerial DEF Insert
    <2>3. store[req[p].node] = Unused
      BY <2>1, RequestFacts DEF TreeInv, OwnIds, TypeOK
    <2> QED BY <2>1, <2>2, <2>3 DEF SerialNext, SerialInsert, SerialPlace
  <1>4. ASSUME NEW p \in Procs, Save(p) PROVE SerialNext \/ store' = store
    <2>1. /\ req[p].verb = "save" /\ req[p] \in Requests /\ req[p].node \in Stored(snap[p])
      BY <1>2, <1>4 DEF Save, InTxn
    <2>2. CASE StaysPut(snap[p], req[p])
      <3> DEFINE id == req[p].node
                 row == snap[p][id]
      <3>1. Commit(p, [n \in {id} |-> snap[p][n]], {})
        BY <1>4, <2>2 DEF Save
      <3>2. [n \in {id} |-> snap[p][n]] = [n \in {id} |-> row]
        OBVIOUS
      <3>3. Commit(p, [n \in {id} |-> row], {}) /\ id \in Stored(snap[p])
        BY <2>1, <3>1, <3>2
      <3> HIDE DEF row, id
      <3>4. snap[p][id] = store[id] /\ id \in Nodes /\ store' = [store EXCEPT ![id] = row]
        BY <3>3, OneRow
      <3> QED BY <3>4 DEF TreeInv, TypeOK, row
    <2>3. CASE ~StaysPut(snap[p], req[p])
      <3>1. /\ req[p].kind # snap[p][req[p].node].kind => MayChangeTree(snap[p], req[p])
            /\ Fits(snap[p], req[p])
            /\ Commit(p, Placed(snap[p], req[p]), Touched(req[p]))
        BY <1>4, <2>3 DEF Save
      <3>2. /\ Fits(store, req[p]) /\ store' = After(store, req[p])
            /\ req[p].node \in Stored(store) /\ snap[p][req[p].node] = store[req[p].node]
            /\ req[p].kind # store[req[p].node].kind => MayChangeTree(store, req[p])
        BY <2>1, <3>1, PlaceSerial
      <3>3. ~StaysPut(store, req[p])
        BY <2>3, <3>2 DEF StaysPut
      <3> QED BY <2>1, <3>2, <3>3 DEF SerialNext, SerialMove, SerialPlace
    <2> QED BY <2>2, <2>3
  <1>5. ASSUME NEW p \in Procs, Delete(p) PROVE SerialNext
    <2> DEFINE id == req[p].node
               row == [snap[p][id] EXCEPT !.st = "deleted"]
    <2>1. id \in Stored(snap[p]) /\ Commit(p, [n \in {id} |-> [snap[p][n] EXCEPT !.st = "deleted"]], {})
      BY <1>5 DEF Delete
    <2>2. [n \in {id} |-> [snap[p][n] EXCEPT !.st = "deleted"]] = [n \in {id} |-> row]
      OBVIOUS
    <2>3. Commit(p, [n \in {id} |-> row], {})
      BY <2>1, <2>2
    <2> HIDE DEF row, id
    <2>4. /\ id \in Nodes /\ id \in Stored(store) /\ snap[p][id] = store[id]
          /\ store' = [store EXCEPT ![id] = row]
      BY <2>1, <2>3, OneRow
    <2>5. SerialDelete(id)
      BY <2>4 DEF SerialDelete, row
    <2> QED BY <2>4, <2>5 DEF SerialNext
  <1>6. ASSUME NEW p \in Procs,
               \/ \E r \in Requests : Request(p, r)
               \/ \E id \in Nodes : RequestDelete(p, id)
               \/ Begin(p) \/ Retry(p) \/ Refuse(p)
        PROVE  store' = store
    BY <1>6 DEF Request, RequestDelete, Begin, Retry, Refuse, Txn!Begin, Txn!Abort
  <1> QED BY <1>1, <1>3, <1>4, <1>5, <1>6 DEF Next

(* Inserts, moves, changes of tree and deletes are atomic: whatever races  *)
(* and reruns there are, the committed rows change as if one write at a    *)
(* time were judged and done, although no write locks the path above its   *)
(* node and a placement writes none of the rows it was judged on.          *)
THEOREM TreeWritesAreSerial == Spec => SerialTree
  <1>1. Init => \E raw \in [Nodes -> RawRows] : ValidSeed(raw) /\ store = Restamped(raw)
    BY DEF Init
  <1>2. TreeInv /\ [Next]_vars => [SerialNext]_store
    BY SerialStep
  <1> QED BY <1>1, <1>2, TreeAlways, PTL DEF Spec, SerialTree

=============================================================================
