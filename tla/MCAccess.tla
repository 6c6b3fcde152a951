------------------------------ MODULE MCAccess ------------------------------
(* Small instances of Access: one gated field and a Table of one row whose  *)
(* open cell is locked by its gated cell.                                   *)
EXTENDS Access

MCLevel == [x \in Everything |-> IF x \in {"margin", "done"} THEN 1 ELSE 0]

G(level, action, gate, fields) ==
    [level |-> level, gate |-> gate, fields |-> fields, select |-> level = 0,
     read |-> action \in {"read", "change"}, write |-> action \in {"write", "change"}]

(* What a role may declare at level 0 and what it may declare above it: a   *)
(* grant to change every record by itself, as it leaves nothing to others,  *)
(* or narrower ones with gates of their own.                                *)
ChangesAll == G(0, "change", "always", Columns)
NarrowGrants ==
    {G(0, "read", "condition", Columns), G(0, "change", "owner", Columns),
     G(0, "read", "owner", {Table}), G(0, "write", "always", Columns)}
GatedGrants ==
    {G(1, "read", "always", Columns), G(1, "read", "owner", Columns), G(1, "change", "condition", Columns),
     G(1, "change", "owner", {"margin"})}

OpenTables ==
    {{ChangesAll}} \cup {open \in SUBSET NarrowGrants :
                           Cardinality(open) = Cardinality({g.gate : g \in open}) /\ Cardinality(open) \in 1..2}

MCGrantTables ==
    {open \cup gated : open \in OpenTables, gated \in {g \in SUBSET GatedGrants : Cardinality(g) <= 1}}
=============================================================================
