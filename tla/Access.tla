------------------------------- MODULE Access -------------------------------
(***************************************************************************)
(* What PermissionChecker, the scope filter and a share let a user of one  *)
(* role see and change of a record, while others change the record and     *)
(* with it what the user may do: the read of a form, its save, and the     *)
(* queries that a filter narrows: a list, a count, a search and the        *)
(* aggregate of a view.                                                    *)
(*                                                                         *)
(* The record has single fields and one Table, whose rows have cells; each *)
(* field and cell has a perm_level.  A grant is a permission row of the    *)
(* role.  Its gate is "always", "owner" (if_owner; a scope, which compares *)
(* another stored field with the user, is weighed the same way everywhere) *)
(* or "condition" (an expression over the record, which no filter of the   *)
(* database can stand for).                                                *)
(***************************************************************************)
EXTENDS Naturals, FiniteSets, Functions

CONSTANTS
    Fields,       \* the single fields
    Table,        \* the Table field
    Cells,        \* the cells of its rows
    RowIds,       \* the ids of its rows
    Level,        \* field, Table or cell |-> its perm_level
    LockCell,     \* the cell that carries a read_only_depends_on
    DoneCell,     \* the cell its condition reads
    Values, Done, \* the values; the one that locks
    Blank,        \* no value
    User, Admin,  \* the user of the role, and an Administrator
    GrantTables,  \* the permission tables the entity may declare for the role
    MaxSaves      \* bound: the saves of a behaviour

Everyone == {User, Admin}
Everything == Fields \cup {Table} \cup Cells
Columns == Fields \cup {Table}
Gates == {"always", "owner", "condition"}
Grant == [level : Nat, select : BOOLEAN, read : BOOLEAN, write : BOOLEAN,
          gate : Gates, fields : SUBSET Columns]

ASSUME DisjointAssumption == Fields \cap (Cells \cup {Table}) = {} /\ Table \notin Cells
ASSUME LevelAssumption == Level \in [Everything -> Nat]
\* A Table none of whose cells is gated takes every cell it is sent; this one has a gated cell.
ASSUME GatedAssumption == \E c \in Cells : Level[c] > 0
ASSUME LockAssumption == {LockCell, DoneCell} \subseteq Cells /\ Done \in Values
ASSUME UserAssumption == User # Admin
ASSUME BlankAssumption == Blank \notin Values
ASSUME GrantAssumption == \A table \in GrantTables : table \subseteq Grant
ASSUME SavesAssumption == MaxSaves \in Nat

VARIABLES
    grants,   \* the permission table of the role; fixed once the entity is loaded
    record,   \* the stored record
    shared,   \* whether the record is shared with the user for reading
    form,     \* form[u]: what u last read and has not saved yet
    list      \* the user's query in progress

vars == <<grants, record, shared, form, list>>

Lines == UNION {[ids -> [Cells -> Values \cup {Blank}]] : ids \in SUBSET RowIds}
Record == [owner : Everyone, meets : BOOLEAN, vals : [Fields -> Values], lines : Lines, version : 0..MaxSaves]

-----------------------------------------------------------------------------
(* The judgement on one record.                                            *)

(* permMatchesDoc.                                                         *)
Admits(g, r) ==
    CASE g.gate = "always"    -> TRUE
      [] g.gate = "owner"     -> r.owner = User
      [] g.gate = "condition" -> r.meets

(* hasPermission: only a level-0 grant gives an action.                    *)
Allowed(u, action, r) ==
    u = Admin \/ \E g \in grants : g.level = 0 /\ g[action] /\ Admits(g, r)

(* opensField, for a field or for a cell of the Table.                     *)
OpensField(g, f) == g.level = Level[f] /\ f \in g.fields
OpensCell(g, c) == g.level = Level[c] /\ Table \in g.fields
Opens(g, x) == IF x \in Cells THEN OpensCell(g, x) ELSE OpensField(g, x)

ReadGrants == {g \in grants : g.read}

(* A share shows what a level-0 read shows.                                *)
Readable(u, r, byShare) ==
    {x \in Everything :
       \/ u = Admin
       \/ IF byShare THEN Level[x] = 0 ELSE \E g \in ReadGrants : Admits(g, r) /\ Opens(g, x)}

SharedForReadOnly(u, r) == u = User /\ shared /\ ~Allowed(u, "read", r)

(* filterFieldsForRead: the rest of the record is not in the answer.       *)
Mask(u, r, byShare) ==
    LET seen == Readable(u, r, byShare) IN
    [sees  |-> seen,
     vals  |-> Restrict(r.vals, Fields \cap seen),
     lines |-> IF Table \notin seen THEN [id \in {} |-> Blank]
               ELSE [id \in DOMAIN r.lines |-> Restrict(r.lines[id], Cells \cap seen)]]

-----------------------------------------------------------------------------
(* The form: read, one edit, save under If-Match.                          *)

(* An unread form is of a version no save can follow.                      *)
NoForm == [version |-> MaxSaves, shown |-> [sees |-> {}, vals |-> [f \in {} |-> Blank], lines |-> [id \in {} |-> Blank]]]

ReadForm(u) ==
    /\ Allowed(u, "read", record) \/ (u = User /\ shared)
    /\ form' = [form EXCEPT ![u] =
                  [version |-> record.version,
                   shown   |-> Mask(u, record, SharedForReadOnly(u, record))]]
    /\ UNCHANGED <<grants, record, shared, list>>

(* What can be changed in a form that shows s; the Administrator also      *)
(* hands the record over and changes whether it meets the condition.       *)
FieldEdits(s) == {<<"field", f, v>> : f \in DOMAIN s.vals, v \in Values}
CellEdits(s) == {<<"cell", id, c, v>> : id \in DOMAIN s.lines, c \in Cells, v \in Values}
RowEdits(s) ==
    IF Table \in s.sees THEN {<<"drop", id>> : id \in DOMAIN s.lines} \cup {<<"add", id>> : id \in RowIds \ DOMAIN s.lines}
    ELSE {}
Edits(u, s) ==
    FieldEdits(s) \cup {e \in CellEdits(s) : e[3] \in DOMAIN s.lines[e[2]]} \cup RowEdits(s)
      \cup (IF u = Admin THEN {<<"owner">>, <<"condition">>} ELSE {})

(* The body the form sends: what it shows, edited.  A new row is filled in  *)
(* with one and the same value.                                            *)
Sent(s, e) ==
    CASE e[1] = "field" -> [s EXCEPT !.vals[e[2]] = e[3]]
      [] e[1] = "cell"  -> [s EXCEPT !.lines[e[2]][e[3]] = e[4]]
      [] e[1] = "drop"  -> [s EXCEPT !.lines = Restrict(@, DOMAIN @ \ {e[2]})]
      [] e[1] = "add"   -> [s EXCEPT !.lines = [id \in DOMAIN @ \cup {e[2]} |->
                                  IF id = e[2] THEN [c \in Cells |-> CHOOSE v \in Values : TRUE] ELSE @[id]]]
      [] OTHER          -> s

(* getWritableFields and getWritableChildFields go by the level alone: the *)
(* fields a grant names narrow what it reads, not what it writes.          *)
Writable(u, r) ==
    {x \in Everything : u = Admin \/ \E g \in grants : g.write /\ Admits(g, r) /\ g.level = Level[x]}

(* Mutant of KeptCells: a Table is taken as it was sent.                   *)
KeptCellsNone(may) == {}

(* The cells of a stored row that the writer may not write.                *)
KeptCells(may) == Cells \ may

(* Mutant of MergedLines: the writable cells of the rows that were sent.   *)
MergedLinesSent(r, sent, may) == [id \in DOMAIN sent |-> Restrict(sent[id], DOMAIN sent[id] \cap may)]

(* filterFieldsForWrite: a Table is stored whole, so a row named by its id *)
(* takes back the cells that may not be written; a writable cell that was  *)
(* not sent is gone.                                                       *)
MergedLines(r, sent, may) ==
    [id \in DOMAIN sent |->
       [c \in Cells |->
          IF id \in DOMAIN r.lines /\ c \in KeptCells(may) THEN r.lines[id][c]
          ELSE IF c \in DOMAIN sent[id] /\ c \in may THEN sent[id][c] ELSE Blank]]

(* assertChildLocksKept: the lock is judged on the row the save produces,  *)
(* for a row that is dropped on the row it drops.                          *)
Locked(line) == line[DoneCell] = Done

(* Mutant of LocksKept: rows that are no longer sent are not looked at.    *)
LocksKeptInSent(r, lines) ==
    \A id \in DOMAIN r.lines : id \in DOMAIN lines /\ lines[id][LockCell] # r.lines[id][LockCell] => ~Locked(lines[id])

LocksKept(r, lines) ==
    \A id \in DOMAIN r.lines :
      IF id \in DOMAIN lines
      THEN lines[id][LockCell] # r.lines[id][LockCell] => ~Locked(lines[id])
      ELSE ~Locked(r.lines[id])

Merged(u, r, e) ==
    LET may == Writable(u, r)
        s   == Sent(form[u].shown, e)
    IN  [r EXCEPT !.vals = [f \in Fields |-> IF f \in may /\ f \in DOMAIN s.vals THEN s.vals[f] ELSE @[f]],
                  !.lines = IF Table \in may /\ Table \in s.sees THEN MergedLines(r, s.lines, may) ELSE @,
                  !.owner = IF e = <<"owner">> THEN CHOOSE o \in Everyone : o # @ ELSE @,
                  !.meets = IF e = <<"condition">> THEN ~@ ELSE @,
                  !.version = @ + 1]

(* performUpdate of what the form sends; If-Match refuses a stale form.    *)
Save(u, e) ==
    /\ form[u].version = record.version /\ record.version < MaxSaves
    /\ Allowed(u, "write", record)
    /\ LocksKept(record, Merged(u, record, e).lines)
    /\ record' = Merged(u, record, e)
    /\ form' = [form EXCEPT ![u] = NoForm]
    /\ UNCHANGED <<grants, shared, list>>

(* A share is given, or ends or expires.                                   *)
Share ==
    /\ shared' = ~shared
    /\ UNCHANGED <<grants, record, form, list>>

-----------------------------------------------------------------------------
(* The queries.                                                            *)

Level0Reads == {g \in ReadGrants : g.level = 0}

(* opensOnEveryListedRow.                                                  *)
OpensOnEveryListedRow(x) ==
    \/ \E g \in ReadGrants : g.gate = "always" /\ Opens(g, x)
    \/ Level0Reads # {} /\ \A g \in Level0Reads : Opens(g, x)

(* Mutant of Filterable: what some row shows may be filtered on.           *)
FilterableSomewhere == {x \in Fields \cup Cells : \E g \in ReadGrants : Opens(g, x)}

(* getFilterableFields: a cell only where the Table itself is open too.    *)
Filterable ==
    {x \in Fields \cup Cells : OpensOnEveryListedRow(x) /\ (x \in Cells => OpensOnEveryListedRow(Table))}

(* getReadableFieldsOnEveryRow: what an ungated grant opens.               *)
ReadOnEveryRow ==
    LET Open(x) == \E g \in ReadGrants : g.gate = "always" /\ Opens(g, x)
    IN  {x \in Fields \cup Cells : Open(x) /\ (x \in Cells => Open(Table))}

(* applyScopeFilters: one grant that no filter narrows opens every row.    *)
ScopeAdmits(r) ==
    Level0Reads = {} \/ \E g \in Level0Reads : g.gate # "owner" \/ Admits(g, r)

(* hasConditionalRowRead: then every row is checked after the query.       *)
GatesRows == \E g \in Level0Reads : g.gate = "condition"

Holds(filter, seen) ==
    IF filter[1] \in Fields THEN filter[1] \in DOMAIN seen.vals /\ seen.vals[filter[1]] = filter[2]
    ELSE \E id \in DOMAIN seen.lines :
           filter[1] \in DOMAIN seen.lines[id] /\ seen.lines[id][filter[1]] = filter[2]

NoList == [at |-> "idle", filter |-> <<>>, viaShares |-> FALSE, sharedOnly |-> FALSE]

Starts(filter, viaShares, sharedOnly) ==
    /\ list.at = "idle"
    /\ \E g \in grants : g.level = 0 /\ g.select
    /\ list' = [at |-> "started", filter |-> filter, viaShares |-> viaShares, sharedOnly |-> sharedOnly]
    /\ UNCHANGED <<grants, record, shared, form>>

(* Some other record may be admitted by a share only, unless a grant opens *)
(* every record.                                                           *)
OthersNeedShares == {FALSE} \cup {\A g \in Level0Reads : g.gate # "always"}

(* getList: the filter against the fields it may name, and which records   *)
(* only a share admits: if there are any, it asks by an aggregate.  A list *)
(* of a view and an export come here too.                                  *)
ListStart(filter) ==
    LET sharedOnly == SharedForReadOnly(User, record)
    IN  /\ filter[1] \in Filterable
        /\ \E others \in OthersNeedShares : Starts(filter, sharedOnly \/ others, sharedOnly)

(* A count asks for no shares.                                             *)
CountStart(filter) == filter[1] \in Filterable /\ Starts(filter, FALSE, FALSE)

(* A search matches the filter or a search field, of those it may name.    *)
(* The record is entitled by its id.                                       *)
SearchStart(filter) == filter[1] \in Filterable /\ Starts(filter, FALSE, FALSE)

(* The aggregate of a view drops what the user may not read on every row,  *)
(* and is refused where rows would have to be checked one by one.          *)
AggregateStart(filter) == ~GatesRows /\ filter[1] \in ReadOnEveryRow /\ Starts(filter, FALSE, FALSE)

(* What the query compares: the stored record, or what a share shows.      *)
Compared(r) == IF list.sharedOnly THEN Mask(User, r, TRUE) ELSE [vals |-> r.vals, lines |-> r.lines]

Matches(r) ==
    /\ list.sharedOnly \/ ScopeAdmits(r)
    /\ Holds(list.filter, Compared(r))

(* A share stands for the check of the row.                                *)
RowIsChecked == GatesRows /\ ~list.sharedOnly

PassesRowCheck(r) == RowIsChecked => Allowed(User, "read", r)

(* The query, with the row check of listReadableRows on what it loaded.    *)
ListMatch ==
    /\ list.at = "started" /\ ~list.viaShares
    /\ Matches(record) /\ PassesRowCheck(record)
    /\ list' = [NoList EXCEPT !.at = "answered"]
    /\ UNCHANGED <<grants, record, shared, form>>

(* With shares, the aggregate answers the ids of the rows it matched.      *)
SharedMatch ==
    /\ list.at = "started" /\ list.viaShares
    /\ Matches(record)
    /\ list' = [at |-> "found", filter |-> list.filter, viaShares |-> TRUE, sharedOnly |-> list.sharedOnly]
    /\ UNCHANGED <<grants, record, shared, form>>

(* They are loaded after it, and checked as they are by then.              *)
SharedReload ==
    /\ list.at = "found"
    /\ PassesRowCheck(record)
    /\ list' = [NoList EXCEPT !.at = "answered"]
    /\ UNCHANGED <<grants, record, shared, form>>

ListEnd ==
    /\ list.at # "idle"
    /\ list' = NoList
    /\ UNCHANGED <<grants, record, shared, form>>

-----------------------------------------------------------------------------
Init ==
    /\ grants \in GrantTables
    /\ \E o \in Everyone, m \in BOOLEAN, x \in Values :
         record = [owner |-> o, meets |-> m, vals |-> [f \in Fields |-> x],
                   lines |-> [id \in RowIds |-> [c \in Cells |-> x]], version |-> 0]
    /\ shared = FALSE
    /\ form = [u \in Everyone |-> NoForm]
    /\ list = NoList

FormNext == \E u \in Everyone : ReadForm(u) \/ \E e \in Edits(u, form[u].shown) : Save(u, e)

ListNext ==
    \/ \E filter \in (Fields \cup Cells) \X Values :
         ListStart(filter) \/ CountStart(filter) \/ SearchStart(filter) \/ AggregateStart(filter)
    \/ ListMatch \/ SharedMatch \/ SharedReload \/ ListEnd

Next == FormNext \/ ListNext \/ Share

Spec == Init /\ [][Next]_vars

-----------------------------------------------------------------------------
(* Properties.                                                             *)

(* The types of the variables (EntityPermission, the stored row, the form  *)
(* of RecordPage and a ListQuery).                                         *)
TypeOK ==
    /\ grants \in GrantTables
    /\ record \in Record
    /\ shared \in BOOLEAN
    /\ \A u \in Everyone :
         /\ form[u].version \in 0..MaxSaves
         /\ form[u].shown.sees \subseteq Everything
         /\ DOMAIN form[u].shown.vals \subseteq Fields /\ DOMAIN form[u].shown.lines \subseteq RowIds
    /\ list.at \in {"idle", "started", "found", "answered"}

(* A query that a filter answered has told the user only about a field he  *)
(* may read, a cell in a Table he may read, in the row as it was when the  *)
(* row was judged, while its owner, condition and share change under the   *)
(* query (getFilterableFields is judged before it).  A row is judged by    *)
(* the very read that matches it; in a list with shares that has to check  *)
(* its rows one by one it is judged as loaded again, after the match.      *)
Sees(x) == LET seen == Readable(User, record, list.sharedOnly) IN x \in seen /\ (x \in Cells => Table \in seen)

LetsThrough ==
    \/ list.at = "started" /\ list'.at = "answered"
    \/ list.at = "started" /\ list'.at = "found" /\ ~RowIsChecked
    \/ list.at = "found" /\ list'.at = "answered" /\ RowIsChecked

FiltersReadableOnly == [][LetsThrough => Sees(list.filter[1])]_vars

Saves(u) == record' # record /\ form[u] # NoForm /\ form'[u] = NoForm

ChangesOnly(e) ==
    LET old == record.lines
        new == record'.lines
    IN  /\ \A f \in Fields : record'.vals[f] # record.vals[f] => e[1] = "field" /\ e[2] = f
        /\ \A id \in DOMAIN old \cap DOMAIN new, c \in Cells :
             new[id][c] # old[id][c] => e[1] = "cell" /\ e[2] = id /\ e[3] = c
        /\ \A id \in RowIds : (id \in DOMAIN old) # (id \in DOMAIN new) => e[1] \in {"drop", "add"} /\ e[2] = id

(* Where a role reads what it writes, a save changes nothing but the edit  *)
(* made in the form: what the form did not show, at another perm_level or  *)
(* not its owner's, keeps its stored value, in the rows of a Table stored  *)
(* whole too (filterFieldsForWrite).                                       *)
ReadsWhatItWrites == \A g \in grants : g.write => g.read /\ g.fields = Columns
HiddenKept ==
    [][\A u \in Everyone :
         ReadsWhatItWrites /\ Saves(u) => \E e \in Edits(u, form[u].shown) : ChangesOnly(e)]_vars

(* A user who may not write the cell a lock reads changes no locked cell   *)
(* and drops no locked row, whatever he sends, in one save or in several   *)
(* (assertChildLocksKept judges the row after filterFieldsForWrite).       *)
LocksHoldOut ==
    [][\A id \in DOMAIN record.lines :
         Saves(User) /\ Locked(record.lines[id]) /\ DoneCell \notin Writable(User, record) =>
           /\ id \in DOMAIN record'.lines
           /\ record'.lines[id][LockCell] = record.lines[id][LockCell]]_vars
=============================================================================
