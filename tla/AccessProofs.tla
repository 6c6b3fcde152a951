---------------------------- MODULE AccessProofs ----------------------------
(***************************************************************************)
(* Proofs about Access, for any fields, cells, levels, permission tables   *)
(* and number of saves.                                                    *)
(***************************************************************************)
EXTENDS Access, TLAPS

(* A query under way names what it may.                                    *)
ListInv ==
    list.at \in {"started", "found"} =>
      \/ list.filter[1] \in Filterable
      \/ list.filter[1] \in ReadOnEveryRow

GrantsInv == grants \in GrantTables

LEMMA GrantsTyped == GrantsInv => grants \subseteq Grant
  BY GrantAssumption DEF GrantsInv

(* No step changes what the role is granted.                               *)
LEMMA GrantsFixed == [Next]_vars => grants' = grants
  BY DEF Next, FormNext, ListNext, ReadForm, Save, Share, ListStart, CountStart, SearchStart,
         AggregateStart, Starts, ListMatch, SharedMatch, SharedReload, ListEnd, vars

LEMMA GrantsAlways == Spec => []GrantsInv
  <1>1. Init => GrantsInv
    BY DEF Init, GrantsInv
  <1>2. GrantsInv /\ [Next]_vars => GrantsInv'
    BY GrantsFixed DEF GrantsInv
  <1> QED BY <1>1, <1>2, PTL DEF Spec

LEMMA ListStep == ListInv /\ [Next]_vars => ListInv'
  <1> SUFFICES ASSUME ListInv, [Next]_vars PROVE ListInv'
    OBVIOUS
  <1>1. /\ Filterable' = Filterable
        /\ ReadOnEveryRow' = ReadOnEveryRow
    BY GrantsFixed DEF Filterable, ReadOnEveryRow, OpensOnEveryListedRow, ReadGrants, Level0Reads
  <1>2. CASE list' = list
    BY <1>1, <1>2 DEF ListInv
  <1>3. CASE \E filter \in (Fields \cup Cells) \X Values :
               ListStart(filter) \/ CountStart(filter) \/ SearchStart(filter) \/ AggregateStart(filter)
    BY <1>1, <1>3 DEF ListInv, ListStart, CountStart, SearchStart, AggregateStart, Starts
  <1>4. CASE ListMatch \/ SharedReload \/ ListEnd
    BY <1>4 DEF ListInv, ListMatch, SharedReload, ListEnd, NoList
  <1>5. CASE SharedMatch
    <2>1. list'.at = "found" /\ list.at = "started" /\ list'.filter = list.filter
      BY <1>5 DEF SharedMatch
    <2> QED BY <1>1, <2>1 DEF ListInv
  <1> QED BY <1>2, <1>3, <1>4, <1>5 DEF Next, FormNext, ListNext, ReadForm, Save, Share, vars

(* A grant that the scope filter and the row gate let a row through by     *)
(* admits the row.                                                         *)
LEMMA ThroughScope ==
    ASSUME GrantsInv, NEW r, Level0Reads # {}, ScopeAdmits(r), GatesRows => Allowed(User, "read", r), User # Admin
    PROVE  \E g \in Level0Reads : Admits(g, r)
  <1>1. CASE GatesRows
    <2>1. PICK g \in grants : g.level = 0 /\ g["read"] /\ Admits(g, r)
      BY <1>1 DEF Allowed
    <2> QED BY <2>1 DEF Level0Reads, ReadGrants
  <1>2. CASE ~GatesRows
    <2>1. PICK g \in Level0Reads : g.gate # "owner" \/ Admits(g, r)
      BY DEF ScopeAdmits
    <2>2. g.gate \in Gates /\ g.gate # "condition"
      BY <1>2, GrantsTyped DEF GatesRows, Level0Reads, ReadGrants, Grant
    <2>3. CASE g.gate = "always"
      BY <2>3 DEF Admits
    <2> QED BY <2>1, <2>2, <2>3 DEF Gates
  <1> QED BY <1>1, <1>2

(* What a query may name is read on a row that a level-0 read admits, or   *)
(* where a grant opens it on every row.                                    *)
LEMMA NamedIsSeen ==
    ASSUME GrantsInv, ListInv, list.at \in {"started", "found"}, ~list.sharedOnly,
           \/ User = Admin
           \/ Level0Reads = {}
           \/ \E g \in Level0Reads : Admits(g, record)
    PROVE  Sees(list.filter[1])
  <1> DEFINE x == list.filter[1]
  <1>1. x \in Filterable \/ x \in ReadOnEveryRow
    BY DEF ListInv
  <1>2. x \in Everything /\ Table \in Everything
    BY <1>1 DEF Filterable, ReadOnEveryRow, Everything
  <1>3. OpensOnEveryListedRow(x) /\ (x \in Cells => OpensOnEveryListedRow(Table))
    BY <1>1 DEF Filterable, ReadOnEveryRow, OpensOnEveryListedRow
  <1>4. ASSUME NEW y \in Everything, OpensOnEveryListedRow(y)
        PROVE  y \in Readable(User, record, FALSE)
    <2>1. CASE User = Admin
      BY <2>1 DEF Readable
    <2>2. CASE \E g \in ReadGrants : g.gate = "always" /\ Opens(g, y)
      BY <2>2 DEF Readable, Admits
    <2>3. CASE User # Admin /\ Level0Reads # {} /\ \A g \in Level0Reads : Opens(g, y)
      BY <2>3 DEF Readable, Level0Reads
    <2> QED BY <1>4, <2>1, <2>2, <2>3 DEF OpensOnEveryListedRow
  <1>5. Readable(User, record, list.sharedOnly) = Readable(User, record, FALSE)
    BY DEF Readable
  <1> QED BY <1>2, <1>3, <1>4, <1>5 DEF Sees

(* What is compared in a row that only a share admits is what it shows.    *)
LEMMA SharedIsSeen ==
    ASSUME Matches(record), list.sharedOnly
    PROVE  Sees(list.filter[1])
  <1> DEFINE x == list.filter[1]
             seen == Readable(User, record, TRUE)
  <1>1. Holds(list.filter, Mask(User, record, TRUE))
    BY DEF Matches, Compared
  <1>2. CASE x \in Fields
    <2>1. x \in DOMAIN Mask(User, record, TRUE).vals
      BY <1>1, <1>2 DEF Holds
    <2>2. x \in seen
      BY <2>1 DEF Mask, Restrict
    <2>3. x \notin Cells
      BY <1>2, DisjointAssumption
    <2> QED BY <2>2, <2>3 DEF Sees
  <1>3. CASE x \notin Fields
    <2>1. PICK id \in DOMAIN Mask(User, record, TRUE).lines : x \in DOMAIN Mask(User, record, TRUE).lines[id]
      BY <1>1, <1>3 DEF Holds
    <2>2. Table \in seen
      BY <2>1 DEF Mask
    <2>3. x \in seen
      BY <2>1, <2>2 DEF Mask, Restrict
    <2> QED BY <2>2, <2>3 DEF Sees
  <1> QED BY <1>2, <1>3

(* A row that is matched, and checked where it has to be.                  *)
LEMMA MatchSees ==
    ASSUME GrantsInv, ListInv, list.at = "started", Matches(record), PassesRowCheck(record)
    PROVE  Sees(list.filter[1])
  <1>1. CASE list.sharedOnly
    BY <1>1, SharedIsSeen
  <1>2. CASE ~list.sharedOnly /\ User # Admin /\ Level0Reads # {}
    <2>1. ScopeAdmits(record) /\ (GatesRows => Allowed(User, "read", record))
      BY <1>2 DEF Matches, PassesRowCheck, RowIsChecked
    <2>2. \E g \in Level0Reads : Admits(g, record)
      BY <1>2, <2>1, ThroughScope
    <2> QED BY <1>2, <2>2, NamedIsSeen
  <1>3. CASE ~list.sharedOnly /\ (User = Admin \/ Level0Reads = {})
    BY <1>3, NamedIsSeen
  <1> QED BY <1>1, <1>2, <1>3

(* A row that is checked as it is loaded again.                            *)
LEMMA ReloadSees ==
    ASSUME GrantsInv, ListInv, list.at = "found", RowIsChecked, PassesRowCheck(record)
    PROVE  Sees(list.filter[1])
  <1>1. ~list.sharedOnly /\ Allowed(User, "read", record)
    BY DEF RowIsChecked, PassesRowCheck
  <1>2. CASE User = Admin
    BY <1>1, <1>2, NamedIsSeen
  <1>3. CASE User # Admin
    <2>1. PICK g \in grants : g.level = 0 /\ g["read"] /\ Admits(g, record)
      BY <1>1, <1>3 DEF Allowed
    <2>2. g \in Level0Reads
      BY <2>1 DEF Level0Reads, ReadGrants
    <2> QED BY <1>1, <2>1, <2>2, NamedIsSeen
  <1> QED BY <1>2, <1>3

(* A filter of a list, a count, a search or an aggregate tells the user    *)
(* only about what he may read of the row as it was when it was judged,    *)
(* whoever changes the row, its owner or its share under the query: on the *)
(* match itself, or, where a list with shares checks its rows one by one,  *)
(* on the row it loads again.                                              *)
THEOREM FiltersReach == Spec => FiltersReadableOnly
  <1>1. Init => ListInv
    BY DEF Init, ListInv, NoList
  <1>2. GrantsInv /\ ListInv /\ [Next]_vars => [LetsThrough => Sees(list.filter[1])]_vars
    <2> SUFFICES ASSUME GrantsInv, ListInv, Next, LetsThrough
                 PROVE  Sees(list.filter[1])
      OBVIOUS
    <2>1. /\ list.at \in {"started", "found"} /\ list'.at \in {"found", "answered"}
          /\ list.at # list'.at
      BY DEF LetsThrough
    <2>2. ListMatch \/ SharedMatch \/ SharedReload
      BY <2>1 DEF Next, FormNext, ListNext, ReadForm, Save, Share, ListStart, CountStart, SearchStart,
             AggregateStart, Starts, ListEnd, NoList
    <2>3. CASE ListMatch
      BY <2>3, MatchSees DEF ListMatch
    <2>4. CASE SharedMatch
      <3>1. list.at = "started" /\ Matches(record) /\ list'.at = "found"
        BY <2>4 DEF SharedMatch
      <3>2. ~RowIsChecked
        BY <3>1 DEF LetsThrough
      <3> QED BY <3>1, <3>2, MatchSees DEF PassesRowCheck
    <2>5. CASE SharedReload
      <3>1. list.at = "found" /\ PassesRowCheck(record)
        BY <2>5 DEF SharedReload
      <3>2. RowIsChecked
        BY <3>1 DEF LetsThrough
      <3> QED BY <3>1, <3>2, ReloadSees
    <2> QED BY <2>2, <2>3, <2>4, <2>5
  <1> QED BY <1>1, <1>2, ListStep, GrantsAlways, PTL DEF Spec, FiltersReadableOnly

-----------------------------------------------------------------------------
(* The form and what its save makes of the record.                         *)

(* What a form of the stored version shows is the record, masked.          *)
FormInv ==
    \A u \in Everyone :
      \/ form[u] = NoForm
      \/ form[u].version < record.version
      \/ \E byShare \in BOOLEAN :
           /\ byShare => ~Allowed(u, "read", record)
           /\ form[u] = [version |-> record.version, shown |-> Mask(u, record, byShare)]

AccessInv == TypeOK /\ FormInv /\ DOMAIN form = Everyone

LEMMA MaskShape ==
    ASSUME record \in Record, NEW u, NEW byShare
    PROVE  LET s == Mask(u, record, byShare)
               seen == Readable(u, record, byShare)
           IN  /\ s = [sees |-> s.sees, vals |-> s.vals, lines |-> s.lines]
               /\ s.sees = seen /\ seen \subseteq Everything
               /\ DOMAIN s.vals = Fields \cap seen
               /\ \A f \in DOMAIN s.vals : s.vals[f] = record.vals[f]
               /\ Table \notin seen => DOMAIN s.lines = {}
               /\ Table \in seen => DOMAIN s.lines = DOMAIN record.lines
               /\ \A id \in DOMAIN s.lines :
                    /\ DOMAIN s.lines[id] = Cells \cap seen
                    /\ \A c \in DOMAIN s.lines[id] : s.lines[id][c] = record.lines[id][c]
  <1> DEFINE seen == Readable(u, record, byShare)
  <1>1. seen \subseteq Everything
    BY DEF Readable
  <1>2. Mask(u, record, byShare) =
          [sees |-> seen, vals |-> [f \in Fields \cap seen |-> record.vals[f]],
           lines |-> IF Table \notin seen THEN [id \in {} |-> Blank]
                     ELSE [id \in DOMAIN record.lines |-> [c \in Cells \cap seen |-> record.lines[id][c]]]]
    BY DEF Mask, Restrict
  <1> HIDE DEF seen
  <1> QED BY <1>1, <1>2 DEF seen

LEMMA LinesShape ==
    ASSUME NEW lines
    PROVE  lines \in Lines <=>
             /\ DOMAIN lines \subseteq RowIds
             /\ lines \in [DOMAIN lines -> [Cells -> Values \cup {Blank}]]
  BY DEF Lines

(* What is sent differs from what is shown where the edit was made.        *)
SentAs(s, t, e) ==
    /\ t.sees = s.sees
    /\ DOMAIN t.vals = DOMAIN s.vals
    /\ \A f \in DOMAIN t.vals :
         /\ t.vals[f] \in Values
         /\ t.vals[f] # record.vals[f] => e[1] = "field" /\ e[2] = f
    /\ Table \in s.sees =>
         /\ DOMAIN t.lines \subseteq RowIds
         /\ \A id \in RowIds :
              (id \in DOMAIN t.lines) # (id \in DOMAIN record.lines) => e[1] \in {"drop", "add"} /\ e[2] = id
         /\ \A id \in DOMAIN t.lines : \A c \in DOMAIN t.lines[id] : t.lines[id][c] \in Values \cup {Blank}
         /\ \A id \in DOMAIN t.lines \cap DOMAIN record.lines :
              /\ Cells \cap s.sees \subseteq DOMAIN t.lines[id]
              /\ \A c \in Cells \cap s.sees :
                   t.lines[id][c] # record.lines[id][c] => e[1] = "cell" /\ e[2] = id /\ e[3] = c

LEMMA SentShape ==
    ASSUME record \in Record, NEW u, NEW byShare, NEW e \in Edits(u, Mask(u, record, byShare))
    PROVE  SentAs(Mask(u, record, byShare), Sent(Mask(u, record, byShare), e), e)
  <1> DEFINE s == Mask(u, record, byShare)
             t == Sent(s, e)
             seen == Readable(u, record, byShare)
  <1>1. /\ s = [sees |-> s.sees, vals |-> s.vals, lines |-> s.lines]
        /\ s.sees = seen
        /\ DOMAIN s.vals = Fields \cap seen
        /\ \A f \in DOMAIN s.vals : s.vals[f] = record.vals[f]
        /\ Table \notin seen => DOMAIN s.lines = {}
        /\ Table \in seen => DOMAIN s.lines = DOMAIN record.lines
        /\ \A id \in DOMAIN s.lines :
             /\ DOMAIN s.lines[id] = Cells \cap seen
             /\ \A c \in DOMAIN s.lines[id] : s.lines[id][c] = record.lines[id][c]
    BY MaskShape
  <1>2. /\ record.vals \in [Fields -> Values]
        /\ record.lines \in Lines
    BY DEF Record
  <1>3. /\ DOMAIN record.lines \subseteq RowIds
        /\ \A id \in DOMAIN record.lines : record.lines[id] \in [Cells -> Values \cup {Blank}]
    BY <1>2, LinesShape
  <1> SUFFICES SentAs(s, t, e)
    OBVIOUS
  <1> HIDE DEF s, t, seen
  <1>4. /\ \A f \in DOMAIN s.vals : s.vals[f] \in Values
        /\ \A id \in DOMAIN s.lines : \A c \in DOMAIN s.lines[id] : s.lines[id][c] \in Values \cup {Blank}
        /\ DOMAIN s.lines \subseteq RowIds
    BY <1>1, <1>2, <1>3
  <1>5. CASE e \in FieldEdits(s)
    <2>1. PICK f \in DOMAIN s.vals, v \in Values : e = <<"field", f, v>>
      BY <1>5 DEF FieldEdits
    <2>2. t = [s EXCEPT !.vals[f] = v]
      BY <2>1 DEF Sent, t
    <2>3. t.sees = s.sees /\ t.lines = s.lines /\ t.vals = [s.vals EXCEPT ![f] = v]
      BY <1>1, <2>2
    <2> QED BY <1>1, <1>3, <1>4, <2>1, <2>3 DEF SentAs
  <1>6. CASE e \in {x \in CellEdits(s) : x[3] \in DOMAIN s.lines[x[2]]}
    <2>1. PICK id \in DOMAIN s.lines, c \in Cells, v \in Values : e = <<"cell", id, c, v>>
      BY <1>6 DEF CellEdits
    <2>2. c \in DOMAIN s.lines[id]
      BY <1>6, <2>1
    <2>3. t = [s EXCEPT !.lines[id][c] = v]
      BY <2>1 DEF Sent, t
    <2>4. /\ t.sees = s.sees /\ t.vals = s.vals
          /\ t.lines = [s.lines EXCEPT ![id] = [s.lines[id] EXCEPT ![c] = v]]
      BY <1>1, <2>3
    <2> QED BY <1>1, <1>3, <1>4, <2>1, <2>2, <2>4 DEF SentAs
  <1>7. CASE e \in RowEdits(s)
    <2>1. Table \in seen
      BY <1>1, <1>7 DEF RowEdits
    <2>2. CASE \E id \in DOMAIN s.lines : e = <<"drop", id>>
      <3>1. PICK id \in DOMAIN s.lines : e = <<"drop", id>>
        BY <2>2
      <3>2. t = [s EXCEPT !.lines = [i \in DOMAIN s.lines \ {id} |-> s.lines[i]]]
        BY <1>1, <3>1 DEF Sent, Restrict, t
      <3>3. /\ t.sees = s.sees /\ t.vals = s.vals
            /\ t.lines = [i \in DOMAIN s.lines \ {id} |-> s.lines[i]]
        BY <1>1, <3>2
      <3> QED BY <1>1, <1>3, <1>4, <2>1, <3>1, <3>3 DEF SentAs
    <2>3. CASE \E id \in RowIds \ DOMAIN s.lines : e = <<"add", id>>
      <3>1. PICK id \in RowIds \ DOMAIN s.lines : e = <<"add", id>>
        BY <2>3
      <3> DEFINE new == [c \in Cells |-> CHOOSE v \in Values : TRUE]
      <3>2. t = [s EXCEPT !.lines = [i \in DOMAIN s.lines \cup {id} |-> IF i = id THEN new ELSE s.lines[i]]]
        BY <1>1, <3>1 DEF Sent, t
      <3>3. /\ t.sees = s.sees /\ t.vals = s.vals
            /\ t.lines = [i \in DOMAIN s.lines \cup {id} |-> IF i = id THEN new ELSE s.lines[i]]
        BY <1>1, <3>2
      <3>4. \A c \in Cells : new[c] \in Values
        BY LockAssumption
      <3>5. DOMAIN new = Cells
        OBVIOUS
      <3> HIDE DEF new
      <3> QED BY <1>1, <1>3, <1>4, <2>1, <3>1, <3>3, <3>4, <3>5 DEF SentAs
    <2> QED BY <1>1, <1>7, <2>1, <2>2, <2>3 DEF RowEdits
  <1>8. CASE e \in {<<"owner">>, <<"condition">>}
    <2>1. t = s
      BY <1>8 DEF Sent, t
    <2> QED BY <1>1, <1>3, <1>4, <2>1 DEF SentAs
  <1> QED BY <1>5, <1>6, <1>7, <1>8 DEF Edits, s

(* A form that can be saved shows the stored record.                       *)
LEMMA SavedForm ==
    ASSUME TypeOK, FormInv, NEW u \in Everyone, NEW e, Save(u, e)
    PROVE  /\ form[u] # NoForm
           /\ \E byShare \in BOOLEAN :
                /\ byShare => ~Allowed(u, "read", record)
                /\ form[u].shown = Mask(u, record, byShare)
  <1>1. form[u].version = record.version /\ record.version < MaxSaves
    BY DEF Save
  <1>2. record.version \in Nat /\ MaxSaves \in Nat
    BY SavesAssumption DEF TypeOK, Record
  <1>3. form[u] # NoForm
    BY <1>1, <1>2 DEF NoForm
  <1>4. ~(form[u].version < record.version)
    BY <1>1, <1>2
  <1>5. PICK byShare \in BOOLEAN :
          /\ byShare => ~Allowed(u, "read", record)
          /\ form[u] = [version |-> record.version, shown |-> Mask(u, record, byShare)]
    BY <1>3, <1>4 DEF FormInv
  <1>6. form[u].shown = Mask(u, record, byShare)
    BY <1>5
  <1> QED BY <1>3, <1>5, <1>6

LEMMA MergedShape ==
    ASSUME record \in Record, NEW u \in Everyone, NEW e, record.version < MaxSaves,
           NEW s, form[u].shown = s, SentAs(s, Sent(s, e), e)
    PROVE  LET t   == Sent(s, e)
               may == Writable(u, record)
               new == Merged(u, record, e)
           IN  /\ new \in Record
               /\ new.version = record.version + 1
               /\ new.vals = [f \in Fields |-> IF f \in may /\ f \in DOMAIN t.vals THEN t.vals[f] ELSE record.vals[f]]
               /\ new.lines = IF Table \in may /\ Table \in t.sees THEN MergedLines(record, t.lines, may) ELSE record.lines
  <1> DEFINE t   == Sent(s, e)
             may == Writable(u, record)
             new == Merged(u, record, e)
             vals == [f \in Fields |-> IF f \in may /\ f \in DOMAIN t.vals THEN t.vals[f] ELSE record.vals[f]]
             lines == IF Table \in may /\ Table \in t.sees THEN MergedLines(record, t.lines, may) ELSE record.lines
             owner == IF e = <<"owner">> THEN CHOOSE o \in Everyone : o # record.owner ELSE record.owner
             meets == IF e = <<"condition">> THEN ~record.meets ELSE record.meets
  <1>1. /\ record = [owner |-> record.owner, meets |-> record.meets, vals |-> record.vals,
                     lines |-> record.lines, version |-> record.version]
        /\ record.owner \in Everyone /\ record.meets \in BOOLEAN
        /\ record.vals \in [Fields -> Values] /\ record.lines \in Lines
        /\ record.version \in 0..MaxSaves
    BY DEF Record
  <1>2. new = [owner |-> owner, meets |-> meets, vals |-> vals, lines |-> lines, version |-> record.version + 1]
    <2>1. new = [record EXCEPT !.vals = vals, !.lines = lines, !.owner = owner, !.meets = meets,
                               !.version = record.version + 1]
      BY DEF Merged
    <2> HIDE DEF new, vals, lines, owner, meets
    <2> QED BY <1>1, <2>1
  <1> HIDE DEF new
  <1>3. owner \in Everyone
    <2>1. \E o \in Everyone : o # record.owner
      BY <1>1, UserAssumption DEF Everyone
    <2> QED BY <1>1, <2>1
  <1>4. meets \in BOOLEAN
    BY <1>1
  <1>5. vals \in [Fields -> Values]
    <2>1. \A f \in DOMAIN t.vals : t.vals[f] \in Values
      BY DEF SentAs
    <2> QED BY <1>1, <2>1
  <1>6. lines \in Lines
    <2>1. CASE Table \in may /\ Table \in t.sees
      <3>1. /\ DOMAIN t.lines \subseteq RowIds
            /\ \A id \in DOMAIN t.lines : \A c \in DOMAIN t.lines[id] : t.lines[id][c] \in Values \cup {Blank}
        BY <2>1 DEF SentAs
      <3>2. \A id \in DOMAIN record.lines : record.lines[id] \in [Cells -> Values \cup {Blank}]
        BY <1>1, LinesShape
      <3> DEFINE merged == MergedLines(record, t.lines, may)
                 cell(id, c) == IF id \in DOMAIN record.lines /\ c \in KeptCells(may) THEN record.lines[id][c]
                                ELSE IF c \in DOMAIN t.lines[id] /\ c \in may THEN t.lines[id][c] ELSE Blank
      <3> HIDE DEF t, may
      <3>3. \A id \in DOMAIN t.lines : \A c \in Cells : cell(id, c) \in Values \cup {Blank}
        BY <3>1, <3>2
      <3>4. merged = [id \in DOMAIN t.lines |-> [c \in Cells |-> cell(id, c)]]
        BY DEF MergedLines
      <3> HIDE DEF merged, cell
      <3>5. merged \in Lines
        <4>1. DOMAIN merged = DOMAIN t.lines
          BY <3>4
        <4>2. merged \in [DOMAIN merged -> [Cells -> Values \cup {Blank}]]
          BY <3>3, <3>4
        <4> QED BY <3>1, <4>1, <4>2, LinesShape
      <3> QED BY <2>1, <3>5 DEF merged, t, may
    <2>2. CASE ~(Table \in may /\ Table \in t.sees)
      BY <1>1, <2>2
    <2> QED BY <2>1, <2>2
  <1>7. record.version + 1 \in 0..MaxSaves
    BY <1>1, SavesAssumption
  <1> HIDE DEF owner, meets, vals, lines
  <1>8. new \in Record
    BY <1>2, <1>3, <1>4, <1>5, <1>6, <1>7 DEF Record
  <1>9. new.version = record.version + 1 /\ new.vals = vals /\ new.lines = lines
    BY <1>2
  <1> QED BY <1>8, <1>9 DEF new, vals, lines

(* The form of a call that has saved is the only one given up.             *)
LEMMA SaveEffect ==
    ASSUME TypeOK, FormInv, NEW u \in Everyone, NEW e \in Edits(u, form[u].shown), Save(u, e)
    PROVE  /\ form[u] # NoForm
           /\ \E byShare \in BOOLEAN :
                LET s == Mask(u, record, byShare) IN
                /\ byShare => ~Allowed(u, "read", record)
                /\ form[u].shown = s
                /\ SentAs(s, Sent(s, e), e)
           /\ record' = Merged(u, record, e) /\ record' \in Record
           /\ record'.version = record.version + 1
  <1>1. record \in Record /\ record.version < MaxSaves
    BY DEF TypeOK, Save
  <1>2. PICK byShare \in BOOLEAN :
          /\ byShare => ~Allowed(u, "read", record)
          /\ form[u].shown = Mask(u, record, byShare)
    BY SavedForm
  <1> DEFINE s == Mask(u, record, byShare)
  <1>3. SentAs(s, Sent(s, e), e)
    BY <1>1, <1>2, SentShape
  <1>4. Merged(u, record, e) \in Record /\ Merged(u, record, e).version = record.version + 1
    BY <1>1, <1>2, <1>3, MergedShape
  <1>5. record' = Merged(u, record, e)
    BY DEF Save
  <1> QED BY <1>2, <1>3, <1>4, <1>5, SavedForm

LEMMA NoFormType ==
    /\ NoForm.version = MaxSaves /\ NoForm.shown.sees = {}
    /\ DOMAIN NoForm.shown.vals = {} /\ DOMAIN NoForm.shown.lines = {}
  BY DEF NoForm

LEMMA InitAccess == Init => AccessInv
  <1> SUFFICES ASSUME Init PROVE AccessInv
    OBVIOUS
  <1>1. record \in Record
    <2>1. PICK o \in Everyone, m \in BOOLEAN, x \in Values :
            record = [owner |-> o, meets |-> m, vals |-> [f \in Fields |-> x],
                      lines |-> [id \in RowIds |-> [c \in Cells |-> x]], version |-> 0]
      BY DEF Init
    <2> DEFINE lines == [id \in RowIds |-> [c \in Cells |-> x]]
    <2>2. lines \in Lines
      BY LinesShape
    <2>3. 0 \in 0..MaxSaves
      BY SavesAssumption
    <2> QED BY <2>1, <2>2, <2>3 DEF Record
  <1>2. DOMAIN form = Everyone /\ \A u \in Everyone : form[u] = NoForm
    BY DEF Init
  <1>3. /\ grants \in GrantTables /\ shared \in BOOLEAN
        /\ list.at \in {"idle", "started", "found", "answered"}
    BY DEF Init, NoList
  <1>4. MaxSaves \in 0..MaxSaves
    BY SavesAssumption
  <1>5. TypeOK
    BY <1>1, <1>2, <1>3, <1>4, NoFormType DEF TypeOK
  <1> QED BY <1>2, <1>5 DEF AccessInv, FormInv

(* What a user sees of a record stays while the record and the grants do.  *)
LEMMA JudgementsKept ==
    ASSUME grants' = grants, record' = record
    PROVE  /\ \A u, byShare : Mask(u, record, byShare)' = Mask(u, record, byShare)
           /\ \A u : Allowed(u, "read", record)' = Allowed(u, "read", record)
  BY DEF Mask, Readable, ReadGrants, Allowed

LEMMA StepAccess == AccessInv /\ [Next]_vars => AccessInv'
  <1> SUFFICES ASSUME AccessInv, [Next]_vars PROVE AccessInv'
    OBVIOUS
  <1>1. TypeOK /\ FormInv /\ DOMAIN form = Everyone
    BY DEF AccessInv
  <1>2. CASE /\ UNCHANGED <<grants, record, form>>
             /\ shared' \in BOOLEAN
             /\ list'.at \in {"idle", "started", "found", "answered"}
    <2>1. TypeOK'
      BY <1>1, <1>2 DEF TypeOK
    <2>2. FormInv'
      BY <1>1, <1>2, JudgementsKept DEF FormInv
    <2> QED BY <1>1, <1>2, <2>1, <2>2 DEF AccessInv
  <1>3. CASE UNCHANGED vars
    BY <1>1, <1>2, <1>3 DEF vars, TypeOK
  <1>4. CASE Share
    BY <1>1, <1>2, <1>4 DEF Share, TypeOK
  <1>5. CASE ListNext
    <2>1. list'.at \in {"idle", "started", "found", "answered"}
      BY <1>5 DEF ListNext, ListStart, CountStart, SearchStart, AggregateStart, Starts, ListMatch, SharedMatch, SharedReload, ListEnd, NoList
    <2>2. UNCHANGED <<grants, record, shared, form>>
      BY <1>5 DEF ListNext, ListStart, CountStart, SearchStart, AggregateStart, Starts, ListMatch, SharedMatch, SharedReload, ListEnd
    <2> QED BY <1>1, <1>2, <2>1, <2>2 DEF TypeOK
  <1>6. ASSUME NEW u \in Everyone, ReadForm(u) PROVE AccessInv'
    <2> DEFINE byShare == SharedForReadOnly(u, record)
               new == [version |-> record.version, shown |-> Mask(u, record, byShare)]
    <2>1. /\ form' = [form EXCEPT ![u] = new]
          /\ UNCHANGED <<grants, record, shared, list>>
      BY <1>6 DEF ReadForm
    <2>2. byShare \in BOOLEAN /\ (byShare => ~Allowed(u, "read", record))
      BY DEF SharedForReadOnly
    <2>3. record \in Record /\ record.version \in 0..MaxSaves /\ DOMAIN record.lines \subseteq RowIds
      BY <1>1, LinesShape DEF TypeOK, Record
    <2>4. /\ Mask(u, record, byShare).sees \subseteq Everything
          /\ DOMAIN Mask(u, record, byShare).vals \subseteq Fields
          /\ DOMAIN Mask(u, record, byShare).lines \subseteq RowIds
      BY <2>3, MaskShape
    <2> HIDE DEF byShare
    <2>5. TypeOK'
      BY <1>1, <2>1, <2>3, <2>4 DEF TypeOK
    <2>6. FormInv'
      BY <1>1, <2>1, <2>2, JudgementsKept DEF FormInv
    <2> QED BY <1>1, <2>1, <2>5, <2>6 DEF AccessInv
  <1>7. ASSUME NEW u \in Everyone, NEW e \in Edits(u, form[u].shown), Save(u, e) PROVE AccessInv'
    <2>1. /\ form' = [form EXCEPT ![u] = NoForm]
          /\ UNCHANGED <<grants, shared, list>>
      BY <1>7 DEF Save
    <2>2. record' \in Record /\ record'.version = record.version + 1
      BY <1>1, <1>7, SaveEffect
    <2>3. record.version \in Nat /\ MaxSaves \in Nat
      BY <1>1, SavesAssumption DEF TypeOK, Record
    <2>4. TypeOK'
      BY <1>1, <2>1, <2>2, <2>3, NoFormType DEF TypeOK
    <2>5. \A w \in Everyone : form[w] = NoForm \/ form[w].version <= record.version
      <3> SUFFICES ASSUME NEW w \in Everyone, form[w] # NoForm PROVE form[w].version <= record.version
        OBVIOUS
      <3>1. CASE form[w].version < record.version
        BY <1>1, <2>3, <3>1 DEF TypeOK
      <3>2. CASE \E b \in BOOLEAN : form[w] = [version |-> record.version, shown |-> Mask(w, record, b)]
        BY <2>3, <3>2
      <3> QED BY <1>1, <3>1, <3>2 DEF FormInv
    <2>6. FormInv'
      <3> SUFFICES ASSUME NEW w \in Everyone, form'[w] # NoForm PROVE form'[w].version < record'.version
        BY DEF FormInv
      <3>1. form'[w] = form[w]
        BY <1>1, <2>1
      <3>2. form[w].version \in Nat
        BY <1>1, SavesAssumption DEF TypeOK
      <3> QED BY <2>2, <2>3, <2>5, <3>1, <3>2
    <2> QED BY <1>1, <2>1, <2>4, <2>6 DEF AccessInv
  <1> QED BY <1>3, <1>4, <1>5, <1>6, <1>7 DEF Next, FormNext

(* Every variable keeps its type.                                          *)
THEOREM AccessTypeCorrect == Spec => []TypeOK
  <1> QED BY InitAccess, StepAccess, PTL DEF Spec, AccessInv

(* The one who gave up his form is the one whose save it was.              *)
LEMMA Saver ==
    ASSUME AccessInv, [Next]_vars, NEW u \in Everyone, Saves(u)
    PROVE  \E e \in Edits(u, form[u].shown) : Save(u, e)
  <1>1. PICK w \in Everyone : \E e \in Edits(w, form[w].shown) : Save(w, e)
    BY DEF Saves, Next, FormNext, ListNext, ReadForm, Share, ListStart, CountStart, SearchStart,
           AggregateStart, Starts, ListMatch, SharedMatch, SharedReload, ListEnd, vars
  <1>2. form' = [form EXCEPT ![w] = NoForm]
    BY <1>1 DEF Save
  <1>3. w = u
    BY <1>2 DEF AccessInv, Saves
  <1> QED BY <1>1, <1>3

(* Where a role reads what it writes, a save changes what was edited and   *)
(* nothing that the form did not show.                                     *)
LEMMA SaveHides ==
    ASSUME AccessInv, ReadsWhatItWrites, NEW u \in Everyone, NEW e \in Edits(u, form[u].shown), Save(u, e)
    PROVE  ChangesOnly(e)
  <1> DEFINE may == Writable(u, record)
  <1>1. TypeOK /\ FormInv /\ record \in Record
    BY DEF AccessInv, TypeOK
  <1>2. PICK byShare \in BOOLEAN :
          /\ byShare => ~Allowed(u, "read", record)
          /\ form[u].shown = Mask(u, record, byShare)
          /\ SentAs(Mask(u, record, byShare), Sent(Mask(u, record, byShare), e), e)
    BY <1>1, SaveEffect
  <1> DEFINE s == Mask(u, record, byShare)
             t == Sent(s, e)
             seen == Readable(u, record, byShare)
  <1>3. /\ record'.vals = [f \in Fields |-> IF f \in may /\ f \in DOMAIN t.vals THEN t.vals[f] ELSE record.vals[f]]
        /\ record'.lines = IF Table \in may /\ Table \in t.sees THEN MergedLines(record, t.lines, may) ELSE record.lines
    <2>1. record.version < MaxSaves /\ record' = Merged(u, record, e)
      BY DEF Save
    <2> QED BY <1>1, <1>2, <2>1, MergedShape
  <1>4. Allowed(u, "write", record) /\ grants \subseteq Grant
    BY <1>1, GrantAssumption DEF Save, TypeOK
  <1>5. Allowed(u, "read", record)
    BY <1>4 DEF Allowed, ReadsWhatItWrites
  <1>6. byShare = FALSE
    BY <1>2, <1>5
  <1>7. Cells \cap may \subseteq seen
    <2> SUFFICES ASSUME NEW c \in Cells, c \in may, u # Admin PROVE c \in seen
      BY DEF Readable, Everything
    <2>1. PICK g \in grants : g.write /\ Admits(g, record) /\ g.level = Level[c]
      BY DEF Writable
    <2>2. g.read /\ g.fields = Columns
      BY <2>1 DEF ReadsWhatItWrites
    <2>3. Opens(g, c)
      BY <2>1, <2>2 DEF Opens, OpensCell, Columns
    <2> QED BY <1>6, <2>1, <2>2, <2>3 DEF Readable, ReadGrants, Everything
  <1>8. s.sees = seen /\ t.sees = seen
    BY <1>1, <1>2, MaskShape DEF SentAs
  <1>9. \A f \in Fields : record'.vals[f] # record.vals[f] => e[1] = "field" /\ e[2] = f
    BY <1>2, <1>3 DEF SentAs
  <1>10. CASE Table \in may /\ Table \in seen
    <2>1. record'.lines = MergedLines(record, t.lines, may)
      BY <1>3, <1>8, <1>10
    <2>2. DOMAIN record'.lines = DOMAIN t.lines
      BY <2>1 DEF MergedLines
    <2>3. ASSUME NEW id \in DOMAIN record.lines \cap DOMAIN record'.lines, NEW c \in Cells,
                 record'.lines[id][c] # record.lines[id][c]
          PROVE  e[1] = "cell" /\ e[2] = id /\ e[3] = c
      <3>1. Cells \cap seen \subseteq DOMAIN t.lines[id]
        BY <1>2, <1>8, <1>10, <2>2 DEF SentAs
      <3>2. record'.lines[id][c] = IF c \in may THEN t.lines[id][c] ELSE record.lines[id][c]
        BY <1>7, <2>1, <2>2, <3>1 DEF MergedLines, KeptCells
      <3>3. c \in seen
        BY <1>7, <2>3, <3>2
      <3> QED BY <1>2, <1>8, <1>10, <2>2, <2>3, <3>2, <3>3 DEF SentAs
    <2>4. \A id \in RowIds : (id \in DOMAIN record.lines) # (id \in DOMAIN record'.lines) =>
                                e[1] \in {"drop", "add"} /\ e[2] = id
      BY <1>2, <1>8, <1>10, <2>2 DEF SentAs
    <2> QED BY <1>9, <2>3, <2>4 DEF ChangesOnly
  <1>11. CASE ~(Table \in may /\ Table \in seen)
    <2>1. record'.lines = record.lines
      BY <1>3, <1>8, <1>11
    <2> QED BY <1>9, <2>1 DEF ChangesOnly
  <1> QED BY <1>10, <1>11

(* What a form did not show keeps its stored value when the form is saved, *)
(* if the role reads whatever it writes.                                   *)
THEOREM HiddenIsKept == Spec => HiddenKept
  <1>1. AccessInv /\ [Next]_vars =>
          [\A u \in Everyone :
             ReadsWhatItWrites /\ Saves(u) => \E e \in Edits(u, form[u].shown) : ChangesOnly(e)]_vars
    BY Saver, SaveHides
  <1> QED BY <1>1, InitAccess, StepAccess, PTL DEF Spec, HiddenKept

(* Whoever may not write the cell that locks a row leaves the locked cell  *)
(* and the locked row as they are.                                         *)
THEOREM LocksHold == Spec => LocksHoldOut
  <1>1. ASSUME AccessInv, [Next]_vars, Saves(User), NEW id \in DOMAIN record.lines,
               Locked(record.lines[id]), DoneCell \notin Writable(User, record)
        PROVE  id \in DOMAIN record'.lines /\ record'.lines[id][LockCell] = record.lines[id][LockCell]
    <2>1. User \in Everyone
      BY DEF Everyone
    <2>2. PICK e \in Edits(User, form[User].shown) : Save(User, e)
      BY <1>1, <2>1, Saver
    <2> DEFINE may == Writable(User, record)
    <2>3. LocksKept(record, record'.lines)
      BY <2>2 DEF Save
    <2>4. id \in DOMAIN record'.lines
      BY <1>1, <2>3 DEF LocksKept
    <2>5. record'.lines = record.lines \/ record'.lines[id][DoneCell] = record.lines[id][DoneCell]
      <3>1. PICK t : record'.lines = record.lines \/ record'.lines = MergedLines(record, t, may)
        <4>1. PICK b \in BOOLEAN :
                /\ form[User].shown = Mask(User, record, b)
                /\ SentAs(Mask(User, record, b), Sent(Mask(User, record, b), e), e)
          BY <1>1, <2>1, <2>2, SaveEffect DEF AccessInv
        <4>2. record.version < MaxSaves /\ record' = Merged(User, record, e) /\ record \in Record
          BY <1>1, <2>2 DEF Save, AccessInv, TypeOK
        <4> QED BY <2>1, <4>1, <4>2, MergedShape
      <3>2. DoneCell \in KeptCells(may) /\ DoneCell \in Cells
        BY <1>1, LockAssumption DEF KeptCells
      <3> QED BY <1>1, <2>4, <3>1, <3>2 DEF MergedLines
    <2>6. CASE record'.lines = record.lines
      BY <2>4, <2>6
    <2>7. CASE record'.lines[id][DoneCell] = record.lines[id][DoneCell]
      BY <1>1, <2>3, <2>4, <2>7 DEF LocksKept, Locked
    <2> QED BY <2>4, <2>5, <2>6, <2>7
  <1>2. AccessInv /\ [Next]_vars =>
          [\A id \in DOMAIN record.lines :
             Saves(User) /\ Locked(record.lines[id]) /\ DoneCell \notin Writable(User, record) =>
               /\ id \in DOMAIN record'.lines
               /\ record'.lines[id][LockCell] = record.lines[id][LockCell]]_vars
    BY <1>1
  <1> QED BY <1>2, InitAccess, StepAccess, PTL DEF Spec, LocksHoldOut
=============================================================================
