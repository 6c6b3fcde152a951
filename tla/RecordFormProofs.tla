-------------------------- MODULE RecordFormProofs --------------------------
(***************************************************************************)
(* Proofs about RecordForm, for any number of tabs, calls, writes and      *)
(* breaks.                                                                 *)
(***************************************************************************)
EXTENDS RecordForm, TLAPS

(* A document somebody holds: some version of the stored one, with every   *)
(* write made by then, while no answer has overtaken a move.               *)
Copy(doc) ==
    /\ doc \in Doc /\ doc.version <= stored.version
    /\ ~overtaken => doc.carries = 1..doc.version

(* A form never saves against a later version than it shows.               *)
FormOK(f) == Copy(f.shown) /\ (~overtaken => f.base <= f.shown.version)

CallOK(k) ==
    /\ k.at = "done" \/ (k.at = "sent" /\ k.kind = "save") => Copy(k.doc)
    /\ k.at = "sent" /\ k.kind = "save" /\ ~overtaken => k.base <= k.doc.version

(* While a move is answered and not yet taken in, the page may already     *)
(* save against a later version, loaded by a GET: then the query holds     *)
(* another version than the answer, and the re-sync that follows the       *)
(* answer sets the two right.                                              *)
Answer(k) == k.kind = "move" /\ k.at = "done" /\ k.here
LateMove(t, c) ==
    ~overtaken /\ Answer(call[t][c]) /\ form[t].base > call[t][c].doc.version =>
      /\ cache[t].version # call[t][c].doc.version
      /\ get[t] \notin {Nowhere, Asked} => get[t].version > call[t][c].doc.version

CallInv(t, c) ==
    /\ CallOK(call[t][c])
    /\ call[t][c].here => open[t] /\ form[t] # NoForm
    /\ LateMove(t, c)

TabInv(t) ==
    /\ cache[t] # Nowhere => Copy(cache[t])
    /\ get[t] \notin {Nowhere, Asked} => Copy(get[t])
    /\ form[t] # NoForm => open[t] /\ FormOK(form[t]) /\ cache[t] # Nowhere
    /\ \A c \in Calls : CallInv(t, c)

(* Every notice is of a write.                                             *)
Counted == owed <= stored.version /\ \A t \in Tabs : owed + notices[t] <= stored.version

(* The stored document carries every write.                                *)
Carried == ~overtaken => stored.carries = 1..stored.version

FormInv == TypeOK /\ Carried /\ Counted /\ \A t \in Tabs : TabInv(t)

LEMMA Constants ==
    /\ MaxWrites \in Nat /\ MaxBreaks \in Nat
    /\ Nowhere # Asked /\ Nowhere \notin Doc /\ Asked \notin Doc
    /\ NoForm.shown = Nowhere /\ NoForm.base = 0
    /\ NoCall.kind = "none" /\ NoCall.at = "idle" /\ NoCall.here = FALSE
    /\ NoForm \in Form /\ NoCall \in Call
  <1>1. Nowhere \notin Doc /\ Asked \notin Doc /\ Nowhere # Asked
    <2>1. DOMAIN Nowhere = {"version", "carries", "none"}
      BY DEF Nowhere
    <2>2. DOMAIN Asked = {"version", "carries", "asked"}
      BY DEF Asked
    <2>3. \A d \in Doc : DOMAIN d = {"version", "carries"}
      BY DEF Doc
    <2> QED BY <2>1, <2>2, <2>3
  <1> QED BY <1>1, BoundsAssumption DEF NoForm, NoCall, Form, Call

(* What is stored only grows, so a copy stays one.                         *)
LEMMA CopyStays ==
    ASSUME TypeOK, TypeOK', stored'.version >= stored.version, overtaken => overtaken', NEW doc, Copy(doc)
    PROVE  Copy(doc)'
  BY BoundsAssumption DEF Copy, TypeOK, Doc

LEMMA AllStays ==
    ASSUME TypeOK, TypeOK', stored'.version >= stored.version, overtaken => overtaken'
    PROVE  /\ \A doc : Copy(doc) => Copy(doc)'
           /\ \A f : FormOK(f) => FormOK(f)'
           /\ \A k : CallOK(k) => CallOK(k)'
  <1>1. \A doc : Copy(doc) => Copy(doc)'
    BY CopyStays
  <1> QED BY <1>1 DEF FormOK, CallOK

(* A tab no step touches keeps its invariant.                              *)
LEMMA TabStays ==
    ASSUME TypeOK, TypeOK', stored'.version >= stored.version, overtaken => overtaken',
           NEW t \in Tabs, TabInv(t),
           open'[t] = open[t], cache'[t] = cache[t], get'[t] = get[t], form'[t] = form[t], call'[t] = call[t]
    PROVE  TabInv(t)'
  BY AllStays DEF TabInv, CallInv, LateMove

(* A form that starts from a copy, or is synced to one, is a sound form.   *)
LEMMA FreshOK ==
    ASSUME TypeOK, NEW doc, Copy(doc)
    PROVE  /\ Fresh(doc) \in Form /\ Fresh(doc) # NoForm /\ FormOK(Fresh(doc))
           /\ Fresh(doc).base = doc.version /\ Fresh(doc).shown = doc
           /\ \A b \in BOOLEAN : LET f == [Fresh(doc) EXCEPT !.conflict = b] IN
                /\ f \in Form /\ f # NoForm /\ FormOK(f)
                /\ f.base = doc.version /\ f.shown = doc
  <1>1. doc \in Doc /\ doc.version \in 0..MaxWrites
    BY DEF Copy, Doc
  <1>2. Fresh(doc) \in Form /\ Fresh(doc).shown = doc /\ Fresh(doc).base = doc.version
    BY <1>1 DEF Fresh, Form
  <1>3. ASSUME NEW b \in BOOLEAN
        PROVE  LET f == [Fresh(doc) EXCEPT !.conflict = b] IN
               f \in Form /\ f.shown = doc /\ f.base = doc.version
    <2> HIDE DEF Fresh, Copy
    <2> QED BY <1>2 DEF Form
  <1>4. doc # NoForm.shown
    BY <1>1, Constants
  <1>5. doc.version <= doc.version
    BY <1>1, BoundsAssumption
  <1> QED BY <1>1, <1>2, <1>3, <1>4, <1>5 DEF Form, FormOK

LEMMA RenderedOK ==
    ASSUME TypeOK, NEW t \in Tabs, NEW f \in Form, NEW doc, Copy(doc), f # NoForm => FormOK(f)
    PROVE  LET r == Rendered(t, f, doc) IN
           /\ r \in Form
           /\ r # NoForm => FormOK(r)
           /\ open[t] => r # NoForm /\ (r = f \/ r.base = doc.version)
  <1>1. f.conflict \in BOOLEAN
    BY DEF Form
  <1>2. NoForm \in Form
    BY Constants DEF Form
  <1> QED BY <1>1, <1>2, FreshOK DEF Rendered, Resynced

(* The variables of a tab.                                                 *)
LEMMA Types ==
    ASSUME TypeOK
    PROVE  /\ stored \in Doc /\ stored.version \in Nat /\ owed \in Nat
           /\ \A t \in Tabs : form[t] \in Form /\ notices[t] \in Nat
           /\ \A t \in Tabs, c \in Calls : call[t][c] \in Call
           /\ NoForm \in Form /\ NoCall \in Call
  BY Constants DEF TypeOK, Doc

(* A tab's own call changes.                                               *)
LEMMA OneCall ==
    ASSUME TypeOK, NEW t \in Tabs, NEW c \in Calls, NEW k \in Call, call' = [call EXCEPT ![t][c] = k]
    PROVE  /\ call' \in [Tabs -> [Calls -> Call]] /\ call'[t][c] = k
           /\ \A d \in Calls \ {c} : call'[t][d] = call[t][d]
           /\ \A u \in Tabs \ {t} : call'[u] = call[u]
  BY DEF TypeOK

(* The page lets go of its calls.                                          *)
LEMMA Lets ==
    ASSUME TypeOK, NEW t \in Tabs, Abandoned(t)
    PROVE  /\ call' \in [Tabs -> [Calls -> Call]]
           /\ \A u \in Tabs \ {t} : call'[u] = call[u]
           /\ \A c \in Calls : /\ ~call'[t][c].here
                               /\ call'[t][c].kind = call[t][c].kind /\ call'[t][c].at = call[t][c].at
                               /\ call'[t][c].doc = call[t][c].doc /\ call'[t][c].base = call[t][c].base
  <1>1. \A c \in Calls : [call[t][c] EXCEPT !.here = FALSE] \in Call
    BY Types DEF Call
  <1>2. /\ \A c \in Calls : call'[t][c] = [call[t][c] EXCEPT !.here = FALSE]
        /\ call'[t] \in [Calls -> Call]
        /\ \A u \in Tabs \ {t} : call'[u] = call[u]
        /\ call' = [call EXCEPT ![t] = call'[t]]
    BY <1>1 DEF Abandoned, TypeOK
  <1>3. call' \in [Tabs -> [Calls -> Call]]
    BY <1>2 DEF TypeOK
  <1>4. \A c \in Calls : call[t][c] \in Call
    BY Types
  <1> QED BY <1>2, <1>3, <1>4 DEF Call

(* Mounting, editing and leaving a page.                                   *)
LEMMA PageTypes ==
    ASSUME FormInv, NEW t \in Tabs, Open(t) \/ Leave(t) \/ Edit(t) \/ Undo(t)
    PROVE  /\ TypeOK' /\ stored' = stored /\ owed' = owed /\ notices' = notices
           /\ overtaken' = overtaken
  <1>1. TypeOK /\ TabInv(t)
    BY DEF FormInv
  <1>2. cache[t] # Nowhere => Fresh(cache[t]) \in Form
    BY <1>1, FreshOK DEF TabInv
  <1>3. \A b \in BOOLEAN : [form[t] EXCEPT !.dirty = b] \in Form
    BY <1>1, Types DEF Form
  <1>4. CASE Open(t)
    BY <1>1, <1>2, <1>4, Types DEF Open, TypeOK, server, wire
  <1>5. CASE Leave(t)
    <2>1. call' \in [Tabs -> [Calls -> Call]]
      BY <1>1, <1>5, Lets DEF Leave
    <2>2. breaks' \in 0..MaxBreaks /\ form' \in [Tabs -> Form]
      BY <1>1, <1>5, Types, BoundsAssumption DEF Leave, TypeOK
    <2> QED BY <1>1, <1>5, <2>1, <2>2 DEF Leave, TypeOK, server, wire
  <1>6. CASE Edit(t)
    BY <1>1, <1>3, <1>6, Types DEF Edit, TypeOK, server, wire
  <1>7. CASE Undo(t)
    BY <1>1, <1>3, <1>7, Types DEF Undo, TypeOK, server, wire
  <1> QED BY <1>4, <1>5, <1>6, <1>7

Only(t) ==
    \A u \in Tabs \ {t} :
      open'[u] = open[u] /\ cache'[u] = cache[u] /\ get'[u] = get[u] /\ form'[u] = form[u] /\ call'[u] = call[u]

LEMMA PageOnly ==
    ASSUME TypeOK, NEW t \in Tabs, Open(t) \/ Leave(t) \/ Edit(t) \/ Undo(t)
    PROVE  Only(t)
  <1>1. CASE Leave(t)
    <2>1. \A u \in Tabs \ {t} : call'[u] = call[u]
      BY <1>1, Lets DEF Leave
    <2> QED BY <1>1, <2>1 DEF Leave, TypeOK, Only
  <1> QED BY <1>1 DEF Open, Edit, Undo, server, wire, TypeOK, Only

LEMMA PageInv ==
    ASSUME FormInv, NEW t \in Tabs, Open(t) \/ Leave(t) \/ Edit(t) \/ Undo(t)
    PROVE  TabInv(t)'
  <1>1. TypeOK /\ TypeOK' /\ TabInv(t) /\ stored' = stored /\ overtaken' = overtaken
    BY PageTypes DEF FormInv
  <1>2. /\ \A doc : Copy(doc) => Copy(doc)'
        /\ \A f : FormOK(f) => FormOK(f)'
        /\ \A k : CallOK(k) => CallOK(k)'
    BY <1>1, AllStays, Types
  <1>3. CASE Open(t)
    <2>1. /\ open'[t] /\ cache'[t] = cache[t] /\ call'[t] = call[t] /\ get'[t] \in {Asked, get[t]}
          /\ form'[t] = IF cache[t] = Nowhere THEN NoForm ELSE Fresh(cache[t])
          /\ \A c \in Calls : ~call[t][c].here
      BY <1>1, <1>3 DEF Open, TypeOK, wire, TabInv, CallInv
    <2>2. form'[t] # NoForm => FormOK(form'[t]) /\ cache[t] # Nowhere
      BY <1>1, <2>1, FreshOK DEF TabInv
    <2>3. \A c \in Calls : CallInv(t, c)'
      BY <1>1, <1>2, <2>1 DEF TabInv, CallInv, LateMove, Answer
    <2> QED BY <1>1, <1>2, <2>1, <2>2, <2>3 DEF TabInv
  <1>4. CASE Leave(t)
    <2>1. /\ cache'[t] = cache[t] /\ get'[t] = get[t] /\ form'[t] = NoForm
      BY <1>1, <1>4 DEF Leave, TypeOK
    <2>2. ASSUME NEW c \in Calls
          PROVE  CallInv(t, c)'
      <3>1. /\ call'[t][c].at = call[t][c].at /\ call'[t][c].doc = call[t][c].doc
            /\ call'[t][c].base = call[t][c].base /\ call'[t][c].kind = call[t][c].kind
            /\ ~call'[t][c].here
        BY <1>1, <1>4, Lets DEF Leave
      <3>2. CallOK(call'[t][c])
        BY <1>1, <3>1 DEF TabInv, CallInv, CallOK
      <3> QED BY <1>2, <3>1, <3>2 DEF CallInv, LateMove, Answer
    <2> QED BY <1>1, <1>2, <2>1, <2>2 DEF TabInv
  <1>5. CASE Edit(t) \/ Undo(t)
    <2>1. /\ open'[t] = open[t] /\ cache'[t] = cache[t] /\ get'[t] = get[t] /\ call'[t] = call[t]
          /\ form[t] # NoForm
          /\ \E b \in BOOLEAN : form'[t] = [form[t] EXCEPT !.dirty = b]
      BY <1>1, <1>5 DEF Edit, Undo, TypeOK, wire, Shows
    <2>2. form'[t].shown = form[t].shown /\ form'[t].base = form[t].base
      BY <1>1, <2>1, Types DEF Form
    <2>3. FormOK(form'[t])
      BY <1>1, <2>1, <2>2 DEF TabInv, FormOK
    <2>4. form'[t] # NoForm
      BY <1>1, <2>3, Constants DEF FormOK, Copy
    <2>5. \A c \in Calls : CallInv(t, c)'
      BY <1>1, <1>2, <2>1, <2>2, <2>4 DEF TabInv, CallInv, LateMove
    <2> QED BY <1>1, <1>2, <2>1, <2>3, <2>4, <2>5 DEF TabInv
  <1> QED BY <1>3, <1>4, <1>5

(* The answer of a GET, and what the page makes of it.                     *)
LEMMA QueryTypes ==
    ASSUME FormInv, NEW t \in Tabs, EngineReads(t) \/ Loaded(t) \/ LoadFails(t)
    PROVE  /\ TypeOK' /\ Only(t) /\ stored' = stored /\ owed' = owed /\ notices' = notices
           /\ overtaken' = overtaken
  <1>1. TypeOK /\ TabInv(t)
    BY DEF FormInv
  <1>2. CASE EngineReads(t)
    BY <1>1, <1>2 DEF EngineReads, TypeOK, server, wire, Only
  <1>3. CASE Loaded(t)
    <2>1. Copy(get[t]) /\ get[t] \in Doc
      BY <1>1, <1>3 DEF Loaded, TabInv, Copy
    <2>2. Rendered(t, form[t], get[t]) \in Form
      BY <1>1, <2>1, RenderedOK, Types DEF TabInv
    <2> QED BY <1>1, <1>3, <2>1, <2>2 DEF Loaded, TypeOK, server, wire, Only
  <1>4. CASE LoadFails(t)
    <2>1. call' \in [Tabs -> [Calls -> Call]] /\ \A u \in Tabs \ {t} : call'[u] = call[u]
      BY <1>1, <1>4, Lets DEF LoadFails
    <2>2. breaks' \in 0..MaxBreaks /\ form' \in [Tabs -> Form]
      BY <1>1, <1>4, Types, BoundsAssumption DEF LoadFails, TypeOK
    <2> QED BY <1>1, <1>4, <2>1, <2>2 DEF LoadFails, TypeOK, server, wire, Only
  <1> QED BY <1>2, <1>3, <1>4

LEMMA QueryInv ==
    ASSUME FormInv, NEW t \in Tabs, EngineReads(t) \/ Loaded(t) \/ LoadFails(t)
    PROVE  TabInv(t)'
  <1>1. TypeOK /\ TypeOK' /\ TabInv(t) /\ stored' = stored /\ overtaken' = overtaken
    BY QueryTypes DEF FormInv
  <1>2. /\ \A doc : Copy(doc) => Copy(doc)'
        /\ \A f : FormOK(f) => FormOK(f)'
        /\ \A k : CallOK(k) => CallOK(k)'
    BY <1>1, AllStays, Types
  <1>3. CASE EngineReads(t)
    <2>1. /\ open' = open /\ cache' = cache /\ form' = form /\ call' = call
          /\ get'[t] = stored
      BY <1>1, <1>3 DEF EngineReads, TypeOK
    <2>2. Copy(stored)
      BY <1>1, Types DEF Copy, FormInv, Carried
    <2>3. ~overtaken /\ form[t] # NoForm => form[t].base <= stored.version
      BY <1>1, Types DEF TabInv, FormOK, Copy, Form, Doc
    <2>4. ASSUME NEW c \in Calls
          PROVE  LateMove(t, c)'
      <3> SUFFICES ASSUME ~overtaken, Answer(call[t][c]), form[t].base > call[t][c].doc.version
                   PROVE  /\ cache[t].version # call[t][c].doc.version
                          /\ stored.version > call[t][c].doc.version
        BY <1>1, <2>1 DEF LateMove
      <3>1. Copy(call[t][c].doc) /\ form[t] # NoForm
        BY <1>1 DEF TabInv, CallInv, CallOK, Answer
      <3>2. form[t].base \in Nat /\ call[t][c].doc.version \in Nat
        BY <1>1, <3>1, Types DEF Copy, Form, Doc
      <3> QED BY <1>1, <2>3, <3>1, <3>2, Types DEF TabInv, CallInv, LateMove
    <2>5. \A c \in Calls : CallInv(t, c)'
      BY <1>1, <1>2, <2>1, <2>4 DEF TabInv, CallInv
    <2> QED BY <1>1, <1>2, <2>1, <2>2, <2>5 DEF TabInv
  <1>4. CASE Loaded(t)
    <2> DEFINE doc == get[t]
    <2>1. /\ open' = open /\ call' = call /\ get'[t] = Nowhere
          /\ cache'[t] = doc /\ form'[t] = Rendered(t, form[t], doc)
          /\ doc \notin {Nowhere, Asked}
      BY <1>1, <1>4 DEF Loaded, TypeOK
    <2>2. Copy(doc) /\ doc \in Doc /\ doc # Nowhere
      BY <1>1, <2>1, Constants DEF TabInv, Copy
    <2>3. /\ form'[t] # NoForm => open[t] /\ FormOK(form'[t])
          /\ open[t] => form'[t] # NoForm /\ (form'[t] = form[t] \/ form'[t].base = doc.version)
      BY <1>1, <2>1, <2>2, RenderedOK, Types DEF TabInv, Rendered
    <2>4. ASSUME NEW c \in Calls
          PROVE  LateMove(t, c)'
      <3> SUFFICES ASSUME ~overtaken, Answer(call[t][c]), form'[t].base > call[t][c].doc.version
                   PROVE  doc.version # call[t][c].doc.version
        BY <1>1, <2>1, <2>2 DEF LateMove
      <3>1. Copy(call[t][c].doc) /\ open[t]
        BY <1>1 DEF TabInv, CallInv, CallOK, Answer
      <3>2. doc.version \in Nat /\ call[t][c].doc.version \in Nat
        BY <2>2, <3>1, BoundsAssumption DEF Copy, Doc
      <3>3. CASE form'[t] = form[t]
        <4>1. doc.version > call[t][c].doc.version
          BY <1>1, <2>1, <3>3 DEF TabInv, CallInv, LateMove
        <4> QED BY <3>2, <4>1
      <3>4. CASE form'[t].base = doc.version
        BY <3>2, <3>4
      <3> QED BY <2>3, <3>1, <3>3, <3>4
    <2>5. \A c \in Calls : CallInv(t, c)'
      BY <1>1, <1>2, <2>1, <2>3, <2>4 DEF TabInv, CallInv
    <2> QED BY <1>1, <1>2, <2>1, <2>2, <2>3, <2>5 DEF TabInv
  <1>5. CASE LoadFails(t)
    <2>1. open' = open /\ cache' = cache /\ get'[t] = Nowhere /\ form'[t] = NoForm
      BY <1>1, <1>5 DEF LoadFails, TypeOK
    <2>2. ASSUME NEW c \in Calls
          PROVE  CallInv(t, c)'
      <3>1. /\ call'[t][c].at = call[t][c].at /\ call'[t][c].doc = call[t][c].doc
            /\ call'[t][c].base = call[t][c].base /\ call'[t][c].kind = call[t][c].kind
            /\ ~call'[t][c].here
        BY <1>1, <1>5, Lets DEF LoadFails
      <3>2. CallOK(call'[t][c])
        BY <1>1, <3>1 DEF TabInv, CallInv, CallOK
      <3> QED BY <1>2, <3>1, <3>2 DEF CallInv, LateMove, Answer
    <2> QED BY <1>1, <1>2, <2>1, <2>2 DEF TabInv
  <1> QED BY <1>3, <1>4, <1>5

(* A call is sent, a save with what the form shows.                        *)
LEMMA SentInv ==
    ASSUME FormInv, NEW t \in Tabs, Save(t) \/ Move(t) \/ ReloadLatest(t)
    PROVE  /\ TypeOK' /\ Only(t) /\ stored' = stored /\ owed' = owed /\ notices' = notices
           /\ overtaken' = overtaken /\ TabInv(t)'
  <1>1. TypeOK /\ TabInv(t)
    BY DEF FormInv
  <1>2. /\ open[t] /\ form[t] # NoForm
        /\ UNCHANGED <<stored, owed, link, notices, open, cache, get, form, breaks, overtaken>>
    BY DEF Save, Move, ReloadLatest, Shows, server, wire
  <1>3. form[t] \in Form /\ FormOK(form[t]) /\ form[t].shown \in Doc
    BY <1>1, <1>2, Types DEF TabInv, FormOK, Copy
  <1>4. PICK c \in Calls, k \in Call :
          /\ call' = [call EXCEPT ![t][c] = k]
          /\ k.at = "sent" /\ k.kind # "none"
          /\ k.kind = "save" => k.base = form[t].base /\ k.doc = form[t].shown
    <2>1. ASSUME NEW kind \in {"save", "move", "reload"}, NEW base \in 0..MaxWrites,
                 NEW doc \in Doc \cup {Nowhere}, Calling(t, kind, base, doc)
          PROVE  \E c \in Calls, k \in Call :
                   /\ call' = [call EXCEPT ![t][c] = k]
                   /\ k.at = "sent" /\ k.kind = kind /\ k.base = base /\ k.doc = doc
      <3> DEFINE c == CHOOSE c \in Free(t) : TRUE
                 k == [kind |-> kind, at |-> "sent", base |-> base, doc |-> doc, here |-> TRUE]
      <3>1. c \in Calls
        BY <2>1 DEF Calling, Free
      <3>2. k \in Call /\ k.at = "sent" /\ k.kind = kind /\ k.base = base /\ k.doc = doc
        BY DEF Call
      <3>3. call' = [call EXCEPT ![t][c] = k]
        BY <2>1 DEF Calling
      <3> HIDE DEF c, k
      <3> QED BY <3>1, <3>2, <3>3
    <2>2. form[t].base \in 0..MaxWrites /\ 0 \in 0..MaxWrites
      BY <1>3, BoundsAssumption DEF Form
    <2>3. CASE Save(t)
      <3>1. Calling(t, "save", form[t].base, form[t].shown)
        BY <2>3 DEF Save
      <3> QED BY <1>3, <2>1, <2>2, <3>1
    <2>4. CASE Move(t)
      <3>1. Calling(t, "move", 0, Nowhere)
        BY <2>4 DEF Move
      <3>2. \E c \in Calls, k \in Call :
              call' = [call EXCEPT ![t][c] = k] /\ k.at = "sent" /\ k.kind = "move"
        BY <2>1, <2>2, <3>1
      <3> QED BY <3>2
    <2>5. CASE ReloadLatest(t)
      <3>1. Calling(t, "reload", 0, Nowhere)
        BY <2>5 DEF ReloadLatest
      <3>2. \E c \in Calls, k \in Call :
              call' = [call EXCEPT ![t][c] = k] /\ k.at = "sent" /\ k.kind = "reload"
        BY <2>1, <2>2, <3>1
      <3> QED BY <3>2
    <2> QED BY <2>3, <2>4, <2>5
  <1>5. /\ call' \in [Tabs -> [Calls -> Call]] /\ call'[t][c] = k
        /\ \A d \in Calls \ {c} : call'[t][d] = call[t][d]
        /\ \A u \in Tabs \ {t} : call'[u] = call[u]
    BY <1>1, <1>4, OneCall
  <1>6. TypeOK' /\ Only(t)
    BY <1>1, <1>2, <1>5 DEF TypeOK, Only
  <1>7. CallOK(k)
    BY <1>3, <1>4 DEF FormOK, CallOK
  <1>8. ASSUME NEW d \in Calls
        PROVE  CallInv(t, d)'
    <2>1. CASE d = c
      BY <1>2, <1>4, <1>5, <1>7, <2>1 DEF CallInv, CallOK, Copy, LateMove, Answer
    <2>2. CASE d # c
      BY <1>1, <1>2, <1>5, <2>2 DEF TabInv, CallInv, CallOK, Copy, LateMove
    <2> QED BY <2>1, <2>2
  <1>9. TabInv(t)'
    BY <1>1, <1>2, <1>8 DEF TabInv, FormOK, Copy
  <1> QED BY <1>2, <1>6, <1>9

(* The answers.                                                            *)
LEMMA AnswerInv ==
    ASSUME FormInv, NEW t \in Tabs, NEW c \in Calls, SaveRefused(t, c) \/ AnswerLost(t, c)
    PROVE  /\ TypeOK' /\ Only(t) /\ stored' = stored /\ owed' = owed /\ notices' = notices
           /\ overtaken' = overtaken /\ TabInv(t)'
  <1>1. TypeOK /\ TabInv(t)
    BY DEF FormInv
  <1>2. /\ UNCHANGED <<stored, owed, link, notices, open, cache, get, overtaken>>
        /\ call' = [call EXCEPT ![t][c] = NoCall]
        /\ breaks' \in 0..MaxBreaks
    BY <1>1, BoundsAssumption DEF SaveRefused, AnswerLost, Ends, server, wire, TypeOK
  <1>3. PICK b \in BOOLEAN :
          /\ form' = [form EXCEPT ![t].conflict = b]
          /\ form[t] = NoForm => ~b
    <2>1. CASE SaveRefused(t, c)
      <3>1. form' = [form EXCEPT ![t].conflict = @ \/ call[t][c].here]
        BY <2>1 DEF SaveRefused
      <3>2. (form[t].conflict \/ call[t][c].here) \in BOOLEAN
        BY <1>1, Types DEF Form, Call
      <3>3. form[t] = NoForm => ~(form[t].conflict \/ call[t][c].here)
        BY <1>1 DEF TabInv, CallInv, NoForm
      <3> QED BY <1>1, <3>1, <3>2, <3>3 DEF TypeOK
    <2>2. CASE AnswerLost(t, c)
      <3>1. form' = form
        BY <2>2 DEF AnswerLost
      <3>2. form[t] \in Form
        BY <1>1, Types
      <3>3. form[t].conflict \in BOOLEAN /\ [form[t] EXCEPT !.conflict = form[t].conflict] = form[t]
        BY <3>2 DEF Form
      <3>4. form[t] = NoForm => ~form[t].conflict
        BY DEF NoForm
      <3> QED BY <1>1, <3>1, <3>3, <3>4 DEF TypeOK
    <2> QED BY <2>1, <2>2
  <1>4. /\ form'[t] \in Form /\ form'[t].shown = form[t].shown /\ form'[t].base = form[t].base
        /\ form \in [Tabs -> Form] /\ form' = [form EXCEPT ![t] = form'[t]]
    BY <1>1, <1>3, Types DEF Form, TypeOK
  <1>5. /\ call' \in [Tabs -> [Calls -> Call]] /\ call'[t][c] = NoCall
        /\ \A d \in Calls \ {c} : call'[t][d] = call[t][d]
        /\ \A u \in Tabs \ {t} : call'[u] = call[u]
    BY <1>1, <1>2, Types, OneCall
  <1>6. TypeOK' /\ Only(t)
    BY <1>1, <1>2, <1>4, <1>5 DEF TypeOK, Only
  <1>7. form'[t] = NoForm <=> form[t] = NoForm
    <2>1. form[t] = NoForm => form'[t] = NoForm
      BY <1>1, <1>3, Types DEF TypeOK, Form, NoForm
    <2>2. form[t] # NoForm => form[t].shown \in Doc
      BY <1>1 DEF TabInv, FormOK, Copy
    <2> QED BY <1>4, <2>1, <2>2, Constants
  <1>8. form'[t] # NoForm => FormOK(form'[t])
    BY <1>1, <1>4, <1>7 DEF TabInv, FormOK
  <1>9. ASSUME NEW d \in Calls
        PROVE  CallInv(t, d)'
    <2>1. CASE d = c
      BY <1>5, <2>1, Constants DEF CallInv, CallOK, LateMove, Answer
    <2>2. CASE d # c
      BY <1>1, <1>2, <1>4, <1>5, <1>7, <2>2 DEF TabInv, CallInv, CallOK, Copy, LateMove
    <2> QED BY <2>1, <2>2
  <1>10. TabInv(t)'
    BY <1>1, <1>2, <1>7, <1>8, <1>9 DEF TabInv, FormOK, Copy
  <1> QED BY <1>2, <1>6, <1>10

(* The calls that are left when an answer is taken in: what has not been   *)
(* overtaken by it is a move with a later answer.                          *)
LEMMA OthersStay ==
    ASSUME FormInv, TypeOK', stored' = stored, NEW t \in Tabs, NEW c \in Calls, TakenIn(t, c),
           Copy(call[t][c].doc), open' = open,
           cache'[t] = call[t][c].doc, get'[t] \in {Asked, get[t]},
           form[t] # NoForm => form'[t] # NoForm,
           form'[t].base \in {form[t].base, call[t][c].doc.version}
    PROVE  (overtaken => overtaken') /\ \A d \in Calls : CallInv(t, d)'
  <1>1. TypeOK /\ TabInv(t)
    BY DEF FormInv
  <1>2. /\ call'[t][c] = NoCall /\ \A d \in Calls \ {c} : call'[t][d] = call[t][d]
        /\ overtaken => overtaken'
        /\ ~overtaken' => \A d \in Calls \ {c} :
             Answer(call[t][d]) => ~(call[t][d].doc.version <= call[t][c].doc.version)
    BY <1>1, Types, OneCall DEF TakenIn, Ends, Answer
  <1>3. /\ \A doc : Copy(doc) => Copy(doc)'
        /\ \A k : CallOK(k) => CallOK(k)'
    BY <1>1, <1>2, AllStays, Types
  <1>4. ASSUME NEW d \in Calls
        PROVE  CallInv(t, d)'
    <2>1. CASE d = c
      BY <1>2, <2>1, Constants DEF CallInv, CallOK, LateMove, Answer
    <2>2. CASE d # c
      <3>1. CallOK(call[t][d])'
        BY <1>1, <1>2, <1>3, <2>2 DEF TabInv, CallInv
      <3>2. LateMove(t, d)'
        <4> SUFFICES ASSUME ~overtaken', Answer(call[t][d]), form'[t].base > call[t][d].doc.version
                     PROVE  /\ call[t][c].doc.version # call[t][d].doc.version
                            /\ get'[t] \notin {Nowhere, Asked} => get'[t].version > call[t][d].doc.version
          BY <1>2, <2>2 DEF LateMove
        <4>1. Copy(call[t][d].doc)
          BY <1>1 DEF TabInv, CallInv, CallOK, Answer
        <4>2. call[t][d].doc.version \in Nat /\ call[t][c].doc.version \in Nat
          BY <4>1, BoundsAssumption DEF Copy, Doc
        <4>3. ~(call[t][d].doc.version <= call[t][c].doc.version)
          BY <1>2, <2>2
        <4>4. form'[t].base = form[t].base
          BY <4>2, <4>3
        <4>5. LateMove(t, d) /\ ~overtaken
          BY <1>1, <1>2 DEF TabInv, CallInv
        <4> QED BY <4>2, <4>3, <4>4, <4>5 DEF LateMove
      <3>3. call'[t][d] = call[t][d] /\ (call[t][d].here => open'[t] /\ form'[t] # NoForm)
        BY <1>1, <1>2, <2>2 DEF TabInv, CallInv
      <3> QED BY <3>1, <3>2, <3>3 DEF CallInv
    <2> QED BY <2>1, <2>2
  <1> QED BY <1>2, <1>4

(* What an answer that is taken in changes of the calls.                   *)
LEMMA TakenTypes ==
    ASSUME TypeOK, NEW t \in Tabs, NEW c \in Calls, TakenIn(t, c)
    PROVE  /\ call' \in [Tabs -> [Calls -> Call]] /\ overtaken' \in BOOLEAN
           /\ \A u \in Tabs \ {t} : call'[u] = call[u]
           /\ overtaken => overtaken'
  BY Types, OneCall DEF TakenIn, Ends, TypeOK

(* A save or a reload that is answered.                                    *)
LEMMA SaveDoneInv ==
    ASSUME FormInv, NEW t \in Tabs, NEW c \in Calls, SaveDone(t, c)
    PROVE  /\ TypeOK' /\ Only(t) /\ stored' = stored /\ owed' = owed /\ notices' = notices
           /\ (overtaken => overtaken') /\ TabInv(t)'
  <1> DEFINE doc == call[t][c].doc
             f == IF call[t][c].here THEN Fresh(doc) ELSE Rendered(t, form[t], doc)
  <1>1. TypeOK /\ TabInv(t)
    BY DEF FormInv
  <1>2. Copy(doc) /\ doc \in Doc
    BY <1>1 DEF SaveDone, TabInv, CallInv, CallOK, Copy
  <1>3. /\ f \in Form /\ (f # NoForm => open[t] /\ FormOK(f))
        /\ form[t] # NoForm => f # NoForm
        /\ f.base \in {form[t].base, doc.version}
    <2>1. CASE call[t][c].here
      BY <1>1, <1>2, <2>1, FreshOK DEF TabInv, CallInv
    <2>2. CASE ~call[t][c].here /\ open[t]
      BY <1>1, <1>2, <2>2, RenderedOK, Types DEF TabInv
    <2>3. CASE ~call[t][c].here /\ ~open[t]
      BY <1>1, <2>3, Types DEF TabInv, Rendered
    <2> QED BY <2>1, <2>2, <2>3
  <1> HIDE DEF f
  <1>4. /\ cache' = [cache EXCEPT ![t] = doc] /\ form' = [form EXCEPT ![t] = f] /\ TakenIn(t, c)
        /\ UNCHANGED <<stored, owed, link, notices, open, get, breaks>>
    BY DEF SaveDone, server, wire, f
  <1>5. TypeOK' /\ Only(t) /\ (overtaken => overtaken')
    BY <1>1, <1>2, <1>3, <1>4, TakenTypes DEF TypeOK, Only
  <1>6. cache'[t] = doc /\ form'[t] = f /\ get'[t] = get[t] /\ open' = open
    BY <1>1, <1>4 DEF TypeOK
  <1>7. TabInv(t)'
    <2>1. /\ \A d : Copy(d) => Copy(d)'
          /\ \A g : FormOK(g) => FormOK(g)'
      BY <1>1, <1>4, <1>5, AllStays, Types
    <2>2. \A d \in Calls : CallInv(t, d)'
      BY <1>2, <1>3, <1>4, <1>5, <1>6, OthersStay
    <2>3. doc # Nowhere
      BY <1>2, Constants
    <2> QED BY <1>1, <1>2, <1>3, <1>6, <2>1, <2>2, <2>3 DEF TabInv
  <1> QED BY <1>4, <1>5, <1>7

(* A move that is answered: the form is reset, and the version it saves    *)
(* against is the answer's or set right by the re-sync.                    *)
LEMMA MoveDoneInv ==
    ASSUME FormInv, NEW t \in Tabs, NEW c \in Calls, MoveDone(t, c)
    PROVE  /\ TypeOK' /\ Only(t) /\ stored' = stored /\ owed' = owed /\ notices' = notices
           /\ (overtaken => overtaken') /\ TabInv(t)'
  <1> DEFINE doc == call[t][c].doc
             reset == [form[t] EXCEPT !.shown = doc, !.dirty = FALSE]
             f == Rendered(t, IF call[t][c].here THEN reset ELSE form[t], doc)
  <1>1. TypeOK /\ TabInv(t) /\ CallInv(t, c)
    BY DEF FormInv, TabInv
  <1>2. Copy(doc) /\ doc \in Doc
    BY <1>1 DEF MoveDone, CallInv, CallOK, Copy
  <1>3. /\ reset \in Form /\ reset.shown = doc /\ reset.base = form[t].base /\ ~reset.dirty
        /\ reset.conflict = form[t].conflict /\ form[t].conflict \in BOOLEAN
    BY <1>1, <1>2, Types DEF Form
  <1>4. /\ f \in Form /\ (f # NoForm => open[t] /\ FormOK(f))
        /\ form[t] # NoForm => f # NoForm
        /\ f.base \in {form[t].base, doc.version}
    <2>1. CASE ~call[t][c].here /\ open[t]
      BY <1>1, <1>2, <2>1, RenderedOK, Types DEF TabInv
    <2>2. CASE ~call[t][c].here /\ ~open[t]
      BY <1>1, <2>2, Types DEF TabInv, Rendered
    <2>3. CASE call[t][c].here /\ cache[t].version = doc.version
      <3>1. open[t] /\ form[t] # NoForm
        BY <1>1, <2>3 DEF CallInv
      <3>2. reset # NoForm
        BY <1>2, <1>3, Constants
      <3>3. f = reset
        BY <2>3, <3>1, <3>2 DEF Rendered, Resynced
      <3>4. ~overtaken => form[t].base <= doc.version
        <4>1. form[t].base \in Nat /\ doc.version \in Nat
          BY <1>1, <1>2, Types, BoundsAssumption DEF Form, Doc
        <4>2. ~overtaken => ~(form[t].base > doc.version)
          BY <1>1, <2>3 DEF MoveDone, CallInv, LateMove, Answer
        <4> QED BY <4>1, <4>2
      <3> QED BY <1>2, <1>3, <3>1, <3>2, <3>3, <3>4 DEF FormOK
    <2>4. CASE call[t][c].here /\ cache[t].version # doc.version
      <3>1. open[t]
        BY <1>1, <2>4 DEF CallInv
      <3>2. reset # NoForm
        BY <1>2, <1>3, Constants
      <3>3. f = [Fresh(doc) EXCEPT !.conflict = reset.conflict]
        BY <1>3, <2>4, <3>1, <3>2 DEF Rendered, Resynced
      <3>4. f \in Form /\ f # NoForm /\ FormOK(f) /\ f.base = doc.version
        <4> DEFINE b == form[t].conflict
        <4>1. f = [Fresh(doc) EXCEPT !.conflict = b] /\ b \in BOOLEAN
          BY <1>3, <3>3
        <4> HIDE DEF f, b, reset, doc
        <4> QED BY <1>1, <1>2, <4>1, FreshOK
      <3> QED BY <3>1, <3>4
    <2> QED BY <2>1, <2>2, <2>3, <2>4
  <1> HIDE DEF f
  <1>5. /\ cache' = [cache EXCEPT ![t] = doc] /\ form' = [form EXCEPT ![t] = f] /\ TakenIn(t, c)
        /\ get' = [get EXCEPT ![t] = IF open[t] THEN Asked ELSE @]
        /\ UNCHANGED <<stored, owed, link, notices, open, breaks>>
    BY <1>1 DEF MoveDone, server, wire, f, TypeOK
  <1>6. TypeOK' /\ Only(t) /\ (overtaken => overtaken')
    BY <1>1, <1>2, <1>4, <1>5, TakenTypes DEF TypeOK, Only
  <1>7. cache'[t] = doc /\ form'[t] = f /\ get'[t] \in {Asked, get[t]} /\ open' = open
    BY <1>1, <1>5 DEF TypeOK
  <1>8. TabInv(t)'
    <2>1. /\ \A d : Copy(d) => Copy(d)'
          /\ \A g : FormOK(g) => FormOK(g)'
      BY <1>1, <1>5, <1>6, AllStays, Types
    <2>2. \A d \in Calls : CallInv(t, d)'
      BY <1>2, <1>4, <1>5, <1>6, <1>7, OthersStay
    <2>3. doc # Nowhere
      BY <1>2, Constants
    <2> QED BY <1>1, <1>2, <1>4, <1>7, <2>1, <2>2, <2>3 DEF TabInv
  <1> QED BY <1>5, <1>6, <1>8

(* The engine writes: a save on the version it was made on, a move, a      *)
(* write of somebody else.                                                 *)
LEMMA WriteInv ==
    ASSUME FormInv, NEW carried \in SUBSET (1..MaxWrites), ~overtaken => carried = 1..stored.version,
           Commit(Written(carried)), overtaken' = overtaken
    PROVE  /\ stored' \in Doc /\ stored'.version = stored.version + 1 /\ owed' = owed + 1
           /\ Carried' /\ Copy(stored)'
           /\ owed' \in 0..MaxWrites
  <1>1. TypeOK /\ stored.version \in Nat /\ stored.version < MaxWrites /\ MaxWrites \in Nat
    BY Types, BoundsAssumption DEF FormInv, Commit
  <1>2. stored' = [version |-> stored.version + 1, carries |-> carried \cup {stored.version + 1}]
    BY DEF Commit, Written
  <1>3. ~overtaken => carried \cup {stored.version + 1} = 1..(stored.version + 1)
    BY <1>1
  <1>4. stored.version + 1 \in 0..MaxWrites /\ carried \cup {stored.version + 1} \in SUBSET (1..MaxWrites)
    <2>1. stored.version + 1 \in 0..MaxWrites /\ stored.version + 1 \in 1..MaxWrites
      BY <1>1
    <2> QED BY <2>1
  <1>5. /\ stored' \in Doc /\ stored'.version = stored.version + 1
        /\ ~overtaken => stored'.carries = 1..(stored.version + 1)
    BY <1>2, <1>3, <1>4 DEF Doc
  <1>6. owed' = owed + 1 /\ owed' \in Nat
    BY <1>1, Types DEF Commit
  <1>7. owed + 1 <= MaxWrites
    BY <1>1, Types DEF FormInv, Counted
  <1> QED BY <1>1, <1>4, <1>5, <1>6, <1>7 DEF Carried, Copy

(* What the engine makes of a call it answers.                             *)
Given(k, at, doc) == [k EXCEPT !.at = at, !.doc = doc, !.base = 0]

LEMMA AnsweredOK ==
    ASSUME NEW k \in Call, NEW at \in {"done", "refused"}, NEW doc \in Doc \cup {Nowhere}
    PROVE  LET r == Given(k, at, doc) IN
           r \in Call /\ r.at = at /\ r.doc = doc /\ r.kind = k.kind /\ r.here = k.here
  <1>1. 0 \in 0..MaxWrites
    BY BoundsAssumption
  <1>2. [k EXCEPT !.at = at] \in Call /\ [k EXCEPT !.at = at].kind = k.kind /\ [k EXCEPT !.at = at].here = k.here
    BY DEF Call
  <1> QED BY <1>1, <1>2 DEF Call, Given

LEMMA EngineInv ==
    ASSUME FormInv, NEW t \in Tabs, NEW c \in Calls,
           EngineSaves(t, c) \/ EngineMoves(t, c) \/ EngineReloads(t, c)
    PROVE  /\ TypeOK' /\ Only(t) /\ notices' = notices /\ TabInv(t)' /\ Carried'
           /\ overtaken' = overtaken
           /\ stored'.version >= stored.version /\ owed' - owed = stored'.version - stored.version
  <1>1. /\ TypeOK /\ TabInv(t) /\ Carried /\ Copy(stored) /\ CallOK(call[t][c])
        /\ call[t][c] \in Call
    BY Types DEF FormInv, Copy, Carried, TabInv, CallInv
  <1>2. /\ UNCHANGED <<link, notices, open, cache, get, form, breaks, overtaken>>
        /\ call[t][c].at = "sent"
    BY DEF EngineSaves, EngineMoves, EngineReloads, server, wire
  <1>3. CASE UNCHANGED server
    <2>1. PICK at \in {"done", "refused"}, doc \in Doc \cup {Nowhere} :
            /\ call' = [call EXCEPT ![t][c] = [@ EXCEPT !.at = at, !.doc = doc, !.base = 0]]
            /\ at = "done" => doc = stored /\ call[t][c].kind # "move"
      <3>1. CASE EngineReloads(t, c)
        BY <1>1, <3>1, Types DEF EngineReloads, Answered
      <3>2. CASE EngineSaves(t, c)
        <4>1. ~Commit(Written(call[t][c].doc.carries))
          BY <1>1, <1>3, Types DEF Commit, server
        <4>2. Answered(t, c, "refused", Nowhere)
          BY <3>2, <4>1 DEF EngineSaves
        <4>3. call' = [call EXCEPT ![t][c] = [@ EXCEPT !.at = "refused", !.doc = Nowhere, !.base = 0]]
          BY <4>2 DEF Answered
        <4> WITNESS "refused" \in {"done", "refused"}, Nowhere \in Doc \cup {Nowhere}
        <4> QED BY <4>3
      <3>3. CASE EngineMoves(t, c)
        <4>1. owed' = owed + 1 /\ owed' = owed
          BY <1>3, <3>3 DEF EngineMoves, Commit, server
        <4>2. FALSE
          BY <1>1, <4>1, Types
        <4> QED BY <4>2
      <3> QED BY <3>1, <3>2, <3>3
    <2> DEFINE k == Given(call[t][c], at, doc)
    <2>2. /\ k \in Call /\ k.at = at /\ k.doc = doc /\ k.kind = call[t][c].kind
          /\ k.here = call[t][c].here
      <3>1. at \in {"done", "refused"} /\ doc \in Doc \cup {Nowhere} /\ call[t][c] \in Call
        BY <1>1, <2>1
      <3> QED BY <3>1, AnsweredOK
    <2>3. call' = [call EXCEPT ![t][c] = k]
      BY <1>1, <2>1 DEF TypeOK, Given
    <2> HIDE DEF k
    <2>4. /\ call' \in [Tabs -> [Calls -> Call]] /\ call'[t][c] = k
          /\ \A d \in Calls \ {c} : call'[t][d] = call[t][d]
          /\ \A u \in Tabs \ {t} : call'[u] = call[u]
      BY <1>1, <2>2, <2>3, OneCall
    <2>5. TypeOK' /\ Only(t)
      BY <1>1, <1>2, <1>3, <2>4 DEF TypeOK, Only, server
    <2>6. stored' = stored /\ owed' = owed
      BY <1>3 DEF server
    <2>7. /\ \A d : Copy(d) => Copy(d)'
          /\ \A f : FormOK(f) => FormOK(f)'
          /\ \A x : CallOK(x) => CallOK(x)'
      BY <1>1, <1>2, <2>5, <2>6, AllStays, Types
    <2>8. CallOK(k)
      BY <1>1, <2>1, <2>2 DEF CallOK
    <2>9. ASSUME NEW d \in Calls
          PROVE  CallInv(t, d)'
      <3>1. CASE d = c
        <4>1. ~Answer(k)
          BY <2>1, <2>2 DEF Answer
        <4> QED BY <1>1, <1>2, <2>2, <2>4, <2>7, <2>8, <3>1, <4>1 DEF TabInv, CallInv, LateMove
      <3>2. CASE d # c
        BY <1>1, <1>2, <2>4, <2>7, <3>2 DEF TabInv, CallInv, LateMove
      <3> QED BY <3>1, <3>2
    <2>10. TabInv(t)'
      BY <1>1, <1>2, <2>7, <2>9 DEF TabInv
    <2>11. owed' - owed = 0 /\ stored'.version - stored.version = 0 /\ stored'.version >= stored.version
      BY <1>1, <2>6, Types
    <2> QED BY <1>1, <1>2, <2>5, <2>6, <2>10, <2>11 DEF Carried
  <1>4. CASE ~UNCHANGED server
    <2>1. PICK carried \in SUBSET (1..MaxWrites) :
            (~overtaken => carried = 1..stored.version) /\ Commit(Written(carried))
      <3>1. CASE EngineSaves(t, c)
        <4>1. /\ call[t][c].at = "sent" /\ call[t][c].kind = "save" /\ call[t][c].base = stored.version
              /\ Commit(Written(call[t][c].doc.carries))
          BY <1>4, <3>1 DEF EngineSaves
        <4>2. Copy(call[t][c].doc) /\ (~overtaken => call[t][c].base <= call[t][c].doc.version)
          BY <1>1, <4>1 DEF CallOK
        <4>3. ~overtaken => call[t][c].doc.version = stored.version
          BY <1>1, <4>1, <4>2, Types DEF Copy, Doc
        <4> QED BY <4>1, <4>2, <4>3 DEF Copy, Doc
      <3>2. CASE EngineMoves(t, c)
        BY <1>1, <3>2, Types DEF EngineMoves, Carried, Doc
      <3>3. CASE EngineReloads(t, c)
        BY <1>4, <3>3 DEF EngineReloads
      <3> QED BY <3>1, <3>2, <3>3
    <2>2. /\ stored' \in Doc /\ stored'.version = stored.version + 1 /\ owed' = owed + 1
          /\ Carried' /\ Copy(stored)' /\ owed' \in 0..MaxWrites
      BY <1>2, <2>1, WriteInv
    <2> DEFINE k == Given(call[t][c], "done", stored')
    <2>3. /\ k \in Call /\ k.at = "done" /\ k.doc = stored' /\ k.here = call[t][c].here
      BY <1>1, <2>2, AnsweredOK
    <2>4. call' = [call EXCEPT ![t][c] = k]
      BY <1>1, <1>4 DEF EngineSaves, EngineMoves, EngineReloads, Answered, TypeOK, Given
    <2> HIDE DEF k
    <2>5. /\ call' \in [Tabs -> [Calls -> Call]] /\ call'[t][c] = k
          /\ \A d \in Calls \ {c} : call'[t][d] = call[t][d]
          /\ \A u \in Tabs \ {t} : call'[u] = call[u]
      BY <1>1, <2>3, <2>4, OneCall
    <2>6. TypeOK' /\ Only(t)
      BY <1>1, <1>2, <2>2, <2>5 DEF TypeOK, Only
    <2>7. /\ \A d : Copy(d) => Copy(d)'
          /\ \A f : FormOK(f) => FormOK(f)'
          /\ \A x : CallOK(x) => CallOK(x)'
      BY <1>1, <1>2, <2>2, <2>6, AllStays, Types
    <2>8. CallOK(call[t][c])'
      BY <2>2, <2>3, <2>5 DEF CallOK, Copy
    <2>9. ~overtaken /\ form[t] # NoForm => ~(form[t].base > stored'.version)
      BY <1>1, <2>2, Types DEF TabInv, FormOK, Copy, Form, Doc
    <2>10. ASSUME NEW d \in Calls
           PROVE  CallInv(t, d)'
      <3>1. CASE d = c
        <4>1. call'[t][d] = k
          BY <2>5, <3>1
        <4>2. k.here => open[t] /\ form[t] # NoForm
          BY <1>1, <2>3 DEF TabInv, CallInv
        <4>3. LateMove(t, d)'
          BY <1>2, <2>3, <2>9, <4>1, <4>2 DEF LateMove, Answer
        <4> QED BY <1>2, <2>8, <3>1, <4>1, <4>2, <4>3 DEF CallInv
      <3>2. CASE d # c
        BY <1>1, <1>2, <2>5, <2>7, <3>2 DEF TabInv, CallInv, LateMove
      <3> QED BY <3>1, <3>2
    <2>11. TabInv(t)'
      BY <1>1, <1>2, <2>7, <2>10 DEF TabInv
    <2>12. stored'.version >= stored.version /\ owed' - owed = 1 /\ stored'.version - stored.version = 1
      BY <1>1, <2>2, Types
    <2> QED BY <1>2, <2>2, <2>6, <2>11, <2>12
  <1> QED BY <1>3, <1>4

LEMMA OtherInv ==
    ASSUME FormInv, OtherWrites
    PROVE  /\ TypeOK' /\ Carried' /\ Counted' /\ \A t \in Tabs : TabInv(t)'
           /\ stored'.version = stored.version + 1 /\ owed' = owed + 1
  <1>1. TypeOK /\ Carried /\ Counted
    BY DEF FormInv
  <1>2. UNCHANGED <<link, notices, open, cache, get, form, call, breaks, overtaken>>
    BY DEF OtherWrites, wire
  <1>3. /\ stored' \in Doc /\ stored'.version = stored.version + 1 /\ owed' = owed + 1
        /\ Carried' /\ owed' \in 0..MaxWrites
    <2>1. /\ stored.carries \in SUBSET (1..MaxWrites) /\ (~overtaken => stored.carries = 1..stored.version)
          /\ Commit(Written(stored.carries))
      BY <1>1, Types DEF OtherWrites, Carried, Doc
    <2> QED BY <1>2, <2>1, WriteInv
  <1>4. TypeOK'
    BY <1>1, <1>2, <1>3 DEF TypeOK
  <1>5. ASSUME NEW t \in Tabs
        PROVE  TabInv(t)'
    <2>1. stored'.version >= stored.version
      BY <1>1, <1>3, Types
    <2> QED BY <1>1, <1>2, <1>4, <2>1, TabStays DEF FormInv
  <1>6. Counted'
    BY <1>1, <1>2, <1>3, Types DEF Counted
  <1> QED BY <1>3, <1>4, <1>5, <1>6

(* The socket: what a tab holds does not change, but for the GET it asks.  *)
LEMMA WireInv ==
    ASSUME FormInv, NEW t \in Tabs, Connect(t) \/ Subscribe(t) \/ Hear(t) \/ Drop(t)
    PROVE  /\ TypeOK' /\ Only(t) /\ stored' = stored /\ owed' = owed /\ overtaken' = overtaken
           /\ \A u \in Tabs : notices'[u] <= notices[u]
           /\ TabInv(t)'
  <1>1. TypeOK /\ TabInv(t) /\ \A u \in Tabs : notices[u] \in Nat
    BY Types DEF FormInv
  <1>2. /\ UNCHANGED <<stored, owed, open, cache, form, call, overtaken>>
        /\ link' \in [Tabs -> {"down", "up", "subscribed"}]
        /\ breaks' \in 0..MaxBreaks
        /\ get' \in [Tabs -> Doc \cup {Nowhere, Asked}]
        /\ get'[t] \in {Asked, get[t]} /\ \A u \in Tabs \ {t} : get'[u] = get[u]
    <2>1. CASE Connect(t) \/ Subscribe(t)
      BY <1>1, <2>1 DEF Connect, Subscribe, server, TypeOK
    <2>2. CASE Hear(t)
      BY <1>1, <2>2 DEF Hear, Asks, server, TypeOK
    <2>3. CASE Drop(t)
      <3>1. breaks' \in 0..MaxBreaks
        BY <1>1, <2>3, BoundsAssumption DEF Drop, TypeOK
      <3> QED BY <1>1, <2>3, <3>1 DEF Drop, server, TypeOK
    <2> QED BY <2>1, <2>2, <2>3
  <1>3. notices' \in [Tabs -> 0..MaxWrites] /\ \A u \in Tabs : notices'[u] <= notices[u]
    BY <1>1, BoundsAssumption DEF Connect, Subscribe, Hear, Drop, TypeOK
  <1>4. TypeOK' /\ Only(t)
    BY <1>1, <1>2, <1>3 DEF TypeOK, Only
  <1>5. /\ \A d : Copy(d) => Copy(d)'
        /\ \A f : FormOK(f) => FormOK(f)'
        /\ \A x : CallOK(x) => CallOK(x)'
    BY <1>1, <1>2, <1>4, AllStays, Types
  <1>6. \A c \in Calls : CallInv(t, c)'
    BY <1>1, <1>2, <1>5 DEF TabInv, CallInv, LateMove
  <1>7. TabInv(t)'
    BY <1>1, <1>2, <1>5, <1>6 DEF TabInv
  <1> QED BY <1>2, <1>3, <1>4, <1>7

LEMMA BroadcastInv ==
    ASSUME FormInv, Broadcast
    PROVE  /\ TypeOK' /\ Counted' /\ stored' = stored
           /\ UNCHANGED <<open, cache, get, form, call, overtaken>>
  <1>1. /\ TypeOK /\ Counted /\ stored.version \in 0..MaxWrites /\ MaxWrites \in Nat /\ owed \in Nat
        /\ \A t \in Tabs : notices[t] \in Nat /\ Reached(t) \in 0..1
    BY Types, BoundsAssumption DEF FormInv, Reached, TypeOK, Doc
  <1>2. /\ owed > 0 /\ owed' = owed - 1 /\ notices' = [t \in Tabs |-> notices[t] + Reached(t)]
        /\ UNCHANGED <<stored, link, open, cache, get, form, call, breaks, overtaken>>
    BY DEF Broadcast
  <1>3. \A t \in Tabs : notices'[t] = notices[t] + Reached(t)
    BY <1>2
  <1>4. /\ owed' \in Nat /\ owed' <= stored.version
        /\ \A t \in Tabs : owed' + notices'[t] <= stored.version /\ notices'[t] \in Nat
    BY <1>1, <1>2, <1>3 DEF Counted
  <1>5. Counted'
    BY <1>2, <1>4 DEF Counted
  <1>6. owed' \in 0..MaxWrites /\ \A t \in Tabs : notices'[t] \in 0..MaxWrites
    BY <1>1, <1>4
  <1>7. notices' \in [Tabs -> 0..MaxWrites]
    BY <1>2, <1>3, <1>6
  <1> QED BY <1>1, <1>2, <1>5, <1>6, <1>7 DEF TypeOK

(* A step of one tab leaves the others sound.                              *)
LEMMA TabStep ==
    ASSUME FormInv, TypeOK', stored'.version >= stored.version, overtaken => overtaken',
           NEW t \in Tabs, Only(t), TabInv(t)'
    PROVE  \A u \in Tabs : TabInv(u)'
  BY TabStays DEF FormInv, Only

(* What is owed grows by a write at most.                                  *)
LEMMA CountStep ==
    ASSUME FormInv, TypeOK', owed' - owed = stored'.version - stored.version,
           \A u \in Tabs : notices'[u] <= notices[u]
    PROVE  Counted'
  <1>1. /\ Counted /\ stored.version \in Nat /\ owed \in Nat
        /\ stored'.version \in Nat /\ owed' \in Nat
        /\ \A u \in Tabs : notices[u] \in Nat /\ notices'[u] \in Nat
    BY BoundsAssumption DEF FormInv, TypeOK, Doc
  <1> QED BY <1>1 DEF Counted

(* What a step of a tab leaves.                                            *)
Sound(t) ==
    /\ TypeOK' /\ Only(t) /\ TabInv(t)' /\ Carried' /\ (overtaken => overtaken')
    /\ stored'.version >= stored.version
    /\ owed' - owed = stored'.version - stored.version
    /\ \A u \in Tabs : notices'[u] <= notices[u]

TabActs(t) == Engine(t) \/ Client(t) \/ Person(t) \/ Fault(t) \/ Connect(t) \/ Subscribe(t)

LEMMA TabSound ==
    ASSUME FormInv, NEW t \in Tabs, TabActs(t)
    PROVE  Sound(t)
  <1>0. TypeOK /\ Carried /\ stored.version \in Nat /\ owed \in Nat
    BY Types DEF FormInv
  <1>1. \A u \in Tabs : notices[u] <= notices[u]
    BY <1>0, Types
  <1>2. ASSUME TypeOK' /\ Only(t) /\ TabInv(t)' /\ stored' = stored /\ owed' = owed,
               overtaken => overtaken', \A u \in Tabs : notices'[u] <= notices[u]
        PROVE  Sound(t)
    BY <1>0, <1>2 DEF Carried, Sound
  <1>3. ASSUME NEW c \in Calls, EngineSaves(t, c) \/ EngineMoves(t, c) \/ EngineReloads(t, c)
        PROVE  Sound(t)
    BY <1>1, <1>3, EngineInv DEF Sound
  <1>4. CASE Open(t) \/ Leave(t) \/ Edit(t) \/ Undo(t)
    BY <1>0, <1>1, <1>2, <1>4, PageTypes, PageOnly, PageInv
  <1>5. CASE EngineReads(t) \/ Loaded(t) \/ LoadFails(t)
    BY <1>1, <1>2, <1>5, QueryTypes, QueryInv
  <1>6. CASE Save(t) \/ Move(t) \/ ReloadLatest(t)
    BY <1>1, <1>2, <1>6, SentInv
  <1>7. ASSUME NEW c \in Calls, SaveRefused(t, c) \/ AnswerLost(t, c)
        PROVE  Sound(t)
    BY <1>1, <1>2, <1>7, AnswerInv
  <1>8. ASSUME NEW c \in Calls, SaveDone(t, c)
        PROVE  Sound(t)
    BY <1>1, <1>2, <1>8, SaveDoneInv
  <1>9. ASSUME NEW c \in Calls, MoveDone(t, c)
        PROVE  Sound(t)
    BY <1>1, <1>2, <1>9, MoveDoneInv
  <1>10. CASE Connect(t) \/ Subscribe(t) \/ Hear(t) \/ Drop(t)
    BY <1>2, <1>10, WireInv
  <1> QED BY <1>3, <1>4, <1>5, <1>6, <1>7, <1>8, <1>9, <1>10
          DEF TabActs, Engine, Client, Person, Fault

LEMMA StepForm ==
    ASSUME FormInv, [Next]_vars
    PROVE  FormInv'
  <1>1. TypeOK /\ Carried /\ Counted /\ stored.version \in Nat /\ owed \in Nat
    BY Types DEF FormInv
  <1>2. CASE UNCHANGED vars
    BY <1>1, <1>2 DEF FormInv, vars, TypeOK, Carried, Counted, TabInv, CallInv, FormOK, CallOK, Copy, LateMove
  <1>3. CASE OtherWrites
    BY <1>3, OtherInv DEF FormInv
  <1>4. CASE Broadcast
    <2>1. TypeOK' /\ Counted' /\ stored' = stored /\ UNCHANGED <<open, cache, get, form, call, overtaken>>
      BY <1>4, BroadcastInv
    <2>2. \A t \in Tabs : TabInv(t)'
      BY <1>1, <2>1, TabStays DEF FormInv
    <2> QED BY <1>1, <2>1, <2>2 DEF FormInv, Carried
  <1>5. ASSUME NEW t \in Tabs, TabActs(t)
        PROVE  FormInv'
    <2>1. Sound(t)
      BY <1>5, TabSound
    <2>2. \A u \in Tabs : TabInv(u)'
      BY <2>1, TabStep DEF Sound
    <2>3. Counted'
      BY <2>1, CountStep DEF Sound
    <2> QED BY <2>1, <2>2, <2>3 DEF FormInv, Sound
  <1> QED BY <1>2, <1>3, <1>4, <1>5 DEF Next, TabActs

LEMMA InitForm == Init => FormInv
  <1> SUFFICES ASSUME Init PROVE FormInv
    OBVIOUS
  <1>1. stored \in Doc /\ stored.version = 0 /\ stored.carries = {} /\ 1..0 = {}
    BY Constants DEF Init, Doc
  <1>2. TypeOK
    <2>1. call \in [Tabs -> [Calls -> Call]] /\ form \in [Tabs -> Form]
      BY Constants DEF Init
    <2>2. 0 \in 0..MaxWrites /\ 0 \in 0..MaxBreaks
      BY BoundsAssumption
    <2> QED BY <1>1, <2>1, <2>2 DEF Init, TypeOK
  <1>3. Carried /\ Counted
    BY <1>1, Constants DEF Init, Carried, Counted
  <1>4. \A t \in Tabs : TabInv(t)
    BY Constants DEF Init, TabInv, CallInv, CallOK, LateMove, Answer
  <1> QED BY <1>2, <1>3, <1>4 DEF FormInv

LEMMA FormHolds == Spec => []FormInv
  BY InitForm, StepForm, PTL DEF Spec

(* Every variable keeps its type: a page that is left holds no form, and   *)
(* no more notices are under way to a tab than there were writes.          *)
THEOREM FormTypeCorrect == Spec => []TypeOK
  <1>1. FormInv => TypeOK
    BY DEF FormInv
  <1> QED BY <1>1, FormHolds, PTL

(* However many tabs edit, reload, move and lose their connections, no     *)
(* save drops a write made between its load and itself, unless a tab took  *)
(* in an answer before the older one of a move of the same page (submit    *)
(* under baseModified and performUpdate's If-Match; WorkflowBar's          *)
(* onApplied).                                                             *)
THEOREM FormsLoseNoWrite == Spec => []NoWriteLost
  <1>1. FormInv => NoWriteLost
    <2> SUFFICES ASSUME FormInv, ~overtaken
                 PROVE  /\ stored.carries = 1..stored.version
                        /\ \A t \in Tabs, c \in Calls :
                             Passes(call[t][c]) => call[t][c].doc.carries = stored.carries
      BY DEF NoWriteLost
    <2>1. stored.carries = 1..stored.version /\ stored.version \in Nat
      BY Types DEF FormInv, Carried
    <2>2. ASSUME NEW t \in Tabs, NEW c \in Calls, Passes(call[t][c])
          PROVE  call[t][c].doc.carries = stored.carries
      <3>1. Copy(call[t][c].doc) /\ stored.version <= call[t][c].doc.version
        BY <2>2 DEF FormInv, TabInv, CallInv, CallOK, Passes
      <3>2. call[t][c].doc.version = stored.version
        BY <2>1, <3>1, BoundsAssumption DEF Copy, Doc
      <3> QED BY <2>1, <3>1, <3>2 DEF Copy
    <2> QED BY <2>1, <2>2
  <1> QED BY <1>1, FormHolds, PTL

-----------------------------------------------------------------------------
(* What CatchesUp rests on: the write v is still on its way to the page of *)
(* t, owed to it, announced, asked for or being answered.                  *)
Due(t, v) ==
    /\ stored.version >= v
    /\ \/ owed > 0 /\ link[t] = "subscribed"
       \/ notices[t] > 0
       \/ get[t] = Asked
       \/ get[t] \in Doc /\ get[t].version >= v

Awaits(t, v) == Follows(t) /\ link[t] # "down" /\ Due(t, v)

(* It has arrived, or the page is no longer one to follow the document.    *)
Released(t, v) ==
    form[t].shown.version >= v \/ form[t].dirty \/ ~Shows(t) \/ link[t] = "down"

(* A write made while a page follows the document is on its way to it, and *)
(* no step loses it on the way.                                            *)
DutyStep ==
    \A t \in Tabs, v \in 1..MaxWrites :
      \/ Awaits(t, v)
      \/ Follows(t) /\ link[t] = "subscribed" /\ stored.version < v /\ v = stored'.version
      => Awaits(t, v)' \/ Released(t, v)'

DutyIsKept == [][DutyStep]_vars

(* A page that follows the document shows a copy of it.                    *)
LEMMA FollowsFacts ==
    ASSUME FormInv, NEW t \in Tabs, Follows(t)
    PROVE  /\ open[t] /\ form[t] # NoForm /\ form[t].dirty = FALSE
           /\ form[t].shown.version = cache[t].version /\ Copy(form[t].shown) /\ cache[t] # Nowhere
           /\ form[t] \in Form
  <1>1. form[t] \in Form /\ TabInv(t) /\ form[t] # NoForm
    BY Types DEF FormInv, Follows, Shows
  <1>2. Copy(form[t].shown) /\ cache[t] # Nowhere
    BY <1>1 DEF TabInv, FormOK
  <1>3. form[t].dirty \in BOOLEAN
    BY <1>1 DEF Form
  <1> QED BY <1>1, <1>2, <1>3 DEF Follows, Shows

(* What a page without edits that shows its query makes of an answer.      *)
LEMMA RenderedShows ==
    ASSUME FormInv, NEW t \in Tabs, open[t], NEW f \in Form, NEW doc, Copy(doc),
           f # NoForm, f.dirty = FALSE, f.shown.version \in {cache[t].version, doc.version}
    PROVE  /\ Rendered(t, f, doc) # NoForm
           /\ Rendered(t, f, doc).dirty = FALSE /\ Rendered(t, f, doc).shown.version = doc.version
  <1>1. CASE cache[t].version = doc.version
    <2>1. Rendered(t, f, doc) = f
      BY <1>1 DEF Rendered, Resynced
    <2> QED BY <1>1, <2>1
  <1>2. CASE cache[t].version # doc.version
    <2>1. Rendered(t, f, doc) = [Fresh(doc) EXCEPT !.conflict = f.conflict] /\ f.conflict \in BOOLEAN
      BY <1>2 DEF Rendered, Resynced, Form
    <2>2. [Fresh(doc) EXCEPT !.conflict = f.conflict].dirty = FALSE
      BY DEF Fresh
    <2> QED BY <2>1, <2>2, FreshOK DEF FormInv
  <1> QED BY <1>1, <1>2

(* A step that leaves the page following, and what is owed, announced and  *)
(* asked for no less, keeps a write on its way, and starts the next.       *)
LEMMA DueStays ==
    ASSUME FormInv, FormInv', NEW t \in Tabs, NEW v \in 1..MaxWrites,
           \/ Awaits(t, v)
           \/ Follows(t) /\ link[t] = "subscribed" /\ stored.version < v /\ v = stored'.version,
           Follows(t)', link'[t] # "down",
           link[t] = "subscribed" => link'[t] = "subscribed",
           notices'[t] >= notices[t],
           stored'.version >= stored.version,
           owed' - owed = stored'.version - stored.version,
           get'[t] \in {Asked, get[t]}
    PROVE  Awaits(t, v)'
  <1>1. /\ stored.version \in Nat /\ stored'.version \in Nat /\ owed \in Nat /\ owed' \in Nat
        /\ notices[t] \in Nat /\ notices'[t] \in Nat /\ v \in Nat
    BY BoundsAssumption DEF FormInv, TypeOK, Doc
  <1>2. stored'.version >= v
    BY <1>1 DEF Awaits, Due
  <1>3. Due(t, v)'
    <2>1. CASE Awaits(t, v)
      BY <1>1, <1>2, <2>1 DEF Awaits, Due
    <2>2. CASE link[t] = "subscribed" /\ stored.version < v /\ v = stored'.version
      <3>1. owed' > 0
        BY <1>1, <2>2
      <3> QED BY <1>2, <2>2, <3>1 DEF Due
    <2> QED BY <2>1, <2>2
  <1> QED BY <1>3 DEF Awaits

(* A step of one tab changes nothing of another.                           *)
LEMMA Elsewhere ==
    ASSUME TypeOK, NEW t \in Tabs, NEW u \in Tabs, u # t, TabActs(u)
    PROVE  link'[t] = link[t] /\ notices'[t] = notices[t]
  <1>1. ASSUME NEW c \in Calls,
               EngineSaves(u, c) \/ EngineMoves(u, c) \/ EngineReloads(u, c) \/ SaveDone(u, c)
                 \/ MoveDone(u, c) \/ SaveRefused(u, c) \/ AnswerLost(u, c)
        PROVE  UNCHANGED wire
    BY <1>1 DEF EngineSaves, EngineMoves, EngineReloads, SaveDone, MoveDone, SaveRefused, AnswerLost
  <1>2. CASE EngineReads(u) \/ Loaded(u) \/ Person(u) \/ LoadFails(u)
    BY <1>2 DEF EngineReads, Loaded, Person, Open, Leave, Edit, Undo, Save, Move, ReloadLatest,
         LoadFails, wire
  <1>3. CASE Hear(u) \/ Drop(u) \/ Connect(u) \/ Subscribe(u)
    BY <1>3 DEF Hear, Drop, Connect, Subscribe, server, TypeOK
  <1> QED BY <1>1, <1>2, <1>3 DEF TabActs, Engine, Client, Fault, wire

(* The page follows on with what its own step made of it.                  *)
LEMMA FollowsOnLoaded ==
    ASSUME FormInv, NEW t \in Tabs, Follows(t), Loaded(t)
    PROVE  Follows(t)'
  <1>1. /\ open[t] /\ form[t] # NoForm /\ form[t].dirty = FALSE
        /\ form[t].shown.version = cache[t].version /\ form[t] \in Form
    BY FollowsFacts
  <1>2. TypeOK /\ TabInv(t)
    BY DEF FormInv
  <1>3. Copy(get[t])
    BY <1>2 DEF Loaded, TabInv
  <1>4. open' = open /\ cache'[t] = get[t] /\ form'[t] = Rendered(t, form[t], get[t])
    BY <1>2 DEF Loaded, TypeOK
  <1>5. /\ Rendered(t, form[t], get[t]) # NoForm /\ Rendered(t, form[t], get[t]).dirty = FALSE
        /\ Rendered(t, form[t], get[t]).shown.version = get[t].version
    BY <1>1, <1>3, RenderedShows
  <1> QED BY <1>1, <1>4, <1>5 DEF Follows, Shows

LEMMA FollowsOn ==
    ASSUME FormInv, NEW t \in Tabs, NEW c \in Calls, Follows(t), SaveDone(t, c) \/ MoveDone(t, c)
    PROVE  Follows(t)'
  <1>1. /\ open[t] /\ form[t] # NoForm /\ form[t].dirty = FALSE
        /\ form[t].shown.version = cache[t].version /\ form[t] \in Form
    BY FollowsFacts
  <1>2. TypeOK /\ TabInv(t) /\ CallInv(t, c)
    BY DEF FormInv, TabInv
  <1> DEFINE doc == call[t][c].doc
  <1>3. Copy(doc) /\ doc \in Doc
    BY <1>2 DEF SaveDone, MoveDone, CallInv, CallOK, Copy
  <1>4. CASE SaveDone(t, c)
    <2>1. /\ open' = open /\ cache'[t] = doc
          /\ form'[t] = IF call[t][c].here THEN Fresh(doc) ELSE Rendered(t, form[t], doc)
      BY <1>2, <1>4 DEF SaveDone, TypeOK
    <2>2. form'[t] # NoForm /\ form'[t].dirty = FALSE /\ form'[t].shown.version = doc.version
      <3>1. CASE call[t][c].here
        <4>1. form'[t] = Fresh(doc) /\ Fresh(doc).dirty = FALSE
          BY <2>1, <3>1 DEF Fresh
        <4> HIDE DEF doc
        <4> QED BY <1>2, <1>3, <4>1, FreshOK
      <3>2. CASE ~call[t][c].here
        <4> HIDE DEF doc
        <4>1. /\ Rendered(t, form[t], doc) # NoForm /\ Rendered(t, form[t], doc).dirty = FALSE
              /\ Rendered(t, form[t], doc).shown.version = doc.version
          BY <1>1, <1>3, RenderedShows
        <4> QED BY <2>1, <3>2, <4>1
      <3> QED BY <3>1, <3>2
    <2> QED BY <1>1, <2>1, <2>2 DEF Follows, Shows
  <1>5. CASE MoveDone(t, c)
    <2> DEFINE reset == [form[t] EXCEPT !.shown = doc, !.dirty = FALSE]
               f == IF call[t][c].here THEN reset ELSE form[t]
    <2>1. /\ open' = open /\ cache'[t] = doc /\ form'[t] = Rendered(t, f, doc)
      BY <1>2, <1>5 DEF MoveDone, TypeOK
    <2>2. reset \in Form /\ reset.shown = doc /\ reset.dirty = FALSE
      BY <1>1, <1>3 DEF Form
    <2>3. reset # NoForm
      BY <1>3, <2>2, Constants
    <2>4. f \in Form /\ f # NoForm /\ f.dirty = FALSE /\ f.shown.version \in {cache[t].version, doc.version}
      BY <1>1, <2>2, <2>3
    <2> HIDE DEF f, reset, doc
    <2>5. /\ Rendered(t, f, doc) # NoForm
          /\ Rendered(t, f, doc).dirty = FALSE /\ Rendered(t, f, doc).shown.version = doc.version
      BY <1>1, <1>3, <2>4, RenderedShows
    <2> QED BY <1>1, <2>1, <2>5 DEF Follows, Shows
  <1> QED BY <1>4, <1>5

LEMMA DutyTab ==
    ASSUME FormInv, FormInv', NEW t \in Tabs, NEW v \in 1..MaxWrites, TabActs(t), Sound(t),
           \/ Awaits(t, v)
           \/ Follows(t) /\ link[t] = "subscribed" /\ stored.version < v /\ v = stored'.version
    PROVE  Awaits(t, v)' \/ Released(t, v)'
  <1>1. Follows(t) /\ link[t] # "down"
    BY DEF Awaits
  <1>2. /\ open[t] /\ form[t] # NoForm /\ form[t].dirty = FALSE
        /\ form[t].shown.version = cache[t].version /\ cache[t] # Nowhere /\ form[t] \in Form /\ Copy(form[t].shown)
    BY <1>1, FollowsFacts
  <1>3. TypeOK /\ TypeOK' /\ stored'.version >= stored.version
        /\ owed' - owed = stored'.version - stored.version
    BY DEF FormInv, Sound
  <1>4. /\ stored.version \in Nat /\ v \in Nat /\ notices[t] \in Nat
    BY Types DEF FormInv
  <1>5. CASE Open(t) \/ Undo(t) \/ Connect(t)
    BY <1>1, <1>2, <1>5 DEF Open, Undo, Connect
  <1>6. CASE Leave(t) \/ LoadFails(t)
    BY <1>3, <1>6 DEF Leave, LoadFails, TypeOK, Released, Shows
  <1>7. CASE Edit(t)
    <2>1. form'[t] = [form[t] EXCEPT !.dirty = TRUE] /\ form'[t].dirty = TRUE
      BY <1>2, <1>3, <1>7 DEF Edit, TypeOK, Form
    <2> QED BY <2>1 DEF Released
  <1>8. CASE Drop(t)
    BY <1>3, <1>8 DEF Drop, TypeOK, Released
  <1>9. ASSUME UNCHANGED <<link, notices, open, cache, get, form>>
        PROVE  Awaits(t, v)'
    <2>1. Follows(t)'
      BY <1>1, <1>9 DEF Follows, Shows
    <2> QED BY <1>1, <1>3, <1>4, <1>9, <2>1, DueStays
  <1>10. CASE Save(t) \/ Move(t) \/ ReloadLatest(t)
    <2>1. UNCHANGED <<link, notices, open, cache, get, form>>
      BY <1>10 DEF Save, Move, ReloadLatest, wire
    <2> QED BY <1>9, <2>1
  <1>11. ASSUME NEW c \in Calls
         PROVE  /\ EngineSaves(t, c) \/ EngineMoves(t, c) \/ EngineReloads(t, c) \/ AnswerLost(t, c)
                     => Awaits(t, v)'
                /\ SaveRefused(t, c) \/ SaveDone(t, c) \/ MoveDone(t, c) => Awaits(t, v)'
    <2>1. CASE EngineSaves(t, c) \/ EngineMoves(t, c) \/ EngineReloads(t, c) \/ AnswerLost(t, c)
      <3>1. UNCHANGED <<link, notices, open, cache, get, form>>
        BY <2>1 DEF EngineSaves, EngineMoves, EngineReloads, AnswerLost, wire
      <3> QED BY <1>9, <3>1
    <2>2. CASE SaveRefused(t, c)
      <3>1. /\ UNCHANGED <<link, notices, open, cache, get>>
            /\ form' = [form EXCEPT ![t].conflict = form[t].conflict \/ call[t][c].here]
        BY <1>3, <2>2 DEF SaveRefused, wire, TypeOK
      <3>2. form'[t].shown = form[t].shown /\ form'[t].dirty = FALSE
        BY <1>2, <1>3, <3>1 DEF TypeOK, Form
      <3>3. form'[t] # NoForm
        BY <1>2, <3>2, Constants DEF Copy
      <3>4. Follows(t)'
        BY <1>2, <3>1, <3>2, <3>3 DEF Follows, Shows
      <3> QED BY <1>1, <1>3, <1>4, <3>1, <3>4, DueStays
    <2>3. CASE SaveDone(t, c) \/ MoveDone(t, c)
      <3>1. UNCHANGED <<link, notices>> /\ get'[t] \in {Asked, get[t]}
        BY <1>3, <2>3 DEF SaveDone, MoveDone, wire, TypeOK
      <3>2. Follows(t)'
        BY <1>1, <2>3, FollowsOn
      <3> QED BY <1>1, <1>3, <1>4, <3>1, <3>2, DueStays
    <2> QED BY <2>1, <2>2, <2>3
  <1>12. CASE EngineReads(t)
    <2>1. UNCHANGED <<stored, link, notices, open, cache, form>> /\ get'[t] = stored
      BY <1>3, <1>12 DEF EngineReads, server, wire, TypeOK
    <2>2. Awaits(t, v) /\ stored.version >= v /\ stored \in Doc
      BY <1>4, <2>1, Types DEF Awaits, Due, FormInv
    <2>3. Due(t, v)' /\ Follows(t)'
      BY <1>1, <2>1, <2>2 DEF Due, Follows, Shows
    <2> QED BY <1>1, <2>1, <2>3 DEF Awaits
  <1>13. CASE Loaded(t)
    <2>1. /\ UNCHANGED <<stored, owed, link, notices, open>>
          /\ get[t] # Asked /\ cache'[t] = get[t]
      BY <1>3, <1>13 DEF Loaded, server, wire, TypeOK
    <2>2. Awaits(t, v) /\ Due(t, v)
      BY <1>4, <2>1 DEF Awaits
    <2>3. Follows(t)'
      BY <1>1, <1>13, FollowsOnLoaded
    <2>4. CASE get[t] \in Doc /\ get[t].version >= v
      BY <2>1, <2>3, <2>4 DEF Follows, Released
    <2>5. CASE ~(get[t] \in Doc /\ get[t].version >= v)
      <3>1. Due(t, v)'
        BY <2>1, <2>2, <2>5 DEF Due
      <3> QED BY <1>1, <2>1, <2>3, <3>1 DEF Awaits
    <2> QED BY <2>4, <2>5
  <1>14. CASE Hear(t)
    <2>1. UNCHANGED <<stored, owed, link, open, cache, form>> /\ get'[t] = Asked
      BY <1>2, <1>3, <1>14 DEF Hear, Asks, server, TypeOK
    <2>2. Awaits(t, v) /\ Due(t, v)
      BY <1>4, <2>1 DEF Awaits
    <2>3. Due(t, v)' /\ Follows(t)'
      BY <1>1, <2>1, <2>2 DEF Due, Follows, Shows
    <2> QED BY <1>1, <2>1, <2>3 DEF Awaits
  <1>15. CASE Subscribe(t)
    <2>1. /\ UNCHANGED <<stored, owed, notices, open, cache, get, form>>
          /\ link'[t] = "subscribed"
      BY <1>2, <1>3, <1>15 DEF Subscribe, server, TypeOK
    <2>2. Follows(t)'
      BY <1>1, <2>1 DEF Follows, Shows
    <2> QED BY <1>3, <1>4, <2>1, <2>2, DueStays
  <1> QED BY <1>5, <1>6, <1>7, <1>8, <1>9, <1>10, <1>11, <1>12, <1>13, <1>14, <1>15
          DEF TabActs, Engine, Client, Person, Fault

LEMMA DutyNext ==
    ASSUME FormInv, FormInv', [Next]_vars
    PROVE  [DutyStep]_vars
  <1> SUFFICES ASSUME NEW t \in Tabs, NEW v \in 1..MaxWrites,
                      \/ Awaits(t, v)
                      \/ Follows(t) /\ link[t] = "subscribed" /\ stored.version < v /\ v = stored'.version,
                      vars' # vars
               PROVE  Awaits(t, v)' \/ Released(t, v)'
    BY DEF DutyStep
  <1>1. /\ Follows(t) /\ link[t] # "down" /\ TypeOK /\ TypeOK'
        /\ stored.version \in Nat /\ owed \in Nat /\ notices[t] \in Nat /\ v \in Nat
    BY Types DEF Awaits, FormInv
  <1>2. CASE OtherWrites
    <2>1. UNCHANGED <<link, notices, open, cache, get, form>>
      BY <1>2 DEF OtherWrites, wire
    <2>2. stored'.version = stored.version + 1 /\ owed' = owed + 1
      BY <1>2, OtherInv
    <2>3. Follows(t)'
      BY <1>1, <2>1 DEF Follows, Shows
    <2> QED BY <1>1, <2>1, <2>2, <2>3, DueStays
  <1>3. CASE Broadcast
    <2>1. /\ UNCHANGED <<stored, link, open, cache, get, form>>
          /\ notices'[t] = notices[t] + Reached(t)
      BY <1>3 DEF Broadcast
    <2>2. Awaits(t, v) /\ Due(t, v) /\ Reached(t) \in Nat
      BY <1>1, <2>1 DEF Awaits, Reached
    <2>3. link[t] = "subscribed" => notices'[t] > 0
      BY <1>1, <2>1 DEF Reached
    <2>4. notices[t] > 0 => notices'[t] > 0
      BY <1>1, <2>1, <2>2
    <2>5. Due(t, v)' /\ Follows(t)'
      BY <1>1, <2>1, <2>2, <2>3, <2>4 DEF Due, Follows, Shows
    <2> QED BY <1>1, <2>1, <2>5 DEF Awaits
  <1>4. ASSUME NEW u \in Tabs, TabActs(u), u # t
        PROVE  Awaits(t, v)'
    <2>1. /\ link'[t] = link[t] /\ notices'[t] = notices[t]
          /\ open'[t] = open[t] /\ cache'[t] = cache[t] /\ get'[t] = get[t] /\ form'[t] = form[t]
      BY <1>1, <1>4, Elsewhere, TabSound DEF Sound, Only
    <2>2. stored'.version >= stored.version /\ owed' - owed = stored'.version - stored.version
      BY <1>4, TabSound DEF Sound
    <2>3. Follows(t)'
      BY <1>1, <2>1 DEF Follows, Shows
    <2> QED BY <1>1, <2>1, <2>2, <2>3, DueStays
  <1>5. CASE TabActs(t)
    BY <1>5, TabSound, DutyTab
  <1> QED BY <1>2, <1>3, <1>4, <1>5 DEF Next, TabActs

(* The safety half of CatchesUp: a write made while a page follows the     *)
(* document is on its way to it, through broadcast, notice and GETs that   *)
(* are dropped and asked anew, until the page shows it or stops following. *)
THEOREM NoNoticeIsDropped == Spec => DutyIsKept
  <1>1. FormInv /\ FormInv' /\ [Next]_vars => [DutyStep]_vars
    BY DutyNext
  <1> QED BY <1>1, FormHolds, PTL DEF Spec, DutyIsKept

=============================================================================
