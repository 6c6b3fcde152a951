----------------------------- MODULE RecordForm -----------------------------
(***************************************************************************)
(* One stored document and the tabs that have its record page open: the    *)
(* query cache of a tab, its GETs, the form with the version it saves      *)
(* against, and the live-sync socket whose change notices make the tab     *)
(* fetch again.                                                            *)
(*                                                                         *)
(* A write is known by the version it makes: the document holds the set of *)
(* the writes its values carry, and a form saves every value it shows.     *)
(* Two writes of one millisecond, which If-Match takes for one, are in     *)
(* DocEdits.                                                               *)
(*                                                                         *)
(* The calls of a tab overlap.  The page keeps one save and one move of    *)
(* its form apart from a second of their kind, and lets no move start      *)
(* while a save is under way; it lets a save start while a move is, and    *)
(* the calls of a page that was left go on beside those of the next.       *)
(***************************************************************************)
EXTENDS Naturals, FiniteSets

CONSTANTS
    Tabs,
    Calls,       \* bound: the calls of a tab that are under way at once
    MaxWrites,   \* bound: the writes of a behaviour
    MaxBreaks     \* bound: the pages left, and the connections and answers lost

ASSUME BoundsAssumption == MaxWrites \in Nat /\ MaxBreaks \in Nat

VARIABLES
    stored,   \* the document: its version and the writes its values carry
    owed,     \* the writes the engine has committed and not yet broadcast
    link,     \* link[t]: the socket of t and whether the engine holds its subscription
    notices,  \* notices[t]: the change events on their way to t
    open,     \* open[t]: the record page is mounted
    cache,    \* cache[t]: the document in the query cache of t
    get,      \* get[t]: the GET of t's query: none, asked, or the answer on its way
    form,     \* form[t]: what the form shows, the version it saves against, ...
    call,     \* call[t][c]: a save, move or reload of t that is under way
    overtaken,\* history: some tab took in an answer before the older one of a
              \* move of the same page
    breaks     \* the pages left and what has been lost so far

vars == <<stored, owed, link, notices, open, cache, get, form, call, overtaken, breaks>>
server == <<stored, owed>>
wire == <<link, notices>>

Doc == [version : 0..MaxWrites, carries : SUBSET (1..MaxWrites)]
Nowhere == [version |-> 0, carries |-> {}, none |-> TRUE]   \* no document
Asked == [version |-> 0, carries |-> {}, asked |-> TRUE]
Form == [shown : Doc \cup {Nowhere}, base : 0..MaxWrites, dirty : BOOLEAN, conflict : BOOLEAN]
Call == [kind : {"none", "save", "move", "reload"}, at : {"idle", "sent", "done", "refused"},
         base : 0..MaxWrites, doc : Doc \cup {Nowhere}, here : BOOLEAN]
NoForm == [shown |-> Nowhere, base |-> 0, dirty |-> FALSE, conflict |-> FALSE]
NoCall == [kind |-> "none", at |-> "idle", base |-> 0, doc |-> Nowhere, here |-> FALSE]

(* useForm with the loaded document, and form.reset with setBaseModified.  *)
Fresh(doc) == [shown |-> doc, base |-> doc.version, dirty |-> FALSE, conflict |-> FALSE]

-----------------------------------------------------------------------------
(* The page: mount, edit, leave.                                           *)

(* Mounting fetches again whatever is cached (staleTime 0).                *)
Open(t) ==
    /\ ~open[t]
    /\ open' = [open EXCEPT ![t] = TRUE]
    /\ get' = [get EXCEPT ![t] = IF @ = Nowhere THEN Asked ELSE @]
    /\ form' = [form EXCEPT ![t] = IF cache[t] = Nowhere THEN NoForm ELSE Fresh(cache[t])]
    /\ UNCHANGED <<server, wire, cache, call, breaks, overtaken>>

(* A call under way goes on without the page, and its answer reaches the   *)
(* query only.                                                             *)
Abandoned(t) ==
    call' = [call EXCEPT ![t] = [c \in Calls |-> [call[t][c] EXCEPT !.here = FALSE]]]

Leave(t) ==
    /\ open[t] /\ breaks < MaxBreaks
    /\ breaks' = breaks + 1
    /\ open' = [open EXCEPT ![t] = FALSE]
    /\ form' = [form EXCEPT ![t] = NoForm]
    /\ Abandoned(t)
    /\ UNCHANGED <<server, wire, cache, get, overtaken>>

Shows(t) == open[t] /\ form[t] # NoForm

Edit(t) ==
    /\ Shows(t)
    /\ ~form[t].dirty
    /\ form' = [form EXCEPT ![t].dirty = TRUE]
    /\ UNCHANGED <<server, wire, open, cache, get, call, breaks, overtaken>>

(* The edit is typed back, or the Cancel of a single resets the form: to   *)
(* the values the form was last reset to.                                  *)
Undo(t) ==
    /\ Shows(t)
    /\ form[t].dirty
    /\ form' = [form EXCEPT ![t].dirty = FALSE]
    /\ UNCHANGED <<server, wire, open, cache, get, call, breaks, overtaken>>

-----------------------------------------------------------------------------
(* The query of the page.                                                  *)

EngineReads(t) ==
    /\ get[t] = Asked
    /\ get' = [get EXCEPT ![t] = stored]
    /\ UNCHANGED <<server, wire, open, cache, form, call, breaks, overtaken>>

(* Mutant of Resynced: the version to save against follows the query.      *)
ResyncedBase(f, old, doc) ==
    IF f.dirty THEN [f EXCEPT !.base = doc.version] ELSE [Fresh(doc) EXCEPT !.conflict = f.conflict]

(* The re-sync effect, keyed on the loaded version: a form with edits      *)
(* keeps what it shows and what it saves against.                          *)
Resynced(f, old, doc) ==
    IF f.dirty \/ old.version = doc.version THEN f ELSE [Fresh(doc) EXCEPT !.conflict = f.conflict]

(* The page with a document in its query: RecordPage mounts the form only  *)
(* then.                                                                   *)
Rendered(t, f, doc) ==
    IF ~open[t] THEN NoForm ELSE IF f = NoForm THEN Fresh(doc) ELSE Resynced(f, cache[t], doc)

Loaded(t) ==
    /\ get[t] \notin {Nowhere, Asked}
    /\ cache' = [cache EXCEPT ![t] = get[t]]
    /\ get' = [get EXCEPT ![t] = Nowhere]
    /\ form' = [form EXCEPT ![t] = Rendered(t, @, get[t])]
    /\ UNCHANGED <<server, wire, open, call, breaks, overtaken>>

(* retry is off: a failed GET puts the error in the place of the form.     *)
LoadFails(t) ==
    /\ get[t] # Nowhere /\ breaks < MaxBreaks
    /\ breaks' = breaks + 1
    /\ get' = [get EXCEPT ![t] = Nowhere]
    /\ form' = [form EXCEPT ![t] = NoForm]
    /\ Abandoned(t)
    /\ UNCHANGED <<server, wire, open, cache, overtaken>>

-----------------------------------------------------------------------------
(* The calls of the form.                                                  *)

Free(t) == {c \in Calls : call[t][c] = NoCall}

Calling(t, kind, base, doc) ==
    /\ Free(t) # {}
    /\ call' = [call EXCEPT ![t][CHOOSE c \in Free(t) : TRUE] =
                   [kind |-> kind, at |-> "sent", base |-> base, doc |-> doc, here |-> TRUE]]

(* isPending of the page's own mutations: saving, and busy of WorkflowBar. *)
Pending(t, kind) == \E c \in Calls : call[t][c].kind = kind /\ call[t][c].here

(* submit: every value of the form, under If-Match.                        *)
Save(t) ==
    /\ Shows(t) /\ ~form[t].conflict /\ ~Pending(t, "save")
    /\ Calling(t, "save", form[t].base, form[t].shown)
    /\ UNCHANGED <<server, wire, open, cache, get, form, breaks, overtaken>>

(* WorkflowBar: a submit, a cancel or a transition of a form without edits.*)
Move(t) ==
    /\ Shows(t) /\ ~form[t].dirty /\ ~Pending(t, "save") /\ ~Pending(t, "move")
    /\ Calling(t, "move", 0, Nowhere)
    /\ UNCHANGED <<server, wire, open, cache, get, form, breaks, overtaken>>

ReloadLatest(t) ==
    /\ Shows(t) /\ form[t].conflict
    /\ Calling(t, "reload", 0, Nowhere)
    /\ UNCHANGED <<server, wire, open, cache, get, form, breaks, overtaken>>

(* A write of the document: its values carry what was sent and itself.     *)
Written(carried) == [version |-> stored.version + 1, carries |-> carried \cup {stored.version + 1}]

Commit(doc) ==
    /\ stored.version < MaxWrites
    /\ stored' = doc
    /\ owed' = owed + 1

Answered(t, c, at, doc) ==
    call' = [call EXCEPT ![t][c] = [@ EXCEPT !.at = at, !.doc = doc, !.base = 0]]

(* performUpdate under If-Match.                                           *)
EngineSaves(t, c) ==
    /\ call[t][c].kind = "save" /\ call[t][c].at = "sent"
    /\ \/ /\ call[t][c].base = stored.version
          /\ Commit(Written(call[t][c].doc.carries))
          /\ Answered(t, c, "done", stored')
       \/ /\ call[t][c].base # stored.version
          /\ Answered(t, c, "refused", Nowhere)
          /\ UNCHANGED server
    /\ UNCHANGED <<wire, open, cache, get, form, breaks, overtaken>>

(* A move writes its own fields over the stored row.                       *)
EngineMoves(t, c) ==
    /\ call[t][c].kind = "move" /\ call[t][c].at = "sent"
    /\ Commit(Written(stored.carries))
    /\ Answered(t, c, "done", stored')
    /\ UNCHANGED <<wire, open, cache, get, form, breaks, overtaken>>

EngineReloads(t, c) ==
    /\ call[t][c].kind = "reload" /\ call[t][c].at = "sent"
    /\ Answered(t, c, "done", stored)
    /\ UNCHANGED <<server, wire, open, cache, get, form, breaks, overtaken>>

(* Another caller of the API writes the document.                          *)
OtherWrites ==
    /\ Commit(Written(stored.carries))
    /\ UNCHANGED <<wire, open, cache, get, form, call, breaks, overtaken>>

(* Mutant of Asks: a GET under way is answered for the new one too.        *)
AsksOnce(t) == IF get[t] = Nowhere THEN Asked ELSE get[t]

(* invalidateQueries fetches a mounted query anew and drops the GET under  *)
(* way, but not the first one, before which the query holds no document.   *)
Asks(t) == IF cache[t] = Nowhere /\ get[t] # Nowhere THEN get[t] ELSE Asked

Ends(t, c) == call' = [call EXCEPT ![t][c] = NoCall]

(* An answer that is taken in overtakes the move of the page whose answer, *)
(* no later than this one, is still under way.                             *)
TakenIn(t, c) ==
    /\ Ends(t, c)
    /\ overtaken' = (overtaken \/ \E d \in Calls \ {c} :
                        /\ call[t][d].kind = "move" /\ call[t][d].at = "done" /\ call[t][d].here
                        /\ call[t][d].doc.version <= call[t][c].doc.version)

(* onSuccess puts the answer in the cache, and the page resets the form to *)
(* it, over what was typed meanwhile.                                      *)
SaveDone(t, c) ==
    /\ call[t][c].kind \in {"save", "reload"} /\ call[t][c].at = "done"
    /\ cache' = [cache EXCEPT ![t] = call[t][c].doc]
    /\ form' = [form EXCEPT ![t] = IF call[t][c].here THEN Fresh(call[t][c].doc) ELSE Rendered(t, @, call[t][c].doc)]
    /\ TakenIn(t, c)
    /\ UNCHANGED <<server, wire, open, get, breaks>>

(* onApplied resets the form alone: the version to save against follows by *)
(* the re-sync, when the answer is not what the query holds already.       *)
MoveDone(t, c) ==
    /\ call[t][c].kind = "move" /\ call[t][c].at = "done"
    /\ LET doc == call[t][c].doc
           reset == [form[t] EXCEPT !.shown = doc, !.dirty = FALSE]
       IN  /\ cache' = [cache EXCEPT ![t] = doc]
           /\ form' = [form EXCEPT ![t] = Rendered(t, IF call[t][c].here THEN reset ELSE @, doc)]
    /\ get' = [get EXCEPT ![t] = IF open[t] THEN Asked ELSE @]
    /\ TakenIn(t, c)
    /\ UNCHANGED <<server, wire, open, breaks>>

SaveRefused(t, c) ==
    /\ call[t][c].at = "refused"
    /\ form' = [form EXCEPT ![t].conflict = @ \/ call[t][c].here]
    /\ Ends(t, c)
    /\ UNCHANGED <<server, wire, open, cache, get, breaks, overtaken>>

(* The answer is lost: the form keeps its edits and its version.           *)
AnswerLost(t, c) ==
    /\ call[t][c] # NoCall /\ breaks < MaxBreaks
    /\ breaks' = breaks + 1
    /\ Ends(t, c)
    /\ UNCHANGED <<server, wire, open, cache, get, form, overtaken>>

-----------------------------------------------------------------------------
(* The socket.                                                             *)

Connect(t) ==
    /\ link[t] = "down"
    /\ link' = [link EXCEPT ![t] = "up"]
    /\ UNCHANGED <<server, notices, open, cache, get, form, call, breaks, overtaken>>

(* The engine takes the tab's subscriptions, which follow what is mounted. *)
Subscribe(t) ==
    /\ link[t] # "down"
    /\ (link[t] = "subscribed") # open[t]
    /\ link' = [link EXCEPT ![t] = IF open[t] THEN "subscribed" ELSE "up"]
    /\ UNCHANGED <<server, notices, open, cache, get, form, call, breaks, overtaken>>

(* Mutant of Reached: a socket that connected again is held twice.         *)
ReachedTwice(t) == IF link[t] = "subscribed" THEN 2 ELSE 0

Reached(t) == IF link[t] = "subscribed" THEN 1 ELSE 0

(* The handler of the write broadcasts it once it has returned.            *)
Broadcast ==
    /\ owed > 0
    /\ owed' = owed - 1
    /\ notices' = [t \in Tabs |-> notices[t] + Reached(t)]
    /\ UNCHANGED <<stored, link, open, cache, get, form, call, breaks, overtaken>>

Hear(t) ==
    /\ notices[t] > 0
    /\ notices' = [notices EXCEPT ![t] = @ - 1]
    /\ get' = [get EXCEPT ![t] = IF open[t] THEN Asks(t) ELSE @]
    /\ UNCHANGED <<server, link, open, cache, form, call, breaks, overtaken>>

Drop(t) ==
    /\ link[t] # "down" /\ breaks < MaxBreaks
    /\ breaks' = breaks + 1
    /\ link' = [link EXCEPT ![t] = "down"]
    /\ notices' = [notices EXCEPT ![t] = 0]
    /\ UNCHANGED <<server, open, cache, get, form, call, overtaken>>

-----------------------------------------------------------------------------
Init ==
    /\ stored = [version |-> 0, carries |-> {}]
    /\ owed = 0 /\ breaks = 0
    /\ link = [t \in Tabs |-> "down"] /\ notices = [t \in Tabs |-> 0]
    /\ open = [t \in Tabs |-> FALSE]
    /\ cache = [t \in Tabs |-> Nowhere] /\ get = [t \in Tabs |-> Nowhere]
    /\ form = [t \in Tabs |-> NoForm] /\ call = [t \in Tabs |-> [c \in Calls |-> NoCall]]
    /\ overtaken = FALSE

Engine(t) ==
    EngineReads(t) \/ \E c \in Calls : EngineSaves(t, c) \/ EngineMoves(t, c) \/ EngineReloads(t, c)
Client(t) ==
    Loaded(t) \/ Hear(t) \/ \E c \in Calls : SaveDone(t, c) \/ MoveDone(t, c) \/ SaveRefused(t, c)
Person(t) == Open(t) \/ Leave(t) \/ Edit(t) \/ Undo(t) \/ Save(t) \/ Move(t) \/ ReloadLatest(t)
Fault(t) == LoadFails(t) \/ Drop(t) \/ \E c \in Calls : AnswerLost(t, c)

Next ==
    \/ OtherWrites \/ Broadcast
    \/ \E t \in Tabs : Engine(t) \/ Client(t) \/ Person(t) \/ Fault(t) \/ Connect(t) \/ Subscribe(t)

(* The engine answers a request it has got, the browser hands on what has  *)
(* arrived; nobody need open, edit or save anything.                       *)
Fairness ==
    \A t \in Tabs : /\ WF_vars(EngineReads(t)) /\ WF_vars(Loaded(t)) /\ WF_vars(Hear(t))
                    /\ \A c \in Calls : WF_vars(SaveDone(t, c)) /\ WF_vars(MoveDone(t, c))

Spec == Init /\ [][Next]_vars /\ Fairness

-----------------------------------------------------------------------------
(* Properties.                                                             *)

(* The types of the variables: the loaded document, the form's state, the  *)
(* mutation under way and the socket (RecordPage, useDocument, realtime).  *)
TypeOK ==
    /\ stored \in Doc /\ owed \in 0..MaxWrites /\ breaks \in 0..MaxBreaks
    /\ link \in [Tabs -> {"down", "up", "subscribed"}]
    /\ notices \in [Tabs -> 0..MaxWrites]
    /\ open \in [Tabs -> BOOLEAN]
    /\ cache \in [Tabs -> Doc \cup {Nowhere}]
    /\ get \in [Tabs -> Doc \cup {Nowhere, Asked}]
    /\ form \in [Tabs -> Form] /\ call \in [Tabs -> [Calls -> Call]]
    /\ overtaken \in BOOLEAN

(* No write is lost, nor would a save under way that If-Match lets through *)
(* lose one: whatever re-syncs, late answers and lost answers came between,*)
(* the values of the document, and those of such a save, carry every write *)
(* that was made of it, unless a tab took in an answer before the older    *)
(* one of a move of the same page (submit saves all the form shows against *)
(* baseModified, and the two are set apart).                               *)
Passes(k) == k.kind = "save" /\ k.at = "sent" /\ k.base = stored.version
NoWriteLost ==
    ~overtaken =>
      /\ stored.carries = 1..stored.version
      /\ \A t \in Tabs, c \in Calls : Passes(call[t][c]) => call[t][c].doc.carries = stored.carries

(* A page without edits that shows what the query holds catches up: after  *)
(* a notice, it shows the version stored by then or a later one, unless it *)
(* is edited, left or disconnected, or its GET fails (invalidateQueries    *)
(* breaks the GET that was under way).                                      *)
Follows(t) == Shows(t) /\ ~form[t].dirty /\ form[t].shown.version = cache[t].version
CatchesUp ==
    \A t \in Tabs, v \in 1..MaxWrites :
      (notices[t] > 0 /\ Follows(t) /\ stored.version = v) ~>
        (form[t].shown.version >= v \/ form[t].dirty \/ ~Shows(t) \/ link[t] = "down")
=============================================================================
