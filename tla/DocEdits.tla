------------------------------ MODULE DocEdits ------------------------------
(***************************************************************************)
(* Concurrent writers of one document: forms that read it and save it back *)
(* (update, with or without If-Match), users and hooks that patch the band *)
(* of a submitted one (updateSubmitted: a set, or an increment), and       *)
(* submit and cancel between them.                                         *)
(*                                                                         *)
(* A row carries its docstatus, a text (set by update and by a band set),  *)
(* a counter (band increments) and its modified stamp.  update judges      *)
(* inside its transaction only; the others judge before it and again       *)
(* inside, on the row reloaded there.                                      *)
(***************************************************************************)
EXTENDS Naturals

CONSTANTS
    Procs,      \* writers
    Docs,       \* documents
    MaxWrites,  \* bound: text and counter writes of one document
    ClockTicks  \* TRUE iff no two writes of a row fall in one millisecond

ASSUME BoundAssumption == MaxWrites \in Nat
ASSUME ClockAssumption == ClockTicks \in BOOLEAN
ASSUME DocsAssumption == Docs # {}

VARIABLES
    store, open, snap, missed,  \* see MongoTxn
    pc,      \* pc[p]: "idle", "editing" (a form is open), "checked" (may open its transaction)
    call,    \* call[p]: the verb p runs and its If-Match
    form,    \* form[p]: the row a client read before it writes
    bumps    \* bumps[d]: committed increments of d's counter

vars == <<store, open, snap, missed, pc, call, form, bumps>>

Verbs == {"update", "set", "increment", "submit", "cancel"}

Row == [st : {"draft", "submitted", "cancelled"}, text : Nat, count : Nat, modified : Nat]
NewDoc == [st |-> "draft", text |-> 0, count |-> 0, modified |-> 0]
EmptyStore == [d \in Docs |-> NewDoc]

(* An If-Match header: one stamp, or no header at all.                     *)
NoMatch == {}
Call == [verb : Verbs \cup {"none"}, match : SUBSET Nat]
NoCall == [verb |-> "none", match |-> NoMatch]
NoForm == [doc |-> CHOOSE d \in Docs : TRUE, row |-> NewDoc]

Txn == INSTANCE MongoTxn

Target(p) == form[p].doc

-----------------------------------------------------------------------------
(* A client reads the document its form shows.                             *)
Read(p, d) ==
    /\ pc[p] = "idle"
    /\ pc' = [pc EXCEPT ![p] = "editing"]
    /\ form' = [form EXCEPT ![p] = [doc |-> d, row |-> store[d]]]
    /\ UNCHANGED <<store, open, snap, missed, call, bumps>>

(* The stamp of the stored row is the one If-Match names, if it names one. *)
Matches(row, match) == \A stamp \in match : row.modified = stamp

(* What a verb judges before its transaction; update judges nothing.       *)
Judged(p, verb, match) ==
    CASE verb = "update"              -> TRUE
      [] verb \in {"set", "increment"} -> /\ store[Target(p)].st = "submitted"
                                          /\ Matches(store[Target(p)], match)
      [] verb = "submit"              -> store[Target(p)].st = "draft" /\ match = NoMatch
      [] verb = "cancel"              -> store[Target(p)].st = "submitted" /\ match = NoMatch

(* The client sends its write, with the stamp it read as If-Match or none. *)
Send(p, verb, match) ==
    /\ pc[p] = "editing"
    /\ match \in {NoMatch, {form[p].row.modified}}
    /\ Judged(p, verb, match)
    /\ pc' = [pc EXCEPT ![p] = "checked"]
    /\ call' = [call EXCEPT ![p] = [verb |-> verb, match |-> match]]
    /\ UNCHANGED <<store, open, snap, missed, form, bumps>>

Begin(p) ==
    /\ pc[p] = "checked"
    /\ Txn!Begin(p)
    /\ UNCHANGED <<pc, call, form, bumps>>

Return(p) ==
    /\ pc' = [pc EXCEPT ![p] = "idle"]
    /\ call' = [call EXCEPT ![p] = NoCall]
    /\ form' = [form EXCEPT ![p] = NoForm]

-----------------------------------------------------------------------------
(* Inside the transaction.                                                 *)

InTxn(p, verb) == p \in open /\ call[p].verb = verb

(* The row a verb works on: loaded under the session at every attempt.     *)
Loaded(p) == snap[p][Target(p)]

(* Mutant of Expected: If-Match compared before the transaction only.      *)
ExpectedEarly(p) == call[p].verb = "update" => Matches(Loaded(p), call[p].match)

(* If-Match, compared with the row the transaction loaded.                 *)
Expected(p) == Matches(Loaded(p), call[p].match)

(* modified = new Date(), and the write of the row.  A conflict there is   *)
(* reported to the driver; MaxWrites ends the run.                         *)
Stamps(p) == {Loaded(p).modified + 1} \cup (IF ClockTicks THEN {} ELSE {Loaded(p).modified})

Write(p, row) ==
    /\ row.text + row.count =< MaxWrites
    /\ \E stamp \in Stamps(p) :
         Txn!Commit(p, [d \in {Target(p)} |-> [row EXCEPT !.modified = stamp]], {})
    /\ Return(p)

(* Mutant of EditAllowed: the docstatus of the form is trusted.            *)
EditAllowedEarly(p) == form[p].row.st = "draft"

(* validateEdit, on the row the transaction loaded.                        *)
EditAllowed(p) == Loaded(p).st = "draft"

(* performUpdate: only a draft, and only over the version If-Match names.  *)
Update(p) ==
    /\ InTxn(p, "update")
    /\ Expected(p)
    /\ EditAllowed(p)
    /\ Write(p, [Loaded(p) EXCEPT !.text = @ + 1])
    /\ UNCHANGED bumps

(* performUpdateSubmitted: its two kinds of patch.                         *)
BandAllowed(p) == snap[p][Target(p)].st = "submitted" /\ Expected(p)

Set(p) ==
    /\ InTxn(p, "set")
    /\ BandAllowed(p)
    /\ Write(p, [Loaded(p) EXCEPT !.text = @ + 1])
    /\ UNCHANGED bumps

(* Mutant of Bumped: the increment is resolved against the row loaded      *)
(* before the transaction.                                                 *)
BumpedEarly(p) == [Loaded(p) EXCEPT !.count = form[p].row.count + 1]

Bumped(p) == [Loaded(p) EXCEPT !.count = @ + 1]

Increment(p) ==
    /\ InTxn(p, "increment")
    /\ BandAllowed(p)
    /\ Write(p, Bumped(p))
    /\ bumps' = [bumps EXCEPT ![Target(p)] = @ + 1]

Submit(p) ==
    /\ InTxn(p, "submit")
    /\ Loaded(p).st = "draft"
    /\ Write(p, [Loaded(p) EXCEPT !.st = "submitted"])
    /\ UNCHANGED bumps

Cancel(p) ==
    /\ InTxn(p, "cancel")
    /\ Loaded(p).st = "submitted"
    /\ Write(p, [Loaded(p) EXCEPT !.st = "cancelled"])
    /\ UNCHANGED bumps

(* A write conflict: the driver reruns the callback.                       *)
Retry(p) ==
    /\ p \in open
    /\ Target(p) \in missed[p]
    /\ Txn!Abort(p)
    /\ UNCHANGED <<pc, call, form, bumps>>

(* Mutant of Refuse: the throw ends the call and leaves the session open.  *)
RefuseLeaks(p) ==
    /\ pc[p] # "idle"
    /\ Return(p) /\ UNCHANGED <<store, open, snap, missed, bumps>>

(* A check that fails, a hook that throws; a client that closes its form.  *)
Refuse(p) ==
    /\ pc[p] # "idle"
    /\ IF p \in open THEN Txn!Abort(p) ELSE UNCHANGED <<store, open, snap, missed>>
    /\ Return(p) /\ UNCHANGED bumps

-----------------------------------------------------------------------------
Init ==
    /\ Txn!TxnInit
    /\ pc = [p \in Procs |-> "idle"]
    /\ call = [p \in Procs |-> NoCall]
    /\ form = [p \in Procs |-> NoForm]
    /\ bumps = [d \in Docs |-> 0]

Commits(p) == Update(p) \/ Set(p) \/ Increment(p) \/ Submit(p) \/ Cancel(p)

Step(p) ==
    \/ \E d \in Docs : Read(p, d)
    \/ \E verb \in Verbs, match \in {NoMatch, {form[p].row.modified}} : Send(p, verb, match)
    \/ Begin(p) \/ Commits(p) \/ Retry(p) \/ Refuse(p)

Next == \E p \in Procs : Step(p)

Spec == Init /\ [][Next]_vars

-----------------------------------------------------------------------------
(* Every variable has its type; open transactions belong to sent calls.    *)
TypeOK ==
    /\ store \in [Docs -> Row]
    /\ open \subseteq Procs
    /\ snap \in [Procs -> [Docs -> Row]]
    /\ missed \in [Procs -> SUBSET Docs]
    /\ pc \in [Procs -> {"idle", "editing", "checked"}]
    /\ call \in [Procs -> Call]
    /\ form \in [Procs -> [doc : Docs, row : Row]]
    /\ bumps \in [Docs -> Nat]
    /\ \A p \in open : pc[p] = "checked"
    /\ \A p \in Procs :
         IF pc[p] = "checked" THEN call[p].match \in {NoMatch, {form[p].row.modified}}
                              ELSE call[p] = NoCall

(* Increments are additive: the counter of a document is the number of     *)
(* increments that committed, whichever writers raced or were rerun.       *)
NoLostIncrement ==
    \A d \in Docs : store[d].count = bumps[d]

(* A row no one else has committed since a transaction began is the row    *)
(* its snapshot holds.                                                     *)
SnapshotCurrent ==
    \A p \in open : \A d \in Docs : d \notin missed[p] => snap[p][d] = store[d]

(* A row a client read is the stored row, or an earlier one.               *)
FormsArePast ==
    \A p \in Procs : pc[p] # "idle" =>
        \/ form[p].row = store[Target(p)]
        \/ form[p].row.modified < store[Target(p)].modified

(* p's write commits in this step.                                         *)
CommitsNow(p) == p \in open \ open' /\ store' # store

(* A write sent with If-Match replaces the very version its client read:   *)
(* no commit of anyone else lies between the read and the write.           *)
FreshStep ==
    \A p \in Procs :
        CommitsNow(p) /\ call[p].match # NoMatch => store[Target(p)] = form[p].row

MatchedWriteIsFresh == [][FreshStep]_vars

(* What was submitted is the text as last saved, no save that was under    *)
(* way lands on it afterwards (a submitted text changes by a band set      *)
(* only), and nothing changes a cancelled document.                        *)
SubmittedStep ==
    \A d \in Docs :
        /\ store[d].st = "submitted" /\ store'[d].text # store[d].text =>
             \E p \in Procs : CommitsNow(p) /\ call[p].verb = "set"
        /\ store[d].st = "draft" /\ store'[d].st = "submitted" => store'[d].text = store[d].text
        /\ store[d].st = "cancelled" => store'[d] = store[d]

SubmittedTextFrozen == [][SubmittedStep]_vars

=============================================================================
