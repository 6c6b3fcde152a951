----------------------------- MODULE ReseedLock -----------------------------
(***************************************************************************)
(* The demo reset (reseedAppData) and the writes around it: the mark that  *)
(* refuses later writes, the wait for earlier ones, the wipe, the seed and *)
(* its second attempt, and the calls that join a running reset.            *)
(*                                                                         *)
(* A write is a DocumentService verb or action.  It runs one transaction,  *)
(* in which its body writes app rows (staged), partly through nested verbs *)
(* that join the transaction and are judged and counted on their own.      *)
(* Node runs one handler at a time, so the judgement and the count of a    *)
(* write, and a reset's mark, are each one step.                           *)
(***************************************************************************)
EXTENDS Naturals

CONSTANTS
    Procs,     \* requests being served
    Ids,       \* app rows; each is in the seed and in a collection of its own
    Modes,     \* "template", "demo"
    Kinds,     \* the kinds of write a run makes, of AllKinds
    WipeFails, \* TRUE iff the deleteMany of a collection may throw
    None       \* no reset; an absent row

(* "app": a verb or an action on an app entity.  "core": a verb on an      *)
(* entity of a database the reset keeps.  "coreAction": an action on one.  *)
AllKinds == {"app", "core", "coreAction"}

ASSUME KindsAssumption == Kinds \subseteq AllKinds
ASSUME WipeAssumption == WipeFails \in BOOLEAN
ASSUME NoneAssumption == None \notin Modes \cup Procs /\ None # "seed"
ASSUME SeedAssumption == "seed" \notin Procs

VARIABLES
    running,   \* the mode of the running reset, or None (runningMode and running)
    phase,     \* "idle", "waiting", "wiping", "seeding"
    todo,      \* the rows the wipe, or the seed's attempt, has yet to reach
    attempt,   \* the seed's attempt, 1 or 2
    underWay,  \* writesUnderWay: <<p, "outer">> and <<p, "nested">>
    pc,        \* pc[p]: "idle", "writing", "nested", "asking" (awaits a reset)
    kind,      \* kind[p]: the kind of p's write
    staged,    \* staged[p]: rows p's open transaction has written
    rows,      \* rows[id]: None, "seed", or the request that wrote it last
    answer     \* answer[p]: what p's last reset call was told

resetVars == <<running, phase, todo, attempt>>
writeVars == <<underWay, pc, kind, staged>>
vars == <<running, phase, todo, attempt, underWay, pc, kind, staged, rows, answer>>

Answers == {"none", "seeded", "seed_failed", "writes_running", "other_mode"}
SeedAttempts == 2

-----------------------------------------------------------------------------
(* Writes.                                                                 *)

(* Mutant of Counted: every action is counted, the reset's own with it.    *)
CountedAll(k) == running = None

(* runAction leaves an action on a core entity out; a write that begins    *)
(* during a reset is not counted.                                          *)
Counted(k) == running = None /\ k # "coreAction"

(* Mutant of Refused: nothing is refused while a reset runs.               *)
RefusedNever(k) == FALSE

(* A write to a database the running reset wipes.                          *)
Refused(k) == running # None /\ k = "app"

StartWrite(p, k) ==
    /\ pc[p] = "idle"
    /\ ~Refused(k)
    /\ underWay' = IF Counted(k) THEN underWay \cup {<<p, "outer">>} ELSE underWay
    /\ pc' = [pc EXCEPT ![p] = "writing"]
    /\ kind' = [kind EXCEPT ![p] = k]
    /\ UNCHANGED <<resetVars, staged, rows, answer>>

(* A row an open transaction has written: MongoDB lets no second           *)
(* transaction write it, and a write outside one waits.                    *)
Held(id) == \E q \in Procs : id \in staged[q]

Stage(p, id) ==
    /\ Held(id) => id \in staged[p]
    /\ staged' = [staged EXCEPT ![p] = @ \cup {id}]

(* The body of a write to the app writes a row in its transaction.         *)
WriteRow(p, id) ==
    /\ pc[p] = "writing" /\ kind[p] = "app"
    /\ Stage(p, id)
    /\ UNCHANGED <<resetVars, underWay, pc, kind, rows, answer>>

(* A hook, a rule or a handler calls a verb on an app entity, which joins  *)
(* the transaction.  A refusal there throws through the outer write.       *)
StartNested(p) ==
    /\ pc[p] = "writing"
    /\ ~Refused("app")
    /\ underWay' = IF Counted("app") THEN underWay \cup {<<p, "nested">>} ELSE underWay
    /\ pc' = [pc EXCEPT ![p] = "nested"]
    /\ UNCHANGED <<resetVars, kind, staged, rows, answer>>

(* Mutant of NestedEnded: the end of the nested write ends the outer one.  *)
NestedEndedBoth(p) == {<<p, "outer">>, <<p, "nested">>}

NestedEnded(p) == {<<p, "nested">>}

EndNested(p, id) ==
    /\ pc[p] = "nested"
    /\ Stage(p, id)
    /\ underWay' = underWay \ NestedEnded(p)
    /\ pc' = [pc EXCEPT ![p] = "writing"]
    /\ UNCHANGED <<resetVars, kind, rows, answer>>

End(p) ==
    /\ underWay' = underWay \ {<<p, "outer">>, <<p, "nested">>}
    /\ pc' = [pc EXCEPT ![p] = "idle"]
    /\ staged' = [staged EXCEPT ![p] = {}]
    /\ UNCHANGED kind

(* The transaction commits; then the write ends and is counted no more.    *)
Commit(p) ==
    /\ pc[p] = "writing"
    /\ rows' = [id \in Ids |-> IF id \in staged[p] THEN p ELSE rows[id]]
    /\ End(p)
    /\ UNCHANGED <<resetVars, answer>>

(* A throw, of a refused nested write or of anything else.                 *)
Abort(p) ==
    /\ pc[p] \in {"writing", "nested"}
    /\ End(p)
    /\ UNCHANGED <<resetVars, rows, answer>>

(* The server aborts a transaction left open past its lifetime.            *)
Expire(p) == staged[p] # {} /\ Abort(p)

-----------------------------------------------------------------------------
(* The reset.                                                              *)

(* A request for a reset, from the admin route or, as a core action, from  *)
(* DemoReset: it is refused, joins the running one or marks a new one.     *)
Ask(p, mode) ==
    /\ pc[p] = "idle"
    /\ kind' = [kind EXCEPT ![p] = "coreAction"]
    /\ underWay' = IF Counted("coreAction") THEN underWay \cup {<<p, "outer">>} ELSE underWay
    /\ IF running \notin {None, mode}
         THEN /\ answer' = [answer EXCEPT ![p] = "other_mode"]
              /\ UNCHANGED <<resetVars, pc>>
         ELSE /\ answer' = [answer EXCEPT ![p] = "none"]
              /\ pc' = [pc EXCEPT ![p] = "asking"]
              /\ running' = mode
              /\ phase' = IF running = None THEN "waiting" ELSE phase
              /\ UNCHANGED <<todo, attempt>>
    /\ UNCHANGED <<staged, rows>>

(* Mutant of Unmark: a reset that fails keeps its mark.                    *)
UnmarkOnSuccess(told) == running' = IF told = "seeded" THEN None ELSE running

Unmark(told) == running' = None

(* The promise every caller awaits settles, and the mark goes, however the *)
(* reset went.                                                             *)
Settle(told) ==
    /\ Unmark(told)
    /\ phase' = "idle"
    /\ todo' = {}
    /\ attempt' = 1
    /\ answer' = [p \in Procs |-> IF pc[p] = "asking" THEN told ELSE answer[p]]
    /\ pc' = [p \in Procs |-> IF pc[p] = "asking" THEN "idle" ELSE pc[p]]
    /\ underWay' = {w \in underWay : pc[w[1]] # "asking"}
    /\ UNCHANGED <<kind, staged>>

(* Mutant of WritesEnded: the wipe starts without the wait.                *)
WritesEndedUnwaited ==
    /\ phase = "waiting"
    /\ phase' = "wiping"
    /\ todo' = Ids
    /\ UNCHANGED <<running, attempt, writeVars, rows, answer>>

WritesEnded ==
    /\ phase = "waiting"
    /\ underWay = {}
    /\ phase' = "wiping"
    /\ todo' = Ids
    /\ UNCHANGED <<running, attempt, writeVars, rows, answer>>

(* Mutant of GiveUp: the wait has no timer.                                *)
GiveUpNever ==
    /\ phase = "waiting"
    /\ FALSE
    /\ Settle("writes_running")
    /\ UNCHANGED rows

(* WRITES_WAIT_MS has passed first.                                        *)
GiveUp ==
    /\ phase = "waiting"
    /\ Settle("writes_running")
    /\ UNCHANGED rows

(* deleteMany of one collection.  It does not see a row that is only in an *)
(* open transaction.  One that throws is logged and skipped.               *)
Wipe(id) ==
    /\ phase = "wiping" /\ id \in todo
    /\ rows[id] # None => ~Held(id)
    /\ rows' \in {[rows EXCEPT ![id] = None]} \cup (IF WipeFails THEN {rows} ELSE {})
    /\ todo' = todo \ {id}
    /\ UNCHANGED <<running, phase, attempt, writeVars, answer>>

Wiped ==
    /\ phase = "wiping" /\ todo = {}
    /\ phase' = "seeding"
    /\ todo' = Ids
    /\ UNCHANGED <<running, attempt, writeVars, rows, answer>>

(* The seed inserts; a row that is there already stays as it is.           *)
Seed(id) ==
    /\ phase = "seeding" /\ id \in todo
    /\ ~Held(id)
    /\ rows' = [rows EXCEPT ![id] = IF @ = None THEN "seed" ELSE @]
    /\ todo' = todo \ {id}
    /\ UNCHANGED <<running, phase, attempt, writeVars, answer>>

(* The first failure starts the seed over, the last fails the reset.       *)
SeedAgain ==
    /\ phase = "seeding" /\ attempt < SeedAttempts
    /\ attempt' = attempt + 1
    /\ todo' = Ids
    /\ UNCHANGED <<running, phase, writeVars, rows, answer>>

SeedFailed ==
    /\ phase = "seeding" /\ attempt = SeedAttempts
    /\ Settle("seed_failed")
    /\ UNCHANGED rows

Seeded ==
    /\ phase = "seeding" /\ todo = {}
    /\ Settle("seeded")
    /\ UNCHANGED rows

-----------------------------------------------------------------------------
Init ==
    /\ running = None
    /\ phase = "idle"
    /\ todo = {}
    /\ attempt = 1
    /\ underWay = {}
    /\ pc = [p \in Procs |-> "idle"]
    /\ kind = [p \in Procs |-> "core"]
    /\ staged = [p \in Procs |-> {}]
    /\ rows \in [Ids -> {None, "seed"}]
    /\ answer = [p \in Procs |-> "none"]

Write(p) ==
    \/ \E k \in Kinds : StartWrite(p, k)
    \/ \E id \in Ids : WriteRow(p, id) \/ EndNested(p, id)
    \/ StartNested(p) \/ Commit(p) \/ Abort(p)

Reset ==
    \/ WritesEnded \/ GiveUp
    \/ \E id \in Ids : Wipe(id) \/ Seed(id)
    \/ Wiped \/ SeedAgain \/ SeedFailed \/ Seeded

Next ==
    \/ Reset
    \/ \E p \in Procs : Write(p) \/ \E mode \in Modes : Ask(p, mode)

(* The reset is one chain of continuations and a timer, which the event    *)
(* loop runs.  Nothing obliges a write to end, but the server does not     *)
(* leave its transaction open for ever.                                    *)
Spec == Init /\ [][Next]_vars /\ WF_vars(Reset) /\ \A p \in Procs : WF_vars(Expire(p))

-----------------------------------------------------------------------------
(* Every variable has its type; a reset is marked exactly while it is in a *)
(* phase, and somebody awaits it.                                          *)
TypeOK ==
    /\ running \in Modes \cup {None}
    /\ phase \in {"idle", "waiting", "wiping", "seeding"}
    /\ todo \subseteq Ids
    /\ attempt \in 1..SeedAttempts
    /\ underWay \subseteq Procs \X {"outer", "nested"}
    /\ pc \in [Procs -> {"idle", "writing", "nested", "asking"}]
    /\ kind \in [Procs -> AllKinds]
    /\ staged \in [Procs -> SUBSET Ids]
    /\ rows \in [Ids -> Procs \cup {None, "seed"}]
    /\ answer \in [Procs -> Answers]
    /\ (running = None) = (phase = "idle")
    /\ phase # "idle" => \E p \in Procs : pc[p] = "asking"

(* Only a reset in its own calls is awaited by them: a call that waits for *)
(* a reset is not among the writes that reset waits for, so the reset      *)
(* never waits for itself and times out on its own.                        *)
NoSelfWait ==
    \A p \in Procs : pc[p] = "asking" => \A w \in underWay : w[1] # p

(* A transaction that has written app rows is counted, under one label or  *)
(* another, from its first row to its commit.                              *)
StagedIsCounted ==
    \A p \in Procs : staged[p] # {} => \E w \in underWay : w[1] = p

(* No transaction that began before the reset commits rows after the wipe  *)
(* has begun.                                                              *)
LandsStep ==
    phase \in {"wiping", "seeding"} =>
      \A id \in Ids : rows'[id] # rows[id] => rows'[id] \in {None, "seed"}

NothingLandsAfterWipe == [][LandsStep]_vars

(* A reset that reports success leaves the seed, the whole seed and no row *)
(* of anyone else.                                                         *)
CleanSlate ==
    [][\A p \in Procs : answer[p] # "seeded" /\ answer'[p] = "seeded" =>
         rows = [id \in Ids |-> "seed"]]_vars

(* Every reset ends, also when a write before it never does and when the   *)
(* seed fails: the app takes writes again, and every call is answered.     *)
ResetEnds == running # None ~> running = None
EveryCallAnswered == \A p \in Procs : pc[p] = "asking" ~> pc[p] = "idle"

=============================================================================
