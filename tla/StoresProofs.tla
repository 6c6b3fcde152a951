--------------------------- MODULE StoresProofs ----------------------------
(***************************************************************************)
(* Proofs about the components that write where no transaction covers all: *)
(* ReseedLock, for any requests, rows and modes, and FileStore, for any    *)
(* requests, files and contents.  The two specifications share nothing and *)
(* have names of their own.                                                *)
(***************************************************************************)
EXTENDS ReseedLock, FileStore, FiniteSetTheorems, TLAPS

(* What the counting keeps: only a request that is writing is counted.     *)
CountInv ==
    /\ TypeOK
    /\ \A w \in underWay : pc[w[1]] \in {"writing", "nested"}

LEMMA CountInit == Init => CountInv
  BY NoneAssumption DEF Init, CountInv, TypeOK, AllKinds, Answers, SeedAttempts

LEMMA EndCounts ==
    ASSUME CountInv, NEW p \in Procs, End(p)
    PROVE  /\ underWay' \subseteq underWay
           /\ \A w \in underWay' : w[1] # p
           /\ pc' = [pc EXCEPT ![p] = "idle"]
           /\ staged' = [staged EXCEPT ![p] = {}]
           /\ kind' = kind
  BY DEF CountInv, TypeOK, End

LEMMA CountStep == CountInv /\ [Next]_vars => CountInv'
  <1> SUFFICES ASSUME CountInv, [Next]_vars PROVE CountInv'
    OBVIOUS
  <1> USE NoneAssumption DEF CountInv
  <1>1. CASE UNCHANGED vars
    BY <1>1 DEF vars, resetVars, writeVars, TypeOK
  <1>2. ASSUME NEW p \in Procs, NEW k \in Kinds, StartWrite(p, k)
        PROVE  CountInv'
    BY <1>2, KindsAssumption DEF StartWrite, TypeOK, resetVars
  <1>3. ASSUME NEW p \in Procs, NEW id \in Ids, WriteRow(p, id)
        PROVE  CountInv'
    BY <1>3 DEF WriteRow, Stage, TypeOK, resetVars
  <1>4. ASSUME NEW p \in Procs, StartNested(p)
        PROVE  CountInv'
    BY <1>4 DEF StartNested, TypeOK, resetVars
  <1>5. ASSUME NEW p \in Procs, NEW id \in Ids, EndNested(p, id)
        PROVE  CountInv'
    BY <1>5 DEF EndNested, NestedEnded, Stage, TypeOK, resetVars
  <1>6. ASSUME NEW p \in Procs, Commit(p)
        PROVE  CountInv'
    BY <1>6, EndCounts DEF Commit, TypeOK, resetVars
  <1>7. ASSUME NEW p \in Procs, Abort(p)
        PROVE  CountInv'
    BY <1>7, EndCounts DEF Abort, TypeOK, resetVars
  <1>8. ASSUME NEW p \in Procs, NEW mode \in Modes, Ask(p, mode)
        PROVE  CountInv'
    <2>1. underWay' = underWay
      BY <1>8 DEF Ask, Counted
    <2>2. kind' \in [Procs -> AllKinds] /\ staged' = staged /\ rows' = rows
      BY <1>8 DEF Ask, TypeOK, AllKinds
    <2>3. CASE running \notin {None, mode}
      BY <1>8, <2>1, <2>2, <2>3 DEF Ask, TypeOK, resetVars, Answers
    <2>4. CASE running \in {None, mode}
      BY <1>8, <2>1, <2>2, <2>4 DEF Ask, TypeOK, Answers
    <2> QED BY <2>3, <2>4
  <1>9. ASSUME NEW told \in Answers, Settle(told), rows' = rows
        PROVE  CountInv'
    <2>1. running' = None /\ phase' = "idle" /\ todo' = {} /\ attempt' \in 1..SeedAttempts
      BY <1>9 DEF Settle, Unmark, SeedAttempts
    <2>2. /\ answer' \in [Procs -> Answers]
          /\ pc' \in [Procs -> {"idle", "writing", "nested", "asking"}]
          /\ \A p \in Procs : pc[p] # "asking" => pc'[p] = pc[p]
      BY <1>9 DEF Settle, TypeOK
    <2>3. underWay' = {w \in underWay : pc[w[1]] # "asking"} /\ kind' = kind /\ staged' = staged
      BY <1>9 DEF Settle
    <2> QED BY <1>9, <2>1, <2>2, <2>3 DEF TypeOK
  <1>10. CASE WritesEnded
    BY <1>10 DEF WritesEnded, TypeOK, writeVars
  <1>11. ASSUME NEW id \in Ids, Wipe(id)
         PROVE  CountInv'
    <2>1. rows' \in [Ids -> Procs \cup {None, "seed"}]
      BY <1>11 DEF Wipe, TypeOK
    <2> QED BY <1>11, <2>1 DEF Wipe, TypeOK, writeVars
  <1>12. ASSUME NEW id \in Ids, Seed(id)
         PROVE  CountInv'
    <2>1. rows' \in [Ids -> Procs \cup {None, "seed"}]
      BY <1>12 DEF Seed, TypeOK
    <2> QED BY <1>12, <2>1 DEF Seed, TypeOK, writeVars
  <1>13. CASE Wiped
    BY <1>13 DEF Wiped, TypeOK, writeVars
  <1>14. CASE SeedAgain
    BY <1>14 DEF SeedAgain, TypeOK, writeVars, SeedAttempts
  <1>15. CASE GiveUp \/ SeedFailed \/ Seeded
    BY <1>9, <1>15 DEF GiveUp, SeedFailed, Seeded, Answers
  <1> QED
    BY <1>1, <1>2, <1>3, <1>4, <1>5, <1>6, <1>7, <1>8, <1>10, <1>11, <1>12, <1>13, <1>14, <1>15
    DEF Next, Write, Reset

(* TypeOK holds throughout, and only writing requests are counted.         *)
THEOREM CountInvariant == Spec => []CountInv
  BY CountInit, CountStep, PTL DEF Spec

(* The lock keeps its types: a reset is marked exactly while it is in a    *)
(* phase, and then somebody awaits it.                                     *)
THEOREM LockTypeCorrect == Spec => []TypeOK
  <1>1. CountInv => TypeOK
    BY DEF CountInv
  <1> QED BY <1>1, CountInvariant, PTL

(* A reset never waits for a write that waits for it: whatever the kinds   *)
(* of write around it, a call that awaits the reset is not counted.        *)
THEOREM NeverWaitsForItself == Spec => []NoSelfWait
  <1>1. CountInv => NoSelfWait
    BY DEF CountInv, NoSelfWait
  <1> QED BY <1>1, CountInvariant, PTL

(* Where every write is one of the app's: a write that runs is counted     *)
(* until it ends, and the wipe begins only when none is.                   *)
LockInv ==
    /\ CountInv
    /\ \A p \in Procs : pc[p] \in {"writing", "nested"} => <<p, "outer">> \in underWay
    /\ phase \in {"wiping", "seeding"} => underWay = {}

LEMMA LockStep ==
    ASSUME Kinds = {"app"}, LockInv, [Next]_vars
    PROVE  LockInv'
  <1>1. CountInv'
    BY CountStep DEF LockInv
  <1> USE NoneAssumption DEF LockInv, CountInv
  <1>2. CASE UNCHANGED vars
    BY <1>1, <1>2 DEF vars, resetVars, writeVars
  <1>3. ASSUME NEW p \in Procs, NEW k \in Kinds, StartWrite(p, k)
        PROVE  LockInv'
    <2>1. running = None /\ k = "app"
      BY <1>3 DEF StartWrite, Refused
    <2> QED BY <1>1, <1>3, <2>1 DEF StartWrite, Counted, TypeOK, resetVars
  <1>4. ASSUME NEW p \in Procs, StartNested(p)
        PROVE  LockInv'
    <2>1. running = None
      BY <1>4 DEF StartNested, Refused
    <2> QED BY <1>1, <1>4, <2>1 DEF StartNested, Counted, TypeOK, resetVars
  <1>5. ASSUME NEW p \in Procs, NEW id \in Ids, WriteRow(p, id) \/ EndNested(p, id)
        PROVE  LockInv'
    BY <1>1, <1>5 DEF WriteRow, EndNested, NestedEnded, TypeOK, resetVars
  <1>6. ASSUME NEW p \in Procs, End(p), UNCHANGED resetVars
        PROVE  LockInv'
    <2>1. /\ underWay' = underWay \ {<<p, "outer">>, <<p, "nested">>}
          /\ pc' = [pc EXCEPT ![p] = "idle"]
      BY <1>6 DEF End
    <2> QED BY <1>1, <1>6, <2>1 DEF TypeOK, resetVars
  <1>7. ASSUME NEW p \in Procs, NEW mode \in Modes, Ask(p, mode)
        PROVE  LockInv'
    <2>1. underWay' = underWay
      BY <1>7 DEF Ask, Counted
    <2>2. /\ phase' \in {"wiping", "seeding"} => phase \in {"wiping", "seeding"}
          /\ \A q \in Procs : pc'[q] \in {"writing", "nested"} => pc[q] = pc'[q]
      BY <1>7 DEF Ask, TypeOK, resetVars
    <2> QED BY <1>1, <2>1, <2>2
  <1>8. ASSUME NEW told \in Answers, Settle(told)
        PROVE  LockInv'
    <2>1. /\ phase' = "idle"
          /\ \A p \in Procs : pc'[p] \in {"writing", "nested"} => pc[p] = pc'[p]
          /\ underWay' = {w \in underWay : pc[w[1]] # "asking"}
      BY <1>8 DEF Settle
    <2>2. underWay' = underWay
      BY <2>1
    <2> QED BY <1>1, <2>1, <2>2
  <1>9. CASE \/ WritesEnded \/ Wiped \/ SeedAgain
             \/ \E id \in Ids : Wipe(id) \/ Seed(id)
    BY <1>1, <1>9 DEF WritesEnded, Wiped, SeedAgain, Wipe, Seed, writeVars
  <1> QED
    BY <1>2, <1>3, <1>4, <1>5, <1>6, <1>7, <1>8, <1>9
    DEF Next, Write, Reset, Commit, Abort, GiveUp, SeedFailed, Seeded, Answers

(* Where every write is one of the app's, nothing lands after the wipe has *)
(* begun: the wait covers each transaction to its commit.                  *)
THEOREM NothingLands ==
    ASSUME Kinds = {"app"}
    PROVE  Spec => NothingLandsAfterWipe
  <1>1. Init => LockInv
    BY CountInit DEF LockInv, Init
  <1>2. LockInv /\ [Next]_vars => LockInv'
    BY LockStep
  <1>3. LockInv /\ [Next]_vars => [LandsStep]_vars
    <2> SUFFICES ASSUME LockInv, [Next]_vars, phase \in {"wiping", "seeding"},
                        NEW id \in Ids, rows'[id] # rows[id]
                 PROVE  rows'[id] \in {None, "seed"}
      BY DEF LandsStep
    <2>1. underWay = {} /\ \A p \in Procs : pc[p] \notin {"writing", "nested"}
      BY DEF LockInv
    <2>2. \A p \in Procs : ~Write(p) \/ rows' = rows
      BY <2>1 DEF Write, StartWrite, WriteRow, EndNested, StartNested, Commit, Abort
    <2>3. ASSUME NEW x \in Ids, Wipe(x) \/ Seed(x)
          PROVE  rows'[id] \in {None, "seed"}
      BY <2>3 DEF Wipe, Seed, LockInv, CountInv, TypeOK
    <2> QED
      BY <2>2, <2>3
      DEF Next, vars, Reset, Ask, WritesEnded, GiveUp, Wiped, SeedAgain, SeedFailed, Seeded
  <1> QED BY <1>1, <1>2, <1>3, PTL DEF Spec, NothingLandsAfterWipe

(* A transaction has written rows only while its write runs, and then the  *)
(* write is counted by its outer label, which no nested write takes away.  *)
THEOREM StagedStayCounted ==
    ASSUME Kinds = {"app"}
    PROVE  Spec => []StagedIsCounted
  <1> DEFINE Writing == \A p \in Procs : staged[p] # {} => pc[p] \in {"writing", "nested"}
  <1>1. Init => LockInv /\ Writing
    BY CountInit DEF LockInv, Init
  <1>2. LockInv /\ Writing /\ [Next]_vars => LockInv' /\ Writing'
    <2> SUFFICES ASSUME LockInv, Writing, [Next]_vars PROVE Writing'
      BY LockStep
    <2> USE DEF LockInv, CountInv, TypeOK
    <2>1. ASSUME NEW p \in Procs, Write(p)
          PROVE  Writing'
      <3>1. /\ \A q \in Procs \ {p} : staged'[q] = staged[q] /\ pc'[q] = pc[q]
            /\ staged'[p] = {} \/ pc'[p] \in {"writing", "nested"}
        BY <2>1 DEF Write, StartWrite, WriteRow, EndNested, StartNested, Commit, Abort, Stage, End
      <3> QED BY <3>1
    <2>2. ASSUME NEW p \in Procs, NEW mode \in Modes, Ask(p, mode)
          PROVE  Writing'
      <3>1. /\ staged' = staged /\ staged[p] = {}
            /\ \A q \in Procs \ {p} : pc'[q] = pc[q]
        BY <2>2 DEF Ask
      <3> QED BY <3>1
    <2>3. CASE Reset
      <3>1. staged' = staged /\ \A p \in Procs : pc[p] = "asking" \/ pc'[p] = pc[p]
        BY <2>3 DEF Reset, WritesEnded, GiveUp, Wipe, Seed, Wiped, SeedAgain, SeedFailed, Seeded,
                    Settle, writeVars
      <3> QED BY <3>1
    <2>4. CASE UNCHANGED vars
      BY <2>4 DEF vars
    <2> QED BY <2>1, <2>2, <2>3, <2>4 DEF Next
  <1>3. LockInv /\ Writing => StagedIsCounted
    BY DEF LockInv, StagedIsCounted
  <1> QED BY <1>1, <1>2, <1>3, PTL DEF Spec

(* What a reset has done by now: the rows it has wiped are gone, and those *)
(* its seed has reached are the seed's.                                    *)
Progress ==
    /\ phase = "wiping" => \A id \in Ids \ todo : rows[id] = None
    /\ phase = "seeding" => \A id \in Ids : IF id \in todo THEN rows[id] \in {None, "seed"}
                                                           ELSE rows[id] = "seed"

LEMMA ProgressStep ==
    ASSUME Kinds = {"app"}, ~WipeFails, LockInv, Progress, [Next]_vars
    PROVE  Progress'
  <1> USE NoneAssumption DEF LockInv, CountInv, TypeOK
  <1>1. ASSUME NEW p \in Procs, Write(p)
        PROVE  Progress'
    <2>1. phase \notin {"wiping", "seeding"} \/ rows' = rows
      BY <1>1 DEF Write, StartWrite, WriteRow, EndNested, StartNested, Commit, Abort, resetVars
    <2>2. phase' = phase /\ todo' = todo
      BY <1>1 DEF Write, StartWrite, WriteRow, EndNested, StartNested, Commit, Abort, resetVars
    <2> QED BY <2>1, <2>2 DEF Progress
  <1>2. ASSUME NEW p \in Procs, NEW mode \in Modes, Ask(p, mode)
        PROVE  Progress'
    BY <1>2 DEF Ask, Progress, resetVars
  <1>3. CASE WritesEnded \/ GiveUp \/ SeedFailed \/ Seeded
    BY <1>3 DEF WritesEnded, GiveUp, SeedFailed, Seeded, Settle, Progress
  <1>4. ASSUME NEW id \in Ids, Wipe(id)
        PROVE  Progress'
    <2>1. rows' = [rows EXCEPT ![id] = None] /\ phase = "wiping" /\ phase' = phase /\ todo' = todo \ {id}
      BY <1>4 DEF Wipe
    <2> QED BY <2>1 DEF Progress
  <1>5. ASSUME NEW id \in Ids, Seed(id)
        PROVE  Progress'
    <2>1. /\ rows' = [rows EXCEPT ![id] = IF @ = None THEN "seed" ELSE @]
          /\ phase = "seeding" /\ phase' = phase /\ todo' = todo \ {id} /\ id \in todo
      BY <1>5 DEF Seed
    <2> QED BY <2>1 DEF Progress
  <1>6. CASE Wiped \/ SeedAgain
    BY <1>6 DEF Wiped, SeedAgain, Progress
  <1>7. CASE UNCHANGED vars
    BY <1>7 DEF vars, Progress
  <1> QED BY <1>1, <1>2, <1>3, <1>4, <1>5, <1>6, <1>7 DEF Next, Reset

(* Where every write is one of the app's and no deleteMany throws: a reset *)
(* that reports success leaves the whole seed and nothing else, whatever   *)
(* was written before, beside and after it.                                *)
THEOREM SuccessIsASeed ==
    ASSUME Kinds = {"app"}, ~WipeFails
    PROVE  Spec => CleanSlate
  <1> DEFINE Told == \A p \in Procs : answer[p] # "seeded" /\ answer'[p] = "seeded" =>
                       rows = [id \in Ids |-> "seed"]
  <1>1. Init => LockInv /\ Progress
    BY CountInit DEF LockInv, Init, Progress
  <1>2. LockInv /\ Progress /\ [Next]_vars => LockInv' /\ Progress'
    BY LockStep, ProgressStep
  <1>3. LockInv /\ Progress /\ [Next]_vars => [Told]_vars
    <2> SUFFICES ASSUME LockInv, Progress, [Next]_vars, NEW p \in Procs,
                        answer[p] # "seeded", answer'[p] = "seeded"
                 PROVE  rows = [id \in Ids |-> "seed"]
      OBVIOUS
    <2> USE DEF LockInv, CountInv, TypeOK
    <2>1. ASSUME NEW q \in Procs, Write(q)
          PROVE  answer' = answer
      BY <2>1 DEF Write, StartWrite, WriteRow, EndNested, StartNested, Commit, Abort
    <2>2. ASSUME NEW q \in Procs, NEW mode \in Modes, Ask(q, mode)
          PROVE  answer'[p] # "seeded" \/ answer'[p] = answer[p]
      BY <2>2 DEF Ask
    <2>3. WritesEnded \/ Wiped \/ SeedAgain \/ (\E id \in Ids : Wipe(id) \/ Seed(id)) => answer' = answer
      BY DEF WritesEnded, Wiped, SeedAgain, Wipe, Seed
    <2>4. GiveUp \/ SeedFailed => answer'[p] # "seeded" \/ answer'[p] = answer[p]
      BY DEF GiveUp, SeedFailed, Settle
    <2>5. Seeded
      BY <2>1, <2>2, <2>3, <2>4 DEF Next, Reset, vars
    <2> QED BY <2>5 DEF Seeded, Progress
  <1> QED BY <1>1, <1>2, <1>3, PTL DEF Spec, CleanSlate

-----------------------------------------------------------------------------
(* FileStore: what a call carries for the steps it has still to take.      *)
Fit(step, c) ==
    /\ step \in Steps /\ c \in Call
    /\ IF step = "idle" THEN c = NoCall ELSE c.file \in Files
    /\ c.verb = "delete" => step \in {"counting", "removing", "dropping"}
    /\ c.verb \in {"replace", "delete"} => c.old \in Keys
    /\ c.verb \in {"upload", "replace", "clone"} => c.key \in Keys
    /\ c.verb = "clone" => c.source \in Files
    /\ step = "storing" => c.verb \in {"upload", "replace"}
    /\ step \in {"counting", "removing"} => c.verb \in {"replace", "delete"}

CallsFit == \A p \in Requests : Fit(at[p], call[p])

(* A call past its count removes a blob no other row relies on: one that   *)
(* points at it is the row of the delete itself, or has lapsed.            *)
RemovedAreBare ==
    \A p \in Requests : at[p] = "removing" =>
      \A f \in Rows(call[p].old) \ lapsed : call[p].verb = "delete" /\ f = call[p].file

(* Row f is in the hands of a delete, or of a call about to put its blob.  *)
HeldBy(p, f) ==
    /\ call[p].file = f
    /\ call[p].verb = "delete" \/ (at[p] = "storing" /\ call[p].key = files[f])

BlobStands ==
    \A f \in Files \ lapsed :
      Stored(f) => files[f] \in blobs \/ \E p \in Requests : HeldBy(p, f)

FileInv == FilesTypeOK /\ CallsFit /\ RemovedAreBare /\ BlobStands

-----------------------------------------------------------------------------
(* A request without a call holds no row and no key.                       *)
LEMMA NoCallFacts ==
    /\ NoCall \in Call /\ NoCall.verb = "none" /\ Fit("idle", NoCall)
    /\ "unused" \notin Keys /\ "gone" \notin Keys
  BY KeysAssumption DEF NoCall, Call, Pointer, AllVerbs, Fit, Steps

LEMMA FileInvInit == FilesInit => FileInv
  <1> SUFFICES ASSUME FilesInit PROVE FileInv
    OBVIOUS
  <1> USE NoCallFacts DEF FilesInit
  <1>1. FilesTypeOK
    BY DEF FilesTypeOK, Pointer, Steps
  <1>2. CallsFit /\ RemovedAreBare
    BY DEF CallsFit, RemovedAreBare
  <1>3. BlobStands
    BY DEF BlobStands, Stored
  <1> QED BY <1>1, <1>2, <1>3 DEF FileInv

(* A step of p leaves p at a step with a call, and the others where they   *)
(* are.                                                                    *)
Moves(p, step, c) ==
    /\ at' = [at EXCEPT ![p] = step]
    /\ call' = [call EXCEPT ![p] = c]

LEMMA MovesFit ==
    ASSUME FilesTypeOK, CallsFit, NEW p \in Requests, NEW step, NEW c, Moves(p, step, c),
           Fit(step, c),
           files' \in [Files -> Pointer], blobs' \subseteq Keys, lapsed' \subseteq Files
    PROVE  /\ FilesTypeOK' /\ CallsFit'
           /\ at'[p] = step /\ call'[p] = c
           /\ \A q \in Requests \ {p} : at'[q] = at[q] /\ call'[q] = call[q]
  <1>1. /\ at'[p] = step /\ call'[p] = c
        /\ \A q \in Requests \ {p} : at'[q] = at[q] /\ call'[q] = call[q]
    BY DEF Moves, FilesTypeOK
  <1>2. CallsFit'
    BY <1>1 DEF CallsFit
  <1>3. at' \in [Requests -> Steps] /\ call' \in [Requests -> Call]
    BY DEF Moves, FilesTypeOK, Fit
  <1>4. \A q \in Requests : Fit(at'[q], call'[q])
    BY <1>2 DEF CallsFit
  <1> QED BY <1>1, <1>2, <1>3, <1>4 DEF FilesTypeOK, Fit

(* A new call of p, and the next step or the end of one.                   *)
LEMMA StepMeaning ==
    ASSUME FilesTypeOK, CallsFit, NEW p \in Requests
    PROVE  /\ Fit(at[p], call[p]) /\ call[p] \in Call
           /\ \A step, c : Start(p, step, c) => Moves(p, step, c) /\ at[p] = "idle" /\ call[p] = NoCall
           /\ \A step : Goto(p, step) => Moves(p, step, call[p])
           /\ Return(p) => Moves(p, "idle", NoCall)
  BY DEF FilesTypeOK, CallsFit, Fit, Start, Goto, Return, Moves

(* The row of a delete that counts itself the last points alone at its     *)
(* key, and no row at the key a replace has left.                          *)
LEMMA LastFacts ==
    ASSUME FilesTypeOK, NEW p \in Requests, at[p] = "counting", Last(p),
           call[p].verb = "delete" => files[call[p].file] = call[p].old
    PROVE  \A f \in Rows(call[p].old) : call[p].verb = "delete" /\ f = call[p].file
  <1> DEFINE R == Rows(call[p].old)
  <1>1. IsFiniteSet(R) /\ Cardinality(R) \in Nat
    <2>1. R \in SUBSET Files
      BY DEF Rows
    <2> QED BY <2>1, FilesAssumption, FS_Subset, FS_CardinalityType
  <1>2. CASE call[p].verb = "delete"
    <2>1. Cardinality(R) =< 1 /\ call[p].file \in R
      BY <1>2 DEF Cardinality, Cardinality, Last, Rows, FilesTypeOK
    <2>2. R # {} /\ Cardinality(R) # 0
      BY <1>1, <2>1, FS_EmptySet
    <2>3. Cardinality(R) = 1
      BY <1>1, <2>1, <2>2
    <2>4. PICK x : R = {x}
      BY <1>1, <2>3, FS_Singleton
    <2> QED BY <1>2, <2>1, <2>4
  <1>3. CASE call[p].verb # "delete"
    <2>1. Cardinality(R) = 0
      BY <1>1, <1>3 DEF Last, Cardinality, Cardinality
    <2>2. R = {}
      BY <1>1, <2>1, FS_EmptySet
    <2> QED BY <2>2
  <1> QED BY <1>2, <1>3

-----------------------------------------------------------------------------
(* The steps, one by one.                                                  *)

(* A row pointed at a key whose blob p is about to put.                    *)
LEMMA PointStep ==
    ASSUME FileInv, NEW p \in Requests, NEW f \in Files, NEW k \in Keys, NEW c,
           Point(f, k), Moves(p, "storing", c), Fit("storing", c), c.file = f, c.key = k,
           call[p].verb # "delete", at[p] \in {"idle", "pointing"}, blobs' = blobs
    PROVE  FileInv'
  <1> USE DEF FileInv
  <1>1. files' = [files EXCEPT ![f] = k] /\ files' \in [Files -> Pointer] /\ lapsed' \subseteq Files
    BY DEF Point, FilesTypeOK, Pointer
  <1>2. /\ FilesTypeOK' /\ CallsFit' /\ at'[p] = "storing" /\ call'[p] = c
        /\ \A q \in Requests \ {p} : at'[q] = at[q] /\ call'[q] = call[q]
    <2>1. blobs' \subseteq Keys
      BY DEF FilesTypeOK
    <2> QED BY <1>1, <2>1, MovesFit
  <1>3. /\ \A g \in Files \ {f} : files'[g] = files[g] /\ (g \in lapsed' <=> g \in lapsed)
        /\ files'[f] = k
    BY <1>1 DEF Point, FilesTypeOK
  <1>4. \A q \in Requests : at[q] = "removing" /\ call[q].old = k => f \in lapsed'
    BY DEF Point, Removing
  <1>5. RemovedAreBare'
    <2> SUFFICES ASSUME NEW q \in Requests, at'[q] = "removing", NEW g \in Files \ lapsed',
                        files'[g] = call'[q].old
                 PROVE  call'[q].verb = "delete" /\ g = call'[q].file
      BY DEF RemovedAreBare, Rows
    <2>1. q # p /\ at[q] = "removing" /\ call'[q] = call[q]
      BY <1>2
    <2>2. g # f
      BY <1>3, <1>4, <2>1
    <2> QED BY <1>3, <2>1, <2>2 DEF RemovedAreBare, Rows
  <1>6. BlobStands'
    <2> SUFFICES ASSUME NEW g \in Files \ lapsed', files'[g] \in Keys, files'[g] \notin blobs
                 PROVE  \E q \in Requests : HeldBy(q, g)'
      BY DEF BlobStands, Stored
    <2>1. CASE g = f
      BY <1>2, <1>3, <2>1 DEF HeldBy
    <2>2. CASE g # f
      <3>1. PICK q \in Requests : HeldBy(q, g)
        BY <1>3, <2>2 DEF BlobStands, Stored
      <3>2. q # p
        BY <3>1 DEF HeldBy
      <3> QED BY <1>2, <1>3, <2>2, <3>1, <3>2 DEF HeldBy
    <2> QED BY <2>1, <2>2
  <1> QED BY <1>2, <1>5, <1>6

(* A step that writes no row and no blob, of a call that holds no row      *)
(* after a put.                                                            *)
LEMMA CallStep ==
    ASSUME FileInv, NEW p \in Requests, NEW step, NEW c, Moves(p, step, c), Fit(step, c),
           step # "removing", at[p] # "storing", call[p].verb = "delete" => c = call[p],
           UNCHANGED <<files, blobs, lapsed>>
    PROVE  FileInv'
  <1> USE DEF FileInv
  <1>1. /\ FilesTypeOK' /\ CallsFit' /\ at'[p] = step /\ call'[p] = c
        /\ \A q \in Requests \ {p} : at'[q] = at[q] /\ call'[q] = call[q]
    <2>1. files' \in [Files -> Pointer] /\ blobs' \subseteq Keys /\ lapsed' \subseteq Files
      BY DEF FilesTypeOK
    <2> QED BY <2>1, MovesFit
  <1>2. RemovedAreBare'
    BY <1>1 DEF RemovedAreBare, Rows
  <1>3. BlobStands'
    <2> SUFFICES ASSUME NEW g \in Files \ lapsed, files[g] \in Keys, files[g] \notin blobs
                 PROVE  \E q \in Requests : HeldBy(q, g)'
      BY DEF BlobStands, Stored
    <2>1. PICK q \in Requests : HeldBy(q, g)
      BY DEF BlobStands, Stored
    <2>2. HeldBy(q, g)'
      BY <1>1, <2>1 DEF HeldBy
    <2> QED BY <2>2
  <1> QED BY <1>1, <1>2, <1>3

(* A clone that commits points its row at a key that a row in nobody's     *)
(* hands stands on.                                                        *)
LEMMA CommitCloneStep ==
    ASSUME FileInv, NEW p \in Requests, CommitClone(p)
    PROVE  FileInv'
  <1> USE NoCallFacts DEF FileInv
  <1> DEFINE f == call[p].file
             k == call[p].key
  <1>1. Fit(at[p], call[p]) /\ Moves(p, "idle", NoCall) /\ f \in Files /\ k \in Keys
    BY StepMeaning DEF CommitClone, Fit
  <1>2. files' = [files EXCEPT ![f] = k] /\ blobs' = blobs
    BY DEF CommitClone
  <1>3. /\ files' \in [Files -> Pointer] /\ blobs' \subseteq Keys /\ lapsed' \subseteq Files
        /\ \A g \in Files \ {f} : g \in lapsed' <=> g \in lapsed
        /\ lapsed \subseteq lapsed'
    BY <1>1 DEF CommitClone, FilesTypeOK, Pointer
  <1>4. /\ FilesTypeOK' /\ CallsFit' /\ at'[p] = "idle" /\ call'[p] = NoCall
        /\ \A q \in Requests \ {p} : at'[q] = at[q] /\ call'[q] = call[q]
    BY <1>1, <1>3, MovesFit
  <1>5. f \notin lapsed' => Removing(k) = {} /\ Stands(p, call[p].source)
    BY DEF CommitClone
  <1>6. \A g \in Files \ {f} : files'[g] = files[g]
    BY <1>2 DEF FilesTypeOK
  <1>7. files'[f] = k
    BY <1>1, <1>2 DEF FilesTypeOK
  <1>8. RemovedAreBare'
    <2> SUFFICES ASSUME NEW q \in Requests, at'[q] = "removing", NEW g \in Files \ lapsed',
                        files'[g] = call'[q].old
                 PROVE  call'[q].verb = "delete" /\ g = call'[q].file
      BY DEF RemovedAreBare, Rows
    <2>1. q # p /\ at[q] = "removing" /\ call'[q] = call[q]
      BY <1>4
    <2>2. g # f
      BY <1>5, <1>7, <2>1 DEF Removing
    <2> QED BY <1>3, <1>6, <2>1, <2>2 DEF RemovedAreBare, Rows
  <1>9. f \notin lapsed' => k \in blobs
    <2> SUFFICES ASSUME f \notin lapsed' PROVE k \in blobs
      OBVIOUS
    <2>1. /\ files[call[p].source] = k /\ call[p].source \notin lapsed
          /\ \A q \in Requests : call[q].file # call[p].source
      BY <1>5 DEF Stands
    <2>2. call[p].source \in Files
      BY <1>1 DEF CommitClone, Fit
    <2> QED BY <1>1, <2>1, <2>2 DEF BlobStands, Stored, HeldBy
  <1>10. BlobStands'
    <2> SUFFICES ASSUME NEW g \in Files \ lapsed', files'[g] \in Keys, files'[g] \notin blobs
                 PROVE  \E q \in Requests : HeldBy(q, g)'
      BY <1>2 DEF BlobStands, Stored
    <2>1. g # f
      BY <1>7, <1>9
    <2>2. PICK q \in Requests : HeldBy(q, g)
      BY <1>3, <1>6, <2>1 DEF BlobStands, Stored
    <2>3. q # p
      BY <2>2 DEF HeldBy, CommitClone
    <2> QED BY <1>4, <1>6, <2>1, <2>2, <2>3 DEF HeldBy
  <1> QED BY <1>4, <1>8, <1>10

(* A put, after which every row of its key has its blob.                   *)
LEMMA StoreStep ==
    ASSUME FileInv, NEW p \in Requests, Store(p)
    PROVE  FileInv'
  <1> USE NoCallFacts DEF FileInv
  <1> DEFINE k == call[p].key
  <1>1. Fit(at[p], call[p]) /\ at[p] = "storing" /\ k \in Keys /\ call[p].verb \in {"upload", "replace"}
    BY StepMeaning DEF Store, Fit
  <1>2. PICK step \in {"idle", "counting"}, c \in Call : Moves(p, step, c) /\ Fit(step, c)
    <2>1. CASE call[p].verb = "replace" /\ call[p].old # call[p].key
      <3>1. Goto(p, "counting")
        BY <2>1 DEF Store
      <3>2. Moves(p, "counting", call[p]) /\ call[p] \in Call
        BY <3>1, StepMeaning
      <3>3. Fit("counting", call[p])
        BY <1>1, <2>1 DEF Fit, Steps
      <3> QED BY <3>2, <3>3
    <2>2. CASE ~(call[p].verb = "replace" /\ call[p].old # call[p].key)
      BY <2>2, StepMeaning DEF Store
    <2> QED BY <2>1, <2>2
  <1>3. /\ files' = files /\ blobs' = blobs \cup {k}
        /\ lapsed' = IF Removing(k) = {} THEN lapsed \ Rows(k) ELSE lapsed
    BY DEF Store
  <1>4. files' \in [Files -> Pointer] /\ blobs' \subseteq Keys /\ lapsed' \subseteq Files
    BY <1>1, <1>3 DEF FilesTypeOK
  <1>5. /\ FilesTypeOK' /\ CallsFit' /\ at'[p] = step /\ call'[p] = c
        /\ \A q \in Requests \ {p} : at'[q] = at[q] /\ call'[q] = call[q]
    BY <1>2, <1>4, MovesFit
  <1>6. RemovedAreBare'
    <2> SUFFICES ASSUME NEW q \in Requests, at'[q] = "removing", NEW g \in Files \ lapsed',
                        files'[g] = call'[q].old
                 PROVE  call'[q].verb = "delete" /\ g = call'[q].file
      BY DEF RemovedAreBare, Rows
    <2>1. q # p /\ at[q] = "removing" /\ call'[q] = call[q] /\ files[g] = call[q].old
      BY <1>3, <1>5
    <2>2. g \notin lapsed
      BY <1>3, <2>1 DEF Removing, Rows
    <2> QED BY <2>1, <2>2 DEF RemovedAreBare, Rows
  <1>7. BlobStands'
    <2> SUFFICES ASSUME NEW g \in Files \ lapsed', files[g] \in Keys, files[g] \notin blobs,
                        files[g] # k
                 PROVE  \E q \in Requests : HeldBy(q, g)'
      BY <1>3 DEF BlobStands, Stored
    <2>1. g \notin lapsed
      BY <1>3 DEF Rows
    <2>2. PICK q \in Requests : HeldBy(q, g)
      BY <2>1 DEF BlobStands, Stored
    <2>3. q # p
      BY <1>1, <2>2 DEF HeldBy
    <2> QED BY <1>3, <1>5, <2>2, <2>3 DEF HeldBy
  <1> QED BY <1>5, <1>6, <1>7

(* A failed put, which takes the row of an upload away and points that of  *)
(* a replace back.                                                         *)
LEMMA StoreFailsStep ==
    ASSUME FileInv, NEW p \in Requests, StoreFails(p)
    PROVE  FileInv'
  <1> USE NoCallFacts DEF FileInv
  <1> DEFINE f == call[p].file
  <1>1. Fit(at[p], call[p]) /\ f \in Files /\ call[p].verb \in {"upload", "replace"} /\ at[p] = "storing"
    BY StepMeaning DEF StoreFails, Fit
  <1>2. Moves(p, "idle", NoCall) /\ blobs' = blobs
    BY StepMeaning DEF StoreFails
  <1>3. /\ files' \in [Files -> Pointer] /\ lapsed' \subseteq Files /\ blobs' \subseteq Keys
        /\ \A g \in Files \ {f} : files'[g] = files[g] /\ (g \in lapsed' <=> g \in lapsed)
        /\ files'[f] = "gone" \/ f \in lapsed'
    BY <1>1 DEF StoreFails, PutBack, FilesTypeOK, Pointer, Fit
  <1>4. /\ FilesTypeOK' /\ CallsFit' /\ at'[p] = "idle" /\ call'[p] = NoCall
        /\ \A q \in Requests \ {p} : at'[q] = at[q] /\ call'[q] = call[q]
    BY <1>2, <1>3, MovesFit
  <1>5. RemovedAreBare'
    <2> SUFFICES ASSUME NEW q \in Requests, at'[q] = "removing", NEW g \in Files \ lapsed',
                        files'[g] = call'[q].old
                 PROVE  call'[q].verb = "delete" /\ g = call'[q].file
      BY DEF RemovedAreBare, Rows
    <2>1. q # p /\ at[q] = "removing" /\ call'[q] = call[q]
      BY <1>4
    <2>2. call[q].old \in Keys
      BY <2>1 DEF FilesTypeOK
    <2>3. g # f
      BY <1>3, <2>1, <2>2
    <2> QED BY <1>3, <2>1, <2>3 DEF RemovedAreBare, Rows
  <1>6. BlobStands'
    <2> SUFFICES ASSUME NEW g \in Files \ lapsed', files'[g] \in Keys, files'[g] \notin blobs
                 PROVE  \E q \in Requests : HeldBy(q, g)'
      BY <1>2 DEF BlobStands, Stored
    <2>1. g # f
      BY <1>3
    <2>2. PICK q \in Requests : HeldBy(q, g)
      BY <1>3, <2>1 DEF BlobStands, Stored
    <2>3. q # p
      BY <2>1, <2>2 DEF HeldBy
    <2> QED BY <1>3, <1>4, <2>1, <2>2, <2>3 DEF HeldBy
  <1> QED BY <1>4, <1>5, <1>6

(* After its count a delete drops its row, and a replace is done.          *)
LEMMA FinishFacts ==
    ASSUME FilesTypeOK, CallsFit, NEW p \in Requests, at[p] \in {"counting", "removing"},
           Finish(p)
    PROVE  \E step \in {"idle", "dropping"}, c \in Call :
             Moves(p, step, c) /\ Fit(step, c) /\ (call[p].verb = "delete" => c = call[p])
  <1>1. CASE call[p].verb = "delete"
    <2>1. Moves(p, "dropping", call[p])
      BY <1>1, StepMeaning DEF Finish
    <2>2. Fit("dropping", call[p])
      BY <1>1, StepMeaning DEF Fit, Steps
    <2> QED BY <2>1, <2>2, StepMeaning
  <1>2. CASE call[p].verb # "delete"
    <2>1. Moves(p, "idle", NoCall)
      BY <1>2, StepMeaning DEF Finish
    <2> QED BY <1>2, <2>1, NoCallFacts
  <1> QED BY <1>1, <1>2

(* A count that finds other rows ends the matter; one that finds none but  *)
(* its own goes on to remove the blob.                                     *)
LEMMA FileCountStep ==
    ASSUME FileInv, NEW p \in Requests, Count(p)
    PROVE  FileInv'
  <1> USE DEF FileInv
  <1>1. at[p] = "counting" /\ Fit(at[p], call[p]) /\ files' = files /\ blobs' = blobs
    BY StepMeaning DEF Count
  <1>2. CASE ~Last(p)
    <2>1. Finish(p) /\ lapsed' = lapsed
      BY <1>2 DEF Count
    <2>2. PICK step \in {"idle", "dropping"}, c \in Call :
             Moves(p, step, c) /\ Fit(step, c) /\ (call[p].verb = "delete" => c = call[p])
      BY <1>1, <2>1, FinishFacts
    <2> QED BY <1>1, <2>1, <2>2, CallStep
  <1>3. CASE Last(p)
    <2>1. /\ Moves(p, "removing", call[p]) /\ lapsed \subseteq lapsed' /\ lapsed' \subseteq Files
          /\ call[p].verb = "delete" /\ files[call[p].file] # call[p].old => Rows(call[p].old) \subseteq lapsed'
      BY <1>3, StepMeaning DEF Count, Rows, FilesTypeOK
    <2>2. Fit("removing", call[p])
      BY <1>1 DEF Fit, Steps
    <2>3. files' \in [Files -> Pointer] /\ blobs' \subseteq Keys
      BY <1>1 DEF FilesTypeOK
    <2>4. /\ FilesTypeOK' /\ CallsFit' /\ at'[p] = "removing" /\ call'[p] = call[p]
          /\ \A q \in Requests \ {p} : at'[q] = at[q] /\ call'[q] = call[q]
      BY <2>1, <2>2, <2>3, MovesFit
    <2>5. \A g \in Rows(call[p].old) \ lapsed' : call[p].verb = "delete" /\ g = call[p].file
      <3>1. CASE call[p].verb = "delete" /\ files[call[p].file] # call[p].old
        BY <2>1, <3>1
      <3>2. CASE call[p].verb = "delete" => files[call[p].file] = call[p].old
        BY <1>1, <1>3, <3>2, LastFacts
      <3> QED BY <3>1, <3>2
    <2>6. RemovedAreBare'
      BY <1>1, <2>1, <2>4, <2>5 DEF RemovedAreBare, Rows
    <2>7. BlobStands'
      <3> SUFFICES ASSUME NEW g \in Files \ lapsed, files[g] \in Keys, files[g] \notin blobs
                   PROVE  \E q \in Requests : HeldBy(q, g)'
        BY <1>1, <2>1 DEF BlobStands, Stored
      <3>1. PICK q \in Requests : HeldBy(q, g)
        BY DEF BlobStands, Stored
      <3>2. HeldBy(q, g)'
        BY <1>1, <2>4, <3>1 DEF HeldBy
      <3> QED BY <3>2
    <2> QED BY <2>4, <2>6, <2>7
  <1> QED BY <1>2, <1>3

(* A removal takes the blob from rows that have lapsed and from the one    *)
(* its call is about to drop.                                              *)
LEMMA RemoveStep ==
    ASSUME FileInv, NEW p \in Requests, Remove(p)
    PROVE  FileInv'
  <1> USE DEF FileInv
  <1>1. at[p] = "removing" /\ files' = files /\ lapsed' = lapsed /\ blobs' \in {blobs, blobs \ {call[p].old}}
    BY DEF Remove
  <1>2. PICK step \in {"idle", "dropping"}, c \in Call :
           Moves(p, step, c) /\ Fit(step, c) /\ (call[p].verb = "delete" => c = call[p])
    BY <1>1, FinishFacts DEF Remove
  <1>3. files' \in [Files -> Pointer] /\ blobs' \subseteq Keys /\ lapsed' \subseteq Files
    BY <1>1 DEF FilesTypeOK
  <1>4. /\ FilesTypeOK' /\ CallsFit' /\ at'[p] = step /\ call'[p] = c
        /\ \A q \in Requests \ {p} : at'[q] = at[q] /\ call'[q] = call[q]
    BY <1>2, <1>3, MovesFit
  <1>5. RemovedAreBare'
    BY <1>1, <1>4 DEF RemovedAreBare, Rows
  <1>6. BlobStands'
    <2> SUFFICES ASSUME NEW g \in Files \ lapsed, files[g] \in Keys, files[g] \notin blobs'
                 PROVE  \E q \in Requests : HeldBy(q, g)'
      BY <1>1 DEF BlobStands, Stored
    <2>1. CASE files[g] \in blobs
      <3>1. g \in Rows(call[p].old)
        BY <1>1, <2>1 DEF Rows
      <3>2. call[p].verb = "delete" /\ g = call[p].file
        BY <1>1, <3>1 DEF RemovedAreBare
      <3> QED BY <1>2, <1>4, <3>2 DEF HeldBy
    <2>2. CASE files[g] \notin blobs
      <3>1. PICK q \in Requests : HeldBy(q, g)
        BY <2>2 DEF BlobStands, Stored
      <3>2. HeldBy(q, g)'
        BY <1>1, <1>2, <1>4, <3>1 DEF HeldBy
      <3> QED BY <3>2
    <2> QED BY <2>1, <2>2
  <1> QED BY <1>4, <1>5, <1>6

(* A delete drops its row last.                                            *)
LEMMA DropStep ==
    ASSUME FileInv, NEW p \in Requests, Drop(p)
    PROVE  FileInv'
  <1> USE NoCallFacts DEF FileInv
  <1> DEFINE f == call[p].file
  <1>1. Fit(at[p], call[p]) /\ Moves(p, "idle", NoCall) /\ f \in Files
    BY StepMeaning DEF Drop, Fit
  <1>2. /\ files' \in [Files -> Pointer] /\ blobs' = blobs /\ lapsed' = lapsed
        /\ \A g \in Files \ {f} : files'[g] = files[g]
        /\ files'[f] = "gone"
    BY <1>1 DEF Drop, FilesTypeOK, Pointer
  <1>3. /\ FilesTypeOK' /\ CallsFit' /\ at'[p] = "idle" /\ call'[p] = NoCall
        /\ \A q \in Requests \ {p} : at'[q] = at[q] /\ call'[q] = call[q]
    <2>1. blobs' \subseteq Keys /\ lapsed' \subseteq Files
      BY <1>2 DEF FilesTypeOK
    <2> QED BY <1>1, <1>2, <2>1, MovesFit
  <1>4. RemovedAreBare'
    <2> SUFFICES ASSUME NEW q \in Requests, at'[q] = "removing", NEW g \in Files \ lapsed',
                        files'[g] = call'[q].old
                 PROVE  call'[q].verb = "delete" /\ g = call'[q].file
      BY DEF RemovedAreBare, Rows
    <2>1. q # p /\ at[q] = "removing" /\ call'[q] = call[q] /\ call[q].old \in Keys
      BY <1>3 DEF FilesTypeOK
    <2>2. g # f
      BY <1>2, <2>1
    <2> QED BY <1>2, <2>1, <2>2 DEF RemovedAreBare, Rows
  <1>5. BlobStands'
    <2> SUFFICES ASSUME NEW g \in Files \ lapsed, files'[g] \in Keys, files'[g] \notin blobs
                 PROVE  \E q \in Requests : HeldBy(q, g)'
      BY <1>2 DEF BlobStands, Stored
    <2>1. g # f
      BY <1>2
    <2>2. PICK q \in Requests : HeldBy(q, g)
      BY <1>2, <2>1 DEF BlobStands, Stored
    <2>3. q # p
      BY <2>1, <2>2 DEF HeldBy
    <2> QED BY <1>2, <1>3, <2>1, <2>2, <2>3 DEF HeldBy
  <1> QED BY <1>3, <1>4, <1>5

-----------------------------------------------------------------------------
(* FileInv is inductive.                                                   *)
LEMMA FileInvStep ==
    FileInv /\ [FilesNext]_filesVars => FileInv'
  <1> SUFFICES ASSUME FileInv, [FilesNext]_filesVars PROVE FileInv'
    OBVIOUS
  <1> USE NoCallFacts DEF FileInv
  <1>1. CASE UNCHANGED filesVars
    BY <1>1 DEF filesVars, FilesTypeOK, CallsFit, RemovedAreBare, BlobStands, Rows, Stored, HeldBy
  <1>2. ASSUME NEW p \in Requests, NEW f \in Files, NEW k \in Keys, Upload(p, f, k)
        PROVE  FileInv'
    <2> DEFINE c == [NoCall EXCEPT !.verb = "upload", !.file = f, !.key = k]
    <2>1. c.file = f /\ c.key = k /\ Fit("storing", c)
      BY DEF NoCall, Fit, Steps, Call, Pointer, AllVerbs
    <2> HIDE DEF c
    <2>2. Moves(p, "storing", c) /\ at[p] = "idle" /\ call[p] = NoCall /\ Point(f, k) /\ blobs' = blobs
      BY <1>2, StepMeaning DEF Upload, c
    <2> QED BY <2>1, <2>2, PointStep
  <1>3. ASSUME NEW p \in Requests, NEW f \in Files, NEW k \in Keys, Replace(p, f, k)
        PROVE  FileInv'
    <2> DEFINE c == [NoCall EXCEPT !.verb = "replace", !.file = f, !.key = k, !.old = files[f]]
    <2>1. Fit("pointing", c)
      BY <1>3 DEF Replace, Stored, NoCall, Fit, Steps, Call, Pointer, AllVerbs
    <2> HIDE DEF c
    <2>2. Moves(p, "pointing", c) /\ at[p] = "idle" /\ call[p] = NoCall /\ UNCHANGED <<files, blobs, lapsed>>
      BY <1>3, StepMeaning DEF Replace, c
    <2> QED BY <2>1, <2>2, CallStep
  <1>4. ASSUME NEW p \in Requests, NEW f \in Files, Delete(p, f)
        PROVE  FileInv'
    <2> DEFINE c == [NoCall EXCEPT !.verb = "delete", !.file = f, !.old = files[f]]
    <2>1. Fit("counting", c)
      BY <1>4 DEF Delete, Stored, NoCall, Fit, Steps, Call, Pointer, AllVerbs
    <2> HIDE DEF c
    <2>2. Moves(p, "counting", c) /\ at[p] = "idle" /\ call[p] = NoCall /\ UNCHANGED <<files, blobs, lapsed>>
      BY <1>4, StepMeaning DEF Delete, c
    <2> QED BY <2>1, <2>2, CallStep
  <1>5. ASSUME NEW p \in Requests, NEW f \in Files, NEW source \in Files, Clone(p, source, f)
        PROVE  FileInv'
    <2> DEFINE c == [NoCall EXCEPT !.verb = "clone", !.file = f, !.key = files[source], !.source = source]
    <2>1. Fit("pointing", c)
      BY <1>5 DEF Clone, Stored, NoCall, Fit, Steps, Call, Pointer, AllVerbs
    <2> HIDE DEF c
    <2>2. Moves(p, "pointing", c) /\ at[p] = "idle" /\ call[p] = NoCall /\ UNCHANGED <<files, blobs, lapsed>>
      BY <1>5, StepMeaning DEF Clone, c
    <2> QED BY <2>1, <2>2, CallStep
  <1>6. ASSUME NEW p \in Requests, Repoint(p)
        PROVE  FileInv'
    <2>1. /\ at[p] = "pointing" /\ call[p].verb = "replace" /\ blobs' = blobs
          /\ Fit(at[p], call[p]) /\ Moves(p, "storing", call[p])
      BY <1>6, StepMeaning DEF Repoint
    <2>2. Fit("storing", call[p]) /\ call[p].file \in Files /\ call[p].key \in Keys
      BY <2>1 DEF Fit, Steps
    <2>3. CASE Stored(call[p].file)
      <3>1. Point(call[p].file, call[p].key)
        BY <1>6, <2>3 DEF Repoint
      <3> QED BY <2>1, <2>2, <3>1, PointStep
    <2>4. CASE ~Stored(call[p].file)
      <3>1. UNCHANGED <<files, blobs, lapsed>>
        BY <1>6, <2>4 DEF Repoint
      <3> QED BY <2>1, <2>2, <3>1, CallStep
    <2> QED BY <2>3, <2>4
  <1>7. ASSUME NEW p \in Requests, AbortClone(p)
        PROVE  FileInv'
    <2>1. /\ at[p] = "pointing" /\ call[p].verb = "clone" /\ Moves(p, "idle", NoCall)
          /\ UNCHANGED <<files, blobs, lapsed>>
      BY <1>7, StepMeaning DEF AbortClone
    <2> QED BY <2>1, CallStep
  <1> QED
    BY <1>1, <1>2, <1>3, <1>4, <1>5, <1>6, <1>7,
       CommitCloneStep, StoreStep, StoreFailsStep, FileCountStep, RemoveStep, DropStep
    DEF FilesNext, Step

(* The File rows, the blobs and the calls keep their types; a call that is *)
(* to count or remove a blob has loaded its key.                           *)
THEOREM FilesTypeCorrect == FilesSpec => []FilesTypeOK
  <1>1. FileInv => FilesTypeOK
    BY DEF FileInv
  <1> QED BY FileInvInit, FileInvStep, <1>1, PTL DEF FilesSpec

(* No blob of a row at rest is missing but for the four cases: every other *)
(* interleaving of uploads, replaces, deletes and clones, with puts and    *)
(* removals that fail, leaves each row its blob.                           *)
THEOREM LossesAreExplained == FilesSpec => []MissingIsExplained
  <1>1. FileInv => MissingIsExplained
    BY DEF FileInv, BlobStands, MissingIsExplained, Missing, Busy, HeldBy
  <1> QED BY FileInvInit, FileInvStep, <1>1, PTL DEF FilesSpec

-----------------------------------------------------------------------------
(* Calls that do not overlap: what the one call p has read of the rows and *)
(* the blobs is still so.                                                  *)
AloneFits(p) ==
    LET f == call[p].file
    IN  /\ at[p] = "pointing" /\ call[p].verb = "clone" => call[p].key \in blobs
        /\ at[p] \in {"pointing", "storing"} /\ call[p].verb = "replace" => call[p].old \in blobs
        /\ at[p] = "storing" => Stored(f) /\ files[f] = call[p].key
        /\ at[p] = "pointing" /\ call[p].verb = "replace" => Stored(f)
        /\ at[p] = "counting" /\ call[p].verb = "delete" => files[f] = call[p].old
        /\ at[p] = "removing" =>
             \A g \in Rows(call[p].old) : call[p].verb = "delete" /\ g = f
        /\ \A g \in Files : Stored(g) =>
             files[g] \in blobs \/ (at[p] \in {"storing", "dropping"} /\ g = f)

(* No step of a call that runs alone finds the rows or the blobs other     *)
(* than it read them.                                                      *)
LEMMA AloneStep ==
    ASSUME NEW p, Requests = {p}, FileInv, AloneFits(p), [FilesNext]_filesVars
    PROVE  AloneFits(p)'
  <1> USE NoCallFacts DEF FileInv
  <1>0. Fit(at[p], call[p]) /\ p \in Requests
    BY StepMeaning
  <1>1. CASE UNCHANGED filesVars
    BY <1>1 DEF filesVars, AloneFits, Rows, Stored
  <1>2. ASSUME NEW f \in Files, NEW k \in Keys, Upload(p, f, k)
        PROVE  AloneFits(p)'
    BY <1>0, <1>2 DEF Upload, Start, Point, AloneFits, Stored, FilesTypeOK, NoCall
  <1>3. ASSUME NEW f \in Files, NEW k \in Keys, Replace(p, f, k)
        PROVE  AloneFits(p)'
    BY <1>0, <1>3 DEF Replace, Start, AloneFits, Stored, FilesTypeOK, NoCall
  <1>4. ASSUME NEW f \in Files, Delete(p, f)
        PROVE  AloneFits(p)'
    BY <1>0, <1>4 DEF Delete, Start, AloneFits, Stored, FilesTypeOK, NoCall
  <1>5. ASSUME NEW f \in Files, NEW source \in Files, Clone(p, source, f)
        PROVE  AloneFits(p)'
    BY <1>0, <1>5 DEF Clone, Start, AloneFits, Stored, FilesTypeOK, NoCall
  <1>6. CASE Repoint(p)
    BY <1>0, <1>6 DEF Repoint, Goto, Point, AloneFits, Fit, Stored, FilesTypeOK
  <1>7. CASE CommitClone(p) \/ AbortClone(p)
    BY <1>0, <1>7 DEF CommitClone, AbortClone, Return, AloneFits, Fit, Stored, FilesTypeOK
  <1>8. CASE Store(p)
    BY <1>0, <1>8 DEF Store, Goto, Return, AloneFits, Fit, Stored, FilesTypeOK
  <1>9. CASE StoreFails(p)
    BY <1>0, <1>9 DEF StoreFails, PutBack, Return, AloneFits, Fit, Stored, FilesTypeOK
  <1>10. CASE Count(p)
    <2>1. CASE Last(p)
      <3>1. \A f \in Rows(call[p].old) : call[p].verb = "delete" /\ f = call[p].file
        BY <1>0, <1>10, <2>1, LastFacts DEF Count, AloneFits
      <3> QED BY <1>0, <1>10, <2>1, <3>1
              DEF Count, Goto, AloneFits, Fit, Rows, Stored, FilesTypeOK
    <2>2. CASE ~Last(p)
      BY <1>0, <1>10, <2>2
      DEF Count, Finish, Goto, Return, AloneFits, Fit, Stored, FilesTypeOK
    <2> QED BY <2>1, <2>2
  <1>11. CASE Remove(p)
    BY <1>0, <1>11
    DEF Remove, Finish, Goto, Return, AloneFits, Fit, Rows, Stored, FilesTypeOK
  <1>12. CASE Drop(p)
    BY <1>0, <1>12 DEF Drop, Return, AloneFits, Fit, Stored, FilesTypeOK
  <1> QED
    BY <1>1, <1>2, <1>3, <1>4, <1>5, <1>6, <1>7, <1>8, <1>9, <1>10, <1>11, <1>12
    DEF FilesNext, Step

(* Calls that do not overlap lose nothing, failed puts and failed removals *)
(* included: each of the four cases takes two calls at once.               *)
THEOREM CallsAloneLoseNone ==
    ASSUME NEW p, Requests = {p}
    PROVE  FilesSpec => []NoMissingBlob
  <1>1. FilesInit => FileInv /\ AloneFits(p)
    BY FileInvInit, NoCallFacts DEF FilesInit, AloneFits, Stored
  <1>2. FileInv /\ AloneFits(p) /\ [FilesNext]_filesVars => FileInv' /\ AloneFits(p)'
    BY FileInvStep, AloneStep
  <1>3. FileInv /\ AloneFits(p) => NoMissingBlob
    BY DEF AloneFits, NoMissingBlob, Missing, Busy
  <1> QED BY <1>1, <1>2, <1>3, PTL DEF FilesSpec

=============================================================================
