------------------------------- MODULE FileStore -------------------------------
(***************************************************************************)
(* Uploaded files: File rows that point at blobs of the object store.  A   *)
(* blob's key is the hash of its content, so rows of one content share one *)
(* blob, which goes with the last of them, by count.  The rows and the     *)
(* blobs are two stores with no transaction over both.                     *)
(*                                                                         *)
(* Calls: upload and replace of a file, its delete (by the route, or by    *)
(* the cleanup after a document's commit), and the clone a copy or an      *)
(* amendment makes of a row.  Thumbnails, width variants and crashes are   *)
(* left out.                                                               *)
(***************************************************************************)
EXTENDS Naturals, FiniteSets

CONSTANTS
    Requests,       \* requests being served
    Files,          \* ids of File rows, each handed out once
    Keys,           \* content-addressed keys
    Verbs,          \* the calls of a run, of AllVerbs
    PutFails        \* TRUE iff a put may fail

AllVerbs == {"upload", "replace", "delete", "clone"}

ASSUME VerbsAssumption == Verbs \subseteq AllVerbs
ASSUME FailsAssumption == PutFails \in BOOLEAN
ASSUME KeysAssumption == Keys \cap {"unused", "gone"} = {}
ASSUME FilesAssumption == IsFiniteSet(Files)

VARIABLES
    files,    \* files[f]: the key the row points at, or "unused", "gone"
    blobs,    \* the keys the object store holds
    at,       \* at[p]: the step p's call takes next
    call,     \* call[p]: its verb, row, new key, and the row and key it read
    lapsed    \* the rows whose pointer no put or count stands behind

filesVars == <<files, blobs, at, call, lapsed>>

Pointer == Keys \cup {"unused", "gone"}
Steps == {"idle", "pointing", "storing", "counting", "removing", "dropping"}
Call == [verb : AllVerbs \cup {"none"}, file : Files \cup {"none"}, key : Pointer,
         source : Files \cup {"none"}, old : Pointer]
NoCall == [verb |-> "none", file |-> "none", key |-> "unused", source |-> "none", old |-> "unused"]

Rows(k) == {f \in Files : files[f] = k}
Stored(f) == files[f] \in Keys

(* The rows a call in progress works on.                                   *)
Busy(f) == \E p \in Requests : f \in {call[p].file, call[p].source}

(* Calls that will remove the blob of k, whatever is stored until then.    *)
Removing(k) == {p \in Requests : at[p] = "removing" /\ call[p].old = k}

-----------------------------------------------------------------------------
(* A row's pointer, written with a put to follow: only a removal already   *)
(* past its count may undo that put.                                       *)
Point(f, k) ==
    /\ files' = [files EXCEPT ![f] = k]
    /\ lapsed' = IF Removing(k) = {} THEN lapsed \ {f} ELSE lapsed \cup {f}

Start(p, step, c) ==
    /\ at[p] = "idle"
    /\ at' = [at EXCEPT ![p] = step]
    /\ call' = [call EXCEPT ![p] = c]

Goto(p, step) ==
    /\ at' = [at EXCEPT ![p] = step]
    /\ UNCHANGED call

Return(p) ==
    /\ at' = [at EXCEPT ![p] = "idle"]
    /\ call' = [call EXCEPT ![p] = NoCall]

(* The row first, so a count from now on finds it; the blob after.         *)
Upload(p, f, k) ==
    /\ "upload" \in Verbs
    /\ files[f] = "unused" /\ ~Busy(f)
    /\ Start(p, "storing", [NoCall EXCEPT !.verb = "upload", !.file = f, !.key = k])
    /\ Point(f, k)
    /\ UNCHANGED blobs

(* replace and delete load the row; a clone reads it in its transaction.   *)
Replace(p, f, k) ==
    /\ "replace" \in Verbs
    /\ Stored(f)
    /\ Start(p, "pointing", [NoCall EXCEPT !.verb = "replace", !.file = f, !.key = k, !.old = files[f]])
    /\ UNCHANGED <<files, blobs, lapsed>>

Delete(p, f) ==
    /\ "delete" \in Verbs
    /\ Stored(f)
    /\ Start(p, "counting", [NoCall EXCEPT !.verb = "delete", !.file = f, !.old = files[f]])
    /\ UNCHANGED <<files, blobs, lapsed>>

Clone(p, source, f) ==
    /\ "clone" \in Verbs
    /\ Stored(source)
    /\ files[f] = "unused" /\ ~Busy(f)
    /\ Start(p, "pointing", [NoCall EXCEPT !.verb = "clone", !.file = f, !.key = files[source], !.source = source])
    /\ UNCHANGED <<files, blobs, lapsed>>

(* replace: the row is pointed at the new key; a row that is gone stays so.*)
Repoint(p) ==
    /\ at[p] = "pointing" /\ call[p].verb = "replace"
    /\ IF Stored(call[p].file)
         THEN Point(call[p].file, call[p].key)
         ELSE UNCHANGED <<files, lapsed>>
    /\ Goto(p, "storing")
    /\ UNCHANGED blobs

(* A row that still points where call p read it, with no call at work on   *)
(* it.                                                                     *)
Stands(p, f) ==
    /\ files[f] = call[p].key /\ f \notin lapsed
    /\ \A q \in Requests : call[q].file # f

(* clone: the transaction commits its row, and there is no put: the row is *)
(* as good as the one it was read from.                                    *)
CommitClone(p) ==
    /\ at[p] = "pointing" /\ call[p].verb = "clone"
    /\ files' = [files EXCEPT ![call[p].file] = call[p].key]
    /\ lapsed' = IF Removing(call[p].key) = {} /\ Stands(p, call[p].source)
                   THEN lapsed ELSE lapsed \cup {call[p].file}
    /\ Return(p)
    /\ UNCHANGED blobs

(* clone: the insert around it is refused, and the row never was.          *)
AbortClone(p) ==
    /\ at[p] = "pointing" /\ call[p].verb = "clone"
    /\ Return(p)
    /\ UNCHANGED <<files, blobs, lapsed>>

(* Mutant of Store: the old key is counted whether or not there is one.    *)
StoreThenCount(p) ==
    /\ at[p] = "storing"
    /\ blobs' = blobs \cup {call[p].key}
    /\ Goto(p, "counting")
    /\ UNCHANGED <<files, lapsed>>

(* The put, whether or not the key is stored already; with no removal past *)
(* its count, every row of the key has its blob again.                     *)
Store(p) ==
    /\ at[p] = "storing"
    /\ blobs' = blobs \cup {call[p].key}
    /\ lapsed' = IF Removing(call[p].key) = {} THEN lapsed \ Rows(call[p].key) ELSE lapsed
    /\ IF call[p].verb = "replace" /\ call[p].old # call[p].key
         THEN Goto(p, "counting")
         ELSE Return(p)
    /\ UNCHANGED files

(* A failed put: an upload's row is deleted, a replaced one is pointed     *)
(* back at the key that was loaded, on the word that its blob is there.    *)
(* (That this write may fail in its turn, unseen, is left out.)            *)
PutBack(p) ==
    LET f == call[p].file IN
    IF call[p].verb = "upload"
      THEN /\ files' = [files EXCEPT ![f] = "gone"]
           /\ UNCHANGED lapsed
      ELSE /\ files' = [files EXCEPT ![f] = IF Stored(f) THEN call[p].old ELSE @]
           /\ lapsed' = lapsed \cup {f}

StoreFails(p) ==
    /\ PutFails /\ at[p] = "storing"
    /\ PutBack(p)
    /\ Return(p)
    /\ UNCHANGED blobs

(* Mutant of Last: a row more than the deleted one passes for none.        *)
LastButOne(p) == Cardinality(Rows(call[p].old)) =< IF call[p].verb = "delete" THEN 2 ELSE 0

(* deleteFileRefCounted counts the row it is about to delete; a replaced   *)
(* row no longer counts.                                                   *)
Last(p) == Cardinality(Rows(call[p].old)) =< IF call[p].verb = "delete" THEN 1 ELSE 0

(* After the blob, or without it: a delete has its row to drop.            *)
Finish(p) == IF call[p].verb = "delete" THEN Goto(p, "dropping") ELSE Return(p)

(* The row a delete counts for its own may be gone, and another one it.    *)
Count(p) ==
    /\ at[p] = "counting"
    /\ IF Last(p)
         THEN /\ Goto(p, "removing")
              /\ lapsed' = IF call[p].verb = "delete" /\ files[call[p].file] # call[p].old
                             THEN lapsed \cup Rows(call[p].old) ELSE lapsed
         ELSE /\ Finish(p)
              /\ UNCHANGED lapsed
    /\ UNCHANGED <<files, blobs>>

(* A delete of the blob that fails is logged; the blob stays as an orphan. *)
Remove(p) ==
    /\ at[p] = "removing"
    /\ blobs' \in {blobs, blobs \ {call[p].old}}
    /\ Finish(p)
    /\ UNCHANGED <<files, lapsed>>

Drop(p) ==
    /\ at[p] = "dropping"
    /\ files' = [files EXCEPT ![call[p].file] = "gone"]
    /\ Return(p)
    /\ UNCHANGED <<blobs, lapsed>>

-----------------------------------------------------------------------------
FilesInit ==
    /\ files \in [Files -> Keys \cup {"unused"}]
    /\ blobs = {files[f] : f \in Files} \ {"unused"}
    /\ at = [p \in Requests |-> "idle"]
    /\ call = [p \in Requests |-> NoCall]
    /\ lapsed = {}

Step(p) ==
    \/ \E f \in Files, k \in Keys : Upload(p, f, k) \/ Replace(p, f, k)
    \/ \E f, source \in Files : Clone(p, source, f)
    \/ \E f \in Files : Delete(p, f)
    \/ Repoint(p) \/ CommitClone(p) \/ AbortClone(p)
    \/ Store(p) \/ StoreFails(p) \/ Count(p) \/ Remove(p) \/ Drop(p)

FilesNext == \E p \in Requests : Step(p)

FilesSpec == FilesInit /\ [][FilesNext]_filesVars

-----------------------------------------------------------------------------
(* Every variable has its type; a call in progress has a row, and one that *)
(* is to count or remove a blob has loaded its key.                        *)
FilesTypeOK ==
    /\ files \in [Files -> Pointer]
    /\ blobs \subseteq Keys
    /\ at \in [Requests -> Steps]
    /\ call \in [Requests -> Call]
    /\ lapsed \subseteq Files
    /\ \A p \in Requests : IF at[p] = "idle" THEN call[p] = NoCall ELSE call[p].file \in Files
    /\ \A p \in Requests : at[p] \in {"counting", "removing"} => call[p].old \in Keys

(* The row of a call in progress is in that call's hands.                  *)
Missing(f) == Stored(f) /\ ~Busy(f) /\ files[f] \notin blobs

(* The blob of a row at rest is missing in four cases only: the row was    *)
(* written while another call stood between its count and its removal; a   *)
(* failed replace pointed it back; a delete counted it for its own row,    *)
(* which another delete had dropped; it was cloned from such a row, or     *)
(* from one another call was at work on.  A put no removal can follow ends *)
(* the case.                                                               *)
(* Counting after the row is written, and the put after that, leave no     *)
(* other (the H6 order of upload and replace).                             *)
MissingIsExplained == \A f \in Files : Missing(f) => f \in lapsed

(* A blob two rows share is removed with the last of them only: no row at  *)
(* rest points at a missing blob.                                          *)
NoMissingBlob == \A f \in Files : ~Missing(f)

=============================================================================
