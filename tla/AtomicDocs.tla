----------------------------- MODULE AtomicDocs -----------------------------
(***************************************************************************)
(* What DocumentService promises of submittable documents: each verb takes *)
(* effect at one instant, judged on the documents as they are at that      *)
(* instant.  No snapshots, no pre-checks, no guards.  A submit or a cancel *)
(* may be followed, in the same instant, by one verb of its hooks, judged  *)
(* on the documents the outer verb has left.  DocLifecycle is shown to     *)
(* implement it for entities whose Link is not in the post-submit band.    *)
(*                                                                         *)
(* Deletes are where the promise is weak, and stated as weak as the code   *)
(* keeps it: a delete removes a document whatever it has become since it   *)
(* was asked for, and a Link resolves when its target existed once, for it *)
(* may go while the Link is being written.                                 *)
(***************************************************************************)
EXTENDS Naturals

CONSTANTS Docs, None

VARIABLES
    docs,     \* docs[d]: docstatus, Link and amended_from
    effects   \* effects[d]: on_submit and on_cancel effects of d

vars == <<docs, effects>>

NoRow == [st |-> "fresh", link |-> None, amendedFrom |-> None]

(* What a verb asks of the documents ds, and what it leaves of them.       *)
Existed(ds, d) == ds[d].st # "fresh"
LinkResolves(ds, l) == l = None \/ (l \in Docs /\ Existed(ds, l))

CanCreate(ds, d, l) == ds[d].st = "fresh" /\ LinkResolves(ds, l)
Created(ds, d, l, from) == [ds EXCEPT ![d] = [st |-> "draft", link |-> l, amendedFrom |-> from]]

(* A document is submitted once, and never onto a cancelled target.        *)
CanSubmit(ds, d) ==
    /\ ds[d].st = "draft"
    /\ ds[d].link # None => ds[ds[d].link].st # "cancelled"
Submitted(ds, d) == [ds EXCEPT ![d].st = "submitted"]
Posted(fx, d) == [fx EXCEPT ![d].posted = @ + 1]

(* A document is cancelled once, and never under a submitted downstream.   *)
CanCancel(ds, d) ==
    /\ ds[d].st = "submitted"
    /\ \A a \in Docs : ~(ds[a].st = "submitted" /\ ds[a].link = d)
Cancelled(ds, d) == [ds EXCEPT ![d].st = "cancelled"]
Reversed(fx, d) == [fx EXCEPT ![d].reversed = @ + 1]

Init ==
    /\ docs = [d \in Docs |-> NoRow]
    /\ effects = [d \in Docs |-> [posted |-> 0, reversed |-> 0]]

Insert(d, l) ==
    /\ CanCreate(docs, d, l)
    /\ docs' = Created(docs, d, l, None)
    /\ UNCHANGED effects

(* The original was cancelled, and may have gone since.                    *)
Amend(d, new) ==
    /\ docs[d].st \in {"cancelled", "deleted"}
    /\ CanCreate(docs, new, docs[d].link)
    /\ docs' = Created(docs, new, docs[d].link, d)
    /\ UNCHANGED effects

Update(d, l) ==
    /\ docs[d].st = "draft"
    /\ LinkResolves(docs, l)
    /\ docs' = [docs EXCEPT ![d].link = l]
    /\ UNCHANGED effects

Delete(d) ==
    /\ Existed(docs, d)
    /\ docs' = [docs EXCEPT ![d].st = "deleted"]
    /\ UNCHANGED effects

(* The hooks of a verb that has left ds and fx: they create a draft,       *)
(* create and submit a document, cancel one, or do nothing.                *)
HookCreates(ds, fx, e, l) ==
    /\ CanCreate(ds, e, l)
    /\ docs' = Created(ds, e, l, None)
    /\ effects' = fx

HookSpawns(ds, fx, e, l) ==
    /\ CanCreate(ds, e, l)
    /\ CanSubmit(Created(ds, e, l, None), e)
    /\ docs' = Submitted(Created(ds, e, l, None), e)
    /\ effects' = Posted(fx, e)

HookCancels(ds, fx, e) ==
    /\ CanCancel(ds, e)
    /\ docs' = Cancelled(ds, e)
    /\ effects' = Reversed(fx, e)

Hooks(ds, fx) ==
    \/ docs' = ds /\ effects' = fx
    \/ \E e \in Docs :
         \/ \E l \in Docs \cup {None} : HookCreates(ds, fx, e, l) \/ HookSpawns(ds, fx, e, l)
         \/ HookCancels(ds, fx, e)

Submit(d) == CanSubmit(docs, d) /\ Hooks(Submitted(docs, d), Posted(effects, d))

Cancel(d) == CanCancel(docs, d) /\ Hooks(Cancelled(docs, d), Reversed(effects, d))

Next ==
    \E d \in Docs :
      \/ \E l \in Docs \cup {None} : Insert(d, l) \/ Update(d, l)
      \/ \E new \in Docs : Amend(d, new)
      \/ Submit(d) \/ Cancel(d) \/ Delete(d)

Spec == Init /\ [][Next]_vars
=============================================================================
