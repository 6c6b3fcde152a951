--------------------------- MODULE MCSubmissions ---------------------------
(* A small workflow for Submissions: three states after the submit, one     *)
(* after the cancel.  The clerk only takes a paid one back.                 *)
EXTENDS Submissions, TLC

MCStateDef ==
    [s \in States |->
       CASE s = "open"   -> [docStatus |-> 0, initial |-> TRUE,  terminal |-> FALSE, default |-> FALSE]
         [] s = "booked" -> [docStatus |-> 1, initial |-> FALSE, terminal |-> FALSE, default |-> FALSE]
         [] s = "sent"   -> [docStatus |-> 1, initial |-> FALSE, terminal |-> TRUE,  default |-> FALSE]
         [] s = "paid"   -> [docStatus |-> 1, initial |-> FALSE, terminal |-> TRUE,  default |-> FALSE]
         [] s = "void"   -> [docStatus |-> 2, initial |-> FALSE, terminal |-> TRUE,  default |-> FALSE]]

MCTransitions ==
    {[from |-> "*",      to |-> "booked", allowed |-> {"boss"}],
     [from |-> "booked", to |-> "open",   allowed |-> {"boss"}],
     [from |-> "booked", to |-> "sent",   allowed |-> {"boss"}],
     [from |-> "booked", to |-> "paid",   allowed |-> {"boss"}],
     [from |-> "booked", to |-> "void",   allowed |-> {"boss"}],
     [from |-> "paid",   to |-> "booked", allowed |-> {"clerk"}]}

MCStates == {"open", "booked", "sent", "paid", "void"}

Symmetry == Permutations(Procs)
=============================================================================
