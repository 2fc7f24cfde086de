------------------------ MODULE CollectionLifecycle ------------------------
(***************************************************************************)
(* What the CollectionPipeline controller promises a reader of the status, *)
(* with no caches, conflicts or retries: the phase and the bound run of a  *)
(* pipeline move through one collection at a time, never backwards, and    *)
(* tell the truth about the run.                                           *)
(***************************************************************************)
EXTENDS Integers

CONSTANTS Pipeline, NoPipeline, Parent, Run, NoRun

VARIABLES
    status,   \* the phase and the bound run a pipeline reports
    outcome,  \* "none" before a run exists, "open" until it is over
    owner     \* the pipeline a run was created for

vars == <<status, outcome, owner>>

Rank(phase) == IF phase = "Pending" THEN 1
               ELSE IF phase = "Collecting" THEN 2
               ELSE IF phase \in {"Complete", "Failed"} THEN 3 ELSE 0

Truthful(phase, r) == /\ phase = "Complete" => outcome[r] = "succeeded"
                      /\ phase = "Failed" => outcome[r] = "failed"

Init ==
    /\ status = [p \in Pipeline |-> [phase |-> "", ref |-> NoRun]]
    /\ outcome = [r \in Run |-> "none"]
    /\ owner = [r \in Run |-> NoPipeline]

\* A run is created, for a child only once its parent has collected something.
Create(p, r) ==
    /\ outcome[r] = "none"
    /\ Parent[p] # NoPipeline =>
           \E s \in Run : owner[s] = Parent[p] /\ outcome[s] = "succeeded"
    /\ outcome' = [outcome EXCEPT ![r] = "open"]
    /\ owner' = [owner EXCEPT ![r] = p]
    /\ UNCHANGED status

Conclude(r) ==
    /\ outcome[r] = "open"
    /\ \E o \in {"succeeded", "failed"} : outcome' = [outcome EXCEPT ![r] = o]
    /\ UNCHANGED <<status, owner>>

Report(p, phase, r) ==
    /\ status' = [status EXCEPT ![p] = [phase |-> phase, ref |-> r]]
    /\ UNCHANGED <<outcome, owner>>

\* A pipeline takes up one of its own runs, only while it has none.
Bind(p, r) == status[p].ref = NoRun /\ owner[r] = p /\ Report(p, "Pending", r)

Advance(p) ==
    /\ status[p].ref # NoRun
    /\ \E phase \in {"Pending", "Collecting", "Complete", "Failed"} :
           /\ Rank(phase) > Rank(status[p].phase) /\ Truthful(phase, status[p].ref)
           /\ Report(p, phase, status[p].ref)

\* The run has disappeared.
Lose(p) == status[p].ref # NoRun /\ Report(p, "Stale", NoRun)

\* A trigger makes room for a new collection, never during one.
Reset(p) ==
    /\ status[p].ref # NoRun /\ status[p].phase \in {"Complete", "Failed"}
    /\ Report(p, "", NoRun)

\* A child whose parent does not exist.
Reject(p) ==
    /\ Parent[p] # NoPipeline /\ status[p].ref = NoRun
    /\ Report(p, "Failed", NoRun)

Next ==
    \/ \E p \in Pipeline : \/ \E r \in Run : Create(p, r) \/ Bind(p, r)
                           \/ Advance(p) \/ Lose(p) \/ Reset(p) \/ Reject(p)
    \/ \E r \in Run : Conclude(r)

Spec == Init /\ [][Next]_vars

=============================================================================
