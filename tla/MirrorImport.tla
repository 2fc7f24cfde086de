---------------------------- MODULE MirrorImport ----------------------------
(***************************************************************************)
(* The MirrorImport controller (internal/controller/                       *)
(* mirrorimport_controller.go), its PipelineRuns, and the platform's       *)
(* importHistory, which it shares with the DisconnectedPlatform            *)
(* controller: the import controller appends to it, the platform           *)
(* controller replaces it by what the existing imports say, and the import *)
(* controller decides from it whether a version was imported before.       *)
(*                                                                         *)
(* All reads go through informer caches that may lag (seen, runSeen,       *)
(* platSeen), and a write based on an old copy is refused.  A handler with *)
(* one write is one action: whatever changes between its read and its      *)
(* write has the outcome of a cache that lagged, a refused write and a     *)
(* retry.  The two handlers with two writes (a new run and its record, the *)
(* final phase and the platform's history) are two actions each.           *)
(***************************************************************************)
EXTENDS Integers, FiniteSets

CONSTANTS
    Import,             \* names of the MirrorImport resources
    NoImport,           \* no import
    Version,            \* the versions that specs name
    NoVersion,          \* an empty spec.collectionVersion
    CollectionVersion,  \* spec.collectionVersion of every import
    Deletable,          \* imports the user may delete
    MaxRuns,            \* bound: PipelineRun names the API server hands out
    MaxFaults,          \* bound: API errors between two writes, and restarts
    MaxPrunes,          \* bound: PipelineRuns removed by somebody else
    MaxEdits            \* bound: edits of imports and platform by others

ASSUME ImportConstants ==
    /\ NoImport \notin Import /\ NoVersion \notin Version
    /\ CollectionVersion \in [Import -> Version \cup {NoVersion}]
    /\ Deletable \subseteq Import
    /\ MaxRuns \in Nat /\ MaxFaults \in Nat /\ MaxPrunes \in Nat /\ MaxEdits \in Nat

VARIABLES
    api,          \* the MirrorImport objects on the API server
    seen,         \* the informer cache's copies of them
    lag,          \* imports whose cached copy is not the current one
    runs,         \* the PipelineRuns on the API server
    runSeen,      \* the informer cache's copies of them
    nextRun,      \* the next generated PipelineRun name
    hasPlatform,  \* TRUE when a DisconnectedPlatform exists
    history,      \* the versions in the platform's importHistory
    platSeen,     \* the cached copy of it
    platLag,      \* TRUE while the cached platform is not the current one
    queue,        \* the controller's workqueue
    pc,           \* the write that the running handler has left, or "idle"
    key,          \* its import
    mine,         \* the PipelineRun it has created
    used          \* what the environment has spent of its bounds

runVars == <<runs, runSeen, nextRun>>
platVars == <<hasPlatform, history, platSeen, platLag>>
workerVars == <<pc, key, mine>>
vars == <<api, seen, lag, runVars, platVars, queue, workerVars, used>>

-----------------------------------------------------------------------------
(* Objects *)

Run == 1..MaxRuns
NoRun == 0
Phases == {"", "Importing", "Publishing", "Complete", "Failed"}
Object == [life : {"absent", "live", "deleting", "gone"}, fin : BOOLEAN,
           phase : Phases, ref : Run \cup {NoRun}]
NoObject == [life |-> "absent", fin |-> FALSE, phase |-> "", ref |-> NoRun]

\* An import's PipelineRun; "open" covers Tekton's pending and running.
RunObject == [state : {"none", "open", "succeeded", "failed"}, deleted : BOOLEAN,
              owner : Import \cup {NoImport}]
NoRunObject == [state |-> "none", deleted |-> FALSE, owner |-> NoImport]

Exists(o) == o.life \in {"live", "deleting"}
RunExists(r) == r.state # "none" /\ ~r.deleted
Active(r) == RunExists(r) /\ r.state = "open"

\* Mutant: completion alone taken for success.
PhaseIgnoresCondition(r) == IF r.state = "open" THEN "Running" ELSE "Complete"

importPipelineRunPhase(r) ==
    IF r.state = "succeeded" THEN "Complete"
    ELSE IF r.state = "failed" THEN "Failed" ELSE "Running"

\* A history entry; an unversioned import is entered under its name and date by
\* one controller and under its bare name by the other.
Entry(name, dated) == [name |-> name, dated |-> dated]
Entries == [name : Version \cup Import, dated : BOOLEAN]
recordedVersion(i) == IF CollectionVersion[i] # NoVersion
                      THEN Entry(CollectionVersion[i], FALSE) ELSE Entry(i, TRUE)
aggregatedVersion(i) == IF CollectionVersion[i] # NoVersion
                        THEN Entry(CollectionVersion[i], FALSE) ELSE Entry(i, FALSE)
versionExists(h, v) == Entry(v, FALSE) \in h

-----------------------------------------------------------------------------
(* The handlers: Reconcile dispatches on deletion, finalizer and phase *)

\* Write the cached copy back, changed; a refused write leaves the request queued.
Store(i, new) == api' = [api EXCEPT ![i] = new] /\ lag' = lag \cup {i}
Put(i, new) ==
    \/ i \notin lag /\ Store(i, new) /\ queue' = queue \ {i}
    \/ i \in lag /\ UNCHANGED <<api, lag, queue>>

Handles(i) == pc = "idle" /\ i \in queue
Live(i) == Handles(i) /\ seen[i].life = "live" /\ seen[i].fin

\* Nothing to do: the import is gone or its phase is final, or its finalizer is.
Ignore(i) ==
    /\ Handles(i)
    /\ \/ ~Exists(seen[i])
       \/ seen[i].life = "live" /\ seen[i].fin /\ seen[i].phase \in {"Complete", "Failed"}
    /\ queue' = queue \ {i}
    /\ UNCHANGED <<api, seen, lag, runVars, platVars, workerVars, used>>

AddFinalizer(i) ==
    /\ Handles(i) /\ seen[i].life = "live" /\ ~seen[i].fin
    /\ Put(i, [seen[i] EXCEPT !.fin = TRUE])
    /\ UNCHANGED <<seen, runVars, platVars, workerVars, used>>

RemoveFinalizer(i) ==
    /\ Handles(i) /\ seen[i].life = "deleting"
    /\ Put(i, [seen[i] EXCEPT !.fin = FALSE, !.life = "gone"])
    /\ UNCHANGED <<seen, runVars, platVars, workerVars, used>>

AlreadyImported(i) ==
    /\ CollectionVersion[i] # NoVersion /\ hasPlatform
    /\ versionExists(platSeen, CollectionVersion[i])

startImport(i) ==
    /\ Live(i) /\ seen[i].phase = ""
    /\ Put(i, [seen[i] EXCEPT !.phase = IF AlreadyImported(i) THEN "Failed" ELSE "Importing"])
    /\ UNCHANGED <<seen, runVars, platVars, workerVars, used>>

\* Mutants of a disappeared run: the reference is kept; a phase nobody declares.
KeepLost(o) == o
LostIsStale(o) == [o EXCEPT !.ref = NoRun, !.phase = "Stale"]
DropLost(o) == [o EXCEPT !.ref = NoRun]

\* With a bound run: follow it; without requeue, so only its next event returns.
trackImportPipelineRun(i) ==
    /\ Live(i) /\ seen[i].phase = "Importing" /\ seen[i].ref # NoRun
    /\ LET pr == runSeen[seen[i].ref]
           phase == importPipelineRunPhase(pr)
       IN  \/ ~RunExists(pr) /\ Put(i, DropLost(seen[i]))
           \/ /\ RunExists(pr) /\ phase = "Complete"
              /\ Put(i, [seen[i] EXCEPT !.phase = "Publishing"])
           \/ /\ RunExists(pr) /\ phase = "Failed"
              /\ Put(i, [seen[i] EXCEPT !.phase = "Failed"])
           \/ /\ RunExists(pr) /\ phase = "Running"
              /\ queue' = queue \ {i} /\ UNCHANGED <<api, lag>>
    /\ UNCHANGED <<seen, runVars, platVars, workerVars, used>>

\* Without one: create a run under a generated name.
CreateImportRun(i) ==
    /\ Live(i) /\ seen[i].phase = "Importing" /\ seen[i].ref = NoRun
    /\ nextRun <= MaxRuns
    /\ runs' = [runs EXCEPT ![nextRun] = [state |-> "open", deleted |-> FALSE, owner |-> i]]
    /\ nextRun' = nextRun + 1
    /\ pc' = "bind" /\ key' = i /\ mine' = nextRun
    /\ queue' = queue \ {i}
    /\ UNCHANGED <<api, seen, lag, runSeen, platVars, used>>

Spend(what, max) == used[what] < max /\ used' = [used EXCEPT ![what] = @ + 1]

Done(requeue) ==
    /\ pc' = "idle" /\ key' = NoImport /\ mine' = NoRun
    /\ queue' = IF requeue THEN queue \cup {key} ELSE queue

HasRival(latest) == latest.ref \notin {NoRun, mine}

\* Refetch the import: give way to a run bound by somebody else, else bind.
BindImportRun ==
    /\ pc = "bind"
    /\ LET latest == seen[key]
       IN  \/ /\ ~Exists(latest) \/ (~HasRival(latest) /\ key \in lag)
              /\ Done(TRUE) /\ UNCHANGED <<api, lag, runs>>
           \/ /\ Exists(latest) /\ HasRival(latest)
              /\ runs' = [runs EXCEPT ![mine].deleted = TRUE]
              /\ Done(TRUE) /\ UNCHANGED <<api, lag>>
           \/ /\ Exists(latest) /\ ~HasRival(latest) /\ key \notin lag
              /\ Store(key, [latest EXCEPT !.ref = mine])
              /\ Done(FALSE) /\ UNCHANGED runs
    /\ UNCHANGED <<seen, runSeen, nextRun, platVars, used>>

finalizeImport(i) ==
    /\ Live(i) /\ seen[i].phase = "Publishing"
    /\ \/ /\ i \notin lag
          /\ Store(i, [seen[i] EXCEPT !.phase = "Complete"])
          /\ queue' = queue \ {i}
          /\ pc' = "history" /\ key' = i /\ UNCHANGED mine
       \/ i \in lag /\ UNCHANGED <<api, lag, queue, workerVars>>
    /\ UNCHANGED <<seen, runVars, platVars, used>>

\* A refused update of the platform is only logged.
updatePlatformImportHistory ==
    /\ pc = "history"
    /\ \/ /\ hasPlatform /\ ~platLag
          /\ history' = platSeen \cup {recordedVersion(key)}
          /\ platLag' = TRUE
       \/ ~hasPlatform /\ UNCHANGED <<history, platLag>>
       \/ hasPlatform /\ platLag /\ UNCHANGED <<history, platLag>>
    /\ Done(FALSE)
    /\ UNCHANGED <<api, seen, lag, runVars, hasPlatform, platSeen, used>>

\* An API error between the two writes of a handler: a failed refetch, record or
\* deletion of a run is retried, a failed history update is not.
Abort ==
    /\ pc # "idle" /\ Spend("faults", MaxFaults)
    /\ Done(pc = "bind")
    /\ UNCHANGED <<api, seen, lag, runVars, platVars>>

-----------------------------------------------------------------------------
(* The DisconnectedPlatform controller's share *)

\* Mutant: every import that has not failed counts.
CountsUnfinished(o) == Exists(o) /\ o.phase # "Failed"
\* Mutant: only imports that are still publishing count.
CountsPublishing(o) == Exists(o) /\ o.phase = "Publishing"
Counts(o) == Exists(o) /\ o.phase = "Complete"

\* The platform's Reconcile replaces importHistory by the completed imports it
\* lists, unless there is none; a conflict is ignored.
AggregateImports ==
    /\ hasPlatform /\ ~platLag
    /\ LET done == {i \in Import : Counts(seen[i])}
           new == {aggregatedVersion(i) : i \in done}
       IN  /\ done # {} /\ new # history
           /\ history' = new
    /\ platLag' = TRUE
    /\ UNCHANGED <<api, seen, lag, runVars, hasPlatform, platSeen, queue, workerVars, used>>

-----------------------------------------------------------------------------
(* Caches, users, Tekton, the garbage collector, restarts *)

SyncImport(i) ==
    /\ i \in lag
    /\ seen' = [seen EXCEPT ![i] = api[i]] /\ lag' = lag \ {i}
    /\ queue' = queue \cup {i}
    /\ UNCHANGED <<api, runVars, platVars, workerVars, used>>

SyncRun(r) ==
    /\ runSeen[r] # runs[r]
    /\ runSeen' = [runSeen EXCEPT ![r] = runs[r]]
    /\ queue' = queue \cup {runs[r].owner}
    /\ UNCHANGED <<api, seen, lag, runs, nextRun, platVars, workerVars, used>>

SyncPlatform ==
    /\ platLag
    /\ platSeen' = history /\ platLag' = FALSE
    /\ UNCHANGED <<api, seen, lag, runVars, hasPlatform, history, queue, workerVars, used>>

CreateImport(i) ==
    /\ api[i].life = "absent"
    /\ Store(i, [api[i] EXCEPT !.life = "live"])
    /\ UNCHANGED <<seen, runVars, platVars, queue, workerVars, used>>

EditImport(i) ==
    /\ Exists(api[i]) /\ i \notin lag /\ Spend("edits", MaxEdits)
    /\ Store(i, api[i])
    /\ UNCHANGED <<seen, runVars, platVars, queue, workerVars>>

DeleteImport(i) ==
    /\ i \in Deletable /\ api[i].life = "live"
    /\ Store(i, [api[i] EXCEPT !.life = IF api[i].fin THEN "deleting" ELSE "gone"])
    /\ UNCHANGED <<seen, runVars, platVars, queue, workerVars, used>>

\* Another write of the platform: its other status fields, or the user.
EditPlatform ==
    /\ hasPlatform /\ ~platLag /\ Spend("edits", MaxEdits)
    /\ platLag' = TRUE
    /\ UNCHANGED <<api, seen, lag, runVars, hasPlatform, history, platSeen, queue, workerVars>>

FinishRun(r) ==
    /\ Active(runs[r])
    /\ \E state \in {"succeeded", "failed"} : runs' = [runs EXCEPT ![r].state = state]
    /\ UNCHANGED <<api, seen, lag, runSeen, nextRun, platVars, queue, workerVars, used>>

PruneRun(r) ==
    /\ RunExists(runs[r])
    /\ \/ Spend("prunes", MaxPrunes)
       \/ api[runs[r].owner].life = "gone" /\ UNCHANGED used
    /\ runs' = [runs EXCEPT ![r].deleted = TRUE]
    /\ UNCHANGED <<api, seen, lag, runSeen, nextRun, platVars, queue, workerVars>>

Restart ==
    /\ Spend("faults", MaxFaults)
    /\ seen' = api /\ lag' = {} /\ runSeen' = runs
    /\ platSeen' = history /\ platLag' = FALSE
    /\ queue' = {i \in Import : Exists(api[i])}
    /\ pc' = "idle" /\ key' = NoImport /\ mine' = NoRun
    /\ UNCHANGED <<api, runs, nextRun, hasPlatform, history>>

-----------------------------------------------------------------------------

Init ==
    /\ api = [i \in Import |-> NoObject] /\ seen = api /\ lag = {}
    /\ runs = [r \in Run |-> NoRunObject] /\ runSeen = runs /\ nextRun = 1
    /\ hasPlatform \in BOOLEAN /\ history = {} /\ platSeen = {} /\ platLag = FALSE
    /\ queue = {} /\ pc = "idle" /\ key = NoImport /\ mine = NoRun
    /\ used = [faults |-> 0, prunes |-> 0, edits |-> 0]

Reconcile(i) ==
    \/ Ignore(i) \/ AddFinalizer(i) \/ RemoveFinalizer(i)
    \/ startImport(i) \/ trackImportPipelineRun(i) \/ CreateImportRun(i) \/ finalizeImport(i)

Finish == BindImportRun \/ updatePlatformImportHistory

Environment ==
    \/ \E i \in Import : CreateImport(i) \/ EditImport(i) \/ DeleteImport(i)
    \/ \E r \in Run : FinishRun(r) \/ PruneRun(r)
    \/ EditPlatform \/ Abort \/ Restart

Next ==
    \/ \E i \in Import : Reconcile(i) \/ SyncImport(i)
    \/ \E r \in Run : SyncRun(r)
    \/ Finish \/ AggregateImports \/ SyncPlatform
    \/ Environment

\* Watches deliver, the workqueue is fair and retries, Tekton ends every run
\* (six hours at most), and the platform is reconciled again and again: its
\* informers resync, and its own status writes wake it up.
Fairness ==
    /\ \A i \in Import : SF_vars(Reconcile(i)) /\ WF_vars(SyncImport(i))
    /\ \A r \in Run : WF_vars(SyncRun(r)) /\ WF_vars(FinishRun(r))
    /\ WF_vars(Finish) /\ WF_vars(SyncPlatform) /\ SF_vars(AggregateImports)

Spec == Init /\ [][Next]_vars
FairSpec == Spec /\ Fairness

-----------------------------------------------------------------------------
(* Correctness *)

TypeOK ==
    /\ api \in [Import -> Object] /\ seen \in [Import -> Object] /\ lag \subseteq Import
    /\ runs \in [Run -> RunObject] /\ runSeen \in [Run -> RunObject]
    /\ nextRun \in 1..(MaxRuns + 1)
    /\ hasPlatform \in BOOLEAN /\ platLag \in BOOLEAN
    /\ history \subseteq Entries /\ platSeen \subseteq Entries
    /\ queue \subseteq Import
    /\ pc \in {"idle", "bind", "history"} /\ key \in Import \cup {NoImport}
    /\ pc # "idle" => key \in Import
    /\ mine \in Run \cup {NoRun}
    /\ used \in [faults : 0..MaxFaults, prunes : 0..MaxPrunes, edits : 0..MaxEdits]

\* An import that publishes or is complete is bound to a run of its own that
\* succeeded: trackImportPipelineRun and finalizeImport never report on another.
ImportIsReal ==
    \A i \in Import : api[i].phase \in {"Publishing", "Complete"} =>
        /\ api[i].ref \in Run
        /\ runs[api[i].ref].owner = i /\ runs[api[i].ref].state = "succeeded"

\* Every version of the importHistory was brought in by a successful run, whoever
\* of the two controllers wrote it and however stale their caches were.
ImportHistoryIsTrue ==
    \A e \in history : \E i \in Import : \E r \in Run :
        /\ e \in {recordedVersion(i), aggregatedVersion(i)}
        /\ runs[r].owner = i /\ runs[r].state = "succeeded"

\* Every import comes to a final phase, though nothing requeues it while its run
\* is open, and although its run may disappear.
ImportSettles ==
    \A i \in Import : api[i].life = "live" ~>
        \/ api[i].phase \in {"Complete", "Failed"} \/ api[i].life # "live"
        \/ nextRun > MaxRuns /\ api[i].ref = NoRun

\* A complete import reaches the importHistory, even if the update of
\* updatePlatformImportHistory is refused or the operator restarts before it.
ImportRecorded ==
    \A i \in Import : api[i].phase = "Complete" /\ hasPlatform ~>
        {recordedVersion(i), aggregatedVersion(i)} \cap history # {} \/ ~Exists(api[i])

=============================================================================
