------------------------- MODULE MirrorImportProofs -------------------------
(***************************************************************************)
(* Theorems about the MirrorImport controller, for every set of imports    *)
(* and versions and every number of runs and failures: type correctness,   *)
(* that a reported Publishing or Complete is true, and that the platform's *)
(* importHistory is.                                                       *)
(*                                                                         *)
(* The argument: a copy of an import, the current one or a stale one, is   *)
(* bound to a run of its own only and is past Importing only if that run   *)
(* succeeded (Honest).  Runs never change their owner or take back a       *)
(* result, so an old copy stays honest (HonestLater), and so does every    *)
(* entry of the history, the platform's copy of it in the cache included.  *)
(***************************************************************************)
EXTENDS MirrorImport, TLAPS

\* What a copy o of import i may say, given the runs rs.
Honest(o, i, rs) ==
    /\ o.ref # NoRun => rs[o.ref].owner = i
    /\ o.phase \in {"Publishing", "Complete"} =>
        o.ref # NoRun /\ rs[o.ref].state = "succeeded"

\* Import i has had a successful run.
Imported(i, rs) == \E r \in Run : rs[r].owner = i /\ rs[r].state = "succeeded"

Names(e, i) == e \in {recordedVersion(i), aggregatedVersion(i)}
TrueEntries(h, rs) == \A e \in h : \E i \in Import : Names(e, i) /\ Imported(i, rs)

\* The copies of the imports: a copy that is not outdated is the current object.
CopiesInv ==
    /\ api \in [Import -> Object] /\ seen \in [Import -> Object] /\ lag \subseteq Import
    /\ \A i \in Import : i \notin lag => seen[i] = api[i]
    /\ \A i \in Import : Honest(api[i], i, runs) /\ Honest(seen[i], i, runs)

\* The runs: names are handed out in order, an unused one denotes nothing, and a
\* result that the cache shows is the run's result.
RunsInv ==
    /\ runs \in [Run -> RunObject] /\ runSeen \in [Run -> RunObject]
    /\ nextRun \in 1..(MaxRuns + 1)
    /\ \A r \in Run : r >= nextRun => runs[r] = NoRunObject /\ runSeen[r] = NoRunObject
    /\ \A r \in Run : r < nextRun => runs[r].owner \in Import
    /\ \A r \in Run : runSeen[r].state = "succeeded" => runs[r].state = "succeeded"

\* The worker: the run it is to bind is a run of its import, and the import whose
\* history entry is outstanding has succeeded.
WorkerInv ==
    /\ queue \subseteq Import
    /\ pc \in {"idle", "bind", "history"} /\ key \in Import \cup {NoImport}
    /\ mine \in Run \cup {NoRun}
    /\ pc # "idle" => key \in Import
    /\ pc = "bind" => mine \in Run /\ runs[mine].owner = key
    /\ pc = "history" => Imported(key, runs)

PlatInv ==
    /\ hasPlatform \in BOOLEAN /\ platLag \in BOOLEAN
    /\ history \subseteq Entries /\ platSeen \subseteq Entries
    /\ TrueEntries(history, runs) /\ TrueEntries(platSeen, runs)

UsedTyped == used \in [faults : 0..MaxFaults, prunes : 0..MaxPrunes, edits : 0..MaxEdits]

\* The inductive invariant.
IInv == CopiesInv /\ RunsInv /\ WorkerInv /\ PlatInv /\ UsedTyped

-----------------------------------------------------------------------------
(* Runs only move forward *)

Later(rs, rs2) ==
    \A r \in Run : rs[r].owner \in Import =>
        /\ rs2[r].owner = rs[r].owner
        /\ rs[r].state = "succeeded" => rs2[r].state = "succeeded"

\* No progress of the runs makes a copy, an import or an entry untrue.
LEMMA HonestLater ==
    ASSUME NEW o \in Object, NEW i \in Import, NEW rs, NEW rs2, Later(rs, rs2),
           Honest(o, i, rs)
    PROVE  Honest(o, i, rs2)
  BY DEF Honest, Later, Object

LEMMA ImportedLater ==
    ASSUME NEW i \in Import, NEW rs, NEW rs2, Later(rs, rs2), Imported(i, rs)
    PROVE  Imported(i, rs2)
  BY DEF Imported, Later

LEMMA EntriesLater ==
    ASSUME NEW h, NEW rs, NEW rs2, Later(rs, rs2), TrueEntries(h, rs)
    PROVE  TrueEntries(h, rs2)
  BY ImportedLater DEF TrueEntries

\* An honest copy that is past Importing has been imported.
LEMMA HonestImported ==
    ASSUME NEW o \in Object, NEW i \in Import, NEW rs, Honest(o, i, rs),
           o.phase \in {"Publishing", "Complete"}
    PROVE  Imported(i, rs)
  BY DEF Honest, Imported, Object

\* The entries that either controller writes for an import.
LEMMA EntryNames ==
    ASSUME NEW i \in Import
    PROVE  /\ recordedVersion(i) \in Entries /\ aggregatedVersion(i) \in Entries
           /\ Names(recordedVersion(i), i) /\ Names(aggregatedVersion(i), i)
  BY ImportConstants DEF recordedVersion, aggregatedVersion, Entry, Entries, Names

\* The four parts that are about the runs survive their progress.
LEMMA CopiesLater ==
    ASSUME CopiesInv, UNCHANGED <<api, seen, lag>>, Later(runs, runs')
    PROVE  CopiesInv'
<1>1. \A i \in Import : Honest(api[i], i, runs') /\ Honest(seen[i], i, runs')
  BY HonestLater DEF CopiesInv
<1> QED BY <1>1 DEF CopiesInv

LEMMA PlatLater ==
    ASSUME PlatInv, UNCHANGED platVars, Later(runs, runs')
    PROVE  PlatInv'
<1>1. TrueEntries(history, runs') /\ TrueEntries(platSeen, runs')
  BY EntriesLater DEF PlatInv
<1> QED BY <1>1 DEF PlatInv, platVars

LEMMA WorkerLater ==
    ASSUME WorkerInv, UNCHANGED workerVars, queue' \subseteq Import, Later(runs, runs')
    PROVE  WorkerInv'
<1>1. pc = "history" => Imported(key, runs')
  BY ImportedLater DEF WorkerInv
<1>2. pc = "bind" => runs'[mine].owner = key
  BY DEF WorkerInv, Later
<1> QED BY <1>1, <1>2 DEF WorkerInv, workerVars

LEMMA RunsSame ==
    ASSUME RunsInv, UNCHANGED runVars
    PROVE  RunsInv' /\ Later(runs, runs')
  BY DEF RunsInv, runVars, Later

\* One more fault, prune or edit.
LEMMA Spending ==
    ASSUME UsedTyped, NEW what, NEW max,
           \/ what = "faults" /\ max = MaxFaults
           \/ what = "prunes" /\ max = MaxPrunes
           \/ what = "edits" /\ max = MaxEdits,
           Spend(what, max)
    PROVE  UsedTyped'
  BY ImportConstants DEF UsedTyped, Spend

-----------------------------------------------------------------------------
(* What a write does to the copies *)

LEMMA StoreKeeps ==
    ASSUME CopiesInv, NEW i \in Import, NEW new \in Object, Honest(new, i, runs),
           Store(i, new), UNCHANGED <<seen, runs>>
    PROVE  CopiesInv'
  BY DEF CopiesInv, Store

\* A handler with one write: written or refused, the copies stay honest.
LEMMA PutKeeps ==
    ASSUME IInv, NEW i \in Import, NEW new \in Object,
           i \notin lag => Honest(new, i, runs), Put(i, new),
           UNCHANGED <<seen, runVars, platVars, workerVars, used>>
    PROVE  IInv'
<1>1. RunsInv' /\ Later(runs, runs')
  BY RunsSame DEF IInv
<1>2. CopiesInv'
  BY StoreKeeps, CopiesLater, <1>1 DEF IInv, Put, runVars
<1>3. queue' \subseteq Import
  BY DEF Put, IInv, WorkerInv
<1> QED BY <1>1, <1>2, <1>3, WorkerLater, PlatLater DEF IInv, UsedTyped

LEMMA ReconcileKeepsInv == ASSUME IInv, NEW i \in Import, Reconcile(i) PROVE IInv'
<1>0. /\ seen[i] \in Object /\ Honest(seen[i], i, runs)
      /\ RunsInv /\ WorkerInv /\ CopiesInv /\ PlatInv /\ UsedTyped
  BY DEF IInv, CopiesInv
<1>1. CASE Ignore(i)
  <2>1. RunsInv' /\ Later(runs, runs')
    BY <1>0, <1>1, RunsSame DEF Ignore
  <2>2. CopiesInv' /\ PlatInv' /\ UsedTyped'
    BY <1>0, <1>1, <2>1, CopiesLater, PlatLater DEF Ignore, UsedTyped
  <2>3. WorkerInv'
    BY <1>0, <1>1, <2>1, WorkerLater DEF Ignore, WorkerInv
  <2> QED BY <2>1, <2>2, <2>3 DEF IInv
<1>2. CASE AddFinalizer(i)
  <2> DEFINE new == [seen[i] EXCEPT !.fin = TRUE]
  <2>1. new \in Object /\ Honest(new, i, runs)
    BY <1>0 DEF Object, Honest
  <2> QED BY <1>2, <2>1, PutKeeps DEF AddFinalizer
<1>3. CASE RemoveFinalizer(i)
  <2> DEFINE new == [seen[i] EXCEPT !.fin = FALSE, !.life = "gone"]
  <2>1. new \in Object /\ Honest(new, i, runs)
    BY <1>0 DEF Object, Honest
  <2> QED BY <1>3, <2>1, PutKeeps DEF RemoveFinalizer
<1>4. CASE startImport(i)
  <2> DEFINE new == [seen[i] EXCEPT !.phase = IF AlreadyImported(i) THEN "Failed" ELSE "Importing"]
  <2>1. new \in Object /\ Honest(new, i, runs)
    BY <1>0 DEF Object, Honest, Phases
  <2> QED BY <1>4, <2>1, PutKeeps DEF startImport
<1>5. CASE trackImportPipelineRun(i)
  <2> DEFINE pr == runSeen[seen[i].ref]
             lost == DropLost(seen[i])
             published == [seen[i] EXCEPT !.phase = "Publishing"]
             failed == [seen[i] EXCEPT !.phase = "Failed"]
  <2>0. seen[i].ref \in Run /\ seen[i].phase = "Importing"
    BY <1>0, <1>5 DEF trackImportPipelineRun, Object
  <2>1. CASE Put(i, lost)
    <3>1. lost \in Object /\ Honest(lost, i, runs)
      BY <1>0, <2>0 DEF Object, Honest, DropLost
    <3> QED BY <1>5, <2>1, <3>1, PutKeeps DEF trackImportPipelineRun
  <2>2. CASE importPipelineRunPhase(pr) = "Complete" /\ Put(i, published)
    <3>1. pr.state = "succeeded"
      BY <2>2 DEF importPipelineRunPhase
    <3>2. runs[seen[i].ref].state = "succeeded"
      BY <1>0, <2>0, <3>1 DEF RunsInv
    <3>3. published \in Object /\ published.ref = seen[i].ref
      BY <1>0 DEF Object, Phases
    <3>4. Honest(published, i, runs)
      BY <1>0, <1>5, <3>2, <3>3 DEF Honest, trackImportPipelineRun
    <3> QED BY <1>5, <2>2, <3>3, <3>4, PutKeeps DEF trackImportPipelineRun
  <2>3. CASE Put(i, failed)
    <3>1. failed \in Object /\ Honest(failed, i, runs)
      BY <1>0, <2>0 DEF Object, Honest, Phases
    <3> QED BY <1>5, <2>3, <3>1, PutKeeps DEF trackImportPipelineRun
  <2>4. CASE queue' = queue \ {i} /\ UNCHANGED <<api, lag>>
    <3>1. RunsInv' /\ Later(runs, runs')
      BY <1>0, <1>5, RunsSame DEF trackImportPipelineRun
    <3>2. CopiesInv' /\ PlatInv' /\ UsedTyped'
      BY <1>0, <1>5, <2>4, <3>1, CopiesLater, PlatLater DEF trackImportPipelineRun, UsedTyped
    <3>3. WorkerInv'
      BY <1>0, <1>5, <2>4, <3>1, WorkerLater DEF trackImportPipelineRun, WorkerInv
    <3> QED BY <3>1, <3>2, <3>3 DEF IInv
  <2> QED BY <1>5, <2>1, <2>2, <2>3, <2>4 DEF trackImportPipelineRun
<1>6. CASE CreateImportRun(i)
  <2> DEFINE new == [state |-> "open", deleted |-> FALSE, owner |-> i]
  <2>1. nextRun \in Run /\ runs[nextRun] = NoRunObject /\ new \in RunObject
    BY <1>0, <1>6, ImportConstants DEF CreateImportRun, RunsInv, Run, RunObject
  <2>2. runs' = [runs EXCEPT ![nextRun] = new] /\ nextRun' = nextRun + 1 /\ runSeen' = runSeen
    BY <1>6 DEF CreateImportRun
  <2>3. Later(runs, runs')
    BY <1>0, <2>1, <2>2, ImportConstants DEF Later, RunsInv, NoRunObject
  <2>4. RunsInv'
    <3>1. runs' \in [Run -> RunObject] /\ nextRun' \in 1..(MaxRuns + 1)
      BY <1>0, <1>6, <2>1, <2>2, ImportConstants DEF RunsInv, CreateImportRun
    <3>2. ASSUME NEW r \in Run
          PROVE  /\ r >= nextRun' => runs'[r] = NoRunObject /\ runSeen'[r] = NoRunObject
                 /\ r < nextRun' => runs'[r].owner \in Import
                 /\ runSeen'[r].state = "succeeded" => runs'[r].state = "succeeded"
      <4>1. CASE r = nextRun
        BY <1>0, <2>1, <2>2, <4>1 DEF RunsInv, NoRunObject
      <4>2. CASE r # nextRun
        <5>1. runs'[r] = runs[r] /\ r \in Int /\ nextRun \in Int
          BY <1>0, <2>1, <2>2, <4>2 DEF RunsInv, Run
        <5> QED BY <1>0, <2>2, <4>2, <5>1 DEF RunsInv
      <4> QED BY <4>1, <4>2
    <3> QED BY <1>0, <2>2, <3>1, <3>2 DEF RunsInv
  <2>5. CopiesInv' /\ PlatInv' /\ UsedTyped'
    BY <1>0, <1>6, <2>3, CopiesLater, PlatLater DEF CreateImportRun, UsedTyped
  <2>6. WorkerInv'
    BY <1>0, <1>6, <2>1, <2>2 DEF CreateImportRun, WorkerInv, RunsInv
  <2> QED BY <2>4, <2>5, <2>6 DEF IInv
<1>7. CASE finalizeImport(i)
  <2> DEFINE new == [seen[i] EXCEPT !.phase = "Complete"]
  <2>0. seen[i].phase = "Publishing"
    BY <1>7 DEF finalizeImport
  <2>1. new \in Object /\ Honest(new, i, runs)
    BY <1>0, <2>0 DEF Object, Honest, Phases
  <2>2. RunsInv' /\ Later(runs, runs') /\ runs' = runs
    BY <1>0, <1>7, RunsSame DEF finalizeImport, runVars
  <2>3. CopiesInv'
    BY <1>0, <1>7, <2>1, <2>2, StoreKeeps, CopiesLater DEF finalizeImport
  <2>4. Imported(i, runs')
    BY <1>0, <2>0, <2>2, HonestImported
  <2>5. WorkerInv'
    BY <1>0, <1>7, <2>2, <2>4, WorkerLater DEF finalizeImport, WorkerInv
  <2>6. PlatInv' /\ UsedTyped'
    BY <1>0, <1>7, <2>2, PlatLater DEF finalizeImport, UsedTyped
  <2> QED BY <2>2, <2>3, <2>5, <2>6 DEF IInv
<1> QED BY <1>1, <1>2, <1>3, <1>4, <1>5, <1>6, <1>7 DEF Reconcile

-----------------------------------------------------------------------------
(* The second writes, the platform controller and the environment *)

\* Deleting a run, or ending it, leaves its owner and its result.
LEMMA DeletedRun ==
    ASSUME RunsInv, NEW r \in Run, runs' = [runs EXCEPT ![r].deleted = TRUE],
           RunExists(runs[r]) \/ runs[r].owner \in Import, UNCHANGED <<runSeen, nextRun>>
    PROVE  RunsInv' /\ Later(runs, runs')
<1> DEFINE d == [runs[r] EXCEPT !.deleted = TRUE]
<1>0. runs[r] \in RunObject BY DEF RunsInv
<1>1. d \in RunObject /\ d.owner = runs[r].owner /\ d.state = runs[r].state
  BY <1>0 DEF RunObject
<1>2. runs' = [runs EXCEPT ![r] = d] OBVIOUS
<1>3. ~(r >= nextRun)
  BY ImportConstants DEF RunsInv, NoRunObject, RunExists
<1> HIDE DEF d
<1>4. Later(runs, runs') BY <1>1, <1>2 DEF RunsInv, Later
<1>5. RunsInv' BY <1>1, <1>2, <1>3 DEF RunsInv
<1> QED BY <1>4, <1>5

LEMMA EndedRun ==
    ASSUME RunsInv, NEW r \in Run, Active(runs[r]), NEW st \in {"succeeded", "failed"},
           runs' = [runs EXCEPT ![r].state = st], UNCHANGED <<runSeen, nextRun>>
    PROVE  RunsInv' /\ Later(runs, runs')
<1> DEFINE d == [runs[r] EXCEPT !.state = st]
<1>1. d \in RunObject /\ d.owner = runs[r].owner /\ d.state = st
  BY DEF RunsInv, RunObject
<1>2. runs' = [runs EXCEPT ![r] = d] OBVIOUS
<1>3. ~(r >= nextRun) /\ runs[r].state = "open"
  BY DEF RunsInv, NoRunObject, RunExists, Active
<1> HIDE DEF d
<1>4. Later(runs, runs') BY <1>1, <1>2, <1>3 DEF RunsInv, Later
<1>5. runSeen[r].state # "succeeded" BY <1>3 DEF RunsInv
<1>6. RunsInv' BY <1>1, <1>2, <1>3, <1>5 DEF RunsInv
<1> QED BY <1>4, <1>6

LEMMA FinishKeepsInv == ASSUME IInv, Finish PROVE IInv'
<1>0. RunsInv /\ WorkerInv /\ CopiesInv /\ PlatInv /\ UsedTyped
  BY DEF IInv
<1>1. CASE BindImportRun
  <2> DEFINE latest == seen[key]
             new == [latest EXCEPT !.ref = mine]
  <2>1. /\ key \in Import /\ mine \in Run /\ runs[mine].owner = key
        /\ latest \in Object /\ Honest(latest, key, runs)
    BY <1>0, <1>1 DEF BindImportRun, WorkerInv, CopiesInv
  <2>2. WorkerInv' /\ UsedTyped' /\ UNCHANGED platVars
    BY <1>0, <1>1, <2>1 DEF BindImportRun, WorkerInv, Done, UsedTyped
  <2>3. CASE UNCHANGED <<api, lag, runs>>
    <3>1. RunsInv' /\ Later(runs, runs')
      BY <1>0, <1>1, <2>3, RunsSame DEF BindImportRun, runVars
    <3>2. CopiesInv' /\ PlatInv'
      BY <1>0, <1>1, <2>2, <2>3, <3>1, CopiesLater, PlatLater DEF BindImportRun
    <3> QED BY <2>2, <3>1, <3>2 DEF IInv
  <2>4. CASE runs' = [runs EXCEPT ![mine].deleted = TRUE] /\ UNCHANGED <<api, lag>>
    <3>1. RunsInv' /\ Later(runs, runs')
      BY <1>0, <1>1, <2>1, <2>4, DeletedRun DEF BindImportRun
    <3>2. CopiesInv' /\ PlatInv'
      BY <1>0, <1>1, <2>2, <2>4, <3>1, CopiesLater, PlatLater DEF BindImportRun
    <3> QED BY <2>2, <3>1, <3>2 DEF IInv
  <2>5. CASE ~HasRival(latest) /\ Store(key, new) /\ UNCHANGED runs
    <3>1. latest.ref \in {NoRun, mine}
      BY <2>5 DEF HasRival
    <3>2. new \in Object /\ new.ref = mine /\ new.phase = latest.phase
      BY <2>1 DEF Object
    <3>3. Honest(new, key, runs)
      BY <2>1, <3>1, <3>2 DEF Honest
    <3>4. CopiesInv'
      BY <1>0, <1>1, <2>1, <2>5, <3>2, <3>3, StoreKeeps DEF BindImportRun
    <3>5. RunsInv' /\ Later(runs, runs')
      BY <1>0, <1>1, <2>5, RunsSame DEF BindImportRun, runVars
    <3> QED BY <1>0, <2>2, <3>4, <3>5, PlatLater DEF IInv
  <2> QED BY <1>1, <2>3, <2>4, <2>5 DEF BindImportRun
<1>2. CASE updatePlatformImportHistory
  <2>1. key \in Import /\ Imported(key, runs)
    BY <1>0, <1>2 DEF updatePlatformImportHistory, WorkerInv
  <2>2. RunsInv' /\ Later(runs, runs') /\ runs' = runs
    BY <1>0, <1>2, RunsSame DEF updatePlatformImportHistory, runVars
  <2>3. WorkerInv' /\ UsedTyped' /\ CopiesInv'
    BY <1>0, <1>2, <2>1, <2>2, CopiesLater
    DEF updatePlatformImportHistory, WorkerInv, Done, UsedTyped
  <2>4. TrueEntries(platSeen \cup {recordedVersion(key)}, runs)
    BY <1>0, <2>1, EntryNames DEF PlatInv, TrueEntries
  <2>5. PlatInv'
    BY <1>0, <1>2, <2>1, <2>2, <2>4, EntryNames DEF updatePlatformImportHistory, PlatInv
  <2> QED BY <2>2, <2>3, <2>5 DEF IInv
<1> QED BY <1>1, <1>2 DEF Finish

LEMMA AggregateKeepsInv == ASSUME IInv, AggregateImports PROVE IInv'
<1> DEFINE done == {i \in Import : Counts(seen[i])}
           new == {aggregatedVersion(i) : i \in done}
<1>0. RunsInv /\ WorkerInv /\ CopiesInv /\ PlatInv /\ UsedTyped
  BY DEF IInv
<1>1. RunsInv' /\ Later(runs, runs') /\ runs' = runs
  BY <1>0, RunsSame DEF AggregateImports, runVars
<1>2. CopiesInv' /\ UsedTyped'
  BY <1>0, <1>1, CopiesLater DEF AggregateImports, UsedTyped
<1>3. WorkerInv'
  BY <1>0, <1>1, WorkerLater DEF AggregateImports, WorkerInv
<1>4. \A i \in done : i \in Import /\ Imported(i, runs)
  BY <1>0, HonestImported DEF Counts, CopiesInv
<1>5. TrueEntries(new, runs) /\ new \subseteq Entries
  BY <1>4, EntryNames DEF TrueEntries
<1>6. history' = new /\ platLag' = TRUE /\ UNCHANGED <<hasPlatform, platSeen>>
  BY DEF AggregateImports
<1> HIDE DEF new
<1>7. PlatInv'
  BY <1>0, <1>1, <1>5, <1>6 DEF PlatInv
<1> QED BY <1>1, <1>2, <1>3, <1>7 DEF IInv

\* What changes neither a run nor the history nor the worker.
LEMMA ObjectsOnly ==
    ASSUME IInv, CopiesInv', UsedTyped', queue' \subseteq Import,
           UNCHANGED <<runVars, platVars, workerVars>>
    PROVE  IInv'
  BY RunsSame, PlatLater, WorkerLater DEF IInv

LEMMA InformersKeepInv ==
    ASSUME IInv,
           \/ \E i \in Import : SyncImport(i)
           \/ \E r \in Run : SyncRun(r)
           \/ SyncPlatform
    PROVE  IInv'
<1>0. RunsInv /\ WorkerInv /\ CopiesInv /\ PlatInv /\ UsedTyped
  BY DEF IInv
<1>1. ASSUME NEW i \in Import, SyncImport(i) PROVE IInv'
  <2>1. CopiesInv' /\ UsedTyped' /\ queue' \subseteq Import
    BY <1>0, <1>1 DEF SyncImport, CopiesInv, UsedTyped, WorkerInv, runVars
  <2> QED BY <1>1, <2>1, ObjectsOnly DEF SyncImport
<1>2. ASSUME NEW r \in Run, SyncRun(r) PROVE IInv'
  <2>1. ~(r >= nextRun) /\ runs[r].owner \in Import
    BY <1>0, <1>2 DEF SyncRun, RunsInv, Run
  <2>2. RunsInv' /\ Later(runs, runs')
    BY <1>0, <1>2, <2>1 DEF SyncRun, RunsInv, Later
  <2>3. CopiesInv' /\ PlatInv' /\ UsedTyped'
    BY <1>0, <1>2, <2>2, CopiesLater, PlatLater DEF SyncRun, UsedTyped
  <2>4. WorkerInv'
    BY <1>0, <1>2, <2>1, <2>2, WorkerLater DEF SyncRun, WorkerInv
  <2> QED BY <2>2, <2>3, <2>4 DEF IInv
<1>3. CASE SyncPlatform
  <2>1. RunsInv' /\ Later(runs, runs') /\ runs' = runs
    BY <1>0, <1>3, RunsSame DEF SyncPlatform, runVars
  <2>2. CopiesInv' /\ UsedTyped' /\ PlatInv'
    BY <1>0, <1>3, <2>1, CopiesLater DEF SyncPlatform, UsedTyped, PlatInv
  <2>3. WorkerInv'
    BY <1>0, <1>3, <2>1, WorkerLater DEF SyncPlatform, WorkerInv
  <2> QED BY <2>1, <2>2, <2>3 DEF IInv
<1> QED BY <1>1, <1>2, <1>3

\* Users and other writers never touch what a copy says about its run.
LEMMA UsersKeepInv ==
    ASSUME IInv, NEW i \in Import, CreateImport(i) \/ EditImport(i) \/ DeleteImport(i)
    PROVE  IInv'
<1>0. CopiesInv /\ UsedTyped /\ WorkerInv /\ api[i] \in Object /\ Honest(api[i], i, runs)
  BY DEF IInv, CopiesInv
<1>1. PICK new \in Object : Store(i, new) /\ Honest(new, i, runs)
  <2>1. CASE CreateImport(i)
    <3> DEFINE new == [api[i] EXCEPT !.life = "live"]
    <3>1. new \in Object /\ Honest(new, i, runs) BY <1>0 DEF Object, Honest
    <3> QED BY <2>1, <3>1 DEF CreateImport
  <2>2. CASE EditImport(i)
    BY <1>0, <2>2 DEF EditImport
  <2>3. CASE DeleteImport(i)
    <3> DEFINE new == [api[i] EXCEPT !.life = IF api[i].fin THEN "deleting" ELSE "gone"]
    <3>1. new \in Object /\ Honest(new, i, runs) BY <1>0 DEF Object, Honest
    <3> QED BY <2>3, <3>1 DEF DeleteImport
  <2> QED BY <2>1, <2>2, <2>3
<1>2. UNCHANGED <<seen, runVars, platVars, queue, workerVars>>
  BY DEF CreateImport, EditImport, DeleteImport
<1>3. CopiesInv'
  BY <1>0, <1>1, <1>2, StoreKeeps DEF runVars
<1>4. UsedTyped'
  BY <1>0, Spending DEF CreateImport, EditImport, DeleteImport, UsedTyped
<1> QED BY <1>0, <1>2, <1>3, <1>4, ObjectsOnly DEF WorkerInv

LEMMA EnvironmentKeepsInv == ASSUME IInv, Environment PROVE IInv'
<1>0. RunsInv /\ WorkerInv /\ CopiesInv /\ PlatInv /\ UsedTyped
  BY DEF IInv
<1>1. ASSUME NEW r \in Run, FinishRun(r) PROVE IInv'
  <2>1. RunsInv' /\ Later(runs, runs')
    BY <1>0, <1>1, EndedRun DEF FinishRun
  <2>2. CopiesInv' /\ PlatInv' /\ UsedTyped'
    BY <1>0, <1>1, <2>1, CopiesLater, PlatLater DEF FinishRun, UsedTyped
  <2>3. WorkerInv'
    BY <1>0, <1>1, <2>1, WorkerLater DEF FinishRun, WorkerInv
  <2> QED BY <2>1, <2>2, <2>3 DEF IInv
<1>2. ASSUME NEW r \in Run, PruneRun(r) PROVE IInv'
  <2>1. RunsInv' /\ Later(runs, runs')
    BY <1>0, <1>2, DeletedRun DEF PruneRun
  <2>2. CopiesInv' /\ PlatInv' /\ UsedTyped'
    BY <1>0, <1>2, <2>1, CopiesLater, PlatLater, Spending DEF PruneRun, UsedTyped
  <2>3. WorkerInv'
    BY <1>0, <1>2, <2>1, WorkerLater DEF PruneRun, WorkerInv
  <2> QED BY <2>1, <2>2, <2>3 DEF IInv
<1>3. CASE EditPlatform
  <2>1. RunsInv' /\ Later(runs, runs') /\ runs' = runs
    BY <1>0, <1>3, RunsSame DEF EditPlatform, runVars
  <2>2. CopiesInv' /\ UsedTyped'
    BY <1>0, <1>3, <2>1, CopiesLater, Spending DEF EditPlatform
  <2>3. WorkerInv' /\ PlatInv'
    BY <1>0, <1>3, <2>1, WorkerLater DEF EditPlatform, WorkerInv, PlatInv
  <2> QED BY <2>1, <2>2, <2>3 DEF IInv
<1>4. CASE Abort
  <2>1. RunsInv' /\ Later(runs, runs')
    BY <1>0, <1>4, RunsSame DEF Abort
  <2>2. CopiesInv' /\ PlatInv' /\ UsedTyped'
    BY <1>0, <1>4, <2>1, CopiesLater, PlatLater, Spending DEF Abort
  <2>3. WorkerInv'
    BY <1>0, <1>4 DEF Abort, WorkerInv, Done
  <2> QED BY <2>1, <2>2, <2>3 DEF IInv
<1>5. CASE Restart
  <2>1. UsedTyped' BY <1>0, <1>5, Spending DEF Restart
  <2>2. RunsInv' /\ CopiesInv' /\ PlatInv' /\ WorkerInv'
    BY <1>0, <1>5 DEF Restart, RunsInv, CopiesInv, PlatInv, WorkerInv
  <2> QED BY <2>1, <2>2 DEF IInv
<1> QED BY <1>1, <1>2, <1>3, <1>4, <1>5, UsersKeepInv DEF Environment

-----------------------------------------------------------------------------
(* The theorems *)

LEMMA InitInv == Init => IInv
<1> SUFFICES ASSUME Init PROVE IInv
  OBVIOUS
<1>1. NoObject \in Object /\ NoRunObject \in RunObject
  BY DEF NoObject, Object, Phases, NoRunObject, RunObject
<1>2. CopiesInv
  BY <1>1 DEF Init, CopiesInv, Honest, NoObject
<1>3. RunsInv
  <2>1. \A r \in Run : runs[r] = NoRunObject /\ runSeen[r] = NoRunObject
    BY DEF Init
  <2>2. nextRun = 1 /\ 1 \in 1..(MaxRuns + 1) /\ \A r \in Run : ~(r < 1)
    BY ImportConstants DEF Init, Run
  <2>3. runs \in [Run -> RunObject] /\ runSeen \in [Run -> RunObject]
    BY <1>1 DEF Init
  <2>4. NoRunObject.state # "succeeded" BY DEF NoRunObject
  <2> QED BY <2>1, <2>2, <2>3, <2>4 DEF RunsInv
<1>4. WorkerInv /\ PlatInv
  BY DEF Init, WorkerInv, PlatInv, TrueEntries
<1>5. UsedTyped
  BY ImportConstants DEF Init, UsedTyped
<1> QED BY <1>2, <1>3, <1>4, <1>5 DEF IInv

LEMMA NextKeepsInv == IInv /\ [Next]_vars => IInv'
<1> SUFFICES ASSUME IInv, [Next]_vars PROVE IInv'
  OBVIOUS
<1>1. CASE UNCHANGED vars
  <2>1. CopiesInv' /\ UsedTyped' /\ queue' \subseteq Import
    BY <1>1 DEF vars, runVars, IInv, CopiesInv, UsedTyped, WorkerInv
  <2> QED BY <1>1, <2>1, ObjectsOnly DEF vars
<1> QED BY <1>1, ReconcileKeepsInv, FinishKeepsInv, AggregateKeepsInv, InformersKeepInv,
           EnvironmentKeepsInv DEF Next

\* Every reachable state satisfies the inductive invariant.
THEOREM Invariance == Spec => []IInv
  BY InitInv, NextKeepsInv, PTL DEF Spec

\* Phases, references, runs, history entries and the worker's registers of the
\* MirrorImport controller keep their types.
THEOREM TypeCorrect == Spec => []TypeOK
<1>1. IInv => TypeOK
  BY DEF IInv, CopiesInv, RunsInv, WorkerInv, PlatInv, UsedTyped, TypeOK
<1> QED BY <1>1, Invariance, PTL

\* An import that trackImportPipelineRun or finalizeImport reports as Publishing or
\* Complete is bound to a successful run of its own, however many runs were
\* created for it and whatever the caches showed.
THEOREM ImportsAreReal == Spec => []ImportIsReal
<1>1. IInv => ImportIsReal
  BY DEF IInv, CopiesInv, Honest, ImportIsReal, Object
<1> QED BY <1>1, Invariance, PTL

\* Whichever controller wrote it last, importHistory names only versions that a
\* successful run has brought in.
THEOREM HistoryTrue == Spec => []ImportHistoryIsTrue
<1>1. IInv => ImportHistoryIsTrue
  BY DEF IInv, PlatInv, TrueEntries, Names, Imported, ImportHistoryIsTrue
<1> QED BY <1>1, Invariance, PTL

=============================================================================
