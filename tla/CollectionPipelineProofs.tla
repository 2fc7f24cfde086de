---------------------- MODULE CollectionPipelineProofs ----------------------
(***************************************************************************)
(* Theorems about the CollectionPipeline controller, for every number of   *)
(* pipelines, runs, days, sizes and failures: type correctness, the truth  *)
(* of a reported Complete, that children wait for their parents, and that  *)
(* the controller implements CollectionLifecycle.                          *)
(*                                                                         *)
(* The argument: the API server's copy, the cached copy and the worker's   *)
(* copy of a pipeline are all honest about the cached state of its run     *)
(* (HonestCopies), and the cached state of a run is an earlier state of    *)
(* the run itself (CachedRuns).  Honesty therefore survives every write,   *)
(* however stale the copy it starts from.                                  *)
(***************************************************************************)
EXTENDS CollectionPipeline, TLAPS

\* b is a or a later state of the same run.
Follows(a, b) ==
    /\ a = "running" => b \in {"running", "succeeded", "failed"}
    /\ a \in {"succeeded", "failed"} => b = a

\* What a copy o of pipeline p may say, given the runs rs and their cache sn.
Honest(o, p, rs, sn) ==
    /\ o.ref = NoRun => o.phase \in {"", "Stale", "Failed"}
    /\ o.ref # NoRun =>
        /\ rs[o.ref].owner = p
        /\ o.phase \in {"Pending", "Collecting", "Complete", "Failed"}
        /\ o.phase = "Collecting" => sn[o.ref].state \in {"running", "succeeded", "failed"}
        /\ o.phase = "Complete" => sn[o.ref].state = "succeeded"
        /\ o.phase = "Failed" => sn[o.ref].state = "failed"

ParentDone(p, rs) ==
    \E s \in Run : rs[s].owner = Parent[p] /\ rs[s].state = "succeeded"

\* Run names are handed out in order; an unused name denotes nothing.
NamedRuns ==
    \A r \in Run :
        /\ r >= nextRun => runs[r] = NoRunObject /\ runSeen[r] = NoRunObject
        /\ r < nextRun => runs[r].owner \in Pipeline /\ runs[r].state # "none"

CachedRuns == \A r \in Run : Follows(runSeen[r].state, runs[r].state)

\* A copy that carries the current resourceVersion is the current object.
CurrentCopies ==
    /\ \A p \in Pipeline : p \notin lag => seen[p] = api[p]
    /\ cur => pc # "idle" /\ obj = api[key]

HonestCopies ==
    /\ \A p \in Pipeline : Honest(api[p], p, runs, runSeen) /\ Honest(seen[p], p, runs, runSeen)
    /\ pc # "idle" => Honest(obj, key, runs, runSeen)

\* What the running reconciliation has established on its way.
Bindless == {"parent", "version", "claim", "volume", "create"}
PastParent == {"version", "claim", "volume", "create", "bind"}
Progressed ==
    /\ pc \in {"track", "reset"} => obj.ref # NoRun
    /\ pc = "reset" => obj.phase \in Done
    /\ pc \in Bindless => obj.ref = NoRun
    /\ pc \in PastParent /\ Parent[key] # NoPipeline => ParentDone(key, runs)
    /\ pc = "bind" => mine \in Run /\ runs[mine].owner = key

\* The inductive invariant.
IInv ==
    /\ TypeOK
    /\ NamedRuns /\ CachedRuns /\ CurrentCopies /\ HonestCopies /\ Progressed
    /\ ChildAfterParent

-----------------------------------------------------------------------------
(* Types *)

\* The claims that names resolve to are PVC names.
LEMMA ClaimNames ==
    ASSUME NEW p \in Pipeline, NEW o \in Object
    PROVE  workingPVCName(p, o) \in Claim /\ expansionPVCName(p, o) \in Claim
  BY ConstantsAssumption DEF workingPVCName, expansionPVCName, Claim, UsesBase, Object

LEMMA RunPhases ==
    ASSUME NEW r
    PROVE  collectionPipelineRunPhase(r) \in Phases
  BY DEF collectionPipelineRunPhase, Phases

LEMMA StoredSizes ==
    ASSUME NEW o \in Object, NEW n \in 0..MaxSize
    PROVE  Larger(getStorageSize(o), n) \in 0..MaxSize /\ Larger(o.size, n) \in 0..MaxSize
  BY ConstantsAssumption DEF Larger, getStorageSize, Object

LEMMA NoObjectTyped == NoObject \in Object
  BY ConstantsAssumption DEF NoObject, Object, Claim, Phases

\* The two halves of TypeOK: the copies of the pipelines, and the rest.
CopiesTyped ==
    /\ api \in [Pipeline -> Object] /\ seen \in [Pipeline -> Object]
    /\ lag \subseteq Pipeline /\ queue \subseteq Pipeline
    /\ pc \in {"idle"} \cup Calls /\ key \in Pipeline \cup {NoPipeline}
    /\ pc # "idle" => key \in Pipeline
    /\ obj \in Object /\ cur \in BOOLEAN /\ mine \in Run \cup {NoRun}

RunsTyped ==
    /\ runs \in [Run -> RunObject] /\ runSeen \in [Run -> RunObject]
    /\ nextRun \in 1..(MaxRuns + 1)

RestTyped ==
    /\ pvc \in [Claim -> 0..MaxSize]
    /\ cm \subseteq Pipeline /\ s3Jobs \subseteq Pipeline
    /\ history \subseteq [of : Pipeline, version : Version \cup {NoVersion}]
    /\ imported \subseteq Version /\ today \in 1..MaxDay
    /\ used \in [triggers : 0..MaxTriggers, faults : 0..MaxFaults, prunes : 0..MaxPrunes]

LEMMA TypeParts == TypeOK <=> CopiesTyped /\ RunsTyped /\ RestTyped
  BY DEF TypeOK, CopiesTyped, RunsTyped, RestTyped

LEMMA TypePartsPrimed == TypeOK' <=> CopiesTyped' /\ RunsTyped' /\ RestTyped'
  BY DEF TypeOK, CopiesTyped, RunsTyped, RestTyped

-----------------------------------------------------------------------------
(* What a write does to the copies, whoever makes it *)

\* A copy that says the same about its run is as honest.
LEMMA HonestSame ==
    ASSUME NEW o, NEW new, NEW p, NEW rs, NEW sn,
           Honest(o, p, rs, sn), new.ref = o.ref, new.phase = o.phase
    PROVE  Honest(new, p, rs, sn)
  BY DEF Honest

\* Honesty and a finished parent survive the progress of the runs.
Later(rs, rs2) ==
    \A r \in Run : rs[r].owner \in Pipeline =>
        rs2[r].owner = rs[r].owner /\ Follows(rs[r].state, rs2[r].state)
LaterCache(sn, sn2) == \A r \in Run : Follows(sn[r].state, sn2[r].state)

LEMMA HonestLater ==
    ASSUME NEW o \in Object, NEW p \in Pipeline, NEW rs, NEW sn, NEW rs2, NEW sn2,
           Honest(o, p, rs, sn), Later(rs, rs2), LaterCache(sn, sn2)
    PROVE  Honest(o, p, rs2, sn2)
  BY DEF Honest, Later, LaterCache, Follows, Object

LEMMA ParentDoneLater ==
    ASSUME NEW p \in Pipeline, Parent[p] # NoPipeline, NEW rs, NEW rs2,
           ParentDone(p, rs), Later(rs, rs2)
    PROVE  ParentDone(p, rs2)
  BY ConstantsAssumption DEF ParentDone, Later, Follows

CopiesOK == CopiesTyped /\ CurrentCopies /\ HonestCopies

\* The running reconciliation writes an honest copy, skips a write, or returns.
LEMMA WorkerWrites ==
    ASSUME CopiesOK, pc # "idle", NEW new \in Object, NEW next \in Calls,
           NEW requeue \in BOOLEAN,
           Honest(new, key, runs, runSeen), UNCHANGED <<seen, runVars>>,
           \/ Write(new, next) \/ WriteAndReturn(new, requeue)
           \/ Skip(next) \/ Return(requeue)
    PROVE  /\ CopiesOK'
           /\ \/ pc' = "idle"
              \/ pc' = next /\ key' = key /\ mine' = mine /\ obj' \in {obj, new}
<1> USE NoObjectTyped DEF CopiesOK, runVars
<1>1. /\ CopiesTyped'
      /\ \/ pc' = "idle"
         \/ pc' = next /\ key' = key /\ mine' = mine /\ obj' \in {obj, new}
  BY DEF CopiesTyped, Write, WriteAndReturn, Skip, Return, Store, Finish, Continue
<1>2. CurrentCopies'
  BY DEF CopiesTyped, CurrentCopies, Write, WriteAndReturn, Skip, Return, Store, Finish,
         Continue, Calls
<1>3. HonestCopies'
  BY DEF CopiesTyped, HonestCopies, Write, WriteAndReturn, Skip, Return, Store, Finish,
         Continue
<1> QED BY <1>1, <1>2, <1>3

\* Somebody else writes a copy that says the same about the run.
LEMMA OthersWrite ==
    ASSUME CopiesOK, NEW p \in Pipeline, NEW new \in Object, Change(p, new),
           new.ref = api[p].ref, new.phase = api[p].phase, UNCHANGED runVars
    PROVE  CopiesOK' /\ UNCHANGED <<pc, key, obj, mine>>
<1> USE DEF CopiesOK, runVars, Change, Store
<1>1. CopiesTyped' BY DEF CopiesTyped
<1>2. CurrentCopies' BY DEF CopiesTyped, CurrentCopies
<1>3. Honest(new, p, runs, runSeen) BY HonestSame DEF HonestCopies
<1>4. HonestCopies' BY <1>3 DEF CopiesTyped, HonestCopies
<1> QED BY <1>1, <1>2, <1>4

-----------------------------------------------------------------------------
(* The running reconciliation *)

RunsOK == NamedRuns /\ CachedRuns /\ ChildAfterParent

LEMMA IInvParts == IInv <=> /\ CopiesOK /\ RunsTyped /\ RestTyped
                            /\ RunsOK /\ Progressed
  BY TypeParts DEF IInv, CopiesOK, RunsOK

LEMMA IInvPartsPrimed == IInv' <=> /\ CopiesOK' /\ RunsTyped' /\ RestTyped'
                                   /\ RunsOK' /\ Progressed'
  BY TypePartsPrimed DEF IInv, CopiesOK, RunsOK

LEMMA RunsKept ==
    ASSUME RunsTyped, RunsOK, UNCHANGED runVars
    PROVE  RunsTyped' /\ RunsOK'
  BY DEF RunsTyped, RunsOK, NamedRuns, CachedRuns, ChildAfterParent, runVars

LEMMA RestKept ==
    ASSUME RestTyped, UNCHANGED <<childVars, platVars>>
    PROVE  RestTyped'
  BY DEF RestTyped, childVars, platVars

\* Deleting a run, or moving it along, changes that run only, and only there.
LEMMA DeletedRun ==
    ASSUME RunsTyped, NEW r \in Run, runs' = [runs EXCEPT ![r].deleted = TRUE]
    PROVE  /\ runs' \in [Run -> RunObject]
           /\ \A s \in Run : runs'[s].owner = runs[s].owner /\ runs'[s].state = runs[s].state
           /\ \A s \in Run : s # r => runs'[s] = runs[s]
<1> DEFINE d == [runs[r] EXCEPT !.deleted = TRUE]
<1>1. runs[r] \in RunObject BY DEF RunsTyped
<1>2. d \in RunObject /\ d.owner = runs[r].owner /\ d.state = runs[r].state
  BY <1>1 DEF RunObject
<1>3. runs' = [runs EXCEPT ![r] = d] OBVIOUS
<1> HIDE DEF d
<1> QED BY <1>2, <1>3 DEF RunsTyped

LEMMA MovedRun ==
    ASSUME RunsTyped, NEW r \in Run, NEW st \in RunStates, runs' = [runs EXCEPT ![r].state = st]
    PROVE  /\ runs' \in [Run -> RunObject]
           /\ \A s \in Run : runs'[s].owner = runs[s].owner
           /\ runs'[r].state = st /\ \A s \in Run : s # r => runs'[s] = runs[s]
<1> DEFINE d == [runs[r] EXCEPT !.state = st]
<1>1. runs[r] \in RunObject BY DEF RunsTyped
<1>2. d \in RunObject /\ d.owner = runs[r].owner /\ d.state = st
  BY <1>1 DEF RunObject
<1>3. runs' = [runs EXCEPT ![r] = d] OBVIOUS
<1> HIDE DEF d
<1> QED BY <1>2, <1>3 DEF RunsTyped

\* Every call of a reconciliation keeps the invariant.
LEMMA StepKeepsInv == ASSUME IInv, Step PROVE IInv'
<1> USE DEF runVars
<1>0. CopiesOK /\ RunsTyped /\ RestTyped /\ RunsOK /\ Progressed
  BY IInvParts
<1>h. ASSUME pc # "idle" PROVE key \in Pipeline /\ obj \in Object /\ Honest(obj, key, runs, runSeen)
  BY <1>0, <1>h DEF CopiesOK, CopiesTyped, HonestCopies
<1>1. CASE AddFinalizer
  <2> DEFINE new == [obj EXCEPT !.fin = TRUE]
  <2>1. new \in Object /\ Honest(new, key, runs, runSeen)
    BY <1>1, <1>h, HonestSame DEF AddFinalizer, Object
  <2>2. CopiesOK' /\ pc' = "idle"
    BY <1>1, <1>0, <2>1, WorkerWrites DEF AddFinalizer, WriteAndReturn, Finish, Calls
  <2> QED BY <1>0, <1>1, <2>2, RunsKept, RestKept, IInvPartsPrimed
          DEF AddFinalizer, Progressed, Bindless, PastParent
<1>2. CASE EnsureConfig
  <2> DEFINE new == [obj EXCEPT !.cmRef = TRUE]
  <2>1. new \in Object /\ Honest(new, key, runs, runSeen)
    BY <1>2, <1>h, HonestSame DEF EnsureConfig, Object
  <2>2. CopiesOK' /\ pc' \in {"idle", "trigger"}
    BY <1>2, <1>0, <2>1, WorkerWrites DEF EnsureConfig, Calls
  <2>3. RestTyped'
    BY <1>2, <1>0, <1>h DEF EnsureConfig, RestTyped, platVars
  <2> QED BY <1>0, <1>2, <2>2, <2>3, RunsKept, IInvPartsPrimed
          DEF EnsureConfig, Progressed, Bindless, PastParent
<1>3. CASE CheckTrigger
  <2> DEFINE new == [obj EXCEPT !.trigger = FALSE]
  <2>1. new \in Object /\ Honest(new, key, runs, runSeen) /\ new.ref = obj.ref /\ new.phase = obj.phase
    BY <1>3, <1>h, HonestSame DEF CheckTrigger, Object
  <2>2. CopiesOK' /\ (pc' = "idle" \/ (pc' = "reset" /\ obj' \in {obj, new}))
    BY <1>3, <1>0, <2>1, WorkerWrites DEF CheckTrigger, Calls
  <2>3. obj.ref # NoRun /\ obj.phase \in Done
    BY <1>3, <1>h DEF CheckTrigger, Triggered, Honest, Done
  <2> QED BY <1>0, <1>3, <2>1, <2>2, <2>3, RunsKept, RestKept, IInvPartsPrimed
          DEF CheckTrigger, Progressed, Bindless, PastParent
<1>4. CASE ResetStatus
  <2> DEFINE new == ResetFields(obj)
  <2>1. new \in Object /\ Honest(new, key, runs, runSeen)
    BY <1>4, <1>h DEF ResetStatus, ResetFields, Object, Honest, Phases
  <2>2. CopiesOK' /\ pc' = "idle"
    BY <1>4, <1>0, <2>1, WorkerWrites DEF ResetStatus, WriteAndReturn, Finish, Calls
  <2> QED BY <1>0, <1>4, <2>2, RunsKept, RestKept, IInvPartsPrimed
          DEF ResetStatus, Progressed, Bindless, PastParent
<1>5. CASE ExpandPVC
  <2>1. /\ CopiesOK' /\ key' = key /\ mine' = mine /\ obj' = obj
        /\ pc' = IF obj.ref # NoRun THEN "track" ELSE "parent"
    BY <1>5, <1>0, <1>h, WorkerWrites DEF ExpandPVC, Skip, Continue, Calls
  <2>2. RestTyped'
    BY <1>5, <1>0, <1>h, ClaimNames, StoredSizes DEF ExpandPVC, RestTyped, platVars
  <2> QED BY <1>0, <1>5, <2>1, <2>2, RunsKept, IInvPartsPrimed
          DEF ExpandPVC, Progressed, Bindless, PastParent
<1>6. CASE trackPipelineRun
  <2> DEFINE pr == runSeen[obj.ref]
             new == [obj EXCEPT !.phase = collectionPipelineRunPhase(pr)]
             lost == [obj EXCEPT !.ref = NoRun, !.phase = "Stale"]
  <2>1. obj.ref \in Run /\ obj.ref # NoRun
    BY <1>6, <1>0, <1>h DEF trackPipelineRun, Progressed, Object
  <2>2. new \in Object /\ lost \in Object
    BY <1>6, <1>h, RunPhases DEF trackPipelineRun, Object, Phases
  <2>3. Honest(new, key, runs, runSeen)
    BY <1>6, <1>h, <2>1 DEF trackPipelineRun, Object, Honest, collectionPipelineRunPhase
  <2>4. Honest(lost, key, runs, runSeen)
    BY <1>6, <1>h DEF trackPipelineRun, Object, Honest
  <2>5. CopiesOK' /\ pc' \in {"idle", "history"}
    <3>1. CASE ~RunExists(pr) /\ WriteAndReturn(lost, FALSE)
      BY <1>6, <1>0, <2>2, <2>4, <3>1, WorkerWrites
      DEF trackPipelineRun, Calls
    <3>2. CASE Write(new, "history")
      BY <1>6, <1>0, <2>2, <2>3, <3>2, WorkerWrites DEF trackPipelineRun, Calls
    <3>3. CASE WriteAndReturn(new, ~RunDone(pr))
      BY <1>6, <1>0, <2>2, <2>3, <3>3, WorkerWrites DEF trackPipelineRun, Calls
    <3> QED BY <1>6, <3>1, <3>2, <3>3 DEF trackPipelineRun
  <2> QED BY <1>0, <1>6, <2>5, RunsKept, RestKept, IInvPartsPrimed
          DEF trackPipelineRun, Progressed, Bindless, PastParent
<1>7. CASE updatePlatformCollectionHistory
  <2>1. CopiesOK' /\ pc' = "idle"
    BY <1>7, <1>0, <1>h, WorkerWrites
    DEF updatePlatformCollectionHistory, Return, Finish, Calls
  <2>2. RestTyped'
    BY <1>7, <1>0, <1>h
    DEF updatePlatformCollectionHistory, RestTyped, childVars, Object
  <2> QED BY <1>0, <1>7, <2>1, <2>2, RunsKept, IInvPartsPrimed
          DEF updatePlatformCollectionHistory, Progressed, Bindless, PastParent
<1>8. CASE ValidateParent
  <2> DEFINE parent == seen[Parent[key]]
             new == [obj EXCEPT !.parentVersion = parent.version]
             failed == [obj EXCEPT !.phase = "Failed"]
  <2>0. pc = "parent" /\ obj.ref = NoRun /\ key \in Pipeline /\ obj \in Object
    BY <1>8, <1>0, <1>h DEF ValidateParent, Progressed, Bindless
  <2>1. CASE Parent[key] = NoPipeline /\ Skip("version")
    <3>1. CopiesOK' /\ pc' = "version" /\ key' = key /\ obj' = obj
      BY <1>8, <1>0, <1>h, <2>0, <2>1, WorkerWrites DEF ValidateParent, Skip, Continue, Calls
    <3> QED BY <1>0, <1>8, <2>0, <2>1, <3>1, RunsKept, RestKept, IInvPartsPrimed
            DEF ValidateParent, Progressed, Bindless, PastParent
  <2>2. CASE WriteAndReturn(failed, FALSE)
    <3>1. failed \in Object /\ Honest(failed, key, runs, runSeen)
      BY <2>0, <1>h DEF Object, Honest, Phases
    <3>2. CopiesOK' /\ pc' = "idle"
      BY <1>8, <1>0, <2>0, <2>2, <3>1, WorkerWrites
      DEF ValidateParent, WriteAndReturn, Finish, Calls
    <3> QED BY <1>0, <1>8, <3>2, RunsKept, RestKept, IInvPartsPrimed
            DEF ValidateParent, Progressed, Bindless, PastParent
  <2>3. CASE lag' = lag \cup {key} /\ UNCHANGED api /\ Finish(FALSE)
    <3>1. CopiesOK' /\ pc' = "idle"
      BY <1>8, <1>0, <2>0, <2>3, NoObjectTyped
      DEF ValidateParent, Finish, CopiesOK, CopiesTyped, CurrentCopies, HonestCopies
    <3> QED BY <1>0, <1>8, <3>1, RunsKept, RestKept, IInvPartsPrimed
            DEF ValidateParent, Progressed, Bindless, PastParent
  <2>4. CASE AwaitParent(TRUE)
    <3>1. CopiesOK' /\ pc' = "idle"
      BY <1>8, <1>0, <1>h, <2>0, <2>4, WorkerWrites
      DEF ValidateParent, AwaitParent, Return, Finish, Calls
    <3> QED BY <1>0, <1>8, <3>1, RunsKept, RestKept, IInvPartsPrimed
            DEF ValidateParent, Progressed, Bindless, PastParent
  <2>5. CASE /\ Parent[key] # NoPipeline /\ ParentReady(parent)
             /\ IF obj.parentVersion = NoVersion THEN Write(new, "version") ELSE Skip("version")
    <3>1. Parent[key] \in Pipeline
      BY <2>0, <2>5, ConstantsAssumption
    <3>2. /\ parent \in Object /\ parent.phase = "Complete"
          /\ Honest(parent, Parent[key], runs, runSeen)
      BY <1>0, <2>5, <3>1 DEF CopiesOK, CopiesTyped, HonestCopies, ParentReady
    <3>3. ParentDone(key, runs)
      <4>1. /\ parent.ref \in Run /\ runs[parent.ref].owner = Parent[key]
            /\ runSeen[parent.ref].state = "succeeded"
        BY <3>2 DEF Honest, Object
      <4> QED BY <1>0, <4>1 DEF RunsOK, CachedRuns, Follows, ParentDone
    <3>4. new \in Object /\ new.ref = obj.ref /\ new.phase = obj.phase
      BY <2>0, <3>2 DEF Object
    <3>5. Honest(new, key, runs, runSeen)
      BY <2>0, <1>h, <3>4, HonestSame
    <3>6. /\ CopiesOK'
          /\ \/ pc' = "idle"
             \/ pc' = "version" /\ key' = key /\ obj' \in {obj, new}
      <4>1. CASE Write(new, "version")
        BY <1>8, <1>0, <2>0, <3>4, <3>5, <4>1, WorkerWrites DEF ValidateParent, Calls
      <4>2. CASE Skip("version")
        BY <1>8, <1>0, <1>h, <2>0, <4>2, WorkerWrites DEF ValidateParent, Calls
      <4> QED BY <2>5, <4>1, <4>2
    <3>7. Progressed'
      BY <1>8, <2>0, <3>3, <3>4, <3>6 DEF ValidateParent, Progressed, Bindless, PastParent, ParentDone
    <3> QED BY <1>0, <1>8, <3>6, <3>7, RunsKept, RestKept, IInvPartsPrimed
            DEF ValidateParent
  <2> QED BY <1>8, <2>1, <2>2, <2>3, <2>4, <2>5 DEF ValidateParent
<1>9. CASE AssignVersion
  <2> DEFINE new == [obj EXCEPT !.version = generateVersion(key)]
  <2>0. pc = "version" /\ obj.ref = NoRun /\ key \in Pipeline /\ obj \in Object
    BY <1>9, <1>0, <1>h DEF AssignVersion, Progressed, Bindless
  <2>1. generateVersion(key) \in Version
    BY <1>0, <2>0, ConstantsAssumption DEF RestTyped, generateVersion, Version
  <2>2. new \in Object /\ new.ref = obj.ref /\ new.phase = obj.phase
    BY <2>0, <2>1 DEF Object
  <2>3. Honest(new, key, runs, runSeen)
    BY <2>0, <1>h, <2>2, HonestSame
  <2>4. CopiesOK' /\ (pc' = "idle" \/ (pc' = "claim" /\ key' = key /\ obj' \in {obj, new}))
    BY <1>9, <1>0, <1>h, <2>0, <2>2, <2>3, WorkerWrites DEF AssignVersion, Calls
  <2>5. Progressed'
    BY <1>9, <1>0, <2>0, <2>2, <2>4 DEF AssignVersion, Progressed, Bindless, PastParent, ParentDone
  <2> QED BY <1>0, <1>9, <2>4, <2>5, RunsKept, RestKept, IInvPartsPrimed DEF AssignVersion
<1>10. CASE EnsureClaim
  <2> DEFINE parent == IF Parent[key] = NoPipeline THEN NoObject ELSE seen[Parent[key]]
             name == workingPVCName(key, parent)
             new == [obj EXCEPT !.claim = name]
  <2>0. pc = "claim" /\ obj.ref = NoRun /\ key \in Pipeline /\ obj \in Object
    BY <1>10, <1>0, <1>h DEF EnsureClaim, Progressed, Bindless
  <2>1. parent \in Object
    BY <1>0, <2>0, NoObjectTyped, ConstantsAssumption DEF CopiesOK, CopiesTyped
  <2>2. name \in Claim
    BY <2>0, <2>1, ClaimNames
  <2>3. new \in Object /\ new.ref = obj.ref /\ new.phase = obj.phase
    BY <2>0, <2>2 DEF Object
  <2>4. Honest(new, key, runs, runSeen)
    BY <2>0, <1>h, <2>3, HonestSame
  <2>5. CopiesOK' /\ (pc' = "idle" \/ (pc' = "volume" /\ key' = key /\ obj' \in {obj, new}))
    BY <1>10, <1>0, <1>h, <2>0, <2>3, <2>4, WorkerWrites DEF EnsureClaim, Calls
  <2>6. Progressed'
    BY <1>10, <1>0, <2>0, <2>3, <2>5 DEF EnsureClaim, Progressed, Bindless, PastParent, ParentDone
  <2> QED BY <1>0, <1>10, <2>5, <2>6, RunsKept, RestKept, IInvPartsPrimed DEF EnsureClaim
<1>11. CASE EnsureVolume
  <2>0. pc = "volume" /\ obj.ref = NoRun /\ key \in Pipeline /\ obj \in Object
    BY <1>11, <1>0, <1>h DEF EnsureVolume, Progressed, Bindless
  <2>1. CopiesOK' /\ (pc' = "idle" \/ (pc' = "create" /\ key' = key /\ obj' = obj))
    BY <1>11, <1>0, <1>h, <2>0, WorkerWrites DEF EnsureVolume, Calls
  <2>2. RestTyped'
    <3>1. obj.claim \in Claim BY <2>0 DEF Object
    <3>2. pvc[obj.claim] \in 0..MaxSize BY <1>0, <3>1 DEF RestTyped
    <3>3. Larger(getStorageSize(obj), pvc[obj.claim]) \in 0..MaxSize
      BY <2>0, <3>2, StoredSizes
    <3> QED BY <1>11, <1>0, <3>1, <3>3 DEF EnsureVolume, RestTyped, platVars
  <2>3. Progressed'
    BY <1>11, <1>0, <2>0, <2>1 DEF EnsureVolume, Progressed, Bindless, PastParent, ParentDone
  <2> QED BY <1>0, <1>11, <2>1, <2>2, <2>3, RunsKept, IInvPartsPrimed DEF EnsureVolume
<1>12. CASE AwaitSigning
  <2>1. CopiesOK' /\ pc' = "idle"
    BY <1>12, <1>0, <1>h, WorkerWrites DEF AwaitSigning, Return, Finish, Calls
  <2> QED BY <1>0, <1>12, <2>1, RunsKept, RestKept, IInvPartsPrimed
          DEF AwaitSigning, Progressed, Bindless, PastParent
<1>13. CASE CreateRun
  <2> DEFINE parent == IF Parent[key] = NoPipeline THEN NoObject ELSE seen[Parent[key]]
  <2>0. /\ pc = "create" /\ obj.ref = NoRun /\ key \in Pipeline /\ obj \in Object
        /\ nextRun \in Run /\ nextRun \in Nat
    BY <1>13, <1>0, <1>h, ConstantsAssumption
    DEF CreateRun, Progressed, Bindless, RunsTyped, Run
  <2>c. runPVCName(key, obj, parent) \in Claim
    <3>1. parent \in Object
      BY <1>0, <2>0, NoObjectTyped, ConstantsAssumption DEF CopiesOK, CopiesTyped
    <3> QED BY <2>0, <3>1, ClaimNames DEF runPVCName, Object
  <2>1. RunsTyped' /\ runs'[nextRun].owner = key /\ runs'[nextRun].state = "pending"
    BY <1>13, <1>0, <2>0, <2>c, ConstantsAssumption
    DEF CreateRun, RunsTyped, RunObject, RunStates, Object, Run
  <2>2. Later(runs, runs') /\ LaterCache(runSeen, runSeen')
    BY <1>13, <1>0, <2>0, ConstantsAssumption
    DEF CreateRun, Later, LaterCache, Follows, RunsOK, NamedRuns, RunsTyped, NoRunObject
  <2>3. NamedRuns' /\ CachedRuns'
    <3>1. /\ \A r \in Run : r # nextRun => runs'[r] = runs[r]
          /\ runSeen' = runSeen /\ nextRun' = nextRun + 1
      BY <1>13, <1>0, <2>0 DEF CreateRun, RunsTyped
    <3>2. runSeen[nextRun].state = "none"
      BY <1>0, <2>0 DEF RunsOK, NamedRuns, NoRunObject
    <3>3. NamedRuns'
      BY <1>0, <2>0, <2>1, <3>1, ConstantsAssumption DEF RunsOK, NamedRuns, Run
    <3>4. CachedRuns'
      BY <1>0, <2>0, <3>1, <3>2 DEF RunsOK, CachedRuns, Follows
    <3> QED BY <3>3, <3>4
  <2>4. Parent[key] # NoPipeline => ParentDone(key, runs')
    BY <1>0, <2>0, <2>2, ParentDoneLater DEF Progressed, PastParent
  <2>5. ChildAfterParent'
    <3> SUFFICES ASSUME NEW r \in Run, NEW p \in Pipeline,
                        runs'[r].owner = p, Parent[p] # NoPipeline
                 PROVE  ParentDone(p, runs')
      BY DEF ChildAfterParent, ParentDone
    <3>1. CASE r = nextRun BY <2>1, <2>4, <3>1
    <3>2. CASE r # nextRun
      <4>1. runs[r].owner = p BY <1>13, <1>0, <3>2 DEF CreateRun, RunsTyped
      <4>2. ParentDone(p, runs) BY <1>0, <4>1 DEF RunsOK, ChildAfterParent, ParentDone
      <4> QED BY <2>2, <4>2, ParentDoneLater
    <3> QED BY <3>1, <3>2
  <2>6. CopiesOK'
    <3>1. CopiesTyped' /\ CurrentCopies'
      BY <1>13, <1>0, <2>0 DEF CreateRun, CopiesOK, CopiesTyped, CurrentCopies, Calls
    <3>2. HonestCopies'
      BY <1>13, <1>0, <1>h, <2>0, <2>2, HonestLater
      DEF CreateRun, CopiesOK, CopiesTyped, HonestCopies
    <3> QED BY <3>1, <3>2 DEF CopiesOK
  <2>7. Progressed'
    BY <1>13, <2>0, <2>1, <2>4 DEF CreateRun, Progressed, Bindless, PastParent
  <2> QED BY <1>0, <1>13, <2>1, <2>3, <2>5, <2>6, <2>7, RestKept, IInvPartsPrimed
          DEF CreateRun, RunsOK
<1>14. CASE BindRun
  <2> DEFINE latest == seen[key]
             bound == [latest EXCEPT !.ref = mine, !.phase = "Pending"]
  <2>0. /\ pc = "bind" /\ key \in Pipeline /\ mine \in Run /\ mine # NoRun
        /\ runs[mine].owner = key /\ latest \in Object
    BY <1>14, <1>0, <1>h, ConstantsAssumption
    DEF BindRun, Progressed, CopiesOK, CopiesTyped, Run, NoRun
  <2>1. CASE Return(TRUE) /\ UNCHANGED runs
    <3>1. CopiesOK' /\ pc' = "idle"
      BY <1>14, <1>0, <1>h, <2>0, <2>1, WorkerWrites DEF BindRun, Return, Finish, Calls
    <3> QED BY <1>0, <1>14, <2>1, <3>1, RunsKept, RestKept, IInvPartsPrimed
            DEF BindRun, Progressed, Bindless, PastParent
  <2>2. CASE runs' = [runs EXCEPT ![mine].deleted = TRUE] /\ Return(TRUE)
    <3>2. RunsTyped' /\ \A r \in Run : runs'[r].owner = runs[r].owner /\ runs'[r].state = runs[r].state
      BY <1>14, <1>0, <2>0, <2>2, DeletedRun DEF BindRun, RunsTyped
    <3>1. Later(runs, runs') /\ LaterCache(runSeen, runSeen')
      BY <1>14, <3>2 DEF BindRun, Later, LaterCache, Follows
    <3>3. mine < nextRun
      BY <1>0, <2>0, ConstantsAssumption DEF RunsOK, NamedRuns, NoRunObject, RunsTyped, Run
    <3>4. NamedRuns' /\ CachedRuns' /\ ChildAfterParent'
      BY <1>14, <1>0, <2>0, <2>2, <3>2, <3>3
      DEF BindRun, RunsOK, RunsTyped, NamedRuns, CachedRuns, ChildAfterParent, Run
    <3>5. CopiesOK' /\ pc' = "idle"
      <4>1. CopiesTyped' /\ CurrentCopies' /\ pc' = "idle"
        BY <1>14, <1>0, <2>0, <2>2, NoObjectTyped
        DEF BindRun, Return, Finish, CopiesOK, CopiesTyped, CurrentCopies
      <4>2. HonestCopies'
        BY <1>14, <1>0, <2>2, <3>1, <4>1, HonestLater
        DEF BindRun, Return, CopiesOK, CopiesTyped, HonestCopies
      <4> QED BY <4>1, <4>2 DEF CopiesOK
    <3> QED BY <1>0, <1>14, <3>2, <3>4, <3>5, RestKept, IInvPartsPrimed
            DEF BindRun, RunsOK, Progressed, Bindless, PastParent
  <2>3. CASE Store(key, bound) /\ Finish(FALSE) /\ UNCHANGED runs
    <3>1. bound \in Object /\ Honest(bound, key, runs, runSeen)
      BY <2>0 DEF Object, Honest, Phases
    <3>2. CopiesOK' /\ pc' = "idle"
      BY <1>14, <1>0, <2>0, <2>3, <3>1, NoObjectTyped
      DEF BindRun, Store, Finish, CopiesOK, CopiesTyped, CurrentCopies, HonestCopies
    <3> QED BY <1>0, <1>14, <2>3, <3>2, RunsKept, RestKept, IInvPartsPrimed
            DEF BindRun, Progressed, Bindless, PastParent
  <2> QED BY <1>14, <2>1, <2>2, <2>3 DEF BindRun
<1>15. CASE DeleteWorkingPVC
  <2>1. CopiesOK' /\ pc' = "release"
    BY <1>15, <1>0, <1>h, WorkerWrites DEF DeleteWorkingPVC, Skip, Continue, Calls
  <2>2. RestTyped'
    BY <1>15, <1>0, <1>h, ConstantsAssumption DEF DeleteWorkingPVC, RestTyped
  <2> QED BY <1>0, <1>15, <2>1, <2>2, RunsKept, IInvPartsPrimed
          DEF DeleteWorkingPVC, Progressed, Bindless, PastParent
<1>16. CASE ReleasePipeline
  <2> DEFINE new == [obj EXCEPT !.fin = FALSE, !.life = "gone"]
  <2>1. new \in Object /\ new.ref = obj.ref /\ new.phase = obj.phase
    BY <1>16, <1>h DEF ReleasePipeline, Object
  <2>2. Honest(new, key, runs, runSeen)
    BY <1>16, <1>h, <2>1, HonestSame DEF ReleasePipeline
  <2>3. CopiesOK' /\ pc' = "idle"
    BY <1>16, <1>0, <1>h, <2>1, <2>2, WorkerWrites
    DEF ReleasePipeline, WriteAndReturn, Return, Finish, Calls
  <2>4. RestTyped'
    BY <1>16, <1>0, <1>h DEF ReleasePipeline, RestTyped, platVars
  <2> QED BY <1>0, <1>16, <2>3, <2>4, RunsKept, IInvPartsPrimed
          DEF ReleasePipeline, Progressed, Bindless, PastParent
<1> QED
  BY <1>1, <1>2, <1>3, <1>4, <1>5, <1>6, <1>7, <1>8, <1>9, <1>10, <1>11, <1>12, <1>13,
     <1>14, <1>15, <1>16 DEF Step

-----------------------------------------------------------------------------
(* Everybody else *)

\* What the runs need to keep their part of the invariant as they progress.
LEMMA RunsProgress ==
    ASSUME IInv, RunsTyped', NamedRuns', CachedRuns',
           Later(runs, runs'), LaterCache(runSeen, runSeen'),
           \A r \in Run : runs'[r].owner = runs[r].owner,
           UNCHANGED <<api, seen, lag, queue, workerVars>>
    PROVE  CopiesOK' /\ RunsOK' /\ Progressed'
<1>0. CopiesOK /\ RunsTyped /\ RestTyped /\ RunsOK /\ Progressed
  BY IInvParts
<1>1. CopiesOK'
  BY <1>0, HonestLater
  DEF CopiesOK, CopiesTyped, CurrentCopies, HonestCopies, workerVars
<1>2. ChildAfterParent'
  <2> SUFFICES ASSUME NEW r \in Run, NEW p \in Pipeline,
                      runs'[r].owner = p, Parent[p] # NoPipeline
               PROVE  ParentDone(p, runs')
    BY DEF ChildAfterParent, ParentDone
  <2>1. ParentDone(p, runs) BY <1>0 DEF RunsOK, ChildAfterParent, ParentDone
  <2> QED BY <2>1, ParentDoneLater
<1>3. Progressed'
  <2>1. pc \in PastParent => key \in Pipeline
    BY <1>0 DEF PastParent, CopiesOK, CopiesTyped
  <2> QED BY <1>0, <2>1, ParentDoneLater DEF Progressed, workerVars
<1> QED BY <1>1, <1>2, <1>3 DEF RunsOK

LEMMA ReconcileKeepsInv == ASSUME IInv, NEW p \in Pipeline, Reconcile(p) PROVE IInv'
<1>0. CopiesOK /\ RunsTyped /\ RestTyped /\ RunsOK /\ Progressed
  BY IInvParts
<1>1. CASE ~Exists(seen[p])
  <2>1. CopiesOK' /\ Progressed'
    BY <1>0, <1>1 DEF Reconcile, CopiesOK, CopiesTyped, CurrentCopies, HonestCopies,
                     Progressed, ParentDone, workerVars, runVars
  <2> QED BY <1>0, <2>1, RunsKept, RestKept, IInvPartsPrimed DEF Reconcile
<1>2. CASE Exists(seen[p])
  <2>1. /\ pc = "idle" /\ key' = p /\ obj' = seen[p] /\ cur' = (p \notin lag)
        /\ pc' \in {"cleanup", "finalizer", "config"}
        /\ queue' = queue \ {p} /\ UNCHANGED <<api, seen, lag, runVars, mine>>
    BY <1>2 DEF Reconcile
  <2>2. CopiesTyped'
    BY <1>0, <2>1 DEF CopiesOK, CopiesTyped, Calls
  <2>3. CurrentCopies' /\ HonestCopies'
    BY <1>0, <2>1 DEF CopiesOK, CurrentCopies, HonestCopies, runVars
  <2>4. Progressed'
    BY <2>1 DEF Progressed, Bindless, PastParent
  <2> QED BY <1>0, <2>1, <2>2, <2>3, <2>4, RunsKept, RestKept, IInvPartsPrimed
          DEF Reconcile, CopiesOK
<1> QED BY <1>1, <1>2

LEMMA AbortKeepsInv == ASSUME IInv, Abort PROVE IInv'
<1>0. CopiesOK /\ RunsTyped /\ RestTyped /\ RunsOK /\ Progressed
  BY IInvParts
<1>1. CopiesOK' /\ pc' = "idle"
  BY <1>0, NoObjectTyped
  DEF Abort, Return, Finish, CopiesOK, CopiesTyped, CurrentCopies, HonestCopies, runVars
<1>2. RestTyped'
  BY <1>0, ConstantsAssumption DEF Abort, RestTyped, childVars
<1> QED BY <1>0, <1>1, <1>2, RunsKept, IInvPartsPrimed
        DEF Abort, Progressed, Bindless, PastParent

LEMMA RestartKeepsInv == ASSUME IInv, Restart PROVE IInv'
<1>0. CopiesOK /\ RunsTyped /\ RestTyped /\ RunsOK /\ Progressed
  BY IInvParts
<1>1. Later(runs, runs') /\ LaterCache(runSeen, runSeen')
  BY <1>0 DEF Restart, Later, LaterCache, Follows, RunsOK, CachedRuns
<1>2. CopiesTyped' /\ CurrentCopies' /\ pc' = "idle"
  BY <1>0, NoObjectTyped DEF Restart, CopiesOK, CopiesTyped, CurrentCopies
<1>3. HonestCopies'
  BY <1>0, <1>1, <1>2, HonestLater DEF Restart, CopiesOK, CopiesTyped, HonestCopies
<1>4. RestTyped'
  BY <1>0, ConstantsAssumption DEF Restart, RestTyped, childVars
<1>5. RunsTyped' /\ RunsOK'
  BY <1>0 DEF Restart, RunsTyped, RunsOK, NamedRuns, CachedRuns, ChildAfterParent, Follows
<1> QED BY <1>2, <1>3, <1>4, <1>5, IInvPartsPrimed
        DEF CopiesOK, Progressed, Bindless, PastParent

LEMMA InformersKeepInv == ASSUME IInv, Informers PROVE IInv'
<1>0. CopiesOK /\ RunsTyped /\ RestTyped /\ RunsOK /\ Progressed
  BY IInvParts
<1>1. ASSUME NEW p \in Pipeline, SyncPipeline(p) PROVE IInv'
  <2>1. CopiesOK'
    BY <1>0, <1>1
    DEF SyncPipeline, CopiesOK, CopiesTyped, CurrentCopies, HonestCopies, workerVars, runVars
  <2>2. Progressed'
    BY <1>0, <1>1 DEF SyncPipeline, Progressed, workerVars, runVars, ParentDone
  <2> QED BY <1>0, <1>1, <2>1, <2>2, RunsKept, RestKept, IInvPartsPrimed DEF SyncPipeline
<1>2. ASSUME NEW r \in Run, SyncRun(r) PROVE IInv'
  <2>1. runs[r].owner \in Pipeline
    BY <1>0, <1>2, ConstantsAssumption DEF SyncRun, RunsOK, NamedRuns, RunsTyped, Run
  <2>2. RunsTyped' /\ runs' = runs
    BY <1>0, <1>2 DEF SyncRun, RunsTyped
  <2>3. Later(runs, runs') /\ LaterCache(runSeen, runSeen')
    BY <1>0, <1>2 DEF SyncRun, RunsTyped, Later, LaterCache, Follows, RunsOK, CachedRuns
  <2>4. RunsOK'
    BY <1>0, <1>2 DEF SyncRun, RunsTyped, RunsOK, NamedRuns, CachedRuns, ChildAfterParent, Follows
  <2>5. CopiesOK'
    <3>1. CopiesTyped' /\ CurrentCopies'
      BY <1>0, <1>2, <2>1 DEF SyncRun, CopiesOK, CopiesTyped, CurrentCopies, workerVars
    <3>2. HonestCopies'
      BY <1>0, <1>2, <2>3, HonestLater DEF SyncRun, CopiesOK, CopiesTyped, HonestCopies, workerVars
    <3> QED BY <3>1, <3>2 DEF CopiesOK
  <2>6. Progressed'
    BY <1>0, <1>2 DEF SyncRun, Progressed, workerVars, ParentDone
  <2> QED BY <1>0, <1>2, <2>2, <2>4, <2>5, <2>6, RestKept, IInvPartsPrimed DEF SyncRun
<1> QED BY <1>1, <1>2 DEF Informers

\* A write by somebody else that does not touch the phase or the bound run.
LEMMA ChangeKeepsInv ==
    ASSUME IInv, NEW p \in Pipeline, NEW new \in Object, Change(p, new),
           new.ref = api[p].ref, new.phase = api[p].phase,
           UNCHANGED runVars, RestTyped'
    PROVE  IInv'
<1>0. CopiesOK /\ RunsTyped /\ RestTyped /\ RunsOK /\ Progressed
  BY IInvParts
<1>1. CopiesOK' /\ UNCHANGED <<pc, key, obj, mine>>
  BY <1>0, OthersWrite
<1>2. Progressed'
  BY <1>0, <1>1 DEF Progressed, runVars, ParentDone
<1> QED BY <1>0, <1>1, <1>2, RunsKept, IInvPartsPrimed

\* The user and the platform controller write the objects.
LEMMA UsersKeepInv ==
    ASSUME IInv, NEW p \in Pipeline,
           \/ CreatePipeline(p) \/ AnnotateTrigger(p) \/ GrowStorage(p)
           \/ DeletePipeline(p) \/ PushSigning(p)
    PROVE  IInv'
<1>0. CopiesOK /\ RunsTyped /\ RestTyped /\ RunsOK /\ Progressed
  BY IInvParts
<1>1. api[p] \in Object
  BY <1>0 DEF CopiesOK, CopiesTyped
<1>2. CASE CreatePipeline(p)
  <2> DEFINE new == [api[p] EXCEPT !.life = "live"]
  <2>1. new \in Object /\ new.ref = api[p].ref /\ new.phase = api[p].phase
    BY <1>1 DEF Object
  <2> QED BY <1>0, <1>2, <2>1, RestKept, ChangeKeepsInv DEF CreatePipeline, Unmoved
<1>3. CASE AnnotateTrigger(p)
  <2> DEFINE new == [api[p] EXCEPT !.trigger = TRUE]
  <2>1. new \in Object /\ new.ref = api[p].ref /\ new.phase = api[p].phase
    BY <1>1 DEF Object
  <2>2. RestTyped'
    BY <1>0, <1>3, ConstantsAssumption DEF AnnotateTrigger, RestTyped, childVars
  <2> QED BY <1>3, <2>1, <2>2, ChangeKeepsInv DEF AnnotateTrigger
<1>4. CASE GrowStorage(p)
  <2> DEFINE new == [api[p] EXCEPT !.size = @ + 1]
  <2>1. new \in Object /\ new.ref = api[p].ref /\ new.phase = api[p].phase
    BY <1>1, <1>4, ConstantsAssumption DEF Object, GrowStorage
  <2> QED BY <1>0, <1>4, <2>1, RestKept, ChangeKeepsInv DEF GrowStorage, Unmoved
<1>5. CASE DeletePipeline(p)
  <2> DEFINE new == [api[p] EXCEPT !.life = IF api[p].fin THEN "deleting" ELSE "gone"]
  <2>1. new \in Object /\ new.ref = api[p].ref /\ new.phase = api[p].phase
    BY <1>1 DEF Object
  <2> QED BY <1>0, <1>5, <2>1, RestKept, ChangeKeepsInv DEF DeletePipeline, Unmoved
<1>6. CASE PushSigning(p)
  <2> DEFINE new == [api[p] EXCEPT !.keyless = TRUE]
  <2>1. new \in Object /\ new.ref = api[p].ref /\ new.phase = api[p].phase
    BY <1>1 DEF Object
  <2> QED BY <1>0, <1>6, <2>1, RestKept, ChangeKeepsInv DEF PushSigning, Unmoved
<1> QED BY <1>2, <1>3, <1>4, <1>5, <1>6

\* Tekton moves a run along.
LEMMA ProgressKeepsInv ==
    ASSUME IInv, NEW r \in Run, NEW st \in {"running", "succeeded", "failed"},
           runs[r].state \in {"pending", "running"},
           runs[r].state = "running" => st \in {"succeeded", "failed"}, Progress(r, st)
    PROVE  IInv'
<1>0. CopiesOK /\ RunsTyped /\ RestTyped /\ RunsOK /\ Progressed
  BY IInvParts
<1>1. /\ runs' \in [Run -> RunObject]
      /\ \A s \in Run : runs'[s].owner = runs[s].owner
      /\ runs'[r].state = st /\ \A s \in Run : s # r => runs'[s] = runs[s]
  BY <1>0, MovedRun DEF Progress, RunStates
<1>2. RunsTyped' /\ runSeen' = runSeen /\ nextRun' = nextRun
  BY <1>0, <1>1 DEF Progress, RunsTyped
<1>3. r < nextRun
  BY <1>0, ConstantsAssumption DEF RunsOK, NamedRuns, NoRunObject, RunsTyped, Run
<1>4. NamedRuns' /\ CachedRuns'
  <2>1. NamedRuns'
    <3> SUFFICES ASSUME NEW s \in Run
                 PROVE  /\ s >= nextRun => runs'[s] = NoRunObject /\ runSeen[s] = NoRunObject
                        /\ s < nextRun => runs'[s].owner \in Pipeline /\ runs'[s].state # "none"
      BY <1>2 DEF NamedRuns
    <3>1. CASE s = r
      BY <1>0, <1>1, <1>3, <3>1, ConstantsAssumption DEF RunsOK, NamedRuns, RunsTyped, Run
    <3>2. CASE s # r
      BY <1>0, <1>1, <3>2 DEF RunsOK, NamedRuns
    <3> QED BY <3>1, <3>2
  <2>2. CachedRuns'
    BY <1>0, <1>1, <1>2 DEF RunsOK, CachedRuns, Follows
  <2> QED BY <2>1, <2>2
<1>5. Later(runs, runs') /\ LaterCache(runSeen, runSeen')
  BY <1>1, <1>2 DEF Later, LaterCache, Follows
<1>6. CopiesOK' /\ RunsOK' /\ Progressed'
  BY <1>1, <1>2, <1>4, <1>5, RunsProgress DEF Progress
<1> QED BY <1>0, <1>2, <1>6, RestKept, IInvPartsPrimed DEF Progress

\* A run is pruned, or collected with everything else its owner left behind.
LEMMA DeletionKeepsInv ==
    ASSUME IInv, RestTyped', runs' \in [Run -> RunObject],
           \A r \in Run : runs'[r].owner = runs[r].owner /\ runs'[r].state = runs[r].state,
           \A r \in Run : runs[r].owner \notin Pipeline => runs'[r] = runs[r],
           UNCHANGED <<api, seen, lag, runSeen, nextRun, queue, workerVars>>
    PROVE  IInv'
<1>0. CopiesOK /\ RunsTyped /\ RestTyped /\ RunsOK /\ Progressed
  BY IInvParts
<1>1. RunsTyped'
  BY <1>0 DEF RunsTyped
<1>2. CachedRuns'
  BY <1>0 DEF RunsOK, CachedRuns
<1>3. NamedRuns'
  <2> SUFFICES ASSUME NEW r \in Run
               PROVE  /\ r >= nextRun => runs'[r] = NoRunObject /\ runSeen[r] = NoRunObject
                      /\ r < nextRun => runs'[r].owner \in Pipeline /\ runs'[r].state # "none"
    BY DEF NamedRuns
  <2>1. NoRunObject.owner \notin Pipeline BY ConstantsAssumption DEF NoRunObject
  <2> QED BY <1>0, <2>1 DEF RunsOK, NamedRuns
<1>4. Later(runs, runs') /\ LaterCache(runSeen, runSeen')
  BY DEF Later, LaterCache, Follows
<1>5. CopiesOK' /\ RunsOK' /\ Progressed'
  BY <1>1, <1>2, <1>3, <1>4, RunsProgress
<1> QED BY <1>1, <1>5, IInvPartsPrimed

LEMMA EnvironmentKeepsInv == ASSUME IInv, Environment PROVE IInv'
<1>0. CopiesOK /\ RunsTyped /\ RestTyped /\ RunsOK /\ Progressed
  BY IInvParts
<1>1. ASSUME NEW p \in Pipeline, CollectGarbage(p) PROVE IInv'
  <2>1. \A r \in Run : runs[r] \in RunObject /\ [runs[r] EXCEPT !.deleted = TRUE] \in RunObject
    BY <1>0 DEF RunsTyped, RunObject
  <2>2. \A r \in Run : /\ [runs[r] EXCEPT !.deleted = TRUE].owner = runs[r].owner
                       /\ [runs[r] EXCEPT !.deleted = TRUE].state = runs[r].state
    BY <2>1 DEF RunObject
  <2>3. runs' = [r \in Run |-> IF runs[r].owner = p
                               THEN [runs[r] EXCEPT !.deleted = TRUE] ELSE runs[r]]
    BY <1>1 DEF CollectGarbage
  <2>4. runs' \in [Run -> RunObject]
    BY <2>1, <2>3
  <2>5. /\ \A r \in Run : runs'[r].owner = runs[r].owner /\ runs'[r].state = runs[r].state
        /\ \A r \in Run : runs[r].owner \notin Pipeline => runs'[r] = runs[r]
    BY <2>2, <2>3
  <2>6. p \in Claim BY DEF Claim
  <2>7. RestTyped'
    BY <1>0, <1>1, <2>6, ConstantsAssumption DEF CollectGarbage, RestTyped, platVars
  <2> QED BY <1>1, <2>4, <2>5, <2>7, DeletionKeepsInv DEF CollectGarbage
<1>2. ASSUME NEW r \in Run, StartRun(r) \/ FinishRun(r) PROVE IInv'
  BY <1>2, ProgressKeepsInv DEF StartRun, FinishRun
<1>3. ASSUME NEW r \in Run, PruneRun(r) PROVE IInv'
  <2>1. runs[r].owner \in Pipeline
    BY <1>0, <1>3, ConstantsAssumption
    DEF PruneRun, RunExists, RunsOK, NamedRuns, NoRunObject, RunsTyped, Run
  <2>2. /\ runs' \in [Run -> RunObject]
        /\ \A s \in Run : runs'[s].owner = runs[s].owner /\ runs'[s].state = runs[s].state
        /\ \A s \in Run : s # r => runs'[s] = runs[s]
    BY <1>0, <1>3, DeletedRun DEF PruneRun
  <2>3. RestTyped'
    BY <1>0, <1>3, ConstantsAssumption DEF PruneRun, RestTyped, childVars
  <2> QED BY <1>3, <2>1, <2>2, <2>3, DeletionKeepsInv DEF PruneRun
<1>4. ASSUME NextDay \/ \E p \in Pipeline : ImportVersion(Base[p]) PROVE IInv'
  <2>1. /\ UNCHANGED <<api, seen, lag, runVars, queue, workerVars>>
        /\ RestTyped'
    BY <1>0, <1>4, ConstantsAssumption DEF NextDay, ImportVersion, RestTyped, childVars
  <2>2. CopiesOK' /\ Progressed'
    BY <1>0, <2>1 DEF CopiesOK, CopiesTyped, CurrentCopies, HonestCopies, Progressed,
                      ParentDone, workerVars, runVars
  <2> QED BY <1>0, <2>1, <2>2, RunsKept, IInvPartsPrimed
<1> QED BY <1>1, <1>2, <1>3, <1>4, UsersKeepInv DEF Environment

-----------------------------------------------------------------------------
(* The theorems *)

LEMMA InitInv == Init => IInv
<1> SUFFICES ASSUME Init PROVE IInv
  OBVIOUS
<1>1. CopiesTyped
  BY NoObjectTyped DEF Init, CopiesTyped
<1>2. NoRunObject \in RunObject
  BY DEF NoRunObject, RunObject, RunStates, Claim
<1>3. RunsTyped
  BY <1>2, ConstantsAssumption DEF Init, RunsTyped
<1>4. RestTyped
  BY ConstantsAssumption DEF Init, RestTyped
<1>5. CurrentCopies /\ HonestCopies
  BY DEF Init, CurrentCopies, HonestCopies, Honest, NoObject
<1>6. RunsOK
  BY ConstantsAssumption
  DEF Init, RunsOK, NamedRuns, CachedRuns, Follows, NoRunObject, ChildAfterParent, Run
<1>7. Progressed
  BY DEF Init, Progressed, Bindless, PastParent
<1> QED BY <1>1, <1>3, <1>4, <1>5, <1>6, <1>7, IInvParts DEF CopiesOK

LEMMA NextKeepsInv == IInv /\ [Next]_vars => IInv'
<1> SUFFICES ASSUME IInv, [Next]_vars PROVE IInv'
  OBVIOUS
<1>1. CASE Next
  BY <1>1, ReconcileKeepsInv, StepKeepsInv, AbortKeepsInv, RestartKeepsInv,
     InformersKeepInv, EnvironmentKeepsInv DEF Next
<1>2. CASE UNCHANGED vars
  <2>0. CopiesOK /\ RunsTyped /\ RestTyped /\ RunsOK /\ Progressed
    BY IInvParts
  <2>1. CopiesOK' /\ Progressed'
    BY <1>2, <2>0 DEF vars, CopiesOK, CopiesTyped, CurrentCopies, HonestCopies, Progressed,
                      ParentDone, workerVars, runVars
  <2> QED BY <1>2, <2>0, <2>1, RunsKept, RestKept, IInvPartsPrimed DEF vars
<1> QED BY <1>1, <1>2

\* The inductive invariant holds in every reachable state.
THEOREM Invariance == Spec => []IInv
  BY InitInv, NextKeepsInv, PTL DEF Spec

\* Every copy, run and counter of the controller stays in its type, for every
\* set of pipelines and every bound.
THEOREM TypeCorrect == Spec => []TypeOK
<1>1. IInv => TypeOK BY DEF IInv
<1> QED BY <1>1, Invariance, PTL

\* A pipeline that reports Complete is bound to a run of its own that succeeded,
\* however stale the copies Reconcile and trackPipelineRun worked on.
THEOREM CompleteTrue == Spec => []CompleteIsReal
<1>1. IInv => CompleteIsReal
  <2> SUFFICES ASSUME IInv, NEW p \in Pipeline, api[p].phase = "Complete"
               PROVE  /\ api[p].ref \in Run
                      /\ runs[api[p].ref].state = "succeeded" /\ runs[api[p].ref].owner = p
    BY DEF CompleteIsReal
  <2>1. api[p].ref \in Run \cup {NoRun} /\ Honest(api[p], p, runs, runSeen)
    BY DEF IInv, TypeOK, Object, HonestCopies
  <2>2. /\ api[p].ref \in Run /\ runs[api[p].ref].owner = p
        /\ runSeen[api[p].ref].state = "succeeded"
    BY <2>1 DEF Honest
  <2> QED BY <2>2 DEF IInv, CachedRuns, Follows
<1> QED BY <1>1, Invariance, PTL

\* No run of a child is created before some run of its parent has succeeded
\* (the parent check of Reconcile, on a cached parent).
THEOREM ChildrenWait == Spec => []ChildAfterParent
<1>1. IInv => ChildAfterParent BY DEF IInv
<1> QED BY <1>1, Invariance, PTL

-----------------------------------------------------------------------------
(* Refinement *)

\* A run that is about to be bound is bound nowhere yet.
Fresh == pc = "bind" => \A p \in Pipeline : api[p].ref # mine /\ seen[p].ref # mine

LEMMA NextKeepsFresh == IInv /\ Fresh /\ [Next]_vars => Fresh'
<1> SUFFICES ASSUME IInv, Fresh, [Next]_vars, pc' = "bind", NEW p \in Pipeline
             PROVE  api'[p].ref # mine' /\ seen'[p].ref # mine'
  BY DEF Fresh
<1>0. CopiesOK /\ RunsTyped /\ RestTyped /\ RunsOK /\ Progressed
  BY IInvParts
<1>1. CASE CreateRun
  <2>1. nextRun \in Run /\ nextRun # NoRun /\ runs[nextRun].owner \notin Pipeline
    BY <1>0, <1>1, ConstantsAssumption
    DEF CreateRun, RunsTyped, Run, NoRun, RunsOK, NamedRuns, NoRunObject
  <2>2. Honest(api[p], p, runs, runSeen) /\ Honest(seen[p], p, runs, runSeen)
    BY <1>0 DEF CopiesOK, HonestCopies
  <2>3. api[p].ref # nextRun /\ seen[p].ref # nextRun
    <3>1. \A o : Honest(o, p, runs, runSeen) => o.ref = NoRun \/ runs[o.ref].owner = p
      BY DEF Honest
    <3> QED BY <2>1, <2>2, <3>1
  <2>4. mine' = nextRun /\ api' = api /\ seen' = seen
    BY <1>1 DEF CreateRun
  <2> QED BY <2>3, <2>4
<1>2. CASE Step /\ ~CreateRun
  BY <1>2 DEF Step, AddFinalizer, EnsureConfig, CheckTrigger, ResetStatus, ExpandPVC,
     trackPipelineRun, updatePlatformCollectionHistory, ValidateParent, AssignVersion,
     EnsureClaim, EnsureVolume, AwaitSigning, BindRun, DeleteWorkingPVC, ReleasePipeline,
     Write, WriteAndReturn, Skip, Return, AwaitParent, Finish, Continue
<1>3. CASE (\E q \in Pipeline : Reconcile(q)) \/ Abort \/ Restart
  BY <1>3 DEF Reconcile, Abort, Restart, Return, Finish, workerVars
<1>4. CASE Informers
  BY <1>0, <1>4 DEF Informers, SyncPipeline, SyncRun, workerVars, Fresh, CopiesOK, CopiesTyped
<1>5. CASE Environment
  <2>1. ASSUME NEW q \in Pipeline,
               \/ CreatePipeline(q) \/ AnnotateTrigger(q) \/ GrowStorage(q)
               \/ DeletePipeline(q) \/ PushSigning(q)
        PROVE  /\ pc' = pc /\ mine' = mine /\ seen' = seen
               /\ api'[p].ref = api[p].ref
    BY <1>0, <2>1 DEF CreatePipeline, AnnotateTrigger, GrowStorage, DeletePipeline,
       PushSigning, Change, Store, CopiesOK, CopiesTyped, Object
  <2>2. ASSUME NEW q \in Pipeline, CollectGarbage(q)
        PROVE  UNCHANGED <<pc, mine, seen, api>>
    BY <2>2 DEF CollectGarbage, workerVars
  <2>3. ASSUME \/ \E r \in Run : StartRun(r) \/ FinishRun(r) \/ PruneRun(r)
               \/ NextDay \/ \E q \in Pipeline : ImportVersion(Base[q])
        PROVE  UNCHANGED <<pc, mine, seen, api>>
    BY <2>3 DEF StartRun, FinishRun, PruneRun, Progress, NextDay, ImportVersion, workerVars
  <2> QED BY <1>5, <2>1, <2>2, <2>3 DEF Environment, Fresh
<1>6. CASE UNCHANGED vars
  BY <1>6 DEF vars, workerVars, Fresh
<1> QED BY <1>1, <1>2, <1>3, <1>4, <1>5, <1>6 DEF Next

\* A step that leaves the phases, the bound runs and the outcomes alone.
LEMMA Stutters ==
    ASSUME \A p \in Pipeline : api'[p].phase = api[p].phase /\ api'[p].ref = api[p].ref,
           \A r \in Run : runs'[r].owner = runs[r].owner /\ runs'[r].state = runs[r].state
    PROVE  UNCHANGED Lifecycle!vars
<1>1. absStatus' = absStatus BY DEF absStatus
<1>2. absOutcome' = absOutcome BY DEF absOutcome
<1>3. absOwner' = absOwner BY DEF absOwner
<1> QED BY <1>1, <1>2, <1>3 DEF Lifecycle!vars

\* A write of one object reports its phase and its bound run.
LEMMA Reports ==
    ASSUME api \in [Pipeline -> Object], NEW p \in Pipeline, NEW new \in Object,
           api' = [api EXCEPT ![p] = new], UNCHANGED runs
    PROVE  Lifecycle!Report(p, new.phase, new.ref)
<1>1. absStatus' = [absStatus EXCEPT ![p] = [phase |-> new.phase, ref |-> new.ref]]
  BY DEF absStatus
<1>2. absOutcome' = absOutcome /\ absOwner' = absOwner BY DEF absOutcome, absOwner
<1> QED BY <1>1, <1>2 DEF Lifecycle!Report

\* A write of the reconciliation takes effect on the object it was read from.
LEMMA WriteTakesEffect ==
    ASSUME CopiesOK, pc # "idle", NEW new, NEW next, NEW requeue,
           Write(new, next) \/ WriteAndReturn(new, requeue)
    PROVE  api' = api \/ (obj = api[key] /\ api' = [api EXCEPT ![key] = new])
  BY DEF CopiesOK, CurrentCopies, Write, WriteAndReturn, Store

\* A write that keeps the phase and the bound run is invisible to the abstract
\* specification.
LEMMA SilentWrite ==
    ASSUME CopiesOK, pc # "idle", NEW new, NEW next, NEW requeue,
           Write(new, next) \/ WriteAndReturn(new, requeue),
           new.phase = obj.phase, new.ref = obj.ref, UNCHANGED runs
    PROVE  UNCHANGED Lifecycle!vars
<1>1. \A p \in Pipeline : api'[p].phase = api[p].phase /\ api'[p].ref = api[p].ref
  BY WriteTakesEffect DEF CopiesOK, CopiesTyped
<1> QED BY <1>1, Stutters

\* Every call of a reconciliation is a step of CollectionLifecycle, or invisible.
LEMMA StepImplements ==
    ASSUME IInv, Fresh, Step PROVE [Lifecycle!Next]_(Lifecycle!vars)
<1> USE DEF runVars
<1>0. CopiesOK /\ RunsTyped /\ RestTyped /\ RunsOK /\ Progressed
  BY IInvParts
<1>h. ASSUME pc # "idle"
      PROVE  /\ key \in Pipeline /\ obj \in Object /\ Honest(obj, key, runs, runSeen)
             /\ api[key] \in Object /\ api \in [Pipeline -> Object]
  BY <1>0, <1>h DEF CopiesOK, CopiesTyped, HonestCopies
<1>s. absStatus = [p \in Pipeline |-> [phase |-> api[p].phase, ref |-> api[p].ref]]
  BY DEF absStatus
<1>1. CASE AddFinalizer
  BY <1>0, <1>1, <1>h, SilentWrite DEF AddFinalizer, Object
<1>2. CASE EnsureConfig
  BY <1>0, <1>2, <1>h, SilentWrite, Stutters DEF EnsureConfig, Object, Skip
<1>3. CASE CheckTrigger
  BY <1>0, <1>3, <1>h, SilentWrite DEF CheckTrigger, Object
<1>4. CASE ResetStatus
  <2> DEFINE new == ResetFields(obj)
  <2>0. pc = "reset" /\ pc # "idle" /\ obj.ref # NoRun /\ obj.phase \in Done /\ UNCHANGED runs
    BY <1>0, <1>4 DEF ResetStatus, Progressed
  <2>1. new \in Object /\ new.phase = "" /\ new.ref = NoRun
    BY <2>0, <1>h DEF ResetFields, Object, Phases
  <2>2. CASE api' = api
    BY <2>0, <2>2, Stutters
  <2>3. CASE obj = api[key] /\ api' = [api EXCEPT ![key] = new]
    <3>1. Lifecycle!Report(key, "", NoRun)
      BY <1>h, <2>0, <2>1, <2>3, Reports
    <3>2. absStatus[key].ref # NoRun /\ absStatus[key].phase \in {"Complete", "Failed"}
      BY <1>h, <1>s, <2>0, <2>3 DEF Done
    <3>3. Lifecycle!Reset(key)
      BY <3>1, <3>2 DEF Lifecycle!Reset
    <3> QED BY <1>h, <2>0, <3>3 DEF Lifecycle!Next
  <2> QED BY <1>0, <1>4, <2>0, <2>2, <2>3, WriteTakesEffect DEF ResetStatus
<1>5. CASE ExpandPVC
  BY <1>5, Stutters DEF ExpandPVC, Skip
<1>6. CASE trackPipelineRun
  <2> DEFINE pr == runSeen[obj.ref]
             new == [obj EXCEPT !.phase = collectionPipelineRunPhase(pr)]
             lost == [obj EXCEPT !.ref = NoRun, !.phase = "Stale"]
  <2>0. pc = "track" /\ pc # "idle" /\ obj.ref # NoRun /\ obj.ref \in Run /\ UNCHANGED runs
    BY <1>0, <1>6, <1>h DEF trackPipelineRun, Progressed, Object
  <2>1. new \in Object /\ lost \in Object
    BY <2>0, <1>h, RunPhases DEF Object, Phases
  <2>2. CASE WriteAndReturn(lost, FALSE)
    <3>1. CASE api' = api BY <2>0, <3>1, Stutters
    <3>2. CASE obj = api[key] /\ api' = [api EXCEPT ![key] = lost]
      <4>1. lost.phase = "Stale" /\ lost.ref = NoRun
        BY <2>0, <1>h DEF Object
      <4>2. Lifecycle!Report(key, "Stale", NoRun)
        BY <1>h, <2>0, <2>1, <3>2, <4>1, Reports
      <4>3. absStatus[key].ref # NoRun
        BY <1>h, <1>s, <2>0, <3>2
      <4>4. Lifecycle!Lose(key)
        BY <4>2, <4>3 DEF Lifecycle!Lose
      <4> QED BY <1>h, <2>0, <4>4 DEF Lifecycle!Next
    <3> QED BY <1>0, <2>0, <2>2, <3>1, <3>2, WriteTakesEffect
  <2>3. CASE Write(new, "history") \/ WriteAndReturn(new, ~RunDone(pr))
    <3>1. CASE api' = api BY <2>0, <3>1, Stutters
    <3>2. CASE obj = api[key] /\ api' = [api EXCEPT ![key] = new]
      <4>1. new.ref = obj.ref /\ new.phase = collectionPipelineRunPhase(pr)
        BY <2>0, <1>h DEF Object
      <4>2. Lifecycle!Report(key, new.phase, obj.ref)
        BY <1>h, <2>0, <2>1, <3>2, <4>1, Reports
      <4>3. absStatus[key].ref = obj.ref /\ absStatus[key].phase = obj.phase
        BY <1>h, <1>s, <2>0, <3>2
      <4>4. new.phase \in {"Pending", "Collecting", "Complete", "Failed"}
        BY <4>1 DEF collectionPipelineRunPhase
      <4>5. new.phase = obj.phase \/ Lifecycle!Rank(new.phase) > Lifecycle!Rank(obj.phase)
        <5>1. /\ obj.phase \in {"Pending", "Collecting", "Complete", "Failed"}
              /\ obj.phase = "Collecting" => pr.state \in {"running", "succeeded", "failed"}
              /\ obj.phase = "Complete" => pr.state = "succeeded"
              /\ obj.phase = "Failed" => pr.state = "failed"
          BY <1>h, <2>0 DEF Honest
        <5>2. /\ obj.phase = "Collecting" => new.phase \in {"Collecting", "Complete", "Failed"}
              /\ obj.phase \in {"Complete", "Failed"} => new.phase = obj.phase
          BY <4>1, <5>1 DEF collectionPipelineRunPhase
        <5> QED BY <4>4, <5>1, <5>2 DEF Lifecycle!Rank
      <4>6. Lifecycle!Truthful(new.phase, obj.ref)
        <5>1. /\ new.phase = "Complete" => pr.state = "succeeded"
              /\ new.phase = "Failed" => pr.state = "failed"
          BY <4>1 DEF collectionPipelineRunPhase
        <5>2. Follows(pr.state, runs[obj.ref].state)
          BY <1>0, <2>0 DEF RunsOK, CachedRuns
        <5> QED BY <2>0, <5>1, <5>2 DEF Lifecycle!Truthful, absOutcome, Follows
      <4>7. CASE new.phase = obj.phase
        <5>1. \A p \in Pipeline : api'[p].phase = api[p].phase /\ api'[p].ref = api[p].ref
          BY <1>h, <2>0, <3>2, <4>1, <4>7
        <5> QED BY <2>0, <5>1, Stutters
      <4>8. CASE new.phase # obj.phase
        <5>1. Lifecycle!Advance(key)
          BY <2>0, <4>2, <4>3, <4>4, <4>5, <4>6, <4>8 DEF Lifecycle!Advance
        <5> QED BY <1>h, <2>0, <5>1 DEF Lifecycle!Next
      <4> QED BY <4>7, <4>8
    <3> QED BY <1>0, <2>0, <2>3, <3>1, <3>2, WriteTakesEffect
  <2> QED BY <1>6, <2>2, <2>3 DEF trackPipelineRun
<1>7. CASE updatePlatformCollectionHistory
  BY <1>7, Stutters DEF updatePlatformCollectionHistory, Return
<1>8. CASE ValidateParent
  <2> DEFINE parent == seen[Parent[key]]
             new == [obj EXCEPT !.parentVersion = parent.version]
             failed == [obj EXCEPT !.phase = "Failed"]
  <2>0. pc # "idle" /\ obj.ref = NoRun /\ UNCHANGED runs
    BY <1>0, <1>8 DEF ValidateParent, Progressed, Bindless
  <2>1. CASE UNCHANGED api
    BY <2>0, <2>1, Stutters
  <2>2. CASE Parent[key] # NoPipeline /\ WriteAndReturn(failed, FALSE)
    <3>1. CASE api' = api BY <2>0, <3>1, Stutters
    <3>2. CASE obj = api[key] /\ api' = [api EXCEPT ![key] = failed]
      <4>1. failed \in Object /\ failed.phase = "Failed" /\ failed.ref = NoRun
        BY <2>0, <1>h DEF Object, Phases
      <4>2. Lifecycle!Report(key, "Failed", NoRun)
        BY <1>h, <2>0, <3>2, <4>1, Reports
      <4>3. absStatus[key].ref = NoRun
        BY <1>h, <1>s, <2>0, <3>2
      <4>4. Lifecycle!Reject(key)
        BY <2>2, <4>2, <4>3 DEF Lifecycle!Reject
      <4> QED BY <1>h, <2>0, <4>4 DEF Lifecycle!Next
    <3> QED BY <1>0, <2>0, <2>2, <3>1, <3>2, WriteTakesEffect
  <2>3. CASE Write(new, "version")
    BY <1>0, <1>h, <2>0, <2>3, SilentWrite DEF Object
  <2> QED BY <1>8, <2>1, <2>2, <2>3 DEF ValidateParent, Skip, AwaitParent, Return
<1>9. CASE AssignVersion
  BY <1>0, <1>9, <1>h, SilentWrite, Stutters DEF AssignVersion, Object, Skip, Return
<1>10. CASE EnsureClaim
  BY <1>0, <1>10, <1>h, SilentWrite, Stutters DEF EnsureClaim, Object, Skip, Return
<1>11. CASE EnsureVolume
  BY <1>11, Stutters DEF EnsureVolume, Skip, Return
<1>12. CASE AwaitSigning
  BY <1>12, Stutters DEF AwaitSigning, Return
<1>13. CASE CreateRun
  <2> DEFINE parent == IF Parent[key] = NoPipeline THEN NoObject ELSE seen[Parent[key]]
             new == [state |-> "pending", deleted |-> FALSE, owner |-> key,
                     keyless |-> obj.keyless, claim |-> runPVCName(key, obj, parent),
                     version |-> obj.version]
  <2>1. /\ nextRun \in Run /\ runs[nextRun] = NoRunObject /\ key \in Pipeline
        /\ Parent[key] # NoPipeline => ParentDone(key, runs)
    BY <1>0, <1>13, <1>h, ConstantsAssumption
    DEF CreateRun, RunsTyped, Run, RunsOK, NamedRuns, Progressed, PastParent
  <2>2. runs' = [runs EXCEPT ![nextRun] = new] /\ api' = api
    BY <1>13 DEF CreateRun
  <2>3. absStatus' = absStatus
    BY <2>2 DEF absStatus
  <2>4. absOwner' = [absOwner EXCEPT ![nextRun] = key]
    BY <1>0, <2>1, <2>2 DEF absOwner, RunsTyped
  <2>5. absOutcome' = [absOutcome EXCEPT ![nextRun] = "open"]
    BY <1>0, <2>1, <2>2 DEF absOutcome, RunsTyped
  <2>6. absOutcome[nextRun] = "none"
    BY <2>1 DEF absOutcome, NoRunObject
  <2>7. Parent[key] # NoPipeline =>
            \E s \in Run : absOwner[s] = Parent[key] /\ absOutcome[s] = "succeeded"
    BY <2>1 DEF ParentDone, absOwner, absOutcome
  <2>8. Lifecycle!Create(key, nextRun)
    BY <2>3, <2>4, <2>5, <2>6, <2>7 DEF Lifecycle!Create
  <2> QED BY <2>1, <2>8 DEF Lifecycle!Next
<1>14. CASE BindRun
  <2> DEFINE latest == seen[key]
             bound == [latest EXCEPT !.ref = mine, !.phase = "Pending"]
  <2>0. pc = "bind" /\ mine \in Run /\ runs[mine].owner = key /\ latest \in Object
    BY <1>0, <1>14, <1>h DEF BindRun, Progressed, CopiesOK, CopiesTyped
  <2>1. CASE Return(TRUE)
    <3>1. \A r \in Run : runs'[r].owner = runs[r].owner /\ runs'[r].state = runs[r].state
      BY <1>0, <1>14, <2>0, DeletedRun DEF BindRun
    <3> QED BY <2>1, <3>1, Stutters DEF Return
  <2>2. CASE /\ Exists(latest) /\ ~HasRival(latest) /\ key \notin lag
             /\ Store(key, bound) /\ Finish(FALSE) /\ UNCHANGED runs
    <3>1. latest = api[key] /\ latest.ref = NoRun
      BY <1>0, <1>h, <2>0, <2>2 DEF CopiesOK, CurrentCopies, HasRival, Fresh
    <3>2. bound \in Object /\ bound.phase = "Pending" /\ bound.ref = mine
      BY <2>0 DEF Object, Phases
    <3>3. Lifecycle!Report(key, "Pending", mine)
      BY <1>h, <2>0, <2>2, <3>2, Reports DEF Store
    <3>4. absStatus[key].ref = NoRun /\ absOwner[mine] = key
      BY <1>h, <1>s, <2>0, <3>1 DEF absOwner
    <3>5. Lifecycle!Bind(key, mine)
      BY <3>3, <3>4 DEF Lifecycle!Bind
    <3> QED BY <1>h, <2>0, <3>5 DEF Lifecycle!Next
  <2> QED BY <1>14, <2>1, <2>2 DEF BindRun
<1>15. CASE DeleteWorkingPVC
  BY <1>15, Stutters DEF DeleteWorkingPVC, Skip
<1>16. CASE ReleasePipeline
  BY <1>0, <1>16, <1>h, SilentWrite, Stutters DEF ReleasePipeline, Object, Return
<1> QED
  BY <1>1, <1>2, <1>3, <1>4, <1>5, <1>6, <1>7, <1>8, <1>9, <1>10, <1>11, <1>12, <1>13,
     <1>14, <1>15, <1>16 DEF Step

\* Only the outcome of a run is visible of what everybody else does.
LEMMA EnvironmentImplements ==
    ASSUME IInv, Environment PROVE [Lifecycle!Next]_(Lifecycle!vars)
<1>0. CopiesOK /\ RunsTyped /\ RestTyped /\ RunsOK /\ Progressed
  BY IInvParts
<1>1. ASSUME NEW q \in Pipeline,
             \/ CreatePipeline(q) \/ AnnotateTrigger(q) \/ GrowStorage(q)
             \/ DeletePipeline(q) \/ PushSigning(q)
      PROVE  UNCHANGED Lifecycle!vars
  <2>0. api \in [Pipeline -> Object] /\ api[q] \in Object
    BY <1>0 DEF CopiesOK, CopiesTyped
  <2>1. \A p \in Pipeline : api'[p].phase = api[p].phase /\ api'[p].ref = api[p].ref
    <3>1. ASSUME NEW new, Change(q, new), new.phase = api[q].phase, new.ref = api[q].ref
          PROVE  \A p \in Pipeline : api'[p].phase = api[p].phase /\ api'[p].ref = api[p].ref
      BY <2>0, <3>1 DEF Change, Store
    <3>2. CASE CreatePipeline(q)    BY <2>0, <3>1, <3>2 DEF CreatePipeline, Object
    <3>3. CASE AnnotateTrigger(q)   BY <2>0, <3>1, <3>3 DEF AnnotateTrigger, Object
    <3>4. CASE GrowStorage(q)       BY <2>0, <3>1, <3>4 DEF GrowStorage, Object
    <3>5. CASE DeletePipeline(q)    BY <2>0, <3>1, <3>5 DEF DeletePipeline, Object
    <3>6. CASE PushSigning(q)       BY <2>0, <3>1, <3>6 DEF PushSigning, Object
    <3> QED BY <1>1, <3>2, <3>3, <3>4, <3>5, <3>6
  <2>2. runs' = runs
    BY <1>1 DEF CreatePipeline, AnnotateTrigger, GrowStorage, DeletePipeline,
       PushSigning, Unmoved, runVars
  <2> QED BY <2>1, <2>2, Stutters
<1>2. ASSUME NEW q \in Pipeline, CollectGarbage(q) PROVE UNCHANGED Lifecycle!vars
  <2>1. \A r \in Run : /\ [runs[r] EXCEPT !.deleted = TRUE].owner = runs[r].owner
                       /\ [runs[r] EXCEPT !.deleted = TRUE].state = runs[r].state
    BY <1>0 DEF RunsTyped, RunObject
  <2>2. \A r \in Run : runs'[r].owner = runs[r].owner /\ runs'[r].state = runs[r].state
    BY <1>2, <2>1 DEF CollectGarbage
  <2> QED BY <1>2, <2>2, Stutters DEF CollectGarbage
<1>3. ASSUME NEW r \in Run, PruneRun(r) PROVE UNCHANGED Lifecycle!vars
  <2>1. \A s \in Run : runs'[s].owner = runs[s].owner /\ runs'[s].state = runs[s].state
    BY <1>0, <1>3, DeletedRun DEF PruneRun
  <2> QED BY <1>3, <2>1, Stutters DEF PruneRun
<1>4. ASSUME NEW r \in Run, StartRun(r) PROVE UNCHANGED Lifecycle!vars
  <2>1. /\ \A s \in Run : runs'[s].owner = runs[s].owner
        /\ runs'[r].state = "running" /\ \A s \in Run : s # r => runs'[s] = runs[s]
    BY <1>0, <1>4, MovedRun DEF StartRun, Progress, RunStates
  <2>2. absOutcome' = absOutcome /\ absOwner' = absOwner
    BY <1>4, <2>1 DEF StartRun, absOutcome, absOwner
  <2>3. absStatus' = absStatus
    BY <1>4 DEF StartRun, Progress, absStatus
  <2> QED BY <2>2, <2>3 DEF Lifecycle!vars
<1>5. ASSUME NEW r \in Run, FinishRun(r) PROVE Lifecycle!Next
  <2>1. PICK st \in {"succeeded", "failed"} : Progress(r, st)
    BY <1>5 DEF FinishRun
  <2>2. /\ \A s \in Run : runs'[s].owner = runs[s].owner
        /\ runs'[r].state = st /\ \A s \in Run : s # r => runs'[s] = runs[s]
    BY <1>0, <2>1, MovedRun DEF Progress, RunStates
  <2>3. absOutcome[r] = "open" /\ absOutcome' = [absOutcome EXCEPT ![r] = st]
    BY <1>5, <2>2 DEF FinishRun, absOutcome
  <2>4. absOwner' = absOwner /\ absStatus' = absStatus
    BY <2>1, <2>2 DEF Progress, absOwner, absStatus
  <2>5. Lifecycle!Conclude(r)
    BY <2>3, <2>4 DEF Lifecycle!Conclude
  <2> QED BY <2>5 DEF Lifecycle!Next
<1>6. ASSUME NextDay \/ \E q \in Pipeline : ImportVersion(Base[q])
      PROVE  UNCHANGED Lifecycle!vars
  BY <1>6, Stutters DEF NextDay, ImportVersion, runVars
<1> QED BY <1>1, <1>2, <1>3, <1>4, <1>5, <1>6 DEF Environment

LEMMA NextImplements ==
    IInv /\ Fresh /\ [Next]_vars => [Lifecycle!Next]_(Lifecycle!vars)
<1> SUFFICES ASSUME IInv, Fresh, [Next]_vars PROVE [Lifecycle!Next]_(Lifecycle!vars)
  OBVIOUS
<1>1. CASE (\E p \in Pipeline : Reconcile(p)) \/ Abort \/ Restart \/ Informers \/ UNCHANGED vars
  BY <1>1, Stutters
  DEF Reconcile, Abort, Return, Restart, Informers, SyncPipeline, SyncRun, vars, runVars
<1> QED BY <1>1, StepImplements, EnvironmentImplements DEF Next

LEMMA Reachable == Spec => [](IInv /\ Fresh)
<1>1. Init => Fresh BY DEF Init, Fresh
<1> QED BY <1>1, InitInv, NextKeepsInv, NextKeepsFresh, PTL DEF Spec

\* The controller implements CollectionLifecycle: whatever conflicts, stale reads
\* and restarts it meets, a reader of the status sees one collection at a time
\* that only moves forward and ends in the run's real outcome.
THEOREM Implementation == Spec => ImplementsLifecycle
<1>1. Init => Lifecycle!Init
  <2> SUFFICES ASSUME Init PROVE Lifecycle!Init
    OBVIOUS
  <2>1. absStatus = [p \in Pipeline |-> [phase |-> "", ref |-> NoRun]]
    BY DEF Init, absStatus, NoObject
  <2>2. absOutcome = [r \in Run |-> "none"]
    BY DEF Init, absOutcome, NoRunObject
  <2>3. absOwner = [r \in Run |-> NoPipeline]
    BY DEF Init, absOwner, NoRunObject
  <2> QED BY <2>1, <2>2, <2>3 DEF Lifecycle!Init
<1> QED BY <1>1, NextImplements, Reachable, PTL DEF Spec, ImplementsLifecycle, Lifecycle!Spec

\* No write of the controller replaces a bound run by another one, because no
\* step of CollectionLifecycle does.
THEOREM RefsAreCleared == Spec => RefNeverSwapped
<1> DEFINE Kept == \A p \in Pipeline : api[p].ref # NoRun => api'[p].ref \in {api[p].ref, NoRun}
<1>1. ASSUME [Lifecycle!Next]_(Lifecycle!vars) PROVE Kept
  <2> SUFFICES ASSUME NEW p \in Pipeline, absStatus[p].ref # NoRun
               PROVE  absStatus'[p].ref \in {absStatus[p].ref, NoRun}
    BY DEF absStatus
  <2>0. \A q \in Pipeline : \A phase, r :
           Lifecycle!Report(q, phase, r) =>
               absStatus'[p].ref = IF q = p THEN r ELSE absStatus[p].ref
    BY DEF Lifecycle!Report, absStatus
  <2>1. CASE UNCHANGED Lifecycle!vars
    BY <2>1 DEF Lifecycle!vars
  <2>2. ASSUME NEW q \in Pipeline, NEW r \in Run, Lifecycle!Create(q, r)
        PROVE  absStatus' = absStatus
    BY <2>2 DEF Lifecycle!Create
  <2>3. ASSUME NEW r \in Run, Lifecycle!Conclude(r) PROVE absStatus' = absStatus
    BY <2>3 DEF Lifecycle!Conclude
  <2>4. ASSUME NEW q \in Pipeline, NEW r \in Run, Lifecycle!Bind(q, r)
        PROVE  absStatus'[p].ref = absStatus[p].ref
    BY <2>0, <2>4 DEF Lifecycle!Bind
  <2>5. ASSUME NEW q \in Pipeline, Lifecycle!Advance(q)
        PROVE  absStatus'[p].ref = absStatus[p].ref
    BY <2>0, <2>5 DEF Lifecycle!Advance
  <2>6. ASSUME NEW q \in Pipeline, Lifecycle!Lose(q) \/ Lifecycle!Reset(q) \/ Lifecycle!Reject(q)
        PROVE  absStatus'[p].ref \in {absStatus[p].ref, NoRun}
    BY <2>0, <2>6 DEF Lifecycle!Lose, Lifecycle!Reset, Lifecycle!Reject
  <2> QED BY <1>1, <2>1, <2>2, <2>3, <2>4, <2>5, <2>6 DEF Lifecycle!Next
<1>2. IInv /\ Fresh /\ [Next]_vars => [Kept]_vars
  BY <1>1, NextImplements
<1> QED BY <1>2, Reachable, PTL DEF Spec, RefNeverSwapped

=============================================================================
