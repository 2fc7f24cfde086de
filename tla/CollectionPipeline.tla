------------------------- MODULE CollectionPipeline -------------------------
(***************************************************************************)
(* The CollectionPipeline controller: Reconcile, trackPipelineRun, cleanup *)
(* and the helpers they call (internal/controller/                         *)
(* collectionpipeline_controller.go), run by one controller-runtime worker *)
(* against an API server with optimistic concurrency.                      *)
(*                                                                         *)
(* Every read of the reconciler goes through the manager's informer cache  *)
(* (seen, runSeen), which may lag behind the API server (api, runs); every *)
(* write is refused with a conflict when the copy it is based on is not    *)
(* the current one.  One reconciliation is a sequence of actions, one per  *)
(* API write, so that the other controllers, Tekton, the garbage collector *)
(* and the user act between any two of its writes.                         *)
(***************************************************************************)
EXTENDS Integers, FiniteSets

CONSTANTS
    Pipeline,     \* names of the CollectionPipeline resources
    NoPipeline,   \* the empty spec.parentPipeline
    Parent,       \* spec.parentPipeline of every pipeline
    TriggerType,  \* spec.triggerType of every pipeline, "" resolved to manual
    Incremental,  \* pipelines with spec.incremental
    Base,         \* spec.baseVersion of every pipeline, NoVersion when empty
    Signing,      \* "none", "disabled" or "enabled": the platform's
                  \* connected.rhtas.oidc.managed block (absent, enabled: false/true)
    Deletable,    \* pipelines the user may delete
    Growable,     \* pipelines whose storageSize the user may raise
    MaxRuns,      \* bound: PipelineRun names the API server hands out
    MaxDay,       \* bound: days the clock may show
    MaxSize,      \* bound: storage sizes, in units of the 100Gi default
    MaxTriggers,  \* bound: trigger annotations set by the user
    MaxFaults,    \* bound: API errors and operator restarts
    MaxPrunes     \* bound: PipelineRuns removed by somebody else

NoVersion == [day |-> 0, tt |-> "none"]
TriggerTypes == {"manual", "scheduled"}
Version == [day : 1..MaxDay, tt : TriggerTypes]
Run == 1..MaxRuns
NoRun == 0

ASSUME ConstantsAssumption ==
    /\ NoPipeline \notin Pipeline \cup Version
    /\ Parent \in [Pipeline -> Pipeline \cup {NoPipeline}]
    /\ TriggerType \in [Pipeline -> TriggerTypes]
    /\ Incremental \subseteq Pipeline
    /\ Base \in [Pipeline -> Version \cup {NoVersion}]
    /\ Signing \in {"none", "disabled", "enabled"}
    /\ Deletable \subseteq Pipeline /\ Growable \subseteq Pipeline
    /\ MaxRuns \in Nat /\ MaxDay \in Nat \ {0} /\ MaxSize \in Nat \ {0}
    /\ MaxTriggers \in Nat /\ MaxFaults \in Nat /\ MaxPrunes \in Nat

VARIABLES
    api,       \* the CollectionPipeline objects on the API server
    seen,      \* the informer cache's copies of them
    lag,       \* pipelines whose cached copy is not the current one
    runs,      \* the PipelineRuns on the API server
    runSeen,   \* the informer cache's copies of them
    nextRun,   \* the next generated PipelineRun name
    pvc,       \* requested size of each working PVC, 0 when it does not exist
    cm,        \* pipelines whose mirror-config ConfigMap exists
    s3Jobs,    \* pipelines with an s3-cleanup Job
    history,   \* versions reported to the platform's collectionHistory
    imported,  \* versions in the platform's importHistory
    today,     \* the date generateVersion reads
    queue,     \* the controller's workqueue
    pc,        \* the next call of the running reconciliation, "idle" between two
    key,       \* its request
    obj,       \* its in-memory copy of the pipeline
    cur,       \* TRUE while obj carries the current resourceVersion
    mine,      \* the PipelineRun it has created
    used       \* what the environment has spent of its bounds

runVars    == <<runs, runSeen, nextRun>>
childVars  == <<pvc, cm, s3Jobs>>
platVars   == <<history, imported, today, used>>
workerVars == <<pc, key, obj, cur, mine>>
vars == <<api, seen, lag, runVars, childVars, platVars, queue, workerVars>>

-----------------------------------------------------------------------------
(* Objects *)

UsesBase(p) == p \in Incremental /\ Base[p] # NoVersion
Claim == Pipeline \cup {NoPipeline} \cup {Base[p] : p \in {q \in Pipeline : UsesBase(q)}}
Phases == {"", "Pending", "Collecting", "Complete", "Failed", "Stale"}
Done == {"Complete", "Failed"}

\* A CollectionPipeline: metadata, the spec fields that change, the status.
Object == [life : {"absent", "live", "deleting", "gone"},
           fin : BOOLEAN, trigger : BOOLEAN, keyless : BOOLEAN,
           size : 0..MaxSize, cmRef : BOOLEAN, phase : Phases,
           version : Version \cup {NoVersion}, ref : Run \cup {NoRun},
           claim : Claim, parentVersion : Version \cup {NoVersion}]

NoObject == [life |-> "absent", fin |-> FALSE, trigger |-> FALSE,
             keyless |-> FALSE, size |-> 0, cmRef |-> FALSE, phase |-> "",
             version |-> NoVersion, ref |-> NoRun, claim |-> NoPipeline,
             parentVersion |-> NoVersion]

\* A PipelineRun: Tekton's progress, and what buildPipelineRun put into it.
\* version is the pipeline's status.version when the run was created.
RunStates == {"none", "pending", "running", "succeeded", "failed"}
RunObject == [state : RunStates, deleted : BOOLEAN,
              owner : Pipeline \cup {NoPipeline}, keyless : BOOLEAN,
              claim : Claim, version : Version \cup {NoVersion}]
NoRunObject == [state |-> "none", deleted |-> FALSE, owner |-> NoPipeline,
                keyless |-> FALSE, claim |-> NoPipeline, version |-> NoVersion]

Exists(o) == o.life \in {"live", "deleting"}
RunExists(r) == r.state # "none" /\ ~r.deleted
RunDone(r) == r.state \in {"succeeded", "failed"}
Active(r) == RunExists(r) /\ ~RunDone(r)

\* Mutant: the phase that the trigger check also accepts, but nobody declares.
PhaseSucceeded(r) ==
    IF r.state = "succeeded" THEN "Succeeded"
    ELSE IF r.state = "failed" THEN "Failed"
    ELSE IF r.state = "running" THEN "Collecting" ELSE "Pending"

\* Mutant: completion alone taken for success, the condition ignored.
PhaseIgnoresCondition(r) ==
    IF RunDone(r) THEN "Complete"
    ELSE IF r.state = "running" THEN "Collecting" ELSE "Pending"

collectionPipelineRunPhase(r) ==
    IF r.state = "succeeded" THEN "Complete"
    ELSE IF r.state = "failed" THEN "Failed"
    ELSE IF r.state = "running" THEN "Collecting" ELSE "Pending"

generateVersion(p) == [day |-> today, tt |-> TriggerType[p]]

\* ensurePVC: the parent's working PVC, else the base version's, else its own.
workingPVCName(p, parent) ==
    IF Parent[p] # NoPipeline
    THEN IF parent.claim # NoPipeline THEN parent.claim ELSE Parent[p]
    ELSE IF UsesBase(p) THEN Base[p] ELSE p

\* Mutant: the PVC the parent would have on its own, whatever it works on.
NamedAfterParent(p, o, parent) == IF Parent[p] # NoPipeline THEN Parent[p] ELSE o.claim

\* buildPipelineRun: the name in status, with ensurePVC's rule to fall back on.
runPVCName(p, o, parent) ==
    IF o.claim # NoPipeline THEN o.claim ELSE workingPVCName(p, parent)

\* The PVC that the expansion step looks up while status has no name yet.
expansionPVCName(p, o) ==
    IF o.claim # NoPipeline THEN o.claim
    ELSE IF Parent[p] # NoPipeline THEN Parent[p]
    ELSE IF UsesBase(p) THEN Base[p] ELSE p

\* getStorageSize: the default is one unit.
getStorageSize(o) == IF o.size = 0 THEN 1 ELSE o.size
Larger(a, b) == IF a > b THEN a ELSE b

hasChildPipelines(p) ==
    \E q \in Pipeline \ {p} : Parent[q] = p /\ Exists(seen[q])

-----------------------------------------------------------------------------
(* The API server, as client.Client presents it to the reconciler *)

Finish(requeue) ==
    /\ pc' = "idle" /\ key' = NoPipeline /\ obj' = NoObject
    /\ cur' = FALSE /\ mine' = NoRun
    /\ queue' = IF requeue THEN queue \cup {key} ELSE queue

Continue(next) == pc' = next /\ UNCHANGED <<key, mine, queue>>

\* Update or Status().Update of the worker's copy: refused when the copy is
\* not current; a write that changes nothing makes no new resourceVersion.
Store(p, new) ==
    /\ api' = [api EXCEPT ![p] = new]
    /\ lag' = IF new = api[p] THEN lag ELSE lag \cup {p}

Write(new, next) ==
    \/ cur /\ Store(key, new) /\ obj' = new /\ cur' = TRUE /\ Continue(next)
    \/ ~cur /\ Finish(TRUE) /\ UNCHANGED <<api, lag>>

WriteAndReturn(new, requeue) ==
    \/ cur /\ Store(key, new) /\ Finish(requeue)
    \/ ~cur /\ Finish(TRUE) /\ UNCHANGED <<api, lag>>

Skip(next) == Continue(next) /\ UNCHANGED <<api, lag, obj, cur>>
Return(requeue) == Finish(requeue) /\ UNCHANGED <<api, lag>>

\* A write by somebody other than the running reconciliation.
Change(p, new) ==
    /\ Store(p, new)
    /\ cur' = (cur /\ (p # key \/ new = api[p]))
    /\ UNCHANGED <<seen, pc, key, obj, mine, queue>>

-----------------------------------------------------------------------------
(* Reconcile *)

\* The calls of a reconciliation that write, in their order in the code.
Calls == {"finalizer", "config", "trigger", "reset", "track", "history",
          "parent", "version", "claim", "volume", "create", "bind",
          "cleanup", "release"}

\* Dequeue a request, read the pipeline and dispatch on its metadata.
Reconcile(p) ==
    /\ pc = "idle" /\ p \in queue
    /\ queue' = queue \ {p}
    /\ \/ /\ ~Exists(seen[p])
          /\ UNCHANGED workerVars
       \/ /\ Exists(seen[p])
          /\ key' = p /\ obj' = seen[p] /\ cur' = (p \notin lag)
          /\ pc' = IF seen[p].life = "deleting" THEN "cleanup"
                   ELSE IF ~seen[p].fin THEN "finalizer" ELSE "config"
          /\ UNCHANGED mine
    /\ UNCHANGED <<api, seen, lag, runVars, childVars, platVars>>

AddFinalizer ==
    /\ pc = "finalizer"
    /\ WriteAndReturn([obj EXCEPT !.fin = TRUE], FALSE)
    /\ UNCHANGED <<seen, runVars, childVars, platVars>>

\* ensureConfigMap and status.configMapRef.
EnsureConfig ==
    /\ pc = "config"
    /\ cm' = cm \cup {key}
    /\ IF obj.cmRef THEN Skip("trigger")
                    ELSE Write([obj EXCEPT !.cmRef = TRUE], "trigger")
    /\ UNCHANGED <<seen, runVars, pvc, s3Jobs, platVars>>

TriggeredAnytime(o) == o.trigger /\ o.ref # NoRun  \* Mutant: also during a run.

\* The trigger annotation is honoured, and removed, once a bound run is over.
Triggered(o) == o.trigger /\ o.ref # NoRun /\ o.phase \in {"Complete", "Failed", "Stale"}

CheckTrigger ==
    /\ pc = "trigger" /\ Triggered(obj)
    /\ Write([obj EXCEPT !.trigger = FALSE], "reset")
    /\ UNCHANGED <<seen, runVars, childVars, platVars>>

\* Mutants: a field of the status left as it was.
ResetKeepsPhase(o) == [o EXCEPT !.ref = NoRun, !.version = NoVersion]
ResetKeepsRef(o) == [o EXCEPT !.version = NoVersion, !.phase = ""]
ResetFields(o) == [o EXCEPT !.ref = NoRun, !.version = NoVersion, !.phase = ""]

ResetStatus ==
    /\ pc = "reset"
    /\ WriteAndReturn(ResetFields(obj), FALSE)
    /\ UNCHANGED <<seen, runVars, childVars, platVars>>

\* A storageSize above the PVC's request expands the PVC in every phase.
ExpandPVC ==
    /\ pc = "trigger" /\ ~Triggered(obj)
    /\ LET name == expansionPVCName(key, obj)
       IN  pvc' = IF obj.size # 0 /\ pvc[name] # 0
                  THEN [pvc EXCEPT ![name] = Larger(obj.size, @)] ELSE pvc
    /\ Skip(IF obj.ref # NoRun THEN "track" ELSE "parent")
    /\ UNCHANGED <<seen, runVars, cm, s3Jobs, platVars>>

\* trackPipelineRun.  The signing comparison before it never finds a
\* difference: it inspects spec.pipelineSpec, and buildPipelineRun sets pipelineRef.
trackPipelineRun ==
    /\ pc = "track"
    /\ LET pr == runSeen[obj.ref]
           new == [obj EXCEPT !.phase = collectionPipelineRunPhase(pr)]
       IN  \/ /\ ~RunExists(pr)
              /\ WriteAndReturn([obj EXCEPT !.ref = NoRun, !.phase = "Stale"], FALSE)
           \/ RunExists(pr) /\ new.phase = "Complete" /\ Write(new, "history")
           \/ RunExists(pr) /\ new.phase # "Complete" /\ WriteAndReturn(new, ~RunDone(pr))
    /\ UNCHANGED <<seen, runVars, childVars, platVars>>

\* A refused platform status update is only logged.
updatePlatformCollectionHistory ==
    /\ pc = "history"
    /\ history' \in {history, history \cup {[of |-> key, version |-> obj.version]}}
    /\ Return(FALSE)
    /\ UNCHANGED <<seen, runVars, childVars, imported, today, used>>

\* Mutants: any parent that exists will do; the wait is not requeued.
AnyParent(parent) == Exists(parent)
ForgetRequeue(requeue) == Finish(FALSE) /\ UNCHANGED <<api, lag>> /\ requeue = requeue

ParentReady(parent) == Exists(parent) /\ parent.phase = "Complete"
AwaitParent(requeue) == Return(requeue)

\* A missing parent fails the pipeline; the write is a new object unless the
\* completion time it stamps (whole seconds) and the phase are the old ones.
ValidateParent ==
    /\ pc = "parent"
    /\ LET parent == seen[Parent[key]]
       IN  \/ Parent[key] = NoPipeline /\ Skip("version")
           \/ /\ Parent[key] # NoPipeline /\ ~Exists(parent)
              /\ \/ WriteAndReturn([obj EXCEPT !.phase = "Failed"], FALSE)
                 \/ /\ cur /\ obj.phase = "Failed"
                    /\ lag' = lag \cup {key} /\ UNCHANGED api /\ Finish(FALSE)
           \/ /\ Parent[key] # NoPipeline /\ Exists(parent) /\ ~ParentReady(parent)
              /\ AwaitParent(TRUE)
           \/ /\ Parent[key] # NoPipeline /\ ParentReady(parent)
              /\ IF obj.parentVersion = NoVersion
                 THEN Write([obj EXCEPT !.parentVersion = parent.version], "version")
                 ELSE Skip("version")
    /\ UNCHANGED <<seen, runVars, childVars, platVars>>

\* The "Failed" status of an unimported base carries a condition without
\* lastTransitionTime, which the CRD requires: the write is refused, and retried.
AssignVersion ==
    /\ pc = "version"
    /\ IF UsesBase(key) /\ Base[key] \notin imported THEN Return(TRUE)
       ELSE IF obj.version = NoVersion
            THEN Write([obj EXCEPT !.version = generateVersion(key)], "claim")
            ELSE Skip("claim")
    /\ UNCHANGED <<seen, runVars, childVars, platVars>>

\* ensurePVC, first half: status.workingPVCName.
EnsureClaim ==
    /\ pc = "claim"
    /\ LET parent == IF Parent[key] = NoPipeline THEN NoObject ELSE seen[Parent[key]]
           name == workingPVCName(key, parent)
       IN  IF Parent[key] # NoPipeline /\ ~Exists(parent) THEN Return(TRUE)
           ELSE IF obj.claim # name THEN Write([obj EXCEPT !.claim = name], "volume")
                                    ELSE Skip("volume")
    /\ UNCHANGED <<seen, runVars, childVars, platVars>>

\* ensurePVC, second half: only a pipeline of its own creates a missing PVC.
EnsureVolume ==
    /\ pc = "volume"
    /\ IF pvc[obj.claim] = 0 /\ (key \in Incremental \/ Parent[key] # NoPipeline)
       THEN Return(TRUE) /\ UNCHANGED pvc
       ELSE /\ pvc' = [pvc EXCEPT ![obj.claim] = Larger(getStorageSize(obj), @)]
            /\ Skip("create")
    /\ UNCHANGED <<seen, runVars, cm, s3Jobs, platVars>>

\* Wait for the platform controller's signing configuration (also while it is
\* disabled, and nobody will apply it), then create the PipelineRun under a
\* generated name.  Past MaxRuns the creation is refused, and retried.
MustAwaitSigning(o) == Signing # "none" /\ ~o.keyless

AwaitSigning ==
    /\ pc = "create"
    /\ MustAwaitSigning(obj) \/ nextRun > MaxRuns
    /\ Return(TRUE)
    /\ UNCHANGED <<seen, runVars, childVars, platVars>>

CreateRun ==
    /\ pc = "create"
    /\ ~MustAwaitSigning(obj)
    /\ nextRun <= MaxRuns
    /\ LET parent == IF Parent[key] = NoPipeline THEN NoObject ELSE seen[Parent[key]]
       IN  runs' = [runs EXCEPT ![nextRun] =
                       [state |-> "pending", deleted |-> FALSE, owner |-> key,
                        keyless |-> obj.keyless, claim |-> runPVCName(key, obj, parent),
                        version |-> obj.version]]
    /\ nextRun' = nextRun + 1
    /\ mine' = nextRun
    /\ pc' = "bind"
    /\ UNCHANGED <<api, seen, lag, runSeen, childVars, platVars, queue, key, obj, cur>>

\* Refetch the pipeline: give way to a run bound by somebody else, else bind
\* the new run, on the refetched copy.
IgnoresRival(latest) == latest # latest  \* Mutant: the new run always wins.
HasRival(latest) == latest.ref \notin {NoRun, mine}

BindRun ==
    /\ pc = "bind"
    /\ LET latest == seen[key]
           rival == HasRival(latest)
           bound == [latest EXCEPT !.ref = mine, !.phase = "Pending"]
       IN  \/ /\ ~Exists(latest) \/ (~rival /\ key \in lag)
              /\ Return(TRUE) /\ UNCHANGED runs
           \/ /\ Exists(latest) /\ rival
              /\ runs' = [runs EXCEPT ![mine].deleted = TRUE]
              /\ Return(TRUE)
           \/ /\ Exists(latest) /\ ~rival /\ key \notin lag
              /\ Store(key, bound) /\ Finish(FALSE) /\ UNCHANGED runs
    /\ UNCHANGED <<seen, runSeen, nextRun, childVars, platVars>>

-----------------------------------------------------------------------------
(* cleanup *)

\* deleteWorkingPVC, unless the pipeline has a parent or children.  A failing
\* List leaves hasChildren false and is only logged.
DeleteWorkingPVC ==
    /\ pc = "cleanup"
    /\ LET name == IF obj.claim # NoPipeline THEN obj.claim ELSE key
       IN  \/ /\ pvc' = IF Parent[key] = NoPipeline /\ ~hasChildPipelines(key)
                        THEN [pvc EXCEPT ![name] = 0] ELSE pvc
              /\ UNCHANGED used
           \/ /\ used.faults < MaxFaults /\ hasChildPipelines(key)
              /\ used' = [used EXCEPT !.faults = @ + 1]
              /\ pvc' = IF Parent[key] = NoPipeline
                        THEN [pvc EXCEPT ![name] = 0] ELSE pvc
    /\ Skip("release")
    /\ UNCHANGED <<seen, runVars, cm, s3Jobs, history, imported, today>>

\* Mutant: the finalizer waits for an S3 clean-up that may not be configured.
ReleaseAfterS3 ==
    /\ pc = "release"
    /\ s3Jobs' \in {s3Jobs, s3Jobs \cup {key}}
    /\ IF obj.fin /\ key \in s3Jobs'
       THEN WriteAndReturn([obj EXCEPT !.fin = FALSE, !.life = "gone"], FALSE)
       ELSE Return(FALSE)
    /\ UNCHANGED <<seen, runVars, pvc, cm, platVars>>

\* deleteS3Objects (skipped without an ObjectBucketClaim), then the finalizer.
ReleasePipeline ==
    /\ pc = "release"
    /\ s3Jobs' \in {s3Jobs, s3Jobs \cup {key}}
    /\ IF obj.fin THEN WriteAndReturn([obj EXCEPT !.fin = FALSE, !.life = "gone"], FALSE)
                  ELSE Return(FALSE)
    /\ UNCHANGED <<seen, runVars, pvc, cm, platVars>>

-----------------------------------------------------------------------------
(* Failures of the reconciler *)

\* An API call of the reconciliation fails: Reconcile returns the error.
Abort ==
    /\ pc \notin {"idle", "history"}
    /\ used.faults < MaxFaults
    /\ used' = [used EXCEPT !.faults = @ + 1]
    /\ Return(TRUE)
    /\ UNCHANGED <<seen, runVars, childVars, history, imported, today>>

\* The operator restarts: fresh caches, and every pipeline is queued.
Restart ==
    /\ used.faults < MaxFaults
    /\ used' = [used EXCEPT !.faults = @ + 1]
    /\ seen' = api /\ lag' = {} /\ runSeen' = runs
    /\ queue' = {p \in Pipeline : Exists(api[p])}
    /\ pc' = "idle" /\ key' = NoPipeline /\ obj' = NoObject
    /\ cur' = FALSE /\ mine' = NoRun
    /\ UNCHANGED <<api, runs, nextRun, childVars, history, imported, today>>

-----------------------------------------------------------------------------
(* The informers: an event refreshes the cache and queues the owner *)

SyncPipeline(p) ==
    /\ p \in lag
    /\ seen' = [seen EXCEPT ![p] = api[p]]
    /\ lag' = lag \ {p}
    /\ queue' = queue \cup {p}
    /\ UNCHANGED <<api, runVars, childVars, platVars, workerVars>>

SyncRun(r) ==
    /\ runSeen[r] # runs[r]
    /\ runSeen' = [runSeen EXCEPT ![r] = runs[r]]
    /\ queue' = queue \cup {runs[r].owner}
    /\ UNCHANGED <<api, seen, lag, runs, nextRun, childVars, platVars, workerVars>>

-----------------------------------------------------------------------------
(* The user, the platform controller, Tekton and the garbage collector *)

Unmoved == UNCHANGED <<runVars, childVars, platVars>>

CreatePipeline(p) ==
    /\ api[p].life = "absent"
    /\ Change(p, [api[p] EXCEPT !.life = "live"])
    /\ Unmoved

AnnotateTrigger(p) ==
    /\ api[p].life = "live" /\ ~api[p].trigger
    /\ used.triggers < MaxTriggers
    /\ used' = [used EXCEPT !.triggers = @ + 1]
    /\ Change(p, [api[p] EXCEPT !.trigger = TRUE])
    /\ UNCHANGED <<runVars, childVars, history, imported, today>>

GrowStorage(p) ==
    /\ p \in Growable /\ api[p].life = "live" /\ api[p].size < MaxSize
    /\ Change(p, [api[p] EXCEPT !.size = @ + 1])
    /\ Unmoved

DeletePipeline(p) ==
    /\ p \in Deletable /\ api[p].life = "live"
    /\ Change(p, [api[p] EXCEPT !.life = IF api[p].fin THEN "deleting" ELSE "gone"])
    /\ Unmoved

\* configureCollectionPipelineSigning: a conflict is only logged.
PushSigning(p) ==
    /\ Signing = "enabled"
    /\ Exists(seen[p]) /\ p \notin lag /\ ~api[p].keyless
    /\ Change(p, [api[p] EXCEPT !.keyless = TRUE])
    /\ Unmoved

Progress(r, state) ==
    /\ runs' = [runs EXCEPT ![r].state = state]
    /\ UNCHANGED <<api, seen, lag, runSeen, nextRun, childVars, platVars, queue, workerVars>>

StartRun(r) == RunExists(runs[r]) /\ runs[r].state = "pending" /\ Progress(r, "running")

FinishRun(r) ==
    /\ RunExists(runs[r]) /\ runs[r].state = "running"
    /\ \E state \in {"succeeded", "failed"} : Progress(r, state)

PruneRun(r) ==
    /\ RunExists(runs[r])
    /\ used.prunes < MaxPrunes
    /\ used' = [used EXCEPT !.prunes = @ + 1]
    /\ runs' = [runs EXCEPT ![r].deleted = TRUE]
    /\ UNCHANGED <<api, seen, lag, runSeen, nextRun, childVars, history, imported,
                   today, queue, workerVars>>

\* Everything that carries an owner reference to a pipeline that is gone.
CollectGarbage(p) ==
    /\ api[p].life = "gone"
    /\ \/ p \in cm
       \/ pvc[p] # 0
       \/ \E r \in Run : runs[r].owner = p /\ ~runs[r].deleted
    /\ cm' = cm \ {p}
    /\ pvc' = [pvc EXCEPT ![p] = 0]
    /\ runs' = [r \in Run |-> IF runs[r].owner = p
                              THEN [runs[r] EXCEPT !.deleted = TRUE] ELSE runs[r]]
    /\ UNCHANGED <<api, seen, lag, runSeen, nextRun, s3Jobs, platVars, queue, workerVars>>

NextDay ==
    /\ today < MaxDay
    /\ today' = today + 1
    /\ UNCHANGED <<api, seen, lag, runVars, childVars, history, imported, used, queue,
                   workerVars>>

ImportVersion(v) ==
    /\ v # NoVersion /\ v \notin imported
    /\ imported' = imported \cup {v}
    /\ UNCHANGED <<api, seen, lag, runVars, childVars, history, today, used, queue,
                   workerVars>>

-----------------------------------------------------------------------------

\* The PVC of a base version is the administrator's: absent, or of any size.
Init ==
    /\ api = [p \in Pipeline |-> NoObject] /\ seen = api /\ lag = {}
    /\ runs = [r \in Run |-> NoRunObject] /\ runSeen = runs /\ nextRun = 1
    /\ pvc \in [Claim -> 0..MaxSize]
    /\ \A c \in Pipeline \cup {NoPipeline} : pvc[c] = 0
    /\ cm = {} /\ s3Jobs = {} /\ history = {} /\ imported = {} /\ today = 1
    /\ queue = {} /\ pc = "idle" /\ key = NoPipeline /\ obj = NoObject
    /\ cur = FALSE /\ mine = NoRun
    /\ used = [triggers |-> 0, faults |-> 0, prunes |-> 0]

\* The running reconciliation's next call.
Step ==
    \/ AddFinalizer \/ EnsureConfig \/ CheckTrigger \/ ResetStatus \/ ExpandPVC
    \/ trackPipelineRun \/ updatePlatformCollectionHistory
    \/ ValidateParent \/ AssignVersion \/ EnsureClaim \/ EnsureVolume
    \/ AwaitSigning \/ CreateRun \/ BindRun
    \/ DeleteWorkingPVC \/ ReleasePipeline

Informers ==
    \/ \E p \in Pipeline : SyncPipeline(p)
    \/ \E r \in Run : SyncRun(r)

Environment ==
    \/ \E p \in Pipeline : \/ CreatePipeline(p) \/ AnnotateTrigger(p) \/ GrowStorage(p)
                           \/ DeletePipeline(p) \/ PushSigning(p) \/ CollectGarbage(p)
    \/ \E r \in Run : StartRun(r) \/ FinishRun(r) \/ PruneRun(r)
    \/ NextDay
    \/ \E p \in Pipeline : ImportVersion(Base[p])

Next ==
    \/ \E p \in Pipeline : Reconcile(p)
    \/ Step \/ Abort \/ Restart
    \/ Informers
    \/ Environment

\* Watches deliver, the workqueue is first-in first-out and retries what failed,
\* Tekton runs what exists (every run has a timeout), the collector collects.
\* Nothing is promised about the user, the platform controller and the clock.
Fairness ==
    /\ WF_vars(Step)
    /\ \A p \in Pipeline : SF_vars(Reconcile(p))
    /\ \A p \in Pipeline : WF_vars(SyncPipeline(p))
    /\ WF_vars(\E r \in Run : SyncRun(r))
    /\ WF_vars(\E r \in Run : StartRun(r) \/ FinishRun(r))

Spec == Init /\ [][Next]_vars
FairSpec == Spec /\ Fairness

-----------------------------------------------------------------------------
(* Correctness *)

TypeOK ==
    /\ api \in [Pipeline -> Object] /\ seen \in [Pipeline -> Object]
    /\ lag \subseteq Pipeline
    /\ runs \in [Run -> RunObject] /\ runSeen \in [Run -> RunObject]
    /\ nextRun \in 1..(MaxRuns + 1)
    /\ pvc \in [Claim -> 0..MaxSize]
    /\ cm \subseteq Pipeline /\ s3Jobs \subseteq Pipeline
    /\ history \subseteq [of : Pipeline, version : Version \cup {NoVersion}]
    /\ imported \subseteq Version /\ today \in 1..MaxDay
    /\ queue \subseteq Pipeline
    /\ pc \in {"idle"} \cup Calls /\ key \in Pipeline \cup {NoPipeline}
    /\ pc # "idle" => key \in Pipeline
    /\ obj \in Object /\ cur \in BOOLEAN /\ mine \in Run \cup {NoRun}
    /\ used \in [triggers : 0..MaxTriggers, faults : 0..MaxFaults, prunes : 0..MaxPrunes]

\* A pipeline that reports Complete is bound to a run of its own that really
\* succeeded, however stale the copies were that Reconcile, trackPipelineRun and
\* the trigger reset worked on.
CompleteIsReal ==
    \A p \in Pipeline : api[p].phase = "Complete" =>
        /\ api[p].ref \in Run
        /\ runs[api[p].ref].state = "succeeded" /\ runs[api[p].ref].owner = p

\* status.version and status.workingPvcName describe the bound run: the run was
\* created by this pipeline, for this version and on this PVC.
BoundRunAgrees ==
    \A p \in Pipeline : api[p].ref # NoRun =>
        LET r == runs[api[p].ref]
        IN  r.owner = p /\ r.version = api[p].version /\ r.claim = api[p].claim

\* No run of a child starts before some run of its parent has succeeded.
ChildAfterParent ==
    \A r \in Run : \A p \in Pipeline :
        runs[r].owner = p /\ Parent[p] # NoPipeline =>
            \E s \in Run : runs[s].owner = Parent[p] /\ runs[s].state = "succeeded"

\* A child's runs work on the PVC its parent's runs work on, down a chain of
\* any length: the oc-mirror cache is shared.
SharedVolume ==
    \A r, s \in Run : \A p \in Pipeline :
        runs[r].owner = p /\ Parent[p] # NoPipeline /\ runs[s].owner = Parent[p] =>
            runs[r].claim = runs[s].claim

\* The platform's collectionHistory only has versions that were collected.
HistoryIsTrue ==
    \A h \in history : \E r \in Run :
        runs[r].owner = h.of /\ runs[r].version = h.version /\ runs[r].state = "succeeded"

\* A bound run is never replaced by another one in a single write: the
\* reference is cleared first (Stale or a trigger), so no run is lost from view.
RefNeverSwapped ==
    [][\A p \in Pipeline : api[p].ref # NoRun => api'[p].ref \in {api[p].ref, NoRun}]_vars

\* The refinement mapping: a run is open from its creation to its outcome.
absStatus  == [p \in Pipeline |-> [phase |-> api[p].phase, ref |-> api[p].ref]]
absOutcome == [r \in Run |-> IF runs[r].state \in {"pending", "running"}
                             THEN "open" ELSE runs[r].state]
absOwner   == [r \in Run |-> runs[r].owner]
Lifecycle == INSTANCE CollectionLifecycle
             WITH status <- absStatus, outcome <- absOutcome, owner <- absOwner

\* The controller implements the life cycle that CollectionLifecycle promises:
\* every write of a status is one of its steps, or changes nothing it shows.
ImplementsLifecycle == Lifecycle!Spec

Settled(p) ==
    \/ api[p].phase \in Done \/ api[p].life # "live"
    \/ nextRun > MaxRuns /\ api[p].ref = NoRun
    \/ Parent[p] # NoPipeline /\ api[Parent[p]].phase # "Complete"
    \/ UsesBase(p) /\ (Base[p] \notin imported \/ pvc[Base[p]] = 0)

\* Every pipeline comes to an outcome, whatever conflicts and errors it meets,
\* unless its parent has none or its base version is not imported, or has no PVC: the requeue of a waiting child is all that brings
\* the controller back to it, for no watch maps a parent to its children.
Settles == <>[](\A p \in Pipeline : Settled(p))

\* The finalizer is always removed in the end.
DeletionCompletes ==
    \A p \in Pipeline : api[p].life = "deleting" ~> api[p].life = "gone"

-----------------------------------------------------------------------------
(* What the documentation says and the code does not do *)

\* docs/crd-reference.md:297: the trigger annotation starts a new collection
\* once the previous one is over.
TriggerHonoured ==
    \A p \in Pipeline : \A r \in Run :
        api[p].life = "live" /\ api[p].trigger /\ api[p].ref = r /\ api[p].phase \in Done
            ~> api[p].life # "live" \/ api[p].ref # r

\* docs/parent-pipeline-implementation-summary.md:267: the PVC outlives its use.
VolumeOutlivesUse ==
    \A p \in Pipeline : Exists(api[p]) /\ Parent[p] # NoPipeline /\ api[p].ref # NoRun
        => pvc[api[p].claim] # 0

=============================================================================
