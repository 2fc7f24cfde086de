----------------------------- MODULE BundleImport -----------------------------
(***************************************************************************)
(* The way of a bundle into the airgapped cluster: the scanner CronJob     *)
(* that the platform controller sets up, the MirrorImports it makes, and   *)
(* the import pipeline (disconnectedplatform_airgapped.go), which unpacks  *)
(* a bundle, mirrors it into the registry of the platform and into those   *)
(* of the master nodes, and applies the manifests.                         *)
(*                                                                         *)
(* All imports unpack into one volume, nothing keeps two of them apart,    *)
(* and no task is tried again.  How the MirrorImport controller follows a  *)
(* run in spite of old caches is in MirrorImport; here it follows it.      *)
(***************************************************************************)
EXTENDS Integers, FiniteSets

CONSTANTS
    Bundle,     \* the files that are brought to the import path
    NoBundle,
    Name,       \* names of MirrorImports
    CRName,     \* the name that the scanner makes of a file's
    Size,       \* how many archives a bundle holds
    MaxSize,    \* ... at most
    Node,       \* the masters that run a registry of their own
    Job,        \* bound: scanner jobs at one time
    Given,      \* may the platform name its registry (or wait for Quay)?
    MaxRuns,    \* bound: PipelineRuns
    MaxFaults   \* bound: failures

ASSUME ImportConstants ==
    /\ NoBundle \notin Bundle /\ CRName \in [Bundle -> Name]
    /\ MaxSize \in Nat \ {0} /\ Size \in [Bundle -> 1..MaxSize]
    /\ Given \subseteq BOOLEAN /\ MaxRuns \in Nat \ {0} /\ MaxFaults \in Nat

VARIABLES
    file,      \* each file: absent, being copied (partial) or whole
    quay,      \* the managed Quay; "none" too when there is to be none
    registry,  \* TRUE once spec.airgapped.mirrorRegistry is set
    cron,      \* the CronJob: does it exist, does it name a registry
    job,       \* the scanner jobs
    mi,        \* the MirrorImports
    cm,        \* their ConfigMaps: is there an ImageSetConfiguration in it
    run,       \* the PipelineRuns
    vol,       \* the volume import-data, which shows the import path too
    content,   \* the bundles that each registry holds
    applied,   \* the manifests that were applied
    spoilt,    \* bundles read while copied or unpacked beside another run
    hit,       \* bundles whose import met a failure
    used       \* faults so far

vars == <<file, quay, registry, cron, job, mi, cm, run, vol, content, applied,
          spoilt, hit, used>>

Run == 1..MaxRuns
NoRun == 0
Archive == 1..MaxSize
Target == "registry"

Import == [exists : BOOLEAN, of : Bundle \cup {NoBundle}, config : BOOLEAN,
           phase : {"", "Importing", "Complete", "Failed"}, ref : Run \cup {NoRun}]
NoImport == [exists |-> FALSE, of |-> NoBundle, config |-> FALSE, phase |-> "", ref |-> NoRun]

Task == {"extract", "mirror", "nodes", "manifests", "cleanup"}
PipelineRun == [task : Task \cup {"none", "done", "failed"}, name : Name \cup {NoBundle},
                of : Bundle \cup {NoBundle}, nodes : SUBSET Node, out : 0..MaxSize]
NotCreated == [task |-> "none", name |-> NoBundle, of |-> NoBundle, nodes |-> {}, out |-> 0]

\* archives/ and, in it, the cluster-resources that the last oc-mirror wrote, for which
\* bundle and which registry: the file of the mirror sets has one name.
Registry == Node \cup {Target}
NoManifests == <<NoBundle, Target>>
Volume == [archives : [Archive -> Bundle \cup {NoBundle}],
           resources : (Bundle \X Registry) \cup {NoManifests}]
Bare == [archives |-> [i \in Archive |-> NoBundle], resources |-> NoManifests]

IdleJob == [todo |-> {}, at |-> NoBundle, config |-> FALSE]

Spend == used < MaxFaults /\ used' = used + 1

Platform == <<quay, registry, cron>>
Imports  == <<mi, cm>>
Pipeline == <<run, vol, content, applied>>
History  == <<spoilt, hit>>

-----------------------------------------------------------------------------
(* The platform controller *)

\* Creates Quay, and once it has a host name makes that the platform's registry.
reconcileAirgappedQuay ==
    \/ quay = "wanted" /\ quay' = "created" /\ UNCHANGED registry
    \/ quay = "running" /\ registry' = TRUE /\ UNCHANGED quay
    \/ quay \in {"none", "created"} /\ UNCHANGED <<quay, registry>>

\* The CronJob gets the registry that is known when it is created; later passes look
\* at its schedule only.
reconcileImportScanner ==
    cron' = IF cron.exists THEN cron ELSE [exists |-> TRUE, target |-> registry']

\* A pass: Quay, and whether that failed or not, the scanner.
reconcileAirgapped ==
    /\ \/ reconcileAirgappedQuay /\ reconcileImportScanner /\ UNCHANGED used
       \/ /\ ~registry /\ Spend /\ UNCHANGED <<quay, registry>>
          /\ reconcileImportScanner
       \/ reconcileAirgappedQuay /\ ~cron.exists /\ Spend /\ UNCHANGED cron
    /\ UNCHANGED <<file, job, Imports, Pipeline, History>>

\* The Quay operator.
QuayRuns ==
    /\ quay = "created" /\ quay' = "running"
    /\ UNCHANGED <<file, registry, cron, job, used, Imports, Pipeline, History>>

-----------------------------------------------------------------------------
(* The scanner *)

\* A job of the schedule, or one made by hand, beside one that still runs: what lies
\* in the import path now is gone through.  A job that finds only known bundles
\* changes nothing, and is left out.
StartScan(j) ==
    /\ cron.exists /\ job[j] = IdleJob
    /\ \E b \in Bundle : file[b] # "absent" /\ ~mi[CRName[b]].exists
    /\ job' = [job EXCEPT ![j].todo = {b \in Bundle : file[b] # "absent"}]
    /\ UNCHANGED <<file, used, Platform, Imports, Pipeline, History>>

\* Mutant: the first bundle that is known ends the scan.
StopAtKnown(j) ==
    /\ job[j].at = NoBundle
    /\ \E b \in job[j].todo :
          IF mi[CRName[b]].exists THEN job' = [job EXCEPT ![j] = IdleJob]
          ELSE job' = [job EXCEPT ![j] = [todo |-> @.todo \ {b}, at |-> b, config |-> TRUE]]
    /\ UNCHANGED <<file, used, Platform, Imports, Pipeline, History>>

\* A bundle that has a MirrorImport is left alone; from another its
\* ImageSetConfiguration is read, which a file that is still being copied may not
\* have yet.
Look(j) ==
    /\ job[j].at = NoBundle
    /\ \E b \in job[j].todo :
          \/ /\ mi[CRName[b]].exists
             /\ job' = [job EXCEPT ![j].todo = @ \ {b}]
          \/ /\ ~mi[CRName[b]].exists
             /\ \E config \in IF file[b] = "whole" THEN {TRUE} ELSE BOOLEAN :
                   job' = [job EXCEPT ![j] = [todo |-> @.todo \ {b}, at |-> b, config |-> config]]
    /\ UNCHANGED <<file, used, Platform, Imports, Pipeline, History>>

\* oc apply makes the MirrorImport, or changes the one that another job has made
\* meanwhile.  Without a registry it is refused, and the job has failed.
Apply(j) ==
    LET b == job[j].at
        n == CRName[b]
    IN  /\ b # NoBundle
        /\ \/ /\ cron.target /\ UNCHANGED used
              /\ mi' = [mi EXCEPT ![n].exists = TRUE, ![n].of = b, ![n].config = job[j].config]
              /\ job' = [job EXCEPT ![j].at = NoBundle, ![j].config = FALSE]
              /\ spoilt' = IF job[j].config THEN spoilt ELSE spoilt \cup {b}
           \/ /\ IF cron.target THEN Spend ELSE UNCHANGED used
              /\ job' = [job EXCEPT ![j] = IdleJob]
              /\ UNCHANGED <<mi, spoilt>>
        /\ UNCHANGED <<file, cm, hit, Platform, Pipeline>>

-----------------------------------------------------------------------------
(* The MirrorImport controller *)

Open(r) == run[r].task \in Task

\* The masters' registries; none when the list cannot be had.
resolveNodeRegistries(nodes) ==
    \/ nodes = Node /\ UNCHANGED used
    \/ nodes = {} /\ Node # {} /\ Spend

\* startImport, and in the next reconcile the run.  The ConfigMap keeps the configuration it was made with.  A run whose record is
\* refused goes on beside the one that the next attempt makes.
buildImportPipelineRun(n) ==
    /\ mi[n].exists /\ mi[n].phase \in {"", "Importing"} /\ mi[n].ref = NoRun
    /\ cm' = [cm EXCEPT ![n] = IF @ = "none" THEN (IF mi[n].config THEN "config" ELSE "empty")
                               ELSE @]
    /\ \E r \in Run : \E nodes \in SUBSET Node :
          /\ run[r] = NotCreated /\ \A q \in Run : q < r => run[q] # NotCreated
          /\ run' = [run EXCEPT ![r] = [task |-> "extract", name |-> n, of |-> mi[n].of,
                                        nodes |-> nodes, out |-> 0]]
          /\ \/ resolveNodeRegistries(nodes) /\ mi' = [mi EXCEPT ![n].phase = "Importing", ![n].ref = r]
             \/ nodes = Node /\ Spend /\ mi' = [mi EXCEPT ![n].phase = "Importing"]
    /\ LET beside == {run[q].of : q \in {q \in Run : Open(q)}} IN
       spoilt' = IF beside = {} THEN spoilt ELSE spoilt \cup beside \cup {mi[n].of}
    /\ UNCHANGED <<file, job, vol, content, applied, hit, Platform>>

\* trackImportPipelineRun, then finalizeImport.
trackImportPipelineRun(n) ==
    /\ mi[n].phase = "Importing" /\ mi[n].ref # NoRun
    /\ \/ run[mi[n].ref].task = "done" /\ mi' = [mi EXCEPT ![n].phase = "Complete"]
       \/ run[mi[n].ref].task = "failed" /\ mi' = [mi EXCEPT ![n].phase = "Failed"]
    /\ UNCHANGED <<file, cm, job, used, Platform, Pipeline, History>>

-----------------------------------------------------------------------------
(* The import pipeline.  verify-bundle is skipped for what the scanner makes. *)

Goto(r, task) == run' = [run EXCEPT ![r].task = task]

\* Mutant: one archive too many.
ExtractTooFar(r) ==
    LET i == run[r].out + 1 IN
    /\ run[r].task = "extract"
    /\ IF i <= Size[run[r].of] + 1
       THEN vol' = [vol EXCEPT !.archives[i] = run[r].of] /\ run' = [run EXCEPT ![r].out = i]
       ELSE Goto(r, "mirror") /\ UNCHANGED vol
    /\ UNCHANGED <<file, content, applied, job, spoilt, hit, used, Platform, Imports>>

\* tar, archive by archive over what is there.  From a file that is still being copied
\* it may take less than all, with an error or, at the end of a member, without.
ExtractBundle(r) ==
    LET b == run[r].of
        i == run[r].out + 1
    IN  /\ run[r].task = "extract"
        /\ \/ /\ i <= Size[b]
              /\ vol' = [vol EXCEPT !.archives[i] = b]
              /\ run' = [run EXCEPT ![r].out = i]
              /\ UNCHANGED spoilt
           \/ /\ i > Size[b] \/ file[b] # "whole"
              /\ Goto(r, "mirror")
              /\ spoilt' = IF i > Size[b] /\ file[b] = "whole" THEN spoilt ELSE spoilt \cup {b}
              /\ UNCHANGED vol
           \/ /\ file[b] # "whole" /\ Goto(r, "failed")
              /\ spoilt' = spoilt \cup {b} /\ UNCHANGED vol
    /\ UNCHANGED <<file, content, applied, job, hit, used, Platform, Imports>>

\* Its archives are all there, and of this bundle.
Intact(r) == \A i \in 1..Size[run[r].of] : vol.archives[i] = run[r].of

\* oc-mirror brings the content over, then writes the manifests for it.  It needs its
\* configuration, and archives: when some are missing or another bundle's, it may
\* fail or do what it can.
MirrorContent(r) ==
    LET b == run[r].of
        Mirrored(able) == vol' = [vol EXCEPT !.resources = <<b, Target>>]
                          /\ content' = [content EXCEPT ![Target] = @ \cup able]
    IN  /\ run[r].task = "mirror"
        /\ \/ cm[run[r].name] = "config" /\ Intact(r) /\ Goto(r, "nodes") /\ Mirrored({b})
           \/ cm[run[r].name] = "config" /\ ~Intact(r) /\ Goto(r, "nodes") /\ Mirrored({})
           \/ /\ cm[run[r].name] # "config" \/ ~Intact(r)
              /\ Goto(r, "failed") /\ UNCHANGED <<vol, content>>
    /\ UNCHANGED <<file, applied, job, used, Platform, Imports, History>>

\* Some of the masters may just be rebooting.
Reach(nodes, reached) ==
    reached \subseteq nodes /\ IF reached = nodes THEN UNCHANGED used ELSE Spend

\* Mutant: a node that could not be reached is only logged.
NodesBestEffort(r) == \E reached \in SUBSET run[r].nodes :
    /\ run[r].task = "nodes" /\ Reach(run[r].nodes, reached) /\ Goto(r, "manifests")
    /\ content' = [x \in Registry |->
                      IF x \in reached THEN content[x] \cup {run[r].of} ELSE content[x]]
    /\ UNCHANGED <<file, vol, applied, job, Platform, Imports, History>>

\* Mutant: ... and the manifests are written for it all the same.
NodesAnnounced(r) == \E reached \in SUBSET run[r].nodes : \E x \in run[r].nodes :
    /\ run[r].task = "nodes" /\ Reach(run[r].nodes, reached) /\ Goto(r, "manifests")
    /\ content' = [y \in Registry |->
                      IF y \in reached THEN content[y] \cup {run[r].of} ELSE content[y]]
    /\ vol' = [vol EXCEPT !.resources = <<run[r].of, x>>]
    /\ UNCHANGED <<file, applied, job, Platform, Imports, History>>

\* Every node is tried, those that are up get the content, and one failure fails
\* the task.  Each oc-mirror writes the manifests again, for its node.  Skipped
\* without nodes.
MirrorToNodes(r) == \E reached \in SUBSET run[r].nodes :
    LET b == run[r].of
        able == IF Intact(r) THEN reached ELSE {}
    IN  /\ run[r].task = "nodes" /\ Reach(run[r].nodes, reached)
        /\ content' = [x \in Registry |-> IF x \in able THEN content[x] \cup {b} ELSE content[x]]
        /\ \/ \E x \in reached : vol' = [vol EXCEPT !.resources = <<b, x>>]
           \/ able = {} /\ UNCHANGED vol
        /\ \/ Goto(r, "manifests") /\ reached = run[r].nodes /\ UNCHANGED hit
           \/ /\ Goto(r, "failed") /\ run[r].nodes # able
              /\ hit' = IF Intact(r) THEN hit \cup {b} ELSE hit
        /\ UNCHANGED <<file, applied, job, spoilt, Platform, Imports>>

\* What is in cluster-resources, whoever left it; nothing is no error, and neither is
\* an oc apply that fails, being followed by &&.
ApplyManifests(r) ==
    /\ run[r].task = "manifests" /\ Goto(r, "cleanup")
    /\ \/ applied' = applied \cup ({vol.resources} \ {NoManifests}) /\ UNCHANGED <<hit, used>>
       \/ Spend /\ hit' = hit \cup {run[r].of} /\ UNCHANGED applied
    /\ UNCHANGED <<file, vol, content, job, spoilt, Platform, Imports>>

CleanupWorkspace(r) ==
    /\ run[r].task = "cleanup" /\ Goto(r, "done")
    /\ vol' = Bare
    /\ UNCHANGED <<file, content, applied, job, used, Platform, Imports, History>>

\* Any task may fail, or the run time out; what follows is not run, and nothing is
\* cleaned up.
TaskFails(r) ==
    /\ Open(r) /\ Spend /\ Goto(r, "failed")
    /\ hit' = hit \cup {run[r].of}
    /\ UNCHANGED <<file, vol, content, applied, job, spoilt, Platform, Imports>>

-----------------------------------------------------------------------------
(* The user *)

Drop(b) ==
    /\ \/ file[b] = "absent" /\ file' = [file EXCEPT ![b] = "partial"]
       \/ file[b] = "partial" /\ file' = [file EXCEPT ![b] = "whole"]
    /\ UNCHANGED <<job, used, Platform, Imports, Pipeline, History>>

-----------------------------------------------------------------------------

Init ==
    /\ file = [b \in Bundle |-> "absent"] 
    /\ registry \in Given /\ quay = IF registry THEN "none" ELSE "wanted"
    /\ cron = [exists |-> FALSE, target |-> FALSE] /\ job = [j \in Job |-> IdleJob]
    /\ mi = [n \in Name |-> NoImport] /\ cm = [n \in Name |-> "none"]
    /\ run = [r \in Run |-> NotCreated] /\ vol = Bare
    /\ content = [x \in Registry |-> {}] /\ applied = {}
    /\ spoilt = {} /\ hit = {} /\ used = 0

Scanner(j) == StartScan(j) \/ Look(j) \/ Apply(j)
Controller(n) == buildImportPipelineRun(n) \/ trackImportPipelineRun(n)
Tekton(r) ==
    \/ ExtractBundle(r) \/ MirrorContent(r) \/ MirrorToNodes(r) \/ ApplyManifests(r)
    \/ CleanupWorkspace(r)

Next ==
    \/ reconcileAirgapped \/ QuayRuns
    \/ \E j \in Job : Scanner(j)
    \/ \E n \in Name : Controller(n)
    \/ \E r \in Run : Tekton(r) \/ TaskFails(r)
    \/ \E b \in Bundle : Drop(b)

Spec == Init /\ [][Next]_vars

\* The platform is reconciled again and again, the schedule starts scans and they end,
\* imports are reconciled on each event, and Tekton goes on.
Fairness ==
    /\ WF_vars(reconcileAirgapped) /\ WF_vars(QuayRuns)
    /\ \A j \in Job : WF_vars(Scanner(j))
    /\ \A n \in Name : WF_vars(Controller(n))
    /\ \A r \in Run : WF_vars(Tekton(r))

FairSpec == Spec /\ Fairness

-----------------------------------------------------------------------------
(* Correctness *)

TypeOK ==
    /\ file \in [Bundle -> {"absent", "partial", "whole"}]
    /\ quay \in {"none", "wanted", "created", "running"}
    /\ registry \in BOOLEAN /\ cron \in [exists : BOOLEAN, target : BOOLEAN]
    /\ job \in [Job -> [todo : SUBSET Bundle, at : Bundle \cup {NoBundle}, config : BOOLEAN]]
    /\ mi \in [Name -> Import] /\ cm \in [Name -> {"none", "config", "empty"}]
    /\ run \in [Run -> PipelineRun] /\ vol \in Volume
    /\ content \in [Registry -> SUBSET Bundle] /\ applied \subseteq Bundle \X Registry
    /\ spoilt \subseteq Bundle /\ hit \subseteq Bundle
    /\ used \in 0..MaxFaults

\* An import that says Complete has brought its whole bundle into the registry and to
\* every master its run was given, and has applied its manifests unless an oc apply
\* failed, whatever earlier imports left on the volume: unless the file was still being
\* copied, or another import unpacked beside it.
CompleteIsThere ==
    \A n \in Name : mi[n].phase = "Complete" /\ mi[n].of \notin spoilt =>
        /\ \A x \in run[mi[n].ref].nodes \cup {Target} : mi[n].of \in content[x]
        /\ mi[n].of \in hit \/ \E x \in Registry : <<mi[n].of, x>> \in applied

\* No manifest, which sends the cluster's pulls to a mirror, is applied before that
\* mirror has what it names, although imports apply what others left.
ManifestsAfterContent ==
    \A m \in applied : m[1] \in spoilt \/ m[1] \in content[m[2]]

\* A bundle that is copied completely before it is looked at, has its name for itself
\* and meets no failure is imported in the end, if the scanner knows the registry:
\* however many scans and other bundles, failed ones too, come before it.  (While there
\* is a run left for it: a bound of the model.)
BundlesImported ==
    \A b \in Bundle : (\A c \in Bundle \ {b} : CRName[c] # CRName[b]) =>
        <>[](/\ file[b] = "whole" /\ cron.target /\ b \notin spoilt \cup hit
             /\ \E r \in Run : run[r] = NotCreated \/ r = mi[CRName[b]].ref
             => mi[CRName[b]].phase = "Complete")

=============================================================================
