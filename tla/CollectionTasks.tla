--------------------------- MODULE CollectionTasks ---------------------------
(***************************************************************************)
(* The collection pipeline: the Tekton tasks that buildPipelineTasks and   *)
(* buildPipelineFinallyTasks (internal/controller/                         *)
(* disconnectedplatform_controller.go) and pipelines/rhcos.go generate, as *)
(* Tekton runs them, and what their scripts leave on the working volume,   *)
(* in the intermediate registry and in the bucket.                         *)
(*                                                                         *)
(* The runs of one collection and of its children share one volume, which  *)
(* outlives them: what one run leaves there is what the next one finds.    *)
(* A script is reduced to the files it needs, moves and writes; a task may *)
(* fail anywhere, and is then tried again as often as it says.  Task names *)
(* are the source's with "_" for "-".                                      *)
(***************************************************************************)
EXTENDS Integers, FiniteSets

CONSTANTS
    Run,         \* the PipelineRuns
    NoRun,
    Collection,  \* the CollectionPipelines whose runs share the volume
    Of,          \* the collection of a run
    Earlier,     \* the runs created before a run
    Child,       \* the collections with a parent: the others are its parent
    Prefixed,    \* the collections whose name begins with "collection-"
    Config,      \* the values of the runs' parameters considered
    MaxChunk,    \* bound: archives that one run of oc-mirror writes
    Faults,      \* what may go wrong: "task", "part", "abort"
    MaxFaults    \* bound: how often

\* The parameters that buildPipelineRun sets and the tasks tell apart: is there an
\* intermediate registry, keyless signing, an analyzer, the architect's export,
\* RHCOS, a bucket.  The CLI tools are always asked for.
Params == [registry : BOOLEAN, keyless : BOOLEAN, tpa : BOOLEAN, architect : BOOLEAN,
           rhcos : BOOLEAN, s3 : BOOLEAN]

ASSUME TasksConstants ==
    /\ {NoRun, "common", "rhcos", "error"} \cap Run = {}
    /\ Of \in [Run -> Collection] /\ Earlier \in [Run -> SUBSET Run]
    /\ Child \subseteq Collection /\ Prefixed \subseteq Collection
    /\ Config \subseteq Params /\ Config # {}
    /\ MaxChunk \in Nat \ {0} /\ MaxFaults \in Nat
    /\ Faults \subseteq {"task", "part", "abort"}

VARIABLES
    template,  \* TRUE once the Pipeline exists
    life,      \* what has become of each run
    conf,      \* its parameters
    task,      \* the state of each of its tasks
    tries,     \* how often each of them has failed
    vol,       \* the shared volume
    quay,      \* the intermediate registry
    s3,        \* the bucket: what lies under the name of each collection
    tpa,       \* the analyzer: images and bundles it has SBOMs of
    poor,      \* the runs in which a part of a task failed
    used       \* faults so far

vars == <<template, life, conf, task, tries, vol, quay, s3, tpa, poor, used>>

-----------------------------------------------------------------------------
(* The task graph *)

\* runAfter, retries, and the parameters under which "when" lets a task run.
PipelineTask(runAfter, retries, when) ==
    [runAfter |-> runAfter, retries |-> retries, when |-> when]

Always   == Config
ToQuay   == {c \in Config : c.registry}
ToDisk   == Config \ ToQuay
Keyless  == {c \in Config : c.keyless}
Analyzed == {c \in Config : c.tpa}

DownloadRHCOSTask    == PipelineTask({}, 0, Always)
BuildRHCOSServerTask == PipelineTask({"download_rhcos_images"}, 0, Always)

\* Mutant: the mapping is made while the RHCOS server image may be missing.
DryRunAtOnce == PipelineTask({}, 2, ToQuay)
dry_run == PipelineTask({"build_rhcos_server"}, 2, ToQuay)

mirror_to_intermediate == PipelineTask({"dry_run"}, 2, ToQuay)
syft_sbom == PipelineTask({"mirror_to_intermediate", "oc_mirror"}, 0, Analyzed)

\* Mutant: a task waits for one that waits for it.
SignAfterExport == PipelineTask({"syft_sbom", "export_architect_images"}, 2, Keyless \cap ToQuay)
sign_images == PipelineTask({"syft_sbom"}, 2, Keyless \cap ToQuay)
oc_mirror   == PipelineTask({}, 2, ToDisk)
mirror_from_intermediate == PipelineTask({"sign_images"}, 2, ToQuay)

\* Mutant: the bundle is signed as soon as its parts are there.
SignBeforeRepackage == PipelineTask({"copy_import_script"}, 0, Keyless)
sign_bundles       == PipelineTask({"repackage_bundle"}, 0, Keyless)
create_bundle_sbom == PipelineTask({"sign_bundles"}, 2, Analyzed)
upload_sbom        == PipelineTask({"create_bundle_sbom"}, 2, Analyzed)
export_architect_images ==
    PipelineTask({"sign_images"}, 2, {c \in Config : c.architect})
download_cli_tools == PipelineTask({"export_architect_images"}, 2, Always)
copy_import_script == PipelineTask({"download_cli_tools"}, 0, Always)

\* Mutant: the archives are all that repackaging waits for.
RepackageArchives ==
    PipelineTask({"mirror_from_intermediate", "oc_mirror"}, 0, Always)
repackage_bundle ==
    PipelineTask({"copy_import_script", "mirror_from_intermediate", "oc_mirror",
                  "download_cli_tools"}, 0, Always)

upload_to_s3 == PipelineTask({"upload_sbom"}, 2, Always)

buildPipelineTasks ==
    [download_rhcos_images    |-> DownloadRHCOSTask,
     build_rhcos_server       |-> BuildRHCOSServerTask,
     dry_run                  |-> dry_run,
     mirror_to_intermediate   |-> mirror_to_intermediate,
     syft_sbom                |-> syft_sbom,
     sign_images              |-> sign_images,
     oc_mirror                |-> oc_mirror,
     mirror_from_intermediate |-> mirror_from_intermediate,
     export_architect_images  |-> export_architect_images,
     download_cli_tools       |-> download_cli_tools,
     copy_import_script       |-> copy_import_script,
     repackage_bundle         |-> repackage_bundle,
     sign_bundles             |-> sign_bundles,
     create_bundle_sbom       |-> create_bundle_sbom,
     upload_sbom              |-> upload_sbom,
     upload_to_s3             |-> upload_to_s3]

Task == DOMAIN buildPipelineTasks
RunAfter(t) == buildPipelineTasks[t].runAfter
Retries(t)  == buildPipelineTasks[t].retries
When(t)     == buildPipelineTasks[t].when

-----------------------------------------------------------------------------
(* The files *)

\* What the runs mirror: images they share, images of their own, and the RHCOS
\* server image that the pipeline builds itself.
Image     == {"common", "rhcos"} \cup Run
Wanted(r) == {"common", r} \cup IF conf[r].rhcos /\ conf[r].registry THEN {"rhcos"} ELSE {}

Chunk == 1..MaxChunk
Tar   == [by : Run, whole : BOOLEAN]
NoTar == [by |-> NoRun, whole |-> FALSE]
TarOrNone == Tar \cup {NoTar}

\* A bundle and the runs its parts come from.
Part   == {"architect", "tools", "script", "idms", "sbom"}
Bundle == [by : Run \cup {NoRun}, tars : SUBSET TarOrNone, from : [Part -> Run \cup {NoRun}]]
NoPart   == [p \in Part |-> NoRun]
NoBundle == [by |-> NoRun, tars |-> {}, from |-> NoPart]

\* An SBOM of a bundle: the run whose bundle it describes and the images it lists.
Sbom   == [of : Run \cup {NoRun}, images : SUBSET Image]
NoSbom == [of |-> NoRun, images |-> {}]

Cache == [registry : SUBSET Run, disk : SUBSET Run]
NoSnapshot == [registry |-> {NoRun}, disk |-> {NoRun}]

Volume ==
    [rhcos : BOOLEAN,                          \* rhcos/
     mapping : SUBSET Image,                   \* working-dir/dry-run/mapping.txt
     idms : Run \cup {NoRun},                  \* idms-oc-mirror.yaml
     tars : [Chunk -> TarOrNone],              \* mirror_*.tar
     cache : Cache,                            \* .cache and .oc-mirror
     snapshot : Cache \cup {NoSnapshot},       \* .cache-snapshot
     architect : Run \cup {NoRun},             \* airgap-architect-*.tar.gz
     tools : Run \cup {NoRun},                 \* cli-tools/
     script : Run \cup {NoRun},                \* import-airgap-architect.sh
     bundle : [Collection -> Bundle],          \* <name>-complete.tar, <name>-update.tar
     sig : [Collection -> Run \cup {NoRun, "error"}],  \* ... .sig: of which run's bundle
     att : [Collection -> Run \cup {NoRun}],   \* ... .bundle: likewise
     sboms : SUBSET Image,                     \* sboms/<image>.spdx.json
     sbom : [Collection -> Sbom]]              \* sboms/bundle-<name>.spdx.json

\* The volume as ensurePVC makes it.
Empty ==
    [rhcos |-> FALSE, mapping |-> {}, idms |-> NoRun, tars |-> [i \in Chunk |-> NoTar],
     cache |-> [registry |-> {}, disk |-> {}], snapshot |-> NoSnapshot,
     architect |-> NoRun, tools |-> NoRun, script |-> NoRun,
     bundle |-> [c \in Collection |-> NoBundle], sig |-> [c \in Collection |-> NoRun],
     att |-> [c \in Collection |-> NoRun], sboms |-> {}, sbom |-> [c \in Collection |-> NoSbom]]

Stored == [bundle : Bundle, sig : Run \cup {NoRun, "error"}, att : Run \cup {NoRun}, sbom : Sbom]

-----------------------------------------------------------------------------
(* What the scripts do.  Work is a task's part when it succeeds, Leave what it *)
(* may leave behind when it fails; Needs is what it cannot do without.        *)

Volumes(new) == vol' = new /\ UNCHANGED <<quay, s3, tpa>>
Nothing == UNCHANGED <<vol, quay, s3, tpa>>

\* Skipped when RHCOS is not wanted or the image is in the registry already.
downloadRHCOSScript(r) ==
    Volumes([vol EXCEPT !.rhcos = @ \/ (conf[r].rhcos /\ ~(conf[r].registry /\ quay.rhcos))])

RHCOSFiles(r) == vol.rhcos \/ ~conf[r].rhcos \/ ~conf[r].registry \/ quay.rhcos
buildRHCOSServerScript(r) ==
    /\ quay' = [quay EXCEPT !.rhcos = @ \/ (conf[r].rhcos /\ conf[r].registry)]
    /\ UNCHANGED <<vol, s3, tpa>>

\* oc-mirror --dry-run lists what it would mirror; an image of this cluster's own
\* registry that is not there yet is not listed.
DryRun(r) == Volumes([vol EXCEPT !.mapping = Wanted(r) \ IF quay.rhcos THEN {} ELSE {"rhcos"}])

\* Mirrors into the registry and keeps the IDMS for the way back.
MirrorToIntermediate(r) ==
    /\ quay' = [quay EXCEPT !.images = @ \cup Wanted(r)]
    /\ vol' = [vol EXCEPT !.cache.registry = @ \cup {r}, !.idms = r]
    /\ UNCHANGED <<s3, tpa>>

\* upload_sbom_to_tpa leaves alone what the analyzer has.
Unknown(images) == images \ tpa.images

\* Scans and uploads the images of the mapping that the analyzer does not know; the
\* others get no file (what sbom-cache keeps is in sboms/ too, and goes with it).
\* Without a mapping nothing is scanned, and a scan that fails is only logged.
SyftSbom(r, failed) ==
    LET done == vol.mapping \ failed IN
    /\ failed \subseteq vol.mapping
    /\ vol' = [vol EXCEPT !.sboms = @ \cup Unknown(done)]
    /\ tpa' = [tpa EXCEPT !.images = @ \cup Unknown(done)]
    /\ UNCHANGED <<quay, s3>>

\* Signs what the mapping lists.  It is enough that one image could be signed, and
\* without a mapping there is nothing to do.
SignImages(r, failed) ==
    /\ failed # {} => failed \subseteq vol.mapping /\ failed # vol.mapping
    /\ quay' = [quay EXCEPT !.signed = @ \cup (vol.mapping \ failed)]
    /\ UNCHANGED <<vol, s3, tpa>>

\* Mutant: the parent's archives stay where oc-mirror writes.
LeaveParentArchives(r, v) == v
ParkParentArchives(r, v) ==
    IF Of[r] \in Child THEN [v EXCEPT !.tars = [i \in Chunk |-> NoTar]] ELSE v

\* The beginning of both ways to the disk: the archives that are there are moved
\* to parent-archives, which nothing reads and repackaging removes, and the
\* caches are copied for a rollback.
BeginMirror(r) ==
    Volumes([ParkParentArchives(r, vol) EXCEPT !.snapshot = vol.cache])

\* Mutant: the archives are numbered from zero.
ArchivesFromZero(r, n, whole) ==
    [i \in 0..MaxChunk |-> IF i < n THEN [by |-> r, whole |-> whole] ELSE NoTar]

\* oc-mirror writes its archives over those of the same number.
Archives(r, n, whole) ==
    [i \in Chunk |-> IF i <= n THEN [by |-> r, whole |-> whole] ELSE vol.tars[i]]

\* The local workflow keeps its cache in the pod.
OcMirror(r, n) == Volumes([vol EXCEPT !.tars = Archives(r, n, TRUE)])
LeaveOcMirror(r, n) == Volumes([vol EXCEPT !.tars = Archives(r, n, FALSE)])

MirrorFromIntermediate(r, n) ==
    Volumes([vol EXCEPT !.tars = Archives(r, n, TRUE), !.cache.disk = @ \cup {r}])
LeaveMirrorFrom(r, n) ==
    Volumes([vol EXCEPT !.tars = Archives(r, n, FALSE), !.cache.disk = @ \cup {r}])

\* The old exports are removed, then copied again from the intermediate registry.
BeginExport(r) == Volumes([vol EXCEPT !.architect = NoRun])
ExportArchitectImages(r) == Volumes([vol EXCEPT !.architect = r])

DownloadCLITools(r) == Volumes([vol EXCEPT !.tools = r])
CopyImportScript(r) == Volumes([vol EXCEPT !.script = r])

\* The archives that are there, and for a collection without a parent whatever
\* else of the bundle's parts is there.
RepackageBundle(r) ==
    LET tars  == {vol.tars[i] : i \in Chunk} \ {NoTar}
        sboms == {vol.sbom[c].of : c \in Collection} \ {NoRun}
        full  == [architect |-> vol.architect, tools |-> vol.tools, script |-> vol.script,
                  idms |-> vol.idms, sbom |-> NoRun]
    IN  \E sbom \in IF sboms = {} THEN {NoRun} ELSE sboms :
            Volumes([vol EXCEPT !.bundle[Of[r]] =
                [by |-> r, tars |-> tars,
                 from |-> IF Of[r] \in Child THEN [NoPart EXCEPT !.idms = vol.idms]
                          ELSE [full EXCEPT !.sbom = sbom]]])

\* Every bundle on the volume is signed, again and again if need be.  A signature
\* that cannot be made is no error: without a token the files stay as they are, and
\* when cosign fails its messages become the .sig.
SignBundles(r, failed, text) ==
    LET there == {c \in Collection : vol.bundle[c] # NoBundle}
        done  == there \ failed
    IN  /\ failed \subseteq there
        /\ Volumes([vol EXCEPT
               !.sig = [c \in Collection |-> IF c \in done THEN vol.bundle[c].by
                                             ELSE IF c \in failed /\ text THEN "error" ELSE @[c]],
               !.att = [c \in Collection |-> IF c \in done THEN vol.bundle[c].by ELSE @[c]]])

\* Describes a bundle that find meets first, with the image SBOMs that are there (and
\* those of architect and tools, which are made here and left out).
CreateBundleSbom(r) ==
    LET there == {c \in Collection : vol.bundle[c] # NoBundle}
    IN  \/ there = {} /\ Nothing
        \/ \E c \in there :
              Volumes([vol EXCEPT !.sbom[Of[r]] = [of |-> vol.bundle[c].by, images |-> vol.sboms]])

UploadSbom(r) ==
    /\ tpa' = [tpa EXCEPT !.bundles = @ \cup ({vol.sbom[c].of : c \in Collection} \ {NoRun})]
    /\ UNCHANGED <<vol, quay, s3>>

\* The bundle, and what there is of signature and attestation.  The SBOM is found by a
\* pattern in a test, which fails when a second one is there.
UploadToS3(r) ==
    LET c == Of[r]
        alone == {d \in Collection : vol.sbom[d] # NoSbom} = {c}
        Or(new, none, old) == IF new = none THEN old ELSE new
    IN  /\ s3' = [s3 EXCEPT ![c] = [bundle |-> vol.bundle[c],
                                    sig |-> Or(vol.sig[c], NoRun, @.sig),
                                    att |-> Or(vol.att[c], NoRun, @.att),
                                    sbom |-> IF alone THEN vol.sbom[c] ELSE @.sbom]]
        /\ UNCHANGED <<vol, quay, tpa>>
LeaveUpload(r) ==
    /\ s3' = [s3 EXCEPT ![Of[r]].bundle = vol.bundle[Of[r]]]
    /\ UNCHANGED <<vol, quay, tpa>>

\* The architect's images come from the intermediate registry, also when there is
\* none; the upload takes the bucket for granted.
Needs(r, t) ==
    CASE t = "build_rhcos_server"       -> RHCOSFiles(r)
      [] t = "mirror_from_intermediate" -> vol.idms # NoRun
      [] t = "export_architect_images"  -> conf[r].registry
      [] t = "upload_to_s3"             -> conf[r].s3 /\ vol.bundle[Of[r]] # NoBundle
      [] OTHER -> TRUE

Work(r, t) ==
    \/ t = "download_rhcos_images" /\ downloadRHCOSScript(r)
    \/ t = "build_rhcos_server" /\ buildRHCOSServerScript(r)
    \/ t = "dry_run" /\ DryRun(r)
    \/ t = "mirror_to_intermediate" /\ MirrorToIntermediate(r)
    \/ t = "syft_sbom" /\ SyftSbom(r, {})
    \/ t = "sign_images" /\ SignImages(r, {})
    \/ t = "oc_mirror" /\ \E n \in Chunk : OcMirror(r, n)
    \/ t = "mirror_from_intermediate" /\ \E n \in Chunk : MirrorFromIntermediate(r, n)
    \/ t = "export_architect_images" /\ ExportArchitectImages(r)
    \/ t = "download_cli_tools" /\ DownloadCLITools(r)
    \/ t = "copy_import_script" /\ CopyImportScript(r)
    \/ t = "repackage_bundle" /\ RepackageBundle(r)
    \/ t = "sign_bundles" /\ SignBundles(r, {}, FALSE)
    \/ t = "create_bundle_sbom" /\ CreateBundleSbom(r)
    \/ t = "upload_sbom" /\ UploadSbom(r)
    \/ t = "upload_to_s3" /\ UploadToS3(r)

\* What a task has done when it fails midway; Nothing for the others.
Leave(r, t) ==
    \/ Nothing
    \/ t = "oc_mirror" /\ \E n \in Chunk : LeaveOcMirror(r, n)
    \/ t = "mirror_to_intermediate" /\ Volumes([vol EXCEPT !.cache.registry = @ \cup {r}])
    \/ t = "mirror_from_intermediate" /\ \E n \in Chunk : LeaveMirrorFrom(r, n)
    \/ t = "upload_to_s3" /\ Needs(r, t) /\ LeaveUpload(r)

\* What it does before anything can go wrong.
Prepare(r, t) ==
    CASE t \in {"oc_mirror", "mirror_from_intermediate"} -> BeginMirror(r)
      [] t = "export_architect_images" -> BeginExport(r)
      [] OTHER -> Nothing

-----------------------------------------------------------------------------
(* Tekton *)

Active(r) == life[r] = "running"
Over(r, t) == task[r][t] \in {"succeeded", "skipped"}
Stopping(r) == \E t \in Task : task[r][t] = "failed"
Busy(r) == \E t \in Task : task[r][t] \in {"running", "retrying"}

\* $(tasks.status): Completed is Succeeded with tasks that were skipped.
TasksStatus(r) ==
    IF Stopping(r) THEN "Failed"
    ELSE IF \E t \in Task : task[r][t] = "skipped" THEN "Completed" ELSE "Succeeded"

\* A task is looked at once those it runs after are over, unless one has failed.
Ready(r, t) ==
    /\ Active(r) /\ ~Stopping(r)
    /\ task[r][t] = "waiting" /\ \A u \in RunAfter(t) : Over(r, u)

Set(r, t, state) == task' = [task EXCEPT ![r][t] = state]
Spend(what) == what \in Faults /\ used < MaxFaults /\ used' = used + 1
Rest == UNCHANGED <<template, life, conf, poor>>

\* "when" is false: what runs after a task skipped so goes on.
Skip(r, t) ==
    /\ Ready(r, t) /\ conf[r] \notin When(t)
    /\ Set(r, t, "skipped")
    /\ Nothing /\ Rest /\ UNCHANGED <<tries, used>>

Begin(r, t) ==
    /\ \/ Ready(r, t) /\ conf[r] \in When(t)
       \/ Active(r) /\ task[r][t] = "retrying"
    /\ Set(r, t, "running")
    /\ Prepare(r, t)
    /\ Rest /\ UNCHANGED <<tries, used>>

Finish(r, t) ==
    /\ Active(r) /\ task[r][t] = "running" /\ Needs(r, t)
    /\ Set(r, t, "succeeded")
    /\ Work(r, t)
    /\ Rest /\ UNCHANGED <<tries, used>>

\* A task fails because of what it finds, or for no fault of its own.
Fail(r, t) ==
    /\ Active(r) /\ task[r][t] = "running"
    /\ IF Needs(r, t) THEN Spend("task") ELSE UNCHANGED used
    /\ \/ tries[r][t] < Retries(t) /\ Set(r, t, "retrying")
       \/ tries[r][t] = Retries(t) /\ Set(r, t, "failed")
    /\ tries' = [tries EXCEPT ![r][t] = IF @ < Retries(t) THEN @ + 1 ELSE @]
    /\ Leave(r, t)
    /\ Rest

\* What fails for some images or some bundles only, or in the analyzer, does not fail
\* the task.
PartsFail(r) ==
    /\ Active(r) /\ Spend("part")
    /\ \/ /\ task[r]["syft_sbom"] = "running" /\ Set(r, "syft_sbom", "succeeded")
          /\ \E failed \in SUBSET vol.mapping \ {{}} : SyftSbom(r, failed)
       \/ /\ task[r]["sign_images"] = "running" /\ Set(r, "sign_images", "succeeded")
          /\ \E failed \in SUBSET vol.mapping \ {{}} : SignImages(r, failed)
       \/ /\ task[r]["sign_bundles"] = "running" /\ Set(r, "sign_bundles", "succeeded")
          /\ \E failed \in SUBSET Collection \ {{}} : \E text \in BOOLEAN :
                SignBundles(r, failed, text)
       \/ /\ task[r]["upload_sbom"] = "running" /\ Set(r, "upload_sbom", "succeeded")
          /\ Nothing
    /\ poor' = poor \cup {r}
    /\ UNCHANGED <<template, life, conf, tries>>

\* cleanup-workspace, when every task is over or those that had begun are.
Cleaned(status) ==
    LET kept == [vol EXCEPT
            !.mapping = {}, !.sboms = {}, !.sbom = [c \in Collection |-> NoSbom],
            !.bundle = [c \in Collection |-> IF c \in Prefixed THEN NoBundle ELSE @[c]],
            !.sig = [c \in Collection |-> IF c \in Prefixed THEN NoRun ELSE @[c]],
            !.att = [c \in Collection |-> IF c \in Prefixed THEN NoRun ELSE @[c]],
            !.snapshot = NoSnapshot]
    IN  IF status # "Succeeded" /\ vol.snapshot # NoSnapshot
        THEN [kept EXCEPT !.cache = vol.snapshot] ELSE kept

CleanupWorkspace(r) ==
    /\ Active(r) /\ ~Busy(r)
    /\ Stopping(r) \/ \A t \in Task : Over(r, t)
    /\ life' = [life EXCEPT ![r] = IF Stopping(r) THEN "failed" ELSE "done"]
    /\ Volumes(Cleaned(TasksStatus(r)))
    /\ UNCHANGED <<template, conf, task, tries, poor, used>>

-----------------------------------------------------------------------------
(* The operator and the user *)

\* Creates the template, or brings it up to date after an upgrade of the operator,
\* which leaves the runs under way alone.
reconcileCollectionPipelineTemplate ==
    /\ ~template /\ template' = TRUE
    /\ UNCHANGED <<life, conf, task, tries, vol, quay, s3, tpa, poor, used>>

\* CollectionPipeline: one run of a collection at a time, and a child's only while
\* its parent is complete.  A run that finds no template fails at once.
MayStart(r) ==
    /\ \A q \in Run : Of[q] = Of[r] => ~Active(q)
    /\ Of[r] \in Child =>
          /\ \E q \in Run : Of[q] \notin Child /\ life[q] = "done"
          /\ \A q \in Run : Of[q] \notin Child => ~Active(q)

Start(r) ==
    /\ life[r] = "new" /\ MayStart(r) /\ \A q \in Earlier[r] : life[q] # "new"
    /\ \E c \in Config : conf' = [conf EXCEPT ![r] = c]
    /\ life' = [life EXCEPT ![r] = IF template THEN "running" ELSE "failed"]
    /\ Nothing /\ UNCHANGED <<template, task, tries, poor, used>>

\* The pipeline's timeout, which leaves nothing for finally, or the deletion of the
\* run with its collection.
Abort(r) ==
    /\ Active(r) /\ Spend("abort")
    /\ life' = [life EXCEPT ![r] = "aborted"]
    /\ Nothing /\ UNCHANGED <<template, conf, task, tries, poor>>

-----------------------------------------------------------------------------

Init ==
    /\ template = FALSE
    /\ life = [r \in Run |-> "new"]
    /\ conf \in [Run -> {CHOOSE c \in Config : TRUE}]
    /\ task = [r \in Run |-> [t \in Task |-> "waiting"]]
    /\ tries = [r \in Run |-> [t \in Task |-> 0]]
    /\ vol = Empty
    /\ quay = [images |-> {}, rhcos |-> FALSE, signed |-> {}]
    /\ s3 = [c \in Collection |-> [bundle |-> NoBundle, sig |-> NoRun, att |-> NoRun,
                                   sbom |-> NoSbom]]
    /\ tpa = [images |-> {}, bundles |-> {}]
    /\ poor = {} /\ used = 0

Tekton(r) ==
    \/ \E t \in Task : Skip(r, t) \/ Begin(r, t) \/ Finish(r, t) \/ Fail(r, t)
    \/ PartsFail(r) \/ CleanupWorkspace(r)

Next ==
    \/ reconcileCollectionPipelineTemplate
    \/ \E r \in Run : Start(r) \/ Tekton(r) \/ Abort(r)

\* Tekton keeps a run going: a task that can begin begins, and ends one way or the
\* other (within the timeout).
Fairness == \A r \in Run : WF_vars(Tekton(r))

Spec == Init /\ [][Next]_vars
FairSpec == Spec /\ Fairness

-----------------------------------------------------------------------------
(* Correctness *)

TypeOK ==
    /\ template \in BOOLEAN
    /\ life \in [Run -> {"new", "running", "done", "failed", "aborted"}]
    /\ conf \in [Run -> Config]
    /\ \A r \in Run : task[r] \in
          [Task -> {"waiting", "running", "retrying", "succeeded", "failed", "skipped"}]
    /\ \A r \in Run : \A t \in Task : tries[r][t] \in 0..Retries(t)
    /\ vol \in Volume
    /\ quay \in [images : SUBSET Image, rhcos : BOOLEAN, signed : SUBSET Image]
    /\ s3 \in [Collection -> Stored]
    /\ tpa \in [images : SUBSET Image, bundles : SUBSET Run]
    /\ poor \subseteq Run /\ used \in 0..MaxFaults

\* disconnectedplatform_controller.go:9773 ("with signatures"): in the workflow
\* through the registry, what a keyless run archives has been signed there before,
\* the RHCOS server image that the pipeline itself pushes included, unless a
\* signature failed.
ArchivesSigned ==
    \A i \in Chunk : LET r == vol.tars[i].by IN
        r # NoRun /\ r \notin poor /\ conf[r].keyless /\ conf[r].registry =>
            Wanted(r) \subseteq quay.signed

\* disconnectedplatform_controller.go:10841 ("only new delta tars remain"): whatever
\* attempts and runs came before on the volume, an update holds archives of its
\* own run only, at least one, and whole ones.
UpdateHoldsDelta ==
    \A c \in Child : s3[c].bundle # NoBundle =>
        /\ s3[c].bundle.tars # {}
        /\ \A tar \in s3[c].bundle.tars : tar.by = s3[c].bundle.by /\ tar.whole

\* A published bundle without a parent has this run's archives, tools and script,
\* and this run's architect when it is to be exported: repackaging waits for all of
\* them, over both ways to the disk.
CompleteIsComplete ==
    \A c \in Collection \ Child : LET b == s3[c].bundle IN b # NoBundle =>
        /\ [by |-> b.by, whole |-> TRUE] \in b.tars
        /\ b.from["tools"] = b.by /\ b.from["script"] = b.by
        /\ conf[b.by].architect => b.from["architect"] = b.by

\* A keyless run that ends well, and in which no signature failed, has published its
\* bundle with a signature and an attestation of that bundle, not of another one
\* with the same name.
SignedUpload ==
    \A c \in Collection : LET b == s3[c].bundle IN
        b # NoBundle /\ life[b.by] = "done" /\ conf[b.by].keyless /\ b.by \notin poor =>
            s3[c].sig = b.by /\ s3[c].att = b.by

\* Every run that starts comes to an end, whichever tasks its parameters skip: no
\* task is left waiting for one that will not run.
RunsEnd == <>[](\A r \in Run : ~Active(r))

=============================================================================
