------------------------ MODULE CollectionTasksProofs ------------------------
(***************************************************************************)
(* Theorems about the collection pipeline, for every set of runs,          *)
(* collections and parameters, every number of archives and every number   *)
(* of failed attempts, failed parts and aborted runs: type correctness,    *)
(* and, while the runs on the volume do not overlap, what an archive, an   *)
(* update, a complete bundle and a published signature are.                *)
(*                                                                         *)
(* The argument: a task that has left "waiting" has behind it all it runs  *)
(* after, and was skipped exactly when its "when" says so (GraphInv).      *)
(* While a run is active, what its finished tasks have written is still on *)
(* the volume, and nothing of the others in its place (Holds); what leaves *)
(* the volume is good because the tasks that made it are behind it.        *)
(***************************************************************************)
EXTENDS CollectionTasks, TLAPS

\* The runs on the volume do not overlap.  The controller keeps the runs of one
\* collection apart, and a child's from its parent's while the parent runs; it lets
\* two children, or a parent that is triggered again, run beside a child.
Alone == \A q, r \in Run : Active(q) /\ Active(r) => q = r

States == {"waiting", "running", "retrying", "succeeded", "failed", "skipped"}

TasksTyped ==
    /\ template \in BOOLEAN
    /\ life \in [Run -> {"new", "running", "done", "failed", "aborted"}]
    /\ conf \in [Run -> Config]
    /\ task \in [Run -> [Task -> States]]
    /\ tries \in [Run -> [Task -> Nat]]
    /\ \A r \in Run : \A t \in Task : tries[r][t] <= Retries(t)
    /\ poor \subseteq Run /\ used \in 0..MaxFaults

FilesTyped ==
    /\ vol \in Volume
    /\ quay \in [images : SUBSET Image, rhcos : BOOLEAN, signed : SUBSET Image]
    /\ s3 \in [Collection -> Stored]
    /\ tpa \in [images : SUBSET Image, bundles : SUBSET Run]

\* Where a run is in the task graph.
GraphInv ==
    \A r \in Run :
        /\ life[r] = "new" => \A t \in Task : task[r][t] = "waiting"
        /\ life[r] = "done" => \A t \in Task : Over(r, t)
        /\ \A t \in Task : task[r][t] # "waiting" =>
              /\ \A u \in RunAfter(t) : Over(r, u)
              /\ task[r][t] = "skipped" <=> conf[r] \notin When(t)

TInv == TasksTyped /\ FilesTyped /\ GraphInv

-----------------------------------------------------------------------------
(* What finished tasks have left, given the states tk of an active run's tasks, *)
(* the volume v and the runs pr in which a part failed.                          *)

Whole(r) == [by |-> r, whole |-> TRUE]
MirrorTask == {"oc_mirror", "mirror_from_intermediate"}

MappedAt(r, tk, v) == tk["dry_run"] = "succeeded" => v.mapping = Wanted(r)

\* An update begins without archives and ends with its own only.
ArchivedAt(r, tk, v) ==
    /\ Of[r] \in Child /\ (\E t \in MirrorTask : tk[t] = "running") =>
          \A i \in Chunk : v.tars[i] = NoTar
    /\ (\E t \in MirrorTask : tk[t] = "succeeded") =>
          /\ v.tars[1] = Whole(r)
          /\ Of[r] \in Child => \A i \in Chunk : v.tars[i] \in {NoTar, Whole(r)}

PartsAt(r, tk, v) ==
    /\ tk["export_architect_images"] = "succeeded" => v.architect = r
    /\ tk["download_cli_tools"] = "succeeded" => v.tools = r
    /\ tk["copy_import_script"] = "succeeded" => v.script = r

BundledAt(r, tk, v, pr) ==
    /\ tk["repackage_bundle"] = "succeeded" => v.bundle[Of[r]].by = r
    /\ tk["sign_bundles"] = "succeeded" /\ r \notin pr => v.sig[Of[r]] = r /\ v.att[Of[r]] = r

Holds(r, tk, v, pr) ==
    MappedAt(r, tk, v) /\ ArchivedAt(r, tk, v) /\ PartsAt(r, tk, v) /\ BundledAt(r, tk, v, pr)

ActiveInv == \A r \in Run : Active(r) => Holds(r, task[r], vol, poor)

\* What stays in the registry of a run.
Served ==
    \A r \in Run : task[r]["build_rhcos_server"] = "succeeded" /\ conf[r].rhcos /\ conf[r].registry
                       => quay.rhcos
ImagesSigned ==
    \A r \in Run : task[r]["sign_images"] = "succeeded" /\ r \notin poor
                       => Wanted(r) \subseteq quay.signed

\* Archives that went through the registry were written behind sign_images.
TarsInv ==
    \A i \in Chunk : LET r == vol.tars[i].by IN
        r # NoRun => life[r] # "new" /\ (conf[r].registry => Over(r, "sign_images"))

\* A bundle b under the name of collection c, given what has become of the runs and
\* their parameters.
Good(c, b, lf, cf) == b # NoBundle =>
    /\ b.by \in Run /\ Of[b.by] = c /\ lf[b.by] # "new"
    /\ c \in Child => b.tars = {Whole(b.by)}
    /\ c \notin Child =>
          /\ Whole(b.by) \in b.tars
          /\ b.from["tools"] = b.by /\ b.from["script"] = b.by
          /\ cf[b.by].architect => b.from["architect"] = b.by

BundlesInv ==
    \A c \in Collection : Good(c, vol.bundle[c], life, conf) /\ Good(c, s3[c].bundle, life, conf)

\* A published bundle whose upload went through has its signature beside it.
Published ==
    \A c \in Collection : LET r == s3[c].bundle.by IN
        (/\ s3[c].bundle # NoBundle /\ task[r]["upload_to_s3"] = "succeeded"
         /\ conf[r].keyless /\ r \notin poor)
            => s3[c].sig = r /\ s3[c].att = r

\* The inductive invariant, on top of TInv, while runs do not overlap.
FInv == ActiveInv /\ Served /\ ImagesSigned /\ TarsInv /\ BundlesInv /\ Published

-----------------------------------------------------------------------------
(* The task graph *)

LEMMA TaskNames ==
    Task = {"download_rhcos_images", "build_rhcos_server", "dry_run", "mirror_to_intermediate",
            "syft_sbom", "sign_images", "oc_mirror", "mirror_from_intermediate",
            "export_architect_images", "download_cli_tools", "copy_import_script",
            "repackage_bundle", "sign_bundles", "create_bundle_sbom", "upload_sbom",
            "upload_to_s3"}
  BY DEF Task, buildPipelineTasks

\* The first half of the graph, to the archives.
LEMMA Graph1 ==
    /\ When("build_rhcos_server") = Config
    /\ RunAfter("dry_run") = {"build_rhcos_server"} /\ When("dry_run") = ToQuay
    /\ RunAfter("mirror_to_intermediate") = {"dry_run"}
    /\ When("mirror_to_intermediate") = ToQuay
    /\ RunAfter("syft_sbom") = {"mirror_to_intermediate", "oc_mirror"}
    /\ RunAfter("sign_images") = {"syft_sbom"} /\ When("sign_images") = Keyless \cap ToQuay
    /\ When("oc_mirror") = ToDisk
    /\ RunAfter("mirror_from_intermediate") = {"sign_images"}
    /\ When("mirror_from_intermediate") = ToQuay
  BY DEF RunAfter, When, buildPipelineTasks, PipelineTask, Always, BuildRHCOSServerTask,
         dry_run, mirror_to_intermediate, syft_sbom, sign_images, oc_mirror,
         mirror_from_intermediate

\* The second half, to the bucket.
LEMMA Graph2 ==
    /\ When("export_architect_images") = {c \in Config : c.architect}
    /\ RunAfter("download_cli_tools") = {"export_architect_images"}
    /\ When("download_cli_tools") = Config
    /\ RunAfter("copy_import_script") = {"download_cli_tools"}
    /\ When("copy_import_script") = Config
    /\ RunAfter("repackage_bundle") = {"copy_import_script", "mirror_from_intermediate",
                                       "oc_mirror", "download_cli_tools"}
    /\ When("repackage_bundle") = Config
    /\ RunAfter("sign_bundles") = {"repackage_bundle"} /\ When("sign_bundles") = Keyless
    /\ RunAfter("create_bundle_sbom") = {"sign_bundles"}
    /\ RunAfter("upload_sbom") = {"create_bundle_sbom"}
    /\ RunAfter("upload_to_s3") = {"upload_sbom"} /\ When("upload_to_s3") = Config
  BY DEF RunAfter, When, buildPipelineTasks, PipelineTask, Always, export_architect_images,
         download_cli_tools, copy_import_script, repackage_bundle, sign_bundles,
         create_bundle_sbom, upload_sbom, upload_to_s3

LEMMA RetriesTyped == \A t \in Task : Retries(t) \in Nat
<1> SUFFICES ASSUME NEW t \in Task PROVE Retries(t) \in Nat OBVIOUS
<1> QED
  BY TaskNames
  DEF Retries, buildPipelineTasks, PipelineTask, DownloadRHCOSTask, BuildRHCOSServerTask,
      dry_run, mirror_to_intermediate, syft_sbom, sign_images, oc_mirror,
      mirror_from_intermediate, export_architect_images, download_cli_tools,
      copy_import_script, repackage_bundle, sign_bundles, create_bundle_sbom, upload_sbom,
      upload_to_s3

\* A task that is looked at waits for tasks of the pipeline.
LEMMA GraphClosed == \A t \in Task : RunAfter(t) \subseteq Task
<1> SUFFICES ASSUME NEW t \in Task PROVE RunAfter(t) \subseteq Task OBVIOUS
<1> QED
  BY TaskNames
  DEF RunAfter, buildPipelineTasks, PipelineTask, DownloadRHCOSTask, BuildRHCOSServerTask,
      dry_run, mirror_to_intermediate, syft_sbom, sign_images, oc_mirror,
      mirror_from_intermediate, export_architect_images, download_cli_tools,
      copy_import_script, repackage_bundle, sign_bundles, create_bundle_sbom, upload_sbom,
      upload_to_s3

\* Behind sign_images, on the way through the registry, the mapping was made with the
\* RHCOS server image in the registry.
LEMMA BehindSigning ==
    ASSUME TInv, NEW r \in Run, conf[r].registry, task[r]["sign_images"] # "waiting"
    PROVE  task[r]["dry_run"] = "succeeded" /\ task[r]["build_rhcos_server"] = "succeeded"
<1>0. GraphInv /\ conf[r] \in Config /\ task[r] \in [Task -> States] BY DEF TInv, TasksTyped
<1>1. {"syft_sbom", "sign_images", "mirror_to_intermediate", "dry_run", "build_rhcos_server"}
        \subseteq Task
  BY TaskNames
<1>2. task[r]["syft_sbom"] # "waiting" BY <1>0, <1>1, Graph1 DEF GraphInv, Over
<1>3. task[r]["mirror_to_intermediate"] # "waiting" BY <1>0, <1>1, <1>2, Graph1 DEF GraphInv, Over
<1>4. Over(r, "dry_run") BY <1>0, <1>1, <1>3, Graph1 DEF GraphInv
<1>5. task[r]["dry_run"] = "succeeded" BY <1>0, <1>1, <1>4, Graph1 DEF GraphInv, Over, ToQuay
<1>6. Over(r, "build_rhcos_server") BY <1>0, <1>1, <1>5, Graph1 DEF GraphInv
<1> QED BY <1>0, <1>1, <1>5, <1>6, Graph1 DEF GraphInv, Over

\* Behind repackaging lie the archives and the parts of the bundle.
LEMMA BehindRepackaging ==
    ASSUME TInv, NEW r \in Run, task[r]["repackage_bundle"] # "waiting"
    PROVE  /\ \E t \in MirrorTask : task[r][t] = "succeeded"
           /\ task[r]["download_cli_tools"] = "succeeded"
           /\ task[r]["copy_import_script"] = "succeeded"
           /\ conf[r].architect => task[r]["export_architect_images"] = "succeeded"
<1>0. GraphInv /\ conf[r] \in Config /\ task[r] \in [Task -> States] BY DEF TInv, TasksTyped
<1>1. {"repackage_bundle", "copy_import_script", "mirror_from_intermediate", "oc_mirror",
       "download_cli_tools", "export_architect_images"} \subseteq Task
  BY TaskNames
<1>2. /\ Over(r, "copy_import_script") /\ Over(r, "mirror_from_intermediate")
      /\ Over(r, "oc_mirror") /\ Over(r, "download_cli_tools")
  BY <1>0, <1>1, Graph2 DEF GraphInv
<1>3. task[r]["oc_mirror"] = "succeeded" \/ task[r]["mirror_from_intermediate"] = "succeeded"
  BY <1>0, <1>1, <1>2, Graph1 DEF GraphInv, Over, ToDisk
<1>4. /\ task[r]["download_cli_tools"] = "succeeded"
      /\ task[r]["copy_import_script"] = "succeeded"
  BY <1>0, <1>1, <1>2, Graph2 DEF GraphInv, Over
<1>5. Over(r, "export_architect_images") BY <1>0, <1>1, <1>4, Graph2 DEF GraphInv
<1>6. conf[r].architect => task[r]["export_architect_images"] = "succeeded"
  BY <1>0, <1>1, <1>5, Graph2 DEF GraphInv, Over
<1> QED BY <1>3, <1>4, <1>6 DEF MirrorTask

\* Behind the upload the bundle was made, and signed if it was to be.
LEMMA BehindUpload ==
    ASSUME TInv, NEW r \in Run, task[r]["upload_to_s3"] # "waiting"
    PROVE  /\ task[r]["repackage_bundle"] = "succeeded"
           /\ conf[r].keyless => task[r]["sign_bundles"] = "succeeded"
<1>0. GraphInv /\ conf[r] \in Config /\ task[r] \in [Task -> States] BY DEF TInv, TasksTyped
<1>1. {"repackage_bundle", "sign_bundles", "create_bundle_sbom", "upload_sbom", "upload_to_s3"}
        \subseteq Task
  BY TaskNames
<1>2. task[r]["upload_sbom"] # "waiting" BY <1>0, <1>1, Graph2 DEF GraphInv, Over
<1>3. task[r]["create_bundle_sbom"] # "waiting" BY <1>0, <1>1, <1>2, Graph2 DEF GraphInv, Over
<1>4. Over(r, "sign_bundles") BY <1>0, <1>1, <1>3, Graph2 DEF GraphInv
<1>5. Over(r, "repackage_bundle") BY <1>0, <1>1, <1>4, Graph2 DEF GraphInv, Over
<1> QED BY <1>0, <1>1, <1>4, <1>5, Graph2 DEF GraphInv, Over, Keyless

-----------------------------------------------------------------------------
(* Tekton's steps: a task of an active run goes on to another state *)

Move(r, t, st) ==
    /\ Active(r) /\ Set(r, t, st) /\ st \in States \ {"waiting"}
    /\ task[r][t] \in {"waiting", "running", "retrying"}
    /\ task[r][t] = "waiting" =>
          /\ \A u \in RunAfter(t) : Over(r, u)
          /\ st = "skipped" <=> conf[r] \notin When(t)
    /\ task[r][t] # "waiting" => st # "skipped"
    /\ UNCHANGED <<life, conf>> /\ poor \subseteq poor'

LEMMA MoveTasks ==
    ASSUME TasksTyped, NEW r \in Run, NEW t \in Task, NEW st, Move(r, t, st)
    PROVE  /\ task' \in [Run -> [Task -> States]]
           /\ task'[r][t] = st /\ \A u \in Task : u # t => task'[r][u] = task[r][u]
           /\ \A q \in Run : q # r => task'[q] = task[q]
<1> DEFINE d == [task[r] EXCEPT ![t] = st]
<1>0. task \in [Run -> [Task -> States]] /\ task[r] \in [Task -> States] /\ st \in States
  BY DEF TasksTyped, Move
<1>1. d \in [Task -> States] /\ d[t] = st /\ \A u \in Task : u # t => d[u] = task[r][u]
  BY <1>0
<1>2. task' = [task EXCEPT ![r] = d] BY DEF Move, Set
<1> HIDE DEF d
<1> QED BY <1>0, <1>1, <1>2

\* What is over stays over.
LEMMA MoveKeepsGraph ==
    ASSUME TasksTyped, GraphInv, NEW r \in Run, NEW t \in Task, NEW st, Move(r, t, st)
    PROVE  GraphInv'
<1>0. /\ task'[r][t] = st /\ \A u \in Task : u # t => task'[r][u] = task[r][u]
      /\ \A q \in Run : q # r => task'[q] = task[q]
  BY MoveTasks
<1>1. /\ life' = life /\ conf' = conf /\ life[r] = "running" /\ st # "waiting"
      /\ task[r][t] \in {"waiting", "running", "retrying"}
  BY DEF Move, Active
<1>2. \A q \in Run : \A u \in Task : Over(q, u) => Over(q, u)' BY <1>0, <1>1 DEF Over
<1>3. ASSUME NEW q \in Run PROVE life'[q] = "new" => \A u \in Task : task'[q][u] = "waiting"
  BY <1>0, <1>1 DEF GraphInv
<1>4. ASSUME NEW q \in Run PROVE life'[q] = "done" => \A u \in Task : Over(q, u)'
  BY <1>1, <1>2 DEF GraphInv
<1>5. ASSUME NEW q \in Run, NEW u \in Task, task'[q][u] # "waiting"
      PROVE  /\ \A w \in RunAfter(u) : Over(q, w)'
             /\ task'[q][u] = "skipped" <=> conf'[q] \notin When(u)
  <2>1. CASE q = r /\ u = t
    <3>1. /\ \A w \in RunAfter(t) : Over(r, w)
          /\ st = "skipped" <=> conf[r] \notin When(t)
      <4>1. CASE task[r][t] = "waiting" BY <4>1 DEF Move
      <4>2. CASE task[r][t] # "waiting" BY <1>1, <4>2 DEF Move, GraphInv
      <4> QED BY <4>1, <4>2
    <3> QED BY <1>0, <1>1, <1>2, <2>1, <3>1, GraphClosed
  <2>2. CASE ~(q = r /\ u = t)
    <3>1. task'[q][u] = task[q][u] BY <1>0, <2>2
    <3> QED BY <1>1, <1>2, <1>5, <3>1, GraphClosed DEF GraphInv
  <2> QED BY <2>1, <2>2
<1> QED BY <1>3, <1>4, <1>5 DEF GraphInv

\* One task of an active run, with what its script does, ends in part only.
Partly(r, t) ==
    /\ Active(r) /\ Spend("part") /\ task[r][t] = "running" /\ Set(r, t, "succeeded")
    /\ \/ t = "syft_sbom" /\ \E failed : SyftSbom(r, failed)
       \/ t = "sign_images" /\ \E failed : SignImages(r, failed)
       \/ t = "sign_bundles" /\ \E failed : \E text \in BOOLEAN : SignBundles(r, failed, text)
       \/ t = "upload_sbom" /\ Nothing
    /\ poor' = poor \cup {r}
    /\ UNCHANGED <<template, life, conf, tries>>

LEMMA PartsFailPartly ==
    ASSUME NEW r \in Run, PartsFail(r)
    PROVE  \E t \in Task : Partly(r, t)
<1>0. {"syft_sbom", "sign_images", "sign_bundles", "upload_sbom"} \subseteq Task BY TaskNames
<1>1. CASE /\ task[r]["syft_sbom"] = "running" /\ Set(r, "syft_sbom", "succeeded")
           /\ \E failed \in SUBSET vol.mapping \ {{}} : SyftSbom(r, failed)
  <2>1. Partly(r, "syft_sbom") BY <1>1 DEF PartsFail, Partly
  <2> QED BY <1>0, <2>1
<1>2. CASE /\ task[r]["sign_images"] = "running" /\ Set(r, "sign_images", "succeeded")
           /\ \E failed \in SUBSET vol.mapping \ {{}} : SignImages(r, failed)
  <2>1. Partly(r, "sign_images") BY <1>2 DEF PartsFail, Partly
  <2> QED BY <1>0, <2>1
<1>3. CASE /\ task[r]["sign_bundles"] = "running" /\ Set(r, "sign_bundles", "succeeded")
           /\ \E failed \in SUBSET Collection \ {{}} : \E text \in BOOLEAN :
                 SignBundles(r, failed, text)
  <2>1. Partly(r, "sign_bundles") BY <1>3 DEF PartsFail, Partly
  <2> QED BY <1>0, <2>1
<1>4. CASE task[r]["upload_sbom"] = "running" /\ Set(r, "upload_sbom", "succeeded") /\ Nothing
  <2>1. Partly(r, "upload_sbom") BY <1>4 DEF PartsFail, Partly
  <2> QED BY <1>0, <2>1
<1> QED BY <1>1, <1>2, <1>3, <1>4 DEF PartsFail

LEMMA TektonMoves ==
    ASSUME TInv, NEW r \in Run, NEW t \in Task
    PROVE  /\ Skip(r, t) => Move(r, t, "skipped")
           /\ Begin(r, t) => Move(r, t, "running")
           /\ Finish(r, t) => Move(r, t, "succeeded")
           /\ Fail(r, t) => \E st \in {"retrying", "failed"} : Move(r, t, st)
           /\ Partly(r, t) => Move(r, t, "succeeded")
<1>1. Skip(r, t) => Move(r, t, "skipped")
  BY DEF Skip, Move, Ready, Rest, States
<1>2. Begin(r, t) => Move(r, t, "running")
  BY DEF Begin, Move, Ready, Rest, States
<1>3. Finish(r, t) => Move(r, t, "succeeded")
  BY DEF Finish, Move, Rest, States
<1>4. Fail(r, t) => \E st \in {"retrying", "failed"} : Move(r, t, st)
  BY DEF Fail, Move, Rest, States
<1>5. Partly(r, t) => Move(r, t, "succeeded")
  BY DEF Partly, Move, States
<1> QED BY <1>1, <1>2, <1>3, <1>4, <1>5

\* The types of what Tekton keeps.
LEMMA TektonTyped ==
    ASSUME TInv, NEW r \in Run, NEW t \in Task, NEW st, Move(r, t, st),
           Skip(r, t) \/ Begin(r, t) \/ Finish(r, t) \/ Fail(r, t) \/ Partly(r, t)
    PROVE  TasksTyped'
<1>0. TasksTyped BY DEF TInv
<1>1. /\ template' = template /\ life' = life /\ conf' = conf
      /\ poor' \in {poor, poor \cup {r}}
      /\ \/ tries' = tries
         \/ tries' = [tries EXCEPT ![r][t] = IF @ < Retries(t) THEN @ + 1 ELSE @]
      /\ used' = used \/ (used < MaxFaults /\ used' = used + 1)
  BY DEF Move, Skip, Begin, Finish, Fail, Partly, Rest, Spend
<1>2. task' \in [Run -> [Task -> States]] BY <1>0, MoveTasks
<1>3. /\ tries' \in [Run -> [Task -> Nat]]
      /\ \A q \in Run : \A u \in Task : tries'[q][u] <= Retries(u)
  <2> DEFINE n == IF tries[r][t] < Retries(t) THEN tries[r][t] + 1 ELSE tries[r][t]
             d == [tries[r] EXCEPT ![t] = n]
  <2>0. /\ tries \in [Run -> [Task -> Nat]] /\ tries[r] \in [Task -> Nat]
        /\ \A q \in Run : \A u \in Task : tries[q][u] <= Retries(u)
    BY <1>0 DEF TasksTyped
  <2>1. n \in Nat /\ n <= Retries(t) BY <2>0, RetriesTyped
  <2> HIDE DEF n
  <2>2. d \in [Task -> Nat] /\ \A u \in Task : d[u] <= Retries(u) BY <2>0, <2>1
  <2>3. tries' = tries \/ tries' = [tries EXCEPT ![r] = d] BY <1>1 DEF n
  <2> HIDE DEF d
  <2> QED BY <2>0, <2>2, <2>3
<1>4. used' \in 0..MaxFaults BY <1>0, <1>1, TasksConstants DEF TasksTyped
<1> QED BY <1>0, <1>1, <1>2, <1>3, <1>4 DEF TasksTyped

-----------------------------------------------------------------------------
(* What the scripts do to the files *)

SameParts(v, w)   == w.architect = v.architect /\ w.tools = v.tools /\ w.script = v.script
SameBundles(v, w) == w.bundle = v.bundle /\ w.sig = v.sig /\ w.att = v.att
SameFiles(v, w)   == w.mapping = v.mapping /\ w.tars = v.tars /\ SameParts(v, w) /\ SameBundles(v, w)

\* Neither the registry nor the bucket shows the step.
SameOutside == s3' = s3 /\ quay'.rhcos = quay.rhcos /\ quay'.signed = quay.signed

LEMMA WantedImages == ASSUME NEW r \in Run PROVE Wanted(r) \subseteq Image
  BY DEF Wanted, Image

LEMMA Untouched == ASSUME FilesTyped, Nothing
                   PROVE  FilesTyped' /\ SameFiles(vol, vol') /\ SameOutside
  BY DEF FilesTyped, Nothing, SameFiles, SameParts, SameBundles, SameOutside

LEMMA DownloadFiles == ASSUME FilesTyped, NEW r \in Run, downloadRHCOSScript(r)
                       PROVE  FilesTyped' /\ SameFiles(vol, vol') /\ SameOutside
<1> DEFINE x == vol.rhcos \/ (conf[r].rhcos /\ ~(conf[r].registry /\ quay.rhcos))
<1>0. vol \in Volume /\ x \in BOOLEAN /\ UNCHANGED <<quay, s3, tpa>>
  BY DEF FilesTyped, downloadRHCOSScript, Volumes
<1>1. vol' = [vol EXCEPT !.rhcos = x] BY DEF downloadRHCOSScript, Volumes
<1> HIDE DEF x
<1>2. vol' \in Volume /\ SameFiles(vol, vol')
  BY <1>0, <1>1 DEF Volume, SameFiles, SameParts, SameBundles
<1> QED BY <1>0, <1>2 DEF FilesTyped, SameOutside

LEMMA MirrorToFiles ==
    ASSUME FilesTyped, NEW r \in Run,
           \/ MirrorToIntermediate(r)
           \/ Volumes([vol EXCEPT !.cache.registry = @ \cup {r}])
    PROVE  FilesTyped' /\ SameFiles(vol, vol') /\ SameOutside
<1> DEFINE x == [vol.cache EXCEPT !.registry = @ \cup {r}]
<1>0. /\ vol \in Volume /\ vol.cache \in Cache
      /\ quay \in [images : SUBSET Image, rhcos : BOOLEAN, signed : SUBSET Image]
  BY DEF FilesTyped, Volume
<1>1. x \in Cache BY <1>0 DEF Cache
<1>2. /\ \/ vol' = [vol EXCEPT !.cache = x, !.idms = r] \/ vol' = [vol EXCEPT !.cache = x]
      /\ UNCHANGED <<s3, tpa>>
  BY DEF MirrorToIntermediate, Volumes
<1> HIDE DEF x
<1>3. vol' \in Volume /\ SameFiles(vol, vol')
  <2>1. CASE vol' = [vol EXCEPT !.cache = x, !.idms = r]
    BY <1>0, <1>1, <2>1 DEF Volume, SameFiles, SameParts, SameBundles
  <2>2. CASE vol' = [vol EXCEPT !.cache = x]
    BY <1>0, <1>1, <2>2 DEF Volume, SameFiles, SameParts, SameBundles
  <2> QED BY <1>2, <2>1, <2>2
<1>4. /\ quay' \in [images : SUBSET Image, rhcos : BOOLEAN, signed : SUBSET Image]
      /\ quay'.rhcos = quay.rhcos /\ quay'.signed = quay.signed
  BY <1>0, WantedImages DEF MirrorToIntermediate, Volumes
<1> QED BY <1>2, <1>3, <1>4 DEF FilesTyped, SameOutside

LEMMA SbomFiles ==
    ASSUME FilesTyped, NEW r \in Run,
           (\E failed : SyftSbom(r, failed)) \/ UploadSbom(r)
    PROVE  FilesTyped' /\ SameFiles(vol, vol') /\ SameOutside
<1>0. /\ vol \in Volume /\ vol.mapping \subseteq Image /\ vol.sboms \subseteq Image
      /\ vol.sbom \in [Collection -> Sbom]
      /\ tpa \in [images : SUBSET Image, bundles : SUBSET Run]
  BY DEF FilesTyped, Volume
<1>1. CASE \E failed : SyftSbom(r, failed)
  <2>1. PICK failed : SyftSbom(r, failed) BY <1>1
  <2> DEFINE d == Unknown(vol.mapping \ failed)
             x == vol.sboms \cup d
  <2>2. d \subseteq Image /\ x \in SUBSET Image BY <1>0 DEF Unknown
  <2>3. vol' = [vol EXCEPT !.sboms = x] /\ tpa' = [tpa EXCEPT !.images = @ \cup d]
        /\ UNCHANGED <<quay, s3>>
    BY <2>1 DEF SyftSbom
  <2> HIDE DEF x, d
  <2>4. vol' \in Volume /\ SameFiles(vol, vol')
    BY <1>0, <2>2, <2>3 DEF Volume, SameFiles, SameParts, SameBundles
  <2>5. tpa' \in [images : SUBSET Image, bundles : SUBSET Run] BY <1>0, <2>2, <2>3
  <2> QED BY <2>3, <2>4, <2>5 DEF FilesTyped, SameOutside
<1>2. CASE UploadSbom(r)
  <2> DEFINE d == {vol.sbom[c].of : c \in Collection} \ {NoRun}
  <2>1. d \subseteq Run BY <1>0 DEF Sbom
  <2>2. tpa' = [tpa EXCEPT !.bundles = @ \cup d] /\ UNCHANGED <<vol, quay, s3>>
    BY <1>2 DEF UploadSbom
  <2> HIDE DEF d
  <2>3. tpa' \in [images : SUBSET Image, bundles : SUBSET Run] BY <1>0, <2>1, <2>2
  <2> QED BY <2>2, <2>3 DEF FilesTyped, SameFiles, SameParts, SameBundles, SameOutside
<1> QED BY <1>1, <1>2

LEMMA BundleSbomFiles ==
    ASSUME FilesTyped, NEW r \in Run, CreateBundleSbom(r)
    PROVE  FilesTyped' /\ SameFiles(vol, vol') /\ SameOutside
<1>0. /\ vol \in Volume /\ vol.sboms \subseteq Image /\ vol.sbom \in [Collection -> Sbom]
      /\ vol.bundle \in [Collection -> Bundle] /\ Of[r] \in Collection
  BY TasksConstants DEF FilesTyped, Volume
<1>1. CASE Nothing BY <1>1, Untouched
<1>2. ASSUME NEW c \in Collection,
             Volumes([vol EXCEPT !.sbom[Of[r]] = [of |-> vol.bundle[c].by, images |-> vol.sboms]])
      PROVE  FilesTyped' /\ SameFiles(vol, vol') /\ SameOutside
  <2> DEFINE d == [of |-> vol.bundle[c].by, images |-> vol.sboms]
             x == [vol.sbom EXCEPT ![Of[r]] = d]
  <2>1. d \in Sbom BY <1>0 DEF Sbom, Bundle
  <2>2. vol' = [vol EXCEPT !.sbom = x] /\ UNCHANGED <<quay, s3, tpa>> BY <1>2 DEF Volumes
  <2> HIDE DEF d
  <2>3. x \in [Collection -> Sbom] BY <1>0, <2>1
  <2> HIDE DEF x
  <2>4. vol' \in Volume /\ SameFiles(vol, vol')
    BY <1>0, <2>2, <2>3 DEF Volume, SameFiles, SameParts, SameBundles
  <2> QED BY <2>2, <2>4 DEF FilesTyped, SameOutside
<1> QED BY <1>1, <1>2 DEF CreateBundleSbom

LEMMA DryRunFiles ==
    ASSUME FilesTyped, NEW r \in Run, DryRun(r)
    PROVE  /\ FilesTyped' /\ SameOutside
           /\ vol'.mapping = Wanted(r) \ (IF quay.rhcos THEN {} ELSE {"rhcos"})
           /\ vol'.tars = vol.tars /\ SameParts(vol, vol') /\ SameBundles(vol, vol')
<1> DEFINE x == Wanted(r) \ IF quay.rhcos THEN {} ELSE {"rhcos"}
<1>0. vol \in Volume /\ x \in SUBSET Image BY WantedImages DEF FilesTyped
<1>1. vol' = [vol EXCEPT !.mapping = x] /\ UNCHANGED <<quay, s3, tpa>> BY DEF DryRun, Volumes
<1>2. x = Wanted(r) \ (IF quay.rhcos THEN {} ELSE {"rhcos"}) OBVIOUS
<1> HIDE DEF x
<1>3. /\ vol' \in Volume /\ vol'.mapping = x /\ vol'.tars = vol.tars
      /\ SameParts(vol, vol') /\ SameBundles(vol, vol')
  BY <1>0, <1>1 DEF Volume, SameParts, SameBundles
<1> QED BY <1>1, <1>2, <1>3 DEF FilesTyped, SameOutside

LEMMA RegistryFiles ==
    ASSUME FilesTyped, NEW r \in Run,
           \/ buildRHCOSServerScript(r)
           \/ \E failed : SignImages(r, failed)
    PROVE  /\ FilesTyped' /\ SameFiles(vol, vol') /\ s3' = s3
           /\ quay.rhcos => quay'.rhcos
           /\ quay.signed \subseteq quay'.signed
           /\ buildRHCOSServerScript(r) /\ conf[r].rhcos /\ conf[r].registry => quay'.rhcos
           /\ SignImages(r, {}) => vol.mapping \subseteq quay'.signed
<1>0. /\ vol.mapping \subseteq Image
      /\ quay \in [images : SUBSET Image, rhcos : BOOLEAN, signed : SUBSET Image]
  BY DEF FilesTyped, Volume
<1>1. CASE buildRHCOSServerScript(r)
  BY <1>0, <1>1
  DEF buildRHCOSServerScript, FilesTyped, SameFiles, SameParts, SameBundles, SignImages
<1>2. ASSUME NEW failed, SignImages(r, failed)
      PROVE  /\ FilesTyped' /\ SameFiles(vol, vol') /\ s3' = s3
             /\ quay'.rhcos = quay.rhcos
             /\ quay'.signed = quay.signed \cup (vol.mapping \ failed)
  BY <1>0, <1>2 DEF SignImages, FilesTyped, SameFiles, SameParts, SameBundles
<1> QED BY <1>1, <1>2

\* A step that changes archives, besides caches, and nothing else that is followed here.
OnlyTars(x) ==
    /\ vol' \in Volume /\ vol'.tars = x /\ vol'.mapping = vol.mapping
    /\ SameParts(vol, vol') /\ SameBundles(vol, vol') /\ UNCHANGED <<quay, s3, tpa>>

LEMMA ArchivesTyped ==
    ASSUME FilesTyped, NEW r \in Run, NEW n \in Chunk, NEW w \in BOOLEAN
    PROVE  Archives(r, n, w) \in [Chunk -> TarOrNone]
  BY DEF FilesTyped, Volume, Archives, TarOrNone, Tar

LEMMA ArchiveFiles ==
    ASSUME FilesTyped, NEW r \in Run, NEW n \in Chunk, NEW w \in BOOLEAN,
           \/ w /\ (OcMirror(r, n) \/ MirrorFromIntermediate(r, n))
           \/ ~w /\ (LeaveOcMirror(r, n) \/ LeaveMirrorFrom(r, n))
    PROVE  OnlyTars(Archives(r, n, w))
<1> DEFINE x == Archives(r, n, w)
           y == [vol.cache EXCEPT !.disk = @ \cup {r}]
<1>0. vol \in Volume /\ vol.cache \in Cache /\ x \in [Chunk -> TarOrNone]
  BY ArchivesTyped DEF FilesTyped, Volume
<1>1. y \in Cache BY <1>0 DEF Cache
<1>2. w = TRUE \/ w = FALSE OBVIOUS
<1>3. /\ \/ vol' = [vol EXCEPT !.tars = x] \/ vol' = [vol EXCEPT !.tars = x, !.cache = y]
      /\ UNCHANGED <<quay, s3, tpa>>
  BY <1>2 DEF OcMirror, LeaveOcMirror, MirrorFromIntermediate, LeaveMirrorFrom, Volumes
<1> HIDE DEF x, y
<1>4. CASE vol' = [vol EXCEPT !.tars = x]
  BY <1>0, <1>3, <1>4 DEF Volume, OnlyTars, SameParts, SameBundles, x
<1>5. CASE vol' = [vol EXCEPT !.tars = x, !.cache = y]
  BY <1>0, <1>1, <1>3, <1>5 DEF Volume, OnlyTars, SameParts, SameBundles, x
<1> QED BY <1>3, <1>4, <1>5

LEMMA BeginMirrorFiles ==
    ASSUME FilesTyped, NEW r \in Run, BeginMirror(r)
    PROVE  OnlyTars(IF Of[r] \in Child THEN [i \in Chunk |-> NoTar] ELSE vol.tars)
<1> DEFINE x == [i \in Chunk |-> NoTar]
<1>0. vol \in Volume /\ vol.cache \in Cache /\ x \in [Chunk -> TarOrNone]
  BY DEF FilesTyped, Volume, TarOrNone
<1>1. UNCHANGED <<quay, s3, tpa>> BY DEF BeginMirror, Volumes
<1>2. CASE Of[r] \in Child
  <2> DEFINE v == [vol EXCEPT !.tars = x]
  <2>1. /\ v \in Volume /\ v.tars = x /\ v.mapping = vol.mapping /\ SameParts(vol, v)
        /\ SameBundles(vol, v)
    BY <1>0 DEF Volume, SameParts, SameBundles
  <2>2. vol' = [v EXCEPT !.snapshot = vol.cache]
    BY <1>2 DEF BeginMirror, Volumes, ParkParentArchives
  <2> HIDE DEF v, x
  <2>3. /\ vol' \in Volume /\ vol'.tars = x /\ vol'.mapping = vol.mapping /\ SameParts(vol, vol')
        /\ SameBundles(vol, vol')
    BY <1>0, <2>1, <2>2 DEF Volume, SameParts, SameBundles
  <2> QED BY <1>1, <1>2, <2>3 DEF OnlyTars, x
<1>3. CASE Of[r] \notin Child
  <2>1. vol' = [vol EXCEPT !.snapshot = vol.cache]
    BY <1>3 DEF BeginMirror, Volumes, ParkParentArchives
  <2>2. /\ vol' \in Volume /\ vol'.tars = vol.tars /\ vol'.mapping = vol.mapping
        /\ SameParts(vol, vol') /\ SameBundles(vol, vol')
    BY <1>0, <2>1 DEF Volume, SameParts, SameBundles
  <2> QED BY <1>1, <1>3, <2>2 DEF OnlyTars
<1> QED BY <1>2, <1>3

\* The parts of the bundle that tasks fetch.
LEMMA PartFiles ==
    ASSUME FilesTyped, NEW r \in Run,
           \/ BeginExport(r) \/ ExportArchitectImages(r) \/ DownloadCLITools(r)
           \/ CopyImportScript(r)
    PROVE  /\ vol' \in Volume /\ vol'.mapping = vol.mapping /\ vol'.tars = vol.tars
           /\ SameBundles(vol, vol') /\ UNCHANGED <<quay, s3, tpa>>
<1>0. vol \in Volume BY DEF FilesTyped
<1>1. CASE BeginExport(r)
  BY <1>0, <1>1 DEF BeginExport, Volumes, Volume, SameBundles
<1>2. CASE ExportArchitectImages(r)
  BY <1>0, <1>2 DEF ExportArchitectImages, Volumes, Volume, SameBundles
<1>3. CASE DownloadCLITools(r)
  BY <1>0, <1>3 DEF DownloadCLITools, Volumes, Volume, SameBundles
<1>4. CASE CopyImportScript(r)
  BY <1>0, <1>4 DEF CopyImportScript, Volumes, Volume, SameBundles
<1> QED BY <1>1, <1>2, <1>3, <1>4

\* The new bundle: this run's, of the archives and the parts that are there.
LEMMA RepackageFiles ==
    ASSUME FilesTyped, NEW r \in Run, RepackageBundle(r)
    PROVE  /\ vol' \in Volume /\ vol'.mapping = vol.mapping /\ vol'.tars = vol.tars
           /\ SameParts(vol, vol') /\ vol'.sig = vol.sig /\ vol'.att = vol.att
           /\ UNCHANGED <<quay, s3, tpa>>
           /\ \A c \in Collection : c # Of[r] => vol'.bundle[c] = vol.bundle[c]
           /\ LET b == vol'.bundle[Of[r]] IN
              /\ b.by = r /\ b.tars = {vol.tars[i] : i \in Chunk} \ {NoTar}
              /\ Of[r] \notin Child =>
                    /\ b.from["architect"] = vol.architect /\ b.from["tools"] = vol.tools
                    /\ b.from["script"] = vol.script
<1> DEFINE tars  == {vol.tars[i] : i \in Chunk} \ {NoTar}
           sboms == {vol.sbom[c].of : c \in Collection} \ {NoRun}
           full(sbom) == [architect |-> vol.architect, tools |-> vol.tools,
                          script |-> vol.script, idms |-> vol.idms, sbom |-> sbom]
<1>0. /\ vol \in Volume /\ Of[r] \in Collection /\ vol.bundle \in [Collection -> Bundle]
      /\ vol.tars \in [Chunk -> TarOrNone] /\ vol.sbom \in [Collection -> Sbom]
      /\ vol.architect \in Run \cup {NoRun} /\ vol.tools \in Run \cup {NoRun}
      /\ vol.script \in Run \cup {NoRun} /\ vol.idms \in Run \cup {NoRun}
  BY TasksConstants DEF FilesTyped, Volume
<1>1. PICK sbom \in IF sboms = {} THEN {NoRun} ELSE sboms :
        Volumes([vol EXCEPT !.bundle[Of[r]] =
            [by |-> r, tars |-> tars,
             from |-> IF Of[r] \in Child THEN [NoPart EXCEPT !["idms"] = vol.idms]
                      ELSE [full(NoRun) EXCEPT !["sbom"] = sbom]]])
  BY DEF RepackageBundle
<1>2. sbom \in Run \cup {NoRun} BY <1>0, <1>1 DEF Sbom
<1> DEFINE from == IF Of[r] \in Child THEN [NoPart EXCEPT !["idms"] = vol.idms]
                   ELSE [full(NoRun) EXCEPT !["sbom"] = sbom]
           b == [by |-> r, tars |-> tars, from |-> from]
           x == [vol.bundle EXCEPT ![Of[r]] = b]
<1>3. /\ from \in [Part -> Run \cup {NoRun}]
      /\ Of[r] \notin Child => /\ from["architect"] = vol.architect /\ from["tools"] = vol.tools
                               /\ from["script"] = vol.script
  <2>1. CASE Of[r] \in Child
    <3>1. NoPart \in [Part -> Run \cup {NoRun}] BY DEF NoPart
    <3> QED BY <1>0, <2>1, <3>1
  <2>2. CASE Of[r] \notin Child
    BY <1>0, <1>2, <2>2 DEF Part
  <2> QED BY <2>1, <2>2
<1> HIDE DEF from
<1>4. tars \in SUBSET TarOrNone BY <1>0
<1> HIDE DEF tars
<1>5. b \in Bundle /\ b.by = r /\ b.tars = tars /\ b.from = from BY <1>3, <1>4 DEF Bundle
<1>6. vol' = [vol EXCEPT !.bundle = x] /\ UNCHANGED <<quay, s3, tpa>>
  BY <1>1 DEF Volumes, from
<1> HIDE DEF b
<1>7. /\ x \in [Collection -> Bundle] /\ x[Of[r]] = b
      /\ \A c \in Collection : c # Of[r] => x[c] = vol.bundle[c]
  BY <1>0, <1>5
<1> HIDE DEF x
<1>8. /\ vol' \in Volume /\ vol'.bundle = x /\ vol'.mapping = vol.mapping /\ vol'.tars = vol.tars
      /\ SameParts(vol, vol') /\ vol'.sig = vol.sig /\ vol'.att = vol.att
  BY <1>0, <1>6, <1>7 DEF Volume, SameParts
<1> QED BY <1>3, <1>5, <1>6, <1>7, <1>8 DEF tars

\* Signatures are of the bundles that are there, or stay, or are an error message.
LEMMA SignFiles ==
    ASSUME FilesTyped, NEW r \in Run, NEW failed, NEW text \in BOOLEAN,
           SignBundles(r, failed, text)
    PROVE  /\ vol' \in Volume /\ vol'.mapping = vol.mapping /\ vol'.tars = vol.tars
           /\ SameParts(vol, vol') /\ vol'.bundle = vol.bundle /\ UNCHANGED <<quay, s3, tpa>>
           /\ \A c \in Collection : failed = {} /\ vol.bundle[c] # NoBundle =>
                 vol'.sig[c] = vol.bundle[c].by /\ vol'.att[c] = vol.bundle[c].by
<1> DEFINE done == {c \in Collection : vol.bundle[c] # NoBundle} \ failed
           x == [c \in Collection |-> IF c \in done THEN vol.bundle[c].by
                                      ELSE IF c \in failed /\ text THEN "error" ELSE vol.sig[c]]
           y == [c \in Collection |-> IF c \in done THEN vol.bundle[c].by ELSE vol.att[c]]
<1>0. /\ vol \in Volume /\ \A c \in Collection : vol.bundle[c].by \in Run \cup {NoRun}
      /\ vol.sig \in [Collection -> Run \cup {NoRun, "error"}]
      /\ vol.att \in [Collection -> Run \cup {NoRun}]
  BY DEF FilesTyped, Volume, Bundle
<1>1. vol' = [vol EXCEPT !.sig = x, !.att = y] /\ UNCHANGED <<quay, s3, tpa>>
  BY DEF SignBundles, Volumes
<1>2. x \in [Collection -> Run \cup {NoRun, "error"}] /\ y \in [Collection -> Run \cup {NoRun}]
  BY <1>0
<1>3. \A c \in Collection : failed = {} /\ vol.bundle[c] # NoBundle =>
         x[c] = vol.bundle[c].by /\ y[c] = vol.bundle[c].by
  OBVIOUS
<1> HIDE DEF x, y
<1>4. /\ vol' \in Volume /\ vol'.mapping = vol.mapping /\ vol'.tars = vol.tars
      /\ SameParts(vol, vol') /\ vol'.bundle = vol.bundle /\ vol'.sig = x /\ vol'.att = y
  BY <1>0, <1>1, <1>2 DEF Volume, SameParts
<1> QED BY <1>1, <1>3, <1>4

\* The bucket holds the bundle of the volume; what is not uploaded stays.
LEMMA UploadFiles ==
    ASSUME FilesTyped, NEW r \in Run, UploadToS3(r) \/ LeaveUpload(r)
    PROVE  /\ s3' \in [Collection -> Stored] /\ UNCHANGED <<vol, quay, tpa>>
           /\ \A c \in Collection : c # Of[r] => s3'[c] = s3[c]
           /\ s3'[Of[r]].bundle = vol.bundle[Of[r]]
           /\ UploadToS3(r) =>
                 /\ vol.sig[Of[r]] # NoRun => s3'[Of[r]].sig = vol.sig[Of[r]]
                 /\ vol.att[Of[r]] # NoRun => s3'[Of[r]].att = vol.att[Of[r]]
<1> DEFINE c == Of[r]
<1>0. /\ c \in Collection /\ s3 \in [Collection -> Stored] /\ s3[c] \in Stored
      /\ vol.bundle[c] \in Bundle /\ vol.sig[c] \in Run \cup {NoRun, "error"}
      /\ vol.att[c] \in Run \cup {NoRun} /\ vol.sbom[c] \in Sbom
  BY TasksConstants DEF FilesTyped, Volume
<1>1. CASE UploadToS3(r)
  <2> DEFINE alone == {e \in Collection : vol.sbom[e] # NoSbom} = {c}
             d == [bundle |-> vol.bundle[c],
                   sig |-> IF vol.sig[c] = NoRun THEN s3[c].sig ELSE vol.sig[c],
                   att |-> IF vol.att[c] = NoRun THEN s3[c].att ELSE vol.att[c],
                   sbom |-> IF alone THEN vol.sbom[c] ELSE s3[c].sbom]
  <2>1. s3' = [s3 EXCEPT ![c] = d] /\ UNCHANGED <<vol, quay, tpa>> BY <1>1 DEF UploadToS3
  <2> HIDE DEF alone
  <2>2. /\ d \in Stored /\ d.bundle = vol.bundle[c]
        /\ vol.sig[c] # NoRun => d.sig = vol.sig[c]
        /\ vol.att[c] # NoRun => d.att = vol.att[c]
    BY <1>0 DEF Stored
  <2> HIDE DEF d
  <2> QED BY <1>0, <2>1, <2>2
<1>2. CASE LeaveUpload(r)
  <2> DEFINE d == [s3[c] EXCEPT !.bundle = vol.bundle[c]]
  <2>1. s3' = [s3 EXCEPT ![c] = d] /\ UNCHANGED <<vol, quay, tpa>> BY <1>2 DEF LeaveUpload
  <2>2. d \in Stored /\ d.bundle = vol.bundle[c] BY <1>0 DEF Stored
  <2> HIDE DEF d
  <2>3. s3' \in [Collection -> Stored] /\ s3'[c] = d /\ \A e \in Collection : e # c => s3'[e] = s3[e]
    BY <1>0, <2>1, <2>2
  <2>4. CASE ~UploadToS3(r) BY <2>1, <2>2, <2>3, <2>4
  <2> QED BY <1>1, <2>4
<1> QED BY <1>1, <1>2

\* cleanup-workspace: bundles and signatures go together, archives stay.
LEMMA CleanupFiles ==
    ASSUME FilesTyped, NEW status, Volumes(Cleaned(status))
    PROVE  /\ vol' \in Volume /\ vol'.tars = vol.tars /\ UNCHANGED <<quay, s3, tpa>>
           /\ \A c \in Collection : vol'.bundle[c] \in {vol.bundle[c], NoBundle}
<1> DEFINE b == [c \in Collection |-> IF c \in Prefixed THEN NoBundle ELSE vol.bundle[c]]
           g == [c \in Collection |-> IF c \in Prefixed THEN NoRun ELSE vol.sig[c]]
           a == [c \in Collection |-> IF c \in Prefixed THEN NoRun ELSE vol.att[c]]
           m == [c \in Collection |-> NoSbom]
           kept == [vol EXCEPT !.mapping = {}, !.sboms = {}, !.sbom = m, !.bundle = b,
                               !.sig = g, !.att = a, !.snapshot = NoSnapshot]
<1>0. /\ vol \in Volume /\ vol.bundle \in [Collection -> Bundle]
      /\ vol.sig \in [Collection -> Run \cup {NoRun, "error"}]
      /\ vol.att \in [Collection -> Run \cup {NoRun}] /\ vol.snapshot \in Cache \cup {NoSnapshot}
  BY DEF FilesTyped, Volume
<1>1. NoBundle \in Bundle /\ NoSbom \in Sbom BY DEF NoBundle, Bundle, NoPart, NoSbom, Sbom
<1>2. /\ b \in [Collection -> Bundle] /\ g \in [Collection -> Run \cup {NoRun, "error"}]
      /\ a \in [Collection -> Run \cup {NoRun}] /\ m \in [Collection -> Sbom]
      /\ \A c \in Collection : b[c] \in {vol.bundle[c], NoBundle}
  BY <1>0, <1>1
<1>3. /\ vol' = kept \/ (vol.snapshot # NoSnapshot /\ vol' = [kept EXCEPT !.cache = vol.snapshot])
      /\ UNCHANGED <<quay, s3, tpa>>
  BY DEF Volumes, Cleaned
<1> HIDE DEF b, g, a, m
<1>4. kept \in Volume /\ kept.tars = vol.tars /\ kept.bundle = b BY <1>0, <1>2 DEF Volume
<1> HIDE DEF kept
<1>5. CASE vol' = kept BY <1>2, <1>3, <1>4, <1>5
<1>6. CASE vol.snapshot # NoSnapshot /\ vol' = [kept EXCEPT !.cache = vol.snapshot]
  <2>1. vol.snapshot \in Cache BY <1>0, <1>6
  <2>2. vol' \in Volume /\ vol'.tars = kept.tars /\ vol'.bundle = kept.bundle
    BY <1>4, <1>6, <2>1 DEF Volume
  <2> QED BY <1>2, <1>3, <1>4, <2>2
<1> QED BY <1>3, <1>5, <1>6

-----------------------------------------------------------------------------
(* Type correctness *)

LEMMA WorkTyped ==
    ASSUME FilesTyped, NEW r \in Run, NEW t, Work(r, t)
    PROVE  FilesTyped'
<1>1. CASE downloadRHCOSScript(r) BY <1>1, DownloadFiles
<1>2. CASE buildRHCOSServerScript(r) \/ SignImages(r, {}) BY <1>2, RegistryFiles
<1>3. CASE DryRun(r) BY <1>3, DryRunFiles
<1>4. CASE MirrorToIntermediate(r) BY <1>4, MirrorToFiles
<1>5. CASE SyftSbom(r, {}) \/ UploadSbom(r) BY <1>5, SbomFiles
<1>6. CASE \E n \in Chunk : OcMirror(r, n) \/ MirrorFromIntermediate(r, n)
  <2>1. PICK n \in Chunk : OcMirror(r, n) \/ MirrorFromIntermediate(r, n) BY <1>6
  <2>2. OnlyTars(Archives(r, n, TRUE)) BY <2>1, ArchiveFiles
  <2> QED BY <2>2 DEF OnlyTars, FilesTyped
<1>7. CASE ExportArchitectImages(r) \/ DownloadCLITools(r) \/ CopyImportScript(r)
  <2>1. vol' \in Volume /\ UNCHANGED <<quay, s3, tpa>> BY <1>7, PartFiles
  <2> QED BY <2>1 DEF FilesTyped
<1>8. CASE RepackageBundle(r)
  <2>1. vol' \in Volume /\ UNCHANGED <<quay, s3, tpa>> BY <1>8, RepackageFiles
  <2> QED BY <2>1 DEF FilesTyped
<1>9. CASE SignBundles(r, {}, FALSE)
  <2>1. vol' \in Volume /\ UNCHANGED <<quay, s3, tpa>> BY <1>9, SignFiles
  <2> QED BY <2>1 DEF FilesTyped
<1>10. CASE CreateBundleSbom(r) BY <1>10, BundleSbomFiles
<1>11. CASE UploadToS3(r)
  <2>1. s3' \in [Collection -> Stored] /\ UNCHANGED <<vol, quay, tpa>> BY <1>11, UploadFiles
  <2> QED BY <2>1 DEF FilesTyped
<1> QED BY <1>1, <1>2, <1>3, <1>4, <1>5, <1>6, <1>7, <1>8, <1>9, <1>10, <1>11, Zenon DEF Work

LEMMA LeaveTyped ==
    ASSUME FilesTyped, NEW r \in Run, NEW t, Leave(r, t)
    PROVE  FilesTyped'
<1>1. CASE Nothing BY <1>1, Untouched
<1>2. CASE \E n \in Chunk : LeaveOcMirror(r, n) \/ LeaveMirrorFrom(r, n)
  <2>1. PICK n \in Chunk : LeaveOcMirror(r, n) \/ LeaveMirrorFrom(r, n) BY <1>2
  <2>2. OnlyTars(Archives(r, n, FALSE)) BY <2>1, ArchiveFiles
  <2> QED BY <2>2 DEF OnlyTars, FilesTyped
<1>3. CASE Volumes([vol EXCEPT !.cache.registry = @ \cup {r}]) BY <1>3, MirrorToFiles
<1>4. CASE LeaveUpload(r)
  <2>1. s3' \in [Collection -> Stored] /\ UNCHANGED <<vol, quay, tpa>> BY <1>4, UploadFiles
  <2> QED BY <2>1 DEF FilesTyped
<1> QED BY <1>1, <1>2, <1>3, <1>4, Zenon DEF Leave

LEMMA PrepareTyped ==
    ASSUME FilesTyped, NEW r \in Run, NEW t, Prepare(r, t)
    PROVE  FilesTyped'
<1>1. CASE BeginMirror(r)
  <2>1. OnlyTars(IF Of[r] \in Child THEN [i \in Chunk |-> NoTar] ELSE vol.tars)
    BY <1>1, BeginMirrorFiles
  <2> QED BY <2>1 DEF OnlyTars, FilesTyped
<1>2. CASE BeginExport(r)
  <2>1. vol' \in Volume /\ UNCHANGED <<quay, s3, tpa>> BY <1>2, PartFiles
  <2> QED BY <2>1 DEF FilesTyped
<1>3. CASE Nothing BY <1>3, Untouched
<1> QED BY <1>1, <1>2, <1>3 DEF Prepare

LEMMA PartlyTyped ==
    ASSUME FilesTyped, NEW r \in Run, NEW t, Partly(r, t)
    PROVE  FilesTyped'
<1>1. CASE \E failed : SyftSbom(r, failed) BY <1>1, SbomFiles
<1>2. CASE \E failed : SignImages(r, failed) BY <1>2, RegistryFiles
<1>3. CASE \E failed : \E text \in BOOLEAN : SignBundles(r, failed, text)
  <2>1. vol' \in Volume /\ UNCHANGED <<quay, s3, tpa>> BY <1>3, SignFiles
  <2> QED BY <2>1 DEF FilesTyped
<1>4. CASE Nothing BY <1>4, Untouched
<1> QED BY <1>1, <1>2, <1>3, <1>4 DEF Partly

\* A step of Tekton in which a task moves.
MovingStep(r, t) == Skip(r, t) \/ Begin(r, t) \/ Finish(r, t) \/ Fail(r, t) \/ Partly(r, t)

LEMMA TektonSteps ==
    ASSUME NEW r \in Run, Tekton(r)
    PROVE  (\E t \in Task : MovingStep(r, t)) \/ CleanupWorkspace(r)
  BY PartsFailPartly DEF Tekton, MovingStep

LEMMA MovingTyped ==
    ASSUME TInv, NEW r \in Run, NEW t \in Task, MovingStep(r, t)
    PROVE  TInv'
<1>0. TasksTyped /\ FilesTyped /\ GraphInv BY DEF TInv
<1>1. PICK st : Move(r, t, st) BY TektonMoves DEF MovingStep
<1>2. TasksTyped' BY <1>1, TektonTyped DEF MovingStep
<1>3. GraphInv' BY <1>0, <1>1, MoveKeepsGraph
<1>4. FilesTyped'
  <2>1. CASE Skip(r, t) BY <1>0, <2>1, Untouched DEF Skip
  <2>2. CASE Begin(r, t) BY <1>0, <2>2, PrepareTyped DEF Begin
  <2>3. CASE Finish(r, t) BY <1>0, <2>3, WorkTyped DEF Finish
  <2>4. CASE Fail(r, t) BY <1>0, <2>4, LeaveTyped DEF Fail
  <2>5. CASE Partly(r, t) BY <1>0, <2>5, PartlyTyped
  <2> QED BY <2>1, <2>2, <2>3, <2>4, <2>5 DEF MovingStep
<1> QED BY <1>2, <1>3, <1>4 DEF TInv

LEMMA CleanupTyped ==
    ASSUME TInv, NEW r \in Run, CleanupWorkspace(r)
    PROVE  TInv'
<1>0. TasksTyped /\ FilesTyped /\ GraphInv BY DEF TInv
<1>1. /\ UNCHANGED <<template, conf, task, tries, poor, used>>
      /\ life' = [life EXCEPT ![r] = IF Stopping(r) THEN "failed" ELSE "done"]
      /\ Stopping(r) \/ \A t \in Task : Over(r, t)
      /\ Volumes(Cleaned(TasksStatus(r)))
  BY DEF CleanupWorkspace
<1>2. TasksTyped' BY <1>0, <1>1 DEF TasksTyped
<1>3. FilesTyped'
  <2>1. vol' \in Volume /\ UNCHANGED <<quay, s3, tpa>> BY <1>0, <1>1, CleanupFiles
  <2> QED BY <1>0, <2>1 DEF FilesTyped
<1>4. GraphInv'
  <2>1. life \in [Run -> {"new", "running", "done", "failed", "aborted"}] BY <1>0 DEF TasksTyped
  <2> QED BY <1>0, <1>1, <2>1 DEF GraphInv, Over
<1> QED BY <1>2, <1>3, <1>4 DEF TInv

LEMMA StartTyped ==
    ASSUME TInv, NEW r \in Run, Start(r)
    PROVE  TInv'
<1>0. TasksTyped /\ FilesTyped /\ GraphInv BY DEF TInv
<1>1. PICK c \in Config : conf' = [conf EXCEPT ![r] = c] BY DEF Start
<1>2. /\ UNCHANGED <<template, task, tries, poor, used>> /\ Nothing /\ life[r] = "new"
      /\ life' = [life EXCEPT ![r] = IF template THEN "running" ELSE "failed"]
  BY DEF Start
<1>3. TasksTyped' BY <1>0, <1>1, <1>2 DEF TasksTyped
<1>4. FilesTyped' BY <1>0, <1>2, Untouched
<1>5. GraphInv'
  <2>1. /\ life \in [Run -> {"new", "running", "done", "failed", "aborted"}]
        /\ conf \in [Run -> Config]
    BY <1>0 DEF TasksTyped
  <2>2. ASSUME NEW q \in Run, q = r PROVE \A t \in Task : task'[q][t] = "waiting"
    BY <1>0, <1>2, <2>2 DEF GraphInv
  <2>3. ASSUME NEW q \in Run, q # r
        PROVE  life'[q] = life[q] /\ conf'[q] = conf[q] /\ task'[q] = task[q]
    BY <1>1, <1>2, <2>1, <2>3
  <2>4. life'[r] \notin {"new", "done"} BY <1>2, <2>1
  <2> QED BY <1>0, <2>2, <2>3, <2>4 DEF GraphInv, Over
<1> QED BY <1>3, <1>4, <1>5 DEF TInv

LEMMA AbortTyped ==
    ASSUME TInv, NEW r \in Run, Abort(r)
    PROVE  TInv'
<1>0. TasksTyped /\ FilesTyped /\ GraphInv BY DEF TInv
<1>1. /\ UNCHANGED <<template, conf, task, tries, poor>> /\ Nothing
      /\ life' = [life EXCEPT ![r] = "aborted"] /\ used < MaxFaults /\ used' = used + 1
  BY DEF Abort, Spend
<1>2. used' \in 0..MaxFaults BY <1>0, <1>1, TasksConstants DEF TasksTyped
<1>3. TasksTyped' BY <1>0, <1>1, <1>2 DEF TasksTyped
<1>4. FilesTyped' BY <1>0, <1>1, Untouched
<1>5. GraphInv'
  <2>1. life \in [Run -> {"new", "running", "done", "failed", "aborted"}] BY <1>0 DEF TasksTyped
  <2> QED BY <1>0, <1>1, <2>1 DEF GraphInv, Over
<1> QED BY <1>3, <1>4, <1>5 DEF TInv

\* A new volume, an empty registry and an empty bucket.
LEMMA InitTyped == Init => TInv
<1> SUFFICES ASSUME Init PROVE TInv OBVIOUS
<1>1. TasksTyped
  <2>1. (CHOOSE c \in Config : TRUE) \in Config BY TasksConstants
  <2>2. conf \in [Run -> Config] BY <2>1 DEF Init
  <2>3. \A t \in Task : 0 <= Retries(t) BY RetriesTyped
  <2>4. /\ task \in [Run -> [Task -> States]] /\ tries \in [Run -> [Task -> Nat]]
        /\ \A r \in Run : \A t \in Task : tries[r][t] = 0
    BY DEF Init, States
  <2>5. used \in 0..MaxFaults BY TasksConstants DEF Init
  <2>6. /\ template \in BOOLEAN /\ poor \subseteq Run
        /\ life \in [Run -> {"new", "running", "done", "failed", "aborted"}]
    BY DEF Init
  <2> QED BY <2>2, <2>3, <2>4, <2>5, <2>6 DEF TasksTyped
<1>2. FilesTyped
  <2>1. NoBundle \in Bundle /\ NoSbom \in Sbom BY DEF NoBundle, Bundle, NoPart, NoSbom, Sbom
  <2>2. vol \in Volume BY <2>1 DEF Init, Empty, Volume, TarOrNone, Cache
  <2>3. s3 \in [Collection -> Stored] BY <2>1 DEF Init, Stored
  <2> QED BY <2>2, <2>3 DEF Init, FilesTyped
<1>3. GraphInv BY DEF Init, GraphInv
<1> QED BY <1>1, <1>2, <1>3 DEF TInv

LEMMA StepTyped == TInv /\ [Next]_vars => TInv'
<1> SUFFICES ASSUME TInv, [Next]_vars PROVE TInv' OBVIOUS
<1>1. CASE reconcileCollectionPipelineTemplate
  BY <1>1
  DEF reconcileCollectionPipelineTemplate, TInv, TasksTyped, FilesTyped, GraphInv, Over
<1>2. ASSUME NEW r \in Run, Start(r) PROVE TInv' BY <1>2, StartTyped
<1>3. ASSUME NEW r \in Run, Tekton(r) PROVE TInv'
  BY <1>3, TektonSteps, MovingTyped, CleanupTyped
<1>4. ASSUME NEW r \in Run, Abort(r) PROVE TInv' BY <1>4, AbortTyped
<1>5. CASE UNCHANGED vars
  BY <1>5 DEF vars, TInv, TasksTyped, FilesTyped, GraphInv, Over
<1> QED BY <1>1, <1>2, <1>3, <1>4, <1>5 DEF Next

LEMMA TypedAlways == Spec => []TInv
<1> QED BY InitTyped, StepTyped, PTL DEF Spec

\* Whatever fails, is tried again or is aborted, and however runs overlap on the
\* volume, every task stays in a state Tekton knows and within its retries, and the
\* volume, the registry, the bucket and the analyzer hold what the scripts write.
THEOREM TypeCorrect == Spec => []TypeOK
<1>1. TInv => TypeOK
  BY RetriesTyped DEF TInv, TasksTyped, FilesTyped, TypeOK, States
<1> QED BY <1>1, TypedAlways, PTL

-----------------------------------------------------------------------------
(* What a step of a task must respect for each part of FInv to stay *)

\* The only active run is the one whose task moves.
LEMMA ActiveMove ==
    ASSUME Alone, NEW r \in Run, NEW t \in Task, NEW st, Move(r, t, st),
           Holds(r, task'[r], vol', poor')
    PROVE  ActiveInv'
<1> SUFFICES ASSUME NEW q \in Run, Active(q)' PROVE Holds(q, task[q], vol, poor)' BY DEF ActiveInv
<1>1. q = r /\ conf' = conf BY DEF Move, Active, Alone
<1> QED BY <1>1 DEF Holds, MappedAt, ArchivedAt, PartsAt, BundledAt, Wanted

LEMMA MappedMove ==
    ASSUME TasksTyped, NEW r \in Run, NEW t \in Task, NEW st, Move(r, t, st),
           MappedAt(r, task[r], vol), vol'.mapping = vol.mapping,
           ~(t = "dry_run" /\ st = "succeeded")
    PROVE  MappedAt(r, task'[r], vol')
  BY MoveTasks, TaskNames DEF MappedAt

LEMMA ArchivedMove ==
    ASSUME TasksTyped, NEW r \in Run, NEW t \in Task, NEW st, Move(r, t, st),
           ArchivedAt(r, task[r], vol), vol'.tars = vol.tars,
           ~(t \in MirrorTask /\ st \in {"running", "succeeded"})
    PROVE  ArchivedAt(r, task'[r], vol')
<1>1. \A u \in MirrorTask : \A x \in {"running", "succeeded"} : task'[r][u] = x => task[r][u] = x
  BY MoveTasks, TaskNames DEF MirrorTask
<1> QED BY <1>1 DEF ArchivedAt

LEMMA PartsMove ==
    ASSUME TasksTyped, NEW r \in Run, NEW t \in Task, NEW st, Move(r, t, st),
           PartsAt(r, task[r], vol),
           \/ vol'.architect = r
           \/ vol'.architect = vol.architect /\ ~(t = "export_architect_images" /\ st = "succeeded")
           \/ t = "export_architect_images" /\ st # "succeeded",
           \/ vol'.tools = r
           \/ vol'.tools = vol.tools /\ ~(t = "download_cli_tools" /\ st = "succeeded"),
           \/ vol'.script = r
           \/ vol'.script = vol.script /\ ~(t = "copy_import_script" /\ st = "succeeded")
    PROVE  PartsAt(r, task'[r], vol')
<1>1. {"export_architect_images", "download_cli_tools", "copy_import_script"} \subseteq Task
  BY TaskNames
<1>2. task'[r][t] = st /\ \A u \in Task : u # t => task'[r][u] = task[r][u] BY MoveTasks
<1>3. task'[r]["export_architect_images"] = "succeeded" => vol'.architect = r
  BY <1>1, <1>2 DEF PartsAt
<1>4. task'[r]["download_cli_tools"] = "succeeded" => vol'.tools = r
  BY <1>1, <1>2 DEF PartsAt
<1>5. task'[r]["copy_import_script"] = "succeeded" => vol'.script = r
  BY <1>1, <1>2 DEF PartsAt
<1> QED BY <1>3, <1>4, <1>5 DEF PartsAt

LEMMA BundledMove ==
    ASSUME TasksTyped, NEW r \in Run, NEW t \in Task, NEW st, Move(r, t, st),
           BundledAt(r, task[r], vol, poor), SameBundles(vol, vol'),
           ~(t \in {"repackage_bundle", "sign_bundles"} /\ st = "succeeded")
    PROVE  BundledAt(r, task'[r], vol', poor')
<1>1. {"repackage_bundle", "sign_bundles"} \subseteq Task BY TaskNames
<1>2. task'[r][t] = st /\ \A u \in Task : u # t => task'[r][u] = task[r][u] BY MoveTasks
<1>3. poor \subseteq poor' BY DEF Move
<1>4. \A u \in {"repackage_bundle", "sign_bundles"} :
        task'[r][u] = "succeeded" => task[r][u] = "succeeded"
  BY <1>1, <1>2
<1> QED BY <1>3, <1>4 DEF BundledAt, SameBundles

LEMMA ServedMove ==
    ASSUME TasksTyped, Served, NEW r \in Run, NEW t \in Task, NEW st, Move(r, t, st),
           quay.rhcos => quay'.rhcos,
           t = "build_rhcos_server" /\ st = "succeeded" /\ conf[r].rhcos /\ conf[r].registry
               => quay'.rhcos
    PROVE  Served'
<1>1. "build_rhcos_server" \in Task /\ conf' = conf BY TaskNames DEF Move
<1>2. ASSUME NEW q \in Run, task'[q]["build_rhcos_server"] = "succeeded",
             conf[q].rhcos /\ conf[q].registry
      PROVE  quay'.rhcos
  <2>1. CASE q = r /\ t = "build_rhcos_server" BY <1>2, <2>1, MoveTasks
  <2>2. CASE ~(q = r /\ t = "build_rhcos_server")
    <3>1. task[q]["build_rhcos_server"] = "succeeded" BY <1>1, <1>2, <2>2, MoveTasks
    <3> QED BY <1>2, <3>1 DEF Served
  <2> QED BY <2>1, <2>2
<1> QED BY <1>1, <1>2 DEF Served

LEMMA SignedMove ==
    ASSUME TasksTyped, ImagesSigned, NEW r \in Run, NEW t \in Task, NEW st, Move(r, t, st),
           quay.signed \subseteq quay'.signed,
           t = "sign_images" /\ st = "succeeded" /\ r \notin poor' => Wanted(r) \subseteq quay'.signed
    PROVE  ImagesSigned'
<1>1. "sign_images" \in Task /\ conf' = conf /\ poor \subseteq poor' BY TaskNames DEF Move
<1>2. ASSUME NEW q \in Run, task'[q]["sign_images"] = "succeeded", q \notin poor'
      PROVE  Wanted(q) \subseteq quay'.signed
  <2>1. CASE q = r /\ t = "sign_images" BY <1>2, <2>1, MoveTasks
  <2>2. CASE ~(q = r /\ t = "sign_images")
    <3>1. task[q]["sign_images"] = "succeeded" BY <1>1, <1>2, <2>2, MoveTasks
    <3> QED BY <1>1, <1>2, <3>1 DEF ImagesSigned
  <2> QED BY <2>1, <2>2
<1>3. \A q \in Run : Wanted(q)' = Wanted(q) BY <1>1 DEF Wanted
<1> QED BY <1>2, <1>3 DEF ImagesSigned

LEMMA TarsMove ==
    ASSUME TInv, TarsInv, NEW r \in Run, NEW t \in Task, NEW st, Move(r, t, st),
           \A i \in Chunk :
              \/ vol'.tars[i] \in {vol.tars[i], NoTar}
              \/ vol'.tars[i].by = r /\ (conf[r].registry => Over(r, "sign_images"))
    PROVE  TarsInv'
<1>1. /\ "sign_images" \in Task /\ conf' = conf /\ life' = life /\ life[r] = "running"
      /\ task[r][t] \in {"waiting", "running", "retrying"}
  BY TaskNames DEF Move, Active
<1>2. \A q \in Run : Over(q, "sign_images") => task'[q]["sign_images"] \in {"succeeded", "skipped"}
  BY <1>1, MoveTasks DEF Over, TInv
<1>3. ASSUME NEW i \in Chunk, NEW q, q = vol'.tars[i].by, q # NoRun
      PROVE  /\ life'[q] # "new"
             /\ conf'[q].registry => task'[q]["sign_images"] \in {"succeeded", "skipped"}
  <2>1. CASE vol'.tars[i] = vol.tars[i]
    <3>1. vol.tars[i].by \in Run BY <1>3, <2>1 DEF TInv, FilesTyped, Volume, TarOrNone, Tar, NoTar
    <3> QED BY <1>1, <1>2, <1>3, <2>1, <3>1 DEF TarsInv
  <2>2. CASE vol'.tars[i] = NoTar BY <1>3, <2>2 DEF NoTar
  <2>3. CASE vol'.tars[i].by = r /\ (conf[r].registry => Over(r, "sign_images"))
    BY <1>1, <1>2, <1>3, <2>3
  <2> QED BY <2>1, <2>2, <2>3
<1> QED BY <1>3 DEF TarsInv, Over

LEMMA BundlesMove ==
    ASSUME BundlesInv, NEW r \in Run, NEW t \in Task, NEW st, Move(r, t, st),
           \A c \in Collection :
              /\ vol'.bundle[c] = vol.bundle[c] \/ Good(c, vol'.bundle[c], life, conf)
              /\ s3'[c].bundle \in {s3[c].bundle, vol.bundle[c]}
    PROVE  BundlesInv'
<1>1. life' = life /\ conf' = conf BY DEF Move
<1>2. \A c \in Collection : /\ Good(c, vol.bundle[c], life, conf)
                            /\ Good(c, s3[c].bundle, life, conf)
  BY DEF BundlesInv
<1>3. \A c \in Collection : /\ Good(c, vol'.bundle[c], life, conf)
                            /\ Good(c, s3'[c].bundle, life, conf)
  BY <1>2
<1>4. \A c \in Collection : /\ Good(c, vol'.bundle[c], life', conf')
                            /\ Good(c, s3'[c].bundle, life', conf')
  BY <1>1, <1>3
<1> QED BY <1>4 DEF BundlesInv, Good

LEMMA PublishedMove ==
    ASSUME TasksTyped, BundlesInv, Published, NEW r \in Run, NEW t \in Task, NEW st,
           Move(r, t, st), s3' = s3, ~(t = "upload_to_s3" /\ st = "succeeded")
    PROVE  Published'
<1>1. "upload_to_s3" \in Task /\ conf' = conf /\ poor \subseteq poor' BY TaskNames DEF Move
<1>2. \A q \in Run : task'[q]["upload_to_s3"] = "succeeded" => task[q]["upload_to_s3"] = "succeeded"
  BY <1>1, MoveTasks
<1>3. \A c \in Collection : s3[c].bundle # NoBundle => s3[c].bundle.by \in Run
  BY DEF BundlesInv, Good
<1> QED BY <1>1, <1>2, <1>3 DEF Published

\* What FInv says of a run whose task moves.
LEMMA HoldsNow ==
    ASSUME TInv, FInv, NEW r \in Run, Active(r)
    PROVE  /\ TasksTyped /\ FilesTyped /\ Served /\ ImagesSigned /\ TarsInv /\ BundlesInv /\ Published
           /\ MappedAt(r, task[r], vol) /\ ArchivedAt(r, task[r], vol) /\ PartsAt(r, task[r], vol)
           /\ BundledAt(r, task[r], vol, poor)
  BY DEF TInv, FInv, ActiveInv, Holds

\* The registry and the bucket, when the step does not show there.
LEMMA OutsideMove ==
    ASSUME TInv, FInv, NEW r \in Run, NEW t \in Task, NEW st, Move(r, t, st), SameOutside,
           ~(t \in {"build_rhcos_server", "sign_images", "upload_to_s3"} /\ st = "succeeded")
    PROVE  Served' /\ ImagesSigned' /\ Published'
<1>0. TasksTyped /\ Served /\ ImagesSigned /\ BundlesInv /\ Published BY DEF TInv, FInv
<1>1. s3' = s3 /\ quay'.rhcos = quay.rhcos /\ quay'.signed = quay.signed BY DEF SameOutside
<1>2. Served' BY <1>0, <1>1, ServedMove
<1>3. ImagesSigned' BY <1>0, <1>1, SignedMove
<1>4. Published' BY <1>0, <1>1, PublishedMove
<1> QED BY <1>2, <1>3, <1>4

\* The tasks whose success FInv tells something of.
Telling == {"build_rhcos_server", "dry_run", "sign_images", "oc_mirror",
            "mirror_from_intermediate", "export_architect_images", "download_cli_tools",
            "copy_import_script", "repackage_bundle", "sign_bundles", "upload_to_s3"}

\* A step of a task that neither writes nor proves anything.
LEMMA QuietMove ==
    ASSUME TInv, FInv, Alone, NEW r \in Run, NEW t \in Task, NEW st, Move(r, t, st),
           SameFiles(vol, vol'), SameOutside,
           ~(t \in Telling /\ st = "succeeded"), ~(t \in MirrorTask /\ st = "running")
    PROVE  FInv'
<1>0. /\ TasksTyped /\ TarsInv /\ BundlesInv
      /\ MappedAt(r, task[r], vol) /\ ArchivedAt(r, task[r], vol) /\ PartsAt(r, task[r], vol)
      /\ BundledAt(r, task[r], vol, poor)
  BY HoldsNow DEF Move
<1>1. /\ vol'.mapping = vol.mapping /\ vol'.tars = vol.tars /\ vol'.architect = vol.architect
      /\ vol'.tools = vol.tools /\ vol'.script = vol.script /\ vol'.bundle = vol.bundle
      /\ SameBundles(vol, vol') /\ s3' = s3
  BY DEF SameFiles, SameParts, SameBundles, SameOutside
<1>2. MappedAt(r, task'[r], vol') BY <1>0, <1>1, MappedMove DEF Telling
<1>3. ArchivedAt(r, task'[r], vol') BY <1>0, <1>1, ArchivedMove DEF Telling, MirrorTask
<1>4. PartsAt(r, task'[r], vol') BY <1>0, <1>1, PartsMove DEF Telling
<1>5. BundledAt(r, task'[r], vol', poor') BY <1>0, <1>1, BundledMove DEF Telling
<1>6. ActiveInv' BY <1>2, <1>3, <1>4, <1>5, ActiveMove DEF Holds
<1>7. Served' /\ ImagesSigned' /\ Published' BY OutsideMove DEF Telling
<1>8. TarsInv' BY <1>0, <1>1, TarsMove
<1>9. BundlesInv' BY <1>0, <1>1, BundlesMove
<1> QED BY <1>6, <1>7, <1>8, <1>9 DEF FInv

\* The RHCOS server image is in the registry, or was not wanted there.
LEMMA BuildMove ==
    ASSUME TInv, FInv, Alone, NEW r \in Run, Move(r, "build_rhcos_server", "succeeded"),
           buildRHCOSServerScript(r)
    PROVE  FInv'
<1> DEFINE t == "build_rhcos_server"
<1>0. /\ TasksTyped /\ FilesTyped /\ Served /\ ImagesSigned /\ TarsInv /\ BundlesInv /\ Published
      /\ MappedAt(r, task[r], vol) /\ ArchivedAt(r, task[r], vol) /\ PartsAt(r, task[r], vol)
      /\ BundledAt(r, task[r], vol, poor)
  BY HoldsNow DEF Move
<1>1. t \in Task BY TaskNames
<1>2. /\ SameFiles(vol, vol') /\ s3' = s3
      /\ quay.rhcos => quay'.rhcos
      /\ quay.signed \subseteq quay'.signed
      /\ conf[r].rhcos /\ conf[r].registry => quay'.rhcos
  BY <1>0, RegistryFiles
<1>3. /\ vol'.mapping = vol.mapping /\ vol'.tars = vol.tars /\ vol'.architect = vol.architect
      /\ vol'.tools = vol.tools /\ vol'.script = vol.script /\ vol'.bundle = vol.bundle
      /\ SameBundles(vol, vol')
  BY <1>2 DEF SameFiles, SameParts, SameBundles
<1>4. ActiveInv'
  BY <1>0, <1>1, <1>3, MappedMove, ArchivedMove, PartsMove, BundledMove, ActiveMove
  DEF Holds, MirrorTask
<1>5. Served' BY <1>0, <1>1, <1>2, ServedMove
<1>6. ImagesSigned' BY <1>0, <1>1, <1>2, SignedMove
<1>7. TarsInv' BY <1>0, <1>1, <1>3, TarsMove
<1>8. BundlesInv' BY <1>0, <1>1, <1>2, <1>3, BundlesMove
<1>9. Published' BY <1>0, <1>1, <1>2, PublishedMove
<1> QED BY <1>4, <1>5, <1>6, <1>7, <1>8, <1>9 DEF FInv

\* Behind build_rhcos_server the mapping lists all that is wanted.
LEMMA DryRunMove ==
    ASSUME TInv, FInv, Alone, NEW r \in Run, Move(r, "dry_run", "succeeded"),
           task[r]["dry_run"] = "running", DryRun(r)
    PROVE  FInv'
<1> DEFINE t == "dry_run"
<1>0. /\ TasksTyped /\ FilesTyped /\ Served /\ TarsInv /\ BundlesInv
      /\ ArchivedAt(r, task[r], vol) /\ PartsAt(r, task[r], vol)
      /\ BundledAt(r, task[r], vol, poor)
  BY HoldsNow DEF Move
<1>1. t \in Task /\ "build_rhcos_server" \in Task BY TaskNames
<1>2. /\ SameOutside /\ vol'.mapping = Wanted(r) \ (IF quay.rhcos THEN {} ELSE {"rhcos"})
      /\ vol'.tars = vol.tars /\ SameParts(vol, vol') /\ SameBundles(vol, vol')
  BY <1>0, DryRunFiles
<1>3. vol'.mapping = Wanted(r)
  <2>1. task[r]["build_rhcos_server"] = "succeeded"
    BY <1>0, <1>1, Graph1 DEF TInv, TasksTyped, GraphInv, Over
  <2>2. CASE quay.rhcos BY <1>2, <2>2
  <2>3. CASE ~quay.rhcos
    <3>1. ~(conf[r].rhcos /\ conf[r].registry) BY <1>0, <2>1, <2>3 DEF Served
    <3>2. "rhcos" \notin Wanted(r)
      BY <3>1, TasksConstants DEF Wanted
    <3> QED BY <1>2, <3>2
  <2> QED BY <2>2, <2>3
<1>4. MappedAt(r, task'[r], vol') BY <1>3 DEF MappedAt
<1>5. ActiveInv'
  BY <1>0, <1>1, <1>2, <1>4, ArchivedMove, PartsMove, BundledMove, ActiveMove
  DEF Holds, MirrorTask, SameParts
<1>6. Served' /\ ImagesSigned' /\ Published' BY <1>1, <1>2, OutsideMove
<1>7. TarsInv' BY <1>0, <1>1, <1>2, TarsMove
<1>8. BundlesInv' BY <1>0, <1>1, <1>2, BundlesMove DEF SameBundles, SameOutside
<1> QED BY <1>5, <1>6, <1>7, <1>8 DEF FInv

\* All that the mapping lists is signed, or a part has failed.
LEMMA SignImagesMove ==
    ASSUME TInv, FInv, Alone, NEW r \in Run, Move(r, "sign_images", "succeeded"),
           task[r]["sign_images"] = "running",
           \E failed : SignImages(r, failed), r \in poor' \/ SignImages(r, {})
    PROVE  FInv'
<1> DEFINE t == "sign_images"
<1>0. /\ TasksTyped /\ FilesTyped /\ Served /\ ImagesSigned /\ TarsInv /\ BundlesInv /\ Published
      /\ MappedAt(r, task[r], vol) /\ ArchivedAt(r, task[r], vol) /\ PartsAt(r, task[r], vol)
      /\ BundledAt(r, task[r], vol, poor)
  BY HoldsNow DEF Move
<1>1. t \in Task BY TaskNames
<1>2. /\ SameFiles(vol, vol') /\ s3' = s3
      /\ quay.rhcos => quay'.rhcos
      /\ quay.signed \subseteq quay'.signed
      /\ r \in poor' \/ vol.mapping \subseteq quay'.signed
  BY <1>0, RegistryFiles
<1>3. /\ vol'.mapping = vol.mapping /\ vol'.tars = vol.tars /\ vol'.architect = vol.architect
      /\ vol'.tools = vol.tools /\ vol'.script = vol.script /\ vol'.bundle = vol.bundle
      /\ SameBundles(vol, vol')
  BY <1>2 DEF SameFiles, SameParts, SameBundles
<1>4. ActiveInv'
  BY <1>0, <1>1, <1>3, MappedMove, ArchivedMove, PartsMove, BundledMove, ActiveMove
  DEF Holds, MirrorTask
<1>5. Served' BY <1>0, <1>1, <1>2, ServedMove
<1>6. ImagesSigned'
  <2>1. conf[r].registry
    <3>1. conf[r] \in When(t) BY <1>0, <1>1 DEF TInv, GraphInv, TasksTyped
    <3> QED BY <3>1, Graph1 DEF ToQuay
  <2>2. task[r]["dry_run"] = "succeeded" BY <2>1, BehindSigning
  <2>3. vol.mapping = Wanted(r) BY <1>0, <2>2 DEF MappedAt
  <2> QED BY <1>0, <1>1, <1>2, <2>3, SignedMove
<1>7. TarsInv' BY <1>0, <1>1, <1>3, TarsMove
<1>8. BundlesInv' BY <1>0, <1>1, <1>2, <1>3, BundlesMove
<1>9. Published' BY <1>0, <1>1, <1>2, PublishedMove
<1> QED BY <1>4, <1>5, <1>6, <1>7, <1>8, <1>9 DEF FInv

\* A run takes one of the two ways to the disk.
LEMMA OneWay ==
    ASSUME TInv, NEW r \in Run, NEW t \in MirrorTask, NEW u \in MirrorTask, u # t,
           conf[r] \in When(t)
    PROVE  task[r][u] \in {"waiting", "skipped"}
<1>1. "oc_mirror" \in Task /\ "mirror_from_intermediate" \in Task /\ conf[r] \in Config
  BY TaskNames DEF TInv, TasksTyped
<1>2. conf[r] \notin When(u) BY <1>1, Graph1 DEF MirrorTask, ToDisk
<1> QED BY <1>1, <1>2 DEF TInv, GraphInv, MirrorTask

\* Archives, when nothing else that is followed changes.
LEMMA ArchivingMove ==
    ASSUME TInv, FInv, Alone, NEW r \in Run, NEW t \in MirrorTask, NEW st, Move(r, t, st),
           NEW x, OnlyTars(x), ArchivedAt(r, task'[r], vol'),
           \A i \in Chunk :
              \/ x[i] \in {vol.tars[i], NoTar}
              \/ x[i].by = r /\ (conf[r].registry => Over(r, "sign_images"))
    PROVE  FInv'
<1>0. /\ TasksTyped /\ TarsInv /\ BundlesInv
      /\ MappedAt(r, task[r], vol) /\ PartsAt(r, task[r], vol)
      /\ BundledAt(r, task[r], vol, poor)
  BY HoldsNow DEF Move
<1>1. t \in Task BY TaskNames DEF MirrorTask
<1>2. /\ vol'.mapping = vol.mapping /\ vol'.tars = x /\ vol'.architect = vol.architect
      /\ vol'.tools = vol.tools /\ vol'.script = vol.script /\ vol'.bundle = vol.bundle
      /\ SameBundles(vol, vol') /\ s3' = s3 /\ SameOutside
  BY DEF OnlyTars, SameParts, SameBundles, SameOutside
<1>3. MappedAt(r, task'[r], vol') BY <1>0, <1>1, <1>2, MappedMove DEF MirrorTask
<1>4. PartsAt(r, task'[r], vol') BY <1>0, <1>1, <1>2, PartsMove DEF MirrorTask
<1>5. BundledAt(r, task'[r], vol', poor') BY <1>0, <1>1, <1>2, BundledMove DEF MirrorTask
<1>6. ActiveInv' BY <1>1, <1>3, <1>4, <1>5, ActiveMove DEF Holds
<1>7. Served' /\ ImagesSigned' /\ Published' BY <1>1, <1>2, OutsideMove DEF MirrorTask
<1>8. TarsInv' BY <1>0, <1>1, <1>2, TarsMove
<1>9. BundlesInv' BY <1>0, <1>1, <1>2, BundlesMove
<1> QED BY <1>6, <1>7, <1>8, <1>9 DEF FInv

\* An update parks what is there.
LEMMA BeginMirrorMove ==
    ASSUME TInv, FInv, Alone, NEW r \in Run, NEW t \in MirrorTask, Move(r, t, "running"),
           conf[r] \in When(t), BeginMirror(r)
    PROVE  FInv'
<1> DEFINE x == IF Of[r] \in Child THEN [i \in Chunk |-> NoTar] ELSE vol.tars
<1>0. TasksTyped /\ FilesTyped BY DEF TInv
<1>1. OnlyTars(x) BY <1>0, BeginMirrorFiles
<1>2. \A u \in MirrorTask : task'[r][u] # "succeeded"
  BY <1>0, MoveTasks, OneWay, TaskNames DEF MirrorTask
<1>3. \A i \in Chunk : x[i] \in {vol.tars[i], NoTar} OBVIOUS
<1>4. ArchivedAt(r, task'[r], vol') BY <1>1, <1>2 DEF OnlyTars, ArchivedAt
<1> HIDE DEF x
<1> QED BY <1>1, <1>3, <1>4, ArchivingMove

\* Archives of a run that is behind sign_images, or on the way without a registry.
LEMMA WritingMove ==
    ASSUME TInv, NEW r \in Run, NEW t \in MirrorTask, task[r][t] = "running"
    PROVE  conf[r] \in When(t) /\ (conf[r].registry => Over(r, "sign_images"))
<1>1. t \in Task /\ task[r][t] # "waiting" /\ conf[r] \in Config
  BY TaskNames DEF MirrorTask, TInv, TasksTyped
<1>2. conf[r] \in When(t) /\ \A u \in RunAfter(t) : Over(r, u) BY <1>1 DEF TInv, GraphInv
<1>3. CASE t = "oc_mirror" BY <1>2, <1>3, Graph1 DEF ToDisk, ToQuay
<1>4. CASE t = "mirror_from_intermediate" BY <1>2, <1>4, Graph1
<1> QED BY <1>2, <1>3, <1>4 DEF MirrorTask

\* An attempt that fails leaves what it leaves: no mirror task is at work, or through.
LEMMA LeaveArchivesMove ==
    ASSUME TInv, FInv, Alone, NEW r \in Run, NEW t \in MirrorTask,
           NEW st \in {"retrying", "failed"}, Move(r, t, st), task[r][t] = "running",
           NEW n \in Chunk, LeaveOcMirror(r, n) \/ LeaveMirrorFrom(r, n)
    PROVE  FInv'
<1> DEFINE x == Archives(r, n, FALSE)
<1>0. TasksTyped /\ FilesTyped BY DEF TInv
<1>1. OnlyTars(x) BY <1>0, ArchiveFiles
<1>2. conf[r] \in When(t) /\ (conf[r].registry => Over(r, "sign_images")) BY WritingMove
<1>3. \A u \in MirrorTask : task'[r][u] \notin {"running", "succeeded"}
  BY <1>0, <1>2, MoveTasks, OneWay, TaskNames DEF MirrorTask
<1>4. \A i \in Chunk : x[i] = vol.tars[i] \/ x[i].by = r BY DEF Archives
<1>5. ArchivedAt(r, task'[r], vol') BY <1>3 DEF ArchivedAt
<1> HIDE DEF x
<1> QED BY <1>1, <1>2, <1>4, <1>5, ArchivingMove

\* One that succeeds has written whole archives, from the first on.
LEMMA ArchiveMove ==
    ASSUME TInv, FInv, Alone, NEW r \in Run, NEW t \in MirrorTask, Move(r, t, "succeeded"),
           task[r][t] = "running",
           NEW n \in Chunk, OcMirror(r, n) \/ MirrorFromIntermediate(r, n)
    PROVE  FInv'
<1> DEFINE x == Archives(r, n, TRUE)
<1>0. TasksTyped /\ FilesTyped /\ ArchivedAt(r, task[r], vol) BY HoldsNow DEF Move
<1>1. OnlyTars(x) BY <1>0, ArchiveFiles
<1>2. conf[r] \in When(t) /\ (conf[r].registry => Over(r, "sign_images")) BY WritingMove
<1>3. \A u \in MirrorTask : task'[r][u] # "running"
  BY <1>0, <1>2, MoveTasks, OneWay, TaskNames DEF MirrorTask
<1>4. \A i \in Chunk : x[i] = vol.tars[i] \/ x[i].by = r BY DEF Archives
<1>5. 1 \in Chunk /\ 1 <= n BY TasksConstants DEF Chunk
<1>6. x[1] = Whole(r) BY <1>5 DEF Archives, Whole
<1>7. Of[r] \in Child => \A i \in Chunk : x[i] \in {NoTar, Whole(r)}
  BY <1>0 DEF ArchivedAt, Archives, Whole
<1>8. vol'.tars = x BY <1>1 DEF OnlyTars
<1> HIDE DEF x
<1>9. ArchivedAt(r, task'[r], vol') BY <1>3, <1>6, <1>7, <1>8 DEF ArchivedAt
<1> QED BY <1>1, <1>2, <1>4, <1>9, ArchivingMove

\* A part of the bundle is taken away, or is this run's.
LEMMA PartMove ==
    ASSUME TInv, FInv, Alone, NEW r \in Run, NEW t \in Task, NEW st, Move(r, t, st),
           \/ t = "export_architect_images" /\ st = "running" /\ BeginExport(r)
           \/ t = "export_architect_images" /\ st = "succeeded" /\ ExportArchitectImages(r)
           \/ t = "download_cli_tools" /\ st = "succeeded" /\ DownloadCLITools(r)
           \/ t = "copy_import_script" /\ st = "succeeded" /\ CopyImportScript(r)
    PROVE  FInv'
<1>0. /\ TasksTyped /\ FilesTyped /\ TarsInv /\ BundlesInv
      /\ MappedAt(r, task[r], vol) /\ ArchivedAt(r, task[r], vol) /\ PartsAt(r, task[r], vol)
      /\ BundledAt(r, task[r], vol, poor)
  BY HoldsNow DEF Move
<1>1. /\ vol'.mapping = vol.mapping /\ vol'.tars = vol.tars /\ SameBundles(vol, vol')
      /\ UNCHANGED <<quay, s3, tpa>>
  BY <1>0, PartFiles
<1>2. t \in {"export_architect_images", "download_cli_tools", "copy_import_script"} OBVIOUS
<1>3. PartsAt(r, task'[r], vol')
  <2>1. CASE t = "export_architect_images" /\ st = "running" /\ BeginExport(r)
    <3>1. vol'.tools = vol.tools /\ vol'.script = vol.script
      BY <1>0, <2>1 DEF BeginExport, Volumes, FilesTyped, Volume
    <3> QED BY <1>0, <2>1, <3>1, PartsMove
  <2>2. CASE t = "export_architect_images" /\ st = "succeeded" /\ ExportArchitectImages(r)
    <3>1. vol'.architect = r /\ vol'.tools = vol.tools /\ vol'.script = vol.script
      BY <1>0, <2>2 DEF ExportArchitectImages, Volumes, FilesTyped, Volume
    <3> QED BY <1>0, <2>2, <3>1, PartsMove
  <2>3. CASE t = "download_cli_tools" /\ st = "succeeded" /\ DownloadCLITools(r)
    <3>1. vol'.tools = r /\ vol'.architect = vol.architect /\ vol'.script = vol.script
      BY <1>0, <2>3 DEF DownloadCLITools, Volumes, FilesTyped, Volume
    <3> QED BY <1>0, <2>3, <3>1, PartsMove
  <2>4. CASE t = "copy_import_script" /\ st = "succeeded" /\ CopyImportScript(r)
    <3>1. vol'.script = r /\ vol'.architect = vol.architect /\ vol'.tools = vol.tools
      BY <1>0, <2>4 DEF CopyImportScript, Volumes, FilesTyped, Volume
    <3> QED BY <1>0, <2>4, <3>1, PartsMove
  <2> QED BY <2>1, <2>2, <2>3, <2>4
<1>4. MappedAt(r, task'[r], vol') BY <1>0, <1>1, <1>2, MappedMove
<1>5. ArchivedAt(r, task'[r], vol') BY <1>0, <1>1, <1>2, ArchivedMove DEF MirrorTask
<1>6. BundledAt(r, task'[r], vol', poor') BY <1>0, <1>1, <1>2, BundledMove
<1>7. ActiveInv' BY <1>3, <1>4, <1>5, <1>6, ActiveMove DEF Holds
<1>8. Served' /\ ImagesSigned' /\ Published' BY <1>1, <1>2, OutsideMove DEF SameOutside
<1>9. TarsInv' BY <1>0, <1>1, TarsMove
<1>10. BundlesInv' BY <1>0, <1>1, BundlesMove DEF SameBundles
<1> QED BY <1>7, <1>8, <1>9, <1>10 DEF FInv

\* What is packed is this run's: the tasks that fetched it are behind.
LEMMA RepackageMove ==
    ASSUME TInv, FInv, Alone, NEW r \in Run, Move(r, "repackage_bundle", "succeeded"),
           task[r]["repackage_bundle"] = "running", RepackageBundle(r)
    PROVE  FInv'
<1> DEFINE t == "repackage_bundle"
           b == vol'.bundle[Of[r]]
<1>0. /\ TasksTyped /\ FilesTyped /\ TarsInv /\ BundlesInv
      /\ MappedAt(r, task[r], vol) /\ ArchivedAt(r, task[r], vol) /\ PartsAt(r, task[r], vol)
  BY HoldsNow DEF Move
<1>1. t \in Task /\ "sign_bundles" \in Task BY TaskNames
<1>2. /\ vol'.mapping = vol.mapping /\ vol'.tars = vol.tars /\ SameParts(vol, vol')
      /\ UNCHANGED <<quay, s3, tpa>>
      /\ \A c \in Collection : c # Of[r] => vol'.bundle[c] = vol.bundle[c]
      /\ b.by = r /\ b.tars = {vol.tars[i] : i \in Chunk} \ {NoTar}
      /\ Of[r] \notin Child =>
            /\ b.from["architect"] = vol.architect /\ b.from["tools"] = vol.tools
            /\ b.from["script"] = vol.script
  BY <1>0, RepackageFiles
<1>3. /\ \E u \in MirrorTask : task[r][u] = "succeeded"
      /\ task[r]["download_cli_tools"] = "succeeded" /\ task[r]["copy_import_script"] = "succeeded"
      /\ conf[r].architect => task[r]["export_architect_images"] = "succeeded"
  BY BehindRepackaging
<1>4. Good(Of[r], b, life, conf)
  <2>1. 1 \in Chunk /\ Whole(r) # NoTar /\ vol.tars[1] = Whole(r)
    BY <1>0, <1>3, TasksConstants DEF ArchivedAt, Chunk, Whole, NoTar
  <2>2. Whole(r) \in b.tars BY <1>2, <2>1
  <2>3. Of[r] \in Child => b.tars = {Whole(r)} BY <1>0, <1>2, <1>3, <2>2 DEF ArchivedAt
  <2>4. /\ vol.tools = r /\ vol.script = r
        /\ conf[r].architect => vol.architect = r
    BY <1>0, <1>3 DEF PartsAt
  <2>5. life[r] # "new" BY DEF Move, Active
  <2> QED BY <1>2, <2>2, <2>3, <2>4, <2>5 DEF Good
<1>5. BundledAt(r, task'[r], vol', poor')
  <2>1. task[r]["sign_bundles"] = "waiting" BY <1>1, Graph2 DEF TInv, GraphInv, Over
  <2>2. task'[r]["sign_bundles"] = "waiting" BY <1>0, <1>1, <2>1, MoveTasks
  <2> QED BY <1>2, <2>2 DEF BundledAt
<1>6. MappedAt(r, task'[r], vol') BY <1>0, <1>1, <1>2, MappedMove
<1>7. ArchivedAt(r, task'[r], vol') BY <1>0, <1>1, <1>2, ArchivedMove DEF MirrorTask
<1>8. PartsAt(r, task'[r], vol') BY <1>0, <1>1, <1>2, PartsMove DEF SameParts
<1>9. ActiveInv' BY <1>1, <1>5, <1>6, <1>7, <1>8, ActiveMove DEF Holds
<1>10. Served' /\ ImagesSigned' /\ Published' BY <1>1, <1>2, OutsideMove DEF SameOutside
<1>11. TarsInv' BY <1>0, <1>1, <1>2, TarsMove
<1> HIDE DEF b
<1>12. BundlesInv' BY <1>0, <1>1, <1>2, <1>4, BundlesMove DEF b
<1> QED BY <1>9, <1>10, <1>11, <1>12 DEF FInv

\* The bundle that is signed is this run's.
LEMMA SignBundlesMove ==
    ASSUME TInv, FInv, Alone, NEW r \in Run, Move(r, "sign_bundles", "succeeded"),
           task[r]["sign_bundles"] = "running",
           NEW failed, NEW text \in BOOLEAN, SignBundles(r, failed, text),
           r \in poor' \/ failed = {}
    PROVE  FInv'
<1> DEFINE t == "sign_bundles"
<1>0. /\ TasksTyped /\ FilesTyped /\ TarsInv /\ BundlesInv /\ Of[r] \in Collection
      /\ MappedAt(r, task[r], vol) /\ ArchivedAt(r, task[r], vol) /\ PartsAt(r, task[r], vol)
      /\ BundledAt(r, task[r], vol, poor)
  BY HoldsNow, TasksConstants DEF Move
<1>1. t \in Task /\ "repackage_bundle" \in Task BY TaskNames
<1>2. /\ vol'.mapping = vol.mapping /\ vol'.tars = vol.tars /\ SameParts(vol, vol')
      /\ vol'.bundle = vol.bundle /\ UNCHANGED <<quay, s3, tpa>>
      /\ \A c \in Collection : failed = {} /\ vol.bundle[c] # NoBundle =>
            vol'.sig[c] = vol.bundle[c].by /\ vol'.att[c] = vol.bundle[c].by
  BY <1>0, SignFiles
<1>3. BundledAt(r, task'[r], vol', poor')
  <2>1. task[r]["repackage_bundle"] = "succeeded"
    BY <1>0, <1>1, Graph2 DEF TInv, TasksTyped, GraphInv, Over
  <2>2. vol.bundle[Of[r]].by = r BY <1>0, <2>1 DEF BundledAt
  <2>3. vol.bundle[Of[r]] # NoBundle BY <2>2, TasksConstants DEF NoBundle
  <2> QED BY <1>0, <1>2, <2>2, <2>3 DEF BundledAt
<1>4. MappedAt(r, task'[r], vol') BY <1>0, <1>1, <1>2, MappedMove
<1>5. ArchivedAt(r, task'[r], vol') BY <1>0, <1>1, <1>2, ArchivedMove DEF MirrorTask
<1>6. PartsAt(r, task'[r], vol') BY <1>0, <1>1, <1>2, PartsMove DEF SameParts
<1>7. ActiveInv' BY <1>1, <1>3, <1>4, <1>5, <1>6, ActiveMove DEF Holds
<1>8. Served' /\ ImagesSigned' /\ Published' BY <1>1, <1>2, OutsideMove DEF SameOutside
<1>9. TarsInv' BY <1>0, <1>1, <1>2, TarsMove
<1>10. BundlesInv' BY <1>0, <1>1, <1>2, BundlesMove
<1> QED BY <1>7, <1>8, <1>9, <1>10 DEF FInv

\* What is uploaded, or was before the upload failed, is this run's bundle; beside it
\* lies its signature once the upload is through.
LEMMA UploadMove ==
    ASSUME TInv, FInv, Alone, NEW r \in Run, NEW st, Move(r, "upload_to_s3", st),
           task[r]["upload_to_s3"] = "running",
           UploadToS3(r) \/ (LeaveUpload(r) /\ st # "succeeded")
    PROVE  FInv'
<1> DEFINE t == "upload_to_s3"
           c == Of[r]
<1>0. /\ TasksTyped /\ FilesTyped /\ Served /\ ImagesSigned /\ TarsInv /\ BundlesInv /\ Published
      /\ MappedAt(r, task[r], vol) /\ ArchivedAt(r, task[r], vol) /\ PartsAt(r, task[r], vol)
      /\ BundledAt(r, task[r], vol, poor) /\ c \in Collection
  BY HoldsNow, TasksConstants DEF Move
<1>1. t \in Task BY TaskNames
<1>2. /\ UNCHANGED <<vol, quay, tpa>>
      /\ \A e \in Collection : e # c => s3'[e] = s3[e]
      /\ s3'[c].bundle = vol.bundle[c]
      /\ UploadToS3(r) => /\ vol.sig[c] # NoRun => s3'[c].sig = vol.sig[c]
                          /\ vol.att[c] # NoRun => s3'[c].att = vol.att[c]
  BY <1>0, UploadFiles
<1>3. /\ task[r]["repackage_bundle"] = "succeeded"
      /\ conf[r].keyless => task[r]["sign_bundles"] = "succeeded"
  BY BehindUpload
<1>4. Published'
  <2>1. vol.bundle[c].by = r BY <1>0, <1>3 DEF BundledAt
  <2>2. conf' = conf /\ poor \subseteq poor' BY DEF Move
  <2>3. ASSUME task'[r][t] = "succeeded", conf[r].keyless, r \notin poor'
        PROVE  s3'[c].sig = r /\ s3'[c].att = r
    <3>1. st = "succeeded" /\ UploadToS3(r) BY <1>0, <1>1, <2>3, MoveTasks
    <3>2. vol.sig[c] = r /\ vol.att[c] = r BY <1>0, <1>3, <2>2, <2>3 DEF BundledAt
    <3> QED BY <1>2, <3>1, <3>2, TasksConstants
  <2>4. ASSUME NEW e \in Collection, e # c, s3[e].bundle # NoBundle
        PROVE  s3[e].bundle.by \in Run /\ task'[s3[e].bundle.by] = task[s3[e].bundle.by]
    <3>1. s3[e].bundle.by \in Run /\ Of[s3[e].bundle.by] = e BY <1>0, <2>4 DEF BundlesInv, Good
    <3> QED BY <1>0, <1>1, <2>4, <3>1, MoveTasks
  <2>5. ASSUME NEW e \in Collection, s3'[e].bundle # NoBundle,
               task'[s3'[e].bundle.by][t] = "succeeded", conf[s3'[e].bundle.by].keyless,
               s3'[e].bundle.by \notin poor'
        PROVE  s3'[e].sig = s3'[e].bundle.by /\ s3'[e].att = s3'[e].bundle.by
    <3>1. CASE e = c BY <1>2, <2>1, <2>3, <2>5, <3>1
    <3>2. CASE e # c BY <1>0, <1>2, <2>2, <2>4, <2>5, <3>2 DEF Published
    <3> QED BY <3>1, <3>2
  <2> QED BY <2>2, <2>5 DEF Published
<1>5. ActiveInv'
  BY <1>0, <1>1, <1>2, MappedMove, ArchivedMove, PartsMove, BundledMove, ActiveMove
  DEF Holds, MirrorTask, SameBundles
<1>6. Served' /\ ImagesSigned' BY <1>0, <1>1, <1>2, ServedMove, SignedMove
<1>7. TarsInv' BY <1>0, <1>1, <1>2, TarsMove
<1>8. BundlesInv' BY <1>0, <1>1, <1>2, BundlesMove
<1> QED BY <1>4, <1>5, <1>6, <1>7, <1>8 DEF FInv

-----------------------------------------------------------------------------
(* The steps *)

LEMMA FinishKeeps ==
    ASSUME TInv, FInv, Alone, NEW r \in Run, NEW t \in Task, Finish(r, t)
    PROVE  FInv'
<1>0. Move(r, t, "succeeded") /\ FilesTyped /\ task[r][t] = "running" /\ Work(r, t)
  BY TektonMoves DEF TInv, Finish
<1>1. CASE t = "download_rhcos_images" /\ downloadRHCOSScript(r)
  BY <1>0, <1>1, DownloadFiles, QuietMove DEF Telling, MirrorTask
<1>2. CASE t = "build_rhcos_server" /\ buildRHCOSServerScript(r) BY <1>0, <1>2, BuildMove
<1>3. CASE t = "dry_run" /\ DryRun(r) BY <1>0, <1>3, DryRunMove
<1>4. CASE t = "mirror_to_intermediate" /\ MirrorToIntermediate(r)
  BY <1>0, <1>4, MirrorToFiles, QuietMove DEF Telling, MirrorTask
<1>5. CASE t = "syft_sbom" /\ SyftSbom(r, {})
  BY <1>0, <1>5, SbomFiles, QuietMove DEF Telling, MirrorTask
<1>6. CASE t = "sign_images" /\ SignImages(r, {}) BY <1>0, <1>6, SignImagesMove
<1>7. CASE t = "oc_mirror" /\ \E n \in Chunk : OcMirror(r, n)
  BY <1>0, <1>7, ArchiveMove DEF MirrorTask
<1>8. CASE t = "mirror_from_intermediate" /\ \E n \in Chunk : MirrorFromIntermediate(r, n)
  BY <1>0, <1>8, ArchiveMove DEF MirrorTask
<1>9. CASE \/ t = "export_architect_images" /\ ExportArchitectImages(r)
           \/ t = "download_cli_tools" /\ DownloadCLITools(r)
           \/ t = "copy_import_script" /\ CopyImportScript(r)
  BY <1>0, <1>9, PartMove
<1>10. CASE t = "repackage_bundle" /\ RepackageBundle(r) BY <1>0, <1>10, RepackageMove
<1>11. CASE t = "sign_bundles" /\ SignBundles(r, {}, FALSE) BY <1>0, <1>11, SignBundlesMove
<1>12. CASE t = "create_bundle_sbom" /\ CreateBundleSbom(r)
  BY <1>0, <1>12, BundleSbomFiles, QuietMove DEF Telling, MirrorTask
<1>13. CASE t = "upload_sbom" /\ UploadSbom(r)
  BY <1>0, <1>13, SbomFiles, QuietMove DEF Telling, MirrorTask
<1>14. CASE t = "upload_to_s3" /\ UploadToS3(r) BY <1>0, <1>14, UploadMove
<1> QED
  BY <1>0, <1>1, <1>2, <1>3, <1>4, <1>5, <1>6, <1>7, <1>8, <1>9, <1>10, <1>11, <1>12, <1>13,
     <1>14, Zenon
  DEF Work

LEMMA BeginKeeps ==
    ASSUME TInv, FInv, Alone, NEW r \in Run, NEW t \in Task, Begin(r, t)
    PROVE  FInv'
<1>0. Move(r, t, "running") /\ FilesTyped /\ Prepare(r, t)
  BY TektonMoves DEF TInv, Begin
<1>1. conf[r] \in When(t)
  <2>1. CASE task[r][t] = "retrying" BY <2>1 DEF TInv, GraphInv
  <2>2. CASE task[r][t] # "retrying" BY <2>2 DEF Begin
  <2> QED BY <2>1, <2>2
<1>2. CASE t \in MirrorTask
  <2>1. BeginMirror(r) BY <1>0, <1>2 DEF Prepare, MirrorTask
  <2> QED BY <1>0, <1>1, <1>2, <2>1, BeginMirrorMove
<1>3. CASE t = "export_architect_images"
  <2>1. BeginExport(r) BY <1>0, <1>3 DEF Prepare
  <2> QED BY <1>0, <1>3, <2>1, PartMove
<1>4. CASE t \notin MirrorTask /\ t # "export_architect_images"
  <2>1. Nothing BY <1>0, <1>4 DEF Prepare, MirrorTask
  <2> QED BY <1>0, <1>4, <2>1, Untouched, QuietMove
<1> QED BY <1>2, <1>3, <1>4

LEMMA FailKeeps ==
    ASSUME TInv, FInv, Alone, NEW r \in Run, NEW t \in Task, Fail(r, t)
    PROVE  FInv'
<1>0. FilesTyped /\ task[r][t] = "running" /\ Leave(r, t) BY DEF TInv, Fail
<1>1. PICK st \in {"retrying", "failed"} : Move(r, t, st) BY TektonMoves
<1>2. CASE Nothing BY <1>0, <1>1, <1>2, Untouched, QuietMove
<1>3. CASE t = "oc_mirror" /\ \E n \in Chunk : LeaveOcMirror(r, n)
  BY <1>0, <1>1, <1>3, LeaveArchivesMove DEF MirrorTask
<1>4. CASE t = "mirror_to_intermediate" /\ Volumes([vol EXCEPT !.cache.registry = @ \cup {r}])
  BY <1>0, <1>1, <1>4, MirrorToFiles, QuietMove
<1>5. CASE t = "mirror_from_intermediate" /\ \E n \in Chunk : LeaveMirrorFrom(r, n)
  BY <1>0, <1>1, <1>5, LeaveArchivesMove DEF MirrorTask
<1>6. CASE t = "upload_to_s3" /\ LeaveUpload(r) BY <1>0, <1>1, <1>6, UploadMove
<1> QED BY <1>0, <1>2, <1>3, <1>4, <1>5, <1>6, Zenon DEF Leave

LEMMA PartlyKeeps ==
    ASSUME TInv, FInv, Alone, NEW r \in Run, NEW t \in Task, Partly(r, t)
    PROVE  FInv'
<1>0. Move(r, t, "succeeded") /\ FilesTyped /\ task[r][t] = "running" /\ r \in poor'
  BY TektonMoves DEF TInv, Partly
<1>1. CASE t = "syft_sbom" /\ \E failed : SyftSbom(r, failed)
  BY <1>0, <1>1, SbomFiles, QuietMove DEF Telling, MirrorTask
<1>2. CASE t = "sign_images" /\ \E failed : SignImages(r, failed) BY <1>0, <1>2, SignImagesMove
<1>3. CASE t = "sign_bundles" /\ \E failed : \E text \in BOOLEAN : SignBundles(r, failed, text)
  BY <1>0, <1>3, SignBundlesMove
<1>4. CASE t = "upload_sbom" /\ Nothing
  BY <1>0, <1>4, Untouched, QuietMove DEF Telling, MirrorTask
<1> QED BY <1>1, <1>2, <1>3, <1>4 DEF Partly

LEMMA MovingKeeps ==
    ASSUME TInv, FInv, Alone, NEW r \in Run, NEW t \in Task, MovingStep(r, t)
    PROVE  FInv'
<1>1. CASE Skip(r, t)
  <2>1. Move(r, t, "skipped") /\ FilesTyped /\ Nothing BY <1>1, TektonMoves DEF TInv, Skip
  <2> QED BY <2>1, Untouched, QuietMove
<1> QED BY <1>1, BeginKeeps, FinishKeeps, FailKeeps, PartlyKeeps DEF MovingStep

\* When its run is over the volume is nobody's, and what is published stays.
LEMMA CleanupKeeps ==
    ASSUME TInv, FInv, Alone, NEW r \in Run, CleanupWorkspace(r)
    PROVE  FInv'
<1>0. /\ FilesTyped /\ Served /\ ImagesSigned /\ TarsInv /\ BundlesInv /\ Published
      /\ life \in [Run -> {"new", "running", "done", "failed", "aborted"}]
  BY DEF TInv, FInv, TasksTyped
<1>1. /\ UNCHANGED <<conf, task, poor>> /\ Active(r)
      /\ \E x \in {"failed", "done"} : life' = [life EXCEPT ![r] = x]
      /\ Volumes(Cleaned(TasksStatus(r)))
  BY DEF CleanupWorkspace
<1>2. /\ vol'.tars = vol.tars /\ UNCHANGED <<quay, s3, tpa>>
      /\ \A c \in Collection : vol'.bundle[c] \in {vol.bundle[c], NoBundle}
  BY <1>0, <1>1, CleanupFiles
<1>3. \A q \in Run : /\ life[q] # "new" => life'[q] # "new"
                     /\ life'[q] # "running"
  BY <1>0, <1>1 DEF Alone, Active
<1>4. ActiveInv' BY <1>3 DEF ActiveInv, Active
<1>5. Served' /\ ImagesSigned' BY <1>0, <1>1, <1>2 DEF Served, ImagesSigned, Wanted
<1>6. TarsInv'
  <2>1. \A i \in Chunk : vol.tars[i].by # NoRun => vol.tars[i].by \in Run
    BY <1>0 DEF FilesTyped, Volume, TarOrNone, Tar, NoTar
  <2> QED BY <1>0, <1>1, <1>2, <1>3, <2>1 DEF TarsInv, Over
<1>7. BundlesInv'
  <2>1. ASSUME NEW c \in Collection, NEW b, Good(c, b, life, conf) PROVE Good(c, b, life', conf')
    BY <1>1, <1>3, <2>1 DEF Good
  <2>2. ASSUME NEW c \in Collection
        PROVE  Good(c, vol'.bundle[c], life', conf') /\ Good(c, s3'[c].bundle, life', conf')
    <3>1. Good(c, vol.bundle[c], life', conf') /\ Good(c, s3[c].bundle, life', conf')
      BY <1>0, <2>1 DEF BundlesInv
    <3>2. Good(c, NoBundle, life', conf') BY DEF Good
    <3> QED BY <1>2, <3>1, <3>2
  <2> QED BY <2>2 DEF BundlesInv, Good
<1>8. Published' BY <1>0, <1>1, <1>2 DEF Published
<1> QED BY <1>4, <1>5, <1>6, <1>7, <1>8 DEF FInv

\* A run that starts has done nothing yet, and nothing on the volume is its own.
LEMMA StartKeeps ==
    ASSUME TInv, FInv, NEW r \in Run, Start(r)
    PROVE  FInv'
<1>0. /\ TasksTyped /\ FilesTyped /\ GraphInv
      /\ ActiveInv /\ Served /\ ImagesSigned /\ TarsInv /\ BundlesInv /\ Published
  BY DEF TInv, FInv
<1>1. /\ UNCHANGED <<task, poor, vol, quay, s3>> /\ life[r] = "new"
      /\ \A q \in Run : q # r => life'[q] = life[q] /\ conf'[q] = conf[q]
      /\ life'[r] # "new"
  BY <1>0 DEF Start, Nothing, TasksTyped
<1>2. \A t \in Task : task[r][t] = "waiting" BY <1>0, <1>1 DEF GraphInv
<1>3. \A q \in Run : q # r => Wanted(q)' = Wanted(q) BY <1>1 DEF Wanted
<1>4. ActiveInv'
  <2> SUFFICES ASSUME NEW q \in Run, Active(q)' PROVE Holds(q, task[q], vol, poor)'
    BY DEF ActiveInv
  <2>1. CASE q = r
    BY <1>1, <1>2, <2>1, TaskNames
    DEF Holds, MappedAt, ArchivedAt, PartsAt, BundledAt, MirrorTask
  <2>2. CASE q # r
    <3>1. Holds(q, task[q], vol, poor) BY <1>0, <1>1, <2>2 DEF ActiveInv, Active
    <3> QED BY <1>1, <1>3, <2>2, <3>1 DEF Holds, MappedAt, ArchivedAt, PartsAt, BundledAt
  <2> QED BY <2>1, <2>2
<1>5. Served' BY <1>0, <1>1, <1>2, TaskNames DEF Served
<1>6. ImagesSigned' BY <1>0, <1>1, <1>2, <1>3, TaskNames DEF ImagesSigned
<1>7. TarsInv'
  <2>1. \A i \in Chunk : vol.tars[i].by # NoRun => vol.tars[i].by \in Run /\ vol.tars[i].by # r
    BY <1>0, <1>1 DEF FilesTyped, Volume, TarOrNone, Tar, NoTar, TarsInv
  <2> QED BY <1>0, <1>1, <2>1 DEF TarsInv, Over
<1>8. BundlesInv'
  <2>1. ASSUME NEW c \in Collection, NEW b, Good(c, b, life, conf) PROVE Good(c, b, life', conf')
    <3>1. CASE b = NoBundle BY <3>1 DEF Good
    <3>2. CASE b # NoBundle
      <4>1. b.by \in Run /\ b.by # r BY <1>1, <2>1, <3>2 DEF Good
      <4> QED BY <1>1, <2>1, <4>1 DEF Good
    <3> QED BY <3>1, <3>2
  <2>2. \A c \in Collection :
           Good(c, vol'.bundle[c], life', conf') /\ Good(c, s3'[c].bundle, life', conf')
    BY <1>0, <1>1, <2>1 DEF BundlesInv
  <2> QED BY <2>2 DEF BundlesInv, Good
<1>9. Published'
  <2>1. \A c \in Collection : s3[c].bundle # NoBundle =>
           s3[c].bundle.by \in Run /\ s3[c].bundle.by # r
    BY <1>0, <1>1 DEF BundlesInv, Good
  <2> QED BY <1>0, <1>1, <2>1 DEF Published
<1> QED BY <1>4, <1>5, <1>6, <1>7, <1>8, <1>9 DEF FInv

\* A run that is aborted leaves everything where it is.
LEMMA AbortKeeps ==
    ASSUME TInv, FInv, NEW r \in Run, Abort(r)
    PROVE  FInv'
<1>0. /\ FilesTyped /\ ActiveInv /\ Served /\ ImagesSigned /\ TarsInv /\ BundlesInv /\ Published
      /\ life \in [Run -> {"new", "running", "done", "failed", "aborted"}]
  BY DEF TInv, FInv, TasksTyped
<1>1. UNCHANGED <<conf, task, poor, vol, quay, s3>> /\ life' = [life EXCEPT ![r] = "aborted"]
  BY DEF Abort, Nothing
<1>2. \A q \in Run : /\ life[q] # "new" => life'[q] # "new"
                     /\ life'[q] = "running" => life[q] = "running"
  BY <1>0, <1>1
<1>3. ActiveInv'
  BY <1>0, <1>1, <1>2
  DEF ActiveInv, Active, Holds, MappedAt, ArchivedAt, PartsAt, BundledAt, Wanted
<1>4. Served' /\ ImagesSigned' /\ Published'
  BY <1>0, <1>1 DEF Served, ImagesSigned, Wanted, Published
<1>5. TarsInv'
  <2>1. \A i \in Chunk : vol.tars[i].by # NoRun => vol.tars[i].by \in Run
    BY <1>0 DEF FilesTyped, Volume, TarOrNone, Tar, NoTar
  <2> QED BY <1>0, <1>1, <1>2, <2>1 DEF TarsInv, Over
<1>6. BundlesInv' BY <1>0, <1>1, <1>2 DEF BundlesInv, Good
<1> QED BY <1>3, <1>4, <1>5, <1>6 DEF FInv

LEMMA InitKeeps == Init => FInv
<1> SUFFICES ASSUME Init PROVE FInv OBVIOUS
<1>0. {"build_rhcos_server", "sign_images"} \subseteq Task BY TaskNames
<1>1. ActiveInv BY DEF Init, ActiveInv, Active
<1>2. Served /\ ImagesSigned BY <1>0 DEF Init, Served, ImagesSigned
<1>3. TarsInv BY DEF Init, TarsInv, Empty, NoTar
<1>4. \A c \in Collection : vol.bundle[c] = NoBundle /\ s3[c].bundle = NoBundle BY DEF Init, Empty
<1>5. BundlesInv BY <1>4 DEF BundlesInv, Good
<1>6. Published BY <1>4 DEF Published
<1> QED BY <1>1, <1>2, <1>3, <1>5, <1>6 DEF FInv

LEMMA StepKeeps == TInv /\ FInv /\ Alone /\ [Next]_vars => FInv'
<1> SUFFICES ASSUME TInv, FInv, Alone, [Next]_vars PROVE FInv' OBVIOUS
<1>1. CASE UNCHANGED <<life, conf, task, vol, quay, s3, poor>>
  BY <1>1
  DEF FInv, ActiveInv, Active, Holds, MappedAt, ArchivedAt, PartsAt, BundledAt, Wanted, Served,
      ImagesSigned, TarsInv, Over, BundlesInv, Good, Published
<1>2. CASE reconcileCollectionPipelineTemplate
  BY <1>1, <1>2 DEF reconcileCollectionPipelineTemplate
<1>3. ASSUME NEW r \in Run, Start(r) PROVE FInv' BY <1>3, StartKeeps
<1>4. ASSUME NEW r \in Run, Tekton(r) PROVE FInv'
  BY <1>4, TektonSteps, MovingKeeps, CleanupKeeps
<1>5. ASSUME NEW r \in Run, Abort(r) PROVE FInv' BY <1>5, AbortKeeps
<1>6. CASE UNCHANGED vars BY <1>1, <1>6 DEF vars
<1> QED BY <1>2, <1>3, <1>4, <1>5, <1>6 DEF Next

LEMMA KeptAlways == Spec /\ []Alone => [](TInv /\ FInv)
<1>1. Init => TInv /\ FInv BY InitTyped, InitKeeps
<1>2. TInv /\ FInv /\ Alone /\ [Next]_vars => TInv' /\ FInv' BY StepTyped, StepKeeps
<1> QED BY <1>1, <1>2, PTL DEF Spec

-----------------------------------------------------------------------------
(* What the pipeline promises *)

\* The runs are of one collection, or of a collection that runs once and its one child.
OneFamily ==
    /\ \A q, r \in Run : (Of[q] \in Child <=> Of[r] \in Child) => Of[q] = Of[r]
    /\ \A p, q, r \in Run : Of[p] \notin Child /\ Of[q] \notin Child /\ Of[r] \in Child => p = q

\* A child is active only behind its parent's run.
ParentDone ==
    \A q, r \in Run : Of[q] \notin Child /\ Of[r] \in Child /\ Active(r) => life[q] = "done"

\* Where the volume is one collection's, or a parent's that runs once and its child's,
\* the controller's rules are enough (MayStart: one run of a collection at a time, a
\* child behind its parent): no two runs are ever active on it at a time.
THEOREM OneAtATime == ASSUME OneFamily PROVE Spec => []Alone
<1>1. Init => Alone /\ ParentDone BY DEF Init, Alone, ParentDone, Active
<1>2. TInv /\ Alone /\ ParentDone /\ [Next]_vars => Alone' /\ ParentDone'
  <2> SUFFICES ASSUME TInv, Alone, ParentDone, [Next]_vars PROVE Alone' /\ ParentDone'
    OBVIOUS
  <2>0. life \in [Run -> {"new", "running", "done", "failed", "aborted"}]
    BY DEF TInv, TasksTyped
  <2>1. ASSUME NEW r \in Run, Start(r) PROVE Alone' /\ ParentDone'
    <3>1. life[r] = "new" /\ \A q \in Run : q # r => life'[q] = life[q] BY <2>0, <2>1 DEF Start
    <3>2. \A q \in Run : Of[q] = Of[r] => life[q] # "running"
      BY <2>1 DEF Start, MayStart, Active
    <3>3. CASE Of[r] \in Child
      <4>1. \A q \in Run : Of[q] \notin Child => life[q] = "done"
        BY <2>1, <3>3 DEF Start, MayStart, OneFamily
      <4>2. \A q \in Run : q # r => life'[q] # "running"
        BY <3>1, <3>2, <3>3, <4>1 DEF OneFamily
      <4>3. \A q \in Run : Of[q] \notin Child => life'[q] = "done" BY <3>1, <3>3, <4>1
      <4> QED BY <4>2, <4>3 DEF Alone, ParentDone, Active
    <3>4. CASE Of[r] \notin Child
      <4>1. \A q \in Run : life[q] # "running" BY <3>1, <3>2, <3>4 DEF ParentDone, OneFamily, Active
      <4>2. \A q \in Run : q # r => life'[q] # "running" BY <3>1, <4>1
      <4> QED BY <3>4, <4>2 DEF Alone, ParentDone, Active
    <3> QED BY <3>3, <3>4
  <2>2. CASE \A q \in Run : /\ life'[q] = "running" => life[q] = "running"
                            /\ life[q] = "done" => life'[q] = "done"
    BY <2>2 DEF Alone, ParentDone, Active
  <2>3. ASSUME NEW r \in Run, Tekton(r) PROVE Alone' /\ ParentDone'
    <3>1. CASE CleanupWorkspace(r) BY <2>0, <2>2, <3>1 DEF CleanupWorkspace, Active
    <3>2. ASSUME NEW t \in Task, MovingStep(r, t) PROVE life' = life
      BY <3>2, TektonMoves DEF MovingStep, Move
    <3> QED BY <2>2, <2>3, <3>1, <3>2, TektonSteps
  <2>4. ASSUME NEW r \in Run, Abort(r) PROVE Alone' /\ ParentDone'
    BY <2>0, <2>2, <2>4 DEF Abort, Active
  <2>5. CASE reconcileCollectionPipelineTemplate
    BY <2>2, <2>5 DEF reconcileCollectionPipelineTemplate
  <2>6. CASE UNCHANGED vars BY <2>2, <2>6 DEF vars
  <2> QED BY <2>1, <2>3, <2>4, <2>5, <2>6 DEF Next
<1> QED BY <1>1, <1>2, TypedAlways, PTL DEF Spec

\* While runs do not overlap on the volume, and whatever fails, is retried or aborted:
\* all a keyless run archives by way of the registry is signed there, the RHCOS server
\* image that the pipeline pushes itself included (the order build_rhcos_server,
\* dry_run, sign_images, mirror_from_intermediate), unless a signature failed.
THEOREM SignedBeforeArchived == Spec /\ []Alone => []ArchivesSigned
<1>1. TInv /\ FInv => ArchivesSigned
  <2> SUFFICES ASSUME TInv, FInv, NEW i \in Chunk, NEW r, r = vol.tars[i].by, r # NoRun,
                      r \notin poor, conf[r].keyless, conf[r].registry
               PROVE  Wanted(r) \subseteq quay.signed
    BY DEF ArchivesSigned
  <2>1. r \in Run BY DEF TInv, FilesTyped, Volume, TarOrNone, Tar, NoTar
  <2>2. Over(r, "sign_images") BY DEF FInv, TarsInv
  <2>3. conf[r] \in When("sign_images") /\ "sign_images" \in Task
    BY <2>1, Graph1, TaskNames DEF TInv, TasksTyped, Keyless, ToQuay
  <2>4. task[r]["sign_images"] = "succeeded" BY <2>1, <2>2, <2>3 DEF Over, TInv, GraphInv
  <2> QED BY <2>1, <2>4 DEF FInv, ImagesSigned
<1> QED BY <1>1, KeptAlways, PTL

\* While runs do not overlap on the volume: a published update holds archives of its
\* own run only, at least one, all of them whole, however many attempts of oc-mirror
\* and runs before it left archives there.
THEOREM UpdatesAreDeltas == Spec /\ []Alone => []UpdateHoldsDelta
<1>1. TInv /\ FInv => UpdateHoldsDelta
  <2> SUFFICES ASSUME TInv, FInv, NEW c \in Child, s3[c].bundle # NoBundle
               PROVE  /\ s3[c].bundle.tars # {}
                      /\ \A tar \in s3[c].bundle.tars : tar.by = s3[c].bundle.by /\ tar.whole
    BY DEF UpdateHoldsDelta
  <2>1. c \in Collection BY TasksConstants
  <2>2. s3[c].bundle.tars = {Whole(s3[c].bundle.by)} BY <2>1 DEF FInv, BundlesInv, Good
  <2> QED BY <2>2 DEF Whole
<1> QED BY <1>1, KeptAlways, PTL

\* While runs do not overlap on the volume: a published bundle without a parent has
\* its run's archives, tools, script and, if exported, architect: repackage_bundle has
\* all the tasks that fetch them behind it, on both ways to the disk.
THEOREM CompleteBundles == Spec /\ []Alone => []CompleteIsComplete
<1>1. FInv => CompleteIsComplete
  BY DEF FInv, BundlesInv, Good, CompleteIsComplete, Whole
<1> QED BY <1>1, KeptAlways, PTL

\* While runs do not overlap on the volume: a keyless run that is done, and in which no
\* signature failed, has published its bundle with a signature and an attestation of
\* this very bundle.
THEOREM SignaturesMatch == Spec /\ []Alone => []SignedUpload
<1>1. TInv /\ FInv => SignedUpload
  <2> SUFFICES ASSUME TInv, FInv, NEW c \in Collection, NEW r, r = s3[c].bundle.by,
                      s3[c].bundle # NoBundle, life[r] = "done", conf[r].keyless, r \notin poor
               PROVE  s3[c].sig = r /\ s3[c].att = r
    BY DEF SignedUpload
  <2>1. r \in Run BY DEF FInv, BundlesInv, Good
  <2>2. "upload_to_s3" \in Task /\ conf[r] \in Config BY <2>1, TaskNames DEF TInv, TasksTyped
  <2>3. Over(r, "upload_to_s3") BY <2>1, <2>2 DEF TInv, GraphInv
  <2>4. task[r]["upload_to_s3"] = "succeeded"
    BY <2>1, <2>2, <2>3, Graph2 DEF Over, TInv, GraphInv
  <2> QED BY <2>4 DEF FInv, Published
<1> QED BY <1>1, KeptAlways, PTL

=============================================================================
