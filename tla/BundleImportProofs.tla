------------------------- MODULE BundleImportProofs -------------------------
(***************************************************************************)
(* Theorems about the scanner and the import pipeline, for every set of    *)
(* bundles, names, masters and jobs and every number of archives, runs and *)
(* failures: type correctness, that manifests come after the content they  *)
(* announce, and that an import which says Complete is there.              *)
(*                                                                         *)
(* The argument: two runs that are open at one time have both spoilt their *)
(* bundles (Apart), so the volume a run finds is the one it left, unless   *)
(* its bundle is spoilt; each stage of the pipeline then says what is on   *)
(* the volume and in the registries (Staged).  What lies in                *)
(* cluster-resources announces content that is there, whoever wrote it.    *)
(***************************************************************************)
EXTENDS BundleImport, TLAPS

ScannerTyped ==
    /\ file \in [Bundle -> {"absent", "partial", "whole"}]
    /\ quay \in {"none", "wanted", "created", "running"}
    /\ registry \in BOOLEAN /\ cron \in [exists : BOOLEAN, target : BOOLEAN]
    /\ job \in [Job -> [todo : SUBSET Bundle, at : Bundle \cup {NoBundle}, config : BOOLEAN]]
    /\ used \in 0..MaxFaults

\* A MirrorImport follows a run that was made under its name, and is complete only
\* when that run has ended well.
ImportsInv ==
    /\ mi \in [Name -> Import] /\ cm \in [Name -> {"none", "config", "empty"}]
    /\ \A n \in Name : mi[n].exists => mi[n].of \in Bundle /\ CRName[mi[n].of] = n
    /\ \A n \in Name : mi[n].ref # NoRun =>
          mi[n].exists /\ run[mi[n].ref].task # "none" /\ run[mi[n].ref].name = n
    /\ \A n \in Name : mi[n].phase = "Complete" =>
          mi[n].ref # NoRun /\ run[mi[n].ref].task = "done"

\* A run imports a bundle of its name, and unpacks no more than there is.
RunsInv ==
    /\ run \in [Run -> PipelineRun]
    /\ \A r \in Run : run[r].task # "none" =>
          /\ run[r].of \in Bundle /\ run[r].name = CRName[run[r].of]
          /\ run[r].out <= Size[run[r].of]

\* The content that manifests m point to is there, given what is spoilt.
Announces(m, sp, ct) == m[1] \in sp \/ m[1] \in ct[m[2]]
VolumeInv ==
    /\ vol \in Volume
    /\ content \in [Registry -> SUBSET Bundle] /\ applied \subseteq Bundle \X Registry
    /\ spoilt \subseteq Bundle /\ hit \subseteq Bundle
    /\ vol.resources = NoManifests \/ Announces(vol.resources, spoilt, content)
    /\ \A m \in applied : Announces(m, spoilt, content)

\* Runs that overlap have spoilt what they import.
Apart == \A q, r \in Run : q # r /\ Open(q) /\ Open(r) => run[r].of \in spoilt

\* How far a run has brought a bundle that nothing spoilt.
Staged(r) == run[r].of \notin spoilt =>
    /\ run[r].task = "extract" => \A i \in 1..run[r].out : vol.archives[i] = run[r].of
    /\ run[r].task \in {"mirror", "nodes"} => Intact(r)
    /\ run[r].task \in {"nodes", "manifests", "cleanup", "done"} => run[r].of \in content[Target]
    /\ run[r].task \in {"nodes", "manifests"} =>
          \E x \in Registry : vol.resources = <<run[r].of, x>>
    /\ run[r].task \in {"manifests", "cleanup", "done"} =>
          \A x \in run[r].nodes : run[r].of \in content[x]
    /\ run[r].task \in {"cleanup", "done"} =>
          run[r].of \in hit \/ \E x \in Registry : <<run[r].of, x>> \in applied

\* The inductive invariant.
IInv ==
    /\ ScannerTyped /\ ImportsInv /\ RunsInv /\ VolumeInv /\ Apart
    /\ \A r \in Run : Staged(r)

-----------------------------------------------------------------------------
(* What is there stays there *)

Grows ==
    /\ spoilt \subseteq spoilt' /\ hit \subseteq hit' /\ applied \subseteq applied'
    /\ \A x \in Registry : content[x] \subseteq content'[x]

LEMMA Spending == ASSUME used \in 0..MaxFaults, Spend PROVE used' \in 0..MaxFaults
  BY ImportConstants DEF Spend

LEMMA AnnouncedStays ==
    ASSUME Grows, NEW m \in Bundle \X Registry, Announces(m, spoilt, content)
    PROVE  Announces(m, spoilt', content')
  BY DEF Grows, Announces

\* While one run is open, the stages of the others stand: the volume may change under
\* them, but then they are spoilt.
LEMMA OthersStand ==
    ASSUME IInv, NEW r \in Run, Open(r) \/ UNCHANGED vol, Grows,
           NEW q \in Run, q # r, run'[q] = run[q]
    PROVE  Staged(q)'
<1> SUFFICES ASSUME run[q].of \notin spoilt' PROVE Staged(q)'
  BY DEF Staged
<1>0. run \in [Run -> PipelineRun] /\ run[q] \in PipelineRun
  BY DEF IInv, RunsInv
<1>1. run[q].of \notin spoilt /\ Staged(q)
  BY DEF Grows, IInv
<1>2. CASE UNCHANGED vol
  BY <1>0, <1>1, <1>2 DEF Staged, Grows, Intact, Registry, PipelineRun
<1>3. CASE Open(r)
  <2>1. ~Open(q)
    BY <1>1, <1>3 DEF IInv, Apart
  <2> QED BY <1>0, <1>1, <2>1 DEF Staged, Grows, Open, Task, Registry, PipelineRun
<1> QED BY <1>2, <1>3

\* A step of one run moves that run only, along its way.
LEMMA RunMoves ==
    ASSUME IInv, NEW r \in Run, Open(r), NEW new \in PipelineRun,
           run' = [run EXCEPT ![r] = new], new.name = run[r].name, new.of = run[r].of,
           new.task # "none", new.out <= Size[run[r].of],
           spoilt \subseteq spoilt', UNCHANGED Imports
    PROVE  /\ RunsInv' /\ ImportsInv' /\ Apart'
           /\ run'[r] = new /\ \A q \in Run : q # r => run'[q] = run[q]
<1>0. run[r].task \in Task /\ RunsInv /\ ImportsInv /\ Apart
  BY DEF IInv, Open
<1>1. run'[r] = new /\ \A q \in Run : q # r => run'[q] = run[q]
  BY <1>0 DEF RunsInv
<1>2. RunsInv'
  BY <1>0, <1>1 DEF RunsInv, Task
<1>3. ImportsInv'
  <2>1. \A n \in Name : mi[n].ref \in Run \cup {NoRun}
    BY <1>0 DEF ImportsInv, Import
  <2> QED BY <1>0, <1>1, <2>1 DEF ImportsInv, Imports, Task
<1>4. Apart'
  BY <1>0, <1>1 DEF Apart, Open
<1> QED BY <1>1, <1>2, <1>3, <1>4

\* Goto is such a move.
LEMMA GotoMoves ==
    ASSUME IInv, NEW r \in Run, Open(r), NEW t \in Task \cup {"done", "failed"}, Goto(r, t),
           spoilt \subseteq spoilt', UNCHANGED Imports
    PROVE  /\ RunsInv' /\ ImportsInv' /\ Apart'
           /\ run'[r].task = t /\ run'[r].of = run[r].of /\ run'[r].nodes = run[r].nodes
           /\ \A q \in Run : q # r => run'[q] = run[q]
<1> DEFINE new == [run[r] EXCEPT !.task = t]
<1>0. run[r] \in PipelineRun /\ run[r].task \in Task /\ run[r].out <= Size[run[r].of]
  BY DEF IInv, RunsInv, Open, Task
<1>1. /\ new \in PipelineRun /\ new.task = t /\ new.of = run[r].of
      /\ new.nodes = run[r].nodes /\ new.name = run[r].name /\ new.out = run[r].out
  BY <1>0 DEF PipelineRun
<1>2. run' = [run EXCEPT ![r] = new] BY DEF Goto
<1>3. t # "none" BY DEF Task
<1> HIDE DEF new
<1> QED BY <1>0, <1>1, <1>2, <1>3, RunMoves

-----------------------------------------------------------------------------
(* The import pipeline *)

\* What an open run knows.
LEMMA OpenRun ==
    ASSUME IInv, NEW r \in Run, Open(r)
    PROVE  /\ run[r] \in PipelineRun /\ run[r].of \in Bundle /\ run[r].name \in Name
           /\ Size[run[r].of] \in 1..MaxSize /\ run[r].out \in 0..Size[run[r].of]
           /\ Staged(r) /\ run[r].nodes \subseteq Node
<1>1. run[r] \in PipelineRun /\ run[r].of \in Bundle /\ run[r].name = CRName[run[r].of]
      /\ run[r].out <= Size[run[r].of] /\ Staged(r)
  BY DEF IInv, RunsInv, Open, Task
<1>2. run[r].out \in 0..MaxSize /\ run[r].nodes \subseteq Node
  BY <1>1 DEF PipelineRun
<1> QED BY <1>1, <1>2, ImportConstants

LEMMA ExtractKeepsInv == ASSUME IInv, NEW r \in Run, ExtractBundle(r) PROVE IInv'
<1> DEFINE b == run[r].of
           i == run[r].out + 1
<1>0. /\ run[r].task = "extract" /\ Open(r)
      /\ UNCHANGED <<file, content, applied, job, hit, used, Platform, Imports>>
      /\ ScannerTyped /\ VolumeInv /\ RunsInv
  BY DEF ExtractBundle, Open, Task, IInv
<1>1. /\ run[r] \in PipelineRun /\ b \in Bundle /\ Size[b] \in 1..MaxSize
      /\ run[r].out \in 0..Size[b] /\ Staged(r)
  BY <1>0, OpenRun
<1>s. ScannerTyped'
  BY <1>0 DEF ScannerTyped, Platform
<1>2. CASE /\ i <= Size[b] /\ vol' = [vol EXCEPT !.archives[i] = b]
           /\ run' = [run EXCEPT ![r].out = i] /\ UNCHANGED spoilt
  <2> DEFINE new == [run[r] EXCEPT !.out = i]
             arch == [vol.archives EXCEPT ![i] = b]
  <2>1. i \in Archive /\ i \in 0..MaxSize /\ i = run[r].out + 1
    BY <1>1, <1>2, ImportConstants DEF Archive
  <2>2. /\ new \in PipelineRun /\ new.task = "extract" /\ new.of = b
        /\ new.name = run[r].name /\ new.out = i
    BY <1>0, <1>1, <2>1 DEF PipelineRun
  <2>3. run' = [run EXCEPT ![r] = new] BY <1>2
  <2>4. /\ vol' \in Volume /\ vol'.resources = vol.resources
        /\ vol'.archives[i] = b /\ \A k \in Archive : k # i => vol'.archives[k] = vol.archives[k]
    <3>1. vol \in Volume /\ vol.archives \in [Archive -> Bundle \cup {NoBundle}]
      BY <1>0 DEF VolumeInv, Volume
    <3>2. /\ arch \in [Archive -> Bundle \cup {NoBundle}] /\ arch[i] = b
          /\ \A k \in Archive : k # i => arch[k] = vol.archives[k]
      BY <1>1, <2>1, <3>1
    <3>3. vol' = [vol EXCEPT !.archives = arch] BY <1>2
    <3> HIDE DEF arch
    <3> QED BY <3>1, <3>2, <3>3 DEF Volume
  <2> HIDE DEF new
  <2>5. /\ RunsInv' /\ ImportsInv' /\ Apart'
        /\ run'[r] = new /\ \A q \in Run : q # r => run'[q] = run[q]
    BY <1>0, <1>2, <2>2, <2>3, RunMoves
  <2>6. Grows BY <1>0, <1>2 DEF Grows
  <2>7. VolumeInv' BY <1>0, <1>2, <2>4 DEF VolumeInv, Announces
  <2>8. Staged(r)'
    <3>1. ASSUME b \notin spoilt, NEW k \in 1..i PROVE vol'.archives[k] = b
      <4>1. run[r].out \in Nat /\ MaxSize \in Nat /\ i <= MaxSize
        BY <1>1, <2>1, ImportConstants
      <4>2. k \in Archive /\ (k # i => k \in 1..run[r].out)
        BY <4>1 DEF Archive
      <4> QED BY <1>0, <1>1, <2>4, <3>1, <4>2 DEF Staged
    <3>2. run'[r].task = "extract" /\ run'[r].of = b /\ run'[r].out = i /\ spoilt' = spoilt
      BY <1>2, <2>2, <2>5
    <3> HIDE DEF i
    <3> QED BY <3>1, <3>2 DEF Staged
  <2> QED BY <1>0, <1>s, <2>5, <2>6, <2>7, <2>8, OthersStand DEF IInv
<1>3. CASE /\ i > Size[b] \/ file[b] # "whole"
           /\ Goto(r, "mirror")
           /\ spoilt' = IF i > Size[b] /\ file[b] = "whole" THEN spoilt ELSE spoilt \cup {b}
           /\ UNCHANGED vol
  <2>1. spoilt \subseteq spoilt' /\ spoilt' \subseteq Bundle /\ Grows
    BY <1>0, <1>1, <1>3 DEF Grows, VolumeInv
  <2>2. /\ RunsInv' /\ ImportsInv' /\ Apart'
        /\ run'[r].task = "mirror" /\ run'[r].of = b
        /\ \A q \in Run : q # r => run'[q] = run[q]
    BY <1>0, <1>3, <2>1, GotoMoves DEF Task
  <2>3. VolumeInv' BY <1>0, <1>3, <2>1 DEF VolumeInv, Announces
  <2>4. Staged(r)'
    <3> SUFFICES ASSUME b \notin spoilt' PROVE Intact(r)'
      BY <2>2 DEF Staged
    <3>1. i > Size[b] /\ b \notin spoilt BY <1>3, <2>1
    <3>2. run[r].out = Size[b] BY <1>1, <3>1
    <3> QED BY <1>0, <1>1, <1>3, <2>2, <3>1, <3>2 DEF Staged, Intact
  <2> QED BY <1>0, <1>s, <1>3, <2>1, <2>2, <2>3, <2>4, OthersStand DEF IInv
<1>4. CASE Goto(r, "failed") /\ spoilt' = spoilt \cup {b} /\ UNCHANGED vol
  <2>1. spoilt \subseteq spoilt' /\ spoilt' \subseteq Bundle /\ Grows
    BY <1>0, <1>1, <1>4 DEF Grows, VolumeInv
  <2>2. /\ RunsInv' /\ ImportsInv' /\ Apart'
        /\ run'[r].task = "failed" /\ run'[r].of = b
        /\ \A q \in Run : q # r => run'[q] = run[q]
    BY <1>0, <1>4, <2>1, GotoMoves DEF Task
  <2>3. VolumeInv' BY <1>0, <1>4, <2>1 DEF VolumeInv, Announces
  <2>4. Staged(r)' BY <2>2 DEF Staged
  <2> QED BY <1>0, <1>s, <1>4, <2>1, <2>2, <2>3, <2>4, OthersStand DEF IInv
<1> QED BY <1>2, <1>3, <1>4 DEF ExtractBundle

LEMMA MirrorKeepsInv == ASSUME IInv, NEW r \in Run, MirrorContent(r) PROVE IInv'
<1> DEFINE b == run[r].of
<1>0. /\ run[r].task = "mirror" /\ Open(r)
      /\ UNCHANGED <<file, applied, job, used, Platform, Imports, History>>
      /\ ScannerTyped /\ VolumeInv /\ b \in Bundle /\ Staged(r) /\ run[r].nodes \subseteq Node
  BY OpenRun DEF MirrorContent, Open, Task, IInv
<1>s. ScannerTyped' /\ spoilt' = spoilt /\ hit' = hit /\ applied' = applied
  BY <1>0 DEF ScannerTyped, Platform, History
<1>1. CASE Goto(r, "failed") /\ UNCHANGED <<vol, content>>
  <2>1. Grows BY <1>1, <1>s DEF Grows
  <2>2. /\ RunsInv' /\ ImportsInv' /\ Apart' /\ run'[r].task = "failed"
        /\ \A q \in Run : q # r => run'[q] = run[q]
    BY <1>0, <1>1, <1>s, GotoMoves DEF Task
  <2>3. VolumeInv' BY <1>0, <1>1, <1>s DEF VolumeInv, Announces
  <2>4. Staged(r)' BY <2>2 DEF Staged
  <2> QED BY <1>0, <1>s, <1>1, <2>1, <2>2, <2>3, <2>4, OthersStand DEF IInv
<1>2. ASSUME NEW able \in SUBSET Bundle, Goto(r, "nodes"),
             vol' = [vol EXCEPT !.resources = <<b, Target>>],
             content' = [content EXCEPT ![Target] = @ \cup able],
             Intact(r) => b \in able
      PROVE  IInv'
  <2>1. /\ Target \in Registry /\ content \in [Registry -> SUBSET Bundle]
        /\ vol \in Volume
    BY <1>0 DEF Registry, VolumeInv
  <2>2. /\ content' \in [Registry -> SUBSET Bundle] /\ content'[Target] = content[Target] \cup able
        /\ \A x \in Registry : content[x] \subseteq content'[x]
    BY <1>2, <2>1
  <2>3. Grows BY <1>s, <2>2 DEF Grows
  <2>4. /\ RunsInv' /\ ImportsInv' /\ Apart' /\ run'[r].task = "nodes" /\ run'[r].of = b
        /\ \A q \in Run : q # r => run'[q] = run[q]
    BY <1>0, <1>2, <1>s, GotoMoves DEF Task
  <2>5. vol' \in Volume /\ vol'.archives = vol.archives /\ vol'.resources = <<b, Target>>
    BY <1>0, <1>2, <2>1 DEF Volume
  <2>6. b \in spoilt \/ b \in content'[Target]
    BY <1>0, <1>2, <2>2 DEF Staged
  <2>7. VolumeInv'
    <3>1. \A m \in applied : Announces(m, spoilt', content')
      BY <1>0, <2>3, AnnouncedStays DEF VolumeInv
    <3>2. Announces(<<b, Target>>, spoilt', content')
      BY <1>s, <2>6 DEF Announces
    <3> QED BY <1>0, <1>s, <2>2, <2>5, <3>1, <3>2 DEF VolumeInv, Announces
  <2>8. Staged(r)'
    BY <1>0, <1>s, <2>1, <2>4, <2>5, <2>6 DEF Staged, Intact
  <2> QED BY <1>0, <1>s, <2>3, <2>4, <2>7, <2>8, OthersStand DEF IInv
<1>3. CASE /\ Intact(r) /\ Goto(r, "nodes") /\ vol' = [vol EXCEPT !.resources = <<b, Target>>]
           /\ content' = [content EXCEPT ![Target] = @ \cup {b}]
  BY <1>0, <1>2, <1>3
<1>4. CASE /\ ~Intact(r) /\ Goto(r, "nodes") /\ vol' = [vol EXCEPT !.resources = <<b, Target>>]
           /\ content' = [content EXCEPT ![Target] = @ \cup {}]
  <2>1. {} \in SUBSET Bundle OBVIOUS
  <2> QED BY ONLY <1>2, <1>4, <2>1
<1> QED BY <1>1, <1>3, <1>4 DEF MirrorContent

LEMMA NodesKeepInv == ASSUME IInv, NEW r \in Run, MirrorToNodes(r) PROVE IInv'
<1> DEFINE b == run[r].of
<1>0. /\ run[r].task = "nodes" /\ Open(r)
      /\ UNCHANGED <<file, applied, job, spoilt, Platform, Imports>>
      /\ ScannerTyped /\ VolumeInv /\ b \in Bundle /\ Staged(r) /\ run[r].nodes \subseteq Node
  BY OpenRun DEF MirrorToNodes, Open, Task, IInv
<1>1. PICK reached \in SUBSET run[r].nodes :
        LET able == IF Intact(r) THEN reached ELSE {} IN
        /\ Reach(run[r].nodes, reached)
        /\ content' = [x \in Registry |-> IF x \in able THEN content[x] \cup {b} ELSE content[x]]
        /\ \/ \E x \in reached : vol' = [vol EXCEPT !.resources = <<b, x>>]
           \/ able = {} /\ UNCHANGED vol
        /\ \/ Goto(r, "manifests") /\ reached = run[r].nodes /\ UNCHANGED hit
           \/ /\ Goto(r, "failed") /\ run[r].nodes # able
              /\ hit' = IF Intact(r) THEN hit \cup {b} ELSE hit
  BY DEF MirrorToNodes
<1> DEFINE able == IF Intact(r) THEN reached ELSE {}
<1>2. able \subseteq Node /\ reached \subseteq Node /\ Node \subseteq Registry
  BY <1>0, <1>1 DEF Registry
<1>s. ScannerTyped'
  BY <1>0, <1>1, Spending DEF ScannerTyped, Platform, Reach
<1>3. /\ content' \in [Registry -> SUBSET Bundle]
      /\ \A x \in Registry : content[x] \subseteq content'[x]
      /\ \A x \in able : b \in content'[x]
  BY <1>0, <1>1, <1>2 DEF VolumeInv
<1>4. Grows BY <1>0, <1>1, <1>3 DEF Grows
<1>5. PICK t \in {"manifests", "failed"} :
        Goto(r, t) /\ (t = "manifests" => reached = run[r].nodes)
  BY <1>1
<1>6. /\ RunsInv' /\ ImportsInv' /\ Apart' /\ run'[r].task = t /\ run'[r].of = b
      /\ run'[r].nodes = run[r].nodes /\ \A q \in Run : q # r => run'[q] = run[q]
  BY <1>0, <1>5, GotoMoves DEF Task
<1>7. /\ vol' \in Volume
      /\ \/ vol'.resources = vol.resources
         \/ \E x \in reached : vol'.resources = <<b, x>>
  <2>1. CASE UNCHANGED vol BY <1>0, <2>1 DEF VolumeInv
  <2>2. ASSUME NEW x \in reached, vol' = [vol EXCEPT !.resources = <<b, x>>]
        PROVE  vol' \in Volume /\ vol'.resources = <<b, x>>
    BY <1>0, <1>2, <2>2 DEF VolumeInv, Volume
  <2> QED BY <1>1, <2>1, <2>2
<1>8. b \in spoilt \/ able = reached
  BY <1>0 DEF Staged
<1>9. VolumeInv'
  <2>1. \A m \in applied : Announces(m, spoilt', content')
    BY <1>0, <1>4, AnnouncedStays DEF VolumeInv
  <2>2. \A x \in reached : Announces(<<b, x>>, spoilt', content')
    BY <1>0, <1>3, <1>8 DEF Announces
  <2>3. vol.resources # NoManifests => Announces(vol.resources, spoilt', content')
    BY <1>0, <1>4, AnnouncedStays DEF VolumeInv, Volume
  <2>4. vol'.resources = NoManifests \/ Announces(vol'.resources, spoilt', content')
    BY <1>7, <2>2, <2>3 DEF Announces
  <2>5. hit' \subseteq Bundle BY <1>0, <1>1 DEF VolumeInv
  <2> QED BY <1>0, <1>3, <1>7, <2>1, <2>4, <2>5 DEF VolumeInv, Announces
<1>10. Staged(r)'
  <2> SUFFICES ASSUME b \notin spoilt, t = "manifests" PROVE Staged(r)'
    BY <1>0, <1>6 DEF Staged
  <2>1. b \in content[Target] /\ \E x \in Registry : vol.resources = <<b, x>>
    BY <1>0 DEF Staged
  <2>2. b \in content'[Target] BY <1>3, <2>1 DEF Registry
  <2>3. \A x \in run[r].nodes : b \in content'[x] BY <1>3, <1>5, <1>8
  <2>4. \E x \in Registry : vol'.resources = <<b, x>> BY <1>2, <1>7, <2>1
  <2> QED BY <1>6, <2>2, <2>3, <2>4 DEF Staged
<1> QED BY <1>0, <1>s, <1>4, <1>6, <1>9, <1>10, OthersStand DEF IInv

LEMMA ApplyKeepsInv == ASSUME IInv, NEW r \in Run, ApplyManifests(r) PROVE IInv'
<1> DEFINE b == run[r].of
<1>0. /\ run[r].task = "manifests" /\ Open(r) /\ Goto(r, "cleanup")
      /\ UNCHANGED <<file, vol, content, job, spoilt, Platform, Imports>>
      /\ ScannerTyped /\ VolumeInv /\ b \in Bundle /\ Staged(r) /\ run[r].nodes \subseteq Node
  BY OpenRun DEF ApplyManifests, Open, Task, IInv
<1>s. ScannerTyped'
  BY <1>0, Spending DEF ScannerTyped, Platform, ApplyManifests
<1>1. Grows BY <1>0 DEF Grows, ApplyManifests
<1>2. /\ RunsInv' /\ ImportsInv' /\ Apart' /\ run'[r].task = "cleanup" /\ run'[r].of = b
      /\ run'[r].nodes = run[r].nodes /\ \A q \in Run : q # r => run'[q] = run[q]
  BY <1>0, GotoMoves DEF Task
<1>3. VolumeInv'
  <2>1. \A m \in applied' : m \in Bundle \X Registry /\ Announces(m, spoilt, content)
    BY <1>0 DEF ApplyManifests, VolumeInv, Volume
  <2>2. hit' \subseteq Bundle BY <1>0 DEF VolumeInv, ApplyManifests
  <2> QED BY <1>0, <2>1, <2>2 DEF VolumeInv, Announces
<1>4. Staged(r)'
  <2> SUFFICES ASSUME b \notin spoilt PROVE Staged(r)'
    BY <1>0, <1>2 DEF Staged
  <2>1. /\ b \in content[Target] /\ \A x \in run[r].nodes : b \in content[x]
        /\ \E x \in Registry : vol.resources = <<b, x>>
    BY <1>0 DEF Staged
  <2>2. b \in hit' \/ \E x \in Registry : <<b, x>> \in applied'
    BY <1>0, <2>1, ImportConstants DEF ApplyManifests, NoManifests
  <2> QED BY <1>0, <1>2, <2>1, <2>2 DEF Staged
<1> QED BY <1>0, <1>s, <1>1, <1>2, <1>3, <1>4, OthersStand DEF IInv

LEMMA CleanupKeepsInv == ASSUME IInv, NEW r \in Run, CleanupWorkspace(r) PROVE IInv'
<1> DEFINE b == run[r].of
<1>0. /\ run[r].task = "cleanup" /\ Open(r) /\ Goto(r, "done") /\ vol' = Bare
      /\ UNCHANGED <<file, content, applied, job, used, Platform, Imports, History>>
      /\ ScannerTyped /\ VolumeInv /\ b \in Bundle /\ Staged(r) /\ run[r].nodes \subseteq Node
  BY OpenRun DEF CleanupWorkspace, Open, Task, IInv
<1>s. ScannerTyped' /\ spoilt' = spoilt /\ hit' = hit
  BY <1>0 DEF ScannerTyped, Platform, History
<1>1. Grows BY <1>0, <1>s DEF Grows
<1>2. /\ RunsInv' /\ ImportsInv' /\ Apart' /\ run'[r].task = "done" /\ run'[r].of = b
      /\ run'[r].nodes = run[r].nodes /\ \A q \in Run : q # r => run'[q] = run[q]
  BY <1>0, <1>s, GotoMoves DEF Task
<1>3. Bare \in Volume /\ Bare.resources = NoManifests
  BY DEF Bare, Volume
<1>4. VolumeInv' BY <1>0, <1>s, <1>3 DEF VolumeInv, Announces
<1>5. Staged(r)' BY <1>0, <1>s, <1>2 DEF Staged
<1> QED BY <1>0, <1>s, <1>1, <1>2, <1>4, <1>5, OthersStand DEF IInv

LEMMA FailureKeepsInv == ASSUME IInv, NEW r \in Run, TaskFails(r) PROVE IInv'
<1> DEFINE b == run[r].of
<1>0. /\ Open(r) /\ Goto(r, "failed") /\ hit' = hit \cup {b} /\ Spend
      /\ UNCHANGED <<file, vol, content, applied, job, spoilt, Platform, Imports>>
      /\ ScannerTyped /\ VolumeInv /\ b \in Bundle
  BY OpenRun DEF TaskFails, IInv
<1>s. ScannerTyped' BY <1>0, Spending DEF ScannerTyped, Platform
<1>1. Grows BY <1>0 DEF Grows
<1>2. /\ RunsInv' /\ ImportsInv' /\ Apart' /\ run'[r].task = "failed"
      /\ \A q \in Run : q # r => run'[q] = run[q]
  BY <1>0, GotoMoves DEF Task
<1>3. VolumeInv' BY <1>0 DEF VolumeInv, Announces
<1>4. Staged(r)' BY <1>2 DEF Staged
<1> QED BY <1>0, <1>s, <1>1, <1>2, <1>3, <1>4, OthersStand DEF IInv

-----------------------------------------------------------------------------
(* The scanner, the controllers and the user *)

\* What leaves the runs and the volume alone, and only adds to what is spoilt.
LEMMA PipelineStands ==
    ASSUME IInv, UNCHANGED Pipeline, spoilt \subseteq spoilt', spoilt' \subseteq Bundle,
           UNCHANGED hit
    PROVE  RunsInv' /\ VolumeInv' /\ Apart' /\ \A r \in Run : Staged(r)'
<1>1. RunsInv' BY DEF IInv, RunsInv, Pipeline
<1>2. VolumeInv' BY DEF IInv, VolumeInv, Announces, Pipeline
<1>3. Apart' BY DEF IInv, Apart, Open, Pipeline
<1>4. ASSUME NEW r \in Run PROVE Staged(r)'
  <2>1. Staged(r) BY DEF IInv
  <2> QED BY <2>1 DEF Staged, Intact, Pipeline
<1> QED BY <1>1, <1>2, <1>3, <1>4

LEMMA PlatformKeepsInv ==
    ASSUME IInv, reconcileAirgapped \/ QuayRuns \/ \E b \in Bundle : Drop(b)
    PROVE  IInv'
<1>0. ScannerTyped /\ ImportsInv /\ VolumeInv
  BY DEF IInv
<1>1. UNCHANGED Pipeline /\ UNCHANGED Imports /\ UNCHANGED History /\ UNCHANGED job
  BY DEF reconcileAirgapped, QuayRuns, Drop
<1>2. RunsInv' /\ VolumeInv' /\ Apart' /\ \A r \in Run : Staged(r)'
  BY <1>0, <1>1, PipelineStands DEF History, VolumeInv
<1>3. ImportsInv'
  BY <1>0, <1>1 DEF ImportsInv, Imports, Pipeline
<1>4. ScannerTyped'
  <2>1. CASE reconcileAirgapped
    <3>1. used' \in 0..MaxFaults
      BY <1>0, <2>1, Spending DEF reconcileAirgapped, ScannerTyped
    <3>2. quay' \in {"none", "wanted", "created", "running"} /\ registry' \in BOOLEAN
      BY <1>0, <2>1 DEF reconcileAirgapped, reconcileAirgappedQuay, ScannerTyped
    <3>3. cron' \in [exists : BOOLEAN, target : BOOLEAN]
      <4>1. cron \in [exists : BOOLEAN, target : BOOLEAN] BY <1>0 DEF ScannerTyped
      <4>2. [exists |-> TRUE, target |-> registry'] \in [exists : BOOLEAN, target : BOOLEAN]
        BY <3>2
      <4>3. cron' \in {cron, [exists |-> TRUE, target |-> registry']}
        BY <2>1 DEF reconcileAirgapped, reconcileImportScanner
      <4> QED BY <4>1, <4>2, <4>3
    <3> QED BY <1>0, <2>1, <3>1, <3>2, <3>3 DEF reconcileAirgapped, ScannerTyped
  <2>2. CASE QuayRuns
    BY <1>0, <2>2 DEF QuayRuns, ScannerTyped
  <2>3. ASSUME NEW b \in Bundle, Drop(b) PROVE ScannerTyped'
    BY <1>0, <2>3 DEF Drop, ScannerTyped, Platform
  <2> QED BY <2>1, <2>2, <2>3
<1> QED BY <1>2, <1>3, <1>4 DEF IInv

LEMMA ScannerKeepsInv == ASSUME IInv, NEW j \in Job, Scanner(j) PROVE IInv'
<1> DEFINE JobRecord == [todo : SUBSET Bundle, at : Bundle \cup {NoBundle}, config : BOOLEAN]
<1>0. ScannerTyped /\ ImportsInv /\ VolumeInv /\ RunsInv
  BY DEF IInv
<1>j. job[j] \in JobRecord /\ job \in [Job -> JobRecord]
  BY <1>0 DEF ScannerTyped
<1>i. IdleJob \in JobRecord BY DEF IdleJob
<1>1. CASE UNCHANGED <<file, used, Platform, Imports, Pipeline, History>>
           /\ \E new \in JobRecord : job' = [job EXCEPT ![j] = new]
  <2>1. RunsInv' /\ VolumeInv' /\ Apart' /\ \A r \in Run : Staged(r)'
    BY <1>0, <1>1, PipelineStands DEF History, VolumeInv
  <2>2. ImportsInv' BY <1>0, <1>1 DEF ImportsInv, Imports, Pipeline
  <2>3. ScannerTyped' BY <1>0, <1>1 DEF ScannerTyped, Platform
  <2> QED BY <2>1, <2>2, <2>3 DEF IInv
<1>2. CASE StartScan(j)
  <2> DEFINE todo == {b \in Bundle : file[b] # "absent"}
             new == [job[j] EXCEPT !.todo = todo]
  <2>1. new \in JobRecord BY <1>j
  <2>2. job' = [job EXCEPT ![j] = new] BY <1>2 DEF StartScan
  <2> QED BY <1>1, <1>2, <2>1, <2>2 DEF StartScan
<1>3. CASE Look(j)
  <2>1. PICK b \in job[j].todo :
          \/ job' = [job EXCEPT ![j].todo = @ \ {b}]
          \/ \E config \in BOOLEAN :
               job' = [job EXCEPT ![j] = [todo |-> @.todo \ {b}, at |-> b, config |-> config]]
    BY <1>3 DEF Look
  <2> DEFINE fewer == [job[j] EXCEPT !.todo = @ \ {b}]
             looked(config) == [todo |-> job[j].todo \ {b}, at |-> b, config |-> config]
  <2>2. fewer \in JobRecord /\ \A config \in BOOLEAN : looked(config) \in JobRecord
    BY <1>j
  <2>3. \E new \in JobRecord : job' = [job EXCEPT ![j] = new]
    <3>1. CASE job' = [job EXCEPT ![j] = fewer] BY <2>2, <3>1
    <3>2. ASSUME NEW config \in BOOLEAN, job' = [job EXCEPT ![j] = looked(config)]
          PROVE  \E new \in JobRecord : job' = [job EXCEPT ![j] = new]
      BY <2>2, <3>2
    <3> QED BY <2>1, <3>1, <3>2
  <2> QED BY <1>1, <1>3, <2>3 DEF Look
<1>4. CASE Apply(j)
  <2> DEFINE b == job[j].at
             n == CRName[b]
  <2>1. b \in Bundle /\ n \in Name /\ job[j].config \in BOOLEAN
    BY <1>4, <1>j, ImportConstants DEF Apply
  <2>2. UNCHANGED <<file, cm, hit, Platform, Pipeline>>
    BY <1>4 DEF Apply
  <2>3. CASE /\ UNCHANGED used
             /\ mi' = [mi EXCEPT ![n].exists = TRUE, ![n].of = b, ![n].config = job[j].config]
             /\ job' = [job EXCEPT ![j].at = NoBundle, ![j].config = FALSE]
             /\ spoilt' = IF job[j].config THEN spoilt ELSE spoilt \cup {b}
    <3> DEFINE rest == [job[j] EXCEPT !.at = NoBundle, !.config = FALSE]
               new == [mi[n] EXCEPT !.exists = TRUE, !.of = b, !.config = job[j].config]
    <3>1. rest \in JobRecord /\ job' = [job EXCEPT ![j] = rest]
      BY <1>j, <2>3
    <3>2. ScannerTyped'
      BY <1>0, <2>2, <2>3, <3>1 DEF ScannerTyped, Platform
    <3>3. mi[n] \in Import /\ mi \in [Name -> Import]
      BY <1>0, <2>1 DEF ImportsInv
    <3>4. /\ new \in Import /\ new.exists /\ new.of = b
          /\ new.ref = mi[n].ref /\ new.phase = mi[n].phase
      BY <2>1, <3>3 DEF Import
    <3>5. mi' = [mi EXCEPT ![n] = new]
      BY <2>3, <3>3
    <3> HIDE DEF new
    <3>6. ImportsInv'
      <4>1. mi' \in [Name -> Import] /\ mi'[n] = new /\ \A m \in Name : m # n => mi'[m] = mi[m]
        BY <2>1, <3>3, <3>4, <3>5
      <4> QED BY <1>0, <2>1, <2>2, <3>4, <4>1 DEF ImportsInv, Pipeline
    <3>7. spoilt \subseteq spoilt' /\ spoilt' \subseteq Bundle
      BY <1>0, <2>1, <2>3 DEF VolumeInv
    <3> QED BY <2>2, <3>2, <3>6, <3>7, PipelineStands DEF IInv
  <2>4. CASE /\ IF cron.target THEN Spend ELSE UNCHANGED used
             /\ job' = [job EXCEPT ![j] = IdleJob]
             /\ UNCHANGED <<mi, spoilt>>
    <3>1. ScannerTyped'
      BY <1>0, <1>i, <2>2, <2>4, Spending DEF ScannerTyped, Platform
    <3>2. ImportsInv' BY <1>0, <2>2, <2>4 DEF ImportsInv, Pipeline
    <3>3. RunsInv' /\ VolumeInv' /\ Apart' /\ \A r \in Run : Staged(r)'
      BY <1>0, <2>2, <2>4, PipelineStands DEF VolumeInv
    <3> QED BY <3>1, <3>2, <3>3 DEF IInv
  <2> QED BY <1>4, <2>3, <2>4 DEF Apply
<1> QED BY <1>2, <1>3, <1>4 DEF Scanner

\* Beside an open run, a new one spoils both bundles.
LEMMA BuildKeepsInv == ASSUME IInv, NEW n \in Name, buildImportPipelineRun(n) PROVE IInv'
<1> DEFINE beside == {run[q].of : q \in {q \in Run : Open(q)}}
           b == mi[n].of
<1>0. ScannerTyped /\ ImportsInv /\ VolumeInv /\ RunsInv /\ Apart
  BY DEF IInv
<1>1. /\ mi[n] \in Import /\ mi \in [Name -> Import] /\ b \in Bundle /\ CRName[b] = n
      /\ mi[n].exists /\ mi[n].phase \in {"", "Importing"} /\ mi[n].ref = NoRun
      /\ UNCHANGED <<file, job, vol, content, applied, hit, Platform>>
      /\ spoilt' = IF beside = {} THEN spoilt ELSE spoilt \cup beside \cup {b}
  BY <1>0 DEF buildImportPipelineRun, ImportsInv
<1>2. PICK r \in Run : \E nodes \in SUBSET Node :
        /\ run[r] = NotCreated
        /\ run' = [run EXCEPT ![r] = [task |-> "extract", name |-> n, of |-> b,
                                      nodes |-> nodes, out |-> 0]]
        /\ \/ resolveNodeRegistries(nodes) /\ mi' = [mi EXCEPT ![n].phase = "Importing", ![n].ref = r]
           \/ nodes = Node /\ Spend /\ mi' = [mi EXCEPT ![n].phase = "Importing"]
  BY DEF buildImportPipelineRun
<1>3. PICK nodes \in SUBSET Node :
        /\ run' = [run EXCEPT ![r] = [task |-> "extract", name |-> n, of |-> b,
                                      nodes |-> nodes, out |-> 0]]
        /\ \/ resolveNodeRegistries(nodes) /\ mi' = [mi EXCEPT ![n].phase = "Importing", ![n].ref = r]
           \/ nodes = Node /\ Spend /\ mi' = [mi EXCEPT ![n].phase = "Importing"]
  BY <1>2
<1> DEFINE new == [task |-> "extract", name |-> n, of |-> b, nodes |-> nodes, out |-> 0]
<1>4. /\ new \in PipelineRun /\ new.task = "extract" /\ new.name = n /\ new.of = b
      /\ new.out = 0 /\ run[r].task = "none"
  <2>1. 0 \in 0..MaxSize /\ "extract" \in Task BY ImportConstants DEF Task
  <2>2. run[r].task = "none" BY <1>2 DEF NotCreated
  <2> QED BY <1>1, <2>1, <2>2 DEF PipelineRun
<1>5. run' = [run EXCEPT ![r] = new] BY <1>3
<1> HIDE DEF new
<1>6. run'[r] = new /\ \A q \in Run : q # r => run'[q] = run[q]
  BY <1>0, <1>5 DEF RunsInv
<1>7. RunsInv'
  <2>0. Size[b] \in 1..MaxSize BY <1>1, ImportConstants
  <2>1. 0 <= Size[b] BY <2>0
  <2> QED BY <1>0, <1>1, <1>4, <1>5, <1>6, <2>1 DEF RunsInv
<1>8. spoilt \subseteq spoilt' /\ spoilt' \subseteq Bundle
  <2>1. beside \subseteq Bundle BY <1>0 DEF RunsInv, Open, Task
  <2> QED BY <1>0, <1>1, <2>1 DEF VolumeInv
<1>9. VolumeInv'
  BY <1>0, <1>1, <1>8 DEF VolumeInv, Announces
<1>10. Apart'
  <2> SUFFICES ASSUME NEW q \in Run, NEW s \in Run, q # s, Open(q)', Open(s)'
               PROVE  run'[s].of \in spoilt'
    BY DEF Apart
  <2>1. CASE q # r /\ s # r
    BY <1>0, <1>6, <1>8, <2>1 DEF Apart, Open
  <2>2. CASE q = r
    <3>1. run[s].of \in beside BY <1>6, <2>2 DEF Open
    <3> QED BY <1>1, <1>6, <2>2, <3>1
  <2>3. CASE s = r
    <3>1. run[q].of \in beside BY <1>6, <2>3 DEF Open
    <3> QED BY <1>1, <1>4, <1>6, <2>3, <3>1
  <2> QED BY <2>1, <2>2, <2>3
<1>11. \A q \in Run : Staged(q)'
  <2>1. Grows BY <1>1, <1>8 DEF Grows
  <2>2. Staged(r)' BY <1>4, <1>6 DEF Staged
  <2> QED BY <1>1, <1>6, <2>1, <2>2, OthersStand
<1>12. ScannerTyped'
  BY <1>0, <1>1, <1>3, Spending DEF ScannerTyped, Platform, resolveNodeRegistries
<1>13. ImportsInv'
  <2>1. cm' \in [Name -> {"none", "config", "empty"}]
    BY <1>0 DEF buildImportPipelineRun, ImportsInv
  <2>2. \E m \in Import :
          /\ mi' = [mi EXCEPT ![n] = m] /\ m.exists /\ m.of = b /\ m.phase = "Importing"
          /\ m.ref \in {NoRun, r}
    <3> DEFINE bound == [mi[n] EXCEPT !.phase = "Importing", !.ref = r]
               unbound == [mi[n] EXCEPT !.phase = "Importing"]
    <3>1. /\ bound \in Import /\ bound.exists /\ bound.of = b /\ bound.phase = "Importing"
          /\ bound.ref = r
      BY <1>1 DEF Import
    <3>2. /\ unbound \in Import /\ unbound.exists /\ unbound.of = b
          /\ unbound.phase = "Importing" /\ unbound.ref = NoRun
      BY <1>1 DEF Import
    <3>3. mi' = [mi EXCEPT ![n] = bound] \/ mi' = [mi EXCEPT ![n] = unbound]
      BY <1>3, <1>1
    <3> HIDE DEF bound, unbound
    <3> QED BY <3>1, <3>2, <3>3
  <2>3. PICK m \in Import :
          /\ mi' = [mi EXCEPT ![n] = m] /\ m.exists /\ m.of = b /\ m.phase = "Importing"
          /\ m.ref \in {NoRun, r}
    BY <2>2
  <2>4. mi' \in [Name -> Import] /\ mi'[n] = m /\ \A k \in Name : k # n => mi'[k] = mi[k]
    BY <1>1, <2>3
  <2>5. \A k \in Name : mi[k].ref \in Run \cup {NoRun}
    BY <1>0 DEF ImportsInv, Import
  <2>6. ASSUME NEW k \in Name, k # n, mi[k].ref # NoRun
        PROVE  mi[k].ref # r /\ run'[mi[k].ref] = run[mi[k].ref]
    BY <1>0, <1>4, <1>6, <2>5, <2>6 DEF ImportsInv
  <2>7. ASSUME NEW k \in Name
        PROVE  /\ mi'[k].exists => mi'[k].of \in Bundle /\ CRName[mi'[k].of] = k
               /\ mi'[k].ref # NoRun =>
                    mi'[k].exists /\ run'[mi'[k].ref].task # "none" /\ run'[mi'[k].ref].name = k
               /\ mi'[k].phase = "Complete" =>
                    mi'[k].ref # NoRun /\ run'[mi'[k].ref].task = "done"
    <3>1. CASE k = n
      BY <1>1, <1>4, <1>6, <2>3, <2>4, <3>1
    <3>2. CASE k # n
      BY <1>0, <2>4, <2>6, <3>2 DEF ImportsInv
    <3> QED BY <3>1, <3>2
  <2> QED BY <2>1, <2>4, <2>7 DEF ImportsInv
<1> QED BY <1>7, <1>9, <1>10, <1>11, <1>12, <1>13 DEF IInv

LEMMA TrackKeepsInv == ASSUME IInv, NEW n \in Name, trackImportPipelineRun(n) PROVE IInv'
<1>0. /\ ScannerTyped /\ ImportsInv /\ VolumeInv
      /\ UNCHANGED <<file, cm, job, used, Platform, Pipeline, History>>
      /\ mi[n].ref # NoRun /\ mi[n] \in Import /\ mi \in [Name -> Import]
  BY DEF IInv, trackImportPipelineRun, ImportsInv
<1>1. PICK p \in {"Complete", "Failed"} :
        /\ mi' = [mi EXCEPT ![n].phase = p]
        /\ p = "Complete" => run[mi[n].ref].task = "done"
  BY DEF trackImportPipelineRun
<1> DEFINE new == [mi[n] EXCEPT !.phase = p]
<1>2. /\ new \in Import /\ new.exists = mi[n].exists /\ new.of = mi[n].of
      /\ new.ref = mi[n].ref /\ new.phase = p /\ mi' = [mi EXCEPT ![n] = new]
  BY <1>0, <1>1 DEF Import
<1> HIDE DEF new
<1>3. mi' \in [Name -> Import] /\ mi'[n] = new /\ \A k \in Name : k # n => mi'[k] = mi[k]
  BY <1>0, <1>2
<1>4. ImportsInv'
  BY <1>0, <1>1, <1>2, <1>3 DEF ImportsInv, Pipeline
<1>5. ScannerTyped' BY <1>0 DEF ScannerTyped, Platform
<1>6. RunsInv' /\ VolumeInv' /\ Apart' /\ \A r \in Run : Staged(r)'
  BY <1>0, PipelineStands DEF History, VolumeInv
<1> QED BY <1>4, <1>5, <1>6 DEF IInv

-----------------------------------------------------------------------------
(* The theorems *)

LEMMA InitInv == Init => IInv
<1> SUFFICES ASSUME Init PROVE IInv
  OBVIOUS
<1>1. NoImport \in Import /\ NotCreated \in PipelineRun /\ Bare \in Volume
  BY ImportConstants DEF NoImport, Import, NotCreated, PipelineRun, Bare, Volume
<1>2. ScannerTyped
  BY ImportConstants DEF Init, ScannerTyped, IdleJob
<1>3. ImportsInv
  BY <1>1 DEF Init, ImportsInv, NoImport
<1>4. RunsInv
  BY <1>1 DEF Init, RunsInv, NotCreated
<1>5. VolumeInv
  BY <1>1 DEF Init, VolumeInv, Bare
<1>6. Apart /\ \A r \in Run : Staged(r)
  BY DEF Init, Apart, Open, NotCreated, Task, Staged
<1> QED BY <1>2, <1>3, <1>4, <1>5, <1>6 DEF IInv

LEMMA NextKeepsInv == IInv /\ [Next]_vars => IInv'
<1> SUFFICES ASSUME IInv, [Next]_vars PROVE IInv'
  OBVIOUS
<1>1. CASE UNCHANGED vars
  <2>1. RunsInv' /\ VolumeInv' /\ Apart' /\ \A r \in Run : Staged(r)'
    BY <1>1, PipelineStands DEF vars, Pipeline, IInv, VolumeInv
  <2>2. ImportsInv' /\ ScannerTyped'
    BY <1>1 DEF vars, IInv, ImportsInv, ScannerTyped
  <2> QED BY <2>1, <2>2 DEF IInv
<1>2. ASSUME NEW r \in Run, Tekton(r) PROVE IInv'
  BY <1>2, ExtractKeepsInv, MirrorKeepsInv, NodesKeepInv, ApplyKeepsInv, CleanupKeepsInv
  DEF Tekton
<1>3. ASSUME NEW n \in Name, Controller(n) PROVE IInv'
  BY <1>3, BuildKeepsInv, TrackKeepsInv DEF Controller
<1> QED BY <1>1, <1>2, <1>3, PlatformKeepsInv, ScannerKeepsInv, FailureKeepsInv DEF Next

\* Every reachable state satisfies the inductive invariant.
THEOREM Invariance == Spec => []IInv
  BY InitInv, NextKeepsInv, PTL DEF Spec

\* The files, the scanner's jobs, MirrorImports, runs, volume and registries of the
\* import path keep their types.
THEOREM TypeCorrect == Spec => []TypeOK
<1>1. IInv => TypeOK
  BY DEF IInv, ScannerTyped, ImportsInv, RunsInv, VolumeInv, TypeOK
<1> QED BY <1>1, Invariance, PTL

\* apply-manifests never points the cluster to a mirror before mirror-content or
\* mirror-to-nodes has brought there what it names, whichever run wrote the manifests,
\* failed runs and their remains on the shared volume included.
THEOREM ManifestsWait == Spec => []ManifestsAfterContent
<1>1. IInv => ManifestsAfterContent
  BY DEF IInv, VolumeInv, Announces, ManifestsAfterContent
<1> QED BY <1>1, Invariance, PTL

\* No two files give the scanner the same MirrorImport name.
OwnNames == \A b, c \in Bundle : CRName[b] = CRName[c] => b = c

\* Where no two bundles share a name, a Complete import has its bundle in the registry
\* and on every master of its run and its manifests applied: the premise is needed,
\* since oc apply in the scan script gives an existing MirrorImport another file's path.
THEOREM CompleteThere == ASSUME OwnNames PROVE Spec => []CompleteIsThere
<1>1. IInv => CompleteIsThere
  <2> SUFFICES ASSUME IInv, NEW n \in Name, mi[n].phase = "Complete", mi[n].of \notin spoilt
               PROVE  /\ \A x \in run[mi[n].ref].nodes \cup {Target} : mi[n].of \in content[x]
                      /\ mi[n].of \in hit \/ \E x \in Registry : <<mi[n].of, x>> \in applied
    BY DEF CompleteIsThere
  <2> DEFINE r == mi[n].ref
  <2>1. /\ r \in Run /\ run[r].task = "done" /\ run[r].name = n
        /\ mi[n].of \in Bundle /\ CRName[mi[n].of] = n
    BY DEF IInv, ImportsInv, Import
  <2>2. run[r].of \in Bundle /\ CRName[run[r].of] = n /\ Staged(r)
    BY <2>1 DEF IInv, RunsInv
  <2>3. run[r].of = mi[n].of
    BY <2>1, <2>2, OwnNames DEF OwnNames
  <2> QED BY <2>1, <2>2, <2>3 DEF Staged
<1> QED BY <1>1, Invariance, PTL

=============================================================================
