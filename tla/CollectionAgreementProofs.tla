---------------------- MODULE CollectionAgreementProofs ----------------------
(***************************************************************************)
(* What a CollectionPipeline's status says of its run, for every number of *)
(* pipelines, runs, days and failures: the bound run was made for the      *)
(* status's version and on its PVC, the runs of a child work on the PVC of *)
(* its parent's, and the platform's history tells of collections only.     *)
(*                                                                         *)
(* The argument: the working PVC is named once and for all, so every copy  *)
(* of a pipeline, however old, has that name or none (OneClaim).  The      *)
(* version changes only through a reset, which needs a bound run: a copy   *)
(* without a run has the current version or none (OneVersion), and the run *)
(* made from such a copy can be bound to the current one.                  *)
(***************************************************************************)
EXTENDS CollectionPipelineProofs

\* A copy o of the stored object a.
OneClaim(o, a) == o.claim \in {NoPipeline, a.claim}
OneVersion(o, a) == o.ref = NoRun /\ o.version # NoVersion => a.version = o.version

\* The run of a copy o was made for what o says.
Described(o, rs) == o.ref # NoRun => o.claim # NoPipeline /\ rs[o.ref].version = o.version

\* The PVC of a pipeline of its own.
OwnClaim(p) == IF UsesBase(p) THEN Base[p] ELSE p

\* The name c of p's PVC, given the stored objects.
Rooted(p, c, objects) ==
    c = IF Parent[p] = NoPipeline THEN OwnClaim(p) ELSE objects[Parent[p]].claim

CopiesAgree ==
    /\ \A p \in Pipeline :
        /\ OneClaim(seen[p], api[p]) /\ OneVersion(seen[p], api[p])
        /\ Described(api[p], runs) /\ Described(seen[p], runs)
        /\ api[p].claim # NoPipeline => Rooted(p, api[p].claim, api)
    /\ pc # "idle" => OneClaim(obj, api[key]) /\ OneVersion(obj, api[key]) /\ Described(obj, runs)

RunsAgree ==
    \A r \in Run : \A p \in Pipeline :
        runs[r].owner = p => runs[r].claim # NoPipeline /\ runs[r].claim = api[p].claim

\* What the running reconciliation has established on its way.
Versioned == {"claim", "volume", "create", "bind"}
OnItsWay ==
    /\ cur /\ obj.ref # NoRun => seen[key].ref # NoRun
    /\ pc = "history" => obj.phase = "Complete"
    /\ pc \in {"version", "claim"} /\ Parent[key] # NoPipeline => seen[Parent[key]].claim # NoPipeline
    /\ pc \in Versioned => obj.version # NoVersion
    /\ pc \in {"volume", "create"} => obj.claim # NoPipeline
    /\ pc = "bind" => obj.ref = NoRun /\ runs[mine].version = obj.version

\* The inductive invariant, on top of IInv.
AInv == CopiesAgree /\ RunsAgree /\ OnItsWay /\ HistoryIsTrue

-----------------------------------------------------------------------------
(* What stays of the runs *)

\* A run stays the one it was created as, and a success stays one.
Stays(rs, rs2) ==
    \A r \in Run : rs[r].owner \in Pipeline =>
        /\ rs2[r].owner = rs[r].owner /\ rs2[r].version = rs[r].version
        /\ rs2[r].claim = rs[r].claim
        /\ rs[r].state = "succeeded" => rs2[r].state = "succeeded"

LEMMA ProgressStays ==
    ASSUME RunsTyped, NEW r \in Run, NEW st, runs[r].state # "succeeded",
           runs' = [runs EXCEPT ![r].state = st]
    PROVE  Stays(runs, runs') /\ \A s \in Run : runs'[s].owner = runs[s].owner
<1> DEFINE d == [runs[r] EXCEPT !.state = st]
<1>1. /\ d.owner = runs[r].owner /\ d.version = runs[r].version /\ d.claim = runs[r].claim
  BY DEF RunsTyped, RunObject
<1>2. runs' = [runs EXCEPT ![r] = d] OBVIOUS
<1> HIDE DEF d
<1>3. runs'[r] = d /\ \A s \in Run : s # r => runs'[s] = runs[s] BY <1>2 DEF RunsTyped
<1> QED BY <1>1, <1>3 DEF Stays

LEMMA DeletionStays ==
    ASSUME RunsTyped, NEW r \in Run, runs' = [runs EXCEPT ![r].deleted = TRUE]
    PROVE  Stays(runs, runs') /\ \A s \in Run : runs'[s].owner = runs[s].owner
<1> DEFINE d == [runs[r] EXCEPT !.deleted = TRUE]
<1>1. /\ d.owner = runs[r].owner /\ d.version = runs[r].version /\ d.claim = runs[r].claim
      /\ d.state = runs[r].state
  BY DEF RunsTyped, RunObject
<1>2. runs' = [runs EXCEPT ![r] = d] OBVIOUS
<1> HIDE DEF d
<1>3. runs'[r] = d /\ \A s \in Run : s # r => runs'[s] = runs[s] BY <1>2 DEF RunsTyped
<1> QED BY <1>1, <1>3 DEF Stays

LEMMA CollectionStays ==
    ASSUME RunsTyped, NEW p \in Pipeline, CollectGarbage(p)
    PROVE  Stays(runs, runs') /\ \A s \in Run : runs'[s].owner = runs[s].owner
<1>1. ASSUME NEW r \in Run
      PROVE  /\ runs'[r].owner = runs[r].owner /\ runs'[r].version = runs[r].version
             /\ runs'[r].claim = runs[r].claim /\ runs'[r].state = runs[r].state
  <2>1. runs[r] \in RunObject BY DEF RunsTyped
  <2>2. runs'[r] \in {runs[r], [runs[r] EXCEPT !.deleted = TRUE]} BY DEF CollectGarbage
  <2> QED BY <2>1, <2>2 DEF RunObject
<1> QED BY <1>1 DEF Stays

LEMMA DescribedStays ==
    ASSUME NEW o \in Object, NEW p \in Pipeline, Honest(o, p, runs, runSeen), Described(o, runs),
           Stays(runs, runs')
    PROVE  Described(o, runs')
<1>1. o.ref # NoRun => o.ref \in Run /\ runs[o.ref].owner \in Pipeline BY DEF Honest, Object
<1> QED BY <1>1 DEF Described, Stays

LEMMA HistoryStays ==
    ASSUME RestTyped, HistoryIsTrue, Stays(runs, runs'), history' = history
    PROVE  HistoryIsTrue'
<1> SUFFICES ASSUME NEW h \in history
             PROVE  \E r \in Run : /\ runs'[r].owner = h.of /\ runs'[r].version = h.version
                                   /\ runs'[r].state = "succeeded"
  BY DEF HistoryIsTrue
<1>1. PICK r \in Run : /\ runs[r].owner = h.of /\ runs[r].version = h.version
                       /\ runs[r].state = "succeeded"
  BY DEF HistoryIsTrue
<1>2. h.of \in Pipeline BY DEF RestTyped
<1> QED BY <1>1, <1>2 DEF Stays

\* Steps of runs, with the pipelines as they were.
LEMMA RunsMove ==
    ASSUME IInv, AInv, UNCHANGED <<api, seen, history, workerVars>>, Stays(runs, runs'),
           \A r \in Run : runs'[r].owner = runs[r].owner
    PROVE  AInv'
<1>0. /\ CopiesOK /\ RunsTyped /\ RestTyped /\ RunsOK /\ Progressed
      /\ CopiesAgree /\ RunsAgree /\ OnItsWay /\ HistoryIsTrue
      /\ UNCHANGED <<pc, key, obj, cur, mine>>
  BY IInvParts DEF AInv, workerVars
<1>1. CopiesAgree'
  <2>1. ASSUME NEW p \in Pipeline
        PROVE  Described(api[p], runs') /\ Described(seen[p], runs')
    BY <1>0, DescribedStays DEF CopiesOK, CopiesTyped, HonestCopies, CopiesAgree
  <2>2. pc # "idle" => Described(obj, runs')
    BY <1>0, DescribedStays DEF CopiesOK, CopiesTyped, HonestCopies, CopiesAgree
  <2> QED BY <1>0, <2>1, <2>2 DEF CopiesAgree
<1>2. RunsAgree' BY <1>0 DEF RunsAgree, Stays
<1>3. OnItsWay'
  <2>1. pc = "bind" => mine \in Run /\ runs[mine].owner \in Pipeline
    BY <1>0 DEF Progressed, CopiesOK, CopiesTyped
  <2> QED BY <1>0, <2>1 DEF OnItsWay, Stays
<1> QED BY <1>0, <1>1, <1>2, <1>3, HistoryStays DEF AInv

-----------------------------------------------------------------------------
(* What a write does to the copies, whoever makes it *)

\* A copy that keeps the PVC and the version, or is the first to have one, or leaves
\* the version behind with a run that the cache knows too.
Fits(new) ==
    /\ new \in Object /\ Described(new, runs)
    /\ \/ new.claim = obj.claim
       \/ obj.claim = NoPipeline /\ Rooted(key, new.claim, api)
    /\ \/ new.version = obj.version \/ obj.version = NoVersion
       \/ cur => seen[key].ref # NoRun

LEMMA WritesAgree ==
    ASSUME IInv, AInv, pc # "idle", NEW new, Fits(new), UNCHANGED <<seen, runs>>,
           \/ api' = api /\ (pc' = "idle" \/ obj' = obj)
           \/ /\ cur /\ obj = api[key] /\ api' = [api EXCEPT ![key] = new]
              /\ pc' = "idle" \/ obj' = new,
           pc' = "idle" \/ key' = key
    PROVE  CopiesAgree' /\ RunsAgree'
<1>0. /\ CopiesTyped /\ CopiesAgree /\ RunsAgree /\ key \in Pipeline
      /\ api \in [Pipeline -> Object]
  BY IInvParts DEF AInv, CopiesOK, CopiesTyped
<1>1. CASE api' = api /\ (pc' = "idle" \/ obj' = obj)
  BY <1>0, <1>1 DEF CopiesAgree, RunsAgree
<1>2. CASE /\ cur /\ obj = api[key] /\ api' = [api EXCEPT ![key] = new]
           /\ pc' = "idle" \/ obj' = new
  <2>1. api'[key] = new /\ \A p \in Pipeline : p # key => api'[p] = api[p]
    BY <1>0, <1>2
  <2>2. OneClaim(seen[key], new) /\ OneVersion(seen[key], new)
    BY <1>0, <1>2 DEF CopiesAgree, Fits, OneClaim, OneVersion
  <2>3. ASSUME NEW p \in Pipeline, api'[p].claim # NoPipeline
        PROVE  Rooted(p, api'[p].claim, api')
    <3>1. CASE new.claim = api[key].claim
      <4>1. \A q \in Pipeline : api'[q].claim = api[q].claim BY <2>1, <3>1
      <4>2. Parent[p] # NoPipeline => Parent[p] \in Pipeline BY ConstantsAssumption
      <4> QED BY <1>0, <2>3, <4>1, <4>2 DEF CopiesAgree, Rooted
    <3>2. CASE new.claim # api[key].claim
      <4>1. api[key].claim = NoPipeline /\ Rooted(key, new.claim, api)
        BY <1>2, <3>2 DEF Fits
      <4>2. CASE p = key
        BY <2>1, <2>3, <4>1, <4>2, ConstantsAssumption DEF Rooted
      <4>3. CASE p # key
        <5>1. Rooted(p, api[p].claim, api) /\ api[p].claim # NoPipeline
          BY <1>0, <2>1, <2>3, <4>3 DEF CopiesAgree
        <5>2. Parent[p] # NoPipeline => Parent[p] \in Pipeline /\ Parent[p] # key
          BY <4>1, <5>1, ConstantsAssumption DEF Rooted
        <5> QED BY <2>1, <4>3, <5>1, <5>2 DEF Rooted
      <4> QED BY <4>2, <4>3
    <3> QED BY <3>1, <3>2
  <2>4. CopiesAgree'
    <3>1. ASSUME NEW p \in Pipeline
          PROVE  /\ OneClaim(seen[p], api'[p]) /\ OneVersion(seen[p], api'[p])
                 /\ Described(api'[p], runs) /\ Described(seen[p], runs)
      <4>1. CASE p = key BY <1>0, <2>1, <2>2, <4>1 DEF CopiesAgree, Fits
      <4>2. CASE p # key BY <1>0, <2>1, <4>2 DEF CopiesAgree
      <4> QED BY <4>1, <4>2
    <3>2. pc' # "idle" => /\ OneClaim(obj', api'[key']) /\ OneVersion(obj', api'[key'])
                          /\ Described(obj', runs)
      BY <1>2, <2>1 DEF Fits, OneClaim, OneVersion
    <3> QED BY <2>3, <3>1, <3>2 DEF CopiesAgree
  <2>5. RunsAgree'
    BY <1>0, <1>2, <2>1 DEF RunsAgree, Fits
  <2> QED BY <2>4, <2>5
<1> QED BY <1>1, <1>2

\* Somebody else's write keeps the run, the version and the PVC.
LEMMA ChangeAgrees ==
    ASSUME IInv, AInv, NEW p \in Pipeline, NEW new \in Object, Change(p, new),
           new.ref = api[p].ref, new.version = api[p].version, new.claim = api[p].claim,
           UNCHANGED <<runs, history>>
    PROVE  AInv'
<1>0. /\ CopiesOK /\ CopiesTyped /\ CopiesAgree /\ RunsAgree /\ OnItsWay /\ HistoryIsTrue
      /\ api \in [Pipeline -> Object]
  BY IInvParts DEF AInv, CopiesOK, CopiesTyped
<1>1. /\ \A q \in Pipeline : /\ api'[q].ref = api[q].ref /\ api'[q].version = api[q].version
                             /\ api'[q].claim = api[q].claim
      /\ UNCHANGED <<seen, pc, key, obj, mine>> /\ (cur' => cur)
  BY <1>0 DEF Change, Store
<1>2. pc # "idle" => key \in Pipeline BY <1>0 DEF CopiesTyped
<1>3. \A q \in Pipeline : Parent[q] # NoPipeline => Parent[q] \in Pipeline BY ConstantsAssumption
<1>4. CopiesAgree'
  BY <1>0, <1>1, <1>2, <1>3 DEF CopiesAgree, OneClaim, OneVersion, Described, Rooted
<1>5. RunsAgree' BY <1>0, <1>1 DEF RunsAgree
<1>6. OnItsWay' BY <1>0, <1>1 DEF OnItsWay
<1>7. HistoryIsTrue' BY <1>0 DEF HistoryIsTrue
<1> QED BY <1>4, <1>5, <1>6, <1>7 DEF AInv

-----------------------------------------------------------------------------
(* The running reconciliation *)

\* A copy with the same run, version and PVC fits.
LEMMA SameFits ==
    ASSUME IInv, AInv, pc # "idle", NEW new \in Object,
           new.ref = obj.ref, new.version = obj.version, new.claim = obj.claim
    PROVE  Fits(new)
  BY DEF AInv, CopiesAgree, Fits, Described

\* The end of a reconciliation.
LEMMA IdleOnItsWay == ASSUME pc' = "idle", ~cur' PROVE OnItsWay'
  BY DEF OnItsWay, Versioned

\* A write that ends the reconciliation.
LEMMA ReturnKeeps ==
    ASSUME IInv, AInv, pc # "idle", NEW new, Fits(new), NEW requeue,
           WriteAndReturn(new, requeue) \/ Return(requeue), UNCHANGED <<seen, runs, history>>
    PROVE  AInv'
<1>1. /\ pc' = "idle" /\ ~cur'
      /\ \/ api' = api
         \/ cur /\ obj = api[key] /\ api' = [api EXCEPT ![key] = new]
  BY IInvParts DEF CopiesOK, CurrentCopies, WriteAndReturn, Return, Store, Finish
<1>2. CopiesAgree' /\ RunsAgree' BY <1>1, WritesAgree
<1>3. HistoryIsTrue' BY DEF AInv, HistoryIsTrue
<1> QED BY <1>1, <1>2, <1>3, IdleOnItsWay DEF AInv

\* A write that leads to another call.
LEMMA WriteKeeps ==
    ASSUME IInv, AInv, pc # "idle", NEW new, Fits(new), NEW next, next # "idle",
           Write(new, next) \/ Skip(next), UNCHANGED <<seen, runs, history>>,
           pc' = next /\ key' = key /\ mine' = mine /\ (cur' => cur) /\ obj' \in {obj, new} => OnItsWay'
    PROVE  AInv'
<1>1. /\ \/ api' = api /\ (pc' = "idle" \/ obj' = obj)
         \/ /\ cur /\ obj = api[key] /\ api' = [api EXCEPT ![key] = new]
            /\ pc' = "idle" \/ obj' = new
      /\ \/ pc' = "idle" /\ ~cur'
         \/ pc' = next /\ key' = key /\ mine' = mine /\ (cur' => cur)
  BY IInvParts DEF CopiesOK, CurrentCopies, Write, Skip, Store, Finish, Continue
<1>2. CopiesAgree' /\ RunsAgree' BY <1>1, WritesAgree
<1>3. OnItsWay' BY <1>1, IdleOnItsWay
<1>4. HistoryIsTrue' BY DEF AInv, HistoryIsTrue
<1> QED BY <1>2, <1>3, <1>4 DEF AInv

\* A write that keeps run, version and PVC and leads to a call that needs nothing more.
LEMMA PlainWriteKeeps ==
    ASSUME IInv, AInv, pc # "idle", NEW new \in Object,
           NEW next, next \notin Versioned \cup {"idle", "version", "history"},
           Write(new, next) \/ Skip(next), UNCHANGED <<seen, runs, history>>,
           new.ref = obj.ref, new.version = obj.version, new.claim = obj.claim
    PROVE  AInv'
<1>1. ASSUME pc' = next, key' = key, cur' => cur, obj' \in {obj, new} PROVE OnItsWay'
  BY <1>1 DEF AInv, OnItsWay, Versioned
<1>2. Fits(new) BY SameFits
<1> QED BY <1>1, <1>2, WriteKeeps

LEMMA EarlyCallsKeep ==
    ASSUME IInv, AInv,
           \/ AddFinalizer \/ EnsureConfig \/ CheckTrigger \/ ExpandPVC \/ EnsureVolume
           \/ AwaitSigning \/ DeleteWorkingPVC \/ ReleasePipeline
    PROVE  AInv'
<1>0. CopiesOK /\ obj \in Object BY IInvParts DEF CopiesOK, CopiesTyped
<1>1. CASE AddFinalizer
  <2> DEFINE new == [obj EXCEPT !.fin = TRUE]
  <2>1. new \in Object /\ new.ref = obj.ref /\ new.version = obj.version /\ new.claim = obj.claim
    BY <1>0 DEF Object
  <2>2. pc # "idle" /\ WriteAndReturn(new, FALSE) /\ UNCHANGED <<seen, runs, history>>
    BY <1>1 DEF AddFinalizer, runVars, platVars
  <2>3. Fits(new) BY <2>1, <2>2, SameFits
  <2> HIDE DEF new
  <2> QED BY <2>2, <2>3, ReturnKeeps
<1>2. CASE EnsureConfig
  <2> DEFINE new == [obj EXCEPT !.cmRef = TRUE]
  <2>1. new \in Object /\ new.ref = obj.ref /\ new.version = obj.version /\ new.claim = obj.claim
    BY <1>0 DEF Object
  <2>2. /\ pc # "idle" /\ (Write(new, "trigger") \/ Skip("trigger"))
        /\ UNCHANGED <<seen, runs, history>>
    BY <1>2 DEF EnsureConfig, runVars, platVars
  <2>3. "trigger" \notin Versioned \cup {"idle", "version", "history"} BY DEF Versioned
  <2> QED BY <2>1, <2>2, <2>3, PlainWriteKeeps
<1>3. CASE CheckTrigger
  <2> DEFINE new == [obj EXCEPT !.trigger = FALSE]
  <2>1. new \in Object /\ new.ref = obj.ref /\ new.version = obj.version /\ new.claim = obj.claim
    BY <1>0 DEF Object
  <2>2. pc # "idle" /\ Write(new, "reset") /\ UNCHANGED <<seen, runs, history>>
    BY <1>3 DEF CheckTrigger, runVars, platVars
  <2>3. "reset" \notin Versioned \cup {"idle", "version", "history"} BY DEF Versioned
  <2> QED BY <2>1, <2>2, <2>3, PlainWriteKeeps
<1>4. CASE ExpandPVC
  <2> DEFINE next == IF obj.ref # NoRun THEN "track" ELSE "parent"
  <2>2. pc # "idle" /\ Skip(next) /\ UNCHANGED <<seen, runs, history>>
    BY <1>4 DEF ExpandPVC, runVars, platVars
  <2>3. next \notin Versioned \cup {"idle", "version", "history"} BY DEF Versioned
  <2> HIDE DEF next
  <2> QED BY <1>0, <2>2, <2>3, PlainWriteKeeps
<1>5. CASE EnsureVolume
  <2>1. /\ pc = "volume" /\ (Return(TRUE) \/ Skip("create")) /\ UNCHANGED <<seen, runs, history>>
    BY <1>5 DEF EnsureVolume, runVars, platVars
  <2>2. CASE Skip("create")
    <3>1. pc' = "create" /\ UNCHANGED <<key, obj, cur, mine>> BY <2>2 DEF Skip, Continue
    <3>2. OnItsWay' BY <2>1, <3>1 DEF AInv, OnItsWay, Versioned
    <3>3. Fits(obj) BY <1>0, <2>1, SameFits
    <3> QED BY <2>1, <2>2, <3>2, <3>3, WriteKeeps
  <2>3. CASE Return(TRUE)
    <3>1. Fits(obj) BY <1>0, <2>1, SameFits
    <3> QED BY <2>1, <2>3, <3>1, ReturnKeeps
  <2> QED BY <2>1, <2>2, <2>3
<1>6. CASE AwaitSigning
  <2>1. pc # "idle" /\ Return(TRUE) /\ UNCHANGED <<seen, runs, history>>
    BY <1>6 DEF AwaitSigning, runVars, platVars
  <2>2. Fits(obj) BY <1>0, <2>1, SameFits
  <2> QED BY <2>1, <2>2, ReturnKeeps
<1>7. CASE DeleteWorkingPVC
  <2>1. pc # "idle" /\ Skip("release") /\ UNCHANGED <<seen, runs, history>>
    BY <1>7 DEF DeleteWorkingPVC, runVars
  <2>2. "release" \notin Versioned \cup {"idle", "version", "history"} BY DEF Versioned
  <2> QED BY <1>0, <2>1, <2>2, PlainWriteKeeps
<1>8. CASE ReleasePipeline
  <2> DEFINE new == [obj EXCEPT !.fin = FALSE, !.life = "gone"]
  <2>1. new \in Object /\ new.ref = obj.ref /\ new.version = obj.version /\ new.claim = obj.claim
    BY <1>0 DEF Object
  <2>2. /\ pc # "idle" /\ (WriteAndReturn(new, FALSE) \/ Return(FALSE))
        /\ UNCHANGED <<seen, runs, history>>
    BY <1>8 DEF ReleasePipeline, runVars, platVars
  <2>3. Fits(new) BY <2>1, <2>2, SameFits
  <2> HIDE DEF new
  <2> QED BY <2>2, <2>3, ReturnKeeps
<1> QED BY <1>1, <1>2, <1>3, <1>4, <1>5, <1>6, <1>7, <1>8

\* The version is left behind with a run that the cache knows.
LEMMA ResetKeeps == ASSUME IInv, AInv, ResetStatus PROVE AInv'
<1> DEFINE new == ResetFields(obj)
<1>0. /\ obj \in Object /\ pc = "reset" /\ obj.ref # NoRun
      /\ WriteAndReturn(new, FALSE) /\ UNCHANGED <<seen, runs, history>>
  BY IInvParts DEF CopiesOK, CopiesTyped, Progressed, ResetStatus, runVars, platVars
<1>1. new \in Object /\ new.ref = NoRun /\ new.claim = obj.claim
  BY <1>0 DEF ResetFields, Object, Phases
<1>2. cur => seen[key].ref # NoRun BY <1>0 DEF AInv, OnItsWay
<1>3. Fits(new) BY <1>1, <1>2 DEF Fits, Described
<1> HIDE DEF new
<1> QED BY <1>0, <1>3, ReturnKeeps

LEMMA TrackKeeps == ASSUME IInv, AInv, trackPipelineRun PROVE AInv'
<1> DEFINE pr == runSeen[obj.ref]
           new == [obj EXCEPT !.phase = collectionPipelineRunPhase(pr)]
           lost == [obj EXCEPT !.ref = NoRun, !.phase = "Stale"]
<1>0. /\ CopiesOK /\ obj \in Object /\ pc = "track" /\ UNCHANGED <<seen, runs, history>>
  BY IInvParts DEF CopiesOK, CopiesTyped, trackPipelineRun, runVars, platVars
<1>1. /\ new \in Object /\ new.ref = obj.ref /\ new.version = obj.version /\ new.claim = obj.claim
      /\ lost \in Object /\ lost.ref = NoRun /\ lost.version = obj.version /\ lost.claim = obj.claim
  BY <1>0, RunPhases DEF Object, Phases
<1>2. CASE WriteAndReturn(lost, FALSE)
  <2>1. Fits(lost) BY <1>1 DEF Fits, Described
  <2> HIDE DEF lost
  <2> QED BY <1>0, <1>2, <2>1, ReturnKeeps
<1>3. CASE WriteAndReturn(new, ~RunDone(pr))
  <2>1. Fits(new) BY <1>0, <1>1, SameFits
  <2> HIDE DEF new
  <2> QED BY <1>0, <1>3, <2>1, ReturnKeeps
<1>4. CASE new.phase = "Complete" /\ Write(new, "history")
  <2>1. Fits(new) BY <1>0, <1>1, SameFits
  <2>2. pc' = "history" => obj' = new BY <1>4 DEF Write, Continue, Finish
  <2>3. ASSUME pc' = "history", key' = key, cur' => cur PROVE OnItsWay'
    BY <1>0, <1>1, <1>4, <2>2, <2>3 DEF AInv, OnItsWay, Versioned
  <2> HIDE DEF new
  <2> QED BY <1>0, <1>4, <2>1, <2>3, WriteKeeps
<1> QED BY <1>2, <1>3, <1>4 DEF trackPipelineRun

\* Only what the worker's copy reports as Complete goes into the history.
LEMMA HistoryKeeps == ASSUME IInv, AInv, updatePlatformCollectionHistory PROVE AInv'
<1>0. /\ CopiesOK /\ obj \in Object /\ key \in Pipeline /\ Honest(obj, key, runs, runSeen)
      /\ pc = "history" /\ obj.phase = "Complete" /\ Described(obj, runs) /\ CachedRuns
      /\ Return(FALSE) /\ UNCHANGED <<seen, runs>>
      /\ history' \in {history, history \cup {[of |-> key, version |-> obj.version]}}
  BY IInvParts
  DEF CopiesOK, CopiesTyped, HonestCopies, AInv, CopiesAgree, OnItsWay, RunsOK,
      updatePlatformCollectionHistory, runVars
<1>1. obj.ref \in Run /\ obj.ref # NoRun /\ runSeen[obj.ref].state = "succeeded"
  BY <1>0 DEF Honest, Object
<1>2. /\ runs[obj.ref].owner = key /\ runs[obj.ref].version = obj.version
      /\ runs[obj.ref].state = "succeeded"
  BY <1>0, <1>1 DEF Honest, Described, CachedRuns, Follows
<1>3. HistoryIsTrue'
  <2> DEFINE h == [of |-> key, version |-> obj.version]
  <2>1. h.of = key /\ h.version = obj.version OBVIOUS
  <2> HIDE DEF h
  <2> QED BY <1>0, <1>1, <1>2, <2>1 DEF AInv, HistoryIsTrue, h
<1>4. pc' = "idle" /\ ~cur' /\ api' = api BY <1>0 DEF Return, Finish
<1>5. Fits(obj) BY <1>0, SameFits
<1>6. CopiesAgree' /\ RunsAgree' BY <1>0, <1>4, <1>5, WritesAgree
<1> QED BY <1>3, <1>4, <1>6, IdleOnItsWay DEF AInv

\* A pipeline that waits for its parent goes on once the cache has the parent Complete:
\* the parent has a run then, and with it a PVC.
LEMMA ValidateKeeps == ASSUME IInv, AInv, ValidateParent PROVE AInv'
<1> DEFINE parent == seen[Parent[key]]
           new == [obj EXCEPT !.parentVersion = parent.version]
           failed == [obj EXCEPT !.phase = "Failed"]
<1>0. /\ CopiesOK /\ obj \in Object /\ key \in Pipeline /\ obj.ref = NoRun /\ pc = "parent"
      /\ seen \in [Pipeline -> Object] /\ UNCHANGED <<seen, runs, history>>
  BY IInvParts
  DEF CopiesOK, CopiesTyped, Progressed, Bindless, ValidateParent, runVars, platVars
<1>1. Parent[key] # NoPipeline => Parent[key] \in Pipeline BY <1>0, ConstantsAssumption
<1>2. Fits(obj) BY <1>0, SameFits
<1>3. CASE Parent[key] # NoPipeline /\ WriteAndReturn(failed, FALSE)
  <2>1. /\ failed \in Object /\ failed.ref = obj.ref /\ failed.version = obj.version
        /\ failed.claim = obj.claim
    BY <1>0 DEF Object, Phases
  <2>2. Fits(failed) BY <1>0, <2>1, SameFits
  <2> HIDE DEF failed
  <2> QED BY <1>0, <1>3, <2>2, ReturnKeeps
<1>4. CASE UNCHANGED api /\ Finish(FALSE)
  <2>1. pc' = "idle" /\ ~cur' BY <1>4 DEF Finish
  <2>2. CopiesAgree' /\ RunsAgree' BY <1>0, <1>2, <1>4, <2>1, WritesAgree
  <2>3. HistoryIsTrue' BY <1>0 DEF AInv, HistoryIsTrue
  <2> QED BY <2>1, <2>2, <2>3, IdleOnItsWay DEF AInv
<1>5. CASE AwaitParent(TRUE)
  BY <1>0, <1>2, <1>5, ReturnKeeps DEF AwaitParent
<1>6. CASE Parent[key] = NoPipeline /\ Skip("version")
  <2>1. ASSUME pc' = "version", key' = key, cur' => cur, obj' \in {obj, obj} PROVE OnItsWay'
    BY <1>0, <1>6, <2>1 DEF OnItsWay, Versioned
  <2> QED BY <1>0, <1>2, <1>6, <2>1, WriteKeeps
<1>7. CASE /\ Parent[key] # NoPipeline /\ ParentReady(parent)
           /\ Write(new, "version") \/ Skip("version")
  <2>1. parent.claim # NoPipeline
    <3>1. /\ Honest(parent, Parent[key], runs, runSeen) /\ Described(parent, runs)
          /\ parent.phase = "Complete"
      BY <1>0, <1>1, <1>7 DEF CopiesOK, HonestCopies, AInv, CopiesAgree, ParentReady
    <3> QED BY <3>1 DEF Honest, Described
  <2>2. /\ new \in Object /\ new.ref = obj.ref /\ new.version = obj.version
        /\ new.claim = obj.claim
    <3>1. parent \in Object BY <1>0, <1>1, <1>7
    <3> QED BY <1>0, <3>1 DEF Object
  <2>3. ASSUME pc' = "version", key' = key, cur' => cur, obj' \in {obj, new} PROVE OnItsWay'
    BY <1>0, <2>1, <2>2, <2>3 DEF OnItsWay, Versioned
  <2>4. Fits(new) BY <1>0, <2>2, SameFits
  <2> HIDE DEF new
  <2> QED BY <1>0, <1>7, <2>3, <2>4, WriteKeeps
<1> QED BY <1>3, <1>4, <1>5, <1>6, <1>7 DEF ValidateParent

\* The version is set on a copy that has none.
LEMMA AssignKeeps == ASSUME IInv, AInv, AssignVersion PROVE AInv'
<1> DEFINE new == [obj EXCEPT !.version = generateVersion(key)]
<1>0. /\ CopiesOK /\ obj \in Object /\ key \in Pipeline /\ obj.ref = NoRun /\ pc = "version"
      /\ UNCHANGED <<seen, runs, history>> /\ RestTyped
  BY IInvParts
  DEF CopiesOK, CopiesTyped, Progressed, Bindless, AssignVersion, runVars, platVars
<1>1. generateVersion(key) \in Version /\ generateVersion(key) # NoVersion
  <2>1. today \in 1..MaxDay /\ today # 0 /\ TriggerType[key] \in TriggerTypes
    BY <1>0, ConstantsAssumption DEF RestTyped
  <2>2. generateVersion(key).day = today /\ NoVersion.day = 0
    BY DEF generateVersion, NoVersion
  <2> QED BY <2>1, <2>2 DEF generateVersion, Version
<1>2. /\ new \in Object /\ new.ref = obj.ref /\ new.claim = obj.claim
      /\ new.version = generateVersion(key)
  BY <1>0, <1>1 DEF Object
<1> HIDE DEF new
<1>3. CASE Return(TRUE)
  <2>1. Fits(obj) BY <1>0, SameFits
  <2> QED BY <1>0, <1>3, <2>1, ReturnKeeps
<1>4. CASE obj.version = NoVersion /\ Write(new, "claim")
  <2>1. Fits(new) BY <1>0, <1>2, <1>4 DEF Fits, Described
  <2>2. pc' = "claim" => obj' = new BY <1>4 DEF Write, Continue, Finish
  <2>3. ASSUME pc' = "claim", key' = key, cur' => cur PROVE OnItsWay'
    BY <1>0, <1>1, <1>2, <2>2, <2>3 DEF AInv, OnItsWay, Versioned
  <2> QED BY <1>0, <1>4, <2>1, <2>3, WriteKeeps
<1>5. CASE obj.version # NoVersion /\ Skip("claim")
  <2>1. Fits(obj) BY <1>0, SameFits
  <2>2. ASSUME pc' = "claim", key' = key, cur' => cur, obj' \in {obj, obj} PROVE OnItsWay'
    BY <1>0, <1>5, <2>2 DEF AInv, OnItsWay, Versioned
  <2> QED BY <1>0, <1>5, <2>1, <2>2, WriteKeeps
<1> QED BY <1>3, <1>4, <1>5 DEF AssignVersion, new

\* The PVC's name is the parent's, or the pipeline's own, and never another one.
LEMMA ClaimKeeps == ASSUME IInv, AInv, EnsureClaim PROVE AInv'
<1> DEFINE parent == IF Parent[key] = NoPipeline THEN NoObject ELSE seen[Parent[key]]
           name == workingPVCName(key, parent)
           new == [obj EXCEPT !.claim = name]
<1>0. /\ CopiesOK /\ obj \in Object /\ key \in Pipeline /\ obj.ref = NoRun /\ pc = "claim"
      /\ seen \in [Pipeline -> Object] /\ UNCHANGED <<seen, runs, history>>
      /\ CopiesAgree /\ OnItsWay /\ obj.version # NoVersion
  BY IInvParts
  DEF CopiesOK, CopiesTyped, Progressed, Bindless, EnsureClaim, runVars, platVars, AInv,
      OnItsWay, Versioned
<1>1. Parent[key] # NoPipeline => Parent[key] \in Pipeline BY <1>0, ConstantsAssumption
<1>2. name # NoPipeline /\ Rooted(key, name, api)
  <2>1. CASE Parent[key] = NoPipeline
    <3>1. name = OwnClaim(key) BY <2>1 DEF workingPVCName, OwnClaim
    <3>2. OwnClaim(key) # NoPipeline
      BY <1>0, ConstantsAssumption DEF OwnClaim, UsesBase
    <3> QED BY <2>1, <3>1, <3>2 DEF Rooted
  <2>2. CASE Parent[key] # NoPipeline
    <3>1. parent.claim # NoPipeline /\ OneClaim(parent, api[Parent[key]])
      BY <1>0, <1>1, <2>2 DEF OnItsWay, CopiesAgree
    <3> QED BY <2>2, <3>1 DEF workingPVCName, Rooted, OneClaim
  <2> QED BY <2>1, <2>2
<1>3. name \in Claim
  <2>1. parent \in Object BY <1>0, <1>1, NoObjectTyped
  <2> HIDE DEF parent
  <2> QED BY <1>0, <2>1, ClaimNames
<1>4. obj.claim \in {NoPipeline, name}
  BY <1>0, <1>2 DEF CopiesAgree, OneClaim, Rooted
<1>5. \/ Return(TRUE)
      \/ obj.claim # name /\ Write(new, "volume")
      \/ obj.claim = name /\ Skip("volume")
  BY Zenon DEF EnsureClaim
<1> HIDE DEF name
<1>6. /\ new \in Object /\ new.ref = obj.ref /\ new.claim = name
      /\ new.version = obj.version
  BY <1>0, <1>3 DEF Object
<1> HIDE DEF new
<1>7. CASE Return(TRUE)
  <2>1. Fits(obj) BY <1>0, SameFits
  <2> QED BY <1>0, <1>7, <2>1, ReturnKeeps
<1>8. CASE obj.claim # name /\ Write(new, "volume")
  <2>1. Fits(new) BY <1>0, <1>2, <1>4, <1>6, <1>8 DEF Fits, Described
  <2>2. pc' = "volume" => obj' = new BY <1>8 DEF Write, Continue, Finish
  <2>3. ASSUME pc' = "volume", key' = key, cur' => cur PROVE OnItsWay'
    BY <1>0, <1>2, <1>6, <2>2, <2>3 DEF OnItsWay, Versioned
  <2> QED BY <1>0, <1>8, <2>1, <2>3, WriteKeeps
<1>9. CASE obj.claim = name /\ Skip("volume")
  <2>1. Fits(obj) BY <1>0, SameFits
  <2>2. ASSUME pc' = "volume", key' = key, cur' => cur, obj' \in {obj, obj} PROVE OnItsWay'
    BY <1>0, <1>2, <1>9, <2>2 DEF OnItsWay, Versioned
  <2> QED BY <1>0, <1>9, <2>1, <2>2, WriteKeeps
<1> QED BY <1>5, <1>7, <1>8, <1>9

\* The new run is made for the version and on the PVC of the worker's copy.
LEMMA CreateKeeps == ASSUME IInv, AInv, CreateRun PROVE AInv'
<1> DEFINE parent == IF Parent[key] = NoPipeline THEN NoObject ELSE seen[Parent[key]]
           new == [state |-> "pending", deleted |-> FALSE, owner |-> key,
                   keyless |-> obj.keyless, claim |-> runPVCName(key, obj, parent),
                   version |-> obj.version]
<1>0. /\ CopiesOK /\ CopiesTyped /\ RunsTyped /\ RestTyped /\ RunsOK /\ key \in Pipeline
      /\ obj \in Object /\ obj.ref = NoRun /\ nextRun \in Run
      /\ CopiesAgree /\ RunsAgree /\ OnItsWay /\ HistoryIsTrue
      /\ pc = "create" /\ pc' = "bind" /\ mine' = nextRun
      /\ UNCHANGED <<api, seen, history, key, obj, cur>>
  BY IInvParts, ConstantsAssumption
  DEF CopiesOK, CopiesTyped, RunsTyped, Run, Progressed, Bindless, AInv, CreateRun, platVars
<1>1. /\ obj.claim # NoPipeline /\ obj.claim = api[key].claim /\ obj.version # NoVersion
  BY <1>0 DEF OnItsWay, Versioned, CopiesAgree, OneClaim
<1>2. /\ runs' = [runs EXCEPT ![nextRun] = new]
      /\ new.owner = key /\ new.version = obj.version /\ new.claim = obj.claim
  BY <1>1 DEF CreateRun, runPVCName
<1> HIDE DEF new
<1>3. runs'[nextRun] = new /\ \A r \in Run : r # nextRun => runs'[r] = runs[r]
  BY <1>0, <1>2 DEF RunsTyped
<1>4. runs[nextRun].owner \notin Pipeline
  BY <1>0, ConstantsAssumption DEF RunsOK, NamedRuns, NoRunObject, RunsTyped, Run
<1>5. Stays(runs, runs') BY <1>3, <1>4 DEF Stays
<1>6. CopiesAgree'
  <2>1. ASSUME NEW p \in Pipeline
        PROVE  Described(api[p], runs') /\ Described(seen[p], runs')
    BY <1>0, <1>5, DescribedStays DEF CopiesOK, CopiesTyped, HonestCopies, CopiesAgree
  <2>2. Described(obj, runs') BY <1>0 DEF Described
  <2> QED BY <1>0, <2>1, <2>2 DEF CopiesAgree
<1>7. RunsAgree' BY <1>0, <1>1, <1>2, <1>3 DEF RunsAgree
<1>8. OnItsWay' BY <1>0, <1>1, <1>2, <1>3 DEF OnItsWay, Versioned
<1> QED BY <1>0, <1>5, <1>6, <1>7, <1>8, HistoryStays DEF AInv

\* The copy the run is bound to is the current one, and still of the run's version.
LEMMA BindKeeps == ASSUME IInv, AInv, BindRun PROVE AInv'
<1> DEFINE latest == seen[key]
           bound == [latest EXCEPT !.ref = mine, !.phase = "Pending"]
<1>0. /\ CopiesOK /\ CopiesTyped /\ RunsTyped /\ RestTyped /\ key \in Pipeline
      /\ obj \in Object /\ mine \in Run /\ runs[mine].owner = key
      /\ api \in [Pipeline -> Object] /\ seen \in [Pipeline -> Object]
      /\ CopiesAgree /\ RunsAgree /\ OnItsWay /\ HistoryIsTrue
      /\ pc = "bind" /\ UNCHANGED <<seen, history>>
  BY IInvParts
  DEF CopiesOK, CopiesTyped, Progressed, AInv, BindRun, platVars
<1>1. CASE Return(TRUE) /\ UNCHANGED runs
  <2>1. Fits(obj) BY <1>0, SameFits
  <2> QED BY <1>0, <1>1, <2>1, ReturnKeeps
<1>2. CASE runs' = [runs EXCEPT ![mine].deleted = TRUE] /\ Return(TRUE)
  <2>1. Stays(runs, runs') /\ \A r \in Run : runs'[r].owner = runs[r].owner
    BY <1>0, <1>2, DeletionStays
  <2>2. pc' = "idle" /\ ~cur' /\ api' = api BY <1>2 DEF Return, Finish
  <2>3. CopiesAgree'
    <3>1. ASSUME NEW p \in Pipeline
          PROVE  Described(api[p], runs') /\ Described(seen[p], runs')
      BY <1>0, <2>1, DescribedStays DEF CopiesOK, CopiesTyped, HonestCopies, CopiesAgree
    <3> QED BY <1>0, <2>2, <3>1 DEF CopiesAgree
  <2>4. RunsAgree' BY <1>0, <2>1, <2>2 DEF RunsAgree, Stays
  <2> QED BY <1>0, <2>1, <2>2, <2>3, <2>4, HistoryStays, IdleOnItsWay DEF AInv
<1>3. CASE key \notin lag /\ Store(key, bound) /\ Finish(FALSE) /\ UNCHANGED runs
  <2>1. latest = api[key] /\ latest \in Object BY <1>0, <1>3 DEF CopiesOK, CurrentCopies
  <2>2. /\ bound \in Object /\ bound.ref = mine /\ bound.version = api[key].version
        /\ bound.claim = api[key].claim
    BY <1>0, <2>1 DEF Object, Phases
  <2>3. api' = [api EXCEPT ![key] = bound] /\ pc' = "idle" /\ ~cur'
    BY <1>3 DEF Store, Finish
  <2> HIDE DEF bound, latest
  <2>4. Described(bound, runs)
    <3>1. runs[mine].claim # NoPipeline /\ runs[mine].claim = api[key].claim
      BY <1>0 DEF RunsAgree
    <3>2. runs[mine].version = api[key].version
      BY <1>0 DEF OnItsWay, Versioned, CopiesAgree, OneVersion
    <3> QED BY <2>2, <3>1, <3>2 DEF Described
  <2>5. /\ api'[key] = bound /\ \A p \in Pipeline : p # key => api'[p] = api[p]
        /\ \A p \in Pipeline : api'[p].version = api[p].version /\ api'[p].claim = api[p].claim
    BY <1>0, <2>2, <2>3
  <2>6. CopiesAgree'
    <3>1. ASSUME NEW p \in Pipeline
          PROVE  Described(api'[p], runs)
      BY <1>0, <2>4, <2>5 DEF CopiesAgree
    <3>2. \A p \in Pipeline : Parent[p] # NoPipeline => Parent[p] \in Pipeline
      BY ConstantsAssumption
    <3> QED BY <1>0, <1>3, <2>3, <2>5, <3>1, <3>2 DEF CopiesAgree, OneClaim, OneVersion, Rooted
  <2>7. RunsAgree' BY <1>0, <1>3, <2>5 DEF RunsAgree
  <2>8. HistoryIsTrue' BY <1>0, <1>3 DEF HistoryIsTrue
  <2> QED BY <2>3, <2>6, <2>7, <2>8, IdleOnItsWay DEF AInv
<1> QED BY <1>1, <1>2, <1>3 DEF BindRun

LEMMA StepKeepsAgreement == ASSUME IInv, AInv, Step PROVE AInv'
  BY EarlyCallsKeep, ResetKeeps, TrackKeeps, HistoryKeeps, ValidateKeeps, AssignKeeps,
     ClaimKeeps, CreateKeeps, BindKeeps
  DEF Step

-----------------------------------------------------------------------------
(* Everybody else *)

\* A reconciliation starts from the cached copy.
LEMMA ReconcileKeepsAgreement ==
    ASSUME IInv, AInv, NEW p \in Pipeline, Reconcile(p) PROVE AInv'
<1>0. /\ CopiesOK /\ CopiesAgree /\ RunsAgree /\ OnItsWay /\ HistoryIsTrue
      /\ UNCHANGED <<api, seen, runs, history>>
  BY IInvParts DEF AInv, Reconcile, runVars, platVars
<1>1. CASE UNCHANGED workerVars
  BY <1>0, <1>1 DEF workerVars, AInv, CopiesAgree, RunsAgree, OnItsWay, HistoryIsTrue
<1>2. CASE /\ key' = p /\ obj' = seen[p]
           /\ pc' \in {"cleanup", "finalizer", "config"}
  <2>1. CopiesAgree' /\ RunsAgree' BY <1>0, <1>2 DEF CopiesAgree, RunsAgree
  <2>2. OnItsWay' BY <1>0, <1>2 DEF OnItsWay, Versioned
  <2>3. HistoryIsTrue' BY <1>0 DEF HistoryIsTrue
  <2> QED BY <2>1, <2>2, <2>3 DEF AInv
<1> QED BY <1>1, <1>2 DEF Reconcile

LEMMA AbortKeepsAgreement == ASSUME IInv, AInv, Abort PROVE AInv'
<1>0. pc # "idle" /\ Return(TRUE) /\ UNCHANGED <<seen, runs, history>> /\ obj \in Object
  BY IInvParts DEF Abort, runVars, CopiesOK, CopiesTyped
<1>1. Fits(obj) BY <1>0, SameFits
<1> QED BY <1>0, <1>1, ReturnKeeps

\* Fresh caches are current.
LEMMA RestartKeepsAgreement == ASSUME IInv, AInv, Restart PROVE AInv'
<1>0. /\ CopiesAgree /\ RunsAgree /\ HistoryIsTrue /\ pc' = "idle" /\ ~cur'
      /\ seen' = api /\ UNCHANGED <<api, runs, history>>
  BY DEF AInv, Restart
<1>1. CopiesAgree' BY <1>0 DEF CopiesAgree, OneClaim, OneVersion
<1>2. RunsAgree' /\ HistoryIsTrue' BY <1>0 DEF RunsAgree, HistoryIsTrue
<1> QED BY <1>0, <1>1, <1>2, IdleOnItsWay DEF AInv

\* A refreshed copy is the current one, and no PVC name is lost by it.
LEMMA InformersKeepAgreement == ASSUME IInv, AInv, Informers PROVE AInv'
<1>0. /\ CopiesOK /\ CopiesTyped /\ CopiesAgree /\ RunsAgree /\ OnItsWay /\ HistoryIsTrue
      /\ seen \in [Pipeline -> Object]
  BY IInvParts DEF AInv, CopiesOK, CopiesTyped
<1>1. ASSUME NEW r \in Run, SyncRun(r) PROVE AInv'
  <2>1. UNCHANGED <<api, seen, runs, history, pc, key, obj, cur, mine>>
    BY <1>1 DEF SyncRun, workerVars, platVars
  <2> QED BY <1>0, <2>1 DEF AInv, CopiesAgree, RunsAgree, OnItsWay, HistoryIsTrue
<1>2. ASSUME NEW p \in Pipeline, SyncPipeline(p) PROVE AInv'
  <2>1. UNCHANGED <<api, runs, history, pc, key, obj, cur, mine>>
    BY <1>2 DEF SyncPipeline, workerVars, platVars, runVars
  <2>2. seen'[p] = api[p] /\ \A q \in Pipeline : q # p => seen'[q] = seen[q]
    BY <1>0, <1>2 DEF SyncPipeline
  <2>3. CopiesAgree'
    <3>1. ASSUME NEW q \in Pipeline
          PROVE  /\ OneClaim(seen'[q], api[q]) /\ OneVersion(seen'[q], api[q])
                 /\ Described(seen'[q], runs)
      BY <1>0, <2>2 DEF CopiesAgree, OneClaim, OneVersion
    <3> QED BY <1>0, <2>1, <3>1 DEF CopiesAgree
  <2>4. OnItsWay'
    <3>1. cur => pc # "idle" /\ key \in Pipeline /\ obj = api[key]
      BY <1>0 DEF CopiesOK, CurrentCopies, CopiesTyped
    <3>2. cur /\ obj.ref # NoRun => seen'[key].ref # NoRun
      BY <1>0, <2>2, <3>1 DEF OnItsWay
    <3>3. \A q \in Pipeline : seen[q].claim # NoPipeline => seen'[q].claim # NoPipeline
      BY <1>0, <2>2 DEF CopiesAgree, OneClaim
    <3>4. pc # "idle" /\ Parent[key] # NoPipeline => Parent[key] \in Pipeline
      BY <1>0, ConstantsAssumption DEF CopiesTyped
    <3> QED BY <1>0, <2>1, <3>2, <3>3, <3>4 DEF OnItsWay
  <2> QED BY <1>0, <2>1, <2>3, <2>4 DEF AInv, RunsAgree, HistoryIsTrue
<1> QED BY <1>1, <1>2 DEF Informers

\* The user and the platform controller touch neither run, nor version, nor PVC.
LEMMA UsersKeepAgreement ==
    ASSUME IInv, AInv, NEW p \in Pipeline,
           \/ CreatePipeline(p) \/ AnnotateTrigger(p) \/ GrowStorage(p)
           \/ DeletePipeline(p) \/ PushSigning(p)
    PROVE  AInv'
<1>0. api[p] \in Object /\ UNCHANGED <<runs, history>>
  BY IInvParts
  DEF CopiesOK, CopiesTyped, CreatePipeline, AnnotateTrigger, GrowStorage, DeletePipeline,
      PushSigning, Unmoved, runVars, platVars
<1>1. PICK new \in Object : /\ Change(p, new) /\ new.ref = api[p].ref
                            /\ new.version = api[p].version /\ new.claim = api[p].claim
  <2>1. CASE CreatePipeline(p)
    <3> DEFINE new == [api[p] EXCEPT !.life = "live"]
    <3>1. /\ new \in Object /\ new.ref = api[p].ref
          /\ new.version = api[p].version /\ new.claim = api[p].claim
      BY <1>0 DEF Object
    <3>2. Change(p, new) BY <2>1 DEF CreatePipeline
    <3> QED BY <3>1, <3>2
  <2>2. CASE AnnotateTrigger(p)
    <3> DEFINE new == [api[p] EXCEPT !.trigger = TRUE]
    <3>1. /\ new \in Object /\ new.ref = api[p].ref
          /\ new.version = api[p].version /\ new.claim = api[p].claim
      BY <1>0 DEF Object
    <3>2. Change(p, new) BY <2>2 DEF AnnotateTrigger
    <3> QED BY <3>1, <3>2
  <2>3. CASE GrowStorage(p)
    <3> DEFINE new == [api[p] EXCEPT !.size = @ + 1]
    <3>1. /\ new \in Object /\ new.ref = api[p].ref
          /\ new.version = api[p].version /\ new.claim = api[p].claim
      BY <1>0, <2>3, ConstantsAssumption DEF Object, GrowStorage
    <3>2. Change(p, new) BY <2>3 DEF GrowStorage
    <3> QED BY <3>1, <3>2
  <2>4. CASE DeletePipeline(p)
    <3> DEFINE new == [api[p] EXCEPT !.life = IF api[p].fin THEN "deleting" ELSE "gone"]
    <3>1. /\ new \in Object /\ new.ref = api[p].ref
          /\ new.version = api[p].version /\ new.claim = api[p].claim
      BY <1>0 DEF Object
    <3>2. Change(p, new) BY <2>4 DEF DeletePipeline
    <3> QED BY <3>1, <3>2
  <2>5. CASE PushSigning(p)
    <3> DEFINE new == [api[p] EXCEPT !.keyless = TRUE]
    <3>1. /\ new \in Object /\ new.ref = api[p].ref
          /\ new.version = api[p].version /\ new.claim = api[p].claim
      BY <1>0 DEF Object
    <3>2. Change(p, new) BY <2>5 DEF PushSigning
    <3> QED BY <3>1, <3>2
  <2> QED BY <2>1, <2>2, <2>3, <2>4, <2>5
<1> QED BY <1>0, <1>1, ChangeAgrees

LEMMA EnvironmentKeepsAgreement == ASSUME IInv, AInv, Environment PROVE AInv'
<1>0. RunsTyped BY IInvParts
<1>1. ASSUME NEW p \in Pipeline, CollectGarbage(p) PROVE AInv'
  BY <1>0, <1>1, CollectionStays, RunsMove DEF CollectGarbage, platVars
<1>2. ASSUME NEW r \in Run, StartRun(r) PROVE AInv'
  BY <1>0, <1>2, ProgressStays, RunsMove DEF StartRun, Progress, platVars
<1>3. ASSUME NEW r \in Run, FinishRun(r) PROVE AInv'
  BY <1>0, <1>3, ProgressStays, RunsMove DEF FinishRun, Progress, platVars
<1>4. ASSUME NEW r \in Run, PruneRun(r) PROVE AInv'
  BY <1>0, <1>4, DeletionStays, RunsMove DEF PruneRun
<1>5. ASSUME NextDay \/ \E p \in Pipeline : ImportVersion(Base[p]) PROVE AInv'
  <2>1. UNCHANGED <<api, seen, runs, history, pc, key, obj, cur, mine>>
    BY <1>5 DEF NextDay, ImportVersion, workerVars, runVars
  <2> QED BY <2>1 DEF AInv, CopiesAgree, RunsAgree, OnItsWay, HistoryIsTrue
<1> QED BY <1>1, <1>2, <1>3, <1>4, <1>5, UsersKeepAgreement DEF Environment

-----------------------------------------------------------------------------
(* The theorems *)

LEMMA InitAgreement == Init => AInv
<1> SUFFICES ASSUME Init PROVE AInv OBVIOUS
<1>1. \A p \in Pipeline : api[p] = NoObject /\ seen[p] = NoObject BY DEF Init
<1>2. CopiesAgree
  BY <1>1 DEF Init, CopiesAgree, OneClaim, OneVersion, Described, NoObject
<1>3. RunsAgree BY ConstantsAssumption DEF Init, RunsAgree, NoRunObject
<1>4. OnItsWay BY DEF Init, OnItsWay, Versioned
<1> QED BY <1>2, <1>3, <1>4 DEF AInv, HistoryIsTrue, Init

LEMMA NextKeepsAgreement == IInv /\ AInv /\ [Next]_vars => AInv'
<1> SUFFICES ASSUME IInv, AInv, [Next]_vars PROVE AInv' OBVIOUS
<1>1. CASE UNCHANGED vars
  <2>1. UNCHANGED <<api, seen, runs, history, pc, key, obj, cur, mine>>
    BY <1>1 DEF vars, workerVars, runVars, platVars
  <2> QED BY <2>1 DEF AInv, CopiesAgree, RunsAgree, OnItsWay, HistoryIsTrue
<1> QED BY <1>1, StepKeepsAgreement, ReconcileKeepsAgreement, AbortKeepsAgreement,
           RestartKeepsAgreement, InformersKeepAgreement, EnvironmentKeepsAgreement
        DEF Next

\* The copies, the runs and the running reconciliation agree in every reachable state:
\* the inductive invariant the theorems below rest on.
THEOREM Agreement == Spec => [](IInv /\ AInv)
  BY InitInv, NextKeepsInv, InitAgreement, NextKeepsAgreement, PTL DEF Spec

\* status.version and status.workingPvcName describe the run that BindRun bound, though
\* the run was created from one copy of the pipeline and bound to another one.
THEOREM RunsDescribed == Spec => []BoundRunAgrees
<1>1. IInv /\ AInv => BoundRunAgrees
  <2> SUFFICES ASSUME IInv, AInv, NEW p \in Pipeline, api[p].ref # NoRun
               PROVE  /\ runs[api[p].ref].owner = p
                      /\ runs[api[p].ref].version = api[p].version
                      /\ runs[api[p].ref].claim = api[p].claim
    BY DEF BoundRunAgrees
  <2>1. /\ api[p] \in Object /\ Honest(api[p], p, runs, runSeen) /\ Described(api[p], runs)
        /\ RunsAgree
    BY IInvParts DEF CopiesOK, CopiesTyped, HonestCopies, AInv, CopiesAgree
  <2>2. api[p].ref \in Run BY <2>1 DEF Object
  <2> QED BY <2>1, <2>2 DEF Honest, Described, RunsAgree
<1> QED BY <1>1, Agreement, PTL

\* ensurePVC gives a child the PVC its parent works on, and neither is ever renamed:
\* down a chain of any length the runs share one PVC.
THEOREM VolumeShared == Spec => []SharedVolume
<1>1. IInv /\ AInv => SharedVolume
  <2> SUFFICES ASSUME IInv, AInv, NEW r \in Run, NEW s \in Run, NEW p \in Pipeline,
                      runs[r].owner = p, Parent[p] # NoPipeline, runs[s].owner = Parent[p]
               PROVE  runs[r].claim = runs[s].claim
    BY DEF SharedVolume
  <2>1. Parent[p] \in Pipeline BY ConstantsAssumption
  <2>2. /\ runs[r].claim = api[p].claim /\ api[p].claim # NoPipeline
        /\ runs[s].claim = api[Parent[p]].claim
    BY <2>1 DEF AInv, RunsAgree
  <2>3. Rooted(p, api[p].claim, api) BY <2>2 DEF AInv, CopiesAgree
  <2> QED BY <2>2, <2>3 DEF Rooted
<1> QED BY <1>1, Agreement, PTL

\* updatePlatformCollectionHistory reports only versions that a run of the pipeline has
\* collected, for a copy that is Complete describes a run that succeeded.
THEOREM HistoryHolds == Spec => []HistoryIsTrue
<1>1. AInv => HistoryIsTrue BY DEF AInv
<1> QED BY <1>1, Agreement, PTL

=============================================================================
