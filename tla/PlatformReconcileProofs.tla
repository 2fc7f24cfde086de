----------------------- MODULE PlatformReconcileProofs -----------------------
(***************************************************************************)
(* Theorems about the DisconnectedPlatform controller's Reconcile, for     *)
(* every list of stages, every set of failures and every number of         *)
(* changes: type correctness, and that nothing is deployed for a platform  *)
(* without the finalizer.                                                  *)
(*                                                                         *)
(* The argument: only cleanup takes the finalizer away, and only by a      *)
(* write that the API server accepts, so that the cache shows the platform *)
(* as being deleted at that moment.  A cached platform that is live and    *)
(* has the finalizer is therefore stale by nothing that matters (StaleFin),*)
(* and nobody but the worker, busy with its stages, could remove it.       *)
(***************************************************************************)
EXTENDS PlatformReconcile, TLAPS

\* The stages of a reconciliation that may deploy.
Deploying == FatalStage \cup {"signing", "soft", "packages", "acm", "status"}

ClusterTyped ==
    /\ mode \in Modes
    /\ fault \subseteq Stage /\ noCRD \subseteq SoftStage
    /\ csv \in [Operator -> {"Installing", "Succeeded"}]
    /\ health \in {"absent", "none", "True", "False"} /\ hub \in BOOLEAN
    /\ deployed \subseteq SoftStage \cup {"architect", "keycloak", "securesign", "acm"}

Known(o) == o \in Platform /\ o.gen <= used

CopiesInv ==
    /\ Known(api) /\ Known(seen) /\ Known(obj) /\ Known(orig)
    /\ lag \in BOOLEAN /\ cur \in BOOLEAN /\ used \in 0..MaxChanges
    /\ ~lag => seen = api
    /\ cur => ~lag

StaleFin == seen.life = "live" /\ seen.fin => api.fin

WorkerInv ==
    /\ pc \in Deploying \cup {"idle", "finalizer", "cleanup"}
    /\ next \in Nat \ {0} /\ requeue \in BOOLEAN /\ queue \in BOOLEAN /\ timer \in BOOLEAN
    /\ pc = "cleanup" => obj.life = "deleting" /\ (cur => obj = api)
    /\ pc \in Deploying => obj.fin /\ api.fin

\* The inductive invariant.
IInv == ClusterTyped /\ CopiesInv /\ StaleFin /\ WorkerInv

-----------------------------------------------------------------------------
(* The functions on the in-memory copy *)

\* n differs from o in the status only.
Restated(n, o) == n \in Platform /\ n.gen = o.gen /\ n.fin = o.fin /\ n.life = o.life

Ready == [status : {"none", "True", "False"}, reason : Reasons, gen : 0..MaxChanges, at : 0..1]
Degraded == [status : {"none", "True", "False"}, reason : {"none", "HealthCheckFailed"}, at : 0..1]

\* Replacing one part of the status restates the platform.
LEMMA StatusParts ==
    ASSUME NEW o \in Platform
    PROVE  /\ o.ready \in Ready /\ o.degraded \in Degraded /\ o.gen \in 0..MaxChanges
           /\ o.comps \subseteq Component /\ o.stamp \in 0..1 /\ Restated(o, o)
  BY DEF Platform, Restated, Ready, Degraded

LEMMA ReadySet ==
    ASSUME NEW o \in Platform, NEW r \in Ready
    PROVE  Restated([o EXCEPT !.ready = r], o)
  BY DEF Platform, Restated, Ready

LEMMA DegradedSet ==
    ASSUME NEW o \in Platform, NEW d \in Degraded
    PROVE  Restated([o EXCEPT !.degraded = d], o)
  BY DEF Platform, Restated, Degraded

LEMMA PhaseSet ==
    ASSUME NEW o \in Platform, NEW p \in {"", "Ready", "Error", "Degraded"}
    PROVE  Restated([o EXCEPT !.phase = p], o)
  BY DEF Platform, Restated

LEMMA ComponentsSet ==
    ASSUME NEW o \in Platform, NEW c \in SUBSET Component
    PROVE  Restated([o EXCEPT !.comps = c], o)
  BY DEF Platform, Restated

LEMMA StampSet ==
    ASSUME NEW o \in Platform, NEW t \in 0..1
    PROVE  Restated([o EXCEPT !.stamp = t], o)
  BY DEF Platform, Restated

LEMMA RestatedTrans ==
    ASSUME NEW a, NEW b, NEW c, Restated(a, b), Restated(b, c)
    PROVE  Restated(a, c)
  BY DEF Restated

LEMMA ErrorRestates ==
    ASSUME NEW o \in Platform, NEW reason \in Reasons
    PROVE  Restated(setErrorCondition(o, reason), o)
<1> DEFINE r == [status |-> "False", reason |-> reason, gen |-> o.gen,
                 at |-> IF o.ready.status = "False" THEN o.ready.at ELSE 1 - o.ready.at]
<1>1. o.ready \in Ready /\ o.gen \in 0..MaxChanges BY StatusParts
<1>2. r \in Ready BY <1>1 DEF Ready
<1>3. setErrorCondition(o, reason) \in {o, [o EXCEPT !.ready = r]} BY DEF setErrorCondition
<1> HIDE DEF r
<1> QED BY <1>2, <1>3, StatusParts, ReadySet

LEMMA ReadyRestates ==
    ASSUME NEW o \in Platform
    PROVE  Restated(setReadyCondition(o), o)
<1> DEFINE r == [status |-> "True", reason |-> "ReconciliationSucceeded", gen |-> o.gen,
                 at |-> IF o.ready.status = "True" THEN o.ready.at ELSE 1 - o.ready.at]
<1>1. o.ready \in Ready /\ o.gen \in 0..MaxChanges BY StatusParts
<1>2. r \in Ready BY <1>1 DEF Ready, Reasons
<1>3. setReadyCondition(o) = [o EXCEPT !.ready = r] BY DEF setReadyCondition
<1> HIDE DEF r
<1> QED BY <1>2, <1>3, StatusParts, ReadySet

LEMMA UnhealthyRestates ==
    ASSUME NEW o \in Platform
    PROVE  Restated(updateDegradedCondition(o), o)
<1> DEFINE d == IF o.degraded.status = "True" THEN o.degraded
                ELSE [status |-> "True", reason |-> "HealthCheckFailed", at |-> 1 - o.degraded.at]
           m == [o EXCEPT !.degraded = d]
           p == IF o.phase = "Error" THEN o.phase ELSE "Degraded"
<1>1. o.degraded \in Degraded BY StatusParts
<1>2. d \in Degraded BY <1>1 DEF Degraded
<1>3. p \in {"", "Ready", "Error", "Degraded"} OBVIOUS
<1>4. updateDegradedCondition(o) = [m EXCEPT !.phase = p]
  BY DEF updateDegradedCondition, Platform
<1> HIDE DEF d, p
<1>5. Restated(m, o) BY <1>2, DegradedSet
<1> HIDE DEF m
<1>6. m \in Platform BY <1>5 DEF Restated
<1>7. Restated([m EXCEPT !.phase = p], m) BY <1>3, <1>6, PhaseSet
<1> QED BY <1>4, <1>5, <1>7, RestatedTrans

LEMMA ClearedRestates ==
    ASSUME NEW o \in Platform, NEW reason
    PROVE  Restated(clearDegradedCondition(o, reason), o)
<1> DEFINE d == [o.degraded EXCEPT !.status = "False", !.at = 1 - o.degraded.at]
           cleared == IF o.degraded.reason = reason /\ o.degraded.status = "True"
                      THEN [o EXCEPT !.degraded.status = "False", !.degraded.at = 1 - @]
                      ELSE o
<1>1. o.degraded \in Degraded BY StatusParts
<1>2. d \in Degraded
  <2>1. o.degraded.at \in 0..1 BY <1>1 DEF Degraded
  <2>2. 1 - o.degraded.at \in 0..1 BY <2>1
  <2> QED BY <1>1, <2>2 DEF Degraded
<1>3. [o EXCEPT !.degraded.status = "False", !.degraded.at = 1 - @] = [o EXCEPT !.degraded = d]
  BY <1>1 DEF Platform, Degraded
<1> HIDE DEF d
<1>4. Restated(cleared, o) BY <1>2, <1>3, StatusParts, DegradedSet
<1>5. clearDegradedCondition(o, reason) \in {cleared, [cleared EXCEPT !.phase = "Ready"]}
  BY DEF clearDegradedCondition
<1> HIDE DEF cleared
<1>6. Restated([cleared EXCEPT !.phase = "Ready"], cleared)
  BY <1>4, PhaseSet DEF Restated
<1> QED BY <1>4, <1>5, <1>6, RestatedTrans

LEMMA HealthRestates ==
    ASSUME NEW o \in Platform
    PROVE  Restated(updateStatusFromSecuresignHealth(o), o)
<1> DEFINE inline == clearDegradedCondition(o, "RHTASHealthCheckFailed")
           once == clearDegradedCondition(inline, "HealthCheckFailed")
           twice == clearDegradedCondition(once, "AllHealthChecksPassed")
<1>0. updateStatusFromSecuresignHealth(o) \in {inline, updateDegradedCondition(inline), twice}
  BY DEF updateStatusFromSecuresignHealth
<1>1. Restated(inline, o) BY ClearedRestates
<1> HIDE DEF inline
<1>2. inline \in Platform BY <1>1 DEF Restated
<1>3. Restated(once, inline) BY <1>2, ClearedRestates
<1>4. Restated(updateDegradedCondition(inline), inline) BY <1>2, UnhealthyRestates
<1> HIDE DEF once
<1>5. once \in Platform BY <1>3 DEF Restated
<1>6. Restated(twice, once) BY <1>5, ClearedRestates
<1> HIDE DEF twice
<1> QED BY <1>0, <1>1, <1>3, <1>4, <1>6, RestatedTrans

LEMMA WithRestates ==
    ASSUME NEW o \in Platform, NEW status \in {"Running", "Installing", "Succeeded", "Error"},
           NEW name \in SoftStage \cup Operator \cup {"keycloak", "securesign", "packages", "acm"}
    PROVE  Restated(With(o, name, status), o)
<1> DEFINE c == o.comps \cup {[name |-> name, status |-> status]}
<1>1. [name |-> name, status |-> status] \in Component BY DEF Component
<1>2. c \in SUBSET Component BY <1>1, StatusParts
<1>3. With(o, name, status) = [o EXCEPT !.comps = c] BY DEF With
<1> HIDE DEF c
<1> QED BY <1>2, <1>3, ComponentsSet

LEMMA FailedRestates ==
    ASSUME NEW o \in Platform
    PROVE  /\ Restated(Failed(o), o) /\ Restated(ResetStatus(o), o)
           /\ \A reason \in Reasons : Restated(setErrorCondition(Failed(o), reason), o)
<1>1. Restated(Failed(o), o) BY PhaseSet DEF Failed
<1>2. Failed(o) \in Platform BY <1>1 DEF Restated
<1>3. \A reason \in Reasons : Restated(setErrorCondition(Failed(o), reason), o)
  BY <1>1, <1>2, ErrorRestates, RestatedTrans
<1>4. Restated(ResetStatus(o), o)
  BY DEF ResetStatus, Platform, Restated
<1> QED BY <1>1, <1>3, <1>4

LEMMA AggregateRestates ==
    ASSUME NEW o \in Platform, NEW n \in Aggregate(o)
    PROVE  Restated(n, o)
<1>1. o.stamp \in 0..1 BY StatusParts
<1>2. 1 - o.stamp \in 0..1 BY <1>1
<1>3. n \in {o, [o EXCEPT !.stamp = 1 - o.stamp]} BY DEF Aggregate
<1> QED BY <1>2, <1>3, StatusParts, StampSet

-----------------------------------------------------------------------------
(* The worker's steps *)

\* The end of a pass: what is stored keeps the finalizer, unless the cache shows a
\* platform that is being deleted.
LEMMA ReturnKeeps ==
    ASSUME CopiesInv, StaleFin, WorkerInv, Idle, queue' \in BOOLEAN, timer' \in BOOLEAN,
           UNCHANGED <<seen, used>>, NEW new, Known(new), seen.life = "live" /\ cur => new.fin,
           \/ cur /\ Store(new)
           \/ UNCHANGED <<api, lag>>
    PROVE  CopiesInv' /\ StaleFin' /\ WorkerInv'
<1>0. NoPlatform \in Platform /\ NoPlatform.gen = 0
  BY PlatformConstants DEF NoPlatform, Platform, Reasons
<1>1. /\ pc' = "idle" /\ next' = 1 /\ obj' = NoPlatform /\ orig' = NoPlatform
      /\ cur' = FALSE /\ requeue' = FALSE
  BY DEF Idle
<1>2. WorkerInv'
  <2>1. pc' = "idle" /\ pc' \notin Deploying /\ pc' # "cleanup"
    BY <1>1 DEF Deploying, FatalStage
  <2>2. next' \in Nat \ {0} BY <1>1
  <2>3. requeue' \in BOOLEAN BY <1>1, Zenon
  <2> QED BY <2>1, <2>2, <2>3 DEF WorkerInv
<1>3. Known(NoPlatform)'
  <2>1. used' \in Nat BY DEF CopiesInv
  <2>2. NoPlatform.gen <= used' BY <1>0, <2>1
  <2> QED BY <1>0, <2>2 DEF Known
<1>4. CASE UNCHANGED <<api, lag>>
  BY <1>1, <1>2, <1>3, <1>4 DEF CopiesInv, StaleFin, Known
<1>5. CASE cur /\ Store(new)
  <2>1. api' = new /\ lag' \in BOOLEAN /\ (~lag' => ~lag /\ new = api)
    BY <1>5 DEF Store
  <2>2. CopiesInv' BY <1>1, <1>3, <2>1 DEF CopiesInv, Known
  <2>3. StaleFin' BY <1>5, <2>1 DEF StaleFin
  <2> QED BY <1>2, <2>2, <2>3
<1> QED BY <1>4, <1>5

LEMMA UpdateKeeps ==
    ASSUME CopiesInv, StaleFin, WorkerInv, NEW new, Known(new), seen.life = "live" /\ cur => new.fin,
           NEW after \in BOOLEAN, UpdateAndReturn(new, after), UNCHANGED <<seen, used>>
    PROVE  CopiesInv' /\ StaleFin' /\ WorkerInv'
<1>1. Idle /\ queue' \in BOOLEAN /\ timer' \in BOOLEAN
  BY DEF UpdateAndReturn, Return
<1>2. (cur /\ Store(new)) \/ UNCHANGED <<api, lag>>
  BY DEF UpdateAndReturn
<1> QED BY <1>1, <1>2, ReturnKeeps

\* The middle of a pass: from one deploying stage to another.
LEMMA StageKeeps ==
    ASSUME CopiesInv, StaleFin, WorkerInv, pc \in Deploying, pc' \in Deploying, Restated(obj', obj),
           next' \in Nat \ {0}, requeue' \in BOOLEAN,
           UNCHANGED <<api, seen, lag, queue, timer, orig, cur, used>>
    PROVE  CopiesInv' /\ StaleFin' /\ WorkerInv'
<1>1. Known(obj)' BY DEF Restated, CopiesInv, Known
<1>2. CopiesInv' BY <1>1 DEF CopiesInv, Known
<1>3. StaleFin' BY DEF StaleFin
<1>4. WorkerInv' BY DEF WorkerInv, Restated, Deploying, FatalStage
<1> QED BY <1>2, <1>3, <1>4

LEMMA GoToKeeps ==
    ASSUME CopiesInv, StaleFin, WorkerInv, pc \in Deploying, NEW stage \in Deploying, GoTo(stage),
           Restated(obj', obj), UNCHANGED <<seen, used>>
    PROVE  CopiesInv' /\ StaleFin' /\ WorkerInv'
<1>1. next' \in Nat \ {0} /\ requeue' \in BOOLEAN BY DEF GoTo, WorkerInv
<1> QED BY <1>1, StageKeeps DEF GoTo

\* A failed stage stores its error with the finalizer in place.
LEMMA RestatedFits ==
    ASSUME CopiesInv, WorkerInv, pc \in Deploying, NEW new, Restated(new, obj)
    PROVE  Known(new) /\ new.fin
  BY DEF CopiesInv, WorkerInv, Known, Restated

\* What a step may do to the deployed resources.
Careful == deployed' \subseteq deployed \/ api.fin

LEMMA StepKeeps == ASSUME IInv, Step PROVE IInv' /\ Careful
<1>0. /\ ClusterTyped /\ CopiesInv /\ StaleFin /\ WorkerInv /\ obj \in Platform
      /\ Restated(obj, obj)
  BY StatusParts DEF IInv, CopiesInv, Known
<1>c. ASSUME UNCHANGED cluster PROVE ClusterTyped' /\ Careful
  BY <1>0, <1>c DEF ClusterTyped, cluster, Careful
<1>d. ASSUME pc \in Deploying PROVE api.fin
  BY <1>0, <1>d DEF WorkerInv
<1>1. CASE AddFinalizer
  <2> DEFINE new == [obj EXCEPT !.fin = TRUE]
  <2>1. new \in Platform /\ new.gen = obj.gen /\ new.fin BY <1>0 DEF Platform
  <2>2. Known(new) BY <1>0, <2>1 DEF CopiesInv, Known
  <2> QED BY <1>0, <1>1, <1>c, <2>1, <2>2, UpdateKeeps DEF AddFinalizer, IInv
<1>2. CASE reconcileSubscriptions
  <2>0. pc \in Deploying BY <1>2 DEF reconcileSubscriptions, Deploying, FatalStage
  <2>1. CASE UpdateAndReturn(Failed(With(obj, "rhbk-operator", "Error")), FALSE)
    <3>1. Restated(With(obj, "rhbk-operator", "Error"), obj)
      BY <1>0, WithRestates DEF Operator
    <3>2. Restated(Failed(With(obj, "rhbk-operator", "Error")), obj)
      BY <3>1, FailedRestates, RestatedTrans DEF Restated
    <3>3. Known(Failed(With(obj, "rhbk-operator", "Error")))
          /\ Failed(With(obj, "rhbk-operator", "Error")).fin
      BY <1>0, <2>0, <3>2, RestatedFits
    <3> QED BY <1>0, <1>2, <1>c, <2>1, <3>3, UpdateKeeps DEF reconcileSubscriptions, IInv
  <2>2. CASE /\ obj' = [obj EXCEPT !.comps = {[name |-> op, status |-> csv[op]] : op \in Operator}]
             /\ GoTo("architect")
    <3> DEFINE c == {[name |-> op, status |-> csv[op]] : op \in Operator}
    <3>1. c \in SUBSET Component BY <1>0 DEF ClusterTyped, Component
    <3>2. obj' = [obj EXCEPT !.comps = c] BY <2>2
    <3> HIDE DEF c
    <3>3. Restated(obj', obj) BY <1>0, <3>1, <3>2, ComponentsSet
    <3> QED BY <1>0, <1>2, <1>c, <2>0, <2>2, <3>3, GoToKeeps
            DEF reconcileSubscriptions, IInv, Deploying, FatalStage
  <2> QED BY <1>2, <2>1, <2>2 DEF reconcileSubscriptions
<1>3. CASE reconcileArchitect
  <2>0. /\ pc \in Deploying /\ UNCHANGED <<seen, used>>
        /\ deployed' \in {deployed, deployed \cup {"architect"}}
        /\ UNCHANGED <<mode, fault, noCRD, csv, health, hub>>
    BY <1>3 DEF reconcileArchitect, Deploying, FatalStage
  <2>1. ClusterTyped' /\ Careful BY <1>0, <1>d, <2>0 DEF ClusterTyped, Careful
  <2>2. CASE UpdateAndReturn(setErrorCondition(Failed(obj), "ArchitectReconcileFailed"), FALSE)
    <3> DEFINE new == setErrorCondition(Failed(obj), "ArchitectReconcileFailed")
    <3>1. Restated(new, obj) BY <1>0, FailedRestates DEF Reasons
    <3> HIDE DEF new
    <3>2. Known(new) /\ new.fin BY <1>0, <2>0, <3>1, RestatedFits
    <3> QED BY <1>0, <2>0, <2>1, <2>2, <3>2, UpdateKeeps DEF IInv, new
  <2>3. CASE GoTo("keycloak") /\ UNCHANGED obj
    <3>1. Restated(obj', obj) BY <1>0, <2>3
    <3> QED BY <1>0, <2>0, <2>1, <2>3, <3>1, GoToKeeps DEF IInv, Deploying, FatalStage
  <2> QED BY <1>3, <2>2, <2>3 DEF reconcileArchitect
<1>4. CASE reconcileManagedKeycloak
  <2>0. /\ pc \in Deploying /\ UNCHANGED <<seen, used>>
        /\ deployed' \in {deployed, deployed \cup {"keycloak"}}
        /\ UNCHANGED <<mode, fault, noCRD, csv, health, hub>>
    BY <1>4 DEF reconcileManagedKeycloak, Deploying, FatalStage
  <2>1. ClusterTyped' /\ Careful BY <1>0, <1>d, <2>0 DEF ClusterTyped, Careful
  <2>2. CASE UpdateAndReturn(setErrorCondition(Failed(obj), "ManagedKeycloakFailed"), TRUE)
    <3> DEFINE new == setErrorCondition(Failed(obj), "ManagedKeycloakFailed")
    <3>1. Restated(new, obj) BY <1>0, FailedRestates DEF Reasons
    <3> HIDE DEF new
    <3>2. Known(new) /\ new.fin BY <1>0, <2>0, <3>1, RestatedFits
    <3> QED BY <1>0, <2>0, <2>1, <2>2, <3>2, UpdateKeeps DEF IInv, new
  <2>3. CASE GoTo("signing") /\ UNCHANGED obj
    <3>1. Restated(obj', obj) BY <1>0, <2>3
    <3> QED BY <1>0, <2>0, <2>1, <2>3, <3>1, GoToKeeps DEF IInv, Deploying
  <2>4. CASE obj' = With(obj, "keycloak", "Running") /\ GoTo("keycloakHealth")
    <3>1. Restated(obj', obj) BY <1>0, <2>4, WithRestates
    <3> QED BY <1>0, <2>0, <2>1, <2>4, <3>1, GoToKeeps DEF IInv, Deploying, FatalStage
  <2> QED BY <1>4, <2>2, <2>3, <2>4 DEF reconcileManagedKeycloak
<1>5. CASE checkKeycloakHealth
  <2>0. pc \in Deploying /\ UNCHANGED <<seen, used>> /\ ClusterTyped' /\ Careful
    BY <1>5, <1>c DEF checkKeycloakHealth, Deploying, FatalStage
  <2>2. CASE UpdateAndReturn(setErrorCondition(Failed(obj), "KeycloakNotHealthy"), TRUE)
    <3> DEFINE new == setErrorCondition(Failed(obj), "KeycloakNotHealthy")
    <3>1. Restated(new, obj) BY <1>0, FailedRestates DEF Reasons
    <3> HIDE DEF new
    <3>2. Known(new) /\ new.fin BY <1>0, <2>0, <3>1, RestatedFits
    <3> QED BY <1>0, <2>0, <2>2, <3>2, UpdateKeeps DEF IInv, new
  <2>3. CASE GoTo("signing") /\ UNCHANGED obj
    <3>1. Restated(obj', obj) BY <1>0, <2>3
    <3> QED BY <1>0, <2>0, <2>3, <3>1, GoToKeeps DEF IInv, Deploying
  <2> QED BY <1>5, <2>2, <2>3 DEF checkKeycloakHealth
<1>6. CASE reconcileRHTASConfig
  <2>0. /\ pc \in Deploying /\ UNCHANGED <<seen, used>>
        /\ deployed' \in {deployed, deployed \cup {"securesign"}}
        /\ health' \in {health, "none"}
        /\ UNCHANGED <<mode, fault, noCRD, csv, hub>>
    BY <1>6 DEF reconcileRHTASConfig, Deploying, FatalStage
  <2>1. ClusterTyped' /\ Careful BY <1>0, <1>d, <2>0 DEF ClusterTyped, Careful
  <2>2. Restated(obj', obj)
    <3> DEFINE w == With(obj, "securesign", "Running")
    <3>1. Restated(w, obj) BY <1>0, WithRestates
    <3> HIDE DEF w
    <3>2. Restated(updateStatusFromSecuresignHealth(w), obj)
      BY <3>1, HealthRestates, RestatedTrans DEF Restated
    <3>3. Restated(updateStatusFromSecuresignHealth(obj), obj) BY <1>0, HealthRestates
    <3>4. obj' \in {obj, updateStatusFromSecuresignHealth(obj), updateStatusFromSecuresignHealth(w)}
      BY <1>6 DEF reconcileRHTASConfig, w
    <3> QED BY <1>0, <3>2, <3>3, <3>4
  <2>3. GoTo("soft") \/ GoTo("packages") BY <1>6 DEF reconcileRHTASConfig
  <2> QED BY <1>0, <2>0, <2>1, <2>2, <2>3, GoToKeeps DEF IInv, Deploying
<1>7. CASE SoftStep
  <2>0. /\ pc = "soft" /\ pc \in Deploying
        /\ UNCHANGED <<api, seen, lag, queue, timer, orig, cur, used, mode, fault, noCRD, csv,
                       health, hub>>
    BY <1>7 DEF SoftStep, Deploying
  <2>1. CASE pc' = "status" /\ UNCHANGED <<next, requeue, obj, deployed>>
    <3>1. Restated(obj', obj) /\ pc' \in Deploying BY <1>0, <2>1 DEF Deploying
    <3>2. next' \in Nat \ {0} /\ requeue' \in BOOLEAN BY <1>0, <2>1 DEF WorkerInv
    <3>3. CopiesInv' /\ StaleFin' /\ WorkerInv' BY <1>0, <2>0, <3>1, <3>2, StageKeeps
    <3>4. ClusterTyped' /\ Careful BY <1>0, <2>0, <2>1 DEF ClusterTyped, Careful
    <3> QED BY <3>3, <3>4 DEF IInv
  <2>2. CASE next <= Len(Soft) /\ next' = next + 1 /\ UNCHANGED pc
    <3> DEFINE s == Soft[next]
    <3>1. s \in SoftStage
      <4>1. next \in Nat \ {0} BY <1>0 DEF WorkerInv
      <4>2. Soft \in Seq(STRING) /\ Soft \in {Connected, Airgapped} BY PlatformConstants DEF Soft
      <4>3. next \in DOMAIN Soft BY <2>2, <4>1, <4>2
      <4> QED BY <4>2, <4>3 DEF SoftStage
    <3>2. /\ requeue' \in BOOLEAN /\ deployed' \in {deployed, deployed \cup {s}}
          /\ obj' \in {obj, With(obj, s, "Running")}
      BY <1>7, <2>2 DEF SoftStep
    <3> HIDE DEF s
    <3>3. Restated(obj', obj) BY <1>0, <3>1, <3>2, WithRestates
    <3>4. next' \in Nat \ {0} BY <1>0, <2>2 DEF WorkerInv
    <3>5. CopiesInv' /\ StaleFin' /\ WorkerInv'
      BY <1>0, <2>0, <2>2, <3>2, <3>3, <3>4, StageKeeps
    <3>6. ClusterTyped' /\ Careful
      BY <1>0, <1>d, <2>0, <3>1, <3>2 DEF ClusterTyped, Careful
    <3> QED BY <3>5, <3>6 DEF IInv
  <2> QED BY <1>7, <2>1, <2>2 DEF SoftStep
<1>8. CASE reconcileAirgappedSubscriptions
  <2>1. /\ pc \in Deploying /\ pc' \in Deploying /\ requeue' \in BOOLEAN
        /\ obj' \in {obj, With(obj, "packages", "Succeeded")}
        /\ UNCHANGED <<api, seen, lag, queue, timer, next, orig, cur, cluster, used>>
    BY <1>8 DEF reconcileAirgappedSubscriptions, Deploying
  <2>2. Restated(obj', obj) BY <1>0, <2>1, WithRestates
  <2>3. next' \in Nat \ {0} BY <1>0, <2>1 DEF WorkerInv
  <2>4. CopiesInv' /\ StaleFin' /\ WorkerInv' BY <1>0, <2>1, <2>2, <2>3, StageKeeps
  <2> QED BY <1>c, <2>1, <2>4 DEF IInv
<1>9. CASE reconcileAirgappedACM
  <2>1. /\ pc \in Deploying /\ pc' \in Deploying /\ requeue' \in BOOLEAN
        /\ obj' \in {obj, With(obj, "acm", "Running"), With(obj, "acm", "Installing")}
        /\ deployed' \in {deployed, deployed \cup {"acm"}}
        /\ UNCHANGED <<api, seen, lag, queue, timer, next, orig, cur, used, mode, fault, noCRD,
                       csv, health, hub>>
    BY <1>9 DEF reconcileAirgappedACM, Deploying
  <2>2. Restated(obj', obj) BY <1>0, <2>1, WithRestates
  <2>3. next' \in Nat \ {0} BY <1>0, <2>1 DEF WorkerInv
  <2>4. CopiesInv' /\ StaleFin' /\ WorkerInv' BY <1>0, <2>1, <2>2, <2>3, StageKeeps
  <2>5. ClusterTyped' /\ Careful BY <1>0, <1>d, <2>1 DEF ClusterTyped, Careful
  <2> QED BY <2>4, <2>5 DEF IInv
<1>10. CASE UpdateStatus
  <2>0. pc \in Deploying /\ UNCHANGED <<seen, used>> /\ ClusterTyped' /\ Careful
    BY <1>10, <1>c DEF UpdateStatus, Deploying
  <2>1. PICK new \in Aggregate(setReadyCondition(obj)) :
          \/ Return(FALSE, FALSE) /\ UNCHANGED <<api, lag>>
          \/ cur /\ Store(new) /\ Return(FALSE, requeue)
          \/ Return(FALSE, requeue) /\ UNCHANGED <<api, lag>>
    BY <1>10 DEF UpdateStatus
  <2>2. Restated(new, obj)
    BY <1>0, ReadyRestates, AggregateRestates, RestatedTrans DEF Restated
  <2>3. Known(new) /\ new.fin BY <1>0, <2>0, <2>2, RestatedFits
  <2>4. Idle /\ queue' \in BOOLEAN /\ timer' \in BOOLEAN BY <2>1 DEF Return
  <2> QED BY <1>0, <2>0, <2>1, <2>3, <2>4, ReturnKeeps DEF IInv
<1>11. CASE Cleanup
  <2> DEFINE new == [obj EXCEPT !.fin = FALSE, !.life = "gone"]
  <2>1. Known(new)
    <3>1. new \in Platform /\ new.gen = obj.gen BY <1>0 DEF Platform
    <3> QED BY <1>0, <3>1 DEF CopiesInv, Known
  <2>2. ~(seen.life = "live" /\ cur)
    BY <1>0, <1>11 DEF Cleanup, WorkerInv, CopiesInv
  <2>3. ClusterTyped' /\ Careful BY <1>0, <1>11 DEF Cleanup, ClusterTyped, Careful
  <2> QED BY <1>0, <1>11, <2>1, <2>2, <2>3, UpdateKeeps DEF Cleanup, IInv
<1> QED BY <1>1, <1>2, <1>3, <1>4, <1>5, <1>6, <1>7, <1>8, <1>9, <1>10, <1>11 DEF Step

-----------------------------------------------------------------------------
(* The start of a pass, events and the rest of the cluster *)

LEMMA ReconcileKeeps == ASSUME IInv, Reconcile PROVE IInv' /\ Careful
<1>0. ClusterTyped /\ CopiesInv /\ StaleFin /\ WorkerInv /\ seen \in Platform /\ Known(seen)
  BY DEF IInv, CopiesInv, Known
<1>1. UNCHANGED <<api, seen, lag, timer, cluster, used>> /\ queue' = FALSE
  BY DEF Reconcile
<1>2. ClusterTyped' /\ Careful /\ StaleFin'
  BY <1>0, <1>1 DEF ClusterTyped, cluster, Careful, StaleFin
<1>3. CASE ~Exists(seen)
  <2>1. UNCHANGED workerVars BY <1>3 DEF Reconcile
  <2> QED BY <1>0, <1>1, <1>2, <2>1 DEF IInv, CopiesInv, Known, WorkerInv, workerVars
<1>4. CASE Exists(seen)
  <2>0. orig' = seen /\ cur' = ~lag /\ UNCHANGED <<next, requeue>>
    BY <1>4 DEF Reconcile
  <2>1. Restated(ResetStatus(seen), seen) BY <1>0, FailedRestates
  <2>2. /\ obj' \in {seen, ResetStatus(seen)}
        /\ \/ pc' = "cleanup" /\ obj' = seen /\ seen.life = "deleting"
           \/ pc' = "finalizer"
           \/ pc' \in Deploying /\ seen.life = "live" /\ seen.fin
    BY <1>4 DEF Reconcile, Deploying, FatalStage
  <2>3. Known(obj)' /\ obj'.fin = seen.fin
    BY <1>0, <1>1, <2>1, <2>2 DEF Known, Restated
  <2>4. cur' \in BOOLEAN /\ (cur' => ~lag) BY <2>0
  <2>5. CopiesInv' BY <1>0, <1>1, <2>0, <2>3, <2>4 DEF CopiesInv, Known
  <2>6. WorkerInv'
    BY <1>0, <1>1, <2>0, <2>2, <2>3, <2>4
    DEF WorkerInv, StaleFin, CopiesInv, Deploying, FatalStage
  <2> QED BY <1>2, <2>5, <2>6 DEF IInv
<1> QED BY <1>3, <1>4

LEMMA EventsKeep == ASSUME IInv, Sync \/ TimerFires \/ Resync PROVE IInv' /\ Careful
<1>0. ClusterTyped /\ CopiesInv /\ StaleFin /\ WorkerInv
  BY DEF IInv
<1>1. UNCHANGED <<api, workerVars, cluster, used>> /\ queue' = TRUE /\ timer' \in {timer, FALSE}
  BY DEF Sync, TimerFires, Resync
<1>2. ClusterTyped' /\ Careful
  BY <1>0, <1>1 DEF ClusterTyped, cluster, Careful
<1>3. WorkerInv' BY <1>0, <1>1 DEF WorkerInv, workerVars
<1>4. UNCHANGED <<seen, lag>> \/ (seen' = api /\ ~lag' /\ lag' \in BOOLEAN /\ lag)
  BY DEF Sync, TimerFires, Resync
<1>5. CopiesInv' /\ StaleFin'
  <2>1. CASE UNCHANGED <<seen, lag>>
    BY <1>0, <1>1, <2>1 DEF CopiesInv, Known, StaleFin, workerVars
  <2>2. CASE seen' = api /\ ~lag' /\ lag' \in BOOLEAN /\ lag
    BY <1>0, <1>1, <2>2 DEF CopiesInv, Known, StaleFin, workerVars
  <2> QED BY <1>4, <2>1, <2>2
<1> QED BY <1>2, <1>3, <1>5 DEF IInv

\* Users and other controllers never touch the finalizer, and make the worker's copy
\* and the cached one old.
LEMMA ChangeKeeps ==
    ASSUME IInv, NEW new \in Platform, Change(new), new.fin = api.fin,
           used' \in 0..MaxChanges, used <= used', new.gen <= used'
    PROVE  IInv' /\ Careful
<1>0. /\ ClusterTyped /\ CopiesInv /\ StaleFin /\ WorkerInv
      /\ api' = new /\ lag' = TRUE /\ cur' = FALSE
      /\ UNCHANGED <<seen, queue, timer, pc, next, obj, orig, requeue, cluster>>
  BY DEF IInv, Change
<1>1. ClusterTyped' /\ Careful
  BY <1>0 DEF ClusterTyped, cluster, Careful
<1>2. ASSUME NEW o, Known(o) PROVE o \in Platform /\ o.gen <= used'
  <2>1. o \in Platform /\ o.gen <= used BY <1>2 DEF Known
  <2>2. o.gen \in 0..MaxChanges BY <2>1, StatusParts
  <2>3. used \in 0..MaxChanges BY <1>0 DEF CopiesInv
  <2> QED BY <2>1, <2>2, <2>3
<1>3. CopiesInv' BY <1>0, <1>2 DEF CopiesInv, Known
<1>4. StaleFin' /\ WorkerInv'
  BY <1>0 DEF StaleFin, WorkerInv
<1> QED BY <1>1, <1>3, <1>4 DEF IInv

LEMMA UsersKeep ==
    ASSUME IInv, CreatePlatform \/ DeletePlatform \/ EditSpec \/ Touch
    PROVE  IInv' /\ Careful
<1>0. api \in Platform /\ api.gen <= used /\ used \in 0..MaxChanges /\ api.gen \in 0..MaxChanges
  BY DEF IInv, CopiesInv, Known, Platform
<1>1. CASE CreatePlatform
  <2> DEFINE new == [api EXCEPT !.life = "live"]
  <2>1. new \in Platform /\ new.fin = api.fin /\ new.gen = api.gen BY <1>0 DEF Platform
  <2>2. Change(new) /\ used' = used BY <1>1 DEF CreatePlatform
  <2> HIDE DEF new
  <2> QED BY <1>0, <2>1, <2>2, ChangeKeeps
<1>2. CASE DeletePlatform
  <2> DEFINE new == [api EXCEPT !.life = IF api.fin THEN "deleting" ELSE "gone"]
  <2>1. new \in Platform /\ new.fin = api.fin /\ new.gen = api.gen BY <1>0 DEF Platform
  <2>2. Change(new) /\ used' = used BY <1>2 DEF DeletePlatform
  <2> HIDE DEF new
  <2> QED BY <1>0, <2>1, <2>2, ChangeKeeps
<1>3. CASE EditSpec
  <2> DEFINE new == [api EXCEPT !.gen = @ + 1]
  <2>1. used' = used + 1 /\ used' \in 0..MaxChanges /\ api.gen + 1 \in 0..MaxChanges
    BY <1>0, <1>3, PlatformConstants DEF EditSpec, Spend
  <2>2. new \in Platform /\ new.fin = api.fin /\ new.gen = api.gen + 1 BY <1>0, <2>1 DEF Platform
  <2>3. Change(new) BY <1>3 DEF EditSpec
  <2> HIDE DEF new
  <2> QED BY <1>0, <2>1, <2>2, <2>3, ChangeKeeps
<1>4. CASE Touch
  <2>1. used' = used + 1 /\ used' \in 0..MaxChanges
    BY <1>0, <1>4, PlatformConstants DEF Touch, Spend
  <2>2. Change(api) BY <1>4 DEF Touch
  <2> QED BY <1>0, <2>1, <2>2, ChangeKeeps
<1> QED BY <1>1, <1>2, <1>3, <1>4

\* One change more, with the copies and the worker as they were.
LEMMA SpendKeeps ==
    ASSUME IInv, Spend, Untouched
    PROVE  CopiesInv' /\ StaleFin' /\ WorkerInv'
<1>1. used \in 0..MaxChanges /\ used' = used + 1 /\ used' \in 0..MaxChanges
  BY PlatformConstants DEF IInv, CopiesInv, Spend
<1>2. ASSUME NEW o, Known(o) PROVE o \in Platform /\ o.gen <= used'
  <2>1. o \in Platform /\ o.gen <= used BY <1>2 DEF Known
  <2>2. o.gen \in 0..MaxChanges BY <2>1, StatusParts
  <2> QED BY <1>1, <2>1, <2>2
<1>3. CopiesInv'
  BY <1>1, <1>2 DEF IInv, CopiesInv, Known, Untouched, workerVars
<1>4. StaleFin' /\ WorkerInv'
  BY DEF IInv, StaleFin, WorkerInv, Untouched, workerVars
<1> QED BY <1>3, <1>4

LEMMA ClusterKeeps ==
    ASSUME IInv,
           \/ HubRuns
           \/ \E s \in Stage : Break(s) \/ Repair(s) \/ InstallCRD(s)
           \/ \E op \in Operator : \E phase \in {"Installing", "Succeeded"} : CSVChanges(op, phase)
           \/ \E h \in {"True", "False"} : ReportHealth(h)
    PROVE  IInv' /\ Careful
<1>0. ClusterTyped BY DEF IInv
<1>1. Spend /\ Untouched /\ deployed' = deployed
  BY DEF HubRuns, Break, Repair, InstallCRD, CSVChanges, ReportHealth
<1>2. ClusterTyped'
  <2>1. CASE HubRuns BY <1>0, <2>1 DEF HubRuns, ClusterTyped
  <2>2. ASSUME NEW s \in Stage, Break(s) \/ Repair(s) \/ InstallCRD(s) PROVE ClusterTyped'
    BY <1>0, <2>2 DEF Break, Repair, InstallCRD, ClusterTyped
  <2>3. ASSUME NEW op \in Operator, NEW phase \in {"Installing", "Succeeded"}, CSVChanges(op, phase)
        PROVE  ClusterTyped'
    BY <1>0, <2>3 DEF CSVChanges, ClusterTyped
  <2>4. ASSUME NEW h \in {"True", "False"}, ReportHealth(h) PROVE ClusterTyped'
    BY <1>0, <2>4 DEF ReportHealth, ClusterTyped
  <2> QED BY <2>1, <2>2, <2>3, <2>4
<1> QED BY <1>1, <1>2, SpendKeeps DEF IInv, Careful

LEMMA RestartKeeps == ASSUME IInv, Restart PROVE IInv' /\ Careful
<1>0. ClusterTyped /\ CopiesInv /\ StaleFin /\ WorkerInv
  BY DEF IInv
<1>1. used \in 0..MaxChanges /\ used' = used + 1 /\ used' \in 0..MaxChanges
  BY <1>0, PlatformConstants DEF CopiesInv, Restart, Spend
<1>2. NoPlatform \in Platform /\ NoPlatform.gen = 0
  BY PlatformConstants DEF NoPlatform, Platform, Reasons
<1>3. /\ pc' = "idle" /\ next' = 1 /\ obj' = NoPlatform /\ orig' = NoPlatform
      /\ cur' = FALSE /\ requeue' = FALSE /\ seen' = api /\ lag' = FALSE /\ timer' = FALSE
      /\ queue' \in BOOLEAN /\ UNCHANGED <<api, cluster>>
  BY DEF Restart, Idle, Exists
<1>4. NoPlatform.gen <= used' /\ api \in Platform /\ api.gen <= used'
  <2>1. api \in Platform /\ api.gen <= used BY <1>0 DEF CopiesInv, Known
  <2>2. api.gen \in 0..MaxChanges BY <2>1, StatusParts
  <2> QED BY <1>1, <1>2, <2>1, <2>2
<1>5. CopiesInv' /\ StaleFin'
  BY <1>1, <1>2, <1>3, <1>4 DEF CopiesInv, Known, StaleFin
<1>6. WorkerInv'
  <2>1. pc' \notin Deploying /\ pc' # "cleanup" BY <1>3 DEF Deploying, FatalStage
  <2>2. next' \in Nat \ {0} BY <1>3
  <2>3. requeue' \in BOOLEAN /\ timer' \in BOOLEAN BY <1>3, Zenon
  <2> QED BY <1>3, <2>1, <2>2, <2>3 DEF WorkerInv
<1>7. ClusterTyped' /\ Careful BY <1>0, <1>3 DEF ClusterTyped, cluster, Careful
<1> QED BY <1>5, <1>6, <1>7 DEF IInv

-----------------------------------------------------------------------------
(* The theorems *)

LEMMA InitInv == Init => IInv
<1> SUFFICES ASSUME Init PROVE IInv
  OBVIOUS
<1>1. NoPlatform \in Platform /\ NoPlatform.gen = 0 /\ NoPlatform.fin = FALSE
  BY PlatformConstants DEF NoPlatform, Platform, Reasons
<1>2. ClusterTyped
  BY PlatformConstants DEF Init, ClusterTyped, MayFail
<1>3. CopiesInv /\ StaleFin
  <2>1. /\ api = NoPlatform /\ seen = NoPlatform /\ obj = NoPlatform /\ orig = NoPlatform
        /\ lag \in BOOLEAN /\ cur \in BOOLEAN /\ ~cur
    BY DEF Init
  <2>2. used \in 0..MaxChanges /\ NoPlatform.gen <= used
    BY <1>1, PlatformConstants DEF Init
  <2> QED BY <1>1, <2>1, <2>2 DEF CopiesInv, Known, StaleFin
<1>4. WorkerInv
  <2>1. pc = "idle" /\ pc \notin Deploying BY DEF Init, Deploying, FatalStage
  <2>2. next \in Nat \ {0} BY DEF Init
  <2>3. requeue \in BOOLEAN /\ queue \in BOOLEAN /\ timer \in BOOLEAN BY Zenon DEF Init
  <2> QED BY <2>1, <2>2, <2>3 DEF WorkerInv
<1> QED BY <1>2, <1>3, <1>4 DEF IInv

LEMMA NextKeepsInv == IInv /\ [Next]_vars => IInv' /\ [Careful]_vars
<1>1. ASSUME IInv, UNCHANGED vars PROVE IInv'
  BY <1>1 DEF IInv, vars, workerVars, cluster, ClusterTyped, CopiesInv, Known, StaleFin, WorkerInv
<1>2. ASSUME IInv, Next PROVE IInv' /\ Careful
  BY <1>2, ReconcileKeeps, StepKeeps, EventsKeep, UsersKeep, ClusterKeeps, RestartKeeps
  DEF Next, Environment
<1> QED BY <1>1, <1>2

\* Every reachable state satisfies the inductive invariant.
THEOREM Invariance == Spec => []IInv
<1>1. IInv /\ [Next]_vars => IInv' BY NextKeepsInv
<1> QED BY <1>1, InitInv, PTL DEF Spec

\* The platform, the worker's copies of it, the conditions that the stages set and
\* what they deploy keep their types, whatever stages there are and however they fail.
THEOREM TypeCorrect == Spec => []TypeOK
<1>1. IInv => TypeOK
  BY DEF IInv, ClusterTyped, CopiesInv, Known, WorkerInv, Deploying, TypeOK
<1> QED BY <1>1, Invariance, PTL

\* Reconcile deploys only for a platform whose stored object carries the finalizer at
\* that moment, so that cleanup will still be run for it: the cached copy it decides
\* on may be old, but never so old that the finalizer is gone meanwhile.
THEOREM FinalizerFirst == Spec => DeployedUnderFinalizer
<1>1. IInv /\ [Next]_vars => [Careful]_vars BY NextKeepsInv
<1> QED BY <1>1, Invariance, PTL DEF Spec, DeployedUnderFinalizer, Careful

=============================================================================
