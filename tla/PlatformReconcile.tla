-------------------------- MODULE PlatformReconcile --------------------------
(***************************************************************************)
(* The DisconnectedPlatform controller's Reconcile and cleanup             *)
(* (internal/controller/disconnectedplatform_controller.go): the order of  *)
(* its stages, which of their errors end the reconciliation, are only      *)
(* logged or ask for a requeue, and what becomes of them in status.phase   *)
(* and status.conditions.                                                  *)
(*                                                                         *)
(* A stage is one action: it brings its resources into being, or fails as  *)
(* the cluster (fault, noCRD, csv, health, hub) makes it at that moment.   *)
(* The stages work on an in-memory copy (obj) of what the cache (seen)     *)
(* showed at the start; the one status update at the end is refused when   *)
(* somebody wrote the object in between.                                   *)
(***************************************************************************)
EXTENDS Integers, Sequences

CONSTANTS
    Modes,       \* the spec.mode values considered
    Connected,   \* the soft stages of connected mode, in their order
    Airgapped,   \* the soft stages of airgapped mode behind the ACM gate
    CRDAware,    \* the soft stages whose "no matches for kind" asks for a requeue
    Breakable,   \* the stages that may fail
    Collected,   \* TRUE when a completed CollectionPipeline exists
    MaxChanges   \* bound: failures, edits, writes by others and restarts

SoftStage == {Connected[i] : i \in DOMAIN Connected} \cup {Airgapped[i] : i \in DOMAIN Airgapped}
FatalStage == {"subscriptions", "architect", "keycloak", "keycloakHealth"}
Stage == SoftStage \cup FatalStage \cup {"securesign", "packages", "acm"}
AirgappedOnly == {Airgapped[i] : i \in DOMAIN Airgapped} \cup {"packages", "acm"}
Operator == {"rhbk-operator", "trusted-artifact-signer"}

ASSUME PlatformConstants ==
    /\ Modes \subseteq {"connected", "airgapped"}
    /\ Connected \in Seq(STRING) /\ Airgapped \in Seq(STRING)
    /\ CRDAware \subseteq SoftStage
    /\ Breakable \subseteq Stage
    /\ Collected \in BOOLEAN
    /\ MaxChanges \in Nat

VARIABLES
    mode,      \* spec.mode
    api,       \* the DisconnectedPlatform on the API server
    seen,      \* the informer cache's copy of it
    lag,       \* TRUE while that copy is not the current one
    queue,     \* TRUE while a request is queued
    timer,     \* TRUE while a RequeueAfter is running
    pc,        \* the next stage of the running reconciliation, or "idle"
    next,      \* the index of the next soft stage
    obj,       \* its in-memory copy of the platform
    orig,      \* originalStatus: the copy it started from
    cur,       \* TRUE while obj carries the current resourceVersion
    requeue,   \* crdMissing or airgappedRequeue
    fault,     \* the stages that fail at the moment
    noCRD,     \* the soft stages whose CRD is not installed yet
    csv,       \* the phase of each operator's CSV
    health,    \* HealthCheckPassed of the Securesign, "absent" without one
    hub,       \* TRUE once the MultiClusterHub has been running
    deployed,  \* what the stages have brought into being
    used       \* what the environment has spent of its bounds

workerVars == <<pc, next, obj, orig, cur, requeue>>
cluster    == <<mode, fault, noCRD, csv, health, hub, deployed>>
vars == <<api, seen, lag, queue, timer, workerVars, cluster, used>>

-----------------------------------------------------------------------------
(* The platform object *)

Component == [name : SoftStage \cup Operator \cup {"keycloak", "securesign", "packages", "acm"},
              status : {"Running", "Installing", "Succeeded", "Error"}]
Reasons == {"none", "ReconciliationSucceeded", "ArchitectReconcileFailed",
            "ManagedKeycloakFailed", "KeycloakNotHealthy"}

\* at is the parity of lastTransitionTime, stamp that of the history's timestamps:
\* a new time is one that differs from the one stored.
Platform == [life : {"absent", "live", "deleting", "gone"}, fin : BOOLEAN,
             gen : 0..MaxChanges, phase : {"", "Ready", "Error", "Degraded"},
             ready : [status : {"none", "True", "False"}, reason : Reasons,
                      gen : 0..MaxChanges, at : 0..1],
             degraded : [status : {"none", "True", "False"},
                         reason : {"none", "HealthCheckFailed"}, at : 0..1],
             comps : SUBSET Component, stamp : 0..1]

NoPlatform == [life |-> "absent", fin |-> FALSE, gen |-> 0, phase |-> "",
               ready |-> [status |-> "none", reason |-> "none", gen |-> 0, at |-> 0],
               degraded |-> [status |-> "none", reason |-> "none", at |-> 0],
               comps |-> {}, stamp |-> 0]

Exists(o) == o.life \in {"live", "deleting"}

\* setErrorCondition: nothing changes for a condition that says the same.
setErrorCondition(o, reason) ==
    IF o.ready.status = "False" /\ o.ready.reason = reason THEN o
    ELSE [o EXCEPT !.ready = [status |-> "False", reason |-> reason, gen |-> o.gen,
                              at |-> IF o.ready.status = "False" THEN @.at ELSE 1 - @.at]]

\* Mutant: a fresh lastTransitionTime every time.
StampAlways(o) ==
    [o EXCEPT !.ready = [status |-> "True", reason |-> "ReconciliationSucceeded",
                         gen |-> o.gen, at |-> 1 - @.at]]

setReadyCondition(o) ==
    [o EXCEPT !.ready = [status |-> "True", reason |-> "ReconciliationSucceeded",
                         gen |-> o.gen,
                         at |-> IF o.ready.status = "True" THEN @.at ELSE 1 - @.at]]

\* Mutant: a phase the API does not declare.
DegradedIsUnhealthy(o) == [o EXCEPT !.phase = "Unhealthy"]

updateDegradedCondition(o) ==
    [o EXCEPT !.degraded = IF @.status = "True" THEN @
                           ELSE [status |-> "True", reason |-> "HealthCheckFailed", at |-> 1 - @.at],
              !.phase = IF @ = "Error" THEN @ ELSE "Degraded"]

clearDegradedCondition(o, reason) ==
    LET cleared == IF o.degraded.reason = reason /\ o.degraded.status = "True"
                   THEN [o EXCEPT !.degraded.status = "False", !.degraded.at = 1 - @]
                   ELSE o
    IN  IF cleared.degraded.status # "True" /\ cleared.phase = "Degraded"
        THEN [cleared EXCEPT !.phase = "Ready"] ELSE cleared

\* performRHTASHealthChecks only logs what it meets and always succeeds, so the
\* reason it would report is always cleared; then the Securesign's own verdict.
updateStatusFromSecuresignHealth(o) ==
    LET inline == clearDegradedCondition(o, "RHTASHealthCheckFailed")
    IN  IF "securesign" \in fault THEN inline
        ELSE IF health = "False" THEN updateDegradedCondition(inline)
        ELSE IF health = "True"
        THEN clearDegradedCondition(clearDegradedCondition(inline, "HealthCheckFailed"),
                                    "AllHealthChecksPassed")
        ELSE inline

With(o, name, status) == [o EXCEPT !.comps = @ \cup {[name |-> name, status |-> status]}]
Installed(op) == [name |-> op, status |-> "Succeeded"] \in obj.comps

-----------------------------------------------------------------------------
(* The worker and its writes *)

Idle == /\ pc' = "idle" /\ next' = 1 /\ obj' = NoPlatform /\ orig' = NoPlatform
        /\ cur' = FALSE /\ requeue' = FALSE

Return(retry, after) ==
    /\ Idle
    /\ queue' = (queue \/ retry)
    /\ timer' = (timer \/ after)

\* An update by the worker; one that changes nothing makes no event.
Store(new) == api' = new /\ lag' = (lag \/ new # api)

\* return ctrl.Result{...}, r.Status().Update(...): a conflict is retried.
UpdateAndReturn(new, after) ==
    \/ cur /\ Store(new) /\ Return(FALSE, after)
    \/ ~cur /\ Return(TRUE, FALSE) /\ UNCHANGED <<api, lag>>

GoTo(stage) == pc' = stage /\ UNCHANGED <<next, orig, cur, requeue, queue, timer, api, lag>>

-----------------------------------------------------------------------------
(* Reconcile *)

\* Mutant: an error stays until somebody clears it.
KeepPhase(o) == [o EXCEPT !.comps = {}, !.phase = IF @ = "" THEN "Ready" ELSE @]
ResetStatus(o) == [o EXCEPT !.comps = {}, !.phase = "Ready"]

\* Dequeue, read the platform, dispatch on deletion and finalizer.
Reconcile ==
    /\ pc = "idle" /\ queue
    /\ queue' = FALSE
    /\ \/ ~Exists(seen) /\ UNCHANGED workerVars
       \/ /\ Exists(seen)
          /\ orig' = seen /\ cur' = ~lag
          /\ \/ seen.life = "deleting" /\ pc' = "cleanup" /\ obj' = seen
             \/ seen.life = "live" /\ ~seen.fin /\ pc' = "finalizer" /\ obj' = seen
             \/ /\ seen.life = "live" /\ seen.fin
                /\ pc' = IF mode = "connected" THEN "subscriptions" ELSE "architect"
                /\ obj' = ResetStatus(seen)
          /\ UNCHANGED <<next, requeue>>
    /\ UNCHANGED <<api, seen, lag, timer, cluster, used>>

\* Mutant: a refused finalizer is forgotten and the stages run without it.
FinalizerBestEffort ==
    /\ pc = "finalizer"
    /\ \/ cur /\ Store([obj EXCEPT !.fin = TRUE]) /\ Return(FALSE, FALSE)
       \/ ~cur /\ GoTo("architect") /\ UNCHANGED obj
    /\ UNCHANGED <<seen, cluster, used>>

AddFinalizer ==
    /\ pc = "finalizer"
    /\ UpdateAndReturn([obj EXCEPT !.fin = TRUE], FALSE)
    /\ UNCHANGED <<seen, cluster, used>>

Failed(o) == [o EXCEPT !.phase = "Error"]

\* Connected mode: subscribe to the operators and report their CSVs; the first
\* failure ends the reconciliation, without a condition and without a requeue.
reconcileSubscriptions ==
    /\ pc = "subscriptions"
    /\ \/ /\ "subscriptions" \in fault
          /\ UpdateAndReturn(Failed(With(obj, "rhbk-operator", "Error")), FALSE)
       \/ /\ "subscriptions" \notin fault
          /\ obj' = [obj EXCEPT !.comps = {[name |-> op, status |-> csv[op]] : op \in Operator}]
          /\ GoTo("architect")
    /\ UNCHANGED <<seen, cluster, used>>

\* The CA bundles before it are best effort; a failure ends the reconciliation.
\* The architect is taken to be enabled.
reconcileArchitect ==
    /\ pc = "architect"
    /\ \/ /\ "architect" \in fault
          /\ UpdateAndReturn(setErrorCondition(Failed(obj), "ArchitectReconcileFailed"), FALSE)
          /\ UNCHANGED deployed
       \/ /\ "architect" \notin fault
          /\ deployed' = deployed \cup {"architect"}
          /\ GoTo("keycloak") /\ UNCHANGED obj
    /\ UNCHANGED <<seen, mode, fault, noCRD, csv, health, hub, used>>

\* Once its operator is installed: the managed Keycloak, then its readiness.
reconcileManagedKeycloak ==
    /\ pc = "keycloak"
    /\ \/ /\ ~Installed("rhbk-operator")
          /\ GoTo("signing") /\ UNCHANGED <<obj, deployed>>
       \/ /\ Installed("rhbk-operator") /\ "keycloak" \in fault
          /\ UpdateAndReturn(setErrorCondition(Failed(obj), "ManagedKeycloakFailed"), TRUE)
          /\ UNCHANGED deployed
       \/ /\ Installed("rhbk-operator") /\ "keycloak" \notin fault
          /\ deployed' = deployed \cup {"keycloak"}
          /\ obj' = With(obj, "keycloak", "Running")
          /\ GoTo("keycloakHealth")
    /\ UNCHANGED <<seen, mode, fault, noCRD, csv, health, hub, used>>

checkKeycloakHealth ==
    /\ pc = "keycloakHealth"
    /\ \/ /\ "keycloakHealth" \in fault
          /\ UpdateAndReturn(setErrorCondition(Failed(obj), "KeycloakNotHealthy"), TRUE)
       \/ /\ "keycloakHealth" \notin fault
          /\ GoTo("signing") /\ UNCHANGED obj
    /\ UNCHANGED <<seen, cluster, used>>

\* Once the signer is installed: the Securesign, then what its health says.  The
\* root keys, written to the status only when they change, are left out.
reconcileRHTASConfig ==
    /\ pc = "signing"
    /\ \/ /\ ~Installed("trusted-artifact-signer")
          /\ UNCHANGED <<obj, deployed, health>>
       \/ /\ Installed("trusted-artifact-signer") /\ "securesign" \in fault
          /\ obj' = updateStatusFromSecuresignHealth(obj)
          /\ UNCHANGED <<deployed, health>>
       \/ /\ Installed("trusted-artifact-signer") /\ "securesign" \notin fault
          /\ deployed' = deployed \cup {"securesign"}
          /\ health' = IF health = "absent" THEN "none" ELSE health
          /\ obj' = updateStatusFromSecuresignHealth(With(obj, "securesign", "Running"))
    /\ GoTo(IF mode = "connected" THEN "soft" ELSE "packages")
    /\ UNCHANGED <<seen, mode, fault, noCRD, csv, hub, used>>

Soft == IF mode = "connected" THEN Connected ELSE Airgapped
Blocked(s) == s \in fault \cup noCRD

\* A failure of a soft stage is logged.  In connected mode a missing CRD asks for
\* a requeue where the code looks for it; in airgapped mode every failure does.
SoftStep ==
    /\ pc = "soft"
    /\ \/ /\ next > Len(Soft)
          /\ pc' = "status" /\ UNCHANGED <<next, requeue, obj, deployed>>
       \/ /\ next <= Len(Soft)
          /\ LET s == Soft[next]
             IN  /\ requeue' = (requeue \/ IF mode = "airgapped" THEN Blocked(s)
                                           ELSE s \in noCRD \cap CRDAware)
                 /\ deployed' = IF Blocked(s) THEN deployed ELSE deployed \cup {s}
                 /\ obj' = IF Blocked(s) THEN obj ELSE With(obj, s, "Running")
          /\ next' = next + 1 /\ UNCHANGED pc
    /\ UNCHANGED <<api, seen, lag, queue, timer, orig, cur, mode, fault, noCRD, csv, health,
                   hub, used>>

\* Airgapped mode: the subscriptions, from the catalog that is there.
reconcileAirgappedSubscriptions ==
    /\ pc = "packages"
    /\ requeue' = (requeue \/ "packages" \in fault)
    /\ obj' = IF "packages" \in fault THEN obj ELSE With(obj, "packages", "Succeeded")
    /\ pc' = "acm"
    /\ UNCHANGED <<api, seen, lag, queue, timer, next, orig, cur, cluster, used>>

HubRunning == "acm" \notin fault /\ hub

\* The ACM gate: nothing behind it is touched until the MultiClusterHub runs.
reconcileAirgappedACM ==
    /\ pc = "acm"
    /\ deployed' = IF "acm" \in fault THEN deployed ELSE deployed \cup {"acm"}
    /\ obj' = IF "acm" \in fault THEN obj
              ELSE With(obj, "acm", IF hub THEN "Running" ELSE "Installing")
    /\ requeue' = (requeue \/ ~HubRunning)
    /\ pc' = IF HubRunning THEN "soft" ELSE "status"
    /\ UNCHANGED <<api, seen, lag, queue, timer, next, orig, cur, mode, fault, noCRD, csv,
                   health, hub, used>>

\* The collection history carries the time of the reconciliation, to the
\* nanosecond in memory and to the second once it is stored: it never equals the
\* original in memory, and may equal it on the API server.
Aggregate(o) == IF Collected THEN {o, [o EXCEPT !.stamp = 1 - @]} ELSE {o}

\* The histories, the Ready condition and the final update.  With an unchanged
\* status Reconcile returns at once, without the requeue; a conflict is ignored.
UpdateStatus ==
    /\ pc = "status"
    /\ \E new \in Aggregate(setReadyCondition(obj)) :
          LET same == new = orig /\ ~Collected
          IN  \/ same /\ Return(FALSE, FALSE) /\ UNCHANGED <<api, lag>>
              \/ ~same /\ cur /\ Store(new) /\ Return(FALSE, requeue)
              \/ ~same /\ ~cur /\ Return(FALSE, requeue) /\ UNCHANGED <<api, lag>>
    /\ UNCHANGED <<seen, cluster, used>>

-----------------------------------------------------------------------------
(* cleanup *)

Cleaned == {"architect", "keycloak", "securesign", "rhtpa", "acm"}

\* Mutant: the finalizer waits for every deletion.
CleanupAllOrNothing ==
    /\ pc = "cleanup"
    /\ \/ /\ fault \cap Cleaned # {} /\ Return(TRUE, FALSE)
          /\ UNCHANGED <<api, lag, deployed, health>>
       \/ /\ fault \cap Cleaned = {}
          /\ deployed' = deployed \ Cleaned /\ health' = "absent"
          /\ UpdateAndReturn([obj EXCEPT !.fin = FALSE, !.life = "gone"], FALSE)
    /\ UNCHANGED <<seen, mode, fault, noCRD, csv, hub, used>>

\* Deletions that fail are only logged.
Cleanup ==
    /\ pc = "cleanup"
    /\ deployed' = deployed \ (Cleaned \ fault)
    /\ health' = IF "securesign" \in fault THEN health ELSE "absent"
    /\ UpdateAndReturn([obj EXCEPT !.fin = FALSE, !.life = "gone"], FALSE)
    /\ UNCHANGED <<seen, mode, fault, noCRD, csv, hub, used>>

-----------------------------------------------------------------------------
(* Events *)

Sync ==
    /\ lag
    /\ seen' = api /\ lag' = FALSE /\ queue' = TRUE
    /\ UNCHANGED <<api, timer, workerVars, cluster, used>>

TimerFires ==
    /\ timer
    /\ timer' = FALSE /\ queue' = TRUE
    /\ UNCHANGED <<api, seen, lag, workerVars, cluster, used>>

\* The informers' resync, and the watched secrets, nodes, pipelines and children.
Resync ==
    /\ Exists(seen) /\ ~queue
    /\ queue' = TRUE
    /\ UNCHANGED <<api, seen, lag, timer, workerVars, cluster, used>>

-----------------------------------------------------------------------------
(* The user, the other controllers, the cluster *)

Change(new) ==
    /\ api' = new /\ lag' = TRUE /\ cur' = FALSE
    /\ UNCHANGED <<seen, queue, timer, pc, next, obj, orig, requeue, cluster>>

CreatePlatform ==
    /\ api.life = "absent"
    /\ Change([api EXCEPT !.life = "live"]) /\ UNCHANGED used

DeletePlatform ==
    /\ api.life = "live"
    /\ Change([api EXCEPT !.life = IF api.fin THEN "deleting" ELSE "gone"]) /\ UNCHANGED used

Spend == used < MaxChanges /\ used' = used + 1

EditSpec == api.life = "live" /\ Spend /\ Change([api EXCEPT !.gen = @ + 1])

\* Another controller writes a history entry or the user an annotation.
Touch == Exists(api) /\ Spend /\ Change(api)

Untouched == UNCHANGED <<api, seen, lag, queue, timer, workerVars>>

\* The stages of a mode that may fail.
MayFail == Breakable \cap IF mode = "connected" THEN Stage \ AirgappedOnly
                          ELSE AirgappedOnly \cup {"architect"}

Break(s) ==
    /\ s \in MayFail \ fault /\ Spend
    /\ fault' = fault \cup {s}
    /\ Untouched /\ UNCHANGED <<mode, noCRD, csv, health, hub, deployed>>

Repair(s) ==
    /\ s \in fault /\ Spend
    /\ fault' = fault \ {s}
    /\ Untouched /\ UNCHANGED <<mode, noCRD, csv, health, hub, deployed>>

InstallCRD(s) ==
    /\ s \in noCRD /\ Spend
    /\ noCRD' = noCRD \ {s}
    /\ Untouched /\ UNCHANGED <<mode, fault, csv, health, hub, deployed>>

\* OLM installs an operator, or upgrades it.
CSVChanges(op, phase) ==
    /\ mode = "connected" /\ csv[op] # phase /\ Spend
    /\ csv' = [csv EXCEPT ![op] = phase]
    /\ Untouched /\ UNCHANGED <<mode, fault, noCRD, health, hub, deployed>>

\* The RHTASHealthCheck controller reports on the Securesign.
ReportHealth(h) ==
    /\ health \notin {"absent", h} /\ Spend
    /\ health' = h
    /\ Untouched /\ UNCHANGED <<mode, fault, noCRD, csv, hub, deployed>>

HubRuns ==
    /\ ~hub /\ "acm" \in deployed /\ Spend
    /\ hub' = TRUE
    /\ Untouched /\ UNCHANGED <<mode, fault, noCRD, csv, health, deployed>>

Restart ==
    /\ Spend
    /\ Idle
    /\ seen' = api /\ lag' = FALSE /\ timer' = FALSE
    /\ queue' = Exists(api)
    /\ UNCHANGED <<api, cluster>>

-----------------------------------------------------------------------------

\* A connected cluster may have the operators, CRDs and a Securesign from before;
\* an airgapped one never gets the signing operators.
Init ==
    /\ mode \in Modes
    /\ api = NoPlatform /\ seen = api /\ lag = FALSE /\ queue = FALSE /\ timer = FALSE
    /\ pc = "idle" /\ next = 1 /\ obj = NoPlatform /\ orig = NoPlatform
    /\ cur = FALSE /\ requeue = FALSE
    /\ fault \in {{}} \cup {{s} : s \in MayFail} /\ noCRD \in {{}, CRDAware}
    /\ csv \in [Operator -> {"Installing", "Succeeded"}]
    /\ health \in {"absent", "True", "False"} /\ hub = FALSE
    /\ mode = "airgapped" => /\ csv = [op \in Operator |-> "Installing"]
                             /\ health = "absent" /\ noCRD = {}
    /\ deployed = {} /\ used = 0

Step ==
    \/ AddFinalizer \/ reconcileSubscriptions \/ reconcileArchitect
    \/ reconcileManagedKeycloak \/ checkKeycloakHealth \/ reconcileRHTASConfig
    \/ SoftStep \/ reconcileAirgappedSubscriptions \/ reconcileAirgappedACM
    \/ UpdateStatus \/ Cleanup

Environment ==
    \/ CreatePlatform \/ DeletePlatform \/ EditSpec \/ Touch \/ HubRuns
    \/ \E s \in Stage : Break(s) \/ Repair(s) \/ InstallCRD(s)
    \/ \E op \in Operator : \E phase \in {"Installing", "Succeeded"} : CSVChanges(op, phase)
    \/ \E h \in {"True", "False"} : ReportHealth(h)

Next == Reconcile \/ Step \/ Sync \/ TimerFires \/ Resync \/ Environment \/ Restart

\* The worker runs, watches deliver, timers fire, and the informers resync (every
\* ten hours by controller-runtime's default).  Nothing is promised about the rest.
Fairness == WF_vars(Reconcile) /\ WF_vars(Step) /\ WF_vars(Sync) /\ WF_vars(TimerFires)
            /\ WF_vars(Resync)

Spec == Init /\ [][Next]_vars
FairSpec == Spec /\ Fairness

-----------------------------------------------------------------------------
(* Correctness *)

TypeOK ==
    /\ mode \in Modes
    /\ api \in Platform /\ seen \in Platform /\ obj \in Platform /\ orig \in Platform
    /\ lag \in BOOLEAN /\ queue \in BOOLEAN /\ timer \in BOOLEAN
    /\ cur \in BOOLEAN /\ requeue \in BOOLEAN
    /\ pc \in FatalStage \cup {"idle", "finalizer", "signing", "soft", "packages", "acm",
                               "status", "cleanup"}
    /\ next \in Nat
    /\ fault \subseteq Stage /\ noCRD \subseteq SoftStage
    /\ csv \in [Operator -> {"Installing", "Succeeded"}]
    /\ health \in {"absent", "none", "True", "False"} /\ hub \in BOOLEAN
    /\ deployed \subseteq SoftStage \cup {"architect", "keycloak", "securesign", "acm"}
    /\ used \in 0..MaxChanges

\* Resources come into being only while the stored platform carries the
\* finalizer, so cleanup runs after the last of them: no stale copy makes
\* Reconcile deploy for a platform that is gone or that nobody will clean up.
DeployedUnderFinalizer == [][deployed' \subseteq deployed \/ api.fin]_vars

\* What status.phase should say of the cluster as it is.
TruePhase ==
    IF \/ mode = "connected" /\ "subscriptions" \in fault
       \/ "architect" \in fault
       \/ /\ mode = "connected" /\ csv["rhbk-operator"] = "Succeeded"
          /\ fault \cap {"keycloak", "keycloakHealth"} # {}
    THEN "Error"
    ELSE IF /\ mode = "connected" /\ csv["trusted-artifact-signer"] = "Succeeded"
            /\ health = "False" /\ "securesign" \notin fault
    THEN "Degraded" ELSE "Ready"

\* However errors, repairs, upgrades, conflicts, restarts and deletions follow one
\* another, the phase of a live platform ends up saying what is the case.
PhaseConverges ==
    <>[](api.life = "live") => <>[](api.phase = TruePhase)

\* The finalizer is removed in the end, whatever cannot be deleted.
PlatformDeleted == api.life = "deleting" ~> api.life = "gone"

\* "Only update status if it changed" (disconnectedplatform_controller.go:476): once
\* the cluster and the spec stay as they are, the platform is not written any more.
Quiesces == <>[][api' = api]_vars

=============================================================================
