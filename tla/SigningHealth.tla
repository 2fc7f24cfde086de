---------------------------- MODULE SigningHealth ----------------------------
(***************************************************************************)
(* The health of the signing stack: the RHTASHealthCheck controller        *)
(* (internal/controller/rhtashealthcheck_controller.go) and the stage of   *)
(* the platform controller that looks after the same Securesign, repairs   *)
(* the same TUF keys, restarts the same Fulcio pod and publishes the root  *)
(* keys (disconnectedplatform_controller.go).                              *)
(*                                                                         *)
(* Both read the Securesign from the API server, since it is unstructured, *)
(* and pods and secrets from the cache.  Between the read and the write    *)
(* of one the other, or the operator of the Securesign, may write: the     *)
(* API server then refuses the write.                                      *)
(***************************************************************************)
EXTENDS Integers

CONSTANT MaxChange    \* bound: faults and changes from outside

ASSUME HealthConstants == MaxChange \in Nat

VARIABLES
    ss,        \* the Securesign
    hc,        \* the health controller's worker
    queued,    \* TRUE while the Securesign is queued for it
    dp,        \* the platform controller's worker
    pod,       \* the Fulcio pod
    podSeen,   \* ... in the cache
    keycloak,  \* TRUE while Keycloak is ready
    claim,     \* TRUE while its tokens say that the email address is verified
    keys,      \* the root keys in the secrets: the generation of each
    keysSeen,  \* ... in the cache
    root,      \* the ConfigMap rhtas-trusted-root: the keys in it
    rootSeen,  \* ... in the cache
    rootKeys,  \* status.rhtasRootKeys of the platform
    used       \* faults and changes so far

vars == <<ss, hc, queued, dp, pod, podSeen, keycloak, claim, keys, keysSeen, root, rootSeen,
          rootKeys, used>>

Verdict == {"none", "passed", "failed"}

\* Its annotation (ca), whether the TUF keys name tsa.certchain.pem, and the two
\* conditions that are looked at.
Securesign == [exists : BOOLEAN, ca : BOOLEAN, tsa : BOOLEAN, ready : BOOLEAN,
               verdict : Verdict]
Absent == [exists |-> FALSE, ca |-> FALSE, tsa |-> FALSE, ready |-> FALSE, verdict |-> "none"]

\* A worker: its next call, the copy it holds, whether that is still the object's
\* last version, and (the health controller) whether it has met an issue.
Worker == [pc : {"idle", "keys", "fulcio", "claim", "status", "annotate", "extract", "check", "fix"},
           copy : Securesign, cur : BOOLEAN, issue : BOOLEAN]
Idle == [pc |-> "idle", copy |-> Absent, cur |-> FALSE, issue |-> FALSE]

\* A pod: its name, and whether it has restarted more than three times.
Pod == [id : 0..MaxChange + 1, crashed : BOOLEAN]
Keys == [{"fulcio", "rekor"} -> 0..MaxChange + 1]
NoKeys == [k \in {"fulcio", "rekor"} |-> 0]

Spend == used < MaxChange /\ used' = used + 1

Cluster == <<pod, podSeen, keycloak, claim, keys, keysSeen>>
Roots   == <<root, rootSeen, rootKeys>>

-----------------------------------------------------------------------------
(* The API server *)

\* A write to the Securesign makes the copies of the others old, and its event
\* queues the Securesign for the health controller.
Store(new) == ss' = new /\ queued' = TRUE

\* A write is refused when the copy is old, or fails for another reason.
Refused(worker) ==
    /\ IF worker.cur THEN Spend ELSE UNCHANGED used
    /\ UNCHANGED <<ss, queued>>

\* Update leaves the status alone, and Status().Update all else.
Update(worker) ==
    /\ worker.cur /\ UNCHANGED used
    /\ Store([ss EXCEPT !.ca = worker.copy.ca, !.tsa = worker.copy.tsa])
StatusUpdate(worker) ==
    /\ worker.cur /\ UNCHANGED used
    /\ Store([ss EXCEPT !.ready = worker.copy.ready, !.verdict = worker.copy.verdict])

Old(worker) == [worker EXCEPT !.cur = FALSE]
Fetch(pc) == [Idle EXCEPT !.pc = pc, !.copy = ss, !.cur = TRUE]
At(worker, pc) == [worker EXCEPT !.pc = pc]

-----------------------------------------------------------------------------
(* The Fulcio pod, which both controllers look at *)

\* The pod of the cache is deleted, by its name, when it has restarted more than
\* three times and Keycloak is ready; its successor gets another name.

\* Mutant: Keycloak is not asked for.
StuckEarly == podSeen.crashed
\* Mutant: the pod goes only while tokens are right.
StuckVerified == podSeen.crashed /\ keycloak /\ claim
Stuck == podSeen.crashed /\ keycloak
Gone  == podSeen.id # pod.id
Successor == [id |-> pod.id + 1, crashed |-> FALSE]

RestartFulcio ==
    IF Stuck /\ ~Gone THEN pod' = Successor ELSE UNCHANGED pod

-----------------------------------------------------------------------------
(* RHTASHealthCheck controller *)

\* Takes the Securesign off the queue; one that is gone is forgotten.
Reconcile ==
    /\ hc.pc = "idle" /\ queued
    /\ queued' = FALSE
    /\ hc' = IF ss.exists THEN Fetch("keys") ELSE Idle
    /\ UNCHANGED <<ss, dp, used, Cluster, Roots>>

\* Mutant: no RequeueAfter.
NoRequeue == FALSE /\ UNCHANGED vars
\* RequeueAfter, ten minutes after the last check.
Requeue ==
    /\ hc.pc = "idle" /\ ~queued /\ ss.exists
    /\ queued' = TRUE
    /\ UNCHANGED <<ss, hc, dp, used, Cluster, Roots>>

\* Removes the problematic key.  The copy is brought up to date by the answer; a
\* write that fails is an issue.
validateTUFKeys ==
    /\ hc.pc = "keys"
    /\ LET fixed == [At(hc, "fulcio") EXCEPT !.copy.tsa = FALSE] IN
       \/ ~hc.copy.tsa /\ hc' = At(hc, "fulcio") /\ UNCHANGED <<ss, queued, dp, used>>
       \/ hc.copy.tsa /\ hc' = fixed /\ Update(fixed) /\ dp' = Old(dp)
       \/ hc.copy.tsa /\ hc' = [fixed EXCEPT !.issue = TRUE] /\ Refused(hc) /\ UNCHANGED dp
    /\ UNCHANGED <<Cluster, Roots>>

\* A pod that is gone already cannot be deleted: an issue too.
validateFulcioKeycloakConnection ==
    /\ hc.pc = "fulcio"
    /\ RestartFulcio
    /\ hc' = [At(hc, "claim") EXCEPT !.issue = @ \/ (Stuck /\ Gone)]
    /\ UNCHANGED <<ss, queued, dp, podSeen, keycloak, claim, keys, keysSeen, used, Roots>>

\* validateComponentReadiness only logs.  A token cannot be had from a Keycloak that
\* is not ready.
validateEmailVerifiedClaim ==
    /\ hc.pc = "claim"
    /\ hc' = [At(hc, "status") EXCEPT !.issue = @ \/ ~(keycloak /\ claim)]
    /\ UNCHANGED <<ss, queued, dp, used, Cluster, Roots>>

\* Mutant: the conditions are stored whatever has become of the Securesign.
StatusAnyway ==
    /\ hc.pc = "status"
    /\ LET new == [hc EXCEPT !.cur = TRUE,
                             !.copy.verdict = IF hc.issue THEN "failed" ELSE "passed"]
       IN  StatusUpdate(new) /\ dp' = Old(dp)
    /\ hc' = Idle
    /\ UNCHANGED <<Cluster, Roots>>

\* Stores all conditions of its copy with the verdict in its place.  A failure is
\* logged, and nothing is written when neither the verdict nor the second has changed.
updateSecuresignHealthStatus ==
    /\ hc.pc = "status"
    /\ LET new == [hc EXCEPT !.copy.verdict = IF hc.issue THEN "failed" ELSE "passed"] IN
       \/ StatusUpdate(new) /\ dp' = Old(dp)
       \/ new.copy.verdict = ss.verdict /\ hc.cur /\ UNCHANGED <<ss, queued, dp, used>>
       \/ Refused(hc) /\ UNCHANGED dp
    /\ hc' = Idle
    /\ UNCHANGED <<Cluster, Roots>>

-----------------------------------------------------------------------------
(* The signing stage of the platform controller *)

\* reconcileRHTASConfig, first half: creates the Securesign (whose operator's
\* defaults may name the problematic key) or looks at its annotation.
reconcileRHTASConfig ==
    /\ dp.pc = "idle"
    /\ \/ /\ ~ss.exists /\ dp' = At(Idle, "extract") /\ UNCHANGED hc
          /\ \E tsa \in BOOLEAN : Store([Absent EXCEPT !.exists = TRUE, !.ca = TRUE, !.tsa = tsa])
       \/ /\ ss.exists
          /\ dp' = IF ss.ca THEN At(Idle, "extract") ELSE Fetch("annotate")
          /\ UNCHANGED <<ss, queued, hc>>
    /\ UNCHANGED <<used, Cluster, Roots>>

\* Second half: the annotation is written; a failure is logged.
Annotate ==
    /\ dp.pc = "annotate"
    /\ \/ Update([dp EXCEPT !.copy.ca = TRUE]) /\ hc' = Old(hc)
       \/ Refused(dp) /\ UNCHANGED hc
    /\ dp' = At(Idle, "extract")
    /\ UNCHANGED <<Cluster, Roots>>

\* Mutant: root keys that have been published are not looked at again.
ExtractOnce ==
    /\ dp.pc = "extract" /\ dp' = At(Idle, "check")
    /\ \/ /\ ss.ready /\ rootSeen = NoKeys /\ root = NoKeys
          /\ root' = keysSeen /\ rootKeys' = keysSeen
       \/ ~(ss.ready /\ rootSeen = NoKeys /\ root = NoKeys) /\ UNCHANGED <<root, rootKeys>>
    /\ UNCHANGED <<ss, hc, queued, rootSeen, used, Cluster>>

\* The keys of the cached secrets go into the ConfigMap, and into the status only
\* if that worked.  A ConfigMap read from an old cache cannot be written.
extractRHTASRootKeys ==
    /\ dp.pc = "extract" /\ dp' = At(Idle, "check")
    /\ LET there == ss.ready /\ \A k \in DOMAIN keysSeen : keysSeen[k] # 0 IN
       \/ /\ there /\ rootSeen = keysSeen
          /\ UNCHANGED root /\ rootKeys' = keysSeen
       \/ /\ there /\ rootSeen # keysSeen /\ rootSeen = root
          /\ root' = keysSeen /\ rootKeys' = keysSeen
       \/ /\ ~there \/ (rootSeen # keysSeen /\ rootSeen # root)
          /\ UNCHANGED <<root, rootKeys>>
    /\ UNCHANGED <<ss, hc, queued, rootSeen, used, Cluster>>

\* checkAndFixTUFKeys, first half.
checkAndFixTUFKeys ==
    /\ dp.pc = "check"
    /\ dp' = IF ss.exists /\ ss.tsa THEN Fetch("fix") ELSE At(Idle, "fulcio")
    /\ UNCHANGED <<ss, hc, queued, used, Cluster, Roots>>

\* Second half: removes the first of the problematic keys, of which there is one.
FixTUFKeys ==
    /\ dp.pc = "fix"
    /\ \/ Update([dp EXCEPT !.copy.tsa = FALSE]) /\ hc' = Old(hc)
       \/ Refused(dp) /\ UNCHANGED hc
    /\ dp' = At(Idle, "fulcio")
    /\ UNCHANGED <<Cluster, Roots>>

\* An error is logged; the pass ends here as far as the signer is concerned.
checkFulcioKeycloakConnectivity ==
    /\ dp.pc = "fulcio" /\ dp' = Idle
    /\ IF ss.exists THEN RestartFulcio ELSE UNCHANGED pod
    /\ UNCHANGED <<ss, hc, queued, podSeen, keycloak, claim, keys, keysSeen, used, Roots>>

-----------------------------------------------------------------------------
(* Everything else *)

\* The operator of the Securesign: it becomes ready, or not; an upgrade of it puts
\* its default keys back.
Operate ==
    /\ Spend /\ ss.exists
    /\ \/ Store([ss EXCEPT !.ready = ~@])
       \/ ~ss.tsa /\ Store([ss EXCEPT !.tsa = TRUE])
    /\ hc' = Old(hc) /\ dp' = Old(dp)
    /\ UNCHANGED <<Cluster, Roots>>

\* Keycloak comes and goes, its realm is edited, a root key is rotated.
Change ==
    /\ Spend
    /\ \/ keycloak' = ~keycloak /\ UNCHANGED <<claim, keys>>
       \/ claim' = ~claim /\ UNCHANGED <<keycloak, keys>>
       \/ /\ \E k \in DOMAIN keys : keys' = [keys EXCEPT ![k] = used + 2]
          /\ UNCHANGED <<keycloak, claim>>
    /\ UNCHANGED <<ss, hc, queued, dp, pod, podSeen, keysSeen, Roots>>

\* Fulcio cannot start without Keycloak, and restarts until it has had enough.
Crash ==
    /\ ~keycloak /\ ~pod.crashed
    /\ pod' = [pod EXCEPT !.crashed = TRUE]
    /\ UNCHANGED <<ss, hc, queued, dp, podSeen, keycloak, claim, keys, keysSeen, used, Roots>>

\* A watch brings one kind of cached object, or one secret, up to date.
Sync ==
    /\ \/ podSeen # pod /\ podSeen' = pod /\ UNCHANGED <<keysSeen, rootSeen>>
       \/ rootSeen # root /\ rootSeen' = root /\ UNCHANGED <<podSeen, keysSeen>>
       \/ \E k \in DOMAIN keys : /\ keysSeen[k] # keys[k]
                                 /\ keysSeen' = [keysSeen EXCEPT ![k] = keys[k]]
                                 /\ UNCHANGED <<podSeen, rootSeen>>
    /\ UNCHANGED <<ss, hc, queued, dp, pod, keycloak, claim, keys, root, rootKeys, used>>

\* The operator is restarted: both workers are, and every Securesign is listed.
Restart ==
    /\ Spend
    /\ hc' = Idle /\ dp' = Idle /\ queued' = ss.exists
    /\ podSeen' = pod /\ keysSeen' = keys /\ rootSeen' = root
    /\ UNCHANGED <<ss, pod, keycloak, claim, keys, root, rootKeys>>

-----------------------------------------------------------------------------

\* A new cluster, or one with a Securesign that an older operator made.
Init ==
    /\ \/ ss = Absent
       \/ ss \in [exists : {TRUE}, ca : {FALSE}, tsa : BOOLEAN, ready : {TRUE}, verdict : {"none"}]
    /\ hc = Idle /\ dp = Idle /\ queued = ss.exists
    /\ pod = [id |-> 0, crashed |-> FALSE] /\ podSeen = pod
    /\ keycloak \in BOOLEAN /\ claim = TRUE
    /\ keys \in {NoKeys, [k \in DOMAIN NoKeys |-> 1]} /\ keysSeen = keys
    /\ root = NoKeys /\ rootSeen = root /\ rootKeys = NoKeys
    /\ used = 0

HealthController ==
    \/ Reconcile \/ validateTUFKeys \/ validateFulcioKeycloakConnection
    \/ validateEmailVerifiedClaim \/ updateSecuresignHealthStatus

SigningStage ==
    \/ reconcileRHTASConfig \/ Annotate \/ extractRHTASRootKeys \/ checkAndFixTUFKeys
    \/ FixTUFKeys \/ checkFulcioKeycloakConnectivity

Next ==
    \/ HealthController \/ Requeue \/ SigningStage
    \/ Operate \/ Change \/ Crash \/ Sync \/ Restart

Spec == Init /\ [][Next]_vars

\* Both workers go on, the timer fires, the platform is reconciled again and again
\* (informers resync), and each cached kind is brought up to date.
Fairness ==
    /\ WF_vars(HealthController) /\ WF_vars(Requeue) /\ WF_vars(SigningStage)
    /\ WF_vars(Sync)

FairSpec == Spec /\ Fairness

-----------------------------------------------------------------------------
(* Correctness *)

TypeOK ==
    /\ ss \in Securesign /\ hc \in Worker /\ dp \in Worker
    /\ queued \in BOOLEAN /\ keycloak \in BOOLEAN /\ claim \in BOOLEAN
    /\ pod \in Pod /\ podSeen \in Pod
    /\ keys \in Keys /\ keysSeen \in Keys
    /\ root \in Keys /\ rootSeen \in Keys /\ rootKeys \in Keys
    /\ used \in 0..MaxChange

\* rhtashealthcheck_controller.go:116: two controllers and a third operator write the
\* Securesign.  No write of ours undoes one of the others': the annotation stays, a
\* removed key stays removed, and Ready is as its operator left it.
NoLostUpdate ==
    [][used' = used /\ ss.exists =>
          /\ ss'.exists /\ ss'.ready = ss.ready
          /\ ss.ca => ss'.ca
          /\ ss'.tsa => ss.tsa]_vars

\* The repairs happen, whoever gets there first: the problematic key goes, and a
\* Fulcio that gave up on Keycloak is restarted once Keycloak is ready.
Heals == <>[](~ss.tsa /\ (keycloak => ~pod.crashed))

\* The verdict that the platform reads is in the end the right one, although a
\* verdict that cannot be stored is only logged.
VerdictConverges == <>[](ss.verdict = IF keycloak /\ claim THEN "passed" ELSE "failed")

\* The root keys that are handed to the airgapped side are in the end those of the
\* signer, both of the same age, and the status names them.
RootsConverge ==
    <>[](ss.ready /\ (\A k \in DOMAIN keys : keys[k] # 0) => root = keys /\ rootKeys = keys)

=============================================================================
