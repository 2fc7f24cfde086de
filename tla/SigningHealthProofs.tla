------------------------- MODULE SigningHealthProofs -------------------------
(***************************************************************************)
(* Theorems about the two controllers that look after one Securesign, for  *)
(* every number of faults and changes: type correctness, and that no write *)
(* of one undoes a write of the other or of the Securesign's operator.     *)
(*                                                                         *)
(* The argument: a worker whose copy is still the last version holds what  *)
(* the API server holds, in every field that its next write stores (the    *)
(* health controller's copy may lack a key that it failed to remove, but   *)
(* it then writes the status only).  The bound on the pods' names follows  *)
(* from Keycloak: each restart of Fulcio takes a Keycloak that went away   *)
(* and came back.                                                          *)
(***************************************************************************)
EXTENDS SigningHealth, TLAPS

WorkersTyped ==
    /\ ss \in Securesign /\ hc \in Worker /\ dp \in Worker /\ queued \in BOOLEAN

\* What a copy with the last resourceVersion says.
CopiesInv ==
    /\ hc.cur => ss.exists /\ hc.copy.ready = ss.ready /\ hc.copy.ca = ss.ca
    /\ hc.cur /\ hc.pc = "keys" => hc.copy = ss
    /\ dp.cur => dp.copy = ss

\* A pod that has crashed while Keycloak is ready has cost a change that no restart
\* has used up; the cache never runs ahead.
PodsInv ==
    /\ pod \in [id : 0..MaxChange, crashed : BOOLEAN]
    /\ podSeen \in [id : 0..MaxChange, crashed : BOOLEAN]
    /\ keycloak \in BOOLEAN /\ claim \in BOOLEAN /\ used \in 0..MaxChange
    /\ pod.id <= used /\ podSeen.id <= pod.id
    /\ pod.crashed /\ keycloak => pod.id < used
    /\ podSeen.id = pod.id /\ podSeen.crashed => pod.crashed

KeysTyped ==
    /\ keys \in Keys /\ keysSeen \in Keys
    /\ root \in Keys /\ rootSeen \in Keys /\ rootKeys \in Keys

\* The inductive invariant.
IInv == WorkersTyped /\ CopiesInv /\ PodsInv /\ KeysTyped

\* A step that neither undoes a write nor, where it costs no change, touches Ready.
Respects ==
    used' = used /\ ss.exists =>
        /\ ss'.exists /\ ss'.ready = ss.ready
        /\ ss.ca => ss'.ca
        /\ ss'.tsa => ss.tsa

-----------------------------------------------------------------------------
(* The workers and their copies *)

LEMMA IdleTyped == Idle \in Worker /\ ~Idle.cur /\ Absent \in Securesign
  BY DEF Idle, Worker, Absent, Securesign, Verdict

\* A worker goes to its next call, or its copy becomes old.
LEMMA Moved ==
    ASSUME NEW w \in Worker, NEW p \in {"idle", "keys", "fulcio", "claim", "status", "annotate",
                                       "extract", "check", "fix"}
    PROVE  /\ At(w, p) \in Worker /\ At(w, p).copy = w.copy /\ At(w, p).cur = w.cur
           /\ At(w, p).pc = p /\ At(w, p).issue = w.issue
           /\ Old(w) \in Worker /\ ~Old(w).cur
  BY DEF At, Old, Worker

\* It notes an issue, or changes its copy.
LEMMA Noted ==
    ASSUME NEW w \in Worker, NEW v \in BOOLEAN
    PROVE  LET n == [w EXCEPT !.issue = v] IN
           n \in Worker /\ n.copy = w.copy /\ n.cur = w.cur /\ n.pc = w.pc
  BY DEF Worker

LEMMA Recopied ==
    ASSUME NEW w \in Worker, NEW c \in Securesign
    PROVE  LET n == [w EXCEPT !.copy = c] IN
           n \in Worker /\ n.copy = c /\ n.cur = w.cur /\ n.pc = w.pc
  BY DEF Worker

LEMMA Fetched ==
    ASSUME ss \in Securesign, NEW p \in {"keys", "annotate", "fix"}
    PROVE  Fetch(p) \in Worker /\ Fetch(p).copy = ss /\ Fetch(p).pc = p
  BY DEF Fetch, Idle, Worker

LEMMA Written ==
    ASSUME ss \in Securesign, NEW w, w.copy \in Securesign
    PROVE  /\ Update(w) => /\ ss' \in Securesign /\ queued' = TRUE /\ used' = used
                           /\ ss'.exists = ss.exists /\ ss'.ready = ss.ready
                           /\ ss'.verdict = ss.verdict
                           /\ ss'.ca = w.copy.ca /\ ss'.tsa = w.copy.tsa
           /\ StatusUpdate(w) => /\ ss' \in Securesign /\ queued' = TRUE /\ used' = used
                                 /\ ss'.exists = ss.exists /\ ss'.ca = ss.ca /\ ss'.tsa = ss.tsa
                                 /\ ss'.ready = w.copy.ready
  BY DEF Update, StatusUpdate, Store, Securesign

LEMMA HealthKeeps ==
    ASSUME IInv, HealthController \/ Requeue
    PROVE  WorkersTyped' /\ CopiesInv' /\ Respects
<1>0. /\ ss \in Securesign /\ hc \in Worker /\ dp \in Worker /\ queued \in BOOLEAN /\ CopiesInv
      /\ hc.copy \in Securesign /\ dp.copy \in Securesign /\ hc.issue \in BOOLEAN
  BY DEF IInv, WorkersTyped, Worker
<1> USE IdleTyped
<1>1. CASE Reconcile
  <2>1. /\ UNCHANGED <<ss, dp>> /\ queued' = FALSE
        /\ hc' = Idle \/ (ss.exists /\ hc' = Fetch("keys"))
    BY <1>1 DEF Reconcile
  <2> QED BY <1>0, <2>1, Fetched DEF WorkersTyped, CopiesInv, Respects
<1>2. CASE Requeue
  BY <1>0, <1>2 DEF Requeue, WorkersTyped, CopiesInv, Respects
<1>3. CASE validateTUFKeys
  <2> DEFINE fixed == [At(hc, "fulcio") EXCEPT !.copy.tsa = FALSE]
             copy == [hc.copy EXCEPT !.tsa = FALSE]
             issue == [fixed EXCEPT !.issue = TRUE]
  <2>1. /\ copy \in Securesign /\ copy.ca = hc.copy.ca /\ copy.ready = hc.copy.ready
        /\ copy.tsa = FALSE
    BY <1>0 DEF Securesign
  <2>2. fixed = [At(hc, "fulcio") EXCEPT !.copy = copy]
    BY <1>0, Moved DEF Worker
  <2> HIDE DEF copy
  <2>3. /\ fixed \in Worker /\ fixed.copy = copy /\ fixed.cur = hc.cur /\ fixed.pc = "fulcio"
        /\ issue \in Worker /\ issue.copy = copy /\ issue.cur = hc.cur /\ issue.pc = "fulcio"
    <3>1. /\ At(hc, "fulcio") \in Worker /\ At(hc, "fulcio").cur = hc.cur
          /\ At(hc, "fulcio").pc = "fulcio"
      BY <1>0, Moved
    <3>2. /\ fixed \in Worker /\ fixed.copy = copy /\ fixed.cur = hc.cur
          /\ fixed.pc = "fulcio"
      BY ONLY <2>1, <2>2, <3>1, Recopied
    <3> HIDE DEF fixed
    <3> QED BY <3>2, Noted
  <2> HIDE DEF fixed, issue
  <2>4. CASE hc' = At(hc, "fulcio") /\ UNCHANGED <<ss, queued, dp, used>>
    BY <1>0, <2>4, Moved DEF WorkersTyped, CopiesInv, Respects
  <2>5. CASE hc' = fixed /\ Update(fixed) /\ dp' = Old(dp)
    <3>1. hc.cur /\ hc.copy = ss
      BY <1>0, <1>3, <2>3, <2>5 DEF Update, CopiesInv, validateTUFKeys
    <3>2. /\ ss' \in Securesign /\ queued' = TRUE /\ ss'.exists = ss.exists
          /\ ss'.ready = ss.ready /\ ss'.ca = ss.ca /\ ss'.tsa = FALSE
      BY <1>0, <2>1, <2>3, <2>5, <3>1, Written
    <3>3. Old(dp) \in Worker /\ ~Old(dp).cur BY <1>0, Moved
    <3> QED BY <1>0, <2>1, <2>3, <2>5, <3>1, <3>2, <3>3 DEF WorkersTyped, CopiesInv, Respects
  <2>6. CASE hc' = issue /\ Refused(hc) /\ UNCHANGED dp
    BY <1>0, <2>1, <2>3, <2>6 DEF Refused, WorkersTyped, CopiesInv, Respects
  <2> QED BY <1>3, <2>4, <2>5, <2>6 DEF validateTUFKeys, fixed, issue
<1>4. CASE validateFulcioKeycloakConnection
  <2> DEFINE at == At(hc, "claim")
             met == at.issue \/ (Stuck /\ Gone)
             new == [at EXCEPT !.issue = met]
  <2>1. new \in Worker /\ new.copy = hc.copy /\ new.cur = hc.cur /\ new.pc = "claim"
    <3>1. at \in Worker /\ at.copy = hc.copy /\ at.cur = hc.cur /\ at.pc = "claim"
      BY <1>0, Moved
    <3>2. met \in BOOLEAN OBVIOUS
    <3> HIDE DEF at, met
    <3> QED BY <3>1, <3>2, Noted
  <2>2. hc' = new /\ UNCHANGED <<ss, queued, dp, used>>
    BY <1>4 DEF validateFulcioKeycloakConnection
  <2> QED BY <1>0, <2>1, <2>2 DEF WorkersTyped, CopiesInv, Respects
<1>5. CASE validateEmailVerifiedClaim
  <2> DEFINE at == At(hc, "status")
             met == at.issue \/ ~(keycloak /\ claim)
             new == [at EXCEPT !.issue = met]
  <2>1. new \in Worker /\ new.copy = hc.copy /\ new.cur = hc.cur /\ new.pc = "status"
    <3>1. at \in Worker /\ at.copy = hc.copy /\ at.cur = hc.cur /\ at.pc = "status"
      BY <1>0, Moved
    <3>2. met \in BOOLEAN OBVIOUS
    <3> HIDE DEF at, met
    <3> QED BY <3>1, <3>2, Noted
  <2>2. hc' = new /\ UNCHANGED <<ss, queued, dp, used>>
    BY <1>5 DEF validateEmailVerifiedClaim
  <2> QED BY <1>0, <2>1, <2>2 DEF WorkersTyped, CopiesInv, Respects
<1>6. CASE updateSecuresignHealthStatus
  <2> DEFINE new == [hc EXCEPT !.copy.verdict = IF hc.issue THEN "failed" ELSE "passed"]
             copy == [hc.copy EXCEPT !.verdict = IF hc.issue THEN "failed" ELSE "passed"]
  <2>1. copy \in Securesign /\ copy.ready = hc.copy.ready
    BY <1>0 DEF Securesign, Verdict
  <2>2. new = [hc EXCEPT !.copy = copy] OBVIOUS
  <2> HIDE DEF copy
  <2>3. new.copy = copy /\ new.cur = hc.cur
    BY <1>0, <2>1, <2>2 DEF Worker
  <2> HIDE DEF new
  <2>4. hc' = Idle BY <1>6 DEF updateSecuresignHealthStatus
  <2>5. CASE StatusUpdate(new) /\ dp' = Old(dp)
    <3>1. hc.cur /\ hc.copy.ready = ss.ready
      BY <1>0, <2>3, <2>5 DEF StatusUpdate, CopiesInv
    <3>2. /\ ss' \in Securesign /\ queued' = TRUE /\ ss'.exists = ss.exists
          /\ ss'.ready = ss.ready /\ ss'.ca = ss.ca /\ ss'.tsa = ss.tsa
      BY <1>0, <2>1, <2>3, <2>5, <3>1, Written
    <3>3. Old(dp) \in Worker /\ ~Old(dp).cur BY <1>0, Moved
    <3> QED BY <1>0, <2>4, <2>5, <3>2, <3>3 DEF WorkersTyped, CopiesInv, Respects
  <2>6. CASE UNCHANGED <<ss, queued, dp>>
    BY <1>0, <2>4, <2>6 DEF WorkersTyped, CopiesInv, Respects
  <2> QED BY <1>6, <2>5, <2>6 DEF updateSecuresignHealthStatus, Refused, new
<1> QED BY <1>1, <1>2, <1>3, <1>4, <1>5, <1>6 DEF HealthController

LEMMA SigningKeeps ==
    ASSUME IInv, SigningStage
    PROVE  WorkersTyped' /\ CopiesInv' /\ Respects
<1>0. /\ ss \in Securesign /\ hc \in Worker /\ dp \in Worker /\ queued \in BOOLEAN /\ CopiesInv
      /\ hc.copy \in Securesign /\ dp.copy \in Securesign
  BY DEF IInv, WorkersTyped, Worker
<1> USE IdleTyped
<1>i. \A p \in {"extract", "check", "fulcio"} : At(Idle, p) \in Worker /\ ~At(Idle, p).cur
  BY Moved
<1>1. CASE reconcileRHTASConfig
  <2>1. ASSUME ~ss.exists, dp' = At(Idle, "extract"), UNCHANGED hc, NEW tsa \in BOOLEAN,
               Store([Absent EXCEPT !.exists = TRUE, !.ca = TRUE, !.tsa = tsa])
        PROVE  WorkersTyped' /\ CopiesInv' /\ Respects
    BY <1>0, <1>i, <2>1 DEF Store, Absent, Securesign, Verdict, WorkersTyped, CopiesInv, Respects
  <2>2. CASE ss.exists
    <3>1. UNCHANGED <<ss, queued, hc>> /\ dp' \in {At(Idle, "extract"), Fetch("annotate")}
      BY <1>1, <2>2 DEF reconcileRHTASConfig
    <3> QED BY <1>0, <1>i, <3>1, Fetched DEF WorkersTyped, CopiesInv, Respects
  <2> QED BY <1>1, <2>1, <2>2 DEF reconcileRHTASConfig
<1>2. CASE Annotate
  <2> DEFINE new == [dp EXCEPT !.copy.ca = TRUE]
             copy == [dp.copy EXCEPT !.ca = TRUE]
  <2>1. copy \in Securesign /\ copy.tsa = dp.copy.tsa /\ copy.ca = TRUE
    BY <1>0 DEF Securesign
  <2>2. new = [dp EXCEPT !.copy = copy] OBVIOUS
  <2> HIDE DEF copy
  <2>3. new.copy = copy /\ new.cur = dp.cur
    BY <1>0, <2>1, <2>2 DEF Worker
  <2> HIDE DEF new
  <2>4. dp' = At(Idle, "extract") BY <1>2 DEF Annotate
  <2>5. CASE Update(new) /\ hc' = Old(hc)
    <3>1. dp.cur /\ dp.copy = ss BY <1>0, <2>3, <2>5 DEF Update, CopiesInv
    <3> QED BY <1>0, <1>i, <2>1, <2>3, <2>4, <2>5, <3>1, Moved, Written
            DEF WorkersTyped, CopiesInv, Respects
  <2>6. CASE UNCHANGED <<ss, queued, hc>>
    BY <1>0, <1>i, <2>4, <2>6 DEF WorkersTyped, CopiesInv, Respects
  <2> QED BY <1>2, <2>5, <2>6 DEF Annotate, Refused, new
<1>3. CASE extractRHTASRootKeys \/ checkFulcioKeycloakConnectivity
  BY <1>0, <1>i, <1>3
  DEF extractRHTASRootKeys, checkFulcioKeycloakConnectivity, WorkersTyped, CopiesInv, Respects
<1>4. CASE checkAndFixTUFKeys
  BY <1>0, <1>i, <1>4, Fetched DEF checkAndFixTUFKeys, WorkersTyped, CopiesInv, Respects
<1>5. CASE FixTUFKeys
  <2> DEFINE new == [dp EXCEPT !.copy.tsa = FALSE]
             copy == [dp.copy EXCEPT !.tsa = FALSE]
  <2>1. copy \in Securesign /\ copy.ca = dp.copy.ca /\ copy.tsa = FALSE
    BY <1>0 DEF Securesign
  <2>2. new = [dp EXCEPT !.copy = copy] OBVIOUS
  <2> HIDE DEF copy
  <2>3. new.copy = copy /\ new.cur = dp.cur
    BY <1>0, <2>1, <2>2 DEF Worker
  <2> HIDE DEF new
  <2>4. dp' = At(Idle, "fulcio") BY <1>5 DEF FixTUFKeys
  <2>5. CASE Update(new) /\ hc' = Old(hc)
    <3>1. dp.cur /\ dp.copy = ss BY <1>0, <2>3, <2>5 DEF Update, CopiesInv
    <3> QED BY <1>0, <1>i, <2>1, <2>3, <2>4, <2>5, <3>1, Moved, Written
            DEF WorkersTyped, CopiesInv, Respects
  <2>6. CASE UNCHANGED <<ss, queued, hc>>
    BY <1>0, <1>i, <2>4, <2>6 DEF WorkersTyped, CopiesInv, Respects
  <2> QED BY <1>5, <2>5, <2>6 DEF FixTUFKeys, Refused, new
<1> QED BY <1>1, <1>2, <1>3, <1>4, <1>5 DEF SigningStage

LEMMA OthersKeep ==
    ASSUME IInv, Operate \/ Change \/ Crash \/ Sync \/ Restart
    PROVE  WorkersTyped' /\ CopiesInv' /\ Respects
<1>0. /\ ss \in Securesign /\ hc \in Worker /\ dp \in Worker /\ queued \in BOOLEAN /\ CopiesInv
      /\ used \in 0..MaxChange
  BY DEF IInv, WorkersTyped, PodsInv
<1> USE IdleTyped
<1>1. CASE Operate
  <2>1. hc' = Old(hc) /\ dp' = Old(dp) /\ used' # used
    BY <1>0, <1>1 DEF Operate, Spend
  <2>2. ss' \in Securesign /\ queued' = TRUE
    BY <1>0, <1>1 DEF Operate, Store, Securesign
  <2> QED BY <1>0, <2>1, <2>2, Moved DEF WorkersTyped, CopiesInv, Respects
<1>2. CASE Change \/ Crash \/ Sync
  BY <1>0, <1>2 DEF Change, Crash, Sync, WorkersTyped, CopiesInv, Respects
<1>3. CASE Restart
  <2>1. ss' = ss /\ hc' = Idle /\ dp' = Idle /\ queued' = ss.exists /\ ss.exists \in BOOLEAN
    BY <1>0, <1>3 DEF Restart, Securesign
  <2> QED BY <1>0, <2>1 DEF WorkersTyped, CopiesInv, Respects
<1> QED BY <1>1, <1>2, <1>3

-----------------------------------------------------------------------------
(* Pods, Keycloak and keys *)

\* Either controller may find the pod stuck; only the one that its cache names goes.
LEMMA RestartKeepsPods ==
    ASSUME PodsInv, RestartFulcio \/ UNCHANGED pod, UNCHANGED <<podSeen, keycloak, claim, used>>
    PROVE  PodsInv'
<1>1. CASE UNCHANGED pod
  BY <1>1 DEF PodsInv
<1>2. CASE Stuck /\ ~Gone /\ pod' = Successor
  <2>1. pod.crashed /\ keycloak /\ pod.id < used /\ podSeen.id = pod.id
    BY <1>2 DEF PodsInv, Stuck, Gone
  <2>2. pod.id \in 0..MaxChange /\ used \in 0..MaxChange
    BY DEF PodsInv
  <2>3. /\ pod' \in [id : 0..MaxChange, crashed : BOOLEAN]
        /\ pod'.id = pod.id + 1 /\ pod'.crashed = FALSE
    BY <1>2, <2>1, <2>2, HealthConstants DEF Successor
  <2>4. pod'.id <= used /\ podSeen.id # pod'.id /\ podSeen.id <= pod'.id
    BY <2>1, <2>2, <2>3
  <2> QED BY <2>3, <2>4 DEF PodsInv
<1> QED BY <1>1, <1>2 DEF RestartFulcio

\* Spending a change, with or without a write.
LEMMA SpendKeepsPods ==
    ASSUME PodsInv, Spend \/ UNCHANGED used, UNCHANGED <<pod, podSeen, keycloak, claim>>
    PROVE  PodsInv'
<1>1. used \in 0..MaxChange /\ pod.id \in 0..MaxChange
  BY DEF PodsInv
<1>2. used' \in 0..MaxChange /\ used <= used'
  BY <1>1, HealthConstants DEF Spend
<1>3. pod.id <= used' /\ (pod.crashed /\ keycloak => pod.id < used')
  BY <1>1, <1>2 DEF PodsInv
<1> QED BY <1>2, <1>3 DEF PodsInv

LEMMA ClusterKeepsPods == ASSUME IInv, Change \/ Crash \/ Sync \/ Restart PROVE PodsInv'
<1>0. PodsInv /\ used \in 0..MaxChange /\ pod.id \in 0..MaxChange
  BY DEF IInv, PodsInv
<1>1. CASE Change
  <2>1. used' = used + 1 /\ used' \in 0..MaxChange /\ pod.id < used'
    BY <1>0, <1>1, HealthConstants DEF Change, Spend, PodsInv
  <2>2. UNCHANGED <<pod, podSeen>> /\ keycloak' \in BOOLEAN /\ claim' \in BOOLEAN
    BY <1>0, <1>1 DEF Change, PodsInv
  <2> QED BY <1>0, <2>1, <2>2 DEF PodsInv
<1>2. CASE Crash
  <2>1. /\ pod' \in [id : 0..MaxChange, crashed : BOOLEAN] /\ pod'.id = pod.id
        /\ pod'.crashed /\ ~keycloak /\ UNCHANGED <<podSeen, keycloak, claim, used>>
    BY <1>0, <1>2 DEF Crash, PodsInv
  <2> QED BY <1>0, <2>1 DEF PodsInv
<1>3. CASE Sync
  <2>1. UNCHANGED <<pod, keycloak, claim, used>> /\ podSeen' \in {pod, podSeen}
    BY <1>3 DEF Sync
  <2> QED BY <1>0, <2>1 DEF PodsInv
<1>4. CASE Restart
  <2>1. used' = used + 1 /\ used' \in 0..MaxChange
    BY <1>0, <1>4, HealthConstants DEF Restart, Spend
  <2>2. pod.id <= used' /\ (pod.crashed /\ keycloak => pod.id < used')
    BY <1>0, <2>1 DEF PodsInv
  <2>3. podSeen' = pod /\ UNCHANGED <<pod, keycloak, claim>>
    BY <1>4 DEF Restart
  <2> QED BY <1>0, <2>1, <2>2, <2>3 DEF PodsInv
<1> QED BY <1>1, <1>2, <1>3, <1>4

LEMMA NextKeepsPods == ASSUME IInv, Next PROVE PodsInv'
<1>0. PodsInv BY DEF IInv
<1>1. CASE validateFulcioKeycloakConnection \/ checkFulcioKeycloakConnectivity
  <2>1. (RestartFulcio \/ UNCHANGED pod) /\ UNCHANGED <<podSeen, keycloak, claim, used>>
    BY <1>1 DEF validateFulcioKeycloakConnection, checkFulcioKeycloakConnectivity
  <2> QED BY <1>0, <2>1, RestartKeepsPods
<1>2. CASE \/ Reconcile \/ Requeue \/ validateTUFKeys \/ validateEmailVerifiedClaim
           \/ updateSecuresignHealthStatus \/ reconcileRHTASConfig \/ Annotate
           \/ extractRHTASRootKeys \/ checkAndFixTUFKeys \/ FixTUFKeys \/ Operate
  <2>1. UNCHANGED Cluster
    BY <1>2 DEF Reconcile, Requeue, validateTUFKeys, validateEmailVerifiedClaim,
         updateSecuresignHealthStatus, reconcileRHTASConfig, Annotate, extractRHTASRootKeys,
         checkAndFixTUFKeys, FixTUFKeys, Operate
  <2>2. Spend \/ UNCHANGED used
    BY <1>2 DEF Reconcile, Requeue, validateTUFKeys, validateEmailVerifiedClaim,
         updateSecuresignHealthStatus, reconcileRHTASConfig, Annotate, extractRHTASRootKeys,
         checkAndFixTUFKeys, FixTUFKeys, Operate, Refused, Update, StatusUpdate
  <2> QED BY <1>0, <2>1, <2>2, SpendKeepsPods DEF Cluster
<1> QED BY <1>1, <1>2, ClusterKeepsPods DEF Next, HealthController, SigningStage

LEMMA NextKeepsKeys == ASSUME IInv, Next PROVE KeysTyped'
<1>0. KeysTyped /\ used \in 0..MaxChange BY DEF IInv, PodsInv
<1>1. CASE extractRHTASRootKeys
  BY <1>0, <1>1 DEF extractRHTASRootKeys, KeysTyped, Cluster
<1>2. CASE Change
  <2>1. used + 2 \in 0..MaxChange + 1
    BY <1>0, <1>2, HealthConstants DEF Change, Spend
  <2>2. keys' \in Keys
    BY <1>0, <1>2, <2>1 DEF Change, KeysTyped, Keys
  <2> QED BY <1>0, <1>2, <2>2 DEF Change, KeysTyped, Roots
<1>3. CASE Sync
  <2>1. keysSeen' \in Keys
    BY <1>0, <1>3 DEF Sync, KeysTyped, Keys
  <2> QED BY <1>0, <1>3, <2>1 DEF Sync, KeysTyped
<1>4. CASE Restart
  BY <1>0, <1>4 DEF Restart, KeysTyped
<1>5. CASE HealthController \/ Requeue \/ Operate \/ Crash
  BY <1>0, <1>5 DEF HealthController, Reconcile, Requeue, validateTUFKeys,
     validateEmailVerifiedClaim, validateFulcioKeycloakConnection, updateSecuresignHealthStatus,
     Operate, Crash, KeysTyped, Cluster, Roots
<1>6. CASE \/ reconcileRHTASConfig \/ Annotate \/ checkAndFixTUFKeys \/ FixTUFKeys
           \/ checkFulcioKeycloakConnectivity
  BY <1>0, <1>6 DEF reconcileRHTASConfig, Annotate, checkAndFixTUFKeys, FixTUFKeys,
     checkFulcioKeycloakConnectivity, KeysTyped, Cluster, Roots
<1> QED BY <1>1, <1>2, <1>3, <1>4, <1>5, <1>6 DEF Next, SigningStage

-----------------------------------------------------------------------------
(* The theorems *)

LEMMA InitInv == Init => IInv
<1> SUFFICES ASSUME Init PROVE IInv
  OBVIOUS
<1>1. WorkersTyped /\ CopiesInv
  BY IdleTyped DEF Init, WorkersTyped, CopiesInv, Securesign, Verdict
<1>2. PodsInv
  BY HealthConstants DEF Init, PodsInv
<1>3. KeysTyped
  BY HealthConstants DEF Init, KeysTyped, Keys, NoKeys
<1> QED BY <1>1, <1>2, <1>3 DEF IInv

LEMMA NextKeepsInv == IInv /\ [Next]_vars => IInv' /\ [Respects]_vars
<1>1. ASSUME IInv, UNCHANGED vars PROVE IInv'
  BY <1>1 DEF IInv, vars, WorkersTyped, CopiesInv, PodsInv, KeysTyped
<1>2. ASSUME IInv, Next PROVE IInv' /\ Respects
  BY <1>2, HealthKeeps, SigningKeeps, OthersKeep, NextKeepsPods, NextKeepsKeys DEF Next, IInv
<1> QED BY <1>1, <1>2

\* Every reachable state satisfies the inductive invariant.
THEOREM Invariance == Spec => []IInv
<1>1. IInv /\ [Next]_vars => IInv' BY NextKeepsInv
<1> QED BY <1>1, InitInv, PTL DEF Spec

\* The Securesign, both controllers' copies of it, pods and root keys keep their
\* types; the names of Fulcio's pods stay within the bound because each restart
\* takes an outage of Keycloak.
THEOREM TypeCorrect == Spec => []TypeOK
<1>1. IInv => TypeOK
  <2> SUFFICES ASSUME IInv PROVE TypeOK
    OBVIOUS
  <2>1. pod \in Pod /\ podSeen \in Pod
    BY HealthConstants DEF IInv, PodsInv, Pod
  <2> QED BY <2>1 DEF IInv, WorkersTyped, PodsInv, KeysTyped, TypeOK
<1> QED BY <1>1, Invariance, PTL

\* No Update or StatusUpdate of either controller undoes what the other, or the
\* Securesign's operator, has written since the copy was read: the annotation stays,
\* a removed TUF key stays removed, and Ready is as its operator left it.
THEOREM WritesRespected == Spec => NoLostUpdate
<1>1. IInv /\ [Next]_vars => [Respects]_vars BY NextKeepsInv
<1> QED BY <1>1, Invariance, PTL DEF Spec, NoLostUpdate, Respects

=============================================================================
