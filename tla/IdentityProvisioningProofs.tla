--------------------- MODULE IdentityProvisioningProofs ---------------------
(***************************************************************************)
(* Theorems about the provisioning of Keycloak and of what logs in with    *)
(* it, for every number of faults, secrets and edits and every maximal     *)
(* database size: type correctness, that an analyzer with OIDC finds its   *)
(* realm and its clients, and that no pass replaces a secret in use.       *)
(*                                                                         *)
(* The argument: an administrator removes only what nothing else is below  *)
(* of, so realms and clients stay (Lasting).  Every way to the calls that  *)
(* make the analyzer leads through the ones that make its clients, and     *)
(* their failure is fatal there (OrderInv); a client has a secret only     *)
(* once it exists, and only a client that does not exist, or one with the  *)
(* placeholder, is given one (SecretsInv).                                 *)
(***************************************************************************)
EXTENDS IdentityProvisioning, TLAPS

\* What nobody removes.
Lasting == {"client", "t-realm", "frontend", "cli"}

\* The calls between the analyzer's clients and the analyzer.
Behind == {"rhtpa-database", "obc", "bucket", "analyzer"}

OrderInv ==
    /\ ClientsBeforeAnalyzer
    /\ pc \in Behind => {"t-realm", "frontend", "cli"} \subseteq has
    /\ pc = "cli" /\ ~steady => {"t-realm", "frontend"} \subseteq has

SecretsInv ==
    /\ "client" \notin has => secret["signer"] = NoSecret
    /\ "cli" \notin has => secret["cli"] = NoSecret

\* The inductive invariant.
IInv == TypeOK /\ OrderInv /\ SecretsInv

\* What a step may do to secrets: CredentialsKept's action.
Gentle ==
    used'.events = used.events =>
        \A c \in Client : secret[c] \in {NoSecret, Placeholder, secret'[c]}

-----------------------------------------------------------------------------
(* Keycloak's contents, the bounds and the database *)

LEMMA LastingStays == Removable \cap Lasting = {} /\ Lasting \subseteq Fact
<1>1. /\ Needs("t-read") = {"t-realm"} /\ Needs("builtin") = {"client"}
      /\ Needs("frontend-read") = {"t-read", "frontend"} /\ Needs("cli-read") = {"t-read", "cli"}
  BY DEF Needs
<1>2. {"t-read", "builtin", "frontend-read", "cli-read"} \subseteq Fact
  BY DEF Fact, SignerFacts, TrustifyFacts
<1>3. Leaf \cap Lasting = {} BY <1>1, <1>2 DEF Leaf, Lasting
<1>4. Lasting \subseteq Fact BY DEF Fact, SignerFacts, TrustifyFacts, Lasting
<1> QED BY <1>3, <1>4, RemovableAssumption

LEMMA Bounds ==
    /\ MaxFaults \in Nat /\ MaxEvents \in Nat /\ MaxSecrets \in Nat
    /\ MaxSize \in Nat /\ 2 <= MaxSize
<1>1. /\ MaxFaults \in Nat /\ MaxEvents \in Nat /\ MaxSecrets \in Nat
      /\ MaxSize \in Nat /\ MaxSize # 0 /\ MaxSize # 1
  BY IdentityConstants, Zenon
<1> QED BY <1>1

Used == [faults : 0..MaxFaults, events : 0..MaxEvents]

LEMMA FaultSpent ==
    ASSUME used \in Used, Spend("faults", MaxFaults)
    PROVE  used' \in Used /\ used'.events = used.events
<1>1. used.faults \in 0..MaxFaults /\ used.faults < MaxFaults BY DEF Used, Spend
<1>2. used.faults + 1 \in 0..MaxFaults BY <1>1, Bounds
<1> QED BY <1>2 DEF Used, Spend

LEMMA EventSpent ==
    ASSUME used \in Used, Spend("events", MaxEvents)
    PROVE  used' \in Used /\ used'.events # used.events
<1>1. used.events \in 0..MaxEvents /\ used.events < MaxEvents BY DEF Used, Spend
<1>2. used.events + 1 \in 0..MaxEvents /\ used.events + 1 # used.events
  BY <1>1, Bounds
<1> QED BY <1>2 DEF Used, Spend

\* A generated secret is one, and nobody else's changes.
LEMMA IssueTyped ==
    ASSUME TypeOK, NEW c \in Client, Issue(c)
    PROVE  /\ secret' \in [Client -> Secret] /\ issued' \in 0..MaxSecrets
           /\ \A d \in Client : d # c => secret'[d] = secret[d]
<1>1. issued \in 0..MaxSecrets /\ issued < MaxSecrets /\ issued' = issued + 1
  BY DEF TypeOK, Issue
<1>2. issued' \in 0..MaxSecrets /\ 2 + issued' \in Secret
  BY <1>1, Bounds DEF Secret
<1> QED BY <1>2 DEF TypeOK, Issue

\* The database's PVC never grows beyond its maximum.
LEMMA SizeBounded ==
    ASSUME size \in 0..MaxSize
    PROVE  autoExpandPVC \in 0..MaxSize /\ 2 \in 0..MaxSize
<1>1. 2 \in 0..MaxSize BY Bounds
<1>2. CASE full /\ size < MaxSize
  <2>1. 2 * size \in Nat /\ MaxSize \in Nat BY Bounds
  <2> DEFINE S == {2 * size, MaxSize}
  <2>2. \E x \in S : \A y \in S : x <= y BY <2>1
  <2>3. Min(S) \in S /\ \A y \in S : Min(S) <= y BY <2>2 DEF Min
  <2>4. Min(S) \in Nat /\ Min(S) <= MaxSize BY <2>1, <2>3
  <2>5. autoExpandPVC = Min(S) BY <1>2 DEF autoExpandPVC
  <2> HIDE DEF S
  <2> QED BY <1>1, <2>4, <2>5, Bounds
<1>3. CASE ~(full /\ size < MaxSize) BY <1>1, <1>3 DEF autoExpandPVC
<1> QED BY <1>2, <1>3

-----------------------------------------------------------------------------
(* What the calls keep *)

\* A step that removes nothing lasting, leads to no call behind the clients and
\* configures no analyzer.
LEMMA Elsewhere ==
    ASSUME OrderInv, has \cap Lasting \subseteq has', tpa'.configured => tpa.configured,
           pc' \notin Behind \cup {"cli"}
    PROVE  OrderInv'
  BY DEF OrderInv, ClientsBeforeAnalyzer, Lasting

\* A step that leaves the secrets alone.
LEMMA SecretsAlone ==
    ASSUME TypeOK, SecretsInv, has \cap Lasting \subseteq has', secret' = secret
    PROVE  SecretsInv' /\ Gentle
  BY DEF TypeOK, SecretsInv, Gentle, Lasting

\* The bounds after a call that may have failed.
LEMMA OutcomeTyped ==
    ASSUME NEW reqs, NEW k, NEW next, NEW ok, NEW failed, used \in Used,
           Outcome(reqs, k, next, ok, failed)
    PROVE  used' \in Used /\ next \in {ok, failed, "idle"}
  BY FaultSpent DEF Outcome

LEMMA CallKeeps ==
    ASSUME IInv, NEW at, NEW reqs, NEW ok, NEW failed, Call(at, reqs, ok, failed),
           Len(reqs) \in Nat, \A i \in 1..Len(reqs) : reqs[i] \in Fact,
           ok \notin Behind \cup {"cli"}, failed \notin Behind \cup {"cli"}
    PROVE  IInv' /\ Gentle
<1>1. PICK k \in 0..Len(reqs) :
        Outcome(reqs, k, pc', ok, failed) /\ has' = has \cup Reached(reqs, k)
  BY DEF Call
<1>2. Reached(reqs, k) \subseteq Fact BY <1>1 DEF Reached
<1>3. used' \in Used /\ pc' \notin Behind \cup {"cli"}
  BY <1>1, OutcomeTyped DEF IInv, TypeOK, Used, Behind
<1>4. TypeOK'
  BY <1>1, <1>2, <1>3 DEF IInv, TypeOK, Used, Call, secrets, analyzer
<1>5. OrderInv' BY <1>1, <1>3, Elsewhere DEF IInv, Call, analyzer
<1>6. SecretsInv' /\ Gentle BY <1>1, SecretsAlone DEF IInv, Call, secrets
<1> QED BY <1>4, <1>5, <1>6 DEF IInv

LEMMA ApplyKeeps ==
    ASSUME IInv, NEW at, NEW objects, NEW ok, NEW failed, Apply(at, objects, ok, failed),
           Len(objects) \in Nat, \A i \in 1..Len(objects) : objects[i] \in Kube,
           ok \in Behind => at \in Behind, ok # "cli", failed \notin Behind \cup {"cli"}
    PROVE  IInv' /\ Gentle
<1>1. /\ pc = at /\ used \in Used
      /\ UNCHANGED <<realm, installed, has, secret, issued, redirect, stored, tpa, size, full, steady>>
  BY DEF IInv, TypeOK, Used, Apply, keycloak, secrets, analyzer
<1>2. PICK k \in 0..Len(objects) : made' = made \cup Reached(objects, k)
  BY DEF Apply
<1>3. used' \in Used /\ pc' \in {ok, failed, "idle"}
  BY <1>1, FaultSpent DEF Apply
<1>4. made' \subseteq Kube BY <1>2 DEF Reached, IInv, TypeOK
<1>5. TypeOK' BY <1>1, <1>3, <1>4 DEF IInv, TypeOK, Used
<1>6. OrderInv' BY <1>1, <1>3 DEF IInv, OrderInv, ClientsBeforeAnalyzer, Behind
<1>7. SecretsInv' /\ Gentle BY <1>1, SecretsAlone DEF IInv
<1> QED BY <1>5, <1>6, <1>7 DEF IInv

LEMMA SigningStage == Signing \notin Behind \cup {"cli"}
  BY DEF Signing, Behind

LEMMA KubeCallsKeep ==
    ASSUME IInv,
           \/ ensureKeycloakTLS \/ ensureManagedPostgreSQL \/ reconcileManagedKeycloak
           \/ reconcileRHTASConfig \/ PushSigning \/ EnsureBucket \/ ReadBucket
    PROVE  IInv' /\ Gentle
<1>1. CASE ensureKeycloakTLS
  <2>1. <<"certificate">>[1] \in Kube /\ Len(<<"certificate">>) = 1 BY DEF Kube
  <2> DEFINE ok == IF "tls" \in made THEN "database" ELSE "idle"
  <2>2. ok \notin Behind /\ ok # "cli" /\ "idle" \notin Behind \cup {"cli"} BY DEF Behind
  <2>3. Apply("tls", <<"certificate">>, ok, "idle") BY <1>1 DEF ensureKeycloakTLS
  <2> HIDE DEF ok
  <2> QED BY <2>1, <2>2, <2>3, ApplyKeeps
<1>2. CASE ensureManagedPostgreSQL
  <2>1. Len(Database) \in Nat /\ \A i \in 1..Len(Database) : Database[i] \in Kube
    BY DEF Kube, Database
  <2>2. "keycloak" \notin Behind /\ "idle" \notin Behind \cup {"cli"} BY DEF Behind
  <2>3. Apply("database", Database, "keycloak", "idle") BY <1>2 DEF ensureManagedPostgreSQL
  <2> QED BY <2>1, <2>2, <2>3, ApplyKeeps
<1>3. CASE reconcileManagedKeycloak
  <2>1. <<"keycloak">>[1] \in Kube /\ Len(<<"keycloak">>) = 1 BY DEF Kube
  <2> DEFINE ok == IF "ready" \in made THEN "realm" ELSE "idle"
  <2>2. ok \notin Behind /\ ok # "cli" /\ "idle" \notin Behind \cup {"cli"} BY DEF Behind
  <2>3. Apply("keycloak", <<"keycloak">>, ok, "idle") BY <1>3 DEF reconcileManagedKeycloak
  <2> HIDE DEF ok
  <2> QED BY <2>1, <2>2, <2>3, ApplyKeeps
<1>4. CASE reconcileRHTASConfig
  <2>1. <<"securesign">>[1] \in Kube /\ Len(<<"securesign">>) = 1 BY DEF Kube
  <2>2. "sign-secret" \notin Behind \cup {"cli"} BY DEF Behind
  <2>3. Apply("securesign", <<"securesign">>, "sign-secret", "sign-secret")
    BY <1>4 DEF reconcileRHTASConfig
  <2> QED BY <2>1, <2>2, <2>3, ApplyKeeps
<1>5. CASE PushSigning
  <2>1. <<"keyless">>[1] \in Kube /\ Len(<<"keyless">>) = 1 BY DEF Kube
  <2>2. "rhtpa" \notin Behind \cup {"cli"} BY DEF Behind
  <2>3. Apply("push", <<"keyless">>, "rhtpa", "rhtpa") BY <1>5 DEF PushSigning
  <2> QED BY <2>1, <2>2, <2>3, ApplyKeeps
<1>6. CASE EnsureBucket
  <2>1. <<"obc">>[1] \in Kube /\ Len(<<"obc">>) = 1 BY DEF Kube
  <2>2. "obc" \in Behind /\ "idle" \notin Behind \cup {"cli"} BY DEF Behind
  <2>3. Apply("obc", <<"obc">>, "bucket", "idle") BY <1>6 DEF EnsureBucket
  <2> QED BY <2>1, <2>2, <2>3, ApplyKeeps
<1>7. CASE ReadBucket
  <2>1. Len(<<>>) = 0 OBVIOUS
  <2> DEFINE ok == IF "bucket" \in made THEN "analyzer" ELSE "idle"
  <2>2. "bucket" \in Behind /\ ok # "cli" /\ "idle" \notin Behind \cup {"cli"} BY DEF Behind
  <2>3. Apply("bucket", <<>>, ok, "idle") BY <1>7 DEF ReadBucket
  <2> HIDE DEF ok
  <2> QED BY <2>1, <2>2, <2>3, ApplyKeeps
<1> QED BY <1>1, <1>2, <1>3, <1>4, <1>5, <1>6, <1>7

\* A step to a call that is not behind the clients, with nothing else touched.
LEMMA SkipKeeps ==
    ASSUME IInv, UNCHANGED <<realm, installed, made, keycloak, stored, analyzer, used>>,
           steady' \in BOOLEAN, pc' \notin Behind \cup {"cli"}
    PROVE  IInv' /\ Gentle
<1>1. UNCHANGED <<has, secret, issued, redirect, tpa, size, full>>
  BY DEF keycloak, secrets, analyzer
<1>2. TypeOK' BY <1>1 DEF IInv, TypeOK
<1>3. OrderInv' BY <1>1, Elsewhere DEF IInv
<1>4. SecretsInv' /\ Gentle BY <1>1, SecretsAlone DEF IInv
<1> QED BY <1>2, <1>3, <1>4 DEF IInv

LEMMA OAuthKeeps == ASSUME IInv, configureOpenShiftOAuth PROVE IInv' /\ Gentle
<1>0. /\ {"oauth-client", "idp", "profile", "t-oauth-client", "t-idp", "t-profile"} \subseteq Fact
      /\ {"profile", "t-oauth", "t-profile"} \cap (Behind \cup {"cli"}) = {}
  BY DEF Fact, SignerFacts, TrustifyFacts, Behind
<1>1. CASE Call("oauth", <<"oauth-client", "idp">>, "profile", "t-oauth")
  BY <1>0, <1>1, CallKeeps
<1>2. CASE Call("profile", <<"profile">>, "t-oauth", "t-oauth")
  BY <1>0, <1>2, CallKeeps
<1>3. CASE /\ pc' = "t-oauth"
           /\ UNCHANGED <<realm, installed, made, keycloak, stored, analyzer, steady, used>>
  <2>1. steady' \in BOOLEAN BY <1>3 DEF IInv, TypeOK
  <2> QED BY <1>0, <1>3, <2>1, SkipKeeps
<1>4. CASE Call("t-oauth", <<"t-oauth-client", "t-idp">>, "t-profile", Signing)
  BY <1>0, <1>4, CallKeeps, SigningStage
<1>5. CASE Call("t-profile", <<"t-profile">>, Signing, Signing)
  BY <1>0, <1>5, CallKeeps, SigningStage
<1> QED
  BY <1>1, <1>2, <1>3, <1>4, <1>5
  DEF configureOpenShiftOAuth, addOpenShiftIdentityProvider, configureRealmProfileSettings

LEMMA KeycloakCallsKeep ==
    ASSUME IInv,
           \/ configureKeycloakEmailMapper \/ ensureTrustifyRealmAndOIDC
           \/ ensureTrustifyReadOnlyScope \/ ensureTrustifyCreateScope
    PROVE  IInv' /\ Gentle
<1>0. /\ {"email", "verified", "audience", "t-realm", "t-read", "t-create"} \subseteq Fact
      /\ {"push", "rhtpa", "read-scope", "idle", "create-scope", "frontend"}
           \cap (Behind \cup {"cli"}) = {}
  BY DEF Fact, SignerFacts, TrustifyFacts, Behind
<1>1. CASE Call("sign-mappers", SigningMappers, "push", "rhtpa")
  <2>1. Len(SigningMappers) \in Nat /\ \A i \in 1..Len(SigningMappers) : SigningMappers[i] \in Fact
    <3>1. CASE "bad-verified" \in has
      <4>1. SigningMappers = <<"email", "audience">> BY <3>1 DEF SigningMappers
      <4> QED BY <1>0, <4>1
    <3>2. CASE "bad-verified" \notin has
      <4>1. SigningMappers = <<"email", "verified", "audience">> BY <3>2 DEF SigningMappers
      <4> QED BY <1>0, <4>1
    <3> QED BY <3>1, <3>2
  <2> QED BY <1>0, <1>1, <2>1, CallKeeps
<1>2. CASE Call("trustify", <<"t-realm">>, "read-scope", "idle")
  BY <1>0, <1>2, CallKeeps
<1>3. CASE Call("read-scope", <<"t-read">>, "create-scope", "create-scope")
  BY <1>0, <1>3, CallKeeps
<1>4. CASE Call("create-scope", <<"t-create">>, "frontend", "frontend")
  BY <1>0, <1>4, CallKeeps
<1> QED
  BY <1>1, <1>2, <1>3, <1>4
  DEF configureKeycloakEmailMapper, ensureTrustifyRealmAndOIDC, ensureTrustifyReadOnlyScope,
      ensureTrustifyCreateScope

\* A change of the signer's realm alone.
LEMMA SignerKeeps ==
    ASSUME IInv, has' \subseteq has \cup SignerFacts, has \cap Lasting \subseteq has',
           used' \in Used, pc' \notin Behind \cup {"cli"},
           UNCHANGED <<realm, installed, made, secrets, redirect, stored, analyzer, steady>>
    PROVE  IInv' /\ Gentle
<1>1. UNCHANGED <<secret, issued, tpa, size, full>> BY DEF secrets, analyzer
<1>2. has' \subseteq Fact BY DEF IInv, TypeOK, Fact
<1>3. TypeOK' BY <1>1, <1>2 DEF IInv, TypeOK, Used
<1>4. OrderInv' BY <1>1, Elsewhere DEF IInv
<1>5. SecretsInv' /\ Gentle BY <1>1, SecretsAlone DEF IInv
<1> QED BY <1>3, <1>4, <1>5 DEF IInv

LEMMA MappersKeep ==
    ASSUME IInv, EnsureClientMappers \/ ensureEmailVerifiedClientScope
    PROVE  IInv' /\ Gentle
<1>0. used \in Used BY DEF IInv, TypeOK, Used
<1>1. CASE EnsureClientMappers
  <2> DEFINE reqs == <<"email", "verified">>
  <2>1. PICK k \in 0..2 :
          /\ Outcome(reqs, k, pc', "scope", "idle")
          /\ \/ k = 0 /\ UNCHANGED has
             \/ k = 1 /\ has' \in {has \cup {"email"}, (has \cup {"email"}) \ {"bad-verified"}}
             \/ k = 2 /\ has' = (has \cup Reached(reqs, 2)) \ {"bad-verified"}
    BY <1>1 DEF EnsureClientMappers
  <2>2. used' \in Used /\ pc' \notin Behind \cup {"cli"}
    BY <1>0, <2>1, OutcomeTyped DEF Behind
  <2>3. Reached(reqs, 2) \subseteq SignerFacts BY DEF Reached, SignerFacts
  <2>4. "email" \in SignerFacts /\ "bad-verified" \notin Lasting BY DEF SignerFacts, Lasting
  <2> HIDE DEF reqs
  <2>5. has' \subseteq has \cup SignerFacts /\ has \cap Lasting \subseteq has'
    BY <2>1, <2>3, <2>4
  <2> QED BY <1>1, <2>2, <2>5, SignerKeeps DEF EnsureClientMappers
<1>2. CASE ensureEmailVerifiedClientScope
  <2>1. PICK k \in 0..4 :
          /\ Outcome(ScopeRequests, k, pc', "secret", "secret")
          /\ has' \in {has \cup Reached(ScopeRequests, k),
                       (has \cup Reached(ScopeRequests, k)) \ {"builtin"}}
    BY <1>2 DEF ensureEmailVerifiedClientScope
  <2>2. used' \in Used /\ pc' \notin Behind \cup {"cli"}
    BY <1>0, <2>1, OutcomeTyped DEF Behind
  <2>3. Reached(ScopeRequests, k) \subseteq SignerFacts
    <3>1. \A i \in 1..4 : ScopeRequests[i] \in SignerFacts BY DEF ScopeRequests, SignerFacts
    <3> QED BY <2>1, <3>1 DEF Reached
  <2>4. "builtin" \notin Lasting BY DEF Lasting
  <2>5. has' \subseteq has \cup SignerFacts /\ has \cap Lasting \subseteq has'
    BY <2>1, <2>3, <2>4
  <2> QED BY <1>2, <2>2, <2>5, SignerKeeps DEF ensureEmailVerifiedClientScope
<1> QED BY <1>1, <1>2

\* Only a client that did not exist is given a secret.
LEMMA RealmKeeps == ASSUME IInv, EnsureRealmAndClient PROVE IInv' /\ Gentle
<1>0. used \in Used /\ TypeOK /\ OrderInv /\ SecretsInv
      /\ UNCHANGED <<realm, installed, made, redirect, stored, analyzer, steady>>
  BY DEF IInv, TypeOK, Used, EnsureRealmAndClient
<1>1. CASE UNCHANGED secrets
  <2>1. used' \in Used /\ pc' \notin Behind \cup {"cli"}
    <3>1. CASE \E k \in 0..2 : Outcome(<<"realm", "client">>, k, pc', "mappers", "idle")
      BY <1>0, <3>1, OutcomeTyped DEF Behind
    <3>2. CASE pc' \in {"mappers", "idle"} /\ (UNCHANGED used \/ Spend("faults", MaxFaults))
      BY <1>0, <3>2, FaultSpent DEF Behind
    <3> QED BY <3>1, <3>2 DEF EnsureRealmAndClient
  <2>2. has' \in {has, has \cup {"realm"}, has \cup {"realm", "client", "builtin"}}
    BY DEF EnsureRealmAndClient
  <2>3. {"realm", "client", "builtin"} \subseteq SignerFacts BY DEF SignerFacts
  <2>4. has' \subseteq has \cup SignerFacts /\ has \cap Lasting \subseteq has' BY <2>2, <2>3
  <2> QED BY <1>0, <1>1, <2>1, <2>4, SignerKeeps
<1>2. CASE /\ "client" \notin has /\ Issue("signer")
           /\ has' = has \cup {"realm", "client", "builtin"}
           /\ \/ pc' = "mappers" /\ UNCHANGED used
              \/ pc' = "idle" /\ Spend("faults", MaxFaults)
  <2>1. used' \in Used /\ pc' \notin Behind \cup {"cli"}
    BY <1>0, <1>2, FaultSpent DEF Behind
  <2>2. UNCHANGED <<tpa, size, full>> BY <1>0 DEF analyzer
  <2>3. {"realm", "client", "builtin"} \subseteq Fact BY DEF Fact, SignerFacts
  <2>4. /\ secret' \in [Client -> Secret] /\ issued' \in 0..MaxSecrets
        /\ secret'["cli"] = secret["cli"]
    BY <1>0, <1>2, IssueTyped DEF Client
  <2>5. TypeOK' BY <1>0, <1>2, <2>1, <2>2, <2>3, <2>4 DEF TypeOK, Used
  <2>6. OrderInv' BY <1>0, <1>2, <2>1, <2>2, Elsewhere
  <2>7. SecretsInv' BY <1>0, <1>2, <2>4 DEF SecretsInv
  <2>8. Gentle BY <1>0, <1>2, <2>4 DEF SecretsInv, Gentle, Client
  <2> QED BY <2>5, <2>6, <2>7, <2>8 DEF IInv
<1> QED BY <1>1, <1>2 DEF EnsureRealmAndClient

\* Only a placeholder is replaced.
LEMMA SecretKeeps ==
    ASSUME IInv, NEW at, NEW ok, NEW failed, updateKeycloakClientSecret(at, ok, failed),
           {ok, failed} \cap (Behind \cup {"cli"}) = {}
    PROVE  IInv' /\ Gentle
<1>0. /\ used \in Used /\ TypeOK /\ OrderInv /\ SecretsInv
      /\ UNCHANGED <<realm, installed, made, has, redirect, tpa, size, full, steady>>
  BY DEF IInv, TypeOK, Used, updateKeycloakClientSecret, analyzer
<1>1. /\ pc' \in {ok, failed, "idle"} /\ (UNCHANGED used \/ Spend("faults", MaxFaults))
      /\ \/ UNCHANGED secrets
         \/ "client" \in has /\ secret["signer"] = Placeholder /\ Issue("signer")
      /\ stored' \in {stored, [stored EXCEPT !["signer"] = secret'["signer"]]}
  BY DEF updateKeycloakClientSecret
<1>2. used' \in Used /\ pc' \notin Behind \cup {"cli"}
  BY <1>0, <1>1, FaultSpent DEF Behind
<1>3. /\ secret' \in [Client -> Secret] /\ issued' \in 0..MaxSecrets
      /\ secret'["cli"] = secret["cli"]
      /\ \/ secret'["signer"] = secret["signer"]
         \/ "client" \in has /\ secret["signer"] = Placeholder
  <2>1. CASE UNCHANGED secrets BY <1>0, <2>1 DEF TypeOK, secrets
  <2>2. CASE "client" \in has /\ secret["signer"] = Placeholder /\ Issue("signer")
    BY <1>0, <2>2, IssueTyped DEF Client
  <2> QED BY <1>1, <2>1, <2>2
<1>4. stored' \in [Client -> Secret] BY <1>0, <1>1, <1>3 DEF TypeOK, Client
<1>5. TypeOK' BY <1>0, <1>2, <1>3, <1>4 DEF TypeOK, Used
<1>6. OrderInv' BY <1>0, <1>2, Elsewhere
<1>7. SecretsInv' BY <1>0, <1>3 DEF SecretsInv
<1>8. Gentle BY <1>3 DEF Gentle, Client
<1> QED BY <1>5, <1>6, <1>7, <1>8 DEF IInv

LEMMA SigningSecretsKeep ==
    ASSUME IInv, StoreSecret \/ SigningSecret
    PROVE  IInv' /\ Gentle
<1>0. {"oauth", "idle", "sign-mappers", "rhtpa"} \cap (Behind \cup {"cli"}) = {}
  BY DEF Behind
<1>1. CASE updateKeycloakClientSecret("secret", "oauth", "idle") BY <1>0, <1>1, SecretKeeps
<1>2. CASE updateKeycloakClientSecret("sign-secret", "sign-mappers", "rhtpa")
  BY <1>0, <1>2, SecretKeeps
<1>3. CASE /\ pc' = "rhtpa"
           /\ UNCHANGED <<realm, installed, made, keycloak, stored, analyzer, steady, used>>
  <2>1. steady' \in BOOLEAN BY <1>3 DEF IInv, TypeOK
  <2> QED BY <1>0, <1>3, <2>1, SkipKeeps
<1> QED BY <1>1, <1>2, <1>3 DEF StoreSecret, SigningSecret

-----------------------------------------------------------------------------
(* The analyzer *)

LEMMA AnalyzerStageKeeps == ASSUME IInv, reconcileRHTPAConfig PROVE IInv' /\ Gentle
<1>0. /\ used \in Used /\ TypeOK /\ OrderInv /\ SecretsInv
      /\ UNCHANGED <<realm, installed, made, has, secret, issued, redirect, stored, size, full>>
  BY DEF IInv, TypeOK, Used, reconcileRHTPAConfig, keycloak, secrets
<1>1. /\ pc' \in {"read-scope", "redirect", "trustify", "idle"}
      /\ UNCHANGED used \/ Spend("faults", MaxFaults)
      /\ tpa' \in {tpa, [tpa EXCEPT !.life = IF Exists THEN "deleting" ELSE @]}
  BY DEF reconcileRHTPAConfig
<1>2. used' \in Used /\ pc' \notin Behind \cup {"cli"}
  BY <1>0, <1>1, FaultSpent DEF Behind
<1>3. steady' \in BOOLEAN BY <1>0 DEF reconcileRHTPAConfig, TypeOK
<1>4. /\ tpa' \in [life : {"absent", "live", "deleting"}, configured : BOOLEAN]
      /\ tpa'.configured = tpa.configured
  BY <1>0, <1>1 DEF TypeOK
<1>5. TypeOK' BY <1>0, <1>2, <1>3, <1>4 DEF TypeOK, Used
<1>6. OrderInv' BY <1>0, <1>2, <1>4, Elsewhere
<1>7. SecretsInv' /\ Gentle BY <1>0, SecretsAlone
<1> QED BY <1>5, <1>6, <1>7 DEF IInv

\* A client is made with a secret only while there is none; a call that cannot make
\* it goes on only for an analyzer that is configured already.
LEMMA ClientKeeps ==
    ASSUME IInv, NEW c \in {"frontend", "cli"}, NEW next, ensureTrustifyOIDCClient(c, next),
           c = "frontend" => next = "cli", c = "cli" => next = AfterCLI
    PROVE  IInv' /\ Gentle
<1>0. /\ used \in Used /\ TypeOK /\ OrderInv /\ SecretsInv
      /\ UNCHANGED <<realm, installed, made, tpa, size, full, steady>>
      /\ pc = c /\ steady \in BOOLEAN
  BY DEF IInv, TypeOK, Used, ensureTrustifyOIDCClient, analyzer
<1>1. CASE /\ UNCHANGED <<keycloak, stored>> /\ (UNCHANGED used \/ Spend("faults", MaxFaults))
           /\ pc' \in {OnError(next), "idle"}
  <2>1. used' \in Used BY <1>0, <1>1, FaultSpent
  <2>2. UNCHANGED <<has, secret, issued, redirect>> BY <1>1 DEF keycloak, secrets
  <2>3. TypeOK' BY <1>0, <1>1, <2>1, <2>2 DEF TypeOK, Used
  <2>4. pc' = "idle" \/ (steady /\ pc' \in {"cli", "assign"})
    BY <1>1 DEF OnError, AfterCLI
  <2>5. OrderInv' BY <1>0, <2>2, <2>4 DEF OrderInv, ClientsBeforeAnalyzer, Behind
  <2>6. SecretsInv' /\ Gentle BY <1>0, <2>2, SecretsAlone
  <2> QED BY <2>3, <2>5, <2>6 DEF IInv
<1>2. CASE /\ "t-realm" \in has /\ (UNCHANGED used \/ Spend("faults", MaxFaults))
           /\ pc' \in {next, OnError(next), "idle"}
           /\ has' \in {has \cup {c}, has \cup {c} \cup {ReadScope(c)}}
           /\ secret' = WithSecret(c) /\ stored' \in {stored, WithStored(c)} /\ UNCHANGED issued
           /\ redirect' \in {redirect, "fallback"}
  <2>1. used' \in Used /\ used'.events = used.events BY <1>0, <1>2, FaultSpent
  <2>2. {c, ReadScope(c)} \subseteq Fact
    BY DEF ReadScope, Fact, TrustifyFacts
  <2>3. has' \subseteq Fact /\ has \cup {c} \subseteq has' BY <1>0, <1>2, <2>2 DEF TypeOK
  <2>4. generateRandomString \in Secret BY Bounds DEF generateRandomString, Secret
  <2>5. secret' \in [Client -> Secret] /\ secret'["signer"] = secret["signer"]
    BY <1>0, <1>2, <2>4 DEF TypeOK, WithSecret, Client
  <2>6. stored' \in [Client -> Secret]
    BY <1>0, <1>2, <2>5 DEF TypeOK, WithStored, Client
  <2>7. (c = "cli" /\ "cli" \notin has) \/ secret' = secret BY <1>2 DEF WithSecret
  <2>8. redirect' \in {"none", "fallback", "host"} BY <1>0, <1>2 DEF TypeOK
  <2>9. TypeOK' BY <1>0, <1>2, <2>1, <2>3, <2>5, <2>6, <2>8 DEF TypeOK, Used
  <2>10. pc' = "idle" \/ (pc' = "cli" /\ c = "frontend") \/ pc' = "assign"
         \/ (pc' = "rhtpa-database" /\ c = "cli" /\ ~steady)
    BY <1>2 DEF OnError, AfterCLI
  <2>11. OrderInv'
    BY <1>0, <1>2, <2>3, <2>10 DEF OrderInv, ClientsBeforeAnalyzer, Behind
  <2>12. SecretsInv' /\ Gentle
    <3>1. CASE secret' = secret BY <1>0, <2>3, <3>1, SecretsAlone
    <3>2. CASE c = "cli" /\ "cli" \notin has
      BY <1>0, <2>3, <2>5, <3>2 DEF SecretsInv, Gentle, Client
    <3> QED BY <2>7, <3>1, <3>2
  <2> QED BY <2>9, <2>11, <2>12 DEF IInv
<1> QED BY <1>1, <1>2 DEF ensureTrustifyOIDCClient

LEMMA AssignKeeps == ASSUME IInv, assignScopeToTrustifyClients PROVE IInv' /\ Gentle
<1>0. /\ used \in Used /\ TypeOK /\ OrderInv /\ SecretsInv
      /\ UNCHANGED <<realm, installed, made, secret, issued, redirect, stored, tpa, size, full, steady>>
      /\ pc' = "redirect"
  BY DEF IInv, TypeOK, Used, assignScopeToTrustifyClients, secrets, analyzer
<1>1. /\ UNCHANGED used \/ Spend("faults", MaxFaults)
      /\ has \subseteq has'
      /\ has' \subseteq has \cup {"frontend-read", "cli-read", "cli-create"} \cup ServiceAccountRole
  BY DEF assignScopeToTrustifyClients
<1>2. {"frontend-read", "cli-read", "cli-create"} \cup ServiceAccountRole \subseteq Fact
  BY DEF ServiceAccountRole, Fact, TrustifyFacts
<1>3. used' \in Used BY <1>0, <1>1, FaultSpent
<1>4. TypeOK' BY <1>0, <1>1, <1>2, <1>3 DEF TypeOK, Used
<1>5. OrderInv' BY <1>0, <1>1, Elsewhere DEF Behind
<1>6. SecretsInv' /\ Gentle BY <1>0, <1>1, SecretsAlone
<1> QED BY <1>4, <1>5, <1>6 DEF IInv

LEMMA DatabaseKeeps == ASSUME IInv, ensureRHTPAPostgreSQL PROVE IInv' /\ Gentle
<1>0. /\ used \in Used /\ TypeOK /\ OrderInv /\ SecretsInv
      /\ UNCHANGED <<realm, installed, has, secret, issued, redirect, stored, tpa, steady>>
      /\ pc = "rhtpa-database" /\ pc' \in {"obc", "idle"}
  BY DEF IInv, TypeOK, Used, ensureRHTPAPostgreSQL, keycloak, secrets
<1>1. /\ UNCHANGED used \/ Spend("faults", MaxFaults)
      /\ size' \in {size, 2, autoExpandPVC}
      /\ made' \in {made, made \cup {"rhtpa-db"}}
  BY DEF ensureRHTPAPostgreSQL
<1>2. full' \in BOOLEAN BY DEF ensureRHTPAPostgreSQL
<1>3. size' \in 0..MaxSize BY <1>0, <1>1, SizeBounded DEF TypeOK
<1>4. used' \in Used /\ "rhtpa-db" \in Kube BY <1>0, <1>1, FaultSpent DEF Kube
<1>5. TypeOK' BY <1>0, <1>1, <1>2, <1>3, <1>4 DEF TypeOK, Used
<1>6. OrderInv' BY <1>0 DEF OrderInv, ClientsBeforeAnalyzer, Behind
<1>7. SecretsInv' /\ Gentle BY <1>0, SecretsAlone
<1> QED BY <1>5, <1>6, <1>7 DEF IInv

LEMMA CreationKeeps == ASSUME IInv, CreateAnalyzer PROVE IInv' /\ Gentle
<1>0. /\ used \in Used /\ TypeOK /\ OrderInv /\ SecretsInv
      /\ UNCHANGED <<realm, installed, made, has, secret, issued, redirect, stored, size, full, steady>>
      /\ pc = "analyzer" /\ pc' \in {"redirect", "idle"}
      /\ UNCHANGED used \/ Spend("faults", MaxFaults)
  BY DEF IInv, TypeOK, Used, CreateAnalyzer, keycloak, secrets
<1>1. tpa' \in [life : {"absent", "live", "deleting"}, configured : BOOLEAN]
  <2>1. tpa.life \in {"absent", "live", "deleting"} BY <1>0 DEF TypeOK
  <2>2. /\ tpa' = tpa \/ tpa'.configured = TRUE
        /\ tpa' = tpa \/ tpa' = [life |-> tpa'.life, configured |-> tpa'.configured]
        /\ tpa' = tpa \/ tpa'.life \in {"live", tpa.life}
    BY DEF CreateAnalyzer, Exists
  <2>3. CASE tpa' = tpa BY <1>0, <2>3 DEF TypeOK
  <2>4. CASE tpa' # tpa
    <3>1. tpa'.life \in {"absent", "live", "deleting"} BY <2>1, <2>2, <2>4
    <3>2. tpa'.configured \in BOOLEAN BY <2>2, <2>4
    <3> QED BY <2>2, <2>4, <3>1, <3>2
  <2> QED BY <2>3, <2>4
<1>2. used' \in Used BY <1>0, FaultSpent
<1>3. TypeOK' BY <1>0, <1>1, <1>2 DEF TypeOK, Used
<1>4. OrderInv' BY <1>0 DEF OrderInv, ClientsBeforeAnalyzer, Behind
<1>5. SecretsInv' /\ Gentle BY <1>0, SecretsAlone
<1> QED BY <1>3, <1>4, <1>5 DEF IInv

LEMMA RedirectKeeps == ASSUME IInv, updateTrustifyRedirectURIs PROVE IInv' /\ Gentle
<1>0. /\ used \in Used /\ TypeOK /\ OrderInv /\ SecretsInv
      /\ UNCHANGED <<realm, installed, made, has, secret, issued, stored, tpa, size, full, steady>>
      /\ pc' = "idle" /\ redirect' \in {redirect, "host"}
      /\ UNCHANGED used \/ Spend("faults", MaxFaults)
  BY DEF IInv, TypeOK, Used, updateTrustifyRedirectURIs, secrets, analyzer
<1>1. used' \in Used BY <1>0, FaultSpent
<1>2. TypeOK' BY <1>0, <1>1 DEF TypeOK, Used
<1>3. OrderInv' BY <1>0, Elsewhere DEF Behind
<1>4. SecretsInv' /\ Gentle BY <1>0, SecretsAlone
<1> QED BY <1>2, <1>3, <1>4 DEF IInv

LEMMA StepKeeps == ASSUME IInv, Step PROVE IInv' /\ Gentle
<1>1. CASE ensureTrustifyOIDCClient("frontend", "cli") BY <1>1, ClientKeeps
<1>2. CASE ensureTrustifyOIDCClient("cli", AfterCLI) BY <1>2, ClientKeeps
<1> QED
  BY <1>1, <1>2, KubeCallsKeep, OAuthKeeps, KeycloakCallsKeep, MappersKeep, RealmKeeps,
     SigningSecretsKeep, AnalyzerStageKeeps, AssignKeeps, DatabaseKeeps, CreationKeeps,
     RedirectKeeps
  DEF Step

-----------------------------------------------------------------------------
(* The cluster and the administrator *)

LEMMA ClusterKeeps ==
    ASSUME IInv, Deliver \/ FinishDeletion \/ FillDatabase \/ \E op \in Operator : Install(op)
    PROVE  IInv' /\ Gentle
<1>0. /\ used \in Used /\ TypeOK /\ OrderInv /\ SecretsInv
      /\ UNCHANGED <<realm, has, secret, issued, redirect, stored, size, pc, steady>>
  BY DEF IInv, TypeOK, Used, Deliver, Appear, FinishDeletion, FillDatabase, Install, keycloak,
         secrets, analyzer
<1>1. CASE Deliver
  <2>1. /\ made' \subseteq made \cup {"tls", "ready", "urls", "bucket", "ingress"}
        /\ UNCHANGED <<installed, tpa, full, used>>
    BY <1>1 DEF Deliver, Appear, analyzer
  <2>2. {"tls", "ready", "urls", "bucket", "ingress"} \subseteq Kube BY DEF Kube
  <2>3. TypeOK' BY <1>0, <2>1, <2>2 DEF TypeOK
  <2>4. OrderInv' BY <1>0, <2>1 DEF OrderInv, ClientsBeforeAnalyzer
  <2> QED BY <1>0, <2>3, <2>4, SecretsAlone DEF IInv
<1>2. CASE FinishDeletion
  <2>1. /\ made' \subseteq made /\ UNCHANGED <<installed, full, used>>
        /\ tpa' = [life |-> "absent", configured |-> FALSE]
    BY <1>2 DEF FinishDeletion
  <2>2. TypeOK' BY <1>0, <2>1 DEF TypeOK
  <2>3. OrderInv' BY <1>0, <2>1 DEF OrderInv, ClientsBeforeAnalyzer
  <2> QED BY <1>0, <2>2, <2>3, SecretsAlone DEF IInv
<1>3. CASE FillDatabase
  <2>1. UNCHANGED <<installed, made, tpa>> /\ full' \in BOOLEAN /\ used' \in Used
    BY <1>0, <1>3, EventSpent DEF FillDatabase
  <2>2. TypeOK' BY <1>0, <2>1 DEF TypeOK, Used
  <2>3. OrderInv' BY <1>0, <2>1 DEF OrderInv, ClientsBeforeAnalyzer
  <2> QED BY <1>0, <2>2, <2>3, SecretsAlone DEF IInv
<1>4. CASE \E op \in Operator : Install(op)
  <2>1. UNCHANGED <<made, tpa, full, used>> /\ installed' \subseteq Operator
    BY <1>0, <1>4 DEF Install, analyzer, TypeOK
  <2>2. TypeOK' BY <1>0, <2>1 DEF TypeOK
  <2>3. OrderInv' BY <1>0, <2>1 DEF OrderInv, ClientsBeforeAnalyzer
  <2> QED BY <1>0, <2>2, <2>3, SecretsAlone DEF IInv
<1> QED BY <1>1, <1>2, <1>3, <1>4

\* Only clients that exist have a secret to rotate.
LEMMA RotationKeeps == ASSUME IInv, NEW c \in Client, RotateSecret(c) PROVE IInv' /\ Gentle
<1>0. /\ used \in Used /\ TypeOK /\ OrderInv /\ SecretsInv
      /\ UNCHANGED <<realm, installed, made, has, stored, redirect, tpa, size, full, pc, steady>>
  BY DEF IInv, TypeOK, Used, RotateSecret, analyzer
<1>1. used' \in Used /\ used'.events # used.events BY <1>0, EventSpent DEF RotateSecret
<1>2. Gentle BY <1>1 DEF Gentle
<1>3. /\ secret' \in [Client -> Secret] /\ issued' \in 0..MaxSecrets
      /\ \A d \in Client : d # c => secret'[d] = secret[d]
  BY <1>0, IssueTyped DEF RotateSecret
<1>4. TypeOK' BY <1>0, <1>1, <1>3 DEF TypeOK, Used
<1>5. OrderInv' BY <1>0 DEF OrderInv, ClientsBeforeAnalyzer
<1>6. (c = "cli" /\ "cli" \in has) \/ (c = "signer" /\ "client" \in has)
  <2>1. "signer" \notin has BY <1>0 DEF TypeOK, Fact, SignerFacts, TrustifyFacts
  <2> QED BY <2>1 DEF RotateSecret, Client
<1>7. SecretsInv' BY <1>0, <1>3, <1>6 DEF SecretsInv, Client
<1> QED BY <1>2, <1>4, <1>5, <1>7 DEF IInv

LEMMA RemovalKeeps == ASSUME IInv, NEW f \in Removable, RemoveFact(f) PROVE IInv' /\ Gentle
<1>0. /\ used \in Used /\ TypeOK /\ OrderInv /\ SecretsInv
      /\ UNCHANGED <<realm, installed, made, secret, issued, stored, redirect, tpa, size, full, pc,
                     steady>>
      /\ has' = has \ {f}
  BY DEF IInv, TypeOK, Used, RemoveFact, secrets, analyzer
<1>1. used' \in Used BY <1>0, EventSpent DEF RemoveFact
<1>2. has \cap Lasting \subseteq has' BY <1>0, LastingStays
<1>3. TypeOK' BY <1>0, <1>1 DEF TypeOK, Used
<1>4. OrderInv' BY <1>0, <1>2 DEF OrderInv, ClientsBeforeAnalyzer, Lasting
<1>5. SecretsInv' /\ Gentle BY <1>0, <1>2, SecretsAlone
<1> QED BY <1>3, <1>4, <1>5 DEF IInv

-----------------------------------------------------------------------------
(* The theorems *)

LEMMA InitInv == Init => IInv
<1> SUFFICES ASSUME Init PROVE IInv
  OBVIOUS
<1>1. used \in Used
  <2>1. 0 \in 0..MaxFaults /\ 0 \in 0..MaxEvents BY Bounds
  <2> QED BY <2>1 DEF Init, Used
<1>2. size \in 0..MaxSize /\ issued \in 0..MaxSecrets BY Bounds DEF Init
<1>3. secret \in [Client -> Secret] /\ stored \in [Client -> Secret]
  <2>1. NoSecret \in Secret /\ Placeholder \in Secret BY Bounds DEF NoSecret, Placeholder, Secret
  <2> QED BY <2>1 DEF Init, Client
<1>4. made \subseteq Kube /\ has \subseteq Fact /\ installed \subseteq Operator
  BY DEF Init, Kube, Fact, SignerFacts
<1>5. /\ tpa \in [life : {"absent", "live", "deleting"}, configured : BOOLEAN]
      /\ tpa.configured = FALSE
  <2>1. PICK l \in {"absent", "live"} : tpa = [life |-> l, configured |-> FALSE]
    BY Zenon DEF Init, NoAnalyzer
  <2>2. FALSE \in BOOLEAN OBVIOUS
  <2> QED BY <2>1, <2>2
<1>6. full \in BOOLEAN /\ steady \in BOOLEAN BY Zenon DEF Init
<1>7. TypeOK
  BY <1>1, <1>2, <1>3, <1>4, <1>5, <1>6 DEF Init, TypeOK, Used
<1>8. OrderInv BY <1>5 DEF Init, OrderInv, ClientsBeforeAnalyzer, Behind
<1>9. SecretsInv BY DEF Init, SecretsInv, Client
<1> QED BY <1>7, <1>8, <1>9 DEF IInv

LEMMA NextKeepsInv == IInv /\ [Next]_vars => IInv' /\ [Gentle]_vars
<1>1. ASSUME IInv, UNCHANGED vars PROVE IInv'
  <2>1. UNCHANGED <<realm, installed, made, has, secret, issued, redirect, stored, tpa, size, full,
                    pc, steady, used>>
    BY <1>1 DEF vars, keycloak, secrets, analyzer
  <2> QED BY <1>1, <2>1 DEF IInv, TypeOK, OrderInv, ClientsBeforeAnalyzer, SecretsInv
<1>2. ASSUME IInv, StartPass PROVE IInv' /\ Gentle
  <2>1. steady' \in BOOLEAN BY <1>2 DEF StartPass, IInv, TypeOK
  <2>2. pc' \notin Behind \cup {"cli"} BY <1>2, SigningStage DEF StartPass, Behind
  <2> QED BY <1>2, <2>1, <2>2, SkipKeeps DEF StartPass
<1>3. ASSUME IInv, Next PROVE IInv' /\ Gentle
  BY <1>2, <1>3, StepKeeps, ClusterKeeps, RotationKeeps, RemovalKeeps DEF Next
<1> QED BY <1>1, <1>3

\* Every reachable state satisfies the inductive invariant.
THEOREM Invariance == Spec => []IInv
<1>1. IInv /\ [Next]_vars => IInv' BY NextKeepsInv
<1> QED BY <1>1, InitInv, PTL DEF Spec

\* What the stages keep in Keycloak and in the cluster keeps its type, and
\* autoExpandPVC never makes the database larger than databaseMaxStorageSize.
THEOREM TypeCorrect == Spec => []TypeOK
<1>1. IInv => TypeOK BY DEF IInv
<1> QED BY <1>1, Invariance, PTL

\* However calls fail, answers get lost and the operator restarts,
\* reconcileRHTPAConfig configures OIDC only for an analyzer whose realm and clients
\* exist, and nothing takes them away again.
THEOREM AnalyzerLast == Spec => []ClientsBeforeAnalyzer
<1>1. IInv => ClientsBeforeAnalyzer BY DEF IInv, OrderInv
<1> QED BY <1>1, Invariance, PTL

\* No pass replaces a client secret other than the placeholder: neither
\* updateKeycloakClientSecret nor a repeated creation of the clients does.
THEOREM SecretsKept == Spec => CredentialsKept
<1>1. IInv /\ [Next]_vars => [Gentle]_vars BY NextKeepsInv
<1> QED BY <1>1, Invariance, PTL DEF Spec, CredentialsKept, Gentle

=============================================================================
