------------------------ MODULE IdentityProvisioning ------------------------
(***************************************************************************)
(* The stages of the DisconnectedPlatform controller that provision the    *)
(* managed Keycloak and what logs in with it                               *)
(* (internal/controller/disconnectedplatform_controller.go): the realm and *)
(* client of the signer, OpenShift as identity provider, the signing       *)
(* configuration of the pipelines, and the Trusted Profile Analyzer (TPA)  *)
(* with its realm, clients, database and bucket.                           *)
(*                                                                         *)
(* A pass is a sequence of calls.  Each asks Keycloak or the API server    *)
(* for some things, in an order, creating what is missing.  A failure, a   *)
(* lost answer or a restart can come after any of them, and whether it     *)
(* ends the pass or is only logged differs from call to call.  Nothing but *)
(* a later pass repairs what one has left undone.                          *)
(***************************************************************************)
EXTENDS Integers, Sequences, FiniteSetsExt

CONSTANTS
    Realms,      \* the values of spec...oidc.managed.realm considered
    Removable,   \* what of Keycloak's contents an administrator may remove
    MaxSize,     \* databaseMaxStorageSize, where databaseStorageSize is 2
    MaxSecrets,  \* bound: secrets Keycloak generates
    MaxFaults,   \* bound: failed requests, lost answers and restarts
    MaxEvents    \* bound: edits of Keycloak by an administrator, a full database

ASSUME IdentityConstants ==
    /\ Realms \subseteq {"", "trusted-artifact-signer", "other"}
    /\ MaxSize \in Nat \ {0, 1} /\ MaxSecrets \in Nat \ {0}
    /\ MaxFaults \in Nat /\ MaxEvents \in Nat

VARIABLES
    realm,      \* spec.connected.rhtas.oidc.managed.realm
    installed,  \* the operators whose CSV has succeeded
    made,       \* the Kubernetes objects that exist
    has,        \* what Keycloak's two realms contain
    secret,     \* the secret of each confidential client in Keycloak
    issued,     \* how many secrets Keycloak has generated
    stored,     \* the copy of it in a Kubernetes Secret
    redirect,   \* the frontend client's redirect URI
    tpa,        \* the TrustedProfileAnalyzer
    size,       \* the size of its database's PVC, 0 without one
    full,       \* TRUE while the database uses 80% of it or crashes
    pc,         \* the next call of the running pass, or "idle"
    steady,     \* TRUE when the pass found a configured analyzer
    used        \* what the environment has spent of its bounds

secrets == <<secret, issued>>
keycloak == <<has, secrets, redirect>>
analyzer == <<tpa, size, full>>
vars == <<realm, installed, made, keycloak, stored, analyzer, pc, steady, used>>

-----------------------------------------------------------------------------
(* What there is to provision *)

Operator == {"rhbk-operator", "trusted-artifact-signer"}
Database == <<"pvc", "statefulset", "service", "db-secret">>
Kube == {Database[i] : i \in DOMAIN Database} \cup
        {"certificate", "tls", "keycloak", "ready", "securesign", "urls", "keyless",
         "rhtpa-db", "obc", "bucket", "ingress"}

\* The signer's realm: client, its mappers, a client scope with two mappers; a
\* client is created with the built-in email scope.  "bad-verified" is the
\* email_verified mapper with the wrong type that older operators made.  In both
\* realms OpenShift is an identity provider, with an OAuthClient in OpenShift,
\* and users need not review their profile.
SignerFacts == {"realm", "client", "builtin", "email", "verified", "bad-verified", "audience",
                "scope", "scope-email", "scope-verified", "assigned", "oauth-client", "idp",
                "profile"}
TrustifyFacts == {"t-realm", "t-read", "t-create", "frontend", "cli", "frontend-read",
                  "cli-read", "cli-create", "role", "cli-role", "t-oauth-client", "t-idp",
                  "t-profile"}
Fact == SignerFacts \cup TrustifyFacts

\* The paths of the admin API: Keycloak answers 404 below what does not exist.
Needs(f) ==
    CASE f \in {"client", "scope", "oauth-client", "profile"} -> {"realm"}
      [] f = "idp" -> {"oauth-client"}
      [] f = "t-idp" -> {"t-oauth-client"}
      [] f \in {"builtin", "email", "verified", "bad-verified", "audience"} -> {"client"}
      [] f \in {"scope-email", "scope-verified"} -> {"scope"}
      [] f = "assigned" -> {"scope", "client"}
      [] f \in {"t-read", "t-create", "frontend", "cli", "role", "t-oauth-client",
                "t-profile"} -> {"t-realm"}
      [] f = "frontend-read" -> {"t-read", "frontend"}
      [] f = "cli-read" -> {"t-read", "cli"}
      [] f = "cli-create" -> {"t-create", "cli"}
      [] f = "cli-role" -> {"role", "cli"}
      [] OTHER -> {}
Leaf == {f \in Fact : \A g \in Fact : f \notin Needs(g)} \ {"builtin", "bad-verified"}
ASSUME RemovableAssumption == Removable \subseteq Leaf

Client == {"signer", "cli"}
Secret == 0..(2 + MaxSecrets)
NoSecret == 0
Placeholder == 1                  \* "will-be-replaced-by-controller"

\* Its characters are the charset's own, in order: the result depends on the
\* length only.
generateRandomString == 2

Spend(kind, max) == used[kind] < max /\ used' = [used EXCEPT ![kind] = @ + 1]

\* Keycloak makes up a new secret for client c.
Issue(c) == /\ issued < MaxSecrets /\ issued' = issued + 1
            /\ secret' = [secret EXCEPT ![c] = 2 + issued']

-----------------------------------------------------------------------------
(* Calls *)

Reached(reqs, k) == {reqs[i] : i \in 1..k}

\* How far a sequence of requests gets by itself.
Possible(reqs) ==
    IF "ready" \notin made THEN 0
    ELSE Max({k \in 0..Len(reqs) :
                \A i \in 1..k : Needs(reqs[i]) \subseteq has \cup Reached(reqs, i - 1)})

\* k of the requests are carried out and the call goes on at next: at ok when it
\* succeeds; a fault cuts it short or hides its success, or the operator restarts.
Outcome(reqs, k, next, ok, failed) ==
    \/ k = Possible(reqs) /\ next = (IF k = Len(reqs) THEN ok ELSE failed) /\ UNCHANGED used
    \/ k \in 0..Possible(reqs) /\ next \in {failed, "idle"} /\ Spend("faults", MaxFaults)

Call(at, reqs, ok, failed) ==
    /\ pc = at
    /\ \E k \in 0..Len(reqs) :
          /\ Outcome(reqs, k, pc', ok, failed)
          /\ has' = has \cup Reached(reqs, k)
    /\ UNCHANGED <<realm, installed, made, secrets, redirect, stored, analyzer, steady>>

\* A call to the API server alone, that creates what is missing of objects.
Apply(at, objects, ok, failed) ==
    /\ pc = at
    /\ \/ made' = made \cup Reached(objects, Len(objects)) /\ pc' = ok /\ UNCHANGED used
       \/ /\ Spend("faults", MaxFaults)
          /\ \E k \in 0..Len(objects) : made' = made \cup Reached(objects, k)
          /\ pc' \in {failed, "idle"}
    /\ UNCHANGED <<realm, installed, keycloak, stored, analyzer, steady>>

Signing == IF "trusted-artifact-signer" \in installed THEN "securesign" ELSE "rhtpa"

-----------------------------------------------------------------------------
(* The managed Keycloak *)

StartPass ==
    /\ pc = "idle"
    /\ pc' = IF "rhbk-operator" \in installed THEN "tls" ELSE Signing
    /\ UNCHANGED <<realm, installed, made, keycloak, stored, analyzer, steady, used>>

\* The certificate; without the secret cert-manager makes of it the pass ends.
ensureKeycloakTLS ==
    Apply("tls", <<"certificate">>, IF "tls" \in made THEN "database" ELSE "idle", "idle")

ensureManagedPostgreSQL == Apply("database", Database, "keycloak", "idle")

\* The Keycloak itself; while it is not Ready checkKeycloakHealth ends the pass.
reconcileManagedKeycloak ==
    Apply("keycloak", <<"keycloak">>, IF "ready" \in made THEN "realm" ELSE "idle", "idle")

\* Mutants: creation without a look; failures that do not end the call.
ClientAgain ==
    /\ pc = "realm" /\ Issue("signer")
    /\ has' = has \cup {"realm", "client", "builtin"} /\ pc' = "mappers"
    /\ UNCHANGED <<realm, installed, made, redirect, stored, analyzer, steady, used>>

\* configureKeycloakRealmAndClient, first part: a new client has the built-in
\* email scope and a secret of Keycloak's.
EnsureRealmAndClient ==
    /\ pc = "realm"
    /\ \/ /\ "client" \in has
          /\ \E k \in 0..2 : Outcome(<<"realm", "client">>, k, pc', "mappers", "idle")
          /\ UNCHANGED <<has, secrets>>
       \/ /\ "client" \notin has /\ Issue("signer")
          /\ has' = has \cup {"realm", "client", "builtin"}
          /\ \/ pc' = "mappers" /\ UNCHANGED used
             \/ pc' = "idle" /\ Spend("faults", MaxFaults)
       \/ /\ "client" \notin has /\ Spend("faults", MaxFaults) /\ UNCHANGED secrets
          /\ has' \in {has, has \cup {"realm"}} /\ pc' = "idle"
    /\ UNCHANGED <<realm, installed, made, redirect, stored, analyzer, steady>>

\* Second part: the client's mappers; one of the wrong type is deleted first, and
\* the answer to that is not looked at.
EnsureClientMappers ==
    /\ pc = "mappers"
    /\ LET reqs == <<"email", "verified">>
       IN  \E k \in 0..2 :
             /\ Outcome(reqs, k, pc', "scope", "idle")
             /\ \/ k = 0 /\ UNCHANGED has
                \/ k = 1 /\ has' \in {has \cup {"email"}, (has \cup {"email"}) \ {"bad-verified"}}
                \/ k = 2 /\ has' = (has \cup Reached(reqs, 2)) \ {"bad-verified"}
    /\ UNCHANGED <<realm, installed, made, secrets, redirect, stored, analyzer, steady>>

ScopeRequests == <<"scope", "scope-email", "scope-verified", "assigned">>

\* A client scope of the operator's own instead of the built-in one, which is
\* taken away before; errors are logged.
ensureEmailVerifiedClientScope ==
    /\ pc = "scope"
    /\ \E k \in 0..4 :
          /\ Outcome(ScopeRequests, k, pc', "secret", "secret")
          /\ \/ k >= 3 /\ has' = (has \cup Reached(ScopeRequests, k)) \ {"builtin"}
             \/ k >= 3 /\ used' # used /\ has' = has \cup Reached(ScopeRequests, k)
             \/ k < 3 /\ has' = has \cup Reached(ScopeRequests, k)
    /\ UNCHANGED <<realm, installed, made, secrets, redirect, stored, analyzer, steady>>

\* Reads the client's secret, has Keycloak replace a placeholder, and stores it.
updateKeycloakClientSecret(at, ok, failed) ==
    LET found == "ready" \in made /\ "client" \in has
    IN  /\ pc = at
        /\ \/ ~found /\ pc' = failed /\ UNCHANGED <<secrets, stored, used>>
           \/ /\ found /\ pc' = ok /\ UNCHANGED used
              /\ \/ secret["signer"] # Placeholder /\ UNCHANGED secrets
                 \/ secret["signer"] = Placeholder /\ Issue("signer")
              /\ stored' = [stored EXCEPT !["signer"] = secret'["signer"]]
           \/ /\ Spend("faults", MaxFaults) /\ pc' \in {failed, "idle"}
              /\ UNCHANGED <<secrets, stored>>
           \/ /\ found /\ secret["signer"] = Placeholder /\ Issue("signer")
              /\ Spend("faults", MaxFaults) /\ pc' \in {failed, "idle"}
              /\ UNCHANGED stored
        /\ UNCHANGED <<realm, installed, made, has, redirect, analyzer, steady>>

StoreSecret == updateKeycloakClientSecret("secret", "oauth", "idle")

-----------------------------------------------------------------------------
(* OpenShift as identity provider, in two realms by their names *)

Named == realm \in {"", "trusted-artifact-signer"}

\* A provider is made or rewritten with the secret of its OAuthClient.  Only
\* then are the realm's profile settings looked at.
addOpenShiftIdentityProvider(at, provider, ok, failed) == Call(at, provider, ok, failed)
configureRealmProfileSettings(at, fact, next) == Call(at, <<fact>>, next, next)

\* The names of both realms are fixed: a signer's realm of another name gets no
\* provider.  Until the analyzer's stage has made its realm the second half
\* fails.  Errors are logged.
configureOpenShiftOAuth ==
    \/ /\ Named
       /\ \/ addOpenShiftIdentityProvider("oauth", <<"oauth-client", "idp">>, "profile", "t-oauth")
          \/ configureRealmProfileSettings("profile", "profile", "t-oauth")
    \/ /\ ~Named /\ pc = "oauth" /\ pc' = "t-oauth"
       /\ UNCHANGED <<realm, installed, made, keycloak, stored, analyzer, steady, used>>
    \/ addOpenShiftIdentityProvider("t-oauth", <<"t-oauth-client", "t-idp">>, "t-profile", Signing)
    \/ configureRealmProfileSettings("t-profile", "t-profile", Signing)

-----------------------------------------------------------------------------
(* The signer *)

reconcileRHTASConfig == Apply("securesign", <<"securesign">>, "sign-secret", "sign-secret")

\* configureCollectionPipelineSigning asks for the realm by its name in the spec,
\* which may be empty.  Each failure ends it, and the pass goes on.
SigningReady == realm # "" /\ {"urls", "keycloak"} \subseteq made
SigningSecret ==
    \/ SigningReady /\ updateKeycloakClientSecret("sign-secret", "sign-mappers", "rhtpa")
    \/ /\ ~SigningReady /\ pc = "sign-secret" /\ pc' = "rhtpa"
       /\ UNCHANGED <<realm, installed, made, keycloak, stored, analyzer, steady, used>>

\* A mapper counts by its name, whatever its type.
SigningMappers == IF "bad-verified" \in has THEN <<"email", "audience">>
                  ELSE <<"email", "verified", "audience">>
configureKeycloakEmailMapper == Call("sign-mappers", SigningMappers, "push", "rhtpa")

PushSigning == Apply("push", <<"keyless">>, "rhtpa", "rhtpa")

-----------------------------------------------------------------------------
(* The Trusted Profile Analyzer *)

Exists == tpa.life # "absent"

\* It has OIDC and both database modules.
KeptUp == Exists /\ tpa.configured

\* Mutant: a configured analyzer needs nothing more.
LeaveConfigured ==
    /\ pc = "rhtpa"
    /\ steady' = KeptUp
    /\ pc' = IF steady' THEN "redirect" ELSE "trustify"
    /\ tpa' = [tpa EXCEPT !.life = IF Exists /\ ~steady' THEN "deleting" ELSE @]
    /\ UNCHANGED <<realm, installed, made, keycloak, stored, size, full, used>>

\* A configured analyzer is kept up, its clients if Keycloak gives a token; any
\* other is deleted and made anew.
reconcileRHTPAConfig ==
    /\ pc = "rhtpa"
    /\ \/ /\ KeptUp
          /\ steady' = TRUE /\ UNCHANGED tpa
          /\ \/ pc' = "read-scope" /\ UNCHANGED used
             \/ pc' = "redirect" /\ Spend("faults", MaxFaults)
       \/ /\ ~KeptUp
          /\ steady' = FALSE /\ pc' = "trustify"
          /\ tpa' = [tpa EXCEPT !.life = IF Exists THEN "deleting" ELSE @]
          /\ UNCHANGED used
       \/ Spend("faults", MaxFaults) /\ pc' = "idle" /\ UNCHANGED <<steady, tpa>>
    /\ UNCHANGED <<realm, installed, made, keycloak, stored, size, full>>

ensureTrustifyRealmAndOIDC == Call("trustify", <<"t-realm">>, "read-scope", "idle")

\* Scopes that cannot be made are only logged.
ensureTrustifyReadOnlyScope == Call("read-scope", <<"t-read">>, "create-scope", "create-scope")
ensureTrustifyCreateScope == Call("create-scope", <<"t-create">>, "frontend", "frontend")

AfterCLI == IF steady THEN "assign" ELSE "rhtpa-database"

\* Mutant: clients that cannot be made are only logged.
LogAlways(next) == next
OnError(next) == IF steady THEN next ELSE "idle"

ReadScope(c) == IF c = "cli" THEN "cli-read" ELSE "frontend-read"

\* What becomes of c's secrets: the operator chooses a new client's; the one of
\* an existing client is read.
WithSecret(c) ==
    IF c = "cli" /\ "cli" \notin has THEN [secret EXCEPT !["cli"] = generateRandomString]
    ELSE secret
WithStored(c) == IF c = "cli" THEN [stored EXCEPT !["cli"] = secret'["cli"]] ELSE stored

\* A client is created or rewritten, gets the read scope and has its secret
\* stored.  The last two may fail unnoticed.  The analyzer's Ingress is looked up
\* under another API group, so the redirect URI is always the fallback.
ensureTrustifyOIDCClient(c, next) ==
    LET found == "ready" \in made /\ "t-realm" \in has
        scopes == IF "t-read" \in has THEN {ReadScope(c)} ELSE {}
    IN  /\ pc = c
        /\ \/ ~found /\ pc' = OnError(next) /\ UNCHANGED <<keycloak, stored, used>>
           \/ /\ found /\ pc' = next /\ UNCHANGED used
              /\ has' = has \cup {c} \cup scopes
              /\ secret' = WithSecret(c) /\ stored' = WithStored(c) /\ UNCHANGED issued
              /\ redirect' = IF c = "frontend" THEN "fallback" ELSE redirect
           \/ /\ Spend("faults", MaxFaults) /\ pc' \in {OnError(next), "idle"}
              /\ UNCHANGED <<keycloak, stored>>
           \/ /\ found /\ Spend("faults", MaxFaults)
              /\ pc' \in {next, OnError(next), "idle"}
              /\ has' \in {has \cup {c}, has \cup {c} \cup scopes}
              /\ secret' = WithSecret(c) /\ stored' \in {stored, WithStored(c)}
              /\ redirect' \in IF c # "frontend" THEN {redirect}
                              ELSE {"fallback"} \cup (IF c \in has THEN {redirect} ELSE {})
              /\ UNCHANGED issued
        /\ UNCHANGED <<realm, installed, made, analyzer, steady>>

\* The role is made when it is to be given.
ServiceAccountRole == {"role", "cli-role"}

\* Each assignment by itself; errors are logged.
assignScopeToTrustifyClients ==
    LET wanted == {"frontend-read", "cli-read", "cli-create"} \cup ServiceAccountRole
        Given(w) == {f \in w : Needs(f) \subseteq has \cup w}
    IN  /\ pc = "assign" /\ pc' = "redirect"
        /\ \/ "ready" \notin made /\ UNCHANGED <<has, used>>
           \/ "ready" \in made /\ has' = has \cup Given(wanted) /\ UNCHANGED used
           \/ /\ Spend("faults", MaxFaults)
              /\ \E lost \in wanted : has' = has \cup Given(wanted \ {lost})
        /\ UNCHANGED <<realm, installed, made, secrets, redirect, stored, analyzer, steady>>

\* Mutant: no maximum.
ExpandAnyway == IF full THEN 2 * size ELSE size

\* The PVC doubles, up to the maximum, when it is 80% full.
autoExpandPVC == IF full /\ size < MaxSize THEN Min({2 * size, MaxSize}) ELSE size

\* Only a pass that makes the analyzer comes here; an expansion that fails is
\* only logged.
ensureRHTPAPostgreSQL ==
    /\ pc = "rhtpa-database"
    /\ \/ /\ pc' = "obc" /\ UNCHANGED used
          /\ made' = made \cup {"rhtpa-db"}
          /\ size' = IF size = 0 THEN 2 ELSE autoExpandPVC
       \/ /\ Spend("faults", MaxFaults) /\ pc' = "idle"
          /\ size' \in {size, IF size = 0 THEN 2 ELSE autoExpandPVC} /\ UNCHANGED made
       \/ /\ Spend("faults", MaxFaults) /\ pc' = "obc"
          /\ size > 0 /\ UNCHANGED size /\ made' = made \cup {"rhtpa-db"}
    /\ full' = (full /\ size' = size)
    /\ UNCHANGED <<realm, installed, keycloak, stored, tpa, steady>>

\* The bucket claim; without the credentials made of it the pass ends.
EnsureBucket == Apply("obc", <<"obc">>, "bucket", "idle")
ReadBucket == Apply("bucket", <<>>, IF "bucket" \in made THEN "analyzer" ELSE "idle", "idle")

\* Creates the analyzer, or updates one that may be on its way out.
CreateAnalyzer ==
    /\ pc = "analyzer"
    /\ \/ /\ tpa' = [life |-> IF Exists THEN tpa.life ELSE "live", configured |-> TRUE]
          /\ pc' = "redirect" /\ UNCHANGED used
       \/ Spend("faults", MaxFaults) /\ pc' = "idle" /\ UNCHANGED tpa
    /\ UNCHANGED <<realm, installed, made, keycloak, stored, size, full, steady>>

\* Mutant: the configured analyzer is left alone.
RedirectOnce == /\ pc = "redirect" /\ pc' = "idle"
                /\ redirect' = IF steady \/ "ingress" \notin made THEN redirect ELSE "host"
                /\ UNCHANGED <<realm, installed, made, has, secrets, stored, analyzer, steady, used>>

\* The redirect URI of the analyzer's Ingress, once there is one.
updateTrustifyRedirectURIs ==
    /\ pc = "redirect" /\ pc' = "idle"
    /\ \/ /\ {"ready", "ingress"} \subseteq made /\ Exists /\ "frontend" \in has
          /\ redirect' = "host" /\ UNCHANGED used
       \/ /\ ~({"ready", "ingress"} \subseteq made /\ Exists /\ "frontend" \in has)
          /\ UNCHANGED <<redirect, used>>
       \/ Spend("faults", MaxFaults) /\ UNCHANGED redirect
    /\ UNCHANGED <<realm, installed, made, has, secrets, stored, analyzer, steady>>

-----------------------------------------------------------------------------
(* OLM, cert-manager, the operators of the components, an administrator *)

Appear(object, condition) ==
    /\ condition /\ object \notin made
    /\ made' = made \cup {object}
    /\ UNCHANGED <<realm, installed, keycloak, stored, analyzer, pc, steady, used>>

Install(op) ==
    /\ op \notin installed
    /\ installed' = installed \cup {op}
    /\ UNCHANGED <<realm, made, keycloak, stored, analyzer, pc, steady, used>>

\* What the cluster makes of the operator's objects.
Deliver ==
    \/ Appear("tls", "certificate" \in made)
    \/ Appear("ready", {"keycloak", "service"} \subseteq made)
    \/ Appear("urls", "securesign" \in made)
    \/ Appear("bucket", "obc" \in made)
    \/ Appear("ingress", tpa.life = "live" /\ tpa.configured)

\* A deleted analyzer goes, and its Ingress with it.
FinishDeletion ==
    /\ tpa.life = "deleting"
    /\ tpa' = [life |-> "absent", configured |-> FALSE]
    /\ made' = made \ {"ingress"}
    /\ UNCHANGED <<realm, installed, keycloak, stored, size, full, pc, steady, used>>

FillDatabase ==
    /\ size > 0 /\ ~full /\ Spend("events", MaxEvents)
    /\ full' = TRUE
    /\ UNCHANGED <<realm, installed, made, keycloak, stored, tpa, size, pc, steady>>

RotateSecret(c) ==
    /\ c \in has \/ (c = "signer" /\ "client" \in has)
    /\ Issue(c) /\ Spend("events", MaxEvents)
    /\ UNCHANGED <<realm, installed, made, has, stored, redirect, analyzer, pc, steady>>

RemoveFact(f) ==
    /\ f \in has /\ Spend("events", MaxEvents)
    /\ has' = has \ {f}
    /\ UNCHANGED <<realm, installed, made, secrets, redirect, stored, analyzer, pc, steady>>

-----------------------------------------------------------------------------

NoAnalyzer == [life |-> "absent", configured |-> FALSE]

\* A new cluster, or one an older operator has set up with a realm import and an
\* analyzer without OIDC.
Init ==
    /\ realm \in Realms
    /\ stored = [c \in Client |-> NoSecret] /\ issued = 0
    /\ redirect = "none" /\ size = 0 /\ full = FALSE
    /\ pc = "idle" /\ steady = FALSE /\ used = [faults |-> 0, events |-> 0]
    /\ \/ /\ installed = {} /\ made = {} /\ has = {} /\ tpa = NoAnalyzer
          /\ secret = [c \in Client |-> NoSecret]
       \/ /\ installed = Operator
          /\ made = {Database[i] : i \in DOMAIN Database} \cup {"certificate", "tls", "keycloak", "ready"}
          /\ has = {"realm", "client", "builtin", "bad-verified"}
          /\ tpa = [life |-> "live", configured |-> FALSE]
          /\ secret = [signer |-> Placeholder, cli |-> NoSecret]

Step ==
    \/ ensureKeycloakTLS \/ ensureManagedPostgreSQL \/ reconcileManagedKeycloak
    \/ EnsureRealmAndClient \/ EnsureClientMappers \/ ensureEmailVerifiedClientScope
    \/ StoreSecret \/ configureOpenShiftOAuth
    \/ reconcileRHTASConfig \/ SigningSecret \/ configureKeycloakEmailMapper \/ PushSigning
    \/ reconcileRHTPAConfig \/ ensureTrustifyRealmAndOIDC
    \/ ensureTrustifyReadOnlyScope \/ ensureTrustifyCreateScope
    \/ ensureTrustifyOIDCClient("frontend", "cli") \/ ensureTrustifyOIDCClient("cli", AfterCLI)
    \/ assignScopeToTrustifyClients \/ ensureRHTPAPostgreSQL \/ EnsureBucket \/ ReadBucket
    \/ CreateAnalyzer \/ updateTrustifyRedirectURIs

Next ==
    \/ StartPass \/ Step
    \/ Deliver \/ FinishDeletion \/ FillDatabase
    \/ \E op \in Operator : Install(op)
    \/ \E c \in Client : RotateSecret(c)
    \/ \E f \in Removable : RemoveFact(f)

\* Passes come again (requeues, events and the resync of the cache), and the
\* cluster makes of the objects what they ask for.
Spec == Init /\ [][Next]_vars
FairSpec == Spec /\ WF_vars(StartPass) /\ WF_vars(Step) /\ WF_vars(Deliver) /\ WF_vars(FinishDeletion)

-----------------------------------------------------------------------------
(* Correctness *)

\* Types; the database's PVC never grows beyond databaseMaxStorageSize
\* (autoExpandPVC).
TypeOK ==
    /\ realm \in Realms /\ installed \subseteq Operator
    /\ made \subseteq Kube /\ has \subseteq Fact
    /\ secret \in [Client -> Secret] /\ stored \in [Client -> Secret]
    /\ issued \in 0..MaxSecrets
    /\ redirect \in {"none", "fallback", "host"}
    /\ tpa \in [life : {"absent", "live", "deleting"}, configured : BOOLEAN]
    /\ size \in 0..MaxSize /\ full \in BOOLEAN /\ steady \in BOOLEAN
    /\ used \in [faults : 0..MaxFaults, events : 0..MaxEvents]

\* An analyzer with OIDC finds its realm and both clients, whichever calls failed
\* on the way: reconcileRHTPAConfig creates it behind them.
ClientsBeforeAnalyzer == tpa.configured => {"t-realm", "frontend", "cli"} \subseteq has

\* No pass takes back a secret that clients may be using: only an administrator
\* replaces a secret that is not the placeholder.
CredentialsKept ==
    [][used'.events = used.events =>
        \A c \in Client : secret[c] \in {NoSecret, Placeholder, secret'[c]}]_vars

SignerReady ==
    /\ {"realm", "client", "email", "verified", "scope", "scope-email", "scope-verified",
        "assigned"} \subseteq has
    /\ {"builtin", "bad-verified"} \cap has = {}
    /\ Named => {"idp", "profile"} \subseteq has
    /\ realm # "" => "audience" \in has /\ "keyless" \in made
AnalyzerReady == tpa = [life |-> "live", configured |-> TRUE] /\ TrustifyFacts \subseteq has
SecretsAgree == \A c \in Client : stored[c] = secret[c] /\ secret[c] # NoSecret

\* Once the operators are installed everything is provisioned in the end and
\* stays so, although most failures are only logged and some parts cannot be made
\* in the first pass, and the stored secrets follow the ones in Keycloak.
Converges == <>[](installed = Operator => SignerReady /\ AnalyzerReady /\ SecretsAgree)

\* Logins to the analyzer keep coming back: each pass that overwrites the redirect
\* URI with the fallback also puts the Ingress's host in its place again.
RedirectReturns == []<>(installed = Operator => redirect = "host")

=============================================================================
