----------------------- MODULE MCIdentityProvisioning -----------------------
(* Instances of IdentityProvisioning for TLC. *)
EXTENDS IdentityProvisioning

AllRealms == {"", "trusted-artifact-signer", "other"}

\* One thing of each kind: a mapper, two scope assignments, a mapper of the
\* signing stage, the provider of the other realm.
OfEachKind == {"verified", "assigned", "cli-create", "audience", "t-idp"}

=============================================================================
