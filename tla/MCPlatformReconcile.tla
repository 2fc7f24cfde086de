------------------------ MODULE MCPlatformReconcile ------------------------
(* Instances of PlatformReconcile for TLC. *)
EXTENDS PlatformReconcile

Both == {"connected", "airgapped"}
\* Quay: a stage that looks for missing CRDs.
SomeConnected == <<"quay">>
SomeAirgapped == <<"airgappedQuay">>
Aware == {"quay"}
Everything == Stage
=============================================================================
