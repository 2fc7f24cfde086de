--------------------------- MODULE MCBundleImport ---------------------------
(* Instances of BundleImport for TLC: a bundle of two archives and one of one. *)
EXTENDS BundleImport

CONSTANTS big, small, first, second, master

Both == {big, small}
Names == {first, second}
Named == [b \in Bundle |-> IF b = big THEN first ELSE second]
Sizes == [b \in Bundle |-> IF b = big THEN 2 ELSE 1]
OneMaster == {master}
OneJob == {first}
Either == BOOLEAN

=============================================================================
