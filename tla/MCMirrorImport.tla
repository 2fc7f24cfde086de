--------------------------- MODULE MCMirrorImport ---------------------------
(* Instances of MirrorImport for TLC. *)
EXTENDS MirrorImport

CONSTANTS first, second, v1

NoOne == {}
One == {first}
Two == {first, second}
Versions == {v1}

\* One import names a version and the other does not.
Mixed == [i \in Import |-> IF i = first THEN v1 ELSE NoVersion]

=============================================================================
