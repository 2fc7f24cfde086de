-------------------------- MODULE MCCollectionTasks --------------------------
(* Instances of CollectionTasks for TLC. *)
EXTENDS CollectionTasks

CONSTANTS base, update, first, second, third

Family == {base, update}
Updates == {update}
NoName == {}
Three == {first, second, third}
InOrder == [r \in Run |-> CASE r = first -> {} [] r = second -> {first} [] OTHER -> {first, second}]
BaseThenUpdate == [r \in Run |-> IF r = first THEN base ELSE update]

\* The workflow through the registry with everything, and the local one without
\* signing and without the architect (which it cannot export).
Full  == [registry |-> TRUE, keyless |-> TRUE, tpa |-> TRUE, architect |-> TRUE,
          rhcos |-> TRUE, s3 |-> TRUE]
Plain == [registry |-> FALSE, keyless |-> FALSE, tpa |-> TRUE, architect |-> FALSE,
          rhcos |-> FALSE, s3 |-> TRUE]
Both  == {Full, Plain}

=============================================================================
