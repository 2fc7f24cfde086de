------------------------ MODULE MCCollectionPipeline ------------------------
(***************************************************************************)
(* Instances of CollectionPipeline for TLC: one pipeline, or a parent with *)
(* a child, both of which may be incremental.                              *)
(***************************************************************************)
EXTENDS CollectionPipeline

CONSTANTS root, child

NoOne == {}
One   == {root}
Child == {child}
Two   == {root, child}

Alone  == [p \in Pipeline |-> NoPipeline]
Family == [p \in Pipeline |-> IF p = child THEN root ELSE NoPipeline]
Manual == [p \in Pipeline |-> "manual"]
NoBase == [p \in Pipeline |-> NoVersion]
Bases  == [p \in Pipeline |-> [day |-> 1, tt |-> IF p = root THEN "manual" ELSE "scheduled"]]
RootBase == [NoBase EXCEPT ![root] = [day |-> 1, tt |-> "manual"]]

\* Looks only at the behaviours in which the caches are refreshed at once.
PromptCaches ==
    lag # {} \/ runSeen # runs => Cardinality(lag') < Cardinality(lag) \/ runSeen' # runSeen
=============================================================================
