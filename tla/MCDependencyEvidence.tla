----------------------- MODULE MCDependencyEvidence -----------------------
(***************************************************************************)
(* Three selections: a package, an upgrade of it, and both packages.       *)
(***************************************************************************)
EXTENDS DependencyEvidence

CONSTANTS Httpx, Pytest, V1, V2

Selections ==
    LET Only(v) == [n \in Name |-> IF n = Httpx THEN v ELSE Absent]
    IN {Only(V1), Only(V2), [n \in Name |-> V1]}

=============================================================================
