--------------------------- MODULE MCPacedIngress ---------------------------
(***************************************************************************)
(* Two of the four policies at the paces of client.py: 4 starts per second *)
(* against 5 allowed and 8 against 10 are both 5 ticks against 4.          *)
(***************************************************************************)
EXTENDS PacedIngress

CONSTANTS SessionOperations, ApiRequests

PathFamilies == [p \in Policy |-> IF p = SessionOperations
                                  THEN {<<"auth">>, <<"logout">>} ELSE {<<"api">>}]

Order == <<SessionOperations, ApiRequests>>

Paces == [p \in Policy |-> 5]
Allowances == [p \in Policy |-> 4]

\* What the Istio matchers limit, written out: /authors is no session path.
Limited == [p \in Policy |-> IF p = SessionOperations
                             THEN {<<"auth", "v1", "user">>, <<"logout">>}
                             ELSE {<<"api", "v1", "users">>}]

Paths == {<<"auth", "v1", "user">>, <<"logout">>, <<"api", "v1", "users">>, <<"authors">>}

=============================================================================
