--------------------------- MODULE MCPytestSession ---------------------------
(***************************************************************************)
(* PytestSession on four sessions of three accounts, every environment     *)
(* file, and the kinds of tests that tests/api has.                        *)
(***************************************************************************)
EXTENDS PytestSession

CONSTANTS S1, Same1, S2, S3, U1, U2, U3

MCSubjectOf ==
    [s \in {S1, Same1, S2, S3} |-> CASE s = S2 -> U2 [] s = S3 -> U3 [] OTHER -> U1]

MCFiles == {Unreadable} \cup {c \in Environment : c.exact => c.type = "local"}

Test(markers, fixtures) ==
    [markers |-> markers, fixtures |-> fixtures, malformed |-> FALSE, own |-> "never"]

Smoke      == Test({"readonly", "auth_smoke"}, <<"gateway_client">>)
Write      == Test({"mutation"}, <<"gateway_client">>)
SignedOut  == Test({"readonly"}, <<"unauthenticated_gateway_client">>)
Denial     == Test({"authorization", "readonly"}, <<"gateway_client", "primary_identity">>)
CrossUser  == Test({"authorization", "mutation"},
                   <<"gateway_client", "secondary_gateway_client", "distinct_user_sessions">>)
SecondSmoke == Test({"secondary_auth_smoke", "readonly"}, <<"secondary_gateway_client">>)
AdminRead  == Test({"admin", "authorization", "readonly"}, <<"admin_gateway_client">>)
AdminSmoke == Test({"admin", "admin_auth_smoke", "readonly"},
                   <<"admin_gateway_client", "admin_identity">>)
AdminWrite == Test({"admin", "authorization", "destructive", "mutation"},
                   <<"gateway_client", "secondary_gateway_client", "admin_gateway_client",
                     "distinct_admin_user_identities">>)
Deactivate == Test({"admin", "authorization", "mutation", "destructive", "admin_deactivation"},
                   <<"admin_gateway_client", "distinct_admin_user_identities",
                     "primary_identity", "secondary_identity", "admin_identity">>)
Rates      == [Test({"readonly"}, <<"gateway_client">>) EXCEPT !.own = "data"]
Lifecycle  == [Test({"mutation", "destructive"}, <<"primary_session">>)
                 EXCEPT !.own = "credentials"]
\* a normal user's denial, with the two fixtures the documentation asks for
AdminDenial == Test({"admin", "authorization", "readonly"},
                    <<"gateway_client", "primary_identity", "distinct_admin_user_identities">>)
Unmarked   == Test({}, <<"admin_session">>)   \* an admin fixture without the marker
Misplaced  == Test({"admin_deactivation", "admin"}, <<"gateway_client">>)
Malformed  == [Smoke EXCEPT !.malformed = TRUE]

MCSuites ==
    {<<SignedOut, Denial, SecondSmoke, CrossUser>>, <<Unmarked, AdminRead, AdminSmoke>>,
     <<Write, AdminWrite, Deactivate>>, <<Rates, Lifecycle>>,
     <<AdminDenial>>, <<Smoke, Misplaced>>, <<Malformed>>}

Supplied(p, s, a) == [r \in Roles |-> CASE r = "primary" -> p [] r = "secondary" -> s [] r = "admin" -> a]
MCSupplies ==
    {Supplied(S1, S2, S3), Supplied(S1, S1, S3), Supplied(S1, Same1, S3), Supplied(S1, S2, S2),
     Supplied(S1, Nothing, S3), Supplied(Nothing, S2, Nothing)}

User  == [roles |-> {"USER"}, permitted |-> FALSE]
Admin == [roles |-> {"USER", "ADMIN"}, permitted |-> TRUE]
Standing(first, third) == [u \in Subjects |-> CASE u = U1 -> first [] u = U2 -> User [] u = U3 -> third]
MCStandings ==
    {Standing(User, Admin), Standing(User, User), Standing(Admin, Admin),
     Standing(User, [Admin EXCEPT !.roles = {}]), Standing(User, [Admin EXCEPT !.permitted = FALSE])}

\* The bound on the states: every file meets the expected users; the other
\* sessions, accounts and changes of ADMIN meet the environments of the
\* repository, with either mode, and a production file without the names.
Usual == ~stray /\ supply = Supplied(S1, S2, S3) /\ standing = Standing(User, Admin)

Shipped == [type |-> "local", exact |-> TRUE, mode |-> "browser", mutation |-> TRUE,
            destructive |-> TRUE, browser |-> TRUE, secondary |-> TRUE, admin |-> TRUE]

Shown ==
    {Shipped, [Shipped EXCEPT !.secondary = FALSE], [Shipped EXCEPT !.type = "staging", !.exact = FALSE]}
    \cup [type : {"production"}, exact : {FALSE}, mode : {"supplied"}, mutation : {FALSE},
          destructive : {FALSE}, browser : {FALSE}, secondary : BOOLEAN, admin : {FALSE}]

Interesting == file \notin Shown => Usual /\ changes = 0
=============================================================================
