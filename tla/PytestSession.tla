---------------------------- MODULE PytestSession ----------------------------
(***************************************************************************)
(* One pytest session with the plugin of the harness (pytest_plugin.py):   *)
(* the environment and the mode override are validated, collection skips   *)
(* what the environment forbids, and the session fixtures are set up once, *)
(* in the order tests ask for them, and kept with their failures.          *)
(*                                                                         *)
(* The clients keep nothing but the session they were made with, so a test *)
(* that asks for one asks for its fixtures.  What a role acquires          *)
(* (LocalIdentities, or the variables of supplied sessions) and what       *)
(* GET /auth/v1/user answers are inputs; an operator may assign and take   *)
(* away ADMIN meanwhile.                                                   *)
(***************************************************************************)
EXTENDS Integers, Sequences, FiniteSets

CONSTANTS Sessions, Subjects,
          SubjectOf,    \* SubjectOf[s]: the account a session belongs to
          Files,        \* the environment files
          Suites,       \* the selected tests, in order
          Supplies,     \* a session, or Nothing, for each role
          Standings,    \* the roles and permissions of the accounts at the start
          MaxChanges,   \* bound: changes of ADMIN during the session
          Nothing, Unreadable

Roles == {"primary", "secondary", "admin"}

\* an environment file as far as the policy looks at it; browser, secondary
\* and admin say whether the browser settings and the names of the optional
\* session variables are there
Environment ==
    [type : {"local", "staging", "production"}, exact : BOOLEAN,
     mode : {"supplied", "browser"}, mutation : BOOLEAN, destructive : BOOLEAN,
     browser : BOOLEAN, secondary : BOOLEAN, admin : BOOLEAN]

ASSUME SessionAssumptions ==
    /\ Files \subseteq Environment \cup {Unreadable} /\ Unreadable \notin Environment
    /\ SubjectOf \in [Sessions -> Subjects]
    /\ Supplies \subseteq [Roles -> Sessions \cup {Nothing}] /\ Nothing \notin Sessions
    /\ Standings \subseteq [Subjects -> [roles : SUBSET {"USER", "ADMIN"}, permitted : BOOLEAN]]
    /\ MaxChanges \in Nat

VARIABLES file, override,  \* --env, --session-mode ("none" when it is not given)
          config,          \* the environment of this run
          items,           \* the selected tests: [markers, fixtures, malformed, own]
          stray,           \* a test that is not selected has markers out of order
          supply, standing, changes,
          stage,           \* "configure", "collect", "run", "done"
          current,         \* the test that is being set up or run
          skipped,         \* the tests that collection skips
          cache,           \* the outcome of each session fixture
          session, who,    \* the value of the sessions and of the identities
          acquired, asked, \* how often a role was acquired, an identity requested
          ran, unmet,      \* tests whose body ran; that an unmet prerequisite stopped
          gaveUp,          \* tests that have skipped themselves
          failed, exit

vars == <<file, override, config, items, stray, supply, standing, changes, stage, current,
          skipped, cache, session, who, acquired, asked, ran, unmet, gaveUp, failed, exit>>

inputs  == <<file, override, items, stray, supply>>
outside == <<standing, changes>>
values  == <<cache, session, who, acquired, asked>>
results == <<ran, unmet, gaveUp, failed>>

SessionOf  == [primary |-> "primary_session", secondary |-> "secondary_session",
               admin |-> "admin_session"]
IdentityOf == [primary |-> "primary_identity", secondary |-> "secondary_identity",
               admin |-> "admin_identity"]

Fixtures == {SessionOf[r] : r \in Roles} \cup {IdentityOf[r] : r \in Roles}
            \cup {"distinct_user_sessions", "distinct_admin_user_identities"}

\* what a fixture sets up, in the order of the parameters of its function
SetupOrder ==
    [unauthenticated_gateway_client |-> <<>>,
     primary_session          |-> <<"primary_session">>,
     secondary_session        |-> <<"secondary_session">>,
     admin_session            |-> <<"admin_session">>,
     gateway_client           |-> <<"primary_session">>,
     secondary_gateway_client |-> <<"secondary_session">>,
     admin_gateway_client     |-> <<"admin_session", "admin_identity">>,
     primary_identity         |-> <<"primary_session", "primary_identity">>,
     secondary_identity       |-> <<"secondary_session", "secondary_identity">>,
     admin_identity           |-> <<"admin_session", "admin_identity">>,
     distinct_user_sessions   |->
       <<"primary_session", "secondary_session", "primary_identity", "secondary_identity",
         "distinct_user_sessions">>,
     distinct_admin_user_identities |->
       <<"primary_session", "primary_identity", "secondary_session", "secondary_identity",
         "admin_session", "admin_identity", "distinct_admin_user_identities">>]

\* every test names session fixtures of the plugin; its own are `own`
ASSUME SuitesAssumption ==
    \A suite \in Suites :
        /\ Len(suite) \in Nat /\ DOMAIN suite = 1..Len(suite)
        /\ \A i \in DOMAIN suite : suite[i].fixtures \in Seq(DOMAIN SetupOrder)

\* what the fixtures a test names set up, by the places of the name and of the
\* fixture behind it; and the fixture at such a place
Places(test) ==
    UNION {{<<k, j>> : j \in DOMAIN SetupOrder[test.fixtures[k]]} : k \in DOMAIN test.fixtures}

At(test, place) == SetupOrder[test.fixtures[place[1]]][place[2]]

\* the order in which pytest sets them up
NotAfter(p, q) == p[1] < q[1] \/ (p[1] = q[1] /\ p[2] <= q[2])

Identity == [subject : Subjects \cup {Nothing}, roles : SUBSET {"USER", "ADMIN"},
             permitted : BOOLEAN]

Unknown == [subject |-> Nothing, roles |-> {}, permitted |-> FALSE]

Init ==
    /\ file \in Files /\ override \in {"none", "supplied", "browser"}
    /\ items \in Suites /\ supply \in Supplies /\ standing \in Standings
    /\ stray \in BOOLEAN /\ changes = 0
    /\ config = Unreadable
    /\ stage = "configure" /\ current = 1 /\ exit = "none"
    /\ skipped = {} /\ ran = {} /\ unmet = {} /\ gaveUp = {} /\ failed = FALSE
    /\ cache = [f \in Fixtures |-> "none"]
    /\ session = [r \in Roles |-> Nothing] /\ who = [r \in Roles |-> Unknown]
    /\ acquired = [r \in Roles |-> 0] /\ asked = [r \in Roles |-> 0]

-----------------------------------------------------------------------------
(* Configuration and collection *)

\* validate_environment_policy
PolicyAccepted(c) ==
    /\ c.type = "production" =>
         ~c.mutation /\ ~c.destructive /\ c.mode = "supplied" /\ ~c.browser
    /\ c.type = "staging" /\ c.mode = "supplied" => c.secondary
    /\ c.mode = "browser" => c.browser
    /\ c.destructive => c.mutation

\* the override is validated like the file
Overridden == IF override = "none" THEN file ELSE [file EXCEPT !.mode = override]

\* Mutant of Loads: the override is taken as it is.
LoadsFile == file # Unreadable /\ PolicyAccepted(file)

Loads == file # Unreadable /\ PolicyAccepted(file) /\ PolicyAccepted(Overridden)

UsageError == stage' = "done" /\ exit' = "usage"

Configure ==
    /\ stage = "configure"
    /\ \/ Loads /\ stage' = "collect" /\ config' = Overridden /\ UNCHANGED exit
       \/ ~Loads /\ UsageError /\ UNCHANGED config
    /\ UNCHANGED <<inputs, outside, values, results, current, skipped>>

\* the marker grammar, and the markers admin_deactivation stands on
MarkersAccepted(item) ==
    /\ ~item.malformed
    /\ "admin_deactivation" \in item.markers =>
         {"admin", "authorization", "mutation", "destructive"} \subseteq item.markers

\* marker_policy_skip_reason
PolicySkips(c, markers) ==
    \/ "admin_deactivation" \in markers /\ ~(c.exact /\ c.mode = "browser")
    \/ "destructive" \in markers /\ ~c.destructive
    \/ "mutation" \in markers /\ ~c.mutation
    \/ c.type = "production" /\ markers \cap {"admin", "admin_auth_smoke"} # {}
    \/ /\ c.type = "staging" /\ "authorization" \in markers
       /\ c.mode = "supplied" /\ ~c.secondary

\* the plugin sees every collected test, before -m or -k leaves any out
Collect ==
    /\ stage = "collect"
    /\ IF ~stray /\ \A i \in DOMAIN items : MarkersAccepted(items[i])
       THEN /\ skipped' = {i \in DOMAIN items : PolicySkips(config, items[i].markers)}
            /\ stage' = "run" /\ UNCHANGED exit
       ELSE UsageError /\ UNCHANGED skipped
    /\ UNCHANGED <<inputs, outside, values, results, config, current>>

-----------------------------------------------------------------------------
(* The session fixtures *)

\* Mutant of Missing: a client does not wait for the identity of its session.
MissingNamed ==
    LET test == items[current]
    IN  {p \in Places(test) :
           /\ cache[At(test, p)] # "value"
           /\ \/ \E r \in Roles : At(test, p) = SessionOf[r]
              \/ \E k \in DOMAIN test.fixtures : test.fixtures[k] = At(test, p)}

\* the places of the current test whose fixtures have no value
Missing == {p \in Places(items[current]) : cache[At(items[current], p)] # "value"}

\* Mutant of Needs: a skipped test is set up before it is skipped.
NeedsOfAny(fixture) ==
    /\ stage = "run" /\ current \in DOMAIN items
    /\ \E p \in Missing : /\ \A q \in Missing : NotAfter(p, q)
                          /\ fixture = At(items[current], p)

\* the first of them, for a test that collection did not skip
Needs(fixture) ==
    /\ stage = "run" /\ current \in DOMAIN items \ skipped
    /\ \E p \in Missing : /\ \A q \in Missing : NotAfter(p, q)
                          /\ fixture = At(items[current], p)

\* Mutant of SetsUp: a failure is not kept.
SetsUpValue(fixture, outcome) ==
    cache' = [cache EXCEPT ![fixture] = IF outcome = "failed" THEN "none" ELSE outcome]

\* a failure of any kind and a skip are kept like a value
SetsUp(fixture, outcome) == cache' = [cache EXCEPT ![fixture] = outcome]

KeepsStage == UNCHANGED <<inputs, outside, results, config, stage, current, skipped, exit>>

\* load_supplied_session, or acquire_browser_session
Acquires(role) ==
    IF config.mode = "supplied"
    THEN supply[role] # Nothing /\ (role \in {"secondary", "admin"} => config[role])
    ELSE supply[role] # Nothing

\* Mutant of Excused: also locally.
ExcusedAnywhere(role) == role = "secondary" /\ config.mode = "supplied" /\ ~config.secondary

\* which missing session is a skip: the secondary one, but not locally
Excused(role) ==
    /\ role = "secondary" /\ config.mode = "supplied" /\ ~config.secondary
    /\ config.type # "local"

\* Mutant of AcquireSession: the session is not kept with its fixture.
AcquireSessionAway(role) ==
    /\ Needs(SessionOf[role]) /\ cache[SessionOf[role]] = "none"
    /\ acquired' = [acquired EXCEPT ![role] = @ + 1]
    /\ SetsUp(SessionOf[role], IF Acquires(role) THEN "value" ELSE "failed")
    /\ UNCHANGED <<session, who, asked>>
    /\ KeepsStage

\* the admin session is not even tried in production
AcquireSession(role) ==
    /\ Needs(SessionOf[role]) /\ cache[SessionOf[role]] = "none"
    /\ IF role = "admin" /\ config.type = "production"
       THEN SetsUp(SessionOf[role], "skipped") /\ UNCHANGED <<session, acquired>>
       ELSE /\ acquired' = [acquired EXCEPT ![role] = @ + 1]
            /\ \/ /\ Acquires(role)
                  /\ session' = [session EXCEPT ![role] = supply[role]]
                  /\ SetsUp(SessionOf[role], "value")
               \/ /\ ~Acquires(role) \/ config.mode = "browser"
                  /\ SetsUp(SessionOf[role], IF Excused(role) THEN "skipped" ELSE "failed")
                  /\ UNCHANGED session
    /\ UNCHANGED <<who, asked>>
    /\ KeepsStage

NormalIdentity(identity) == "USER" \in identity.roles /\ "ADMIN" \notin identity.roles
AdminIdentity(identity)  == {"USER", "ADMIN"} \subseteq identity.roles /\ identity.permitted
AwaitsPromotion(identity) == NormalIdentity(identity)

\* GET /auth/v1/user with the session of the role
Answer(role) ==
    LET subject == SubjectOf[session[role]]
    IN  [subject |-> subject, roles |-> standing[subject].roles,
         permitted |-> standing[subject].permitted]

Request(role) ==
    /\ Needs(IdentityOf[role]) /\ cache[IdentityOf[role]] = "none"
    /\ asked' = [asked EXCEPT ![role] = @ + 1]
    /\ UNCHANGED <<session, acquired>>

\* an answer of another status or shape, a lost answer, or the wrong roles
IdentityFails(role) ==
    /\ Request(role)
    /\ SetsUp(IdentityOf[role], "failed")
    /\ UNCHANGED who
    /\ KeepsStage

Declared(role, identity) ==
    IF role = "admin" THEN AdminIdentity(identity) ELSE NormalIdentity(identity)

IdentityAccepted(role) ==
    /\ Request(role) /\ Declared(role, Answer(role))
    /\ who' = [who EXCEPT ![role] = Answer(role)]
    /\ SetsUp(IdentityOf[role], "value")
    /\ KeepsStage

\* pytest.exit(2): a normal account behind the admin session
PromotionRequired ==
    /\ Request("admin") /\ AwaitsPromotion(Answer("admin"))
    /\ who' = [who EXCEPT !["admin"] = Answer("admin")]
    /\ stage' = "done" /\ exit' = "promote"
    /\ UNCHANGED <<cache, inputs, outside, results, config, current, skipped>>

DistinctSubjects(roles) == \A r, s \in roles : r # s => who[r].subject # who[s].subject

Compare(fixture, distinct) ==
    /\ Needs(fixture) /\ cache[fixture] = "none"
    /\ SetsUp(fixture, IF distinct THEN "value" ELSE "failed")
    /\ UNCHANGED <<session, who, acquired, asked>>
    /\ KeepsStage

\* Mutant of CompareUsers: different cookies pass for different users.
CompareSessions == Compare("distinct_user_sessions", session["primary"] # session["secondary"])

CompareUsers ==
    Compare("distinct_user_sessions",
            /\ session["primary"] # session["secondary"]
            /\ DistinctSubjects({"primary", "secondary"}))

CompareAll == Compare("distinct_admin_user_identities", DistinctSubjects(Roles))

-----------------------------------------------------------------------------
(* The tests *)

Turn == stage = "run" /\ current \in DOMAIN items

Proceed ==
    /\ current' = current + 1
    /\ UNCHANGED <<inputs, outside, values, config, stage, skipped, exit>>

SkipTest == Turn /\ current \in skipped /\ UNCHANGED results /\ Proceed

\* the isolated lifecycle has no credentials with supplied sessions, and may
\* lack them locally, where the file can have changed since primary_session was
\* set up (its record is rejected, or pending)
CredentialsMayLack == config.mode = "supplied" \/ config.type = "local"

RunTest ==
    /\ Turn /\ current \notin skipped /\ Missing = {}
    /\ items[current].own = "credentials" => config.mode # "supplied"
    /\ ran' = ran \cup {current}
    /\ failed' \in {failed, TRUE}
    /\ UNCHANGED <<unmet, gaveUp>>
    /\ Proceed

\* the skips of tests/api: browser_lifecycle_credentials, before the body, and
\* the exchange rates when no currency series is enabled, in it
SkipsItself ==
    /\ Turn /\ current \notin skipped /\ Missing = {}
    /\ \/ items[current].own = "credentials" /\ CredentialsMayLack /\ UNCHANGED ran
       \/ items[current].own = "data" /\ ran' = ran \cup {current}
    /\ gaveUp' = gaveUp \cup {current}
    /\ UNCHANGED <<unmet, failed>>
    /\ Proceed

\* a fixture that has failed or skipped before does so again
Unmet ==
    /\ Turn
    /\ \E fixture \in Fixtures :
         /\ Needs(fixture) /\ cache[fixture] \in {"failed", "skipped"}
         /\ failed' = (failed \/ cache[fixture] = "failed")
    /\ unmet' = unmet \cup {current}
    /\ UNCHANGED <<ran, gaveUp>>
    /\ Proceed

Conclude ==
    /\ stage = "run" /\ current \notin DOMAIN items
    /\ stage' = "done" /\ exit' = IF failed THEN "fail" ELSE "pass"
    /\ UNCHANGED <<inputs, outside, values, results, config, current, skipped>>

Ended == stage = "done" /\ UNCHANGED vars

\* an operator assigns ADMIN to an account, or takes it away
Reassign(subject) ==
    /\ changes < MaxChanges /\ stage # "done"
    /\ changes' = changes + 1
    /\ \E roles \in {standing[subject].roles \cup {"ADMIN"}, standing[subject].roles \ {"ADMIN"}} :
         standing' = [standing EXCEPT ![subject].roles = roles]
    /\ UNCHANGED <<inputs, values, results, config, stage, current, skipped, exit>>

Next ==
    \/ Configure \/ Collect
    \/ \E r \in Roles : AcquireSession(r) \/ IdentityAccepted(r) \/ IdentityFails(r)
    \/ PromotionRequired \/ CompareUsers \/ CompareAll
    \/ SkipTest \/ RunTest \/ SkipsItself \/ Unmet \/ Conclude \/ Ended
    \/ \E s \in Subjects : Reassign(s)

Spec == Init /\ [][Next]_vars

-----------------------------------------------------------------------------
PytestTypeOK ==
    /\ file \in Files /\ override \in {"none", "supplied", "browser"}
    /\ items \in Suites /\ stray \in BOOLEAN /\ supply \in Supplies
    /\ config = Unreadable \/ (Loads /\ config = Overridden)
    /\ standing \in [Subjects -> [roles : SUBSET {"USER", "ADMIN"}, permitted : BOOLEAN]]
    /\ changes \in 0..MaxChanges
    /\ stage \in {"configure", "collect", "run", "done"}
    /\ stage \in {"collect", "run"} => config # Unreadable
    /\ cache \in [Fixtures -> {"none", "value", "failed", "skipped"}]
    /\ session \in [Roles -> Sessions \cup {Nothing}]
    /\ \A r \in Roles : cache[SessionOf[r]] = "value" => session[r] \in Sessions
    /\ who \in [Roles -> Identity]
    /\ acquired \in [Roles -> Nat] /\ asked \in [Roles -> Nat]
    /\ failed \in BOOLEAN
    /\ exit \in {"none", "usage", "promote", "pass", "fail"}

\* the roles a fixture is about, whatever it sets up: "a scenario that relies on
\* normal-user denial must use primary_identity and
\* distinct_admin_user_identities; this verifies [...] distinct public subjects
\* without eagerly acquiring the secondary identity"
ForRoles ==
    [f \in DOMAIN SetupOrder |->
       IF f = "unauthenticated_gateway_client" THEN {}
       ELSE IF f \in {"admin_gateway_client", "admin_session", "admin_identity"} THEN {"admin"}
       ELSE IF f \in {"secondary_gateway_client", "secondary_session", "secondary_identity"}
            THEN {"secondary"}
       ELSE IF f = "distinct_user_sessions" THEN {"primary", "secondary"}
       ELSE IF f = "distinct_admin_user_identities" THEN {"primary", "admin"}
       ELSE {"primary"}]

Asks(i, fixture) == \E k \in DOMAIN items[i].fixtures : items[i].fixtures[k] = fixture

AsksFor(i, role) ==
    \E k \in DOMAIN items[i].fixtures : role \in ForRoles[items[i].fixtures[k]]

Involves(i, role) ==
    AsksFor(i, role) \/ (role = "secondary" /\ Asks(i, "distinct_admin_user_identities"))

\* "Production remains supplied-session-only and read-only": whatever the file
\* and --session-mode say, no browser login, no admin session, and no test that
\* writes or needs an admin.
ProductionIsReadOnly ==
    file # Unreadable /\ file.type = "production" =>
        /\ \A r \in Roles : acquired[r] > 0 => config.mode = "supplied"
        /\ acquired["admin"] = 0
        /\ \A i \in ran : items[i].markers
             \cap {"mutation", "destructive", "admin", "admin_auth_smoke"} = {}

\* A session, with the signup and the login behind it, is acquired when a test
\* that is not skipped has its turn and names a fixture of the role; a focused
\* selection leaves the other identities alone.  There is one exception, against
\* the words of the documentation quoted at ForRoles: the fixture
\* distinct_admin_user_identities has secondary_identity as a parameter, and so
\* the secondary session is acquired for a test that names nothing of that user.
AcquiredOnRequest ==
    \A r \in Roles : acquired[r] > 0 =>
        \E i \in DOMAIN items \ skipped : i <= current /\ Involves(i, r)

\* However many tests ask, and however the first attempt ended, a role is
\* acquired once and its identity is requested once in a session: a failed
\* login is not tried again by the next test.
AcquiredOnce == \A r \in Roles : acquired[r] <= 1 /\ asked[r] <= 1

\* A test ran with the users it relies on: sessions of different accounts
\* behind a cross-user test, a normal user behind a denial, an admin with its
\* permissions behind an admin client, each shown by the session in use.
RanWithItsUsers ==
    \A i \in ran :
        /\ Asks(i, "distinct_user_sessions") =>
             SubjectOf[session["primary"]] # SubjectOf[session["secondary"]]
        /\ Asks(i, "distinct_admin_user_identities") =>
             \A r, s \in Roles : r # s => SubjectOf[session[r]] # SubjectOf[session[s]]
        /\ Asks(i, "primary_identity") \/ Asks(i, "distinct_user_sessions") =>
             NormalIdentity(who["primary"]) /\ who["primary"].subject = SubjectOf[session["primary"]]
        /\ Asks(i, "admin_gateway_client") =>
             AdminIdentity(who["admin"]) /\ who["admin"].subject = SubjectOf[session["admin"]]

\* A green session tells what was not tested.  "A missing or indistinct
\* secondary identity fails local authorization execution", and staging files
\* have to name one, so outside production an unmet prerequisite of the plugin
\* is never a skip.  What a green session there may have skipped besides what
\* the policy skips are the two kinds of tests that skip themselves: without an
\* enabled currency, and without credentials for the isolated lifecycle, which
\* a staging login cannot lack.
GreenSkipsLittle ==
    exit = "pass" =>
        /\ DOMAIN items = ran \cup skipped \cup unmet \cup gaveUp
        /\ config.type # "production" =>
             \A i \in DOMAIN items \ skipped :
                 \/ i \in ran \ gaveUp
                 \/ items[i].own = "data"
                 \/ items[i].own = "credentials" /\ CredentialsMayLack

\* "Missing ADMIN on a valid normal account is the only promotion stop", and it
\* comes before the body of any test that uses the admin's client or identity:
\* no admin scenario has done anything that would have to be undone when the
\* session is repeated after the promotion (tests of other users may have run).
PromotionStopsFirst ==
    exit = "promote" =>
        /\ NormalIdentity(who["admin"])
        /\ \A i \in ran : AsksFor(i, "admin") => Asks(i, "admin_session")
=============================================================================
