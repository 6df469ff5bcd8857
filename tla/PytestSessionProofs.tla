------------------------- MODULE PytestSessionProofs -------------------------
(***************************************************************************)
(* For every environment file and mode override, every suite, every supply *)
(* of sessions and every change of roles: a role is acquired once, a       *)
(* production session stays read-only, and a green session has run all     *)
(* but what the policy excludes and what may skip itself.                  *)
(***************************************************************************)
EXTENDS PytestSession, TLAPS

Outcomes == {"value", "failed", "skipped"}

LEMMA FixtureNames ==
    /\ DOMAIN SessionOf = Roles /\ DOMAIN IdentityOf = Roles
    /\ \A r \in Roles : SessionOf[r] \in Fixtures /\ IdentityOf[r] \in Fixtures
    /\ "distinct_user_sessions" \in Fixtures /\ "distinct_admin_user_identities" \in Fixtures
    /\ \A r, s \in Roles : /\ SessionOf[r] # IdentityOf[s]
                           /\ SessionOf[r] # "distinct_user_sessions"
                           /\ SessionOf[r] # "distinct_admin_user_identities"
                           /\ IdentityOf[r] # "distinct_user_sessions"
                           /\ IdentityOf[r] # "distinct_admin_user_identities"
                           /\ (SessionOf[r] = SessionOf[s] => r = s)
                           /\ (IdentityOf[r] = IdentityOf[s] => r = s)
BY DEF SessionOf, IdentityOf, Fixtures, Roles

-----------------------------------------------------------------------------
(* What a fixture needs *)

\* what the fixture is set up with, itself included
SetUpWith(name, fixture) == \E j \in DOMAIN SetupOrder[name] : SetupOrder[name][j] = fixture

\* what it sets up is for its roles, but for the comparison with the admin
ForRole(name, r) ==
    r \in ForRoles[name] \/ (r = "secondary" /\ name = "distinct_admin_user_identities")

Behind(name, first, second) ==
    \A j \in DOMAIN SetupOrder[name] : SetupOrder[name][j] = second =>
        \E i \in DOMAIN SetupOrder[name] : i < j /\ SetupOrder[name][i] = first

\* The table of the fixtures: a session comes before the identity it shows,
\* the identities before their comparison; a fixture sets up what is for its
\* roles only (ForRole), and no fixture that needs the admin's identity goes without it.
LEMMA SetupFacts ==
    ASSUME NEW name \in DOMAIN SetupOrder
    PROVE  /\ DOMAIN SetupOrder[name] \subseteq Nat
           /\ \A r \in Roles : /\ Behind(name, SessionOf[r], IdentityOf[r])
                               /\ Behind(name, IdentityOf[r], "distinct_admin_user_identities")
                               /\ SetUpWith(name, SessionOf[r]) => ForRole(name, r)
           /\ \A r \in {"primary", "secondary"} :
                Behind(name, IdentityOf[r], "distinct_user_sessions")
           /\ "admin" \in ForRoles[name] =>
                name = "admin_session" \/ SetUpWith(name, "admin_identity")
<1> DEFINE All(n) ==
      /\ DOMAIN SetupOrder[n] \subseteq Nat
      /\ \A r \in Roles : /\ Behind(n, SessionOf[r], IdentityOf[r])
                          /\ Behind(n, IdentityOf[r], "distinct_admin_user_identities")
                          /\ SetUpWith(n, SessionOf[r]) => ForRole(n, r)
      /\ \A r \in {"primary", "secondary"} : Behind(n, IdentityOf[r], "distinct_user_sessions")
      /\ "admin" \in ForRoles[n] => n = "admin_session" \/ SetUpWith(n, "admin_identity")
<1> USE DEF Behind, SetUpWith, ForRole, ForRoles, Roles, SessionOf, IdentityOf
<1>1. name = "unauthenticated_gateway_client" => All(name)
  BY DEF SetupOrder
<1>2. name = "primary_session" => All(name)
  BY DEF SetupOrder
<1>3. name = "secondary_session" => All(name)
  BY DEF SetupOrder
<1>4. name = "admin_session" => All(name)
  BY DEF SetupOrder
<1>5. name = "gateway_client" => All(name)
  BY DEF SetupOrder
<1>6. name = "secondary_gateway_client" => All(name)
  BY DEF SetupOrder
<1>7. name = "admin_gateway_client" => All(name)
  BY DEF SetupOrder
<1>8. name = "primary_identity" => All(name)
  BY DEF SetupOrder
<1>9. name = "secondary_identity" => All(name)
  BY DEF SetupOrder
<1>10. name = "admin_identity" => All(name)
  BY DEF SetupOrder
<1>11. name = "distinct_user_sessions" => All(name)
  BY DEF SetupOrder
<1>12. name = "distinct_admin_user_identities" => All(name)
  BY DEF SetupOrder
<1>13. name \in {"unauthenticated_gateway_client", "primary_session", "secondary_session",
         "admin_session", "gateway_client", "secondary_gateway_client", "admin_gateway_client",
         "primary_identity", "secondary_identity", "admin_identity", "distinct_user_sessions",
         "distinct_admin_user_identities"}
  BY DEF SetupOrder
<1> QED BY <1>1, <1>2, <1>3, <1>4, <1>5, <1>6, <1>7, <1>8, <1>9, <1>10, <1>11, <1>12, <1>13

\* The fixture that a test needs next stands in the table of one that it names.
LEMMA NeedsAPlace ==
    ASSUME PytestTypeOK, NEW fixture, Needs(fixture)
    PROVE  /\ current \in DOMAIN items \ skipped
           /\ \E k \in DOMAIN items[current].fixtures :
                /\ items[current].fixtures[k] \in DOMAIN SetupOrder
                /\ \E j \in DOMAIN SetupOrder[items[current].fixtures[k]] :
                     /\ fixture = SetupOrder[items[current].fixtures[k]][j]
                     /\ \A i \in DOMAIN SetupOrder[items[current].fixtures[k]] :
                          i < j => cache[SetupOrder[items[current].fixtures[k]][i]] = "value"
<1> DEFINE test == items[current]
<1> DEFINE order(k) == SetupOrder[test.fixtures[k]]
<1>1. current \in DOMAIN items \ skipped
  BY DEF Needs
<1>2. PICK p \in Missing : fixture = At(test, p) /\ \A q \in Missing : NotAfter(p, q)
  BY DEF Needs
<1>3. PICK k \in DOMAIN test.fixtures : \E j \in DOMAIN order(k) : p = <<k, j>>
  BY <1>2 DEF Missing, Places
<1>4. PICK j \in DOMAIN order(k) : p = <<k, j>>
  BY <1>3
<1>5. test.fixtures[k] \in DOMAIN SetupOrder
  BY <1>1, SuitesAssumption DEF PytestTypeOK
<1>6. DOMAIN order(k) \subseteq Nat
  BY <1>5, SetupFacts
<1>7. DOMAIN test.fixtures \subseteq Nat
  BY <1>1, SuitesAssumption DEF PytestTypeOK
<1>8. ASSUME NEW i \in DOMAIN order(k), i < j PROVE cache[order(k)[i]] = "value"
  <2>1. <<k, i>> \in Places(test)
    BY DEF Places
  <2>2. ~NotAfter(p, <<k, i>>)
    BY <1>4, <1>6, <1>7, <1>8 DEF NotAfter
  <2>3. <<k, i>> \notin Missing
    BY <1>2, <2>2
  <2> QED BY <2>1, <2>3 DEF Missing, At
<1>9. fixture = order(k)[j]
  BY <1>2, <1>4 DEF At
<1> QED BY <1>1, <1>5, <1>8, <1>9

\* A fixture behind another is needed once the other has its value.
LEMMA NeededBehind ==
    ASSUME PytestTypeOK, NEW first, NEW second, Needs(second),
           \A name \in DOMAIN SetupOrder : Behind(name, first, second)
    PROVE  cache[first] = "value"
BY NeedsAPlace DEF Behind

\* A test whose body runs has the value of everything it is set up with.
LEMMA NothingMissing ==
    ASSUME Missing = {}, NEW k \in DOMAIN items[current].fixtures, NEW fixture,
           SetUpWith(items[current].fixtures[k], fixture)
    PROVE  cache[fixture] = "value"
<1>1. PICK j \in DOMAIN SetupOrder[items[current].fixtures[k]] :
        SetupOrder[items[current].fixtures[k]][j] = fixture
  BY DEF SetUpWith
<1>2. <<k, j>> \in Places(items[current])
  BY DEF Places
<1> QED BY <1>1, <1>2 DEF Missing, At

-----------------------------------------------------------------------------
(* Types *)

\* Whoever has configured the session: what the policy accepted of it.
LEMMA Configured ==
    ASSUME PytestTypeOK, config # Unreadable
    PROVE  /\ config \in Environment /\ config.type = file.type
           /\ PolicyAccepted(config)
           /\ file # Unreadable
<1>1. Loads /\ config = Overridden
  BY DEF PytestTypeOK
<1>2. file \in Environment
  BY <1>1, SessionAssumptions DEF PytestTypeOK, Loads
<1>3. Overridden \in Environment /\ Overridden.type = file.type
  BY <1>2 DEF Overridden, Environment, PytestTypeOK
<1> QED BY <1>1, <1>3 DEF Loads

\* A step that sets up a fixture, with the outcome it keeps.
SettingUp ==
    \/ \E r \in Roles : AcquireSession(r) \/ IdentityAccepted(r) \/ IdentityFails(r)
    \/ CompareUsers \/ CompareAll

\* Each of them fills one empty place, in a running session, and a skip is
\* kept in production only.
LEMMA SetUp ==
    ASSUME PytestTypeOK, SettingUp
    PROVE  /\ KeepsStage /\ stage = "run"
           /\ \E f \in Fixtures, outcome \in Outcomes :
                /\ cache[f] = "none" /\ cache' = [cache EXCEPT ![f] = outcome]
                /\ outcome = "skipped" => config.type = "production"
<1> USE FixtureNames DEF Outcomes
<1>0. stage = "run" => config # Unreadable
  BY DEF PytestTypeOK
<1>1. ASSUME NEW r \in Roles, AcquireSession(r)
      PROVE  /\ KeepsStage /\ stage = "run" /\ cache[SessionOf[r]] = "none"
             /\ \E outcome \in Outcomes :
                  /\ cache' = [cache EXCEPT ![SessionOf[r]] = outcome]
                  /\ outcome = "skipped" => config.type = "production"
  <2>1. KeepsStage /\ stage = "run" /\ cache[SessionOf[r]] = "none"
    BY <1>1 DEF AcquireSession, Needs
  <2>2. config \in Environment /\ PolicyAccepted(config)
    BY <1>0, <2>1, Configured
  <2>3. Excused(r) => config.type = "production"
    BY <2>2 DEF Excused, PolicyAccepted, Environment
  <2>4. CASE r = "admin" /\ config.type = "production"
    BY <1>1, <2>1, <2>4 DEF AcquireSession, SetsUp
  <2>5. CASE ~(r = "admin" /\ config.type = "production")
    <3>1. \/ SetsUp(SessionOf[r], "value")
          \/ SetsUp(SessionOf[r], IF Excused(r) THEN "skipped" ELSE "failed")
      BY <1>1, <2>5 DEF AcquireSession
    <3>2. CASE SetsUp(SessionOf[r], "value")
      BY <2>1, <3>2 DEF SetsUp
    <3>3. CASE Excused(r) /\ SetsUp(SessionOf[r], "skipped")
      BY <2>1, <2>3, <3>3 DEF SetsUp
    <3>4. CASE ~Excused(r) /\ SetsUp(SessionOf[r], "failed")
      BY <2>1, <3>4 DEF SetsUp
    <3> QED BY <3>1, <3>2, <3>3, <3>4
  <2> QED BY <2>4, <2>5
<1>2. ASSUME NEW r \in Roles, IdentityAccepted(r) \/ IdentityFails(r)
      PROVE  /\ KeepsStage /\ stage = "run" /\ cache[IdentityOf[r]] = "none"
             /\ \/ cache' = [cache EXCEPT ![IdentityOf[r]] = "value"]
                \/ cache' = [cache EXCEPT ![IdentityOf[r]] = "failed"]
  BY <1>2 DEF IdentityAccepted, IdentityFails, Request, Needs, SetsUp
<1>3. ASSUME NEW f, NEW distinct, Compare(f, distinct)
      PROVE  /\ KeepsStage /\ stage = "run" /\ cache[f] = "none"
             /\ \/ cache' = [cache EXCEPT ![f] = "value"]
                \/ cache' = [cache EXCEPT ![f] = "failed"]
  BY <1>3 DEF Compare, Needs, SetsUp
<1>4. CASE \E r \in Roles : AcquireSession(r)
  <2>1. PICK r \in Roles : AcquireSession(r)
    BY <1>4
  <2> QED BY <1>1, <2>1
<1>5. CASE \E r \in Roles : IdentityAccepted(r) \/ IdentityFails(r)
  <2>1. PICK r \in Roles : IdentityAccepted(r) \/ IdentityFails(r)
    BY <1>5
  <2> QED BY <1>2, <2>1
<1>6. CASE CompareUsers
  BY <1>3, <1>6 DEF CompareUsers
<1>7. CASE CompareAll
  BY <1>3, <1>7 DEF CompareAll
<1> QED BY <1>4, <1>5, <1>6, <1>7 DEF SettingUp

\* An identity is only requested with a session, and the answer is its account's.
LEMMA AnswerTyped ==
    ASSUME PytestTypeOK, NEW r \in Roles, Request(r)
    PROVE  Answer(r) \in Identity /\ cache[SessionOf[r]] = "value"
<1>1. cache[SessionOf[r]] = "value"
  BY NeededBehind, SetupFacts DEF Request
<1>2. session[r] \in Sessions
  BY <1>1 DEF PytestTypeOK
<1>3. SubjectOf[session[r]] \in Subjects
  BY <1>2, SessionAssumptions
<1>4. standing[SubjectOf[session[r]]] \in [roles : SUBSET {"USER", "ADMIN"}, permitted : BOOLEAN]
  BY <1>3 DEF PytestTypeOK
<1> QED BY <1>1, <1>3, <1>4 DEF Answer, Identity

LEMMA LoadsKept ==
    ASSUME UNCHANGED <<file, override>>
    PROVE  Loads' = Loads /\ Overridden' = Overridden
BY DEF Loads, Overridden

\* No step changes what the session was started with.
LEMMA InputsKept ==
    ASSUME PytestTypeOK, [Next]_vars
    PROVE  UNCHANGED inputs
<1>1. CASE SettingUp
  <2>1. KeepsStage
    BY <1>1, SetUp
  <2> QED BY <2>1 DEF KeepsStage
<1>2. CASE SkipTest \/ RunTest \/ SkipsItself \/ Unmet
  <2>1. Proceed
    BY <1>2 DEF SkipTest, RunTest, SkipsItself, Unmet
  <2> QED BY <2>1 DEF Proceed
<1>3. CASE Configure \/ Collect \/ Conclude
  BY <1>3 DEF Configure, Collect, Conclude
<1>4. CASE PromotionRequired
  BY <1>4 DEF PromotionRequired
<1>5. ASSUME NEW s \in Subjects, Reassign(s) PROVE UNCHANGED inputs
  BY <1>5 DEF Reassign
<1>6. CASE UNCHANGED vars
  BY <1>6 DEF vars, inputs
<1> QED BY <1>1, <1>2, <1>3, <1>4, <1>5, <1>6 DEF Next, SettingUp, Ended

\* PytestTypeOK: the configuration is one that the policy accepts, and a
\* session fixture with a value has a session.
THEOREM TypeCorrect == Spec => []PytestTypeOK
<1>1. Init => PytestTypeOK
  <2> SUFFICES ASSUME Init PROVE PytestTypeOK
    OBVIOUS
  <2>1. standing \in [Subjects -> [roles : SUBSET {"USER", "ADMIN"}, permitted : BOOLEAN]]
    BY SessionAssumptions DEF Init
  <2>2. changes \in 0..MaxChanges
    BY SessionAssumptions DEF Init
  <2>3. failed \in BOOLEAN
    BY DEF Init
  <2>4. \A r \in Roles : cache[SessionOf[r]] = "none"
    BY FixtureNames DEF Init
  <2>5. who \in [Roles -> Identity]
    BY DEF Init, Unknown, Identity
  <2> QED BY <2>1, <2>2, <2>3, <2>4, <2>5 DEF Init, PytestTypeOK
<1>2. PytestTypeOK /\ [Next]_vars => PytestTypeOK'
  <2> SUFFICES ASSUME PytestTypeOK, [Next]_vars PROVE PytestTypeOK'
    OBVIOUS
  <2> USE DEF inputs, outside, results
  <2>0. UNCHANGED inputs
    BY InputsKept
  <2>a. Loads' = Loads /\ Overridden' = Overridden
    BY <2>0, LoadsKept
  <2>1. CASE Configure
    <3>1. CASE Loads /\ stage' = "collect" /\ config' = Overridden /\ UNCHANGED exit
      <4>1. file \in Environment
        BY <3>1, SessionAssumptions DEF PytestTypeOK, Loads
      <4>2. Overridden # Unreadable
        <5>1. Overridden \in Environment
          BY <4>1 DEF Overridden, Environment, PytestTypeOK
        <5> QED BY <5>1, SessionAssumptions
      <4>3. Loads' /\ config' = Overridden' /\ config' # Unreadable
        BY <2>a, <3>1, <4>2
      <4>4. UNCHANGED <<inputs, outside, values, results, exit>>
        BY <2>1, <3>1 DEF Configure
      <4> QED BY <3>1, <4>3, <4>4 DEF PytestTypeOK, values
    <3>2. CASE UsageError /\ UNCHANGED config
      BY <2>0, <2>1, <2>a, <3>2 DEF Configure, UsageError, PytestTypeOK, values
    <3> QED BY <2>1, <3>1, <3>2 DEF Configure
  <2>2. CASE Collect
    BY <2>0, <2>2, <2>a DEF Collect, UsageError, PytestTypeOK, values
  <2>3. ASSUME NEW r \in Roles, AcquireSession(r) \/ IdentityAccepted(r) \/ IdentityFails(r)
        PROVE  /\ session' \in [Roles -> Sessions \cup {Nothing}]
               /\ acquired' \in [Roles -> Nat] /\ asked' \in [Roles -> Nat]
               /\ \A q \in Roles : cache'[SessionOf[q]] = "value" => session'[q] \in Sessions
               /\ who' \in [Roles -> Identity]
    <3>0. supply \in [Roles -> Sessions \cup {Nothing}]
      BY SessionAssumptions DEF PytestTypeOK
    <3>1. CASE AcquireSession(r)
      <4>1. /\ acquired' = acquired \/ acquired' = [acquired EXCEPT ![r] = @ + 1]
            /\ asked' = asked
        BY <3>1 DEF AcquireSession
      <4>2. \/ /\ session' = session
               /\ \/ cache' = [cache EXCEPT ![SessionOf[r]] = "skipped"]
                  \/ cache' = [cache EXCEPT ![SessionOf[r]] = "failed"]
            \/ /\ session' = [session EXCEPT ![r] = supply[r]] /\ supply[r] # Nothing
               /\ cache' = [cache EXCEPT ![SessionOf[r]] = "value"]
        <5>1. CASE UNCHANGED session
          BY <3>1, <5>1 DEF AcquireSession, SetsUp, Acquires
        <5>2. CASE Acquires(r) /\ session' = [session EXCEPT ![r] = supply[r]]
                   /\ SetsUp(SessionOf[r], "value")
          BY <5>2 DEF Acquires, SetsUp
        <5> QED BY <3>1, <5>1, <5>2 DEF AcquireSession
      <4>3. session' \in [Roles -> Sessions \cup {Nothing}]
        BY <3>0, <4>2 DEF PytestTypeOK
      <4>4. acquired' \in [Roles -> Nat] /\ asked' \in [Roles -> Nat]
        BY <4>1 DEF PytestTypeOK
      <4>5. ASSUME NEW q \in Roles, cache'[SessionOf[q]] = "value" PROVE session'[q] \in Sessions
        <5>1. CASE q = r
          BY <3>0, <4>2, <4>5, <5>1, FixtureNames DEF PytestTypeOK
        <5>2. CASE q # r
          BY <4>2, <4>5, <5>2, FixtureNames DEF PytestTypeOK
        <5> QED BY <5>1, <5>2
      <4>6. who' = who
        BY <3>1 DEF AcquireSession
      <4> QED BY <4>3, <4>4, <4>5, <4>6 DEF PytestTypeOK
    <3>2. CASE IdentityAccepted(r) \/ IdentityFails(r)
      <4>1. /\ session' = session /\ acquired' = acquired
            /\ asked' = [asked EXCEPT ![r] = @ + 1]
            /\ \/ cache' = [cache EXCEPT ![IdentityOf[r]] = "value"]
               \/ cache' = [cache EXCEPT ![IdentityOf[r]] = "failed"]
        BY <3>2 DEF IdentityAccepted, IdentityFails, Request, SetsUp
      <4>2. who' = who \/ who' = [who EXCEPT ![r] = Answer(r)]
        BY <3>2 DEF IdentityAccepted, IdentityFails
      <4>3. Request(r)
        BY <3>2 DEF IdentityAccepted, IdentityFails
      <4>4. who' \in [Roles -> Identity]
        BY <4>2, <4>3, AnswerTyped DEF PytestTypeOK
      <4>5. asked' \in [Roles -> Nat]
        BY <4>1 DEF PytestTypeOK
      <4>6. \A q \in Roles : cache'[SessionOf[q]] = cache[SessionOf[q]]
        BY <4>1, FixtureNames DEF PytestTypeOK
      <4> QED BY <4>1, <4>4, <4>5, <4>6 DEF PytestTypeOK
    <3> QED BY <2>3, <3>1, <3>2
  <2>4. CASE SettingUp
    <3>1. PICK f \in Fixtures, outcome \in Outcomes : cache' = [cache EXCEPT ![f] = outcome]
      BY <2>4, SetUp
    <3>2. cache' \in [Fixtures -> {"none", "value", "failed", "skipped"}]
      BY <3>1 DEF PytestTypeOK, Outcomes
    <3>3. KeepsStage
      BY <2>4, SetUp
    <3>4. /\ session' \in [Roles -> Sessions \cup {Nothing}]
          /\ acquired' \in [Roles -> Nat] /\ asked' \in [Roles -> Nat]
          /\ \A q \in Roles : cache'[SessionOf[q]] = "value" => session'[q] \in Sessions
          /\ who' \in [Roles -> Identity]
      <4>1. CASE CompareUsers \/ CompareAll
        <5>1. UNCHANGED <<session, acquired, asked, who>>
              /\ \A q \in Roles : cache'[SessionOf[q]] = cache[SessionOf[q]]
          BY <4>1, FixtureNames DEF CompareUsers, CompareAll, Compare, SetsUp, PytestTypeOK
        <5> QED BY <5>1 DEF PytestTypeOK
      <4> QED BY <2>3, <2>4, <4>1 DEF SettingUp
    <3> QED BY <2>a, <3>2, <3>3, <3>4 DEF KeepsStage, PytestTypeOK
  <2>5. CASE PromotionRequired
    <3>1. asked' = [asked EXCEPT !["admin"] = @ + 1] /\ UNCHANGED <<session, acquired, cache>>
      BY <2>5 DEF PromotionRequired, Request
    <3>2. asked' \in [Roles -> Nat]
      BY <3>1 DEF PytestTypeOK, Roles
    <3>3. who' \in [Roles -> Identity]
      <4>1. Request("admin") /\ who' = [who EXCEPT !["admin"] = Answer("admin")]
        BY <2>5 DEF PromotionRequired
      <4>2. Answer("admin") \in Identity
        BY <4>1, AnswerTyped DEF Roles
      <4> QED BY <4>1, <4>2 DEF PytestTypeOK
    <3> QED BY <2>5, <2>a, <3>1, <3>2, <3>3 DEF PromotionRequired, PytestTypeOK
  <2>6. CASE SkipTest \/ RunTest \/ SkipsItself \/ Unmet
    <3>1. Proceed
      BY <2>6 DEF SkipTest, RunTest, SkipsItself, Unmet
    <3>2. failed' = failed \/ failed' = TRUE \/ \E b \in BOOLEAN : failed' = (failed \/ b)
      BY <2>6 DEF SkipTest, RunTest, SkipsItself, Unmet
    <3>3. failed' \in BOOLEAN
      BY <3>2 DEF PytestTypeOK
    <3> QED BY <2>a, <3>1, <3>3 DEF Proceed, values, PytestTypeOK
  <2>7. CASE Conclude
    BY <2>7, <2>a DEF Conclude, values, PytestTypeOK
  <2>8. ASSUME NEW s \in Subjects, Reassign(s) PROVE PytestTypeOK'
    <3>1. changes' \in 0..MaxChanges
      BY <2>8, SessionAssumptions DEF Reassign, PytestTypeOK
    <3>2. PICK roles \in SUBSET {"USER", "ADMIN"} :
            standing' = [standing EXCEPT ![s].roles = roles]
      BY <2>8 DEF Reassign, PytestTypeOK
    <3>3. standing' \in [Subjects -> [roles : SUBSET {"USER", "ADMIN"}, permitted : BOOLEAN]]
      BY <3>2 DEF PytestTypeOK
    <3>4. UNCHANGED <<inputs, values, results, config, stage, current, skipped, exit>>
      BY <2>8 DEF Reassign
    <3> QED BY <2>a, <3>1, <3>3, <3>4 DEF values, PytestTypeOK
  <2>9. CASE UNCHANGED vars
    BY <2>9, <2>a DEF vars, PytestTypeOK
  <2> QED
    BY <2>1, <2>2, <2>4, <2>5, <2>6, <2>7, <2>8, <2>9 DEF Next, SettingUp, Ended
<1> QED BY <1>1, <1>2, PTL DEF Spec

-----------------------------------------------------------------------------
(* A role is acquired once *)

\* A counter that has left zero is at one, and the place it stands for is
\* filled: that is what keeps the step from being taken again.
Once ==
    \A r \in Roles :
        /\ acquired[r] = 0 \/ (acquired[r] = 1 /\ cache[SessionOf[r]] # "none")
        /\ asked[r] = 0 \/ (asked[r] = 1 /\ (cache[IdentityOf[r]] # "none" \/ stage = "done"))

\* The steps that set up a fixture count what they fill.
LEMMA OnceSetUp ==
    ASSUME PytestTypeOK, Once, SettingUp
    PROVE  Once'
<1> USE FixtureNames
<1>0. stage = "run" /\ stage' = "run"
  BY SetUp DEF KeepsStage
<1>1. ASSUME NEW r \in Roles, AcquireSession(r) PROVE Once'
  <2>1. cache[SessionOf[r]] = "none" /\ asked' = asked
    BY <1>1 DEF AcquireSession
  <2>2. acquired' = acquired \/ acquired' = [acquired EXCEPT ![r] = @ + 1]
    BY <1>1 DEF AcquireSession
  <2>3. \E outcome \in Outcomes : cache' = [cache EXCEPT ![SessionOf[r]] = outcome]
    BY <1>1 DEF AcquireSession, SetsUp, Outcomes
  <2>4. ASSUME NEW q \in Roles
        PROVE  /\ acquired'[q] = 0 \/ (acquired'[q] = 1 /\ cache'[SessionOf[q]] # "none")
               /\ cache'[IdentityOf[q]] = cache[IdentityOf[q]]
    <3>1. cache'[IdentityOf[q]] = cache[IdentityOf[q]]
      BY <2>3 DEF PytestTypeOK
    <3>2. CASE q = r
      BY <2>1, <2>2, <2>3, <3>1, <3>2 DEF PytestTypeOK, Once, Outcomes
    <3>3. CASE q # r
      BY <2>2, <2>3, <3>1, <3>3 DEF PytestTypeOK, Once
    <3> QED BY <3>2, <3>3, <3>1
  <2> QED BY <1>0, <2>1, <2>4 DEF Once
<1>2. ASSUME NEW r \in Roles, IdentityAccepted(r) \/ IdentityFails(r) PROVE Once'
  <2>1. cache[IdentityOf[r]] = "none" /\ acquired' = acquired
    BY <1>2 DEF IdentityAccepted, IdentityFails, Request
  <2>2. asked' = [asked EXCEPT ![r] = @ + 1]
    BY <1>2 DEF IdentityAccepted, IdentityFails, Request
  <2>3. \E outcome \in Outcomes : cache' = [cache EXCEPT ![IdentityOf[r]] = outcome]
    BY <1>2 DEF IdentityAccepted, IdentityFails, SetsUp, Outcomes
  <2>4. ASSUME NEW q \in Roles
        PROVE  /\ asked'[q] = 0 \/ (asked'[q] = 1 /\ cache'[IdentityOf[q]] # "none")
               /\ cache'[SessionOf[q]] = cache[SessionOf[q]]
    <3>1. cache'[SessionOf[q]] = cache[SessionOf[q]]
      BY <2>3 DEF PytestTypeOK
    <3>2. CASE q = r
      BY <1>0, <2>1, <2>2, <2>3, <3>1, <3>2 DEF PytestTypeOK, Once, Outcomes
    <3>3. CASE q # r
      BY <1>0, <2>2, <2>3, <3>1, <3>3 DEF PytestTypeOK, Once
    <3> QED BY <3>2, <3>3, <3>1
  <2> QED BY <1>0, <2>1, <2>4 DEF Once
<1>3. CASE CompareUsers \/ CompareAll
  <2>1. /\ UNCHANGED <<acquired, asked>>
        /\ \A q \in Roles : /\ cache'[SessionOf[q]] = cache[SessionOf[q]]
                            /\ cache'[IdentityOf[q]] = cache[IdentityOf[q]]
    BY <1>3 DEF CompareUsers, CompareAll, Compare, SetsUp, PytestTypeOK
  <2> QED BY <1>0, <2>1 DEF Once
<1> QED BY <1>1, <1>2, <1>3 DEF SettingUp

\* AcquiredOnce: neither an acquisition nor a request for an identity is
\* repeated in a session, whatever became of the first.
THEOREM AcquiredOnceOnly == Spec => []AcquiredOnce
<1>1. Init => Once
  BY DEF Init, Once
<1>2. PytestTypeOK /\ Once /\ [Next]_vars => Once'
  <2> SUFFICES ASSUME PytestTypeOK, Once, [Next]_vars PROVE Once'
    OBVIOUS
  <2>1. CASE SettingUp
    BY <2>1, OnceSetUp
  <2>2. CASE PromotionRequired
    <3>1. /\ UNCHANGED <<cache, acquired>> /\ stage' = "done"
          /\ stage = "run" /\ cache[IdentityOf["admin"]] = "none"
          /\ asked' = [asked EXCEPT !["admin"] = @ + 1]
      BY <2>2 DEF PromotionRequired, Request, Needs
    <3>2. ASSUME NEW q \in Roles PROVE asked'[q] = 0 \/ asked'[q] = 1
      <4>1. CASE q = "admin"
        BY <3>1, <4>1 DEF PytestTypeOK, Once
      <4>2. CASE q # "admin"
        BY <3>1, <4>2 DEF PytestTypeOK, Once
      <4> QED BY <4>1, <4>2
    <3> QED BY <3>1, <3>2 DEF Once
  <2>3. CASE SkipTest \/ RunTest \/ SkipsItself \/ Unmet
    <3>1. Proceed
      BY <2>3 DEF SkipTest, RunTest, SkipsItself, Unmet
    <3> QED BY <3>1 DEF Proceed, values, Once
  <2>4. CASE Configure \/ Collect
    <3>1. stage # "done" /\ UNCHANGED values
      BY <2>4 DEF Configure, Collect
    <3> QED BY <3>1 DEF values, Once
  <2>5. CASE Conclude
    <3>1. stage # "done" /\ UNCHANGED values
      BY <2>5 DEF Conclude
    <3> QED BY <3>1 DEF values, Once
  <2>6. ASSUME NEW s \in Subjects, Reassign(s) PROVE Once'
    BY <2>6 DEF Reassign, values, Once
  <2>7. CASE UNCHANGED vars
    BY <2>7 DEF vars, Once
  <2> QED BY <2>1, <2>2, <2>3, <2>4, <2>5, <2>6, <2>7 DEF Next, SettingUp, Ended
<1>3. PytestTypeOK /\ Once => AcquiredOnce
  BY DEF PytestTypeOK, Once, AcquiredOnce
<1> QED BY TypeCorrect, <1>1, <1>2, <1>3, PTL DEF Spec

-----------------------------------------------------------------------------
(* What a green session has not run                                        *)

\* Every test before the current one has been accounted for; a fixture of the
\* plugin skips, or a test stays unmet in a session that has not failed, in
\* production only; a test that has skipped itself is one that may.
MaySkipItself(i) ==
    items[i].own = "data" \/ (items[i].own = "credentials" /\ CredentialsMayLack)

Through ==
    /\ current \in Nat \ {0}
    /\ stage \in {"configure", "collect"} =>
         current = 1 /\ unmet = {} /\ gaveUp = {} /\ \A f \in Fixtures : cache[f] = "none"
    /\ skipped \subseteq DOMAIN items /\ ran \subseteq DOMAIN items /\ unmet \subseteq DOMAIN items
    /\ \A i \in gaveUp : i \in DOMAIN items /\ MaySkipItself(i)
    /\ \A i \in DOMAIN items : i < current => i \in ran \cup skipped \cup unmet \cup gaveUp
    /\ \A f \in Fixtures : cache[f] = "skipped" => config.type = "production"
    /\ unmet # {} /\ ~failed => config.type = "production"
    /\ exit = "pass" => ~failed /\ current \notin DOMAIN items

\* The end of a test accounts for it.
LEMMA ThroughATest ==
    ASSUME PytestTypeOK, Through, SkipTest \/ RunTest \/ SkipsItself \/ Unmet
    PROVE  Through'
<1>1. Proceed /\ Turn
  <2>1. Unmet => Proceed /\ Turn
    BY DEF Unmet
  <2> QED BY <2>1 DEF SkipTest, RunTest, SkipsItself
<1>2. /\ UNCHANGED <<items, config, stage, skipped, exit, cache>> /\ current' = current + 1
      /\ stage = "run" /\ current \in DOMAIN items
  BY <1>1 DEF Proceed, Turn, inputs, values
<1>3. /\ ran \subseteq ran' /\ ran' \subseteq ran \cup {current}
      /\ unmet \subseteq unmet' /\ unmet' \subseteq unmet \cup {current}
      /\ gaveUp \subseteq gaveUp'
      /\ current \in ran' \cup skipped \cup unmet' \cup gaveUp'
  <2>1. CASE SkipTest
    BY <2>1 DEF SkipTest, results
  <2>2. CASE RunTest
    BY <2>2 DEF RunTest
  <2>3. CASE Unmet
    BY <2>3 DEF Unmet
  <2>4. CASE SkipsItself
    BY <2>4 DEF SkipsItself
  <2> QED BY <2>1, <2>2, <2>3, <2>4
<1>4. unmet' # {} /\ ~failed' => config.type = "production"
  <2>1. CASE SkipTest
    BY <2>1 DEF SkipTest, results, Through
  <2>2. CASE RunTest
    <3>1. unmet' = unmet /\ (failed' = failed \/ failed')
      BY <2>2 DEF RunTest
    <3> QED BY <3>1 DEF Through
  <2>3. CASE Unmet
    <3>1. PICK f \in Fixtures : /\ cache[f] \in {"failed", "skipped"}
                                /\ failed' = (failed \/ cache[f] = "failed")
      BY <2>3 DEF Unmet
    <3>2. CASE cache[f] = "failed"
      BY <3>1, <3>2
    <3>3. CASE cache[f] = "skipped"
      BY <3>3 DEF Through
    <3> QED BY <3>1, <3>2, <3>3
  <2>4. CASE SkipsItself
    BY <2>4 DEF SkipsItself, Through
  <2> QED BY <2>1, <2>2, <2>3, <2>4
<1>5. DOMAIN items = 1..Len(items) /\ Len(items) \in Nat
  BY SuitesAssumption DEF PytestTypeOK
<1>6. current' \in Nat \ {0}
  BY <1>2 DEF Through
<1>7. exit # "pass"
  BY <1>2 DEF Through
<1>8. ASSUME NEW i \in DOMAIN items, i < current'
      PROVE  i \in ran' \cup skipped \cup unmet' \cup gaveUp'
  <2>1. i < current \/ i = current
    BY <1>2, <1>5, <1>8 DEF Through
  <2> QED BY <1>3, <2>1 DEF Through
<1>9. ran' \subseteq DOMAIN items /\ unmet' \subseteq DOMAIN items
  BY <1>2, <1>3 DEF Through
<1>10. ASSUME NEW i \in gaveUp' PROVE i \in DOMAIN items /\ MaySkipItself(i)
  <2>1. CASE SkipsItself
    <3>1. i \in gaveUp \/ i = current
      BY <1>10, <2>1 DEF SkipsItself
    <3>2. MaySkipItself(current)
      BY <2>1 DEF SkipsItself, MaySkipItself
    <3> QED BY <1>2, <3>1, <3>2 DEF Through
  <2>2. CASE SkipTest \/ RunTest \/ Unmet
    <3>1. gaveUp' = gaveUp
      BY <2>2 DEF SkipTest, RunTest, Unmet, results
    <3> QED BY <1>10, <3>1 DEF Through
  <2> QED BY <2>1, <2>2
<1>11. \A i \in gaveUp' : MaySkipItself(i)'
  BY <1>2, <1>10 DEF MaySkipItself, CredentialsMayLack
<1> QED BY <1>2, <1>4, <1>6, <1>7, <1>8, <1>9, <1>10, <1>11 DEF Through

\* GreenSkipsLittle: outside production an unmet prerequisite of the plugin
\* fails the session, so a green one ran every selected test that the policy
\* allows, but for those that skip themselves.
THEOREM GreenMeansRan == Spec => []GreenSkipsLittle
<1>1. Init => Through
  <2> SUFFICES ASSUME Init PROVE Through
    OBVIOUS
  <2>1. DOMAIN items = 1..Len(items) /\ Len(items) \in Nat /\ current = 1
    BY SuitesAssumption DEF Init
  <2>2. \A i \in DOMAIN items : ~(i < current)
    BY <2>1
  <2> QED BY <2>2 DEF Init, Through
<1>2. PytestTypeOK /\ Through /\ [Next]_vars => Through'
  <2> SUFFICES ASSUME PytestTypeOK, Through, [Next]_vars PROVE Through'
    OBVIOUS
  <2>0. UNCHANGED items
    BY InputsKept DEF inputs
  <2>1. CASE SettingUp
    <3>1. KeepsStage /\ stage = "run"
      BY <2>1, SetUp
    <3>2. PICK f \in Fixtures, outcome \in Outcomes :
            /\ cache[f] = "none" /\ cache' = [cache EXCEPT ![f] = outcome]
            /\ outcome = "skipped" => config.type = "production"
      BY <2>1, SetUp
    <3>3. ASSUME NEW g \in Fixtures, cache'[g] = "skipped" PROVE config.type = "production"
      <4>1. CASE g = f
        BY <3>2, <3>3, <4>1 DEF PytestTypeOK
      <4>2. CASE g # f
        BY <3>2, <3>3, <4>2 DEF PytestTypeOK, Through
      <4> QED BY <4>1, <4>2
    <3>4. UNCHANGED <<config, stage, current, skipped, exit, ran, unmet, gaveUp, failed>>
      BY <3>1 DEF KeepsStage, results
    <3> QED BY <2>0, <3>1, <3>3, <3>4 DEF Through, MaySkipItself, CredentialsMayLack
  <2>2. CASE PromotionRequired
    <3>1. /\ UNCHANGED <<cache, config, current, skipped, ran, unmet, gaveUp, failed>>
          /\ stage' = "done" /\ exit' = "promote"
      BY <2>2 DEF PromotionRequired, results
    <3> QED BY <2>0, <3>1 DEF Through, MaySkipItself, CredentialsMayLack
  <2>3. CASE SkipTest \/ RunTest \/ SkipsItself \/ Unmet
    BY <2>3, ThroughATest
  <2>4. CASE Configure
    <3>1. /\ stage = "configure" /\ stage' \in {"collect", "done"}
          /\ UNCHANGED <<cache, current, skipped, ran, unmet, gaveUp, failed>>
          /\ exit' = exit \/ exit' = "usage"
      BY <2>4 DEF Configure, UsageError, values, results
    <3>2. unmet = {} /\ gaveUp = {} /\ \A f \in Fixtures : cache[f] = "none"
      BY <3>1 DEF Through
    <3> QED BY <2>0, <3>1, <3>2 DEF Through, MaySkipItself, CredentialsMayLack
  <2>5. CASE Collect
    <3>1. /\ stage = "collect" /\ stage' \in {"run", "done"}
          /\ UNCHANGED <<cache, config, current, ran, unmet, gaveUp, failed>>
          /\ exit' = exit \/ exit' = "usage"
      BY <2>5 DEF Collect, UsageError, values, results
    <3>2. skipped' \subseteq DOMAIN items
      BY <2>5 DEF Collect, Through
    <3>3. \A i \in DOMAIN items : ~(i < current)
      <4>1. DOMAIN items = 1..Len(items) /\ Len(items) \in Nat
        BY SuitesAssumption DEF PytestTypeOK
      <4>2. current = 1
        BY <3>1 DEF Through
      <4> QED BY <4>1, <4>2
    <3> QED BY <2>0, <3>1, <3>2, <3>3 DEF Through, MaySkipItself, CredentialsMayLack
  <2>6. CASE Conclude
    <3>1. /\ current \notin DOMAIN items /\ exit' = (IF failed THEN "fail" ELSE "pass")
          /\ stage' = "done"
          /\ UNCHANGED <<cache, config, current, skipped, ran, unmet, gaveUp, failed>>
      BY <2>6 DEF Conclude, values, results
    <3> QED BY <2>0, <3>1 DEF Through, MaySkipItself, CredentialsMayLack
  <2>7. ASSUME NEW s \in Subjects, Reassign(s) PROVE Through'
    <3>1. UNCHANGED <<cache, config, stage, current, skipped, exit, ran, unmet, gaveUp, failed>>
      BY <2>7 DEF Reassign, values, results
    <3> QED BY <2>0, <3>1 DEF Through, MaySkipItself, CredentialsMayLack
  <2>8. CASE UNCHANGED vars
    BY <2>8 DEF vars, Through, MaySkipItself, CredentialsMayLack
  <2> QED BY <2>1, <2>2, <2>3, <2>4, <2>5, <2>6, <2>7, <2>8 DEF Next, SettingUp, Ended
<1>3. PytestTypeOK /\ Through => GreenSkipsLittle
  <2> SUFFICES ASSUME PytestTypeOK, Through, exit = "pass"
               PROVE  GreenSkipsLittle
    BY DEF GreenSkipsLittle
  <2>1. DOMAIN items = 1..Len(items) /\ Len(items) \in Nat
    BY SuitesAssumption DEF PytestTypeOK
  <2>2. \A i \in DOMAIN items : i < current
    BY <2>1 DEF Through
  <2>3. ~failed
    BY DEF Through
  <2>4. DOMAIN items = ran \cup skipped \cup unmet \cup gaveUp
    BY <2>2 DEF Through
  <2>5. ASSUME config.type # "production", NEW i \in DOMAIN items \ skipped, i \notin ran \ gaveUp
        PROVE  MaySkipItself(i)
    BY <2>3, <2>4, <2>5 DEF Through
  <2> QED BY <2>4, <2>5 DEF GreenSkipsLittle, MaySkipItself
<1> QED BY TypeCorrect, <1>1, <1>2, <1>3, PTL DEF Spec

-----------------------------------------------------------------------------
(* A production session is read-only *)

\* Nothing is acquired and nothing runs before the session is configured, what
\* runs has passed the policy of the configuration, and the admin session is
\* not acquired in production.
Policed ==
    /\ stage = "configure" => config = Unreadable
    /\ config = Unreadable => ran = {} /\ \A r \in Roles : acquired[r] = 0
    /\ stage = "collect" => ran = {}
    /\ \A i \in ran : /\ i \in DOMAIN items \ skipped
                      /\ ~PolicySkips(config, items[i].markers)
    /\ stage = "run" =>
         \A i \in DOMAIN items \ skipped : ~PolicySkips(config, items[i].markers)
    /\ config.type = "production" /\ config # Unreadable => acquired["admin"] = 0

\* The policy holds whatever the mode was overridden with.
LEMMA PolicedMeansReadOnly ==
    ASSUME PytestTypeOK, Policed
    PROVE  ProductionIsReadOnly
<1> SUFFICES ASSUME file # Unreadable, file.type = "production"
             PROVE  /\ \A r \in Roles : acquired[r] > 0 => config.mode = "supplied"
                    /\ acquired["admin"] = 0
                    /\ \A i \in ran : items[i].markers
                         \cap {"mutation", "destructive", "admin", "admin_auth_smoke"} = {}
  BY DEF ProductionIsReadOnly
<1>1. CASE config = Unreadable
  BY <1>1 DEF Policed, Roles
<1>2. CASE config # Unreadable
  <2>1. config \in Environment /\ config.type = "production" /\ PolicyAccepted(config)
    BY <1>2, Configured
  <2>2. config.mode = "supplied" /\ ~config.mutation /\ ~config.destructive
    BY <2>1 DEF PolicyAccepted
  <2>3. acquired["admin"] = 0
    BY <1>2, <2>1 DEF Policed
  <2>4. ASSUME NEW i \in ran
        PROVE  items[i].markers
                 \cap {"mutation", "destructive", "admin", "admin_auth_smoke"} = {}
    <3>1. ~PolicySkips(config, items[i].markers)
      BY DEF Policed
    <3>2. /\ "destructive" \notin items[i].markers /\ "mutation" \notin items[i].markers
          /\ items[i].markers \cap {"admin", "admin_auth_smoke"} = {}
      BY <2>1, <2>2, <3>1 DEF PolicySkips
    <3> QED BY <3>2
  <2> QED BY <2>2, <2>3, <2>4
<1> QED BY <1>1, <1>2

\* ProductionIsReadOnly: no production file, with any override, leads to a
\* browser login, an admin session or a test that writes.
THEOREM ProductionStaysReadOnly == Spec => []ProductionIsReadOnly
<1>1. Init => Policed
  BY DEF Init, Policed
<1>2. PytestTypeOK /\ Policed /\ [Next]_vars => Policed'
  <2> SUFFICES ASSUME PytestTypeOK, Policed, [Next]_vars PROVE Policed'
    OBVIOUS
  <2>0. UNCHANGED items
    BY InputsKept DEF inputs
  <2>1. CASE SettingUp
    <3>1. KeepsStage /\ stage = "run"
      BY <2>1, SetUp
    <3>2. UNCHANGED <<config, stage, skipped, ran>> /\ config # Unreadable
      BY <3>1 DEF KeepsStage, results, PytestTypeOK
    <3>3. config.type = "production" => acquired'["admin"] = acquired["admin"]
      <4>1. ASSUME NEW r \in Roles, AcquireSession(r), config.type = "production"
            PROVE  acquired'["admin"] = acquired["admin"]
        <5>1. CASE r = "admin"
          BY <4>1, <5>1 DEF AcquireSession
        <5>2. CASE r # "admin"
          <6>1. acquired' = acquired \/ acquired' = [acquired EXCEPT ![r] = @ + 1]
            BY <4>1 DEF AcquireSession
          <6> QED BY <5>2, <6>1 DEF PytestTypeOK, Roles
        <5> QED BY <5>1, <5>2
      <4>2. ASSUME NEW r \in Roles, IdentityAccepted(r) \/ IdentityFails(r)
            PROVE  acquired' = acquired
        BY <4>2 DEF IdentityAccepted, IdentityFails, Request
      <4>3. CASE CompareUsers \/ CompareAll
        BY <4>3 DEF CompareUsers, CompareAll, Compare
      <4> QED BY <2>1, <4>1, <4>2, <4>3 DEF SettingUp
    <3> QED BY <2>0, <3>1, <3>2, <3>3 DEF Policed
  <2>2. CASE PromotionRequired
    <3>1. /\ UNCHANGED <<config, skipped, ran, acquired>> /\ stage = "run" /\ stage' = "done"
      BY <2>2 DEF PromotionRequired, Request, Needs, results
    <3>2. config # Unreadable
      BY <3>1 DEF PytestTypeOK
    <3> QED BY <2>0, <3>1, <3>2 DEF Policed
  <2>3. CASE SkipTest \/ RunTest \/ SkipsItself \/ Unmet
    <3>1. Proceed /\ Turn
      BY <2>3 DEF SkipTest, RunTest, SkipsItself, Unmet
    <3>2. /\ UNCHANGED <<config, stage, skipped, acquired>>
          /\ stage = "run" /\ current \in DOMAIN items
      BY <3>1 DEF Proceed, Turn, values
    <3>3. ran' = ran \/ (ran' = ran \cup {current} /\ current \notin skipped)
      BY <2>3 DEF SkipTest, RunTest, SkipsItself, Unmet, results
    <3>4. config # Unreadable
      BY <3>2 DEF PytestTypeOK
    <3> QED BY <2>0, <3>2, <3>3, <3>4 DEF Policed
  <2>4. CASE Configure
    <3>1. /\ stage = "configure" /\ stage' \in {"collect", "done"}
          /\ UNCHANGED <<skipped, ran, acquired>>
      BY <2>4 DEF Configure, UsageError, values, results
    <3>2. ran = {} /\ \A r \in Roles : acquired[r] = 0
      BY <3>1 DEF Policed
    <3> QED BY <2>0, <3>1, <3>2 DEF Policed, Roles
  <2>5. CASE Collect
    <3>1. /\ stage = "collect" /\ UNCHANGED <<config, ran, acquired>> /\ ran = {}
      BY <2>5 DEF Collect, values, results, Policed
    <3>2. \/ /\ skipped' = {i \in DOMAIN items : PolicySkips(config, items[i].markers)}
             /\ stage' = "run"
          \/ stage' = "done"
      BY <2>5 DEF Collect, UsageError
    <3>3. config # Unreadable
      BY <3>1 DEF PytestTypeOK
    <3>4. stage' = "run" =>
            \A i \in DOMAIN items \ skipped' : ~PolicySkips(config, items[i].markers)
      BY <3>2
    <3> QED BY <2>0, <3>1, <3>2, <3>3, <3>4 DEF Policed
  <2>6. CASE Conclude
    <3>1. /\ stage = "run" /\ stage' = "done" /\ UNCHANGED <<config, skipped, ran, acquired>>
      BY <2>6 DEF Conclude, values, results
    <3> QED BY <2>0, <3>1 DEF Policed
  <2>7. ASSUME NEW s \in Subjects, Reassign(s) PROVE Policed'
    <3>1. UNCHANGED <<config, stage, skipped, ran, acquired>>
      BY <2>7 DEF Reassign, values, results
    <3> QED BY <2>0, <3>1 DEF Policed
  <2>8. CASE UNCHANGED vars
    <3>1. UNCHANGED <<config, stage, skipped, ran, acquired>>
      BY <2>8 DEF vars
    <3> QED BY <2>0, <3>1 DEF Policed
  <2> QED BY <2>1, <2>2, <2>3, <2>4, <2>5, <2>6, <2>7, <2>8 DEF Next, SettingUp, Ended
<1> QED BY TypeCorrect, PolicedMeansReadOnly, <1>1, <1>2, PTL DEF Spec


-----------------------------------------------------------------------------
(* What is kept of a fixture *)

\* What a fixture holds is not set up again.
LEMMA ValuesStay ==
    ASSUME PytestTypeOK, [Next]_vars
    PROVE  /\ \A f \in Fixtures : cache[f] # "none" => cache'[f] = cache[f]
           /\ \A r \in Roles : cache[SessionOf[r]] # "none" => session'[r] = session[r]
           /\ \A r \in Roles : cache[IdentityOf[r]] # "none" => who'[r] = who[r]
<1> DEFINE Kept ==
      /\ \A f \in Fixtures : cache[f] # "none" => cache'[f] = cache[f]
      /\ \A r \in Roles : cache[SessionOf[r]] # "none" => session'[r] = session[r]
      /\ \A r \in Roles : cache[IdentityOf[r]] # "none" => who'[r] = who[r]
<1> USE FixtureNames
<1>1. CASE SettingUp
  <2>1. \A f \in Fixtures : cache[f] # "none" => cache'[f] = cache[f]
    BY <1>1, SetUp DEF PytestTypeOK
  <2>2. ASSUME NEW r \in Roles, AcquireSession(r) PROVE Kept
    <3>1. /\ cache[SessionOf[r]] = "none" /\ who' = who
          /\ session' = session \/ session' = [session EXCEPT ![r] = supply[r]]
      BY <2>2 DEF AcquireSession
    <3>2. \A q \in Roles : q # r => session'[q] = session[q]
      BY <3>1 DEF PytestTypeOK
    <3> QED BY <2>1, <3>1, <3>2
  <2>3. ASSUME NEW r \in Roles, IdentityAccepted(r) \/ IdentityFails(r) PROVE Kept
    <3>1. /\ cache[IdentityOf[r]] = "none" /\ session' = session
          /\ who' = who \/ who' = [who EXCEPT ![r] = Answer(r)]
      BY <2>3 DEF IdentityAccepted, IdentityFails, Request
    <3>2. \A q \in Roles : q # r => who'[q] = who[q]
      BY <3>1 DEF PytestTypeOK
    <3> QED BY <2>1, <3>1, <3>2
  <2>4. CASE CompareUsers \/ CompareAll
    <3>1. UNCHANGED <<session, who>>
      BY <2>4 DEF CompareUsers, CompareAll, Compare
    <3> QED BY <2>1, <3>1
  <2> QED BY <1>1, <2>2, <2>3, <2>4 DEF SettingUp
<1>2. CASE PromotionRequired
  <2>1. /\ cache[IdentityOf["admin"]] = "none" /\ UNCHANGED <<cache, session>>
        /\ who' = [who EXCEPT !["admin"] = Answer("admin")]
    BY <1>2 DEF PromotionRequired, Request
  <2>2. \A q \in Roles : q # "admin" => who'[q] = who[q]
    BY <2>1 DEF PytestTypeOK
  <2> QED BY <2>1, <2>2
<1>3. CASE UNCHANGED values
  BY <1>3 DEF values
<1>4. CASE SkipTest \/ RunTest \/ SkipsItself \/ Unmet
  <2>1. Proceed
    BY <1>4 DEF SkipTest, RunTest, SkipsItself, Unmet
  <2> QED BY <1>3, <2>1 DEF Proceed
<1>5. CASE Configure \/ Collect \/ Conclude
  BY <1>3, <1>5 DEF Configure, Collect, Conclude
<1>6. ASSUME NEW s \in Subjects, Reassign(s) PROVE Kept
  BY <1>3, <1>6 DEF Reassign
<1>7. CASE UNCHANGED vars
  BY <1>3, <1>7 DEF vars, values
<1> QED BY <1>1, <1>2, <1>4, <1>5, <1>6, <1>7 DEF Next, SettingUp, Ended

\* A fixture gets a value from the one action that is about it.
LEMMA GetsItsValue ==
    ASSUME PytestTypeOK, [Next]_vars
    PROVE  /\ \A r \in Roles : cache'[IdentityOf[r]] = "value" =>
                cache[IdentityOf[r]] = "value" \/ IdentityAccepted(r)
           /\ cache'["distinct_user_sessions"] = "value" =>
                cache["distinct_user_sessions"] = "value" \/ CompareUsers
           /\ cache'["distinct_admin_user_identities"] = "value" =>
                cache["distinct_admin_user_identities"] = "value" \/ CompareAll
<1> DEFINE Goal ==
      /\ \A r \in Roles : cache'[IdentityOf[r]] = "value" =>
           cache[IdentityOf[r]] = "value" \/ IdentityAccepted(r)
      /\ cache'["distinct_user_sessions"] = "value" =>
           cache["distinct_user_sessions"] = "value" \/ CompareUsers
      /\ cache'["distinct_admin_user_identities"] = "value" =>
           cache["distinct_admin_user_identities"] = "value" \/ CompareAll
<1> USE FixtureNames
<1>1. ASSUME NEW r \in Roles, AcquireSession(r) PROVE Goal
  <2>1. \E outcome : cache' = [cache EXCEPT ![SessionOf[r]] = outcome]
    BY <1>1 DEF AcquireSession, SetsUp
  <2> QED BY <2>1 DEF PytestTypeOK
<1>2. ASSUME NEW r \in Roles, IdentityAccepted(r) PROVE Goal
  <2>1. cache' = [cache EXCEPT ![IdentityOf[r]] = "value"]
    BY <1>2 DEF IdentityAccepted, SetsUp
  <2>2. \A q \in Roles : q # r => cache'[IdentityOf[q]] = cache[IdentityOf[q]]
    BY <2>1 DEF PytestTypeOK
  <2>3. /\ cache'["distinct_user_sessions"] = cache["distinct_user_sessions"]
        /\ cache'["distinct_admin_user_identities"] = cache["distinct_admin_user_identities"]
    BY <2>1 DEF PytestTypeOK
  <2> QED BY <1>2, <2>2, <2>3
<1>3. ASSUME NEW r \in Roles, IdentityFails(r) PROVE Goal
  <2>1. cache' = [cache EXCEPT ![IdentityOf[r]] = "failed"]
    BY <1>3 DEF IdentityFails, SetsUp
  <2> QED BY <2>1 DEF PytestTypeOK
<1>4. CASE CompareUsers
  <2>1. \E outcome : cache' = [cache EXCEPT !["distinct_user_sessions"] = outcome]
    BY <1>4 DEF CompareUsers, Compare, SetsUp
  <2> QED BY <1>4, <2>1 DEF PytestTypeOK
<1>5. CASE CompareAll
  <2>1. \E outcome : cache' = [cache EXCEPT !["distinct_admin_user_identities"] = outcome]
    BY <1>5 DEF CompareAll, Compare, SetsUp
  <2> QED BY <1>5, <2>1 DEF PytestTypeOK
<1>6. CASE UNCHANGED cache
  BY <1>6
<1>7. CASE SkipTest \/ RunTest \/ SkipsItself \/ Unmet
  <2>1. Proceed
    BY <1>7 DEF SkipTest, RunTest, SkipsItself, Unmet
  <2> QED BY <1>6, <2>1 DEF Proceed, values
<1>8. CASE Configure \/ Collect \/ Conclude \/ PromotionRequired
  BY <1>6, <1>8 DEF Configure, Collect, Conclude, PromotionRequired, values
<1>9. ASSUME NEW s \in Subjects, Reassign(s) PROVE Goal
  BY <1>6, <1>9 DEF Reassign, values
<1>10. CASE UNCHANGED vars
  BY <1>6, <1>10 DEF vars
<1> QED BY <1>1, <1>2, <1>3, <1>4, <1>5, <1>7, <1>8, <1>9, <1>10 DEF Next, Ended

-----------------------------------------------------------------------------
(* A test runs with the users it relies on *)

\* An accepted identity is one of its kind, and the account of the session it
\* was asked with.
Vouched ==
    \A r \in Roles : cache[IdentityOf[r]] = "value" =>
        /\ cache[SessionOf[r]] = "value"
        /\ Declared(r, who[r]) /\ who[r].subject = SubjectOf[session[r]]

\* The roles of an accepted comparison have accepted identities of different
\* accounts.
Apart(fixture, roles) ==
    cache[fixture] = "value" =>
        /\ \A r \in roles : cache[IdentityOf[r]] = "value"
        /\ DistinctSubjects(roles)

Compared ==
    /\ Apart("distinct_user_sessions", {"primary", "secondary"})
    /\ Apart("distinct_admin_user_identities", Roles)

\* What has run was set up, and it stays that way.
WasSetUp ==
    \A i \in ran :
        /\ i \in DOMAIN items
        /\ \A k \in DOMAIN items[i].fixtures : \A f \in Fixtures :
             SetUpWith(items[i].fixtures[k], f) => cache[f] = "value"

LEMMA VouchedKept ==
    ASSUME PytestTypeOK, Vouched, [Next]_vars
    PROVE  Vouched'
<1> USE FixtureNames
<1> SUFFICES ASSUME NEW r \in Roles, cache'[IdentityOf[r]] = "value"
             PROVE  /\ cache'[SessionOf[r]] = "value"
                    /\ Declared(r, who'[r]) /\ who'[r].subject = SubjectOf[session'[r]]
  BY DEF Vouched
<1>1. CASE cache[IdentityOf[r]] = "value"
  <2>1. /\ cache[SessionOf[r]] = "value"
        /\ Declared(r, who[r]) /\ who[r].subject = SubjectOf[session[r]]
    BY <1>1 DEF Vouched
  <2>2. /\ cache'[SessionOf[r]] = cache[SessionOf[r]]
        /\ session'[r] = session[r] /\ who'[r] = who[r]
    BY <1>1, <2>1, ValuesStay
  <2> QED BY <2>1, <2>2
<1>2. CASE IdentityAccepted(r)
  <2>1. /\ Request(r) /\ Declared(r, Answer(r))
        /\ who' = [who EXCEPT ![r] = Answer(r)]
    BY <1>2 DEF IdentityAccepted
  <2>2. cache[SessionOf[r]] = "value"
    BY <2>1, AnswerTyped
  <2>3. cache'[SessionOf[r]] = cache[SessionOf[r]]
    BY <2>2, ValuesStay
  <2>4. who'[r] = Answer(r) /\ session' = session
    BY <2>1 DEF PytestTypeOK, Request
  <2> QED BY <2>1, <2>2, <2>3, <2>4 DEF Answer
<1> QED BY <1>1, <1>2, GetsItsValue

\* A comparison is of values that are kept.
LEMMA ApartKept ==
    ASSUME PytestTypeOK, [Next]_vars,
           NEW fixture \in Fixtures, NEW roles \in SUBSET Roles, Apart(fixture, roles),
           cache'[fixture] = "value" =>
               \/ cache[fixture] = "value"
               \/ /\ Needs(fixture) /\ DistinctSubjects(roles)
                  /\ \A r \in roles : \A name \in DOMAIN SetupOrder :
                       Behind(name, IdentityOf[r], fixture)
    PROVE  Apart(fixture, roles)'
<1> USE FixtureNames
<1> SUFFICES ASSUME cache'[fixture] = "value"
             PROVE  /\ \A r \in roles : cache'[IdentityOf[r]] = "value"
                    /\ DistinctSubjects(roles)'
  BY DEF Apart
<1>1. (\A r \in roles : cache[IdentityOf[r]] = "value") /\ DistinctSubjects(roles)
  BY NeededBehind DEF Apart
<1>2. \A r \in roles : cache'[IdentityOf[r]] = "value" /\ who'[r] = who[r]
  BY <1>1, ValuesStay
<1> QED BY <1>1, <1>2 DEF DistinctSubjects

LEMMA ComparedKept ==
    ASSUME PytestTypeOK, Compared, [Next]_vars
    PROVE  Compared'
<1>1. Apart("distinct_user_sessions", {"primary", "secondary"})'
  <2>1. CompareUsers => /\ Needs("distinct_user_sessions")
                        /\ cache'["distinct_user_sessions"] = "value" =>
                             DistinctSubjects({"primary", "secondary"})
    BY FixtureNames DEF CompareUsers, Compare, SetsUp, PytestTypeOK
  <2>2. \A r \in {"primary", "secondary"} : \A name \in DOMAIN SetupOrder :
          Behind(name, IdentityOf[r], "distinct_user_sessions")
    BY SetupFacts
  <2>3. {"primary", "secondary"} \in SUBSET Roles
    BY DEF Roles
  <2> QED BY <2>1, <2>2, <2>3, ApartKept, GetsItsValue, FixtureNames DEF Compared
<1>2. Apart("distinct_admin_user_identities", Roles)'
  <2>1. CompareAll => /\ Needs("distinct_admin_user_identities")
                      /\ cache'["distinct_admin_user_identities"] = "value" =>
                           DistinctSubjects(Roles)
    BY FixtureNames DEF CompareAll, Compare, SetsUp, PytestTypeOK
  <2>2. \A r \in Roles : \A name \in DOMAIN SetupOrder :
          Behind(name, IdentityOf[r], "distinct_admin_user_identities")
    BY SetupFacts
  <2> QED BY <2>1, <2>2, ApartKept, GetsItsValue, FixtureNames DEF Compared
<1> QED BY <1>1, <1>2 DEF Compared

LEMMA WasSetUpKept ==
    ASSUME PytestTypeOK, WasSetUp, [Next]_vars
    PROVE  WasSetUp'
<1>1. \/ ran' = ran
      \/ /\ ran' = ran \cup {current} /\ Missing = {}
         /\ current \in DOMAIN items /\ cache' = cache
  <2>1. CASE RunTest
    BY <2>1 DEF RunTest, Turn, Proceed, values
  <2>2. CASE SettingUp
    <3>1. KeepsStage
      BY <2>2, SetUp
    <3> QED BY <3>1 DEF KeepsStage, results
  <2>3. CASE SkipTest \/ Unmet
    BY <2>3 DEF SkipTest, Unmet, results
  <2>7. CASE SkipsItself
    BY <2>7 DEF SkipsItself, Turn, Proceed, values
  <2>4. CASE Configure \/ Collect \/ Conclude \/ PromotionRequired
    BY <2>4 DEF Configure, Collect, Conclude, PromotionRequired, results
  <2>5. ASSUME NEW s \in Subjects, Reassign(s) PROVE ran' = ran
    BY <2>5 DEF Reassign, results
  <2>6. CASE UNCHANGED vars
    BY <2>6 DEF vars
  <2> QED BY <2>1, <2>2, <2>3, <2>4, <2>5, <2>6, <2>7 DEF Next, SettingUp, Ended
<1>2. items' = items
  BY InputsKept DEF inputs
<1>3. ASSUME NEW i \in ran', NEW k \in DOMAIN items[i].fixtures, NEW f \in Fixtures,
             SetUpWith(items[i].fixtures[k], f)
      PROVE  cache'[f] = "value"
  <2>1. CASE i \in ran
    <3>1. cache[f] = "value"
      BY <1>3, <2>1 DEF WasSetUp
    <3> QED BY <3>1, ValuesStay
  <2>2. CASE i \notin ran
    <3>1. i = current /\ Missing = {} /\ cache' = cache
      BY <1>1, <2>2
    <3> QED BY <1>3, <3>1, NothingMissing
  <2> QED BY <2>1, <2>2
<1>4. \A i \in ran' : i \in DOMAIN items
  BY <1>1 DEF WasSetUp
<1> QED BY <1>2, <1>3, <1>4 DEF WasSetUp

\* The users behind the tests that have run, from what was kept of them.
LEMMA UsersBehind ==
    ASSUME PytestTypeOK, Vouched, Compared, WasSetUp
    PROVE  RanWithItsUsers
<1> USE FixtureNames
<1> SUFFICES ASSUME NEW i \in ran, NEW k \in DOMAIN items[i].fixtures
             PROVE  /\ items[i].fixtures[k] = "distinct_user_sessions" =>
                         /\ SubjectOf[session["primary"]] # SubjectOf[session["secondary"]]
                         /\ NormalIdentity(who["primary"])
                         /\ who["primary"].subject = SubjectOf[session["primary"]]
                    /\ items[i].fixtures[k] = "distinct_admin_user_identities" =>
                         \A r, s \in Roles : r # s =>
                           SubjectOf[session[r]] # SubjectOf[session[s]]
                    /\ items[i].fixtures[k] = "primary_identity" =>
                         /\ NormalIdentity(who["primary"])
                         /\ who["primary"].subject = SubjectOf[session["primary"]]
                    /\ items[i].fixtures[k] = "admin_gateway_client" =>
                         /\ AdminIdentity(who["admin"])
                         /\ who["admin"].subject = SubjectOf[session["admin"]]
  BY DEF RanWithItsUsers, Asks
<1> DEFINE name == items[i].fixtures[k]
<1>1. \A f \in Fixtures : SetUpWith(name, f) => cache[f] = "value"
  BY DEF WasSetUp
<1>2. cache["primary_identity"] = "value" =>
        NormalIdentity(who["primary"]) /\ who["primary"].subject = SubjectOf[session["primary"]]
  BY DEF Vouched, Declared, IdentityOf, Roles
<1>3. cache["admin_identity"] = "value" =>
        AdminIdentity(who["admin"]) /\ who["admin"].subject = SubjectOf[session["admin"]]
  BY DEF Vouched, Declared, IdentityOf, Roles
<1>4. CASE name = "distinct_user_sessions"
  <2>1. SetUpWith(name, "distinct_user_sessions")
    BY <1>4 DEF SetUpWith, SetupOrder
  <2>2. /\ cache["primary_identity"] = "value" /\ cache["secondary_identity"] = "value"
        /\ who["primary"].subject # who["secondary"].subject
    BY <1>1, <2>1 DEF Compared, Apart, DistinctSubjects, IdentityOf
  <2>3. who["secondary"].subject = SubjectOf[session["secondary"]]
    BY <2>2 DEF Vouched, IdentityOf, Roles
  <2> QED BY <1>2, <1>4, <2>2, <2>3
<1>5. CASE name = "distinct_admin_user_identities"
  <2>1. SetUpWith(name, "distinct_admin_user_identities")
    BY <1>5 DEF SetUpWith, SetupOrder
  <2>2. (\A r \in Roles : cache[IdentityOf[r]] = "value") /\ DistinctSubjects(Roles)
    BY <1>1, <2>1 DEF Compared, Apart
  <2>3. \A r \in Roles : who[r].subject = SubjectOf[session[r]]
    BY <2>2 DEF Vouched
  <2> QED BY <1>5, <2>2, <2>3 DEF DistinctSubjects
<1>6. CASE name = "primary_identity"
  <2>1. SetUpWith(name, "primary_identity") /\ "primary_identity" \in Fixtures
    BY <1>6 DEF SetUpWith, SetupOrder, Fixtures, IdentityOf, Roles
  <2> QED BY <1>1, <1>2, <1>6, <2>1
<1>7. CASE name = "admin_gateway_client"
  <2>1. SetUpWith(name, "admin_identity") /\ "admin_identity" \in Fixtures
    BY <1>7 DEF SetUpWith, SetupOrder, Fixtures, IdentityOf, Roles
  <2> QED BY <1>1, <1>3, <1>7, <2>1
<1> QED BY <1>4, <1>5, <1>6, <1>7

\* RanWithItsUsers: whatever the sessions are and however roles change, no
\* test runs with users other than those it relies on.
THEOREM UsersAreRight == Spec => []RanWithItsUsers
<1>1. Init => Vouched /\ Compared /\ WasSetUp
  BY FixtureNames DEF Init, Vouched, Compared, Apart, WasSetUp
<1>2. PytestTypeOK /\ Vouched /\ Compared /\ WasSetUp /\ [Next]_vars
        => Vouched' /\ Compared' /\ WasSetUp'
  BY VouchedKept, ComparedKept, WasSetUpKept
<1> QED BY TypeCorrect, UsersBehind, <1>1, <1>2, PTL DEF Spec

-----------------------------------------------------------------------------
(* The promotion stop and the acquisitions *)

\* A session that ended for the promotion still has no identity of its admin.
Stopped ==
    exit = "promote" =>
        /\ stage = "done" /\ cache["admin_identity"] = "none"
        /\ NormalIdentity(who["admin"])

\* PromotionStopsFirst: the stop comes before every test with the admin's
\* client or identity, for any selection and any order of the tests.
THEOREM StopsFirst == Spec => []PromotionStopsFirst
<1>1. Init => WasSetUp /\ Stopped
  BY DEF Init, WasSetUp, Stopped
<1>2. PytestTypeOK /\ Stopped /\ [Next]_vars => Stopped'
  <2> SUFFICES ASSUME PytestTypeOK, Stopped, [Next]_vars PROVE Stopped'
    OBVIOUS
  <2>1. CASE PromotionRequired
    <3>1. /\ cache["admin_identity"] = "none" /\ cache' = cache /\ stage' = "done"
          /\ NormalIdentity(Answer("admin"))
          /\ who' = [who EXCEPT !["admin"] = Answer("admin")]
      BY <2>1 DEF PromotionRequired, Request, IdentityOf, AwaitsPromotion
    <3>2. who'["admin"] = Answer("admin")
      BY <3>1 DEF PytestTypeOK, Roles
    <3> QED BY <3>1, <3>2 DEF Stopped
  <2>2. CASE UNCHANGED <<stage, exit, cache, who>>
    BY <2>2 DEF Stopped
  <2>3. CASE SettingUp
    <3>1. KeepsStage /\ stage = "run"
      BY <2>3, SetUp
    <3> QED BY <3>1 DEF KeepsStage, Stopped
  <2>4. CASE SkipTest \/ RunTest \/ SkipsItself \/ Unmet
    <3>1. Proceed
      BY <2>4 DEF SkipTest, RunTest, SkipsItself, Unmet
    <3> QED BY <2>2, <3>1 DEF Proceed, values
  <2>5. CASE Configure \/ Collect \/ Conclude
    <3>1. stage # "done" /\ exit' \in {exit, "usage", "pass", "fail"}
      BY <2>5 DEF Configure, Collect, Conclude, UsageError
    <3> QED BY <3>1 DEF Stopped
  <2>6. ASSUME NEW s \in Subjects, Reassign(s) PROVE Stopped'
    BY <2>2, <2>6 DEF Reassign, values
  <2>7. CASE UNCHANGED vars
    BY <2>2, <2>7 DEF vars
  <2> QED BY <2>1, <2>3, <2>4, <2>5, <2>6, <2>7 DEF Next, SettingUp, Ended
<1>3. PytestTypeOK /\ WasSetUp /\ Stopped => PromotionStopsFirst
  <2> SUFFICES ASSUME PytestTypeOK, WasSetUp, Stopped, exit = "promote",
                      NEW i \in ran, NEW k \in DOMAIN items[i].fixtures,
                      "admin" \in ForRoles[items[i].fixtures[k]]
               PROVE  items[i].fixtures[k] = "admin_session"
    BY DEF PromotionStopsFirst, Stopped, AsksFor, Asks
  <2>1. items[i].fixtures[k] \in DOMAIN SetupOrder
    BY SuitesAssumption DEF PytestTypeOK, WasSetUp
  <2>2. "admin_identity" \in Fixtures
    BY DEF Fixtures, IdentityOf, Roles
  <2>3. ~SetUpWith(items[i].fixtures[k], "admin_identity")
    BY <2>2 DEF WasSetUp, Stopped
  <2> QED BY <2>1, <2>3, SetupFacts
<1> QED BY TypeCorrect, WasSetUpKept, <1>1, <1>2, <1>3, PTL DEF Spec

\* Every acquisition has a test that asked for it and has had its turn.
Requested ==
    /\ current \in Nat
    /\ stage \in {"configure", "collect"} => \A r \in Roles : acquired[r] = 0
    /\ AcquiredOnRequest

\* An acquisition is for the current test.
LEMMA AsksForIt ==
    ASSUME PytestTypeOK, NEW r \in Roles, AcquireSession(r)
    PROVE  current \in DOMAIN items \ skipped /\ Involves(current, r)
<1>1. Needs(SessionOf[r])
  BY DEF AcquireSession
<1>2. PICK k \in DOMAIN items[current].fixtures :
        /\ items[current].fixtures[k] \in DOMAIN SetupOrder
        /\ SetUpWith(items[current].fixtures[k], SessionOf[r])
  BY <1>1, NeedsAPlace DEF SetUpWith
<1>3. ForRole(items[current].fixtures[k], r)
  BY <1>2, SetupFacts
<1> QED BY <1>1, <1>3 DEF Needs, Involves, AsksFor, Asks, ForRole

\* AcquiredOnRequest: no role is acquired that no test of the selection names a
\* fixture of, but for the secondary one behind distinct_admin_user_identities.
THEOREM OnRequestOnly == Spec => []AcquiredOnRequest
<1>1. Init => Requested
  BY DEF Init, Requested, AcquiredOnRequest
<1>2. PytestTypeOK /\ Requested /\ [Next]_vars => Requested'
  <2> SUFFICES ASSUME PytestTypeOK, Requested, [Next]_vars PROVE Requested'
    OBVIOUS
  <2>0. UNCHANGED items
    BY InputsKept DEF inputs
  <2>a. DOMAIN items \subseteq Nat
    BY SuitesAssumption DEF PytestTypeOK
  <2>b. ASSUME UNCHANGED <<acquired, skipped>>, current' \in {current, current + 1},
               stage' \in {"configure", "collect"} => stage \in {"configure", "collect"}
        PROVE  Requested'
    <3>1. current' \in Nat /\ current <= current'
      BY <2>b DEF Requested
    <3>2. ASSUME NEW r \in Roles, acquired[r] > 0
          PROVE  \E i \in DOMAIN items \ skipped : i <= current' /\ Involves(i, r)
      <4>1. PICK i \in DOMAIN items \ skipped : i <= current /\ Involves(i, r)
        BY <3>2 DEF Requested, AcquiredOnRequest
      <4>2. i <= current'
        BY <2>a, <3>1, <4>1 DEF Requested
      <4> QED BY <4>1, <4>2
    <3> QED BY <2>0, <2>b, <3>1, <3>2 DEF Requested, AcquiredOnRequest, Involves, AsksFor, Asks
  <2>1. ASSUME NEW r \in Roles, AcquireSession(r) PROVE Requested'
    <3>1. KeepsStage /\ stage = "run" /\ stage' = "run"
      BY <2>1, SetUp DEF SettingUp, KeepsStage
    <3>2. UNCHANGED <<current, skipped>>
      BY <3>1 DEF KeepsStage
    <3>3. acquired' = acquired \/ acquired' = [acquired EXCEPT ![r] = @ + 1]
      BY <2>1 DEF AcquireSession
    <3>4. current \in DOMAIN items \ skipped /\ Involves(current, r)
      BY <2>1, AsksForIt
    <3>5. ASSUME NEW q \in Roles, acquired'[q] > 0
          PROVE  \E i \in DOMAIN items \ skipped : i <= current /\ Involves(i, q)
      <4>1. CASE q = r
        <5>1. current <= current
          BY DEF Requested
        <5> QED BY <3>4, <4>1, <5>1
      <4>2. CASE q # r
        <5>1. acquired[q] > 0
          BY <3>3, <3>5, <4>2 DEF PytestTypeOK
        <5> QED BY <5>1 DEF Requested, AcquiredOnRequest
      <4> QED BY <4>1, <4>2
    <3> QED BY <2>0, <3>1, <3>2, <3>5 DEF Requested, AcquiredOnRequest, Involves, AsksFor, Asks
  <2>2. CASE SettingUp
    <3>1. KeepsStage
      BY <2>2, SetUp
    <3>2. ASSUME NEW r \in Roles, IdentityAccepted(r) \/ IdentityFails(r)
          PROVE  UNCHANGED acquired
      BY <3>2 DEF IdentityAccepted, IdentityFails, Request
    <3>3. CompareUsers \/ CompareAll => UNCHANGED acquired
      BY DEF CompareUsers, CompareAll, Compare
    <3> QED BY <2>1, <2>2, <2>b, <3>1, <3>2, <3>3 DEF SettingUp, KeepsStage
  <2>3. CASE PromotionRequired
    BY <2>3, <2>b DEF PromotionRequired, Request
  <2>4. CASE SkipTest \/ RunTest \/ SkipsItself \/ Unmet
    <3>1. Proceed
      BY <2>4 DEF SkipTest, RunTest, SkipsItself, Unmet
    <3> QED BY <2>b, <3>1 DEF Proceed, values
  <2>5. CASE Configure
    BY <2>5, <2>b DEF Configure, values
  <2>6. CASE Collect
    <3>1. /\ \A r \in Roles : acquired[r] = 0
          /\ UNCHANGED <<acquired, current>> /\ stage' \in {"run", "done"}
      BY <2>6 DEF Collect, UsageError, values, Requested
    <3> QED BY <3>1 DEF Requested, AcquiredOnRequest
  <2>7. CASE Conclude
    BY <2>7, <2>b DEF Conclude, values
  <2>8. ASSUME NEW s \in Subjects, Reassign(s) PROVE Requested'
    BY <2>8, <2>b DEF Reassign, values
  <2>9. CASE UNCHANGED vars
    BY <2>9, <2>b DEF vars
  <2> QED BY <2>2, <2>3, <2>4, <2>5, <2>6, <2>7, <2>8, <2>9 DEF Next, SettingUp, Ended
<1>3. Requested => AcquiredOnRequest
  BY DEF Requested
<1> QED BY TypeCorrect, <1>1, <1>2, <1>3, PTL DEF Spec
=============================================================================
