--------------------------- MODULE LocalRunProofs ---------------------------
(***************************************************************************)
(* For every repository, every document and every number of commands,      *)
(* deployments and refreshes: the gates of a full run leave nothing        *)
(* unreviewed (the two lemmas about ContractGates), tests start and a run  *)
(* passes only on a reviewed contract, the reports in its directory say    *)
(* how far it came, and those of the coverage command belong together.     *)
(***************************************************************************)
EXTENDS LocalRun, TLAPS

-----------------------------------------------------------------------------
(* What the gates accept. *)

\* A manifest that fits lists an operation when it lists its id: ids are unique.
LEMMA LineIsOperation ==
    ASSUME NEW doc, ValidEntries(doc), NEW manifest, NEW operations,
           operations \subseteq Operations(doc), ManifestFits(manifest, operations),
           NEW op \in Operations(doc)
    PROVE  (op.id \in DeferredIds(manifest)) <=> (op \in Lines(manifest))
<1>1. ASSUME op \in Lines(manifest) PROVE op.id \in DeferredIds(manifest)
  BY <1>1 DEF DeferredIds
<1>2. ASSUME op.id \in DeferredIds(manifest) PROVE op \in Lines(manifest)
  <2>1. PICK line \in Lines(manifest) : line.id = op.id
    BY <1>2 DEF DeferredIds
  <2>2. line \in Operations(doc)
    BY <2>1 DEF ManifestFits
  <2>3. PICK r \in DOMAIN doc.paths : op = [id |-> doc.paths[r].id, route |-> r]
    BY DEF Operations
  <2>4. PICK s \in DOMAIN doc.paths : line = [id |-> doc.paths[s].id, route |-> s]
    BY <2>2 DEF Operations
  <2>5. doc.paths[r].id = doc.paths[s].id
    BY <2>1, <2>3, <2>4
  <2>6. r = s
    BY <2>5 DEF ValidEntries, Injective
  <2> QED BY <2>1, <2>3, <2>4, <2>6
<1> QED BY <1>1, <1>2

\* The gates that judge the unified document: the conditions build_coverage,
\* build_forbidden_coverage and the unit tests share.
UnifiedAccepted(r, doc) ==
    /\ RequestCasesBuild(doc)
    /\ OperationsAccepted("unified", doc, r.admin, r.tests)
    /\ WithStatus({"missing", "placeholder"}, "unified", doc, r.admin, r.tests) = {}
    /\ ForbiddenAccepted(doc, r.forbidden, r.tests)

\* They review every operation of it.
LEMMA UnifiedReviewed ==
    ASSUME NEW r, NEW doc, UnifiedAccepted(r, doc), NEW op \in Operations(doc)
    PROVE  OperationReviewed(r, doc, op)
<1>1. PICK route \in DOMAIN doc.paths : op = [id |-> doc.paths[route].id, route |-> route]
  BY DEF Operations
<1>2. ValidEntries(doc) /\ PathMaterializes(route, doc.paths[route].parameters)
      /\ \A status \in {"401", "403"} : HasJsonSchema(doc.paths[route], status)
  BY DEF UnifiedAccepted, RequestCasesBuild
<1> DEFINE documented == OperationsDocumenting(doc, "403")
           executed == Executable(r.tests, "forbidden")
<1>3. op \in documented
  BY <1>1, <1>2 DEF OperationsDocumenting, HasJsonSchema
<1>4. op.id \in {o.id : o \in documented}
  BY <1>3
<1>5. /\ ManifestFits(r.forbidden, documented)
      /\ executed \cap DeferredIds(r.forbidden) = {}
      /\ {o.id : o \in documented} \subseteq executed \cup DeferredIds(r.forbidden)
  BY DEF UnifiedAccepted, ForbiddenAccepted
<1>6. documented \subseteq Operations(doc)
  BY DEF OperationsDocumenting
<1>7. (op.id \in DeferredIds(r.forbidden)) <=> (op \in Lines(r.forbidden))
  BY <1>2, <1>5, <1>6, LineIsOperation
<1>8. ExactlyOne(op.id \in executed, op \in Lines(r.forbidden))
  BY <1>4, <1>5, <1>7 DEF ExactlyOne
<1>9. ManifestFits(r.admin, Operations(doc))
  BY DEF UnifiedAccepted, OperationsAccepted
<1>10. (op.id \in DeferredIds(r.admin)) <=> (op \in Lines(r.admin))
  BY <1>2, <1>9, LineIsOperation
<1>11. op.id \in OperationIds(doc)
  BY DEF OperationIds
<1>12. StatusOf("unified", op.id, r.admin, r.tests) \notin {"missing", "placeholder"}
  BY <1>11 DEF UnifiedAccepted, WithStatus
<1>13. op.id \in DeferredIds(r.admin) \/ <<"unified", op.id>> \in Executable(r.tests, "openapi")
  BY <1>12 DEF StatusOf
<1> QED BY <1>1, <1>2, <1>8, <1>10, <1>13 DEF OperationReviewed

\* What does not depend on the unified document.
RestReviewed(r) ==
    /\ \A op \in Operations(r.gateway) : GatewayOperationReviewed(r, op)
    /\ \A case \in Cases(r.inventory) :
         case.status = "covered" => \E t \in r.tests : case.id \in t.cases
    /\ \A t \in r.tests :
         /\ \A k \in t.openapi : k[1] = "session_gateway" => k[2] \in OperationIds(r.gateway)
         /\ \A id \in t.cases : \E case \in Cases(r.inventory) :
              case.id = id /\ case.status = "covered"
    /\ \A route \in Lines(r.inventory) :
         route.id # NoId => [id |-> route.id, route |-> route.route] \in Operations(r.gateway)

\* The Session Gateway gates review the gateway contract and its inventory.
LEMMA GatewayReviewed ==
    ASSUME NEW r, NEW doc, GatewayBuilds(r), Gaps(r, doc) = {},
           OperationsAccepted("session_gateway", r.gateway, <<>>, r.tests)
    PROVE  RestReviewed(r)
<1>1. InventoryAccepted(r.inventory, r.gateway, r.tests) /\ ValidEntries(r.gateway)
  BY DEF GatewayBuilds, OperationsAccepted
<1> DEFINE owned == {i \in DOMAIN r.inventory : r.inventory[i].id # NoId}
<1>2. /\ \A id \in Marked(r.tests, "cases") :
           \E case \in Cases(r.inventory) : case.id = id /\ case.status = "covered"
      /\ \A i \in owned :
           [id |-> r.inventory[i].id, route |-> r.inventory[i].route] \in Operations(r.gateway)
      /\ OperationIds(r.gateway) \subseteq {r.inventory[i].id : i \in owned}
  BY <1>1 DEF InventoryAccepted
<1>3. ASSUME NEW op \in Operations(r.gateway) PROVE GatewayOperationReviewed(r, op)
  <2>1. op.id \in OperationIds(r.gateway)
    BY DEF OperationIds
  <2>2. op.id \notin WithStatus({"missing", "placeholder"}, "session_gateway",
                                r.gateway, <<>>, r.tests)
    BY DEF Gaps
  <2>3. StatusOf("session_gateway", op.id, <<>>, r.tests) \notin {"missing", "placeholder"}
    BY <2>1, <2>2 DEF WithStatus
  <2>4. DeferredIds(<<>>) = {}
    BY DEF DeferredIds, Lines
  <2>5. <<"session_gateway", op.id>> \in Executable(r.tests, "openapi")
    BY <2>3, <2>4 DEF StatusOf
  <2>6. PICK i \in owned : r.inventory[i].id = op.id
    BY <1>2, <2>1
  <2>7. PICK s \in DOMAIN r.gateway.paths : op = [id |-> r.gateway.paths[s].id, route |-> s]
    BY DEF Operations
  <2>8. PICK u \in DOMAIN r.gateway.paths :
          [id |-> r.inventory[i].id, route |-> r.inventory[i].route]
            = [id |-> r.gateway.paths[u].id, route |-> u]
    BY <1>2 DEF Operations
  <2>9. r.inventory[i].id = r.gateway.paths[u].id /\ r.inventory[i].route = u
    BY <2>8
  <2>10. s = u
    BY <1>1, <2>6, <2>7, <2>9 DEF ValidEntries, Injective
  <2>11. r.inventory[i] \in Lines(r.inventory)
    BY DEF Lines
  <2> QED BY <2>5, <2>6, <2>7, <2>9, <2>10, <2>11 DEF GatewayOperationReviewed
<1>4. ASSUME NEW case \in Cases(r.inventory), case.status = "covered"
      PROVE \E t \in r.tests : case.id \in t.cases
  <2>1. case.id \notin {c.id : c \in UncoveredCases(r.inventory, r.tests)}
    BY DEF Gaps
  <2>2. case.id \in Marked(r.tests, "cases")
    BY <1>4, <2>1 DEF UncoveredCases
  <2> QED BY <2>2 DEF Marked
<1>5. ASSUME NEW t \in r.tests, NEW k \in t.openapi, k[1] = "session_gateway"
      PROVE k[2] \in OperationIds(r.gateway)
  <2>1. k \in InContract(r.tests, "session_gateway")
    BY <1>5 DEF InContract, Marked
  <2> QED BY <2>1 DEF OperationsAccepted
<1>6. ASSUME NEW t \in r.tests, NEW id \in t.cases
      PROVE \E case \in Cases(r.inventory) : case.id = id /\ case.status = "covered"
  <2>1. id \in Marked(r.tests, "cases")
    BY DEF Marked
  <2> QED BY <1>2, <2>1
<1>7. ASSUME NEW route \in Lines(r.inventory), route.id # NoId
      PROVE [id |-> route.id, route |-> route.route] \in Operations(r.gateway)
  <2>1. PICK i \in DOMAIN r.inventory : route = r.inventory[i]
    BY DEF Lines
  <2>2. i \in owned
    BY <1>7, <2>1
  <2> QED BY <1>2, <2>1, <2>2
<1> QED BY <1>3, <1>4, <1>5, <1>6, <1>7 DEF RestReviewed

LEMMA ReviewedFromGates ==
    ASSUME NEW r, NEW doc, UnifiedAccepted(r, doc), RestReviewed(r)
    PROVE  Reviewed(r, doc)
<1>1. \A op \in Operations(doc) : OperationReviewed(r, doc, op)
  BY UnifiedReviewed
<1>2. Lines(r.admin) \subseteq Operations(doc)
  BY DEF UnifiedAccepted, OperationsAccepted, ManifestFits
<1>3. Lines(r.forbidden) \subseteq Operations(doc)
  BY DEF UnifiedAccepted, ForbiddenAccepted, ManifestFits, OperationsDocumenting
<1>4. ASSUME NEW t \in r.tests PROVE t.forbidden \subseteq OperationIds(doc)
  <2>1. Marked(r.tests, "forbidden") \subseteq {op.id : op \in OperationsDocumenting(doc, "403")}
    BY DEF UnifiedAccepted, ForbiddenAccepted
  <2>2. t.forbidden \subseteq Marked(r.tests, "forbidden")
    BY DEF Marked
  <2> QED BY <2>1, <2>2 DEF OperationsDocumenting, OperationIds
<1>5. ASSUME NEW t \in r.tests, NEW k \in t.openapi, k[1] = "unified"
      PROVE k[2] \in OperationIds(doc)
  <2>1. k \in InContract(r.tests, "unified")
    BY <1>5 DEF InContract, Marked
  <2> QED BY <2>1 DEF UnifiedAccepted, OperationsAccepted
<1>6. NothingStale(r, doc)
  BY <1>2, <1>3, <1>4, <1>5 DEF NothingStale, RestReviewed
<1> QED BY <1>1, <1>6 DEF Reviewed, RestReviewed

-----------------------------------------------------------------------------
(* What the comparison shows. *)

\* Two documents with no difference describe the same operations on the same
\* routes, to the last detail: openapi_drift.py overlooks nothing it compares.
THEOREM NoDifferences ==
    ASSUME NEW b, NEW l, Comparable(b), Comparable(l), Differences(b, l) = {}
    PROVE  /\ DOMAIN b.paths = DOMAIN l.paths
           /\ \A route \in DOMAIN b.paths : b.paths[route] = l.paths[route]
<1>1. OperationIds(b) = OperationIds(l)
  BY DEF Differences
<1>2. \A id \in OperationIds(b) : ContractOf(b, id) = ContractOf(l, id)
  BY <1>1 DEF Differences
<1>3. ASSUME NEW d, Comparable(d), NEW route \in DOMAIN d.paths
      PROVE  /\ d.paths[route].id \in OperationIds(d)
             /\ ContractOf(d, d.paths[route].id) = [route |-> route, says |-> d.paths[route]]
  <2> DEFINE op == [id |-> d.paths[route].id, route |-> route]
  <2>0. op \in Operations(d)
    BY DEF Operations
  <2>1. op.id \in OperationIds(d)
    BY <2>0 DEF OperationIds
  <2>2. \A s \in DOMAIN d.paths : d.paths[s].id = d.paths[route].id => s = route
    BY <1>3 DEF Comparable, Injective
  <2>3. (CHOOSE s \in DOMAIN d.paths : d.paths[s].id = d.paths[route].id) = route
    BY <2>2
  <2> QED BY <2>1, <2>3 DEF ContractOf
<1>4. ASSUME NEW d, NEW e, Comparable(d), Comparable(e), OperationIds(d) = OperationIds(e),
             \A id \in OperationIds(d) : ContractOf(d, id) = ContractOf(e, id),
             NEW route \in DOMAIN d.paths
      PROVE  route \in DOMAIN e.paths /\ d.paths[route] = e.paths[route]
  <2> DEFINE id == d.paths[route].id
  <2>1. id \in OperationIds(e)
    BY <1>3, <1>4
  <2>2. PICK s \in DOMAIN e.paths : e.paths[s].id = id
    BY <2>1 DEF OperationIds, Operations
  <2>3. ContractOf(e, id) = [route |-> s, says |-> e.paths[s]]
    BY <1>3, <1>4, <2>2
  <2>4. ContractOf(d, id) = [route |-> route, says |-> d.paths[route]]
    BY <1>3, <1>4
  <2>5. ContractOf(d, id) = ContractOf(e, id)
    BY <1>3, <1>4
  <2>6. [route |-> s, says |-> e.paths[s]] = [route |-> route, says |-> d.paths[route]]
    BY <2>3, <2>4, <2>5
  <2>7. s = route /\ e.paths[s] = d.paths[route]
    BY <2>6
  <2> QED BY <2>2, <2>7
<1>5. \A route \in DOMAIN b.paths : route \in DOMAIN l.paths /\ b.paths[route] = l.paths[route]
  BY <1>1, <1>2, <1>4
<1>6. \A route \in DOMAIN l.paths : route \in DOMAIN b.paths
  BY <1>1, <1>2, <1>4
<1> QED BY <1>5, <1>6

SameContract(b, l) ==
    /\ DOMAIN b.paths = DOMAIN l.paths
    /\ \A route \in DOMAIN b.paths : b.paths[route] = l.paths[route]

\* A review carries over to a document with the same contract.
LEMMA ReviewCarriesOver ==
    ASSUME NEW r, NEW b, NEW l, SameContract(b, l), Reviewed(r, b)
    PROVE  Reviewed(r, l)
<1>1. Operations(b) = Operations(l)
  BY DEF SameContract, Operations
<1>2. OperationIds(b) = OperationIds(l)
  BY <1>1 DEF OperationIds
<1>3. NothingStale(r, l)
  BY <1>1, <1>2 DEF Reviewed, NothingStale
<1>4. ASSUME NEW op \in Operations(l) PROVE OperationReviewed(r, l, op)
  <2>1. OperationReviewed(r, b, op)
    BY <1>1 DEF Reviewed
  <2>2. op.route \in DOMAIN b.paths
    BY <1>1 DEF Operations
  <2>3. b.paths[op.route] = l.paths[op.route]
    BY <2>2 DEF SameContract
  <2> QED BY <2>1, <2>3 DEF OperationReviewed
<1> QED BY <1>3, <1>4 DEF Reviewed
-----------------------------------------------------------------------------
(* The run. *)

\* Where a stage leads: the coverage command parts from a full run after the
\* gateway report, and ends at the gate.
LEMMA StageOrder ==
    /\ Follows("dependencies") = "coverage" /\ Follows("coverage") = "forbidden"
    /\ Follows("forbidden") = "gateway"
    /\ Follows("gateway") = IF kind \in Checks THEN "write coverage" ELSE "gate"
    /\ Follows("gate") = IF kind \in Checks THEN "idle" ELSE "fetch"
    /\ Follows("fetch") = "compare" /\ Follows("compare") = "collect"
    /\ Follows("collect") = "live" /\ Follows("live") = "unit"
BY DEF Follows, CheckOrder, FullOrder

LEMMA Counted ==
    ASSUME NEW max \in Nat, NEW n \in 0..max, n < max
    PROVE  n + 1 \in 0..max
OBVIOUS

\* LocalRunTypeOK: the stages, the documents in hand and the reports stay
\* what the commands know.
THEOREM TypeCorrect == Spec => []LocalRunTypeOK
<1>1. Init => LocalRunTypeOK
  <2> SUFFICES ASSUME Init PROVE LocalRunTypeOK
    OBVIOUS
  <2>1. out \in [Reports -> 0..MaxRuns] /\ runs \in 0..MaxRuns /\ deploys \in 0..MaxDeploys
    BY RunBounds DEF Init
  <2>2. /\ repo \in Repos /\ live \in Documents
        /\ {snapshot, judged, seen} \subseteq Documents \cup {Unreadable}
        /\ refresh \in [at : {"idle", "fetched", "truncated"}, doc : Documents \cup {Unreadable}]
    BY DEF Init
  <2>3. failed \in BOOLEAN
    BY DEF Init
  <2>4. kind \in Kinds \cup {"none"} /\ at \in Stages /\ artifacts = {} /\ since = {}
        /\ exit \in {"none", "pass", "fail", "stop", "fault", "killed"}
    BY DEF Init, Stages
  <2> QED BY <2>1, <2>2, <2>3, <2>4 DEF LocalRunTypeOK
<1>2. LocalRunTypeOK /\ [Next]_vars => LocalRunTypeOK'
  <2> SUFFICES ASSUME LocalRunTypeOK, [Next]_vars PROVE LocalRunTypeOK'
    OBVIOUS
  <2> USE RunBounds, StageOrder DEF LocalRunTypeOK, files, Testing, Stages
  <2>1. ASSUME NEW k \in Kinds, Start(k) PROVE LocalRunTypeOK'
    <3>0. runs < MaxRuns /\ runs' = runs + 1
      BY <2>1 DEF Start
    <3>1. runs' \in 0..MaxRuns
      BY <3>0, Counted
    <3>2. kind' \in Kinds /\ at' \in Stages /\ artifacts' = {} /\ since' = {}
          /\ exit' \in {"none", "pass", "fail", "stop", "fault", "killed"}
      BY <2>1 DEF Start, FirstStage
    <3>3. failed' \in BOOLEAN
      BY <2>1 DEF Start
    <3>4. UNCHANGED <<files, out>> /\ judged' = Unreadable /\ seen' = Unreadable
      BY <2>1 DEF Start
    <3> QED BY <3>1, <3>2, <3>3, <3>4
  <2>2. CASE Dependencies
    BY <2>2 DEF Dependencies, Attempt
  <2>3. CASE Coverage
    BY <2>3 DEF Coverage, Attempt, Source, Reports
  <2>4. CASE Forbidden
    BY <2>4 DEF Forbidden, Attempt, Reports
  <2>5. CASE Gateway
    BY <2>5 DEF Gateway, Attempt, Reports
  <2>6. CASE Publish
    <3>1. PICK report \in Reports : out' = [out EXCEPT ![report] = runs]
      BY <2>6 DEF Publish, Write, Reports
    <3>2. out' \in [Reports -> 0..MaxRuns]
      BY <3>1
    <3>3. at' \in Stages
      BY <2>6 DEF Publish, Write
    <3>4. UNCHANGED <<files, kind, judged, seen, failed, exit, artifacts, since, runs>>
      BY <2>6 DEF Publish, Write
    <3> QED BY <3>2, <3>3, <3>4
  <2>7. CASE Gate
    BY <2>7 DEF Gate, Attempt
  <2>8. CASE Fetch
    BY <2>8 DEF Fetch
  <2>9. CASE Compare
    BY <2>9 DEF Compare, Verdict
  <2>10. CASE Collect
    BY <2>10 DEF Collect, GoOn, Finish
  <2>11. CASE LiveTests
    BY <2>11 DEF LiveTests, GoOn, Finish
  <2>12. CASE UnitTests
    BY <2>12 DEF UnitTests, Finish
  <2>13. CASE Fault \/ Kill
    <3>1. CASE Fault
      BY <3>1 DEF Fault, Breaks
    <3>2. CASE Kill
      BY <3>2 DEF Kill, Breaks
    <3> QED
      BY <2>13, <3>1, <3>2
  <2>14. CASE Deploy
    <3>1. live' \in Documents
      BY <2>14 DEF Deploy
    <3>0. deploys < MaxDeploys /\ deploys' = deploys + 1
      BY <2>14 DEF Deploy
    <3>2. deploys' \in 0..MaxDeploys
      BY <3>0, Counted
    <3>4. since' \subseteq {"refresh", "deploy"}
      BY <2>14 DEF Deploy
    <3>3. UNCHANGED <<repo, snapshot, refresh, kind, at, judged, seen, failed, exit,
                      artifacts, out, runs>>
      BY <2>14 DEF Deploy
    <3> QED BY <3>1, <3>2, <3>3, <3>4
  <2>15. CASE RefreshFetch \/ RefreshOpen \/ RefreshWrite \/ RefreshDies
    <3> DEFINE T == [at : {"idle", "fetched", "truncated"}, doc : Documents \cup {Unreadable}]
    <3>a. ASSUME RefreshFetch PROVE refresh' \in T
      BY <3>a DEF RefreshFetch
    <3>b. ASSUME RefreshOpen PROVE refresh' \in T
      BY <3>b DEF RefreshOpen
    <3>c. [at |-> "idle", doc |-> Unreadable] \in T
      OBVIOUS
    <3>d. ASSUME RefreshWrite \/ RefreshDies
          PROVE  refresh' = [at |-> "idle", doc |-> Unreadable]
      BY <3>d DEF RefreshWrite, RefreshDies
    <3>1. refresh' \in T
      BY <2>15, <3>a, <3>b, <3>c, <3>d
    <3>2. snapshot' = snapshot \/ snapshot' = refresh.doc \/ snapshot' = Unreadable
      BY <2>15 DEF RefreshFetch, RefreshOpen, RefreshWrite, RefreshDies
    <3>4. since' = since \/ since' = since \cup {"refresh"}
      BY <2>15 DEF RefreshFetch, RefreshOpen, RefreshWrite, RefreshDies
    <3>3. UNCHANGED command
      BY <2>15 DEF RefreshFetch, RefreshOpen, RefreshWrite, RefreshDies
    <3>5. snapshot' \in Documents \cup {Unreadable}
      BY <3>2
    <3>6. since' \subseteq {"refresh", "deploy"}
      BY <3>4
    <3> QED BY <3>1, <3>3, <3>5, <3>6 DEF command
  <2>16. CASE UNCHANGED vars
    BY <2>16 DEF vars
  <2> QED
    BY <2>1, <2>2, <2>3, <2>4, <2>5, <2>6, <2>7, <2>8, <2>9, <2>10, <2>11, <2>12, <2>13,
       <2>14, <2>15, <2>16 DEF Next
<1> QED BY <1>1, <1>2, PTL DEF Spec

Writing == {"write coverage", "write forbidden", "write gateway"}

\* Each command stays on its own stages, and has not ended while it is on one.
Placed ==
    /\ kind = "full" => at \notin Writing
    /\ kind = "partial" => at \in Testing \cup {"idle"}
    /\ kind \in Checks => at \in Writing \cup {"coverage", "forbidden", "gateway", "gate", "idle"}
    /\ kind \in {"none", "redirected"} => at = "idle"
    /\ at # "idle" => exit = "none"

\* A full run that is on a stage has left the report of the stage before it,
\* and none of a stage that is still to come.
Accounted ==
    /\ Placed
    /\ kind = "full" =>
         /\ at = "coverage" => "dependencies" \in artifacts
         /\ at = "forbidden" => "coverage" \in artifacts
         /\ at = "gateway" => "forbidden" \in artifacts
         /\ at \in {"gate", "fetch", "compare"} => "gateway" \in artifacts
         /\ at \in Testing => "match" \in artifacts
         /\ at # "idle" => "different" \notin artifacts
         /\ at \notin Testing \cup {"idle"} => "match" \notin artifacts
    /\ ArtifactsExplainExit

\* A step that ends the command without a new report keeps the account.
LEMMA EndsAccounted ==
    ASSUME Accounted, at # "idle", at' = "idle", UNCHANGED <<kind, artifacts>>,
           exit' \in {"fail", "fault", "killed"} \/ (exit' = "pass" /\ kind \in Checks)
    PROVE  Accounted'
<1>1. Placed'
  BY DEF Accounted, Placed, Testing, Checks, Writing
<1>2. "different" \notin artifacts
  BY DEF Accounted, ArtifactsExplainExit
<1>3. ArtifactsExplainExit'
  <2>1. ~(exit' = "pass" /\ kind' \notin Checks)
    OBVIOUS
  <2> QED BY <1>2, <2>1 DEF Accounted, ArtifactsExplainExit
<1> QED BY <1>1, <1>3 DEF Accounted, Testing

\* Nor does a step that leaves the command alone change it.
LEMMA AsideAccounted ==
    ASSUME Accounted, UNCHANGED <<kind, at, exit, artifacts>>
    PROVE  Accounted'
BY DEF Accounted, Placed, ArtifactsExplainExit

LEMMA AccountedAtStart == Init => Accounted
BY DEF Init, Accounted, Placed, ArtifactsExplainExit, Checks

LEMMA AccountedKept ==
    ASSUME LocalRunTypeOK, Accounted, [Next]_vars
    PROVE  Accounted'
<1>1. ASSUME NEW k \in Kinds, Start(k) PROVE Accounted'
  BY <1>1, RunBounds DEF Start, Refused, FirstStage, Accounted, Placed, ArtifactsExplainExit,
     Checks, Testing, Writing
<1>2. ASSUME NEW stage \in {"dependencies", "coverage", "forbidden", "gateway"},
             at = stage, at' = Follows(stage), UNCHANGED <<kind, exit>>,
             artifacts' = IF kind = "full" THEN artifacts \cup {stage} ELSE artifacts
      PROVE  Accounted'
  BY <1>2, StageOrder DEF Accounted, Placed, ArtifactsExplainExit, Checks, Testing, Writing
<1>3. CASE Dependencies
  <2>1. CASE repo.lockstep
    BY <1>2, <1>3, <2>1, StageOrder DEF Dependencies, Attempt
  <2>2. CASE ~repo.lockstep
    BY <1>3, <2>2, EndsAccounted DEF Dependencies, Attempt
  <2> QED BY <2>1, <2>2
<1>4. CASE Coverage
  <2>1. CASE CoverageBuilds(repo, Source)
    BY <1>2, <1>4, <2>1, StageOrder DEF Coverage, Attempt
  <2>2. CASE ~CoverageBuilds(repo, Source)
    BY <1>4, <2>2, EndsAccounted DEF Coverage, Attempt
  <2> QED BY <2>1, <2>2
<1>5. CASE Forbidden
  <2>1. CASE ForbiddenBuilds(repo, Source)
    BY <1>2, <1>5, <2>1, StageOrder DEF Forbidden, Attempt
  <2>2. CASE ~ForbiddenBuilds(repo, Source)
    BY <1>5, <2>2, EndsAccounted DEF Forbidden, Attempt
  <2> QED BY <2>1, <2>2
<1>6. CASE Gateway
  <2>1. CASE GatewayBuilds(repo)
    <3>1. Follows("gateway") # "idle"
      BY StageOrder
    <3> QED BY <1>2, <1>6, <2>1, <3>1 DEF Gateway, Attempt
  <2>2. CASE ~GatewayBuilds(repo)
    BY <1>6, <2>2, EndsAccounted DEF Gateway, Attempt
  <2> QED BY <2>1, <2>2
<1>7. CASE Gate
  <2>1. UNCHANGED <<kind, artifacts>> /\ at = "gate"
    BY <1>7 DEF Gate, Attempt
  <2>2. CASE at' = "idle"
    <3>1. exit' = "fail" \/ (exit' = "pass" /\ kind \in Checks)
      BY <1>7, <2>2, StageOrder DEF Gate, Attempt
    <3> QED BY <2>1, <2>2, <3>1, EndsAccounted
  <2>3. CASE at' # "idle"
    <3>1. at' = "fetch" /\ kind \notin Checks /\ exit' = exit
      BY <1>7, <2>3, StageOrder DEF Gate, Attempt
    <3> QED BY <2>1, <3>1 DEF Accounted, Placed, ArtifactsExplainExit, Checks, Testing, Writing
  <2> QED BY <2>2, <2>3
<1>8. CASE Publish
  BY <1>8 DEF Publish, Write, Accounted, Placed, ArtifactsExplainExit, Checks, Writing, Testing
<1>9. CASE Fetch
  BY <1>9, StageOrder DEF Fetch, Accounted, Placed, ArtifactsExplainExit, Writing, Testing,
     Checks
<1>10. CASE Compare
  <2>1. UNCHANGED kind /\ at = "compare"
    BY <1>10 DEF Compare
  <2>2. CASE at' = "idle" /\ UNCHANGED artifacts /\ exit' = "fail"
    BY <2>1, <2>2, EndsAccounted
  <2>0. kind = "full" /\ "gateway" \in artifacts /\ "different" \notin artifacts
        /\ "match" \notin artifacts /\ exit = "none"
    <3>1. kind \in {"full", "partial", "redirected", "offline", "online", "none"}
      BY RunBounds DEF LocalRunTypeOK
    <3>2. Placed
      BY DEF Accounted
    <3>3. kind # "partial"
      BY <2>1, <3>2 DEF Placed, Testing
    <3>4. kind \notin {"offline", "online"}
      BY <2>1, <3>2 DEF Placed, Writing, Checks
    <3>5. kind \notin {"none", "redirected"} /\ exit = "none"
      BY <2>1, <3>2 DEF Placed
    <3>6. kind = "full"
      BY <3>1, <3>3, <3>4, <3>5
    <3> QED BY <2>1, <3>5, <3>6 DEF Accounted, Testing
  <2>3. CASE at' = "idle" /\ artifacts' = artifacts \cup {"different"} /\ exit' = "fail"
    <3>1. Placed'
      BY <2>0, <2>1, <2>3 DEF Placed, Checks, Writing, Testing
    <3>2. ArtifactsExplainExit'
      BY <2>0, <2>1, <2>3 DEF Accounted, ArtifactsExplainExit
    <3> QED BY <2>3, <3>1, <3>2 DEF Accounted, Testing
  <2>4. CASE at' = "collect" /\ artifacts' = artifacts \cup {"match"} /\ exit' = exit
    <3>1. Placed'
      BY <2>0, <2>1, <2>4 DEF Placed, Checks, Testing, Writing
    <3>2. ArtifactsExplainExit'
      BY <2>0, <2>1, <2>4 DEF Accounted, ArtifactsExplainExit
    <3> QED BY <2>0, <2>1, <2>4, <3>1, <3>2 DEF Accounted, Testing
  <2> QED BY <1>10, <2>2, <2>3, <2>4, StageOrder DEF Compare, Verdict
<1>11. ASSUME NEW code, Finish(code), at \in Testing, UNCHANGED kind,
              code \in {"pass", "fail", "stop"}
       PROVE  Accounted'
  BY <1>11 DEF Finish, Accounted, Placed, ArtifactsExplainExit, Writing, Testing, Checks
<1>12. ASSUME GoOn, at \in {"collect", "live"}, UNCHANGED kind PROVE Accounted'
  BY <1>12, StageOrder DEF GoOn, Accounted, Placed, ArtifactsExplainExit, Writing, Testing,
     Checks
<1>13. CASE Collect
  BY <1>11, <1>12, <1>13 DEF Collect, Testing
<1>14. CASE LiveTests
  BY <1>11, <1>12, <1>14 DEF LiveTests, Testing
<1>15. CASE UnitTests
  BY <1>11, <1>15 DEF UnitTests, Testing
<1>16. CASE Fault \/ Kill
  BY <1>16, EndsAccounted DEF Fault, Kill, Breaks
<1>17. CASE Deploy \/ RefreshFetch \/ RefreshOpen \/ RefreshWrite \/ RefreshDies
  BY <1>17, AsideAccounted DEF Deploy, RefreshFetch, RefreshOpen, RefreshWrite, RefreshDies, command
<1>18. CASE UNCHANGED vars
  BY <1>18, AsideAccounted DEF vars
<1> QED
  BY <1>1, <1>3, <1>4, <1>5, <1>6, <1>7, <1>8, <1>9, <1>10, <1>13, <1>14, <1>15, <1>16,
     <1>17, <1>18 DEF Next

\* ArtifactsExplainExit: the reports in artifacts/runs/<run> are a prefix of
\* the pipeline, and tell a drift and a partial run from a green one.
THEOREM ArtifactsExplain == Spec => []ArtifactsExplainExit
<1>1. LocalRunTypeOK /\ Accounted /\ [Next]_vars => Accounted'
  BY AccountedKept
<1>2. Accounted => ArtifactsExplainExit
  BY DEF Accounted
<1> QED BY <1>1, <1>2, AccountedAtStart, TypeCorrect, PTL DEF Spec

-----------------------------------------------------------------------------
(* The contract. *)

AfterFetch    == {"compare"} \cup Testing
AfterGate     == {"fetch"} \cup AfterFetch
AfterGateway  == {"gate"} \cup Writing \cup AfterGate
AfterCoverage == {"forbidden", "gateway"} \cup AfterGateway

\* What a refresh leaves behind while it is under way.  There is one at a
\* time: one that fetches after another has written, within a command that
\* has seen no deployment, fetches the contract the command has seen.
Refreshing ==
    /\ refresh.at = "truncated" => snapshot = Unreadable
    /\ "refresh" \in since /\ "deploy" \notin since /\ refresh.at = "fetched" =>
         refresh.doc = live

\* The snapshot the unit tests are going to read says what was compared.
Expected ==
    /\ "refresh" \in since
    /\ snapshot = Unreadable \/ SameContract(snapshot, seen)
    /\ refresh.at # "idle" => refresh.doc = live

\* What a command on a stage has established at the stages before it.
Established ==
    /\ kind = "full" /\ at # "idle" => repo.environment = "exact"
    /\ kind = "full" /\ at \notin {"idle", "dependencies"} => repo.lockstep
    /\ at \in AfterCoverage /\ kind # "partial" => CoverageBuilds(repo, judged)
    /\ at \in AfterCoverage /\ kind = "full" /\ "refresh" \notin since => judged = snapshot
    /\ at \in AfterGateway /\ kind # "partial" => GatewayBuilds(repo)
    /\ at \in AfterGate /\ kind = "full" => Gaps(repo, judged) = {}
    /\ at \in AfterFetch /\ kind = "full" /\ "deploy" \notin since => seen = live

\* What the comparison has shown a full run, and what a green exit says.
Compared ==
    /\ at \in Testing /\ kind = "full" =>
         /\ "refresh" \notin since => Reviewed(repo, seen)
         /\ "deploy" \notin since => Reviewed(repo, seen) \/ Expected
    /\ PassIsReviewed

Followed == Accounted /\ Refreshing /\ Established /\ Compared

\* A step of the command itself.
Advances == UNCHANGED <<files, kind, since>>

LEMMA StagesAfter ==
    /\ AfterFetch = {"compare", "collect", "live", "unit"}
    /\ AfterGate = {"fetch", "compare", "collect", "live", "unit"}
    /\ AfterGateway = {"gate", "write coverage", "write forbidden", "write gateway",
                       "fetch", "compare", "collect", "live", "unit"}
    /\ AfterCoverage = {"forbidden", "gateway", "gate", "write coverage", "write forbidden",
                        "write gateway", "fetch", "compare", "collect", "live", "unit"}
BY DEF AfterFetch, AfterGate, AfterGateway, AfterCoverage, Testing, Writing

\* The gates a command has passed before its last one review the document of its rows.
LEMMA GatesReview ==
    ASSUME NEW r, NEW doc, CoverageBuilds(r, doc), GatewayBuilds(r), Gaps(r, doc) = {}
    PROVE  Reviewed(r, doc) /\ RestReviewed(r)
<1>1. RestReviewed(r)
  BY GatewayReviewed DEF CoverageBuilds
<1>2. UnifiedAccepted(r, doc)
  BY DEF CoverageBuilds, UnifiedAccepted, Gaps
<1> QED BY <1>1, <1>2, ReviewedFromGates

\* An empty comparison carries the review of the snapshot to the served contract.
LEMMA MatchCarriesOver ==
    ASSUME Comparable(snapshot), Comparable(seen), Verdict = "match"
    PROVE  SameContract(snapshot, seen)
<1>1. Differences(snapshot, seen) = {}
  BY DEF Verdict
<1> QED BY <1>1, NoDifferences DEF SameContract

\* A command that ends, but not with a green exit, has nothing to show.
LEMMA EndsFollowed ==
    ASSUME Refreshing, Advances, at' = "idle", exit' # "pass"
    PROVE  Refreshing' /\ Established' /\ Compared'
<1>1. Refreshing'
  BY DEF Refreshing, Advances, files
<1>2. Established'
  BY StagesAfter DEF Established
<1>3. Compared'
  BY DEF Compared, PassIsReviewed, Testing
<1> QED BY <1>1, <1>2, <1>3

\* While a command is on its way no exit is green.
LEMMA OnTheWay ==
    ASSUME Accounted, at # "idle"
    PROVE  exit = "none"
BY DEF Accounted, Placed

\* A step from one stage to another that establishes what is asked for there.
LEMMA MovesFollowed ==
    ASSUME Accounted, Refreshing, Advances, exit' = exit, at # "idle",
           at' \notin Testing
    PROVE  Refreshing' /\ Compared'
<1>1. Refreshing'
  BY DEF Refreshing, Advances, files
<1>2. exit' # "pass"
  BY OnTheWay
<1>3. Compared'
  BY <1>2 DEF Compared, PassIsReviewed
<1> QED BY <1>1, <1>3

\* PassIsReviewed and StartIsReviewed hold in every state of every behaviour.
LEMMA FollowedInductive ==
    ASSUME LocalRunTypeOK, Followed, [Next]_vars
    PROVE  Refreshing' /\ Established' /\ Compared'
<1> USE StageOrder, StagesAfter
<1>0. Accounted /\ Refreshing /\ Established /\ Compared
  BY DEF Followed
<1>k. kind \in {"full", "partial", "redirected", "offline", "online", "none"}
  BY RunBounds DEF LocalRunTypeOK
<1>1. ASSUME NEW k \in Kinds, Start(k) PROVE Refreshing' /\ Established' /\ Compared'
  <2>1. Refreshing'
    BY <1>1, <1>0 DEF Start, Refreshing, files
  <2>2. since' = {} /\ kind' = k /\ at' = FirstStage(k) /\ repo' = repo /\ exit' # "pass"
    BY <1>1 DEF Start, files
  <2>3. at' \in {"idle", "dependencies", "collect", "coverage"}
        /\ (at' = "collect" => kind' = "partial")
        /\ (kind' = "full" => at' \in {"idle", "dependencies"})
    BY <2>2 DEF FirstStage
  <2>4. kind' = "full" /\ at' # "idle" => repo'.environment = "exact"
    BY <2>2 DEF FirstStage, Refused
  <2>5. Established'
    BY <2>3, <2>4 DEF Established
  <2>6. Compared'
    BY <2>2, <2>3 DEF Compared, PassIsReviewed, Testing
  <2> QED BY <2>1, <2>5, <2>6
<1>2. CASE Dependencies
  <2>1. Advances /\ at = "dependencies"
    BY <1>2 DEF Dependencies, Attempt, Advances
  <2>2. CASE repo.lockstep
    <3>1. at' = "coverage" /\ exit' = exit
      BY <1>2, <2>2 DEF Dependencies, Attempt
    <3>2. Established'
      BY <1>0, <2>1, <2>2, <3>1 DEF Established, Advances, files
    <3> QED BY <1>0, <2>1, <3>1, <3>2, MovesFollowed DEF Testing
  <2>3. CASE ~repo.lockstep
    BY <1>0, <1>2, <2>1, <2>3, EndsFollowed DEF Dependencies, Attempt
  <2> QED BY <2>2, <2>3
<1>3. CASE Coverage
  <2>1. Advances /\ at = "coverage" /\ judged' = Source
    BY <1>3 DEF Coverage, Attempt, Advances
  <2>2. CASE CoverageBuilds(repo, Source)
    <3>1. at' = "forbidden" /\ exit' = exit
      BY <1>3, <2>2 DEF Coverage, Attempt
    <3>2. CoverageBuilds(repo', judged') /\ (kind = "full" => judged' = snapshot)
      BY <2>1, <2>2 DEF Advances, files, Source
    <3>3. Established'
      BY <1>0, <2>1, <3>1, <3>2 DEF Established, Advances, files
    <3> QED BY <1>0, <2>1, <3>1, <3>3, MovesFollowed DEF Testing
  <2>3. CASE ~CoverageBuilds(repo, Source)
    BY <1>0, <1>3, <2>1, <2>3, EndsFollowed DEF Coverage, Attempt
  <2> QED BY <2>2, <2>3
<1>4. CASE Forbidden
  <2>1. Advances /\ at = "forbidden" /\ judged' = judged
    BY <1>4 DEF Forbidden, Attempt, Advances
  <2>2. CASE ForbiddenBuilds(repo, Source)
    <3>1. at' = "gateway" /\ exit' = exit
      BY <1>4, <2>2 DEF Forbidden, Attempt
    <3>3. Established'
      BY <1>0, <2>1, <3>1 DEF Established, Advances, files
    <3> QED BY <1>0, <2>1, <3>1, <3>3, MovesFollowed DEF Testing
  <2>3. CASE ~ForbiddenBuilds(repo, Source)
    BY <1>0, <1>4, <2>1, <2>3, EndsFollowed DEF Forbidden, Attempt
  <2> QED BY <2>2, <2>3
<1>5. CASE Gateway
  <2>1. Advances /\ at = "gateway" /\ judged' = judged
    BY <1>5 DEF Gateway, Attempt, Advances
  <2>2. CASE GatewayBuilds(repo)
    <3>1. at' \in {"write coverage", "gate"} /\ exit' = exit
      BY <1>5, <2>2 DEF Gateway, Attempt
    <3>3. Established'
      BY <1>0, <2>1, <2>2, <3>1 DEF Established, Advances, files
    <3> QED BY <1>0, <2>1, <3>1, <3>3, MovesFollowed DEF Testing
  <2>3. CASE ~GatewayBuilds(repo)
    BY <1>0, <1>5, <2>1, <2>3, EndsFollowed DEF Gateway, Attempt
  <2> QED BY <2>2, <2>3
<1>6. CASE Publish
  <2>1. /\ Advances /\ exit' = exit /\ judged' = judged
        /\ at \in Writing /\ at' \in {"write forbidden", "write gateway", "gate"}
    BY <1>6 DEF Publish, Write, Advances, Writing
  <2>2. Established'
    BY <1>0, <2>1 DEF Established, Advances, files, Writing
  <2> QED BY <1>0, <2>1, <2>2, MovesFollowed DEF Testing, Writing
<1>7. CASE Gate
  <2>1. Advances /\ at = "gate" /\ judged' = judged /\ seen' = seen
    BY <1>7 DEF Gate, Attempt, Advances
  <2>2. CASE Gaps(repo, judged) # {}
    BY <1>0, <1>7, <2>1, <2>2, EndsFollowed DEF Gate, Attempt
  <2>3. CASE Gaps(repo, judged) = {} /\ kind \in Checks
    <3>1. at' = "idle" /\ exit' = "pass"
      BY <1>7, <2>3 DEF Gate, Attempt
    <3>2. CoverageBuilds(repo, judged) /\ GatewayBuilds(repo)
      BY <1>0, <2>1, <2>3 DEF Established, Checks
    <3>3. Reviewed(repo, judged)
      BY <2>3, <3>2, GatesReview
    <3>4. PassIsReviewed'
      BY <2>1, <2>3, <3>3 DEF PassIsReviewed, Advances, files, Checks
    <3>5. Refreshing'
      BY <1>0, <2>1 DEF Refreshing, Advances, files
    <3>6. Established' /\ Compared'
      BY <3>1, <3>4 DEF Established, Compared, Testing
    <3> QED BY <3>5, <3>6
  <2>4. CASE Gaps(repo, judged) = {} /\ kind \notin Checks
    <3>1. at' = "fetch" /\ exit' = exit
      BY <1>7, <2>4 DEF Gate, Attempt
    <3>2. Established'
      BY <1>0, <2>1, <2>4, <3>1 DEF Established, Advances, files
    <3> QED BY <1>0, <2>1, <3>1, <3>2, MovesFollowed DEF Testing
  <2> QED BY <2>2, <2>3, <2>4
<1>8. CASE Fetch
  <2>1. Advances /\ at = "fetch" /\ at' = "compare" /\ judged' = judged /\ seen' = live /\ exit' = exit
    BY <1>8 DEF Fetch, Advances
  <2>2. Established'
    BY <1>0, <2>1 DEF Established, Advances, files
  <2> QED BY <1>0, <2>1, <2>2, MovesFollowed DEF Testing
<1>9. CASE Compare
  <2>1. Advances /\ at = "compare" /\ judged' = judged /\ seen' = seen
    BY <1>9 DEF Compare, Advances
  <2>2. CASE at' = "idle" /\ exit' = "fail"
    BY <1>0, <2>1, <2>2, EndsFollowed
  <2>3. CASE Comparable(snapshot) /\ Comparable(seen) /\ Verdict = "match"
    <3>1. at' = "collect" /\ exit' = exit
      BY <1>9, <2>3 DEF Compare
    <3>2. kind = "full"
      BY <1>0, <1>k, <2>1 DEF Accounted, Placed, Testing, Writing, Checks
    <3>3. SameContract(snapshot, seen) /\ snapshot # Unreadable
      BY <2>3, MatchCarriesOver DEF Comparable
    <3>4. CoverageBuilds(repo, judged) /\ GatewayBuilds(repo) /\ Gaps(repo, judged) = {}
      BY <1>0, <2>1, <3>2 DEF Established
    <3>5. Reviewed(repo, judged)
      BY <3>4, GatesReview
    <3>6. "refresh" \notin since => Reviewed(repo, seen)
      <4> SUFFICES ASSUME "refresh" \notin since PROVE Reviewed(repo, seen)
        OBVIOUS
      <4>1. judged = snapshot
        BY <1>0, <2>1, <3>2 DEF Established
      <4> QED BY <3>3, <3>5, <4>1, ReviewCarriesOver
    <3>7. refresh.at \in {"idle", "fetched", "truncated"}
      BY DEF LocalRunTypeOK
    <3>8. "refresh" \in since /\ "deploy" \notin since => Expected
      BY <1>0, <3>3, <3>7 DEF Refreshing, Expected
    <3>9. Refreshing'
      BY <1>0, <2>1 DEF Refreshing, Advances, files
    <3>10. Established'
      BY <1>0, <2>1, <3>1, <3>2 DEF Established, Advances, files
    <3>11. exit' # "pass"
      BY <1>0, <2>1, <3>1, OnTheWay
    <3>12. Expected => Expected'
      BY <2>1 DEF Expected, Advances, files
    <3>13. Reviewed(repo, seen) => Reviewed(repo', seen')
      BY <2>1 DEF Advances, files
    <3>14. Compared'
      BY <2>1, <3>6, <3>8, <3>11, <3>12, <3>13 DEF Compared, PassIsReviewed, Advances
    <3> QED BY <3>9, <3>10, <3>14
  <2> QED BY <1>9, <2>2, <2>3 DEF Compare, Verdict
<1>10. ASSUME Advances, at \in {"collect", "live"}, at' \in Testing, UNCHANGED <<judged, seen, exit>>
       PROVE  Refreshing' /\ Established' /\ Compared'
  <2>1. Refreshing'
    BY <1>0, <1>10 DEF Refreshing, Advances, files
  <2>2. Established'
    BY <1>0, <1>10 DEF Established, Advances, files, Testing
  <2>3. Compared'
    BY <1>0, <1>10, OnTheWay DEF Compared, PassIsReviewed, Expected, Advances, files, Testing
  <2> QED BY <2>1, <2>2, <2>3
<1>11. CASE Collect
  <2>1. Advances /\ at = "collect" /\ UNCHANGED <<judged, seen>> /\ (GoOn \/ Finish("stop"))
    BY <1>11 DEF Collect, Advances
  <2> QED BY <1>0, <1>10, <2>1, EndsFollowed DEF GoOn, Finish, Testing
<1>12. CASE LiveTests
  <2>1. Advances /\ at = "live" /\ UNCHANGED <<judged, seen>> /\ (GoOn \/ Finish("stop"))
    BY <1>12 DEF LiveTests, Advances
  <2> QED BY <1>0, <1>10, <2>1, EndsFollowed DEF GoOn, Finish, Testing
<1>13. CASE UnitTests
  <2>1. Advances /\ at = "unit" /\ UNCHANGED <<judged, seen>> /\ at' = "idle"
    BY <1>13 DEF UnitTests, Finish, Advances
  <2>2. CASE exit' # "pass"
    BY <1>0, <2>1, <2>2, EndsFollowed
  <2>3. CASE exit' = "pass"
    <3>1. kind # "partial" => UnitTestsAccept(snapshot)
      BY <1>13, <2>3 DEF UnitTests, Finish
    <3>2. kind \notin Checks
      BY <1>0, <2>1 DEF Accounted, Placed, Checks, Writing
    <3>3. kind = "full" /\ "deploy" \notin since => Reviewed(repo, seen)
      <4> SUFFICES ASSUME kind = "full", Expected PROVE Reviewed(repo, seen)
        BY <1>0, <2>1 DEF Compared, Testing
      <4>1. CoverageBuilds(repo, judged) /\ GatewayBuilds(repo) /\ Gaps(repo, judged) = {}
        BY <1>0, <2>1 DEF Established
      <4>2. RestReviewed(repo)
        BY <4>1, GatesReview
      <4>3. UnitTestsAccept(snapshot)
        BY <3>1
      <4>4. UnifiedAccepted(repo, snapshot)
        BY <4>3 DEF UnitTestsAccept, UnifiedAccepted
      <4>5. snapshot # Unreadable
        BY <4>4 DEF UnifiedAccepted, RequestCasesBuild, ValidEntries
      <4>6. SameContract(snapshot, seen)
        BY <4>5 DEF Expected
      <4>7. Reviewed(repo, snapshot)
        BY <4>2, <4>4, ReviewedFromGates
      <4> QED BY <4>6, <4>7, ReviewCarriesOver
    <3>4. Reviewed(repo, seen) => Reviewed(repo', seen')
      BY <2>1 DEF Advances, files
    <3>5. PassIsReviewed'
      BY <2>1, <3>2, <3>3, <3>4 DEF PassIsReviewed, Advances
    <3>6. Refreshing'
      BY <1>0, <2>1 DEF Refreshing, Advances, files
    <3>7. Established' /\ Compared'
      BY <2>1, <3>5 DEF Established, Compared, Testing
    <3> QED BY <3>6, <3>7
  <2> QED BY <2>2, <2>3
<1>14. CASE Fault \/ Kill
  BY <1>0, <1>14, EndsFollowed DEF Fault, Kill, Breaks, Advances
<1>15. CASE Deploy
  <2>1. /\ UNCHANGED <<repo, snapshot, refresh, kind, at, judged, seen, exit>>
        /\ since' = since \cup {"deploy"}
    BY <1>15 DEF Deploy
  <2>2. Refreshing'
    BY <1>0, <2>1 DEF Refreshing
  <2>3. Established'
    BY <1>0, <2>1 DEF Established
  <2>4. Compared'
    BY <1>0, <2>1 DEF Compared, PassIsReviewed
  <2> QED BY <2>2, <2>3, <2>4
<1>16. CASE RefreshFetch
  <2>1. UNCHANGED <<command, snapshot, since>> /\ refresh' = [at |-> "fetched", doc |-> live]
    BY <1>16 DEF RefreshFetch
  <2>2. Refreshing'
    BY <2>1 DEF Refreshing, command
  <2>3. Established'
    BY <1>0, <2>1 DEF Established, command
  <2>4. Compared'
    BY <1>0, <2>1 DEF Compared, PassIsReviewed, Expected, command
  <2> QED BY <2>2, <2>3, <2>4
<1>17. CASE RefreshOpen
  <2>1. /\ UNCHANGED command /\ refresh.at = "fetched" /\ snapshot' = Unreadable
        /\ refresh' = [refresh EXCEPT !.at = "truncated"] /\ since' = since \cup {"refresh"}
    BY <1>17 DEF RefreshOpen
  <2>0. refresh'.at = "truncated" /\ refresh'.doc = refresh.doc
    BY <2>1 DEF LocalRunTypeOK
  <2>2. Refreshing'
    BY <2>1, <2>0 DEF Refreshing
  <2>3. Established'
    BY <1>0, <2>1 DEF Established, command
  <2>4. Compared'
    BY <1>0, <2>1, <2>0 DEF Compared, PassIsReviewed, Expected, command
  <2> QED BY <2>2, <2>3, <2>4
<1>18. CASE RefreshWrite
  <2>1. /\ UNCHANGED command /\ refresh.at = "truncated" /\ snapshot' = refresh.doc
        /\ refresh' = [at |-> "idle", doc |-> Unreadable] /\ since' = since \cup {"refresh"}
    BY <1>18 DEF RefreshWrite
  <2>2. Refreshing'
    BY <2>1 DEF Refreshing
  <2>3. Established'
    BY <1>0, <2>1 DEF Established, command
  <2>4. Compared'
    <3>1. SameContract(live, live)
      BY DEF SameContract
    <3>2. kind = "full" /\ at \in Testing /\ "deploy" \notin since => seen = live
      BY <1>0 DEF Established, Testing
    <3> QED BY <1>0, <2>1, <3>1, <3>2 DEF Compared, PassIsReviewed, Expected, command
  <2> QED BY <2>2, <2>3, <2>4
<1>19. CASE RefreshDies
  <2>1. UNCHANGED <<command, snapshot, since>> /\ refresh' = [at |-> "idle", doc |-> Unreadable]
    BY <1>19 DEF RefreshDies
  <2>2. Refreshing'
    BY <2>1 DEF Refreshing
  <2>3. Established'
    BY <1>0, <2>1 DEF Established, command
  <2>4. Compared'
    BY <1>0, <2>1 DEF Compared, PassIsReviewed, Expected, command
  <2> QED BY <2>2, <2>3, <2>4
<1>20. CASE UNCHANGED vars
  <2>2. Refreshing'
    BY <1>0, <1>20 DEF Refreshing, vars
  <2>3. Established'
    BY <1>0, <1>20 DEF Established, vars
  <2>4. Compared'
    BY <1>0, <1>20 DEF Compared, PassIsReviewed, Expected, vars
  <2> QED BY <2>2, <2>3, <2>4
<1> QED
  BY <1>1, <1>2, <1>3, <1>4, <1>5, <1>6, <1>7, <1>8, <1>9, <1>11, <1>12, <1>13, <1>14,
     <1>15, <1>16, <1>17, <1>18, <1>19, <1>20 DEF Next

LEMMA FollowedAlways == Spec => [](LocalRunTypeOK /\ Followed)
<1>1. Init => Refreshing /\ Established /\ Compared
  BY DEF Init, Refreshing, Established, Compared, PassIsReviewed, AfterCoverage, AfterGateway,
     AfterGate, AfterFetch, Testing, Writing
<1>2. Init => Accounted
  BY AccountedAtStart
<1>3. LocalRunTypeOK /\ LocalRunTypeOK' /\ Followed /\ [Next]_vars => Followed'
  BY FollowedInductive, AccountedKept DEF Followed
<1> QED BY <1>1, <1>2, <1>3, TypeCorrect, PTL DEF Spec, Followed

\* StartIsReviewed: whatever the repository, the documents and the deployments,
\* the tests of a full run that no refresh disturbs start only after every
\* gate and the comparison have passed, and these leave no operation, deferral
\* or inventory case unreviewed.
THEOREM StartReviewed == Spec => []StartIsReviewed
<1>1. Followed => StartIsReviewed
  BY DEF Followed, Established, Compared, StartIsReviewed, Testing
<1> QED BY <1>1, FollowedAlways, PTL

\* PassIsReviewed: a green run is green for the contract it compared, whatever
\* refreshes do to the snapshot between any two of its reads, and a green
\* coverage command for the document of its rows.
THEOREM PassReviewed == Spec => []PassIsReviewed
<1>1. Followed => PassIsReviewed
  BY DEF Followed, Compared
<1> QED BY <1>1, FollowedAlways, PTL

-----------------------------------------------------------------------------
(* The reports of the coverage command. *)

\* The reports a coverage command has written before a stage of it.
WrittenBefore(stage) ==
    {r \in Reports : \/ r = "coverage" /\ stage \in {"write forbidden", "write gateway", "gate"}
                     \/ r = "forbidden" /\ stage \in {"write gateway", "gate"}
                     \/ r = "gateway" /\ stage = "gate"}

Numbered ==
    /\ \A r \in Reports : out[r] <= runs
    /\ kind \in Checks /\ at # "idle" =>
         \A r \in Reports : out[r] = runs <=> r \in WrittenBefore(at)
    /\ kind \in Checks /\ exit = "pass" => \A r \in Reports : out[r] = runs
    /\ kind \in Checks /\ exit = "fail" => \A r, s \in Reports : out[r] = runs => out[s] = runs

LEMMA WrittenInOrder ==
    /\ \A stage \in Stages \ {"write forbidden", "write gateway", "gate"} :
         WrittenBefore(stage) = {}
    /\ WrittenBefore("gate") = Reports
    /\ \A r \in Reports :
         /\ r \in WrittenBefore("write forbidden") <=> r = "coverage"
         /\ r \in WrittenBefore("write gateway")
              <=> r = "forbidden" \/ r \in WrittenBefore("write forbidden")
         /\ r \in WrittenBefore("gate")
              <=> r = "gateway" \/ r \in WrittenBefore("write gateway")
  BY DEF WrittenBefore, Reports

LEMMA RunsCounted ==
    ASSUME LocalRunTypeOK
    PROVE  runs \in Nat /\ out \in [Reports -> Nat] /\ at \in Stages
<1>1. MaxRuns \in Nat /\ runs \in 0..MaxRuns /\ out \in [Reports -> 0..MaxRuns]
  BY RunBounds DEF LocalRunTypeOK
<1>2. runs \in Nat
  BY <1>1
<1>3. ASSUME NEW r \in Reports PROVE out[r] \in Nat
  <2>1. out[r] \in 0..MaxRuns
    BY <1>1
  <2> QED BY <1>1, <2>1
<1>4. out \in [Reports -> Nat]
  BY <1>1, <1>3
<1> QED BY <1>2, <1>4 DEF LocalRunTypeOK

LEMMA NumberedKept ==
    ASSUME LocalRunTypeOK, Accounted, Numbered, [Next]_vars
    PROVE  Numbered'
<1>t. runs \in Nat /\ out \in [Reports -> Nat] /\ at \in Stages
  BY RunsCounted
<1>0. at # "idle" => exit = "none"
  BY OnTheWay
<1>1. ASSUME NEW k \in Kinds, Start(k) PROVE Numbered'
  <2>1. runs' = runs + 1 /\ out' = out /\ at' = FirstStage(k) /\ kind' = k
        /\ exit' \in {"stop", "none"}
    BY <1>1 DEF Start
  <2>4. ASSUME NEW r \in Reports PROVE out'[r] <= runs' /\ out'[r] # runs'
    <3>1. out[r] \in Nat /\ out[r] <= runs
      BY <1>t DEF Numbered
    <3>2. out'[r] = out[r] /\ runs' = runs + 1
      BY <2>1
    <3> QED BY <1>t, <3>1, <3>2
  <2>5. WrittenBefore(at') = {}
    <3>1. at' \in Stages \ {"write forbidden", "write gateway", "gate"}
      BY <2>1 DEF FirstStage, Stages, Testing
    <3> QED BY <3>1, WrittenInOrder
  <2>6. exit' # "pass" /\ exit' # "fail"
    BY <2>1
  <2> QED BY <2>4, <2>5, <2>6 DEF Numbered
<1>2. ASSUME UNCHANGED <<kind, out, runs>>, kind \notin Checks PROVE Numbered'
  BY <1>2 DEF Numbered
<1>3. ASSUME NEW stage \in {"coverage", "forbidden", "gateway"}, at = stage,
             UNCHANGED <<kind, out, runs>>, kind \in Checks,
             \/ at' = Follows(stage) /\ exit' = exit
             \/ at' = "idle" /\ exit' = "fail"
      PROVE  Numbered'
  <2>0. stage \in Stages \ {"write forbidden", "write gateway", "gate"} /\ at # "idle"
    BY <1>3 DEF Stages
  <2>1. \A r \in Reports : out[r] # runs
    <3>1. WrittenBefore(at) = {}
      BY <1>3, <2>0, WrittenInOrder
    <3> QED BY <1>3, <2>0, <3>1 DEF Numbered
  <2>2. \A r \in Reports : out'[r] <= runs' /\ out'[r] # runs'
    BY <1>3, <2>1 DEF Numbered
  <2>3. CASE at' = Follows(stage) /\ exit' = exit
    <3>1. at' \in {"forbidden", "gateway", "write coverage"}
      BY <1>3, <2>3, StageOrder
    <3>2. WrittenBefore(at') = {}
      BY <3>1, WrittenInOrder DEF Stages
    <3>3. exit' # "pass" /\ exit' # "fail"
      BY <1>0, <2>0, <2>3
    <3> QED BY <2>2, <3>2, <3>3 DEF Numbered
  <2>4. CASE at' = "idle" /\ exit' = "fail"
    BY <2>2, <2>4 DEF Numbered
  <2> QED BY <1>3, <2>3, <2>4
<1>4. ASSUME NEW stage \in {"dependencies", "coverage", "forbidden", "gateway"}, at = stage,
             UNCHANGED <<kind, out, runs>>,
             \/ at' = Follows(stage) /\ exit' = exit
             \/ at' = "idle" /\ exit' = "fail"
      PROVE  Numbered'
  <2>1. stage = "dependencies" => kind \notin Checks
    BY <1>4 DEF Accounted, Placed, Checks, Testing, Writing
  <2> QED BY <1>2, <1>3, <1>4, <2>1
<1>5. CASE Dependencies \/ Coverage \/ Forbidden \/ Gateway
  <2>1. PICK stage \in {"dependencies", "coverage", "forbidden", "gateway"} :
          /\ at = stage
          /\ UNCHANGED <<kind, out, runs>>
          /\ \/ at' = Follows(stage) /\ exit' = IF at' = "idle" THEN "pass" ELSE exit
             \/ at' = "idle" /\ exit' = "fail"
    <3>1. ASSUME NEW stage, NEW accepted, NEW report, Attempt(stage, accepted, report)
          PROVE  /\ at = stage
                 /\ \/ at' = Follows(stage) /\ exit' = IF at' = "idle" THEN "pass" ELSE exit
                    \/ at' = "idle" /\ exit' = "fail"
      <4>1. CASE accepted
        BY <3>1, <4>1 DEF Attempt
      <4>2. CASE ~accepted
        BY <3>1, <4>2 DEF Attempt
      <4> QED BY <4>1, <4>2
    <3>2. CASE Dependencies
      BY <3>1, <3>2 DEF Dependencies
    <3>3. CASE Coverage
      BY <3>1, <3>3 DEF Coverage
    <3>4. CASE Forbidden
      BY <3>1, <3>4 DEF Forbidden
    <3>5. CASE Gateway
      BY <3>1, <3>5 DEF Gateway
    <3> QED BY <1>5, <3>2, <3>3, <3>4, <3>5
  <2>2. Follows(stage) # "idle"
    BY <2>1, StageOrder
  <2>3. \/ at' = Follows(stage) /\ exit' = exit
        \/ at' = "idle" /\ exit' = "fail"
    BY <2>1, <2>2
  <2> QED BY <1>4, <2>1, <2>3
<1>6. ASSUME NEW stage \in Stages, NEW report \in Reports, NEW next \in Stages,
             Write(stage, report, next), next # "idle", stage # "idle",
             \A r \in Reports : r \in WrittenBefore(next)
                                  <=> r = report \/ r \in WrittenBefore(stage)
      PROVE  Numbered'
  <2>1. /\ at = stage /\ at' = next /\ out' = [out EXCEPT ![report] = runs]
        /\ UNCHANGED <<kind, exit, runs>>
    BY <1>6 DEF Write
  <2>2. \A r \in Reports : out'[r] = IF r = report THEN runs ELSE out[r]
    BY <1>t, <2>1
  <2>3. exit' # "pass" /\ exit' # "fail"
    BY <1>0, <1>6, <2>1
  <2>4. ASSUME NEW r \in Reports PROVE out'[r] <= runs'
    <3>1. out[r] \in Nat /\ out[r] <= runs
      BY <1>t DEF Numbered
    <3> QED BY <1>t, <2>1, <2>2, <3>1
  <2>5. ASSUME kind' \in Checks, NEW r \in Reports
        PROVE  out'[r] = runs' <=> r \in WrittenBefore(at')
    <3>1. out[r] = runs <=> r \in WrittenBefore(stage)
      BY <1>6, <2>1, <2>5 DEF Numbered
    <3>2. r \in WrittenBefore(at') <=> r = report \/ r \in WrittenBefore(stage)
      BY <1>6, <2>1
    <3> QED BY <2>1, <2>2, <3>1, <3>2
  <2> QED BY <2>3, <2>4, <2>5 DEF Numbered
<1>7. CASE Publish
  <2>1. /\ "write coverage" \in Stages /\ "write forbidden" \in Stages
        /\ "write gateway" \in Stages /\ "gate" \in Stages
    BY DEF Stages
  <2>2. "coverage" \in Reports /\ "forbidden" \in Reports /\ "gateway" \in Reports
    BY DEF Reports
  <2>3. CASE Write("write coverage", "coverage", "write forbidden")
    <3>1. WrittenBefore("write coverage") = {}
      BY <2>1, WrittenInOrder
    <3>2. \A r \in Reports : r \in WrittenBefore("write forbidden")
                               <=> r = "coverage" \/ r \in WrittenBefore("write coverage")
      BY <3>1, WrittenInOrder
    <3> QED BY <1>6, <2>1, <2>2, <2>3, <3>2
  <2>4. CASE Write("write forbidden", "forbidden", "write gateway")
    <3>1. \A r \in Reports : r \in WrittenBefore("write gateway")
                               <=> r = "forbidden" \/ r \in WrittenBefore("write forbidden")
      BY WrittenInOrder
    <3> QED BY <1>6, <2>1, <2>2, <2>4, <3>1
  <2>5. CASE Write("write gateway", "gateway", "gate")
    <3>1. \A r \in Reports : r \in WrittenBefore("gate")
                               <=> r = "gateway" \/ r \in WrittenBefore("write gateway")
      BY WrittenInOrder
    <3> QED BY <1>6, <2>1, <2>2, <2>5, <3>1
  <2> QED BY <1>7, <2>3, <2>4, <2>5 DEF Publish
<1>8. CASE Gate
  <2>1. UNCHANGED <<kind, out, runs>> /\ at = "gate" /\ exit' \in {exit, "pass", "fail"}
    BY <1>8 DEF Gate, Attempt
  <2>2. CASE kind \in Checks
    <3>1. \A r \in Reports : out[r] = runs
      BY <2>1, <2>2, WrittenInOrder DEF Numbered
    <3>2. at' = "idle"
      BY <1>8, <2>2, StageOrder DEF Gate, Attempt
    <3> QED BY <2>1, <3>1, <3>2 DEF Numbered
  <2> QED BY <1>2, <2>1, <2>2
<1>9. CASE Fetch \/ Compare \/ Collect \/ LiveTests \/ UnitTests
  <2>1. UNCHANGED <<kind, out, runs>> /\ at \in {"fetch", "compare"} \cup Testing
    BY <1>9 DEF Fetch, Compare, Collect, LiveTests, UnitTests, Testing
  <2>2. kind \notin Checks
    BY <2>1 DEF Accounted, Placed, Checks, Testing, Writing
  <2> QED BY <1>2, <2>1, <2>2
<1>10. CASE Fault \/ Kill
  BY <1>10 DEF Fault, Kill, Breaks, Numbered
<1>11. CASE UNCHANGED <<kind, at, exit, out, runs>>
  BY <1>11 DEF Numbered
<1>12. CASE Deploy \/ RefreshFetch \/ RefreshOpen \/ RefreshWrite \/ RefreshDies
  BY <1>11, <1>12 DEF Deploy, RefreshFetch, RefreshOpen, RefreshWrite, RefreshDies, command
<1>13. CASE UNCHANGED vars
  BY <1>11, <1>13 DEF vars
<1> QED BY <1>1, <1>5, <1>7, <1>8, <1>9, <1>10, <1>12, <1>13 DEF Next

\* PublishedTogether: a coverage command that is refused, at a report or at
\* the gate, never leaves some of its reports among those of another.
THEOREM ReportsTogether == Spec => []PublishedTogether
<1>1. Init => Numbered
  BY DEF Init, Numbered, Reports, Checks
<1>2. LocalRunTypeOK /\ Followed /\ Numbered /\ [Next]_vars => Numbered'
  BY NumberedKept DEF Followed
<1>3. Numbered => PublishedTogether
  <2> SUFFICES ASSUME Numbered PROVE PublishedTogether
    OBVIOUS
  <2> DEFINE written == {r \in Reports : out[r] = runs}
  <2>1. exit = "pass" /\ kind \in Checks => written = Reports
    BY DEF Numbered
  <2>2. exit = "fail" /\ kind \in Checks => written \in {{}, Reports}
    BY DEF Numbered
  <2> QED BY <2>1, <2>2 DEF PublishedTogether
<1> QED BY <1>1, <1>2, <1>3, FollowedAlways, PTL DEF Spec
=============================================================================
