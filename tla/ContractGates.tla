---------------------------- MODULE ContractGates ----------------------------
(***************************************************************************)
(* The gates a full local regression must pass before a test may start:    *)
(* what coverage.py, openapi.py, session_gateway_inventory.py and          *)
(* openapi_drift.py accept of the files of the repository (record repo),   *)
(* of an OpenAPI document and of the document the gateway serves.  Each    *)
(* raises an exception in the code; here each is a predicate.              *)
(*                                                                         *)
(* A document is Unreadable or a record [info, paths, schemas].  paths     *)
(* maps a route (an HTTP method with a path) to its operation: id,         *)
(* responses (from a status to "bare", "schema" or "location", the content *)
(* it documents), parameters (the path parameters, in order) and body.     *)
(* A manifest is Unreadable or a sequence of [id, route] lines; a test is  *)
(* the markers of one test function, and two tests that carry the same     *)
(* markers are one, since no gate looks past the counts none / only        *)
(* placeholders / some other.                                              *)
(***************************************************************************)
EXTENDS Integers, Sequences, FiniteSets

CONSTANTS Placeholders,  \* Placeholders[r]: the {names} of the path of route r, in order
          OddRoutes,     \* routes whose path has an unbalanced or unsupported brace
          LogoutId, LogoutRoute,  \* "logout" and GET /logout
          NoId,          \* an operation that is no object or has no operationId
          BlankId,       \* an operationId of white space only
          Unreadable     \* a file that does not parse, or has not the expected shape

Lines(s) == {s[i] : i \in DOMAIN s}
Injective(f) == \A i, j \in DOMAIN f : f[i] = f[j] => i = j

-----------------------------------------------------------------------------
(* OpenAPI documents: openapi.py *)

\* an OpenAPI operation without an id, or two with one id, is an error
ValidEntries(doc) ==
    /\ doc # Unreadable
    /\ \A r \in DOMAIN doc.paths : doc.paths[r].id \notin {NoId, BlankId}
    /\ Injective([r \in DOMAIN doc.paths |-> doc.paths[r].id])

Operations(doc) == {[id |-> doc.paths[r].id, route |-> r] : r \in DOMAIN doc.paths}

OperationIds(doc) == {op.id : op \in Operations(doc)}

OperationsDocumenting(doc, status) ==
    {op \in Operations(doc) : status \in DOMAIN doc.paths[op.route].responses}

\* every {name} of the path is declared once, required, and has a value;
\* no other path parameter is declared
PathMaterializes(route, parameters) ==
    /\ route \notin OddRoutes
    /\ Injective(Placeholders[route])
    /\ Injective([i \in DOMAIN parameters |-> parameters[i].name])
    /\ {p.name : p \in Lines(parameters)} = Lines(Placeholders[route])
    /\ \A p \in Lines(parameters) : p.required /\ p.value # "unsupported"

\* the 401 and 403 responses every operation must describe in JSON
HasJsonSchema(operation, status) ==
    status \in DOMAIN operation.responses /\ operation.responses[status] = "schema"

RequestCasesBuild(doc) ==
    /\ ValidEntries(doc)
    /\ \A r \in DOMAIN doc.paths :
         /\ \A status \in {"401", "403"} : HasJsonSchema(doc.paths[r], status)
         /\ PathMaterializes(r, doc.paths[r].parameters)

-----------------------------------------------------------------------------
(* Markers in the sources of the tests: coverage.py *)

\* the AST scan raises on a malformed marker of the kind it looks for
MarkersReadable(tests, kind) == \A t \in tests : kind \notin t.malformed

Marked(tests, kind) == UNION {t[kind] : t \in tests}

\* only the placeholder decorator of the function itself is seen
Executable(tests, kind) == UNION {t[kind] : t \in {u \in tests : ~u.placeholder}}

InContract(tests, contract) == {k \in Marked(tests, "openapi") : k[1] = contract}

\* the review of a manifest: no id twice, no line the document has moved past
ManifestFits(manifest, operations) ==
    /\ Injective([i \in DOMAIN manifest |-> manifest[i].id])
    /\ \A line \in Lines(manifest) : line \in operations

DeferredIds(manifest) == {line.id : line \in Lines(manifest)}

OperationsAccepted(contract, doc, manifest, tests) ==
    /\ ValidEntries(doc)
    /\ \A k \in InContract(tests, contract) : k[2] \in OperationIds(doc)
    /\ ManifestFits(manifest, Operations(doc))

StatusOf(contract, id, manifest, tests) ==
    IF id \in DeferredIds(manifest) THEN "deferred"
    ELSE IF <<contract, id>> \notin Marked(tests, "openapi") THEN "missing"
    ELSE IF <<contract, id>> \notin Executable(tests, "openapi") THEN "placeholder"
    ELSE "covered"

WithStatus(statuses, contract, doc, manifest, tests) ==
    {id \in OperationIds(doc) : StatusOf(contract, id, manifest, tests) \in statuses}

\* Mutant of ForbiddenAccepted: a deferral may stay when its test is there.
ForbiddenAcceptedTwice(doc, manifest, tests) ==
    LET documented == OperationsDocumenting(doc, "403")
        executed   == Executable(tests, "forbidden")
    IN  /\ Marked(tests, "forbidden") \subseteq executed
        /\ ManifestFits(manifest, documented)
        /\ {op.id : op \in documented} \subseteq executed \cup DeferredIds(manifest)

\* every documented 403 is either executed by a test or deferred, not both
ForbiddenAccepted(doc, manifest, tests) ==
    LET documented == OperationsDocumenting(doc, "403")
        ids        == {op.id : op \in documented}
        executed   == Executable(tests, "forbidden")
        deferred   == DeferredIds(manifest)
    IN  /\ Marked(tests, "forbidden") \subseteq ids
        /\ Marked(tests, "forbidden") \subseteq executed
        /\ ManifestFits(manifest, documented)
        /\ executed \cap deferred = {}
        /\ ids \subseteq executed \cup deferred

-----------------------------------------------------------------------------
(* The Session Gateway contract and inventory: session_gateway_inventory.py *)

LogoutReviewed(doc) ==
    /\ ValidEntries(doc)
    /\ [id |-> LogoutId, route |-> LogoutRoute] \in Operations(doc)
    /\ LET responses == doc.paths[LogoutRoute].responses
       IN  /\ "302" \in DOMAIN responses /\ responses["302"] = "location"
           /\ "200" \notin DOMAIN responses

\* which explanations a case carries follows from its status
ClassificationValid(case) ==
    /\ \/ case.status = "covered" /\ case.notes = {}
       \/ case.status = "deferred" /\ case.notes = {"reason", "prerequisite"}
       \/ case.status = "untestable" /\ case.notes = {"reason", "boundary"}
    /\ case.proof => case.status = "untestable"

Cases(inventory) == UNION {Lines(route.cases) : route \in Lines(inventory)}

\* a route has a case, and a case id is used once in the whole file
InventoryLoads(inventory) ==
    /\ inventory # Unreadable
    /\ \A i \in DOMAIN inventory :
         /\ inventory[i].cases # <<>>
         /\ \A case \in Lines(inventory[i].cases) : ClassificationValid(case)
         /\ Injective([k \in DOMAIN inventory[i].cases |-> inventory[i].cases[k].id])
    /\ \A i, j \in DOMAIN inventory : i # j =>
         \A c \in Lines(inventory[i].cases), d \in Lines(inventory[j].cases) : c.id # d.id

InventoryAccepted(inventory, doc, tests) ==
    LET owned == {i \in DOMAIN inventory : inventory[i].id # NoId}
    IN  /\ \A id \in Marked(tests, "cases") :
             \E case \in Cases(inventory) : case.id = id /\ case.status = "covered"
        /\ Injective([i \in DOMAIN inventory |-> inventory[i].route])
        /\ \A i \in owned :
             [id |-> inventory[i].id, route |-> inventory[i].route] \in Operations(doc)
        /\ Injective([i \in owned |-> inventory[i].id])
        /\ \A route \in Lines(inventory) : \A case \in Lines(route.cases) :
             case.status \in {"covered", "deferred"} => route.exposure = "public"
        /\ OperationIds(doc) \subseteq {inventory[i].id : i \in owned}

\* a placeholder counts here: the case markers are not asked for it
UncoveredCases(inventory, tests) ==
    {case \in Cases(inventory) :
        case.status = "covered" /\ case.id \notin Marked(tests, "cases")}

-----------------------------------------------------------------------------
(* The three reports: tools/openapi_coverage.py *)

CoverageBuilds(repo, doc) ==
    /\ repo.environment # "broken"
    /\ repo.admin # Unreadable /\ repo.forbidden # Unreadable
    /\ MarkersReadable(repo.tests, "openapi") /\ MarkersReadable(repo.tests, "forbidden")
    /\ RequestCasesBuild(doc)
    /\ ForbiddenAccepted(doc, repo.forbidden, repo.tests)
    /\ OperationsAccepted("unified", doc, repo.admin, repo.tests)
    /\ LogoutReviewed(repo.gateway)
    /\ OperationsAccepted("session_gateway", repo.gateway, <<>>, repo.tests)

ForbiddenBuilds(repo, doc) ==
    /\ repo.environment # "broken"
    /\ repo.forbidden # Unreadable
    /\ MarkersReadable(repo.tests, "forbidden")
    /\ RequestCasesBuild(doc)
    /\ ForbiddenAccepted(doc, repo.forbidden, repo.tests)

\* and build_session_gateway_coverage_report, which needs a scenario
GatewayBuilds(repo) ==
    /\ LogoutReviewed(repo.gateway)
    /\ InventoryLoads(repo.inventory)
    /\ MarkersReadable(repo.tests, "cases")
    /\ InventoryAccepted(repo.inventory, repo.gateway, repo.tests)
    /\ Cases(repo.inventory) # {}

\* the ids that make the runner and the coverage command exit with 1
Gaps(repo, doc) ==
    LET open == {"missing", "placeholder"}
    IN  WithStatus(open, "unified", doc, repo.admin, repo.tests)
        \cup WithStatus(open, "session_gateway", repo.gateway, <<>>, repo.tests)
        \cup {case.id : case \in UncoveredCases(repo.inventory, repo.tests)}

-----------------------------------------------------------------------------
(* Drift of the served contract: openapi_drift.py *)

\* unlike openapi.py it takes a blank operationId for an id
Comparable(doc) ==
    /\ doc # Unreadable
    /\ \A r \in DOMAIN doc.paths : doc.paths[r].id # NoId
    /\ Injective([r \in DOMAIN doc.paths |-> doc.paths[r].id])

\* the contract of an operation: its route and all the document says of it
ContractOf(doc, id) ==
    LET r == CHOOSE r \in DOMAIN doc.paths : doc.paths[r].id = id
    IN  [route |-> r, says |-> doc.paths[r]]

\* the keys of one document the other lacks, and those they disagree about;
\* the info of a document is not part of its contract
Differences(baseline, live) ==
    LET old == OperationIds(baseline)
        new == OperationIds(live)
        had == DOMAIN baseline.schemas
        has == DOMAIN live.schemas
    IN  ((old \ new) \cup (new \ old)
          \cup {id \in old \cap new : ContractOf(baseline, id) # ContractOf(live, id)})
        \cup ((had \ has) \cup (has \ had)
          \cup {s \in had \cap has : baseline.schemas[s] # live.schemas[s]})

-----------------------------------------------------------------------------
(* What the gates are for, said of the files and not of the steps. *)

ExactlyOne(p, q) == (p \/ q) /\ ~(p /\ q)

\* each operation of the document: has a request that can be built, its 403
\* is executed or deferred, and a test executes it or its deferral is on file
OperationReviewed(repo, doc, op) ==
    LET operation == doc.paths[op.route]
    IN  /\ PathMaterializes(op.route, operation.parameters)
        /\ \A status \in {"401", "403"} : HasJsonSchema(operation, status)
        /\ ExactlyOne(op.id \in Executable(repo.tests, "forbidden"), op \in Lines(repo.forbidden))
        /\ op \in Lines(repo.admin) \/ <<"unified", op.id>> \in Executable(repo.tests, "openapi")

\* each operation of the Session Gateway: executed, in the inventory, in its place
GatewayOperationReviewed(repo, op) ==
    /\ <<"session_gateway", op.id>> \in Executable(repo.tests, "openapi")
    /\ \E route \in Lines(repo.inventory) : route.id = op.id /\ route.route = op.route

\* nothing on file points at what is no longer there
NothingStale(repo, doc) ==
    /\ Lines(repo.admin) \cup Lines(repo.forbidden) \subseteq Operations(doc)
    /\ \A t \in repo.tests :
         /\ t.forbidden \subseteq OperationIds(doc)
         /\ \A k \in t.openapi :
              /\ k[1] = "unified" => k[2] \in OperationIds(doc)
              /\ k[1] = "session_gateway" => k[2] \in OperationIds(repo.gateway)
         /\ \A id \in t.cases :
              \E case \in Cases(repo.inventory) : case.id = id /\ case.status = "covered"
    /\ \A route \in Lines(repo.inventory) :
         route.id # NoId => [id |-> route.id, route |-> route.route] \in Operations(repo.gateway)

Reviewed(repo, doc) ==
    /\ \A op \in Operations(doc) : OperationReviewed(repo, doc, op)
    /\ \A op \in Operations(repo.gateway) : GatewayOperationReviewed(repo, op)
    /\ NothingStale(repo, doc)
    /\ \A case \in Cases(repo.inventory) :
         case.status = "covered" => \E t \in repo.tests : case.id \in t.cases
=============================================================================
