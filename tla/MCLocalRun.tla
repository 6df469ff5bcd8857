----------------------------- MODULE MCLocalRun -----------------------------
(***************************************************************************)
(* LocalRun on a contract of two or three operations, A, the admin's B and *)
(* a new C, and a Session Gateway of two public operations and an internal *)
(* route.  The repositories are a reviewed one, one that is ahead of the   *)
(* served contract, and each of them with one thing out of order, at least *)
(* one for every way a gate can refuse.                                    *)
(***************************************************************************)
EXTENDS LocalRun

CONSTANTS A, B, C, Logout, User,             \* operation ids
          RA, RB, RC, ROdd, RTwice, RLogout, RUser, RInternal,  \* routes
          C1, C2, C3, C4, Z, X, Y            \* cases, a stray id, parameter names

MCPlaceholders ==
    [r \in {RA, RB, RC, ROdd, RTwice, RLogout, RUser, RInternal} |->
        IF r = RB THEN <<X>> ELSE IF r = RTwice THEN <<X, X>> ELSE <<>>]

Denials == [s \in {"401", "403"} |-> "schema"]
With(f, key, value) == [k \in DOMAIN f \cup {key} |-> IF k = key THEN value ELSE f[k]]
Without(f, key) == [k \in DOMAIN f \ {key} |-> f[k]]

Op(id) == [id |-> id, responses |-> Denials, parameters |-> <<>>, body |-> "none"]
Param(name) == [name |-> name, required |-> TRUE, value |-> "example"]
OpB == [Op(B) EXCEPT !.parameters = <<Param(X)>>]

OldPaths == [r \in {RA, RB} |-> IF r = RA THEN Op(A) ELSE OpB]
Doc(paths) == [info |-> "v1", paths |-> paths, schemas |-> [s \in {"Error"} |-> "v1"]]

Old == Doc(OldPaths)
New == Doc(With(OldPaths, RC, Op(C)))
Renamed == [Old EXCEPT !.info = "v2"]         \* no drift

\* what may be served, or checked in, besides Old, New and Renamed
OddDocuments ==
    {[Old EXCEPT !.schemas["Error"] = "v2"],
     [Old EXCEPT !.schemas = With(Old.schemas, "Money", "v1")],
     [Old EXCEPT !.paths[RA].body = "json"],
     [Old EXCEPT !.paths[RA].responses = Without(Denials, "403")],
     [Old EXCEPT !.paths[RA].responses["401"] = "bare"],
     [Old EXCEPT !.paths[RB].parameters = <<>>],              \* {x} not declared
     [Old EXCEPT !.paths[RB].parameters = <<Param(X), Param(X)>>],
     [Old EXCEPT !.paths[RB].parameters = <<Param(X), Param(Y)>>],
     [Old EXCEPT !.paths[RB].parameters[1].required = FALSE],
     [Old EXCEPT !.paths[RB].parameters[1].value = "unsupported"],
     Doc(With(OldPaths, RC, Op(NoId))),
     Doc(With(OldPaths, RC, Op(BlankId))),
     Doc(With(OldPaths, RC, Op(A))),                          \* an id twice
     Doc(With(Without(OldPaths, RB), RC, Op(B))),             \* B has moved
     Doc(With(Without(OldPaths, RA), ROdd, Op(A))),
     Doc(With(Without(OldPaths, RB), RTwice, OpB))}

MCDocuments == {Old, New, Renamed} \cup OddDocuments

-----------------------------------------------------------------------------
Test(openapi, forbidden, cases) ==
    [openapi |-> openapi, forbidden |-> forbidden, cases |-> cases,
     placeholder |-> FALSE, malformed |-> {}]
Tests ==
    {Test({<<"unified", A>>}, {A}, {}),
     Test({<<"session_gateway", Logout>>}, {}, {C1}),
     Test({<<"session_gateway", User>>}, {}, {C2})}
Line(id, route) == [id |-> id, route |-> route]

Case(id, status, notes) == [id |-> id, status |-> status, notes |-> notes, proof |-> FALSE]
Inventory ==
    <<[id |-> Logout, route |-> RLogout, exposure |-> "public",
       cases |-> <<Case(C1, "covered", {})>>],
      [id |-> User, route |-> RUser, exposure |-> "public",
       cases |-> <<Case(C2, "covered", {}), Case(C3, "deferred", {"reason", "prerequisite"})>>],
      [id |-> NoId, route |-> RInternal, exposure |-> "mesh_internal",
       cases |-> <<[Case(C4, "untestable", {"reason", "boundary"}) EXCEPT !.proof = TRUE]>>]>>

GatewayDoc ==
    Doc([r \in {RLogout, RUser} |->
           IF r = RLogout THEN [Op(Logout) EXCEPT !.responses = [s \in {"302"} |-> "location"]]
           ELSE [Op(User) EXCEPT !.responses = [s \in {"200"} |-> "schema"]]])

Good ==
    [environment |-> "exact", lockstep |-> TRUE, admin |-> <<Line(B, RB)>>,
     forbidden |-> <<Line(B, RB)>>, tests |-> Tests, gateway |-> GatewayDoc,
     inventory |-> Inventory]
Ahead == [Good EXCEPT !.tests = Tests \cup {Test({<<"unified", C>>}, {C}, {})}]

Adding(test) == [Good EXCEPT !.tests = Tests \cup {test}]
Placeholder(test) == [test EXCEPT !.placeholder = TRUE]

OddTests ==
    {Adding(Test({<<"unified", Z>>}, {}, {})),                \* no such operation
     Adding(Test({<<"session_gateway", A>>}, {}, {})),        \* the other contract
     Adding(Test({}, {Z}, {})), Adding(Test({}, {B}, {})),    \* B is deferred as well
     Adding(Placeholder(Test({}, {B}, {}))),
     Adding(Placeholder(Test({<<"unified", B>>}, {A}, {}))),  \* harmless
     Adding(Test({}, {}, {Z})), Adding(Test({}, {}, {C3}))}   \* unknown, not covered
    \cup {Adding([Test({}, {}, {}) EXCEPT !.malformed = {k}]) : k \in {"openapi", "forbidden", "cases"}}
    \cup {[Good EXCEPT !.tests = {Test({}, {A}, {}),
             Placeholder(Test({<<"unified", A>>}, {}, {}))} \cup {t \in Tests : t.cases # {}}],
          [Good EXCEPT !.tests = {[t EXCEPT !.openapi = {}] : t \in Tests}],
          [Good EXCEPT !.tests = {[t EXCEPT !.cases = {}] : t \in Tests}],
          [Good EXCEPT !.tests = {[t EXCEPT !.forbidden = {}] : t \in Tests}]}

OddManifests ==
    {[Good EXCEPT !.admin = m] : m \in {Unreadable, <<>>, <<Line(B, RA)>>, <<Line(Z, RB)>>,
                                         <<Line(B, RB), Line(B, RB)>>}}
    \cup {[Good EXCEPT !.forbidden = m] : m \in {Unreadable, <<>>, <<Line(B, RA)>>,
             <<Line(B, RB), Line(A, RA)>>, <<Line(B, RB), Line(B, RB)>>}}

OddInventories ==
    {[Good EXCEPT !.inventory = i] : i \in
       {Unreadable, <<>>, SubSeq(Inventory, 1, 1), Inventory \o <<Inventory[3]>>,
        [Inventory EXCEPT ![1].route = RUser], [Inventory EXCEPT ![1].route = RA],
        [Inventory EXCEPT ![1].id = Z], [Inventory EXCEPT ![3].id = User],
        [Inventory EXCEPT ![1].exposure = "mesh_internal"],
        [Inventory EXCEPT ![3].cases = <<>>],
        [Inventory EXCEPT ![3].cases[1].id = C1],
        [Inventory EXCEPT ![2].cases[2].id = C2],
        [Inventory EXCEPT ![2].cases[2].notes = {"reason"}],
        [Inventory EXCEPT ![1].cases[1].proof = TRUE]}}

OddRepos ==
    {[Good EXCEPT !.environment = e] : e \in {"other", "broken"}}
    \cup {[Good EXCEPT !.lockstep = FALSE]}
    \cup {[Good EXCEPT !.gateway.paths[RLogout].responses = r] : r \in
            {[s \in {"200"} |-> "schema"], [s \in {"302"} |-> "bare"],
             [s \in {"302", "200"} |-> "location"]}}
    \cup {[Good EXCEPT !.gateway.paths[RLogout].id = Z]}
    \cup OddTests \cup OddManifests \cup OddInventories

MCRepos == {Good, Ahead} \cup OddRepos

\* The bound on the states: all that happens around the commands happens to
\* a repository in order and to the documents Old, New and Renamed; every odd document
\* and odd repository is judged, alone, by a first command of each kind.
Around == \/ refresh.at # "idle" \/ since # {} \/ runs = 2

Interesting ==
    /\ repo \notin {Good, Ahead} => {snapshot, live} = {Old} /\ ~Around
    /\ {snapshot, live} \cap OddDocuments # {} => repo = Good /\ ~Around
=============================================================================
