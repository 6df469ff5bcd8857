------------------------------- MODULE LocalRun -------------------------------
(***************************************************************************)
(* One working copy: ./run-tests (local_runner.py), full or with pytest    *)
(* arguments, and tools/check-openapi-coverage.py against the snapshot or  *)
(* the served document, one after the other, while a developer may run     *)
(* tools/refresh-openapi.py and the services may be deployed again.        *)
(*                                                                         *)
(* The runner reads schemas/openapi.json at five moments: for the          *)
(* coverage, for the 403 report, for the comparison, when pytest collects  *)
(* and in the unit tests.  refresh_main truncates and rewrites it at any   *)
(* moment in between.  The other files of the repository do not change     *)
(* here (variable repo): nothing in the program writes them.               *)
(***************************************************************************)
EXTENDS ContractGates

CONSTANTS Repos,       \* the contents of the repository but for schemas/openapi.json
          Documents,   \* the documents the gateway may serve
          Kinds,       \* the commands that are run
          MaxRuns,     \* bound: commands
          MaxDeploys   \* bound: changes of the served document

ASSUME RunBounds ==
    /\ MaxRuns \in Nat /\ MaxDeploys \in Nat
    /\ Kinds \subseteq {"full", "partial", "redirected", "offline", "online"}

VARIABLES repo, snapshot, live,
          refresh,     \* refresh_main: [at, doc], doc the document it has fetched
          kind, at,    \* the command and its stage, "idle" when there is none
          judged,      \* the document build_coverage made its rows from
          seen,        \* the live document a full run compares
          failed,      \* a test of this pytest session has failed
          exit,        \* how the last command ended; "fault" and "fail" are both exit 1
          artifacts,   \* what is in artifacts/runs/<run>
          out,         \* artifacts/<report>.json: the number of the command that wrote it
          since,       \* "refresh", "deploy": what happened since the command began
          runs, deploys

vars == <<repo, snapshot, live, refresh, kind, at, judged, seen, failed, exit,
          artifacts, out, since, runs, deploys>>

files == <<repo, snapshot, live, refresh, deploys>>

Reports == {"coverage", "forbidden", "gateway"}
Checks  == {"offline", "online"}
Testing == {"collect", "live", "unit"}

\* the order of the steps of each command
FullOrder ==
    [dependencies |-> "coverage", coverage |-> "forbidden", forbidden |-> "gateway",
     gateway |-> "gate", gate |-> "fetch", fetch |-> "compare", compare |-> "collect",
     collect |-> "live", live |-> "unit", unit |-> "idle"]

\* Mutant of CheckOrder: no report is written on the way to the gate.
CheckOrderUnwritten == [FullOrder EXCEPT !.gate = "idle"]

CheckOrder == [FullOrder EXCEPT !.gateway = "write coverage", !.gate = "idle"]

Follows(stage) == IF kind \in Checks THEN CheckOrder[stage] ELSE FullOrder[stage]

Stages == {"idle", "dependencies", "coverage", "forbidden", "gateway", "gate", "fetch",
           "compare", "write coverage", "write forbidden", "write gateway"} \cup Testing

LocalRunTypeOK ==
    /\ repo \in Repos /\ live \in Documents
    /\ {snapshot, judged, seen} \subseteq Documents \cup {Unreadable}
    /\ refresh \in [at : {"idle", "fetched", "truncated"}, doc : Documents \cup {Unreadable}]
    /\ kind \in Kinds \cup {"none"} /\ at \in Stages
    /\ failed \in BOOLEAN
    /\ exit \in {"none", "pass", "fail", "stop", "fault", "killed"}
    /\ artifacts \subseteq Reports \cup {"dependencies", "match", "different", "junit"}
    /\ out \in [Reports -> 0..MaxRuns]
    /\ since \subseteq {"refresh", "deploy"}
    /\ runs \in 0..MaxRuns /\ deploys \in 0..MaxDeploys

Init ==
    /\ repo \in Repos
    /\ snapshot \in Documents /\ live \in Documents
    /\ refresh = [at |-> "idle", doc |-> Unreadable]
    /\ kind = "none" /\ at = "idle" /\ exit = "none"
    /\ judged = Unreadable /\ seen = Unreadable
    /\ failed = FALSE
    /\ artifacts = {}
    /\ out = [r \in Reports |-> 0]
    /\ since = {}
    /\ runs = 0 /\ deploys = 0

-----------------------------------------------------------------------------
(* The commands *)

\* run-tests refuses --env ("redirected") and any target but the exact local one
Refused(k) ==
    k = "redirected" \/ (k \in {"full", "partial"} /\ repo.environment # "exact")

FirstStage(k) ==
    IF Refused(k) THEN "idle"
    ELSE IF k = "full" THEN "dependencies"
    ELSE IF k = "partial" THEN "collect"
    ELSE "coverage"

Start(k) ==
    /\ at = "idle" /\ runs < MaxRuns
    /\ runs' = runs + 1
    /\ kind' = k
    /\ at' = FirstStage(k)
    /\ exit' = IF Refused(k) THEN "stop" ELSE "none"
    /\ judged' = Unreadable /\ seen' = Unreadable /\ failed' = FALSE
    /\ artifacts' = {} /\ since' = {}
    /\ UNCHANGED <<files, out>>

\* a stage that accepts goes on and leaves its report in the directory of a
\* full run; one that raises ends the command with 1
Attempt(stage, accepted, report) ==
    /\ at = stage
    /\ at' = IF accepted THEN Follows(stage) ELSE "idle"
    /\ exit' = IF ~accepted THEN "fail" ELSE IF at' = "idle" THEN "pass" ELSE exit
    /\ artifacts' = IF accepted /\ kind = "full" THEN artifacts \cup report ELSE artifacts

Dependencies ==
    /\ Attempt("dependencies", repo.lockstep, {"dependencies"})
    /\ UNCHANGED <<files, kind, judged, seen, failed, out, since, runs>>

\* a live source is fetched anew by each report that needs the document
Source == IF kind = "online" THEN live ELSE snapshot

Coverage ==
    /\ Attempt("coverage", CoverageBuilds(repo, Source), {"coverage"})
    /\ judged' = Source
    /\ UNCHANGED <<files, kind, seen, failed, out, since, runs>>

Forbidden ==
    /\ Attempt("forbidden", ForbiddenBuilds(repo, Source), {"forbidden"})
    /\ UNCHANGED <<files, kind, judged, seen, failed, out, since, runs>>

Gateway ==
    /\ Attempt("gateway", GatewayBuilds(repo), {"gateway"})
    /\ UNCHANGED <<files, kind, judged, seen, failed, out, since, runs>>

\* the coverage command writes its three reports after all three are built
Write(stage, report, next) ==
    /\ at = stage
    /\ out' = [out EXCEPT ![report] = runs]
    /\ at' = next
    /\ UNCHANGED <<files, kind, judged, seen, failed, exit, artifacts, since, runs>>

Publish ==
    \/ Write("write coverage", "coverage", "write forbidden")
    \/ Write("write forbidden", "forbidden", "write gateway")
    \/ Write("write gateway", "gateway", "gate")

Gate ==
    /\ Attempt("gate", Gaps(repo, judged) = {}, {})
    /\ UNCHANGED <<files, kind, judged, seen, failed, out, since, runs>>

Fetch ==
    /\ at = "fetch"
    /\ seen' = live
    /\ at' = Follows(at)
    /\ UNCHANGED <<files, kind, judged, failed, exit, artifacts, out, since, runs>>

\* compare_openapi_documents, the drift report, and the decision it leads to
Verdict == IF Differences(snapshot, seen) = {} THEN "match" ELSE "different"

\* Mutant of Compare: a drift is reported, and the run goes on.
CompareOnly ==
    /\ at = "compare"
    /\ Comparable(snapshot) /\ Comparable(seen)
    /\ artifacts' = artifacts \cup {Verdict}
    /\ at' = Follows(at)
    /\ UNCHANGED <<files, kind, judged, seen, failed, exit, out, since, runs>>

Compare ==
    /\ at = "compare"
    /\ IF Comparable(snapshot) /\ Comparable(seen)
       THEN /\ artifacts' = artifacts \cup {Verdict}
            /\ at' = IF Verdict = "match" THEN Follows(at) ELSE "idle"
            /\ exit' = IF Verdict = "match" THEN exit ELSE "fail"
       ELSE at' = "idle" /\ exit' = "fail" /\ UNCHANGED artifacts
    /\ UNCHANGED <<files, kind, judged, seen, failed, out, since, runs>>

-----------------------------------------------------------------------------
(* pytest: it writes its report however it ends, unless it is killed *)

Finish(code) ==
    /\ at' = "idle"
    /\ exit' = code
    /\ artifacts' = artifacts \cup {"junit"}

GoOn == at' = Follows(at) /\ UNCHANGED <<exit, artifacts>>

\* tests/api/auth/test_edge_auth.py builds its request cases on import; a
\* selection of tests may leave it out
Collect ==
    /\ at = "collect"
    /\ \/ RequestCasesBuild(snapshot) /\ GoOn
       \/ ~RequestCasesBuild(snapshot) /\ Finish("stop")
       \/ kind = "partial" /\ GoOn
    /\ UNCHANGED <<files, kind, judged, seen, failed, out, since, runs>>

\* tests/api: any outcome, and pytest.exit(2) when the admin needs promotion
LiveTests ==
    /\ at = "live"
    /\ \/ GoOn /\ failed' \in BOOLEAN
       \/ Finish("stop") /\ UNCHANGED failed
    /\ UNCHANGED <<files, kind, judged, seen, out, since, runs>>

\* Mutant of UnitTestsAccept: the snapshot is not judged again.
UnitTestsRead(doc) == RequestCasesBuild(doc)

\* tests/unit judges the snapshot again, as it is now
UnitTestsAccept(doc) ==
    /\ RequestCasesBuild(doc)
    /\ OperationsAccepted("unified", doc, repo.admin, repo.tests)
    /\ WithStatus({"missing", "placeholder"}, "unified", doc, repo.admin, repo.tests) = {}
    /\ ForbiddenAccepted(doc, repo.forbidden, repo.tests)

UnitTests ==
    /\ at = "unit"
    /\ \E refused \in IF kind = "partial" THEN BOOLEAN ELSE {~UnitTestsAccept(snapshot)} :
         /\ failed' = (failed \/ refused)
         /\ Finish(IF failed' THEN "fail" ELSE "pass")
    /\ UNCHANGED <<files, kind, judged, seen, out, since, runs>>

-----------------------------------------------------------------------------
(* What else happens: an I/O error or a missing answer of the gateway, the  *)
(* end of the process, another deployment, a refresh of the snapshot.       *)

Breaks(code) ==
    /\ at # "idle"
    /\ at' = "idle" /\ exit' = code
    /\ UNCHANGED <<files, kind, judged, seen, failed, artifacts, out, since, runs>>

Fault == at # "gate" /\ Breaks("fault")
Kill  == Breaks("killed")

Deploy ==
    /\ deploys < MaxDeploys
    /\ deploys' = deploys + 1
    /\ live' \in Documents \ {live}
    /\ since' = since \cup {"deploy"}
    /\ UNCHANGED <<repo, snapshot, refresh, kind, at, judged, seen, failed, exit,
                   artifacts, out, runs>>

command == <<repo, live, kind, at, judged, seen, failed, exit, artifacts, out, runs, deploys>>

RefreshFetch ==
    /\ refresh.at = "idle" /\ repo.environment # "broken"
    /\ refresh' = [at |-> "fetched", doc |-> live]
    /\ UNCHANGED <<command, snapshot, since>>

\* write_text truncates the file before it writes it
RefreshOpen ==
    /\ refresh.at = "fetched"
    /\ refresh' = [refresh EXCEPT !.at = "truncated"]
    /\ snapshot' = Unreadable
    /\ since' = since \cup {"refresh"}
    /\ UNCHANGED command

RefreshWrite ==
    /\ refresh.at = "truncated"
    /\ snapshot' = refresh.doc
    /\ refresh' = [at |-> "idle", doc |-> Unreadable]
    /\ since' = since \cup {"refresh"}
    /\ UNCHANGED command

RefreshDies ==
    /\ refresh.at # "idle"
    /\ refresh' = [at |-> "idle", doc |-> Unreadable]
    /\ UNCHANGED <<command, snapshot, since>>

Next ==
    \/ \E k \in Kinds : Start(k)
    \/ Dependencies \/ Coverage \/ Forbidden \/ Gateway \/ Publish \/ Gate
    \/ Fetch \/ Compare \/ Collect \/ LiveTests \/ UnitTests
    \/ Fault \/ Kill \/ Deploy
    \/ RefreshFetch \/ RefreshOpen \/ RefreshWrite \/ RefreshDies

Spec == Init /\ [][Next]_vars

-----------------------------------------------------------------------------
\* When no refresh touched the snapshot meanwhile, the tests of a full run
\* start only against the exact local target, with the installed dependencies
\* in step, and with a served contract every operation of which is reviewed:
\* the three gates and the comparison together leave nothing out.
StartIsReviewed ==
    kind = "full" /\ at \in Testing /\ "refresh" \notin since =>
        /\ repo.environment = "exact" /\ repo.lockstep
        /\ Reviewed(repo, seen)

\* Green is never stale: a full run passes only when the contract it compared
\* is reviewed, even if the snapshot was rewritten, or torn, between any two
\* of the five reads, as long as the served contract stayed what it was; and
\* a coverage command passes only when the document of its rows is reviewed.
PassIsReviewed ==
    exit = "pass" =>
        /\ kind = "full" /\ "deploy" \notin since => Reviewed(repo, seen)
        /\ kind \in Checks => Reviewed(repo, judged)

\* The reports in the directory of a run say how far it came: each stands on
\* the ones before it, tests never follow a drift report that says
\* "different", and a partial run leaves none that could pass for a gate.
ArtifactsExplainExit ==
    LET follows(r, p) == r \in artifacts => p \in artifacts
    IN  /\ kind # "full" => artifacts \subseteq {"junit"}
        /\ kind = "full" =>
             /\ follows("coverage", "dependencies") /\ follows("forbidden", "coverage")
             /\ follows("gateway", "forbidden") /\ follows("match", "gateway")
             /\ follows("different", "gateway") /\ follows("junit", "match")
        /\ "different" \in artifacts =>
             "match" \notin artifacts /\ at = "idle" /\ exit = "fail"
        /\ exit = "pass" /\ kind \notin Checks => "junit" \in artifacts

\* The three reports in artifacts/ stem from one coverage command: a refused
\* one either leaves all of them as they were or has written all of them, so
\* only a command that broke off while it wrote leaves reports of two.
PublishedTogether ==
    LET written == {r \in Reports : out[r] = runs}
    IN  /\ exit = "pass" /\ kind \in Checks => written = Reports
        /\ exit = "fail" /\ kind \in Checks => written \in {{}, Reports}
=============================================================================
