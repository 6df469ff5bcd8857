------------------------ MODULE DependencyEvidence ------------------------
(***************************************************************************)
(* The evidence directory of src/api_tests/tools/dependency_evidence.py    *)
(* and src/api_tests/dependency_evidence.py: a command that removes the    *)
(* outputs of earlier runs, sets up its tools and then, in a child, writes *)
(* sixteen files one after the other, the last of which, completion.json,  *)
(* names the digests of the others.  Commands fail and are killed at any   *)
(* step, also in the middle of a file, and are run again.  A developer may *)
(* change uv.lock or `.venv` at any time, or leave a file of his own.      *)
(***************************************************************************)
EXTENDS Naturals, Sequences, SequencesExt

CONSTANTS Run,         \* invocations of the command
          None,        \* no invocation
          Name,        \* third-party packages
          Version,     \* their versions
          Absent,      \* a package that is not selected
          Graphs,      \* package selections: of uv.lock, `.venv`, a report
          MaxChanges   \* changes by hand, to bound the model

ASSUME EvidenceAssumption ==
    /\ None \notin Run
    /\ Absent \notin Version
    /\ Graphs \subseteq [Name -> Version \cup {Absent}]
    /\ MaxChanges \in Nat

SetupOutputs == <<"bootstrap.log", "scanner-install.log">>

GeneratedOutputs ==
    <<"diagnostics.json", "metadata.json", "lock-export.txt", "lock-selection.json",
      "installed-packages.json", "dependency-tree.json", "playwright-browser-metadata.json",
      "pip-audit.json", "pip-audit.txt", "sbom.cdx.json", "scanner-status.json",
      "scanner.stderr.log", "parity.json", "completion.json">>

SuccessfulOutputs == ToSet(SetupOutputs) \cup ToSet(GeneratedOutputs)
Listed == SuccessfulOutputs \ {"completion.json"}

VARIABLES
    files,     \* what each output holds
    by,        \* history: the run that has written or removed it
    stray,     \* whether the directory has an undeclared file
    lock,      \* what uv.lock selects on this platform
    env,       \* third-party packages in `.venv`
    changes,   \* changes by hand so far
    used,      \* invocations so far
    run,       \* current or last invocation
    pc,        \* its next step
    todo,      \* files it is about to write or to remove
    found      \* the graphs and reports it has parsed

world == <<stray, lock, env, changes>>
vars == <<files, by, world, used, run, pc, todo, found>>

Report == [packages : Graphs, findings : 0..1]
Found == [lock : Graphs, tree : Graphs, installed : Graphs, audit : Report, sbom : Report]

\* What a file holds: its state, and the packages, findings and digests in it.
Holding(state) ==
    [state |-> state, packages |-> None, findings |-> 0, digests |-> None]

Missing == Holding("missing")

Setup == {"setup", "scanner", "generate"}
Generation == {"verify", "export", "tree", "inventory", "browsers", "scan", "parse", "compare",
               "require", "validate", "confirm"}
Ended == {"idle", "complete", "failed", "killed"}

Init ==
    /\ files = [o \in SuccessfulOutputs |-> Missing]
    /\ by = [o \in SuccessfulOutputs |-> None]
    /\ stray = FALSE
    /\ lock \in Graphs
    /\ env \in Graphs
    /\ changes = 0
    /\ used = {}
    /\ run = None
    /\ pc = "idle"
    /\ todo = <<>>
    /\ found \in {[lock |-> g, tree |-> g, installed |-> g,
                   audit |-> [packages |-> g, findings |-> 0],
                   sbom |-> [packages |-> g, findings |-> 0]] : g \in {lock}}

Write(o, what) == [file |-> o, says |-> what]
Text(o) == Write(o, Holding("text"))
Packages(o, g) == Write(o, [Holding("text") EXCEPT !.packages = g])
Results(o, report) ==
    Write(o, [Holding("text") EXCEPT !.packages = report.packages, !.findings = report.findings])

\* unlink(missing_ok=True), one after the other
Removals(outputs) == [i \in DOMAIN outputs |-> Write(outputs[i], Missing)]

\* _write_diagnostics
Diagnose(status) == Write("diagnostics.json", Holding(status))

\* The next step, when every earlier file is written.
Goto(from, to, writes) ==
    /\ pc = from
    /\ todo = <<>>
    /\ pc' = to
    /\ todo' = writes

WriteFile ==
    /\ todo # <<>>
    /\ files' = [files EXCEPT ![Head(todo).file] = Head(todo).says]
    /\ by' = [by EXCEPT ![Head(todo).file] = run]
    /\ todo' = Tail(todo)
    /\ UNCHANGED <<world, used, run, pc, found>>

\* What is left of a file whose write does not come to its end.
Interrupts ==
    \/ UNCHANGED <<files, by>>
    \/ /\ todo # <<>>
       /\ Head(todo).says # Missing
       /\ files' = [files EXCEPT ![Head(todo).file] = Holding("torn")]
       /\ by' = [by EXCEPT ![Head(todo).file] = run]

Begin(r) ==
    /\ pc \in Ended
    /\ todo = <<>>
    /\ r \notin used
    /\ run' = r
    /\ used' = used \cup {r}
    /\ pc' = "setup"
    /\ todo' = Removals(SetupOutputs \o GeneratedOutputs)
    /\ UNCHANGED <<files, by, world, found>>

-----------------------------------------------------------------------------
\* main: the tools and the project environment

Bootstrapped ==
    /\ Goto("setup", "scanner", <<Text("bootstrap.log")>>)
    /\ env' = lock
    /\ UNCHANGED <<files, by, stray, lock, changes, used, run, found>>

\* The log of pip is written before its exit code is looked at.
ScannerInstalled ==
    /\ Goto("scanner", "generate", <<Text("scanner-install.log")>>)
    /\ UNCHANGED <<files, by, world, used, run, found>>

\* A log of the setup is only written here when there is none by now.
Unless(o) == IF files'[o] = Missing THEN <<Text(o)>> ELSE <<>>

\* write_failure_diagnostics; the removal of earlier outputs is not covered.
SetupFails ==
    /\ pc \in Setup
    /\ pc = "setup" => todo = <<>>
    /\ Interrupts
    /\ pc' = "failed"
    /\ todo' = Unless("bootstrap.log") \o Unless("scanner-install.log") \o <<Diagnose("failed")>>
    /\ UNCHANGED <<world, used, run, found>>

-----------------------------------------------------------------------------
\* generate_dependency_evidence, in a child process

StartGeneration ==
    /\ Goto("generate", "verify", Removals(GeneratedOutputs) \o <<Diagnose("running")>>)
    /\ UNCHANGED <<files, by, world, used, run, found>>

\* _verify_runtime_and_tools: frozen lock and environment
Verified ==
    /\ Goto("verify", "export", <<>>)
    /\ env = lock
    /\ UNCHANGED <<files, by, world, used, run, found>>

Exported ==
    /\ Goto("export", "tree", <<Packages("lock-export.txt", lock),
                              Packages("lock-selection.json", lock)>>)
    /\ found' = [found EXCEPT !.lock = lock]
    /\ UNCHANGED <<files, by, world, used, run>>

TreeRead ==
    /\ Goto("tree", "inventory", <<Packages("dependency-tree.json", lock)>>)
    /\ found' = [found EXCEPT !.tree = lock]
    /\ UNCHANGED <<files, by, world, used, run>>

Inventoried ==
    /\ Goto("inventory", "browsers", <<Packages("installed-packages.json", env)>>)
    /\ found' = [found EXCEPT !.installed = env]
    /\ UNCHANGED <<files, by, world, used, run>>

BrowsersRead ==
    /\ Goto("browsers", "scan", <<Text("playwright-browser-metadata.json")>>)
    /\ UNCHANGED <<files, by, world, used, run, found>>

\* Two runs of the scanner, whose reports may be about anything.
Scanned(audit, sbom) ==
    /\ Goto("scan", "parse", <<Text("scanner.stderr.log"), Text("scanner-status.json")>>)
    /\ found' = [found EXCEPT !.audit = audit, !.sbom = sbom]
    /\ UNCHANGED <<files, by, world, used, run>>

Parsed ==
    /\ found.audit.findings = found.sbom.findings
    /\ Goto("parse", "compare", <<Results("pip-audit.json", found.audit),
                                  Results("sbom.cdx.json", found.sbom),
                                  Text("pip-audit.txt")>>)
    /\ UNCHANGED <<files, by, world, used, run, found>>

Selected(g) == {n \in Name : g[n] # Absent}

\* compare_exact_packages: nothing missing, nothing extra, no other version
Exact(expected, actual) ==
    /\ Selected(expected) \ Selected(actual) = {}
    /\ Selected(actual) \ Selected(expected) = {}
    /\ {n \in Selected(expected) \cap Selected(actual) : expected[n] # actual[n]} = {}

\* Mutant of ExactParity: what is installed is not compared.
ReportedParity ==
    \A g \in {found.tree, found.audit.packages, found.sbom.packages} : Exact(found.lock, g)

ExactParity ==
    \A g \in {found.tree, found.installed, found.audit.packages, found.sbom.packages} :
        Exact(found.lock, g)

Compared ==
    /\ Goto("compare", "require",
            <<Write("parity.json", Holding(IF ExactParity THEN "exact" ELSE "mismatch"))>>)
    /\ UNCHANGED <<files, by, world, used, run, found>>

\* require_exact_comparisons, metadata with the hash of uv.lock
ParityRequired ==
    /\ ExactParity
    /\ Goto("require", "validate", <<Packages("metadata.json", lock), Diagnose("complete")>>)
    /\ UNCHANGED <<files, by, world, used, run, found>>

\* validate_complete_outputs; a torn file can be taken for a whole one.
CompleteOutputs(expected) ==
    /\ \A o \in SuccessfulOutputs : o \in expected <=> files[o] # Missing
    /\ ~stray

Completion == [Holding("text") EXCEPT !.findings = found.audit.findings,
                                      !.digests = [o \in Listed |-> files[o]]]

Validated ==
    /\ CompleteOutputs(Listed)
    /\ Goto("validate", "confirm", <<Write("completion.json", Completion)>>)
    /\ UNCHANGED <<files, by, world, used, run, found>>

Confirmed ==
    /\ CompleteOutputs(SuccessfulOutputs)
    /\ Goto("confirm", "complete", <<>>)
    /\ UNCHANGED <<files, by, world, used, run, found>>

\* A check fails or a file cannot be written.  What happens before the first
\* diagnostics are written is not caught.
\* Mutants: the exit code of the child is lost; an early completion is kept.
GenerationFailsQuietly ==
    /\ pc \in Generation
    /\ pc = "verify" => todo = <<>>
    /\ Interrupts
    /\ pc' = "complete"
    /\ todo' = <<Write("completion.json", Missing), Diagnose("failed")>>
    /\ UNCHANGED <<world, used, run, found>>

GenerationFailsKeeping ==
    /\ pc \in Generation
    /\ pc = "verify" => todo = <<>>
    /\ Interrupts
    /\ pc' = "failed"
    /\ todo' = <<Diagnose("failed")>>
    /\ UNCHANGED <<world, used, run, found>>

GenerationFails ==
    /\ pc \in Generation
    /\ pc = "verify" => todo = <<>>
    /\ Interrupts
    /\ pc' = "failed"
    /\ todo' = <<Write("completion.json", Missing), Diagnose("failed")>>
    /\ UNCHANGED <<world, used, run, found>>

-----------------------------------------------------------------------------
\* The command is killed, or ends with an exception that nothing catches.
Killed ==
    /\ pc \in Setup \cup Generation \/ todo # <<>>
    /\ Interrupts
    /\ pc' = "killed"
    /\ todo' = <<>>
    /\ UNCHANGED <<world, used, run, found>>

\* Somebody changes uv.lock, `.venv` or the directory.
ByHand ==
    /\ changes < MaxChanges
    /\ changes' = changes + 1
    /\ \/ lock' \in Graphs /\ UNCHANGED <<env, stray>>
       \/ env' \in Graphs /\ UNCHANGED <<lock, stray>>
       \/ stray' = ~stray /\ UNCHANGED <<lock, env>>
    /\ UNCHANGED <<files, by, used, run, pc, todo, found>>

Next ==
    \/ WriteFile
    \/ \E r \in Run : Begin(r)
    \/ Bootstrapped
    \/ ScannerInstalled
    \/ SetupFails
    \/ StartGeneration
    \/ Verified
    \/ Exported
    \/ TreeRead
    \/ Inventoried
    \/ BrowsersRead
    \/ \E audit, sbom \in Report : Scanned(audit, sbom)
    \/ Parsed
    \/ Compared
    \/ ParityRequired
    \/ Validated
    \/ Confirmed
    \/ GenerationFails
    \/ Killed
    \/ ByHand

Spec == Init /\ [][Next]_vars

-----------------------------------------------------------------------------
States == {"missing", "torn", "text", "running", "failed", "complete", "exact", "mismatch"}

Content == [state : States, packages : Graphs \cup {None}, findings : 0..1, digests : {None}]

\* Every variable keeps its type.
TypeOK ==
    /\ DOMAIN files = SuccessfulOutputs
    /\ \A o \in Listed : files[o] \in Content
    /\ LET last == files["completion.json"] IN
       /\ [last EXCEPT !.digests = None] \in Content
       /\ last.digests = None \/ last.digests \in [Listed -> Content]
    /\ by \in [SuccessfulOutputs -> Run \cup {None}]
    /\ stray \in BOOLEAN
    /\ lock \in Graphs /\ env \in Graphs
    /\ changes \in 0..MaxChanges
    /\ used \subseteq Run
    /\ run \in Run \cup {None}
    /\ pc \in Setup \cup Generation \cup Ended
    /\ \A i \in DOMAIN todo : todo[i].file \in SuccessfulOutputs
    /\ found \in Found

\* A reader's check: the declared files, and the digests of completion.json.
Validates ==
    /\ CompleteOutputs(SuccessfulOutputs)
    /\ files["completion.json"].state = "text"
    /\ \A o \in Listed : files[o] = files["completion.json"].digests[o]

\* "A successful result proves exact normalized name-and-version parity": a
\* directory that validates, whatever was killed or changed before, says the
\* same packages in the lock export, the tree, the installation and both
\* reports, and counts the findings of both.
ValidatedMeansParity ==
    Validates =>
      LET packages(o) == files[o].packages
          findings(o) == files[o].findings
      IN /\ \A o \in {"lock-selection.json", "dependency-tree.json", "installed-packages.json",
                       "pip-audit.json", "sbom.cdx.json"} :
              packages(o) = packages("lock-export.txt")
         /\ findings("pip-audit.json") = findings("sbom.cdx.json")
         /\ findings("completion.json") = findings("sbom.cdx.json")
         /\ files["parity.json"].state = "exact"
         /\ files["diagnostics.json"].state = "complete"

\* The command that ends with exit code 0 leaves a directory that validates,
\* every file of which is its own, unless somebody adds a file afterwards.
SuccessIsValidated ==
    pc = "complete" /\ ~stray => Validates /\ \A o \in SuccessfulOutputs : by[o] = run

\* A command that reports a failure leaves its diagnostics and both logs of
\* the setup to be uploaded, and no completion of this or an earlier run.
FailureIsReported ==
    pc = "failed" /\ todo = <<>> =>
      /\ files["completion.json"] = Missing
      /\ files["diagnostics.json"].state = "failed" /\ by["diagnostics.json"] = run
      /\ \A o \in ToSet(SetupOutputs) : files[o] # Missing /\ by[o] = run

=============================================================================
