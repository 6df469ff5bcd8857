----------------------------- MODULE Bootstrap -----------------------------
(***************************************************************************)
(* Dependency bootstrap of ./run-tests                                     *)
(* (src/api_tests/local_bootstrap.py bootstrap_environment): a process     *)
(* validates the pinned files, installs the pinned uv, and either reuses   *)
(* `.venv` or removes it, synchronizes it from uv.lock and writes the      *)
(* readiness marker.  Nothing is locked: a developer edits the pinned      *)
(* files, somebody changes `.venv` by hand, and a second ./run-tests can   *)
(* run, between any two commands of a bootstrap that can itself fail or be *)
(* killed anywhere.                                                        *)
(*                                                                         *)
(* A revision of pyproject.toml stands for the manifest with its uv pin    *)
(* and .python-version; the lock of the same revision is the fresh one.    *)
(* The managed Python lives in a store of uv that only ever grows, so its  *)
(* installation is a step that can fail and changes nothing here.          *)
(***************************************************************************)
EXTENDS Naturals, FiniteSets

CONSTANTS Proc,       \* ./run-tests processes in one checkout
          Revision,   \* contents of pyproject.toml, and of uv.lock
          Package,    \* distributions (name and version)
          Locked,     \* Locked[l]: what uv.lock of revision l selects
          Project,    \* the editable first-party distribution
          Uv,         \* versions of the uv tool
          UvPin,      \* UvPin[m]: uv version that manifest m declares
          NoMarker,   \* the readiness marker does not exist or is unreadable
          MaxChanges  \* changes made by hand, to bound the model

ASSUME BootstrapAssumption ==
    /\ Locked \in [Revision -> SUBSET Package]
    /\ Project \in Package
    /\ \A l \in Revision : Project \notin Locked[l]
    /\ UvPin \in [Revision -> Uv]
    /\ NoMarker \notin [manifest : Revision, lock : Revision]
    /\ MaxChanges \in Nat

Pins == [manifest : Revision, lock : Revision]

VARIABLES
    pins,      \* pyproject.toml with .python-version, and uv.lock
    tool,      \* tool[u]: `.dependency-tools/uv-<u>`: "absent", "empty", "ready"
    env,       \* distributions in `.venv`; {} also when there is none
    marker,    \* readiness marker in `.venv`
    pc,        \* pc[p]: next command of the bootstrap
    contract,  \* contract[p]: what validate_contract_files has read
    identity,  \* identity[p]: what _bootstrap_identity has hashed
    alone,     \* history: nothing else has changed a file since p started
    failed,    \* history: a command by which p looks at `.venv` has failed
    changes    \* changes made by hand so far

vars == <<pins, tool, env, marker, pc, contract, identity, alone, failed, changes>>

Running == {"tool", "install", "lock", "identity", "marker", "reuse", "reuse-list",
            "unlink", "remove", "sync", "check", "check-list", "write", "ready"}

\* Revisions at rest: the checkout is fresh and nothing is installed.
Init ==
    /\ pins \in {r \in Pins : r.manifest = r.lock}
    /\ tool = [u \in Uv |-> "absent"]
    /\ env = {}
    /\ marker = NoMarker
    /\ pc = [p \in Proc |-> "idle"]
    /\ contract = [p \in Proc |-> pins]
    /\ identity = [p \in Proc |-> pins]
    /\ alone = [p \in Proc |-> TRUE]
    /\ failed = [p \in Proc |-> FALSE]
    /\ changes = 0

Installed(l) == Locked[l] \cup {Project}

\* _environment_has_only_locked_packages, against the lock p has validated.
OnlyLocked(p) == Project \in env /\ env \subseteq Installed(contract[p].lock)

ToolOf(p) == UvPin[contract[p].manifest]

ToolReady(p) == tool[ToolOf(p)] = "ready"

Goto(p, from, to) ==
    /\ pc[p] = from
    /\ pc' = [pc EXCEPT ![p] = to]

\* p changes a file that others may have read.
Disturbs(p) == alone' = [q \in Proc |-> alone[q] /\ q = p]

\* A command that only reads files.
Reads(p) == UNCHANGED <<pins, tool, env, marker, contract, identity, alone, failed, changes>>

-----------------------------------------------------------------------------
\* validate_contract_files
Start(p) ==
    /\ Goto(p, "idle", "tool")
    /\ contract' = [contract EXCEPT ![p] = pins]
    /\ alone' = [alone EXCEPT ![p] = TRUE]
    /\ failed' = [failed EXCEPT ![p] = FALSE]
    /\ UNCHANGED <<pins, tool, env, marker, identity, changes>>

-----------------------------------------------------------------------------
\* ensure_pinned_uv

ReuseTool(p) ==
    /\ Goto(p, "tool", "lock")
    /\ ToolReady(p)
    /\ Reads(p)

\* `python -m venv --clear`, when the pinned uv is not there or `uv --version`
\* merely fails: what another process was installing or using is gone.
CreateTool(p) ==
    /\ Goto(p, "tool", "install")
    /\ tool' = [tool EXCEPT ![ToolOf(p)] = "empty"]
    /\ Disturbs(p)
    /\ UNCHANGED <<pins, env, marker, contract, identity, failed, changes>>

\* Mutant of InstallTool: its result is not recorded as installed.
InstallToolUnverified(p) ==
    /\ Goto(p, "install", "lock")
    /\ UNCHANGED <<pins, tool, env, marker, contract, identity, alone, failed, changes>>

InstallTool(p) ==
    /\ Goto(p, "install", "lock")
    /\ tool' = [tool EXCEPT ![ToolOf(p)] = "ready"]
    /\ Disturbs(p)
    /\ UNCHANGED <<pins, env, marker, contract, identity, failed, changes>>

-----------------------------------------------------------------------------
\* _check_lock, _bootstrap_identity, _marker_matches and the decision to reuse

CheckLock(p) ==
    /\ Goto(p, "lock", "identity")
    /\ ToolReady(p)
    /\ pins.manifest = pins.lock
    /\ Reads(p)

ComputeIdentity(p) ==
    /\ Goto(p, "identity", "marker")
    /\ identity' = [identity EXCEPT ![p] = pins]
    /\ UNCHANGED <<pins, tool, env, marker, contract, alone, failed, changes>>

\* Mutants of ReadMarker and CheckReuse: the marker is trusted without looking
\* at the environment; the parity check also expects nothing but the lock.
ReadMarkerOnly(p) ==
    /\ Goto(p, "marker", IF marker = identity[p] THEN "ready" ELSE "unlink")
    /\ Reads(p)

CheckReuseWithoutProject(p) ==
    /\ Goto(p, "reuse", IF env = Locked[pins.lock] THEN "reuse-list" ELSE "unlink")
    /\ ToolReady(p)
    /\ Reads(p)

ReadMarker(p) ==
    /\ Goto(p, "marker", IF marker = identity[p] THEN "reuse" ELSE "unlink")
    /\ Reads(p)

\* `uv sync --check --frozen` compares `.venv` with the uv.lock of now.
CheckReuse(p) ==
    /\ Goto(p, "reuse", IF env = Installed(pins.lock) THEN "reuse-list" ELSE "unlink")
    /\ ToolReady(p)
    /\ Reads(p)

ListReuse(p) ==
    /\ Goto(p, "reuse-list", IF OnlyLocked(p) THEN "ready" ELSE "unlink")
    /\ ToolReady(p)
    /\ Reads(p)

\* A look that fails is taken for a mismatch: the marker cannot be read, or a
\* command ends with an error (or is killed), or its list cannot be parsed.
LookFails(p) ==
    /\ \E look \in {"marker", "reuse", "reuse-list"} : Goto(p, look, "unlink")
    /\ failed' = [failed EXCEPT ![p] = TRUE]
    /\ UNCHANGED <<pins, tool, env, marker, contract, identity, alone, changes>>

-----------------------------------------------------------------------------
\* Replacing the environment

UnlinkMarker(p) ==
    /\ Goto(p, "unlink", "remove")
    /\ marker' = NoMarker
    /\ Disturbs(p)
    /\ UNCHANGED <<pins, tool, env, contract, identity, failed, changes>>

\* The marker is in `.venv`, so one that was written meanwhile goes as well.
RemoveEnvironment(p) ==
    /\ Goto(p, "remove", "sync")
    /\ env' = {}
    /\ marker' = NoMarker
    /\ Disturbs(p)
    /\ UNCHANGED <<pins, tool, contract, identity, failed, changes>>

\* The removal fails or is killed halfway.
RemoveFails(p) ==
    /\ Goto(p, "remove", "idle")
    /\ env' \in SUBSET env
    /\ marker' \in {marker, NoMarker}
    /\ Disturbs(p)
    /\ UNCHANGED <<pins, tool, contract, identity, failed, changes>>

Sync(p) ==
    /\ Goto(p, "sync", "check")
    /\ ToolReady(p)
    /\ env' = Installed(pins.lock)
    /\ Disturbs(p)
    /\ UNCHANGED <<pins, tool, marker, contract, identity, failed, changes>>

\* The synchronization fails or is killed halfway.
SyncFails(p) ==
    /\ Goto(p, "sync", "idle")
    /\ ToolReady(p)
    /\ env' \in SUBSET Installed(pins.lock)
    /\ Disturbs(p)
    /\ UNCHANGED <<pins, tool, marker, contract, identity, failed, changes>>

CheckSync(p) ==
    /\ Goto(p, "check", "check-list")
    /\ ToolReady(p)
    /\ env = Installed(pins.lock)
    /\ Reads(p)

ListSync(p) ==
    /\ Goto(p, "check-list", "write")
    /\ ToolReady(p)
    /\ OnlyLocked(p)
    /\ Reads(p)

WriteMarker(p) ==
    /\ Goto(p, "write", "ready")
    /\ marker' = identity[p]
    /\ Disturbs(p)
    /\ UNCHANGED <<pins, tool, env, contract, identity, failed, changes>>

-----------------------------------------------------------------------------
\* The tests run in `.venv` and end; or, anywhere, a command fails (a
\* BootstrapError, or an OSError of a tool that is gone) or p is killed.
Ends(p) ==
    /\ pc[p] \in Running
    /\ pc' = [pc EXCEPT ![p] = "idle"]
    /\ Reads(p)

\* Changes made by hand: the pinned files, one at a time, and `.venv`.
ByHand ==
    /\ changes < MaxChanges
    /\ changes' = changes + 1
    /\ alone' = [q \in Proc |-> FALSE]
    /\ \/ /\ \/ \E m \in Revision : pins' = [pins EXCEPT !.manifest = m]
             \/ \E l \in Revision : pins' = [pins EXCEPT !.lock = l]
          /\ UNCHANGED <<env, marker>>
       \/ /\ env' \in SUBSET Package
          /\ UNCHANGED <<pins, marker>>
       \/ /\ env' = {}
          /\ marker' = NoMarker
          /\ UNCHANGED pins
    /\ UNCHANGED <<tool, pc, contract, identity, failed>>

Reuse(p) == ReadMarker(p) \/ CheckReuse(p) \/ ListReuse(p) \/ LookFails(p)

Replace(p) ==
    \/ UnlinkMarker(p)
    \/ RemoveEnvironment(p)
    \/ RemoveFails(p)
    \/ Sync(p)
    \/ SyncFails(p)
    \/ CheckSync(p)
    \/ ListSync(p)
    \/ WriteMarker(p)

Advance(p) ==
    \/ Start(p)
    \/ ReuseTool(p) \/ CreateTool(p) \/ InstallTool(p)
    \/ CheckLock(p) \/ ComputeIdentity(p)
    \/ Reuse(p)
    \/ Replace(p)
    \/ Ends(p)

Next == ByHand \/ \E p \in Proc : Advance(p)

Spec == Init /\ [][Next]_vars

\* An operator runs the command again and again, and every run ends; a command
\* that is reached again and again is not failed or killed every single time.
Fairness ==
    \A p \in Proc :
      /\ WF_vars(Start(p)) /\ WF_vars(Ends(p))
      /\ SF_vars(ReuseTool(p)) /\ SF_vars(CreateTool(p)) /\ SF_vars(InstallTool(p))
      /\ SF_vars(CheckLock(p)) /\ SF_vars(ComputeIdentity(p))
      /\ SF_vars(ReadMarker(p)) /\ SF_vars(CheckReuse(p)) /\ SF_vars(ListReuse(p))
      /\ SF_vars(UnlinkMarker(p)) /\ SF_vars(RemoveEnvironment(p)) /\ SF_vars(Sync(p))
      /\ SF_vars(CheckSync(p)) /\ SF_vars(ListSync(p)) /\ SF_vars(WriteMarker(p))

FairSpec == Spec /\ Fairness

-----------------------------------------------------------------------------
\* Every variable keeps its type.
TypeOK ==
    /\ pins \in Pins
    /\ tool \in [Uv -> {"absent", "empty", "ready"}]
    /\ env \in SUBSET Package
    /\ marker \in Pins \cup {NoMarker}
    /\ pc \in [Proc -> Running \cup {"idle"}]
    /\ contract \in [Proc -> Pins]
    /\ identity \in [Proc -> Pins]
    /\ alone \in [Proc -> BOOLEAN]
    /\ failed \in [Proc -> BOOLEAN]
    /\ changes \in 0..MaxChanges

\* The state that a successful run leaves behind.
Settled == /\ pins.manifest = pins.lock
           /\ env = Installed(pins.lock)
           /\ marker = pins

\* What p has established by the commands it has run, as long as nothing else
\* changes a file.
Established(p) ==
    /\ contract[p] = pins
    /\ pc[p] \notin {"tool", "install"} => ToolReady(p)
    /\ pc[p] \notin {"tool", "install", "lock"} => pins.manifest = pins.lock
    /\ pc[p] \notin {"tool", "install", "lock", "identity"} => identity[p] = pins
    /\ pc[p] \in {"reuse", "reuse-list", "ready"} => marker = pins
    /\ pc[p] = "unlink" => ~Settled \/ failed[p]
    /\ pc[p] \in {"remove", "sync", "check", "check-list", "write"} => marker = NoMarker
    /\ pc[p] \in {"reuse-list", "check", "check-list", "write", "ready"} =>
         env = Installed(pins.lock)

EstablishedAlone == \A p \in Proc : pc[p] # "idle" /\ alone[p] => Established(p)

\* "Every invocation checks manifest/lock freshness and exact environment
\* parity before reuse": whatever killed, failed or overlapping runs, edits and
\* manual installs have left behind, a run that nobody disturbs and that gets
\* as far as the tests has exactly the packages of the current, fresh lock, and
\* the marker says so.
ReadyIsFrozen ==
    \A p \in Proc :
      pc[p] = "ready" /\ alone[p] =>
        /\ pins.manifest = pins.lock
        /\ env = Installed(pins.lock)
        /\ marker = pins

\* An environment that matches is reused: what an earlier run has set up and
\* certified stays as it is while a run is undisturbed, whatever that run does,
\* unless one of its own looks at it has failed.
SettledIsReused ==
    [][\A p \in Proc :
         pc[p] \in Running /\ alone'[p] /\ ~failed'[p] /\ Settled => Settled']_vars

\* "so the next run safely retries": once the pinned files agree for good, runs
\* that are repeated get as far as the tests again and again.
RunsRecover ==
    (<>[](pins.manifest = pins.lock)) => \A p \in Proc : []<>(pc[p] = "ready")

=============================================================================
