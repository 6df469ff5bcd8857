# Verification of budget-analyzer-api-tests

`budget-analyzer-api-tests` is a live black-box test harness: pytest suites that
sign up, log in and call a deployed Budget Analyzer gateway. Most of its source
is payloads and assertions; what can go wrong in ways a test would hardly reach
is in the state it keeps *between* requests and runs: a credential file that
several runs share, rate pacers that several callers share, a dependency
environment that is reused when a marker says so, session fixtures that are kept with their
failures, and gates that judge files which change while they do. This directory models that
part in TLA+, checks it with TLC and proves the main invariants with TLAPS.

Paths below are relative to the repository; `src/api_tests/` is the harness.

## 1. The system

### Components, their state and operations

| component | state | operations |
| --- | --- | --- |
| credential store (`local_credentials.py`) | `.env.local`, environment variables | resolve, reserve, complete; disposable records: reserve, bind, mark |
| session acquisition (`auth.py`, `session.py`) | one acquisition in flight, cached session fixtures | `acquire_browser_session`, `load_existing_browser_credentials`, exchange |
| browser login (`browser_login.py`) | observer counters, paused request, cookie | login, signup, verify, cleanup |
| request pacing (`client.py`) | one lock and one next slot per rate policy | classify, wait, dispatch |
| environment bootstrap (`local_bootstrap.py`) | pinned files, uv tool, `.venv`, readiness marker | validate, install, check lock, reuse, replace |
| local runner (`local_runner.py`, `tools/validate_environment.py`) | stage of the run, the reports in `artifacts/runs/<run>` | dependency check, three reports, gate, comparison, pytest |
| deactivation lifecycle (`admin_deactivation.py`) | account status, live sessions | create target, deactivate once, verify revocation |
| fixtures and marker policy (`pytest_plugin.py`, `config.py`) | configuration, selected and skipped items, kept fixtures | configure, collect, set up, exit |
| coverage and inventories (`coverage.py`, `session_gateway_inventory.py`, `tools/openapi_coverage.py`) | three reports in `artifacts/` | marker scan, manifests, inventory; the coverage command |
| OpenAPI documents and drift (`openapi.py`, `openapi_drift.py`, `schemas.py`) | `schemas/openapi.json` | read entries and request cases, compare, refresh |
| dependency evidence (`dependency_evidence.py`, `dependency_inventory.py`) | output directory, diagnostics, completion record | generate, fail, validate |
| builders and resources (`builders/`, `resources.py`) | none | payloads, request calls |
| assertions and redaction (`assertions.py`, `session_gateway_assertions.py`, `logging.py`, `run_state.py`) | none | checks of bodies, redaction |

### How they interact

`./run-tests` bootstraps `.venv` and then starts the local runner in it, which judges the
contract files, compares the snapshot with the served document and
runs pytest with the plugin; the unit tests judge the snapshot again. A session fixture of the plugin calls session
acquisition, which resolves the role in the credential store and drives the
browser login; a new identity is saved, signed up and then marked complete.
Every request, of the client or of the browser (through paused requests), waits
for the shared pacer of its rate policy before it is sent. The deactivation
test reserves a disposable record in the same credential file, signs up,
deactivates the account as the administrator and checks that its sessions are
gone.

The harness starts no threads of its own. Concurrency comes from several
processes on one checkout (`.env.local`, `.venv`), from the identity provider and
gateway on the other side, from crashes, and, in `client.py`, from a lock that
the process-wide pacers take so that callers may be threads.

### What is hard, and what makes each component correct

- **Credential file.** `_update_credential_file` re-reads, edits and replaces the
  file without a lock; runs are killed between reservation, signup and
  completion; the provider creates accounts whose answer is lost. Correct: an
  account that was created stays reachable from the file, a saved value is never
  changed, a completed slot can log in, roles are different people.
- **Pacing.** The lock, the sleep and the second clock reading form one critical
  section; sleeps return late; the request leaves after the lock is released.
  Correct: slots of one policy are an interval apart, and one process alone stays
  below each allowance.
- **Bootstrap.** Each command can fail or be killed, two runs can replace one
  `.venv`, pinned files change while a run is between two reads, and a check that merely fails
  looks like a mismatch. Correct: tests run in exactly the locked environment, and a failed run is
  recovered by the next.
- **Deactivation.** A request that cannot be undone is sent for an account that the
  system under test has identified, under records that other executions can
  overwrite. Correct: it is only ever the execution's own disposable account, the
  file tells afterwards which one it was, and a passing scenario means what it says.
- **Browser login.** Requests are paused in the browser and continued by a handler that
  runs only while the flow waits; responses, cookies and failures arrive in between.
  Correct: the flow is not stopped by its own pauses, the pacing audit blames only what
  bypassed the pacing, a failed login ends the session it has read.
- **Dependency evidence.** Sixteen files are written one after the other by a command and its
  child, over the files of an earlier run. Correct: a directory that validates is of one run
  and its inventories are equal; a failure is told apart from a success.
- **Runner, coverage, inventories, drift.** Five reads of one snapshot, which `tools/refresh-openapi.py`
  truncates and rewrites; services that are deployed during a run; three manifests, a marker scan
  and an inventory that each see a part; a marker on a placeholder must not count. Correct: what
  starts the tests, and what is green, is a contract whose every operation, 403 claim and
  Session Gateway case was reviewed, and the reports tell how far a run came.
- **Fixtures and policy.** Fixtures are set up in the order tests name them and kept with their
  failures; a skip can hide a missing prerequisite; the mode can be overridden after the file was
  validated; roles change meanwhile; some tests skip themselves. Correct: a session acquires what its
  tests use, once; a test runs with the users it relies on; production stays read-only; green means
  that all ran but what is allowed to skip.

The hazards are listed at their lines in `PROJECT.json`.

## 2. Modules

| module | models |
| --- | --- |
| `CredentialFile` | contents of `.env.local` per role, `Resolve`, and the two updates of reusable records |
| `IdentityLedger` | abstract specification: reserve, provision, complete, without processes or failures |
| `LocalIdentities` | processes that acquire sessions through the file and the identity provider |
| `MCLocalIdentities` | files and environments an operator can leave behind |
| `LocalIdentitiesProofs` | types, `Provenance`, distinct sessions, for any number of processes; the refinement and what follows from it, for one at a time |
| `RequestPacing` | policies, classification, pacers, their callers and the clock |
| `PacedIngress` | `RequestPacing` in front of (external) token buckets |
| `MCPacedIngress` | two policies at the ratio 4:5 |
| `RequestPacingProofs` | types, `SlotReserved`, `SlotsAreSpaced`; the pacing in front of the buckets |
| `Bootstrap` | `bootstrap_environment` of overlapping runs, edits by hand and crashes |
| `DisposableTargets` | disposable records and the deactivation scenario, against an untrusted system |
| `MCDisposableTargets` | ways in which the system under test resolves identities |
| `DisposableTargetsProofs` | types and `OwnTargetOnly`, for any executions and resolutions; the records and the verdict, for one execution at a time |
| `BrowserLogin` | one login or signup, with the browser's requests, the observer and the session |
| `BrowserLoginProofs` | types, the audit and the cleanup, for any number of requests |
| `DependencyEvidence` | the evidence directory: the command, its child, failures and kills at any file |
| `MCDependencyEvidence` | three package selections |
| `DependencyEvidenceProofs` | types and the three safety properties, for any invocations, packages and changes |
| `MCBootstrap`, `BootstrapProofs` | two revisions and tools; types and the three safety properties |
| `ContractGates` | what the gates accept, as predicates over the files and documents; `Reviewed`, what they promise |
| `LocalRun` | `./run-tests` full and partial, the coverage command, the refresh of the snapshot, deployments |
| `MCLocalRun` | about fifty repositories and nineteen documents, one for each way a gate can refuse |
| `LocalRunProofs` | the gates imply `Reviewed`; types, reports, `StartIsReviewed`, `PassIsReviewed` |
| `PytestSession` | a pytest session of the plugin: policy, collection, session fixtures, tests, exit |
| `MCPytestSession` | environment files, kinds of tests, supplies of sessions, roles |
| `PytestSessionProofs` | types and the six properties, for any files, suites, sessions and changes of roles |

`CredentialFile` is extended by `LocalIdentities` and by `IdentityLedger`, which
`LocalIdentities` instantiates with `ledger <- file`. `PacedIngress` extends
`RequestPacing`, `LocalRun` extends `ContractGates`. What a role acquires is `LocalIdentities` (or the
variables of supplied sessions) and an input of `PytestSession`; what the tests
of `PytestSession` end with is an input of `LocalRun`.

### Correspondence with the code

**CredentialFile / LocalIdentities.** `file` is the parsed `.env.local`, a record
(username, password, state) per role. Names and passwords are identities: an
identity is both a username and the password that belongs to it, so a pair of two
different identities is a wrong password. `Fresh` is what
`generate_local_credentials` can return (its random suffix does not repeat),
`Supplied` what an operator configures. `accounts` is the identity provider, a
function from username to password.

`load_or_create_local_credentials` is one action per outcome, named for it:
`LoadRejected`, `LoadExternal`, `LoadComplete`, `LoadPending` and `Generate`. Their
guard is `Resolve`, which follows the order of the code's checks. A `Generate` with
purpose `"existing"` is that of `load_existing_browser_credentials`, which saves
a reservation and signs nobody up. Reading for an update and replacing the file
are two actions (`ReadForReservation`, `SaveReservation`; `ReadForCompletion`,
`SaveCompletion`) because another process can replace the file between them; the
content read is kept in `call[p].content` and written back whole.
`SignupSucceeds`, `SignupLost` (account created, the harness sees an error) and
`SignupAccountExists` are the answers of `signup_with_browser`;
`mark_local_credentials_complete` compares first (`MarkChecked`, `MarkRejected`)
and re-reads after that. `AttemptFails` is an exception of any step, `Rerun` the end or
the kill of a process and a new run, possibly with other variables.
`session[p][r]` is the cached outcome of the session fixture of a role.

**RequestPacing.** `monotonic()` is only used in differences, so times are what
remains: `nextIn` of `_next_request_at`, `left` of a sleep. `Acquire` takes the lock
and computes the delay, `Grant` reads the clock again, moves the slot and releases,
`Dispatch` sends. `Tick` lets all of them pass a tick; a sleep that returns
late is a `Grant` taken late. `age` bounds the ticks between the return of `wait` and
the request with `MaxHandover`, which the code does not bound: it matters for
`PacedIngress` only.

**Bootstrap.** A revision of `pyproject.toml` stands for the manifest with its uv
pin and `.python-version`, a revision of `uv.lock` for what it selects; the lock is
fresh when the two are equal. `pc[p]` is the next command; each command of the code is
an action, and `RemoveFails`, `SyncFails` leave any subset behind. `bootstrap_environment` takes
a look at the environment that fails (an unreadable marker, a check or list command that exits with an
error or is killed, a list that cannot be parsed) for a mismatch and replaces the environment:
`LookFails`. Two history variables serve the properties: `alone[p]`, nobody but `p` has changed a file
since it started, and `failed[p]`, such a look has failed.

**DisposableTargets.** One execution is one selected run of the scenario in
`tests/api/users/test_admin_deactivation.py`; `pc[p]` is its next step, `target[p]` the
`DisposableCredentialRecord` in memory and `records` the records in `.env.local`.
`Load` and `Generate` are the two outcomes of `load_or_create_disposable_credentials` that
do not raise; its `LocalCredentialError`s, like every other exception, are `Fails`.
Reservation, completion and binding are again a read (`ReadContent`) and a replacement
(`SaveReservation`, `SaveCompletion`, `SaveBinding`), after a check (`MarkChecked`,
`BindChecked`) that looked at a still earlier read. `Post` is one request to
`/v1/users/{id}/deactivate`, sent by `Denied`, `Deactivated`, `Repeated` and, with an answer
that ends the scenario (503 included), by `PostFails`. A kill after an
answer is a step of `Fails` after the step of the answer.
`owner` and `requested` are history variables.

**BrowserLogin.** `pc` is what the flow does next; `purpose` tells
`login_flow_with_browser` from `signup_with_browser`. The observer is `reserved` (a count
per path, as a list from which `remove` takes one element is a bag) and `observed`. `HandlePaused` is
`_continue_paced_gateway_request`; its wait is `RequestPacing` and takes no state of this module.
Playwright's synchronous API dispatches events only while the flow is inside a call, hence
`Dispatching`, which excludes the audit and all that comes after the browser is closed.
`FlowFails` is any exception of Playwright or of the harness while the browser is open,
`Raise` what both handlers do with it. `issued`, `bypassed`, `aborted` and `audit` are history
variables.

**DependencyEvidence.** `files` is the output directory and `todo` the files that the
current step writes or removes, one `WriteFile` each, so that a kill (`Killed`) or a
failure (`SetupFails`, `GenerationFails`) can come between any two, or in the middle of one
(`Interrupts` leaves it torn). `pc` goes through the stages of `main` and then of
`generate_dependency_evidence` in the child. A file holds a state and the packages,
findings and digests it names; a digest is what the file held.

**ContractGates.** `repo` is what the gates read besides the snapshot: environment file, dependency
lockstep, deferred-admin and forbidden manifests, tests, the Session Gateway document and inventory. A
document is a set of routes with their operation (id, documented responses, path parameters,
body); a test is the markers of a test function. Each predicate has the
conditions under which a function of the code does not raise. `Gaps` is what the gate of
`_run_full_validation` looks for, `Differences` what `compare_openapi_documents` reports.
`Reviewed` is not code: it says of each operation, without the gates' order and counts, that exactly one
thing answers for it (an executable test or a deferral), and of each case and manifest line that
it is about something that exists.

**LocalRun.** `at` is the next stage of the command, `kind` which command: `full` and `partial`
(with pytest arguments) of `./run-tests`, `redirected` (`--env`, refused), `offline` and
`online` of `tools/check-openapi-coverage.py`. `Attempt` is a stage that raises or goes
on; `Coverage`, `Forbidden`, `Gateway`, `Collect` and `UnitTests` read `snapshot` as it is at that
moment. `refresh` is `refresh_main`: it has fetched a document (`RefreshFetch`), truncates the
file (`RefreshOpen`) and writes it (`RefreshWrite`), or dies. `judged` is the document of the coverage
rows, `seen` the fetched one; `since` (a history variable) what happened since the command began.

**PytestSession.** `file` and `override` are `--env` and `--session-mode`, `config` the configuration
after `with_session_mode`. `cache` is what pytest keeps of each session fixture: nothing, a value, a
failure or a skip. `SetupOrder` is the table of the fixtures with those behind their parameters, and
`Needs(f)` says that `f` is the first fixture of the current test without a value, in pytest's order.
`AcquireSession`, `IdentityAccepted`, `IdentityFails`, `PromotionRequired`, `CompareUsers` and
`CompareAll` are the bodies of the fixtures; `Unmet` is a test that meets a kept failure or skip.
`SkipsItself` is a skip of the tests' own (`own` of an item): the lifecycle tests skip when
`load_existing_browser_credentials` raises, in any environment, and the exchange rates when no currency is
enabled. `stray` says that a collected test outside the selection has markers out of order, which refuses the
session as well, because the plugin validates markers before `-m` and `-k` apply.
`Reassign` is an operator who changes a role. `acquired` and `asked` count, for the properties.

### Abstractions to know of

- Formatting of `.env.local` (quoting, comments, order of lines) is left out: a
  file is what parsing returns. An update keeps the other lines as they are in
  the code, and the other roles' records in the model.
- The target is the exact local one, with `browser_preprovisioned` mode; another
  is refused before the first access to the file.
- The parity checks of `uv` are modelled by what they compare: the environment
  against the lock of *now*, while the package list of the harness is compared with
  the lock that was validated at the start. This difference is kept. The hashes of
  `_bootstrap_identity` are read in one step.
- The managed Python lives in a store of uv that only grows; its installation is a
  step that can fail and changes nothing else.
- A run id and the one scenario id make one constant, and so do a username and its
  password. The run ids have one format, so their variable prefixes differ when they do.
- The system under test of `DisposableTargets` is a test's adversary: `directory`, a constant of
  each behaviour, says which subject a session shows and which user a subject is resolved to,
  rightly or not; a request may change the target or a reusable account and end
  sessions whatever its answer is. `"partial"` is an account that is deactivated but kept its
  roles; the role checks on a normal user are part of being `"active"`. Sessions are
  tracked for the execution in progress only. The request for a user id that
  does not exist (`_assert_missing_target_deactivation`) names no account and is left out.
- Four paths stand for the gateway's in `BrowserLogin`: three of rate policies and one
  that has none. The page is what decides the flow's checks (provider, expected page, other page,
  error). The cleanup of a login sends one request, whose answer may be lost.
- In `DependencyEvidence`, a torn file passes as not empty (an empty one only makes the
  validation fail, which `GenerationFails` has anyway), a scanner reports anything, one command runs at a time,
  and the removal of legacy outputs is left out. A bootstrap that fails leaves `.venv` as `Bootstrap`
  says; the next command synchronizes it again.
- In `LocalRun` the files of the repository other than the snapshot do not change during a
  behaviour, and at most one refresh runs at a time; nothing in the program writes the former. A torn file is
  `Unreadable`. The unit test that pins the number of operations is abstracted to the
  rules it shares with the coverage. A command that is killed leaves what it wrote.
- In `PytestSession` the clients hold nothing but their session, so a client's fixture stands for
  its session. Wrong syntax of single fields makes a file `Unreadable`; all session fixtures have
  session scope, so the order of the names is the order of setup. `pytest -x` and kills are left out:
  a session that stops early is a prefix of one of the model, and the counts and caches end with it.
- The ingress, the identity provider, the browser, and edits by hand are external: modelled from
  how the code uses them and marked so in the map.

## 3. Runs

| run | question and bounds |
| --- | --- |
| `identities_solo` | One process, two slots, three fresh and two configured identities, five operator files, four environments. Killed and failing anywhere, and run again: does the file keep everything a later run needs, do the runs implement `IdentityLedger`, and does a pending identity become complete (`PendingCompletes`)? |
| `identities_concurrent` | Two processes, two slots, the same files: what survives lost updates (types, saved before signup, intact pairs, distinct sessions)? |
| `identities_lost_update` | Expected violation: two processes and an empty file; see Findings. |
| `paced_ingress` | Two callers, paces of 5 ticks against refills of 4 (4/s against 5/s; 8/s against 10/s), bucket of one token, all refill phases, outsiders: are slots apart, is each request dispatched, and is a 429 always somebody else's? |
| `bootstrap` | Two runs, two revisions, four packages, two tools, two changes by hand: does a run that nobody disturbs find exactly the locked environment, and is a settled one left alone unless a look at it fails? |
| `bootstrap_recovery` | Liveness: one operator, one change by hand. |
| `disposable` | One process, two executions, two disposable and two reusable accounts, four resolutions of identities (right; a session that shows another's subject; a target resolved to the admin; two targets resolved to one user), one record damaged by hand: is a deactivation only requested for the execution's own account and on record, are records preserved, and does passing imply revocation? |
| `evidence` | Two commands, two packages, three selections (one an upgrade, one with a package more), one change by hand: is a directory that validates, or a success, what it claims, and is a failure visible? |
| `browser_flow` | Two requests to each path at most, so that a path is answered while another request to it is open: what the audit says, what a failure leaves, and does each flow end? |
| `browser_audit` | Expected violation: see Findings. |
| `local_run` | Two commands of any kind on one working copy, two deployments, any number of refreshes, in every interleaving: what do a start of the tests, a green exit and the reports imply? A reviewed repository and one ahead of the contract meet all of it; each odd repository and document is judged by a first command of each kind (constraint `Interesting`). |
| `pytest_session` | Every environment file with every override; suites of up to four of the kinds of tests in `tests/api`, those that skip themselves included; sessions that are missing, equal, of one account or of the wrong role; one change of `ADMIN`. Files other than five characteristic ones meet the expected users only (constraint `Interesting`). |

Why the bounds are enough. Three identities let each role of the solo run get one
and leave none over when a mutant generates a second time; two processes are
enough to lose an update, and the proofs cover any number. The files
were picked to reach each branch of `Resolve`. A bucket with one token is the
strictest ingress; with more burst there is more room. Two changes by hand
let an edit be taken back, the case in which a marker matches again by accident. Two commands
are what it takes to mix reports of two, and two deployments let the contract come back; more of either
is covered by the proofs. The odd repositories and documents differ from the good ones in one
thing, so that no gate hides behind another. One change of `ADMIN` is enough to fall between any two
requests for an identity.

The runs do not repeat the type invariants (`TypeOK` of `Bootstrap`, `DisposableTargets`, `BrowserLogin`,
`RequestPacing`, and `LocalRunTypeOK`) and the inductive invariants (`Provenance`, `SlotsHeld`, `SlotReserved`,
`EstablishedAlone`) that are proved for every instance; so are `DependencyEvidence.TypeOK` and
`PacedIngress.IngressTypeOK`.

Deadlock is checked in every run but those of `DisposableTargets` and `DependencyEvidence`, where
the run ids that bound the model run out and everything has ended, that of `LocalRun`, where the number
of commands runs out, and those of
`BrowserLogin`, where a flow ends; that it does is `FlowEnds`. `PytestSession` stutters explicitly when it has
ended (`Ended`), so a session that gets stuck on the way would be found. In `disposable`, processes and
run ids are symmetric: no definition tells one from another, and no liveness is checked.
One process at a time is run there because records are only preserved then; `OwnTargetOnly`,
which does not depend on it, is proved for any number of processes that overwrite each other.

### Fairness

- `RecoveryFairness`: nothing in the code retries; an operator runs the command
  again (weak fairness of `Rerun`), and a step that is reached again and again is not
  killed or failed every time (strong fairness of the steps of a recovery).
  `SignupLost` and `AttemptFails` have no fairness.
- Pacing: time passes; a caller that can run does; a caller that finds the lock free
  again and again gets it (strong fairness of `Acquire`), which is the behaviour of a
  lock with parked waiters and is stated in the module.
- Bootstrap: the command is repeated and each run ends; a command that is reached again
  and again is not failed or killed every single time.

- Browser: the page loads what it needs at least once, the handler continues what is
  paused, answers come, and the flow takes its next step (weak fairness of each). No timeout
  and no failure has fairness, so `FlowEnds` does not hold because a timeout saves it.

### Findings

`SavedValuesPreserved` holds for one process at a time and fails for two: both find an
empty slot, both generate and save an identity, and the second reservation replaces the first
one's pair, whose account may already exist. `README.md` line 219 says that a failed
login or an interrupted signup preserves the same saved identity. The concurrent
run and the proofs show what is *not* lost then: pairs stay whole and in their slot, and an
account is only ever created for a pair that was saved first.

`AuditRejectsBypass` fails: `assert_rate_limited_responses_were_paced` takes one reservation
of the same path for each response, and a reservation whose request has no response yet, or
never gets one, is taken for a response that bypassed the pacing.
`docs/openapi-coverage.md` line 237 says that the audit rejects any such response. In the trace, the application asks
a path under `/auth` twice after the login has landed; one request was paced and is unanswered when the audit
runs, the other bypassed the interception and was answered; the reservation of the first covers the
response of the second. What does hold is `MissesAreCovered`: on each path the audit misses at most as many
responses as there are paced requests without one; and `AccusesRightly`: it never blames a flow whose requests were
all paced.

Two smaller disagreements have no run of their own.

- `docs/admin-authentication.md` lines 71-76 say that `primary_identity` and
  `distinct_admin_user_identities` verify distinct users "without eagerly acquiring the secondary identity";
  the fixture (`pytest_plugin.py` lines 337-342) has `secondary_identity` as a parameter and so acquires that
  session, `SetupOrder` says so. `ForRoles` follows the documentation, and `AcquiredOnRequest` names this
  fixture as its one exception (`Involves`); without the exception TLC finds the property violated by a suite
  with one test that names the fixture.
- `README.md` lines 472-475 of the repository speak of executable evidence for a scenario; `coverage.py`
  lines 384-395 collect the Session Gateway case markers of placeholders too, and so does `ContractGates`
  (`Marked`). `Reviewed` asks no more of a case than such a marker.

Two properties say less than one could wish, because the code does less. `SettledIsReused` excepts a run whose look
has failed. `StartIsReviewed` excepts a full run during which the snapshot was refreshed: its coverage may have
judged one document and its comparison another, so its tests can start on an unreviewed contract;
`PassIsReviewed` shows that such a run does not end green, as long as nothing is deployed during it.

## 4. Proofs

All theorems hold for every value of the constants that satisfies the module's
assumptions; no theorem assumes more unless said here.

- `LocalIdentitiesProofs`: `TypeCorrect`; `Provenance` is the inductive invariant, from
  which `SavedBeforeSignup` and `SavedPairsStayIntact` follow. It is needed because
  the file alone does not say where a value about to be written comes from: the
  invariant has to speak of every content in flight (`WellSaved(call[p].content)`),
  of an identity that is being reserved and is known to one process only
  (`ReservationPrivate`), and of what a variable of the environment cannot contain.
  `SessionsStayDistinct` is about where the identity of a session comes from. `Claimed` says of a role and
  the name it goes by what does not change while a process runs: its environment, and, if the name is
  one the operator configured, the slot that has it (a generated name belongs to one slot anyway, by
  `Provenance`). `ConfiguredKept` is why no stale write takes a configured pair out of its slot: whatever an
  update writes back agrees with the file there. The theorem needs one more assumption than the model
  had, `OutcomesAreNoNames`: the two words for a role without a session are not names.
  For at most one process (`Solo`), `SlotsHeld` is inductive together with the type invariant and
  `Provenance`; every step is then a step of the ledger or a stutter, hence `SoloImplementsLedger`. What
  else is lost with a second process follows from the ledger's steps: `SoloPreservesSaved`,
  `SoloKeepsSlotsUsable`, and, with `AccountsSaved`, `SoloLeavesNoOrphan` and
  `SoloCompletesAccounts`. With two processes these are false (see Findings).
- `RequestPacingProofs`: `SlotReserved` relates the slot given away, the time since
  and the sleeper; it is inductive with the types, and `PaceKept` follows from it. `IngressIsPaced`: a step
  in front of the ingress is a step of the pacing or leaves it alone, so what is proved of the pacing is true there.
  `OnlyOutsidersLimit` has two hypotheses, which hold of the policies of `client.py` as `MCPacedIngress` scales them:
  a token comes back within an interval less the handover (`PacesFit`), and the ingress counts a path by the
  policy that paces it, or not at all (`ClassesAgree`). Without the first one the theorem is false (with a
  burst of one, when a slot is handed over late and the next one in time). `TokenDue` is the invariant: a bucket that no outsider has used
  has a token, or gets one before the next slot, as long as the slot given away last is used or recent
  (`HandedOver`).
- `BootstrapProofs`: `EstablishedAlone` says what a run nobody has disturbed knows at each of
  its commands, among others that it is about to replace a settled environment only after a look has
  failed; `FrozenEnvironment` and `SettledKept` follow.
- `DisposableTargetsProofs`: `OwnTargetOnly` is not inductive: whether a request is for the
  execution's own account depends on where its credentials come from. `TargetInv` adds
  that each saved credential, and each one about to be written back, was generated
  for the run of its record (`WellOwned`), and what an execution has established when
  it gets to a step (`TargetHeld`): that its credentials are its own, that their
  account exists, that what it saw of the target is what those credentials resolve to,
  and, after the bind check, that this is no reusable identity. Only the latter depends on
  `bind_disposable_identity`; the records of other executions, which can be lost,
  are not needed. The theorem holds for every set `Directories`.
  `LoneInv` is for one process at a time, with edits by hand between any two of its steps: `Recorded` says which
  record is its own, that an update in flight agrees with the file but for edited records, and that no other run
  has requested anything for the user it is about to bind; `Verified` what its last checks have seen. From them
  `SoloSavesTargets`, `SoloRecordsRequests`, `SoloPassesRevoked`, and the action property `SoloPreservesRecords`.

- `BrowserLoginProofs`: `Conserved` is the inductive invariant behind the audit: a request is
  paused, under way, given up or answered, and what has left the browser was reserved or has
  bypassed the handler. `AuditIsRight` and `AuditMissesCovered` (what is missed on a path is at most what is
  unanswered there) follow by arithmetic at the audit, for any number of requests. `FailureLogsOut` needs that no session is known before the cookie is read.

- `LocalRunProofs`: the first part is about the gates alone. `UnifiedReviewed` and `GatewayReviewed` show that
  what the gates accept leaves no operation, deferral or case unreviewed; the uniqueness of ids is
  what makes a line of a manifest an operation. `NoDifferences` shows that an empty comparison means the
  same routes and operations, which carries a review from one document to the other
  (`ReviewCarriesOver`). `Accounted` relates stage, reports and exit and gives `ArtifactsExplain`.
  `Followed` adds what each stage has established (`Established`), which gives `StartReviewed` for runs that
  no refresh touches, and, for `PassReviewed`, what a refresh
  under way can still do (`Refreshing`): the snapshot that the unit tests are going to read is
  torn or says what was compared (`Expected`), as long as nothing was deployed. It depends on there
  being one refresh at a time.
  `Numbered` is behind `ReportsTogether`: which reports carry the number of the command that is on its way
  is a matter of its stage alone (`WrittenBefore`), and none of them carries a later one.
- `PytestSessionProofs`: `SetupFacts` is read off the table of fixtures: a session comes before the identity
  it shows, identities before their comparison, and a fixture sets up what is for its roles only.
  With it and the order of `Needs`, an identity is only requested with a session (`AnswerTyped`) and a
  comparison is of accepted identities. `ValuesStay` and `GetsItsValue` say that a kept fixture is not
  set up again; `Vouched`, `Compared` and `WasSetUp` are the invariants behind `UsersAreRight`.
  `Once`, `Through`, `Policed`, `Stopped` and `Requested` are those of the other theorems. The assumption
  on suites is that the session fixtures tests name are the plugin's; what their own fixtures and bodies skip is
  `SkipsItself`. `GreenMeansRan` therefore has its two exceptions (`MaySkipItself`), and `OnRequestOnly` the one of
  `AcquiredOnRequest`.

- `DependencyEvidenceProofs`: a command writes its files one after the other, so an invariant over the files alone is
  not inductive. The proof speaks of promises: `Will(files, Pending, e)` says that, once everything that is about to be
  written is written, the file of `e` holds what `e` says. Writing the next file keeps every promise
  (`WriteKeepsPromise`), a step of the generation keeps those whose files it does not write again (`NextStep`), and an
  interrupted write breaks those of one file only, which the failure handlers do not need (`Interruption`).
  `Generated` lists what each stage has promised; at the validation all is written, and the files agree because
  comparisons without a difference are equalities (`ExactIsEqual`, `FilesAgree`). `Completions` then says that a whole
  completion.json names digests of files that agreed, whoever wrote it and whatever happened since, which is
  why `ValidatedAgrees` holds of directories left by killed and by failed commands. `Sealed` gives
  `SuccessValidates`, `Reported` gives `FailureReports`, and `OwnFiles` that no file of an earlier run is left.

Only model-checked are the liveness properties (`PendingCompletes`, `EveryRequestDispatched`, `RunsRecover`,
`FlowEnds`), which are out of the prover's reach. Proved for one process at a time only, as they are false for two or
not claimed by the repository: the refinement of `LocalIdentities` and its consequences, and the properties of
`DisposableTargets` other than `OwnTargetOnly`.

## 5. Not modelled

- Request builders and resources, assertions on response bodies, redirects and texts, redaction and logging:
  stateless code with nothing to relate to a state. `schemas.py` delegates to a library.
- `dependency_contract.py` and `dependency_inventory.py` parse and compare files; their verdicts are inputs
  (`repo.lockstep` of `LocalRun`, the findings of `DependencyEvidence`).
- `tools/validate_environment.py` loads a configuration and does nothing else; the rules are those of
  `PytestSession.Loads`.
- The staging login with credentials from two variables is an outcome of `AcquireSession`; it keeps
  no state.
- The syntax of YAML, JSON and Python files, and which of several errors is reported first.
- The live tests themselves: what they send and assert concerns the services, except for the deactivation
  scenario.
