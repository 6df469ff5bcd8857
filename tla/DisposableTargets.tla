------------------------- MODULE DisposableTargets -------------------------
(***************************************************************************)
(* The deactivation lifecycle: each execution reserves, signs up and binds *)
(* a disposable account of its own (src/api_tests/auth.py                  *)
(* acquire_disposable_browser_target, src/api_tests/local_credentials.py)  *)
(* and then has it deactivated, once by a normal user who must be refused  *)
(* and twice by the reusable admin (tests/api/users/                       *)
(* test_admin_deactivation.py, src/api_tests/admin_deactivation.py).       *)
(*                                                                         *)
(* The system under test is not trusted: which subject a session shows,    *)
(* which user that subject resolves to, and what a deactivation request    *)
(* does to accounts and sessions, whatever it answers, are its choice.     *)
(* The records live in `.env.local`, which other executions and operators  *)
(* change between the read and the replacement of an update.  The          *)
(* reusable identities are resolved before the target is acquired.         *)
(***************************************************************************)
EXTENDS FiniteSets, Naturals

CONSTANTS Proc,         \* processes started by ./run-tests
          Run,          \* run ids of their executions
          Reusable,     \* accounts of the primary, secondary and admin slots
          Fresh,        \* identities generate_local_credentials can return
          Unset,        \* a variable that is missing or blank
          Directories,  \* how the system under test can resolve identities
          MaxEdits      \* records an operator damages, to bound the model

Account == Reusable \cup Fresh

ASSUME TargetAssumption ==
    /\ Reusable \cap Fresh = {}
    /\ Unset \notin Account \cup Run
    /\ Directories \subseteq [subject : [Account -> Account], user : [Account -> Account]]
    /\ MaxEdits \in Nat

\* The variables of one record; username and password are one credential.
Record == [owner : Run \cup {Unset}, cred : Account \cup {Unset},
           state : {"unset", "pending", "complete", "invalid"},
           subject : Account \cup {Unset}, user : Account \cup {Unset}]

NoRecord == [owner |-> Unset, cred |-> Unset, state |-> "unset",
             subject |-> Unset, user |-> Unset]

NoContent == [r \in Run |-> NoRecord]

VARIABLES
    records,    \* disposable records in `.env.local`
    edited,     \* runs whose record an operator has changed
    owner,      \* history: owner[c]: run that c was generated for
    accounts,   \* generated identities that have signed up
    directory,  \* subject of each account's session, user of each subject
    status,     \* status[u]: "active", "partial" (roles kept), "deactivated"
    live,       \* live[p]: sessions of its target that the gateway accepts
    requested,  \* history: <<run, user>> of the deactivation requests sent
    used,       \* run ids that are taken
    pc,         \* pc[p]: next step of the execution
    run,        \* run[p]: its run id
    target,     \* target[p]: its DisposableCredentialRecord
    seen,       \* seen[p]: subject and user that the target resolved to
    content     \* content[p]: records read by the update in progress

file == <<records, edited>>
system == <<accounts, directory, status, live>>
vars == <<file, owner, system, requested, used, pc, run, target, seen, content>>

Acquisition == {"load", "reserve", "reserving", "signup", "login", "mark",
                "complete", "completing"}
Lifecycle == {"identify", "bind", "bind-read", "binding", "second", "denial",
              "unchanged", "deactivate", "verify", "revoked", "repeat",
              "repeated", "reusables"}
Ended == {"idle", "unprovisioned", "failed", "passed"}

SubjectOf(c) == directory.subject[c]
UserOf(s) == directory.user[s]
ReusableSubjects == {SubjectOf(c) : c \in Reusable}
ReusableUsers == {UserOf(s) : s \in ReusableSubjects}

Init ==
    /\ records = [r \in Run |-> NoRecord]
    /\ edited = {}
    /\ owner = [c \in Fresh |-> Unset]
    /\ accounts = {}
    /\ directory \in Directories
    /\ status = [u \in Account |-> "active"]
    /\ live = [p \in Proc |-> {}]
    /\ requested = {}
    /\ used = {}
    /\ pc = [p \in Proc |-> "idle"]
    /\ run = [p \in Proc |-> Unset]
    /\ target = [p \in Proc |-> NoRecord]
    /\ seen = [p \in Proc |-> [subject |-> Unset, user |-> Unset]]
    /\ content = [p \in Proc |-> NoContent]

Goto(p, from, to) ==
    /\ pc[p] = from
    /\ pc' = [pc EXCEPT ![p] = to]

\* distinct_admin_user_identities holds, and the run id is new.
Begin(p, r) ==
    /\ pc[p] \in Ended
    /\ r \notin used
    /\ \A a, b \in Reusable : SubjectOf(a) = SubjectOf(b) => a = b
    /\ pc' = [pc EXCEPT ![p] = "load"]
    /\ run' = [run EXCEPT ![p] = r]
    /\ used' = used \cup {r}
    /\ live' = [live EXCEPT ![p] = {}]
    /\ target' = [target EXCEPT ![p] = NoRecord]
    /\ seen' = [seen EXCEPT ![p] = [subject |-> Unset, user |-> Unset]]
    /\ UNCHANGED <<file, owner, accounts, directory, status, requested, content>>

-----------------------------------------------------------------------------
\* load_or_create_disposable_credentials

DistinctUsername(r, c) ==
    /\ c \notin Reusable
    /\ \A s \in Run \ {r} : records[s].cred # c

\* A stored record that the run may resume; else a LocalCredentialError.
Resumable(r) ==
    LET saved == records[r] IN
    /\ saved.owner = r
    /\ saved.cred # Unset
    /\ saved.state \in {"pending", "complete"}
    /\ (saved.subject = Unset) = (saved.user = Unset)
    /\ saved.subject # Unset => saved.state = "complete"
    /\ DistinctUsername(r, saved.cred)

Load(p) ==
    /\ pc[p] = "load"
    /\ Resumable(run[p])
    /\ target' = [target EXCEPT ![p] = records[run[p]]]
    /\ pc' = [pc EXCEPT ![p] = IF target'[p].state = "complete" THEN "login" ELSE "signup"]
    /\ UNCHANGED <<file, owner, system, requested, used, run, seen, content>>

Pending(r, c) == [NoRecord EXCEPT !.owner = r, !.cred = c, !.state = "pending"]

\* Mutants of Generate: the identity signs up before it is saved; a saved
\* record is not resumed.
GenerateUnsaved(p, c) ==
    /\ Goto(p, "load", "signup")
    /\ records[run[p]] = NoRecord
    /\ owner[c] = Unset
    /\ owner' = [owner EXCEPT ![c] = run[p]]
    /\ target' = [target EXCEPT ![p] = Pending(run[p], c)]
    /\ UNCHANGED <<file, system, requested, used, run, seen, content>>

GenerateAnew(p, c) ==
    /\ Goto(p, "load", "reserve")
    /\ owner[c] = Unset
    /\ DistinctUsername(run[p], c)
    /\ owner' = [owner EXCEPT ![c] = run[p]]
    /\ target' = [target EXCEPT ![p] = Pending(run[p], c)]
    /\ UNCHANGED <<file, system, requested, used, run, seen, content>>

Generate(p, c) ==
    /\ Goto(p, "load", "reserve")
    /\ records[run[p]] = NoRecord
    /\ owner[c] = Unset
    /\ DistinctUsername(run[p], c)
    /\ owner' = [owner EXCEPT ![c] = run[p]]
    /\ target' = [target EXCEPT ![p] = Pending(run[p], c)]
    /\ UNCHANGED <<file, system, requested, used, run, seen, content>>

\* _update_credential_file reads everything, and replaces everything.
ReadContent(p, from, to) ==
    /\ Goto(p, from, to)
    /\ content' = [content EXCEPT ![p] = records]
    /\ UNCHANGED <<file, owner, system, requested, used, run, target, seen>>

WithPending(c, r, rec) ==
    [c EXCEPT ![r] = [@ EXCEPT !.owner = r, !.cred = rec.cred, !.state = "pending"]]

SaveReservation(p) ==
    /\ Goto(p, "reserving", "signup")
    /\ records' = WithPending(content[p], run[p], target[p])
    /\ content' = [content EXCEPT ![p] = NoContent]
    /\ UNCHANGED <<edited, owner, system, requested, used, run, target, seen>>

-----------------------------------------------------------------------------
\* acquire_disposable_browser_target: signup or login, then completion

SignsUp(p, next) ==
    /\ Goto(p, "signup", next)
    /\ target[p].cred \notin accounts
    /\ accounts' = accounts \cup {target[p].cred}
    /\ UNCHANGED <<file, owner, directory, status, requested, used, run, target, seen, content>>

SignupSucceeds(p) ==
    /\ SignsUp(p, "mark")
    /\ live' = [live EXCEPT ![p] = @ \cup {"first"}]

\* The account exists, but the browser flow reports an error.
SignupLost(p) ==
    /\ SignsUp(p, "unprovisioned")
    /\ UNCHANGED live

SignupAccountExists(p) ==
    /\ Goto(p, "signup", "login")
    /\ target[p].cred \in accounts
    /\ UNCHANGED <<file, owner, system, requested, used, run, target, seen, content>>

Login(p) ==
    /\ Goto(p, "login", IF target[p].state = "complete" THEN "identify" ELSE "mark")
    /\ target[p].cred \in accounts
    /\ live' = [live EXCEPT ![p] = @ \cup {"first"}]
    /\ UNCHANGED <<file, owner, accounts, directory, status, requested, used, run, target,
                   seen, content>>

\* _require_saved_disposable_record
Saved(p) ==
    LET saved == records[run[p]] IN
    /\ saved.owner = run[p]
    /\ saved.cred = target[p].cred
    /\ saved.state = target[p].state

MarkChecked(p) ==
    /\ Goto(p, "mark", "complete")
    /\ Saved(p)
    /\ UNCHANGED <<file, owner, system, requested, used, run, target, seen, content>>

SaveCompletion(p) ==
    /\ Goto(p, "completing", "identify")
    /\ records' = [content[p] EXCEPT ![run[p]].state = "complete"]
    /\ target' = [target EXCEPT ![p].state = "complete"]
    /\ content' = [content EXCEPT ![p] = NoContent]
    /\ UNCHANGED <<edited, owner, system, requested, used, run, seen>>

\* "Pending signup retries in the same execution reuse the saved credentials."
Retry(p) ==
    /\ Goto(p, "unprovisioned", "load")
    /\ UNCHANGED <<file, owner, system, requested, used, run, target, seen, content>>

-----------------------------------------------------------------------------
\* Binding the target to its public subject and its canonical user

\* The first session's subject, resolved by the admin to an active user.
Identify(p) ==
    LET s == SubjectOf(target[p].cred) IN
    /\ Goto(p, "identify", "bind")
    /\ "first" \in live[p]
    /\ status[UserOf(s)] = "active"
    /\ seen' = [seen EXCEPT ![p] = [subject |-> s, user |-> UserOf(s)]]
    /\ UNCHANGED <<file, owner, system, requested, used, run, target, content>>

\* Mutant of NotReusable: the resolved user is not looked at.
NotReusableSubject(p) == seen[p].subject \notin ReusableSubjects

NotReusable(p) ==
    /\ seen[p].subject \notin ReusableSubjects
    /\ seen[p].user \notin ReusableUsers

\* bind_disposable_identity
Bindable(p) ==
    /\ target[p].owner = run[p]
    /\ target[p].state = "complete"
    /\ NotReusable(p)
    /\ Saved(p)
    /\ \A r \in Run \ {run[p]} : /\ records[r].subject # seen[p].subject
                                 /\ records[r].user # seen[p].user
    /\ target[p].subject \in {Unset, seen[p].subject}
    /\ target[p].user \in {Unset, seen[p].user}

BindChecked(p) ==
    /\ Goto(p, "bind", "bind-read")
    /\ Bindable(p)
    /\ UNCHANGED <<file, owner, system, requested, used, run, target, seen, content>>

\* Mutant of SaveBinding: the binding is only kept in memory.
BindUnsaved(p) ==
    /\ Goto(p, "binding", "second")
    /\ target' = [target EXCEPT ![p].subject = seen[p].subject, ![p].user = seen[p].user]
    /\ content' = [content EXCEPT ![p] = NoContent]
    /\ UNCHANGED <<file, owner, system, requested, used, run, seen>>

SaveBinding(p) ==
    /\ Goto(p, "binding", "second")
    /\ records' = [content[p] EXCEPT ![run[p]].subject = seen[p].subject,
                                     ![run[p]].user = seen[p].user]
    /\ target' = [target EXCEPT ![p].subject = seen[p].subject, ![p].user = seen[p].user]
    /\ content' = [content EXCEPT ![p] = NoContent]
    /\ UNCHANGED <<edited, owner, system, requested, used, run, seen>>

-----------------------------------------------------------------------------
\* The deactivation requests

Sessions == {"first", "second"}

\* A second login; both sessions have to show the bound subject and user.
SecondLogin(p) ==
    /\ Goto(p, "second", "denial")
    /\ "first" \in live[p]
    /\ live' = [live EXCEPT ![p] = Sessions]
    /\ SubjectOf(target[p].cred) = seen[p].subject
    /\ UNCHANGED <<file, owner, accounts, directory, status, requested, used, run, target,
                   seen, content>>

\* require_owned_disposable_identity
Owned(p) ==
    /\ target[p].owner = run[p]
    /\ target[p].state = "complete"
    /\ target[p].subject = seen[p].subject
    /\ target[p].user = seen[p].user
    /\ NotReusable(p)

\* POST /v1/users/{id}/deactivate, whatever it is answered: the system under
\* test may change this account or a reusable one, and end sessions.
Post(p) ==
    /\ requested' = requested \cup {<<run[p], seen[p].user>>}
    /\ \/ \E st \in {"active", "partial", "deactivated"} :
            status' = [status EXCEPT ![seen[p].user] = st]
       \/ \E u \in ReusableUsers : status' = [status EXCEPT ![u] = "deactivated"]
    /\ \E accepted \in SUBSET live[p] : live' = [live EXCEPT ![p] = accepted]
    /\ UNCHANGED <<file, owner, accounts, directory, used, run, target, seen, content>>

\* The normal user is answered 403.
Denied(p) ==
    /\ Goto(p, "denial", "unchanged")
    /\ Owned(p)
    /\ Post(p)

\* The account is unchanged and both sessions still work.
VerifyUnchanged(p) ==
    /\ Goto(p, "unchanged", "deactivate")
    /\ status[seen[p].user] = "active"
    /\ live[p] = Sessions
    /\ UNCHANGED <<file, owner, system, requested, used, run, target, seen, content>>

\* The admin is answered 200 with the expected result.
Deactivated(p) ==
    /\ Goto(p, "deactivate", "verify")
    /\ Owned(p)
    /\ Post(p)

VerifyDeactivated(p) ==
    /\ Goto(p, "verify", "revoked")
    /\ status[seen[p].user] = "deactivated"
    /\ UNCHANGED <<file, owner, system, requested, used, run, target, seen, content>>

\* Mutant of VerifyRevoked: the original cookie of the first session only.
VerifyFirstRevoked(p) ==
    /\ Goto(p, "revoked", "repeat")
    /\ "first" \notin live[p]
    /\ UNCHANGED <<file, owner, system, requested, used, run, target, seen, content>>

\* assert_sessions_revoked
VerifyRevoked(p) ==
    /\ Goto(p, "revoked", "repeat")
    /\ live[p] = {}
    /\ UNCHANGED <<file, owner, system, requested, used, run, target, seen, content>>

\* The second request of the admin is answered 200 with nothing removed.
Repeated(p) ==
    /\ Goto(p, "repeat", "repeated")
    /\ Post(p)

VerifyRepeated(p) ==
    /\ Goto(p, "repeated", "reusables")
    /\ status[seen[p].user] = "deactivated"
    /\ UNCHANGED <<file, owner, system, requested, used, run, target, seen, content>>

Passes(p) ==
    /\ Goto(p, "reusables", "passed")
    /\ \A u \in ReusableUsers : status[u] = "active"
    /\ UNCHANGED <<file, owner, system, requested, used, run, target, seen, content>>

\* A request is answered with an error, 503 included, and is not sent again.
PostFails(p) ==
    /\ pc[p] \in {"denial", "deactivate", "repeat"}
    /\ pc[p] # "repeat" => Owned(p)
    /\ pc' = [pc EXCEPT ![p] = "failed"]
    /\ Post(p)

-----------------------------------------------------------------------------
\* A check or a request fails, or the process is killed.
Fails(p) ==
    /\ pc[p] \in Acquisition \cup Lifecycle
    /\ pc' = [pc EXCEPT ![p] = IF pc[p] \in Acquisition THEN "unprovisioned" ELSE "failed"]
    /\ UNCHANGED <<file, owner, system, requested, used, run, target, seen, content>>

\* An operator deletes a record or damages one of its variables.
EditByHand(r) ==
    /\ records[r] # NoRecord
    /\ Cardinality(edited \cup {r}) <= MaxEdits
    /\ edited' = edited \cup {r}
    /\ \E rec \in {NoRecord, [records[r] EXCEPT !.cred = Unset],
                   [records[r] EXCEPT !.state = "pending"],
                   [records[r] EXCEPT !.state = "invalid"],
                   [records[r] EXCEPT !.user = Unset]} :
         records' = [records EXCEPT ![r] = rec]
    /\ UNCHANGED <<owner, system, requested, used, pc, run, target, seen, content>>

Acquire(p) ==
    \/ Load(p)
    \/ \E c \in Fresh : Generate(p, c)
    \/ ReadContent(p, "reserve", "reserving")
    \/ SaveReservation(p)
    \/ SignupSucceeds(p)
    \/ SignupLost(p)
    \/ SignupAccountExists(p)
    \/ Login(p)
    \/ MarkChecked(p)
    \/ ReadContent(p, "complete", "completing")
    \/ SaveCompletion(p)
    \/ Retry(p)

Bind(p) ==
    \/ Identify(p)
    \/ BindChecked(p)
    \/ ReadContent(p, "bind-read", "binding")
    \/ SaveBinding(p)

Deactivate(p) ==
    \/ SecondLogin(p)
    \/ Denied(p)
    \/ VerifyUnchanged(p)
    \/ Deactivated(p)
    \/ VerifyDeactivated(p)
    \/ VerifyRevoked(p)
    \/ Repeated(p)
    \/ VerifyRepeated(p)
    \/ Passes(p)
    \/ PostFails(p)

Advance(p) ==
    \/ \E r \in Run : Begin(p, r)
    \/ Acquire(p)
    \/ Bind(p)
    \/ Deactivate(p)
    \/ Fails(p)

Next == \/ \E p \in Proc : Advance(p)
        \/ \E r \in Run : EditByHand(r)

Spec == Init /\ [][Next]_vars

-----------------------------------------------------------------------------
\* Every variable keeps its type.
TypeOK ==
    /\ records \in [Run -> Record]
    /\ edited \subseteq Run
    /\ owner \in [Fresh -> Run \cup {Unset}]
    /\ accounts \subseteq Fresh
    /\ directory \in Directories
    /\ status \in [Account -> {"active", "partial", "deactivated"}]
    /\ live \in [Proc -> SUBSET Sessions]
    /\ requested \subseteq Run \X Account
    /\ used \subseteq Run
    /\ pc \in [Proc -> Acquisition \cup Lifecycle \cup Ended]
    /\ run \in [Proc -> Run \cup {Unset}]
    /\ target \in [Proc -> Record]
    /\ seen \in [Proc -> [subject : Account \cup {Unset}, user : Account \cup {Unset}]]
    /\ content \in [Proc -> [Run -> Record]]
    /\ \A p \in Proc : pc[p] # "idle" => run[p] \in Run

\* "Earlier records are preserved, never reused as a later target", and
\* "refusing to treat a reusable identity as disposable": however the system
\* under test resolves sessions and subjects, and whatever other executions
\* write, a deactivation is only requested for a user behind an account that
\* this very execution has generated and signed up, never for a reusable one.
OwnTargetOnly ==
    \A r \in Run, u \in Account : <<r, u>> \in requested =>
      /\ u \notin ReusableUsers
      /\ \E c \in accounts : owner[c] = r /\ u = UserOf(SubjectOf(c))

\* "binds the authenticated public subject and exact admin-resolved canonical
\* user id to that record before any deactivation request": the file tells, of
\* any account that may be deactivated, which execution did it and under which
\* credentials, and no two executions claim one user.
RequestsAreOnRecord ==
    \A r \in Run, u \in Account :
      <<r, u>> \in requested /\ r \notin edited =>
        /\ records[r].owner = r
        /\ records[r].state = "complete"
        /\ records[r].user = u
        /\ UserOf(SubjectOf(records[r].cred)) = u
        /\ \A s \in Run \ {r} : <<s, u>> \in requested => s \in edited

\* "writes one run/scenario-scoped disposable credential record ... before
\* hosted signup": a created account can be found, and logged in to, by its
\* record.
TargetsSaved ==
    \A c \in accounts : owner[c] \in edited \/ records[owner[c]].cred = c

\* "Earlier records are preserved ... and never swept": no step of an execution
\* changes a saved credential, its owner or its binding, or takes back complete.
RecordsPreserved ==
    [][\A r \in Run \ edited' :
         /\ records[r].owner # Unset => records'[r].owner = records[r].owner
         /\ records[r].cred # Unset => records'[r].cred = records[r].cred
         /\ records[r].user # Unset => records'[r].user = records[r].user
         /\ records[r].subject # Unset => records'[r].subject = records[r].subject
         /\ records[r].state = "complete" => records'[r].state = "complete"]_vars

\* The scenario "proves ... bulk revocation of two distinct sessions": it does
\* not pass when the system under test left the account active or with roles,
\* restored it at the replay, left a session alive or hit a reusable identity.
PassedMeansRevoked ==
    \A p \in Proc :
      pc[p] = "passed" =>
        /\ status[seen[p].user] = "deactivated"
        /\ live[p] = {}
        /\ \A u \in ReusableUsers : status[u] = "active"

=============================================================================
