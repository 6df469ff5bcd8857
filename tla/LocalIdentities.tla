-------------------------- MODULE LocalIdentities --------------------------
(***************************************************************************)
(* Acquisition of the reusable local browser identities: test processes    *)
(* (src/api_tests/auth.py acquire_browser_session and                      *)
(* load_existing_browser_credentials) that share one `.env.local` file     *)
(* (src/api_tests/local_credentials.py) and sign up or log in at the       *)
(* identity provider behind the gateway.                                   *)
(*                                                                         *)
(* Nothing locks the file.  An update reads the whole content, computes    *)
(* the new content and replaces the file, so its steps interleave with     *)
(* those of another process; a process can be killed between any two steps *)
(* and run again.  The target is the exact local one with                  *)
(* browser_preprovisioned mode: any other is refused before the first      *)
(* access to environment or file.                                          *)
(***************************************************************************)
EXTENDS CredentialFile

CONSTANTS Proc,             \* processes started by ./run-tests
          InitialFiles,     \* contents `.env.local` can start with
          Environments,     \* BA_*_TEST_* variables a process can start with
          InitialAccounts   \* accounts the identity provider can start with

\* What the operator configured cannot contain an identity nobody generated.
ASSUME InitialAssumption ==
    /\ InitialFiles \subseteq
         [Role -> [username : Supplied \cup {Unset},
                   password : Supplied \cup {Unset}, state : AccountState]]
    /\ Environments \subseteq
         [Role -> [username : Supplied \cup {Unset},
                   password : Supplied \cup {Unset}]]
    /\ InitialAccounts \subseteq SUBSET Supplied

VARIABLES
    file,       \* `.env.local`
    accounts,   \* identity provider: username -> password, Unset if no account
    generated,  \* identities generate_local_credentials has returned
    retained,   \* history: <<role, identity>> pairs a reservation has written
    environ,    \* environ[p]: environment variables of the running process
    pc,         \* pc[p]: next step of the acquisition p executes
    call,       \* call[p]: what that acquisition knows
    session     \* session[p][r]: outcome of the session fixture of role r

vars == <<file, accounts, generated, retained, environ, pc, call, session>>

Step == {"idle", "reserve", "reserving", "signup", "login", "mark",
         "complete", "completing"}

Credentials == [username : Identity, password : Identity]

NoFile == [r \in Role |-> NoRecord]

\* purpose: a fixture acquires a "session", the OAuth lifecycle test loads an
\* "existing" identity; pending: the record needs signup and completion;
\* content: what _update_credential_file has read and is about to rewrite.
Call == [role    : Role,
         purpose : {"session", "existing"},
         cred    : Credentials,
         pending : BOOLEAN,
         content : File]

NoCall == [role |-> Unset]

NoPair == [username |-> Unset, password |-> Unset]

PairOf(e) == [username |-> e.username, password |-> e.password]

\* What the session-scoped fixture of a role holds: not requested yet, a
\* cached exception, or a session of the account with that username.
Outcome == Identity \cup {"todo", "failed"}

\* A session is told from the lack of one.
ASSUME OutcomesAreNoNames == {"todo", "failed"} \cap Identity = {}

Init ==
    /\ file \in InitialFiles
    /\ \E existing \in InitialAccounts :
         accounts = [u \in Identity |-> IF u \in existing THEN u ELSE Unset]
    /\ generated = {}
    /\ retained = {}
    /\ environ \in [Proc -> Environments]
    /\ pc = [p \in Proc |-> "idle"]
    /\ call = [p \in Proc |-> NoCall]
    /\ session = [p \in Proc |-> [r \in Role |-> "todo"]]

-----------------------------------------------------------------------------
\* Control of one acquisition

Goto(p, from, to) ==
    /\ pc[p] = from
    /\ pc' = [pc EXCEPT ![p] = to]

\* The call returns or raises; `outcome` is what the fixture of its role caches.
Finish(p, from, outcome) ==
    /\ Goto(p, from, "idle")
    /\ call' = [call EXCEPT ![p] = NoCall]
    /\ session' = [session EXCEPT ![p][call[p].role] = outcome]

\* A fixture asks for a role once per process; pytest caches what it got.
Request(p, r) ==
    /\ pc[p] = "idle"
    /\ session[p][r] = "todo"

-----------------------------------------------------------------------------
\* load_or_create_local_credentials

\* The credentials are refused: the fixture fails, nothing is written.
LoadRejected(p, r) ==
    /\ Request(p, r)
    /\ Resolve(environ[p], file, r) = "rejected"
    /\ session' = [session EXCEPT ![p][r] = "failed"]
    /\ UNCHANGED <<file, accounts, generated, retained, environ, pc, call>>

Start(p, r, why, credentials, isPending, step) ==
    /\ Goto(p, "idle", step)
    /\ call' = [call EXCEPT ![p] =
                  [role |-> r, purpose |-> why, cred |-> credentials,
                   pending |-> isPending, content |-> NoFile]]
    /\ UNCHANGED <<file, accounts, retained, environ, session>>

LoadExternal(p, r) ==
    /\ Request(p, r)
    /\ Resolve(environ[p], file, r) = "external"
    /\ Start(p, r, "session", PairOf(environ[p][r]), FALSE, "login")
    /\ UNCHANGED generated

LoadComplete(p, r) ==
    /\ Request(p, r)
    /\ Resolve(environ[p], file, r) = "complete"
    /\ Start(p, r, "session", PairOf(file[r]), FALSE, "login")
    /\ UNCHANGED generated

\* Mutant of LoadPending: a resumed identity is taken to have its account.
LoadPendingAsSignedUp(p, r) ==
    /\ Request(p, r)
    /\ Resolve(environ[p], file, r) = "pending"
    /\ Start(p, r, "session", PairOf(file[r]), TRUE, "mark")
    /\ UNCHANGED generated

LoadPending(p, r) ==
    /\ Request(p, r)
    /\ Resolve(environ[p], file, r) = "pending"
    /\ Start(p, r, "session", PairOf(file[r]), TRUE, "signup")
    /\ UNCHANGED generated

\* Mutant of Generate: the identity is used before it is saved.
GenerateUnsaved(p, r, id, why) ==
    /\ Request(p, r)
    /\ Resolve(environ[p], file, r) = "generate"
    /\ id \in Fresh \ generated
    /\ generated' = generated \cup {id}
    /\ Start(p, r, why, [username |-> id, password |-> id], TRUE, "signup")

\* No record yet: a fresh identity, to be saved before anything uses it.  The
\* same call serves load_existing_browser_credentials, which raises afterwards
\* because the record it just created is pending.
Generate(p, r, id, why) ==
    /\ IF why = "session" THEN Request(p, r) ELSE pc[p] = "idle"
    /\ Resolve(environ[p], file, r) = "generate"
    /\ id \in Fresh \ generated
    /\ DistinctUsername(environ[p], file, r, id)
    /\ generated' = generated \cup {id}
    /\ Start(p, r, why, [username |-> id, password |-> id], TRUE, "reserve")

\* _update_credential_file reads the file again ...
ReadContent(p, from, to) ==
    /\ Goto(p, from, to)
    /\ call' = [call EXCEPT ![p].content = file]
    /\ UNCHANGED <<file, accounts, generated, retained, environ, session>>

ReadForReservation(p) == ReadContent(p, "reserve", "reserving")

\* Mutant of SaveReservation: it forgets the call a fixture goes on with.
SaveReservationAndForget(p) ==
    /\ Goto(p, "reserving", IF call[p].purpose = "session" THEN "signup" ELSE "idle")
    /\ file' = WithReservation(call[p].content, call[p].role, call[p].cred)
    /\ retained' = retained \cup {<<call[p].role, call[p].cred.username>>}
    /\ call' = [call EXCEPT ![p] = NoCall]
    /\ UNCHANGED <<accounts, generated, environ, session>>

\* ... and os.replace publishes what it computed from that content.
SaveReservation(p) ==
    /\ Goto(p, "reserving", IF call[p].purpose = "session" THEN "signup" ELSE "idle")
    /\ file' = WithReservation(call[p].content, call[p].role, call[p].cred)
    /\ retained' = retained \cup {<<call[p].role, call[p].cred.username>>}
    /\ call' = IF call[p].purpose = "session"
               THEN [call EXCEPT ![p].content = NoFile]
               ELSE [call EXCEPT ![p] = NoCall]
    /\ UNCHANGED <<accounts, generated, environ, session>>

-----------------------------------------------------------------------------
\* Signup and login at the identity provider

AccountExists(p) == accounts[call[p].cred.username] # Unset

CreateAccount(p) ==
    /\ ~AccountExists(p)
    /\ accounts' = [accounts EXCEPT ![call[p].cred.username] = call[p].cred.password]

SignupSucceeds(p) ==
    /\ Goto(p, "signup", "mark")
    /\ CreateAccount(p)
    /\ UNCHANGED <<file, generated, retained, environ, call, session>>

\* The account is created but the flow raises later: a lost callback, a
\* timeout, a session that cannot be read or verified.
SignupLost(p) ==
    /\ Finish(p, "signup", "failed")
    /\ CreateAccount(p)
    /\ UNCHANGED <<file, generated, retained, environ>>

\* Mutant of SignupAccountExists: an existing account is an error.
SignupAccountExistsFails(p) ==
    /\ Finish(p, "signup", "failed")
    /\ AccountExists(p)
    /\ UNCHANGED <<file, accounts, generated, retained, environ>>

\* BrowserAccountExistsError: log in with the saved credentials instead.
SignupAccountExists(p) ==
    /\ Goto(p, "signup", "login")
    /\ AccountExists(p)
    /\ UNCHANGED <<file, accounts, generated, retained, environ, call, session>>

CanLogin(p) ==
    /\ AccountExists(p)
    /\ accounts[call[p].cred.username] = call[p].cred.password

LoginReturns(p) ==
    /\ Finish(p, "login", call[p].cred.username)
    /\ ~call[p].pending
    /\ CanLogin(p)
    /\ UNCHANGED <<file, accounts, generated, retained, environ>>

LoginAfterSignup(p) ==
    /\ Goto(p, "login", "mark")
    /\ call[p].pending
    /\ CanLogin(p)
    /\ UNCHANGED <<file, accounts, generated, retained, environ, call, session>>

-----------------------------------------------------------------------------
\* mark_local_credentials_complete

SameCredentials(p) == PairOf(file[call[p].role]) = call[p].cred

MarkChecked(p) ==
    /\ Goto(p, "mark", "complete")
    /\ SameCredentials(p)
    /\ UNCHANGED <<file, accounts, generated, retained, environ, call, session>>

\* "changed while provisioning": the acquired session is dropped.
MarkRejected(p) ==
    /\ Finish(p, "mark", "failed")
    /\ ~SameCredentials(p)
    /\ UNCHANGED <<file, accounts, generated, retained, environ>>

ReadForCompletion(p) == ReadContent(p, "complete", "completing")

SaveCompletion(p) ==
    /\ Finish(p, "completing", call[p].cred.username)
    /\ file' = WithComplete(call[p].content, call[p].role)
    /\ UNCHANGED <<accounts, generated, retained, environ>>

-----------------------------------------------------------------------------
\* Failures

\* Any step of an acquisition can raise (I/O error, browser failure, wrong
\* password); the temporary file is removed and the file keeps its content.
AttemptFails(p) ==
    /\ pc[p] # "idle"
    /\ Finish(p, pc[p],
              IF call[p].purpose = "session" THEN "failed"
              ELSE session[p][call[p].role])
    /\ UNCHANGED <<file, accounts, generated, retained, environ>>

\* The process ends or is killed, between any two steps, and the command runs
\* again, possibly with other environment variables.
Rerun(p) ==
    /\ pc' = [pc EXCEPT ![p] = "idle"]
    /\ call' = [call EXCEPT ![p] = NoCall]
    /\ session' = [session EXCEPT ![p] = [r \in Role |-> "todo"]]
    /\ \E e \in Environments : environ' = [environ EXCEPT ![p] = e]
    /\ UNCHANGED <<file, accounts, generated, retained>>

-----------------------------------------------------------------------------
Advance(p) ==
    \/ \E r \in Role :
         \/ LoadRejected(p, r)
         \/ LoadExternal(p, r)
         \/ LoadComplete(p, r)
         \/ LoadPending(p, r)
         \/ \E id \in Fresh, why \in {"session", "existing"} : Generate(p, r, id, why)
    \/ ReadForReservation(p)
    \/ SaveReservation(p)
    \/ SignupSucceeds(p)
    \/ SignupLost(p)
    \/ SignupAccountExists(p)
    \/ LoginReturns(p)
    \/ LoginAfterSignup(p)
    \/ MarkChecked(p)
    \/ MarkRejected(p)
    \/ ReadForCompletion(p)
    \/ SaveCompletion(p)
    \/ AttemptFails(p)
    \/ Rerun(p)

Next == \E p \in Proc : Advance(p)

Spec == Init /\ [][Next]_vars

-----------------------------------------------------------------------------
\* Fairness.  Nothing in the code retries: an operator runs the command again
\* (Rerun), and a step that is reached again and again is not killed, and is
\* not failed by the identity provider, every single time.
RecoveryFairness ==
    \A p \in Proc :
      /\ WF_vars(Rerun(p))
      /\ \A r \in Role : SF_vars(LoadPending(p, r))
      /\ SF_vars(SignupSucceeds(p))
      /\ SF_vars(SignupAccountExists(p))
      /\ SF_vars(LoginAfterSignup(p))
      /\ SF_vars(MarkChecked(p))
      /\ SF_vars(ReadForCompletion(p))
      /\ SF_vars(SaveCompletion(p))

FairSpec == Spec /\ RecoveryFairness

-----------------------------------------------------------------------------
\* Properties of any number of processes

\* Every variable keeps its type; between two calls a process has no call.
TypeOK ==
    /\ file \in File
    /\ accounts \in [Identity -> Identity \cup {Unset}]
    /\ generated \subseteq Fresh
    /\ retained \subseteq Role \X Fresh
    /\ environ \in [Proc -> [Role -> Pair]]
    /\ pc \in [Proc -> Step]
    /\ call \in [Proc -> Call \cup {NoCall}]
    /\ \A p \in Proc : pc[p] = "idle" \/ call[p] \in Call
    /\ session \in [Proc -> [Role -> Outcome]]

\* "saves the pair ... and signs up": whatever the interleaving, an account
\* created for a generated identity was saved in a slot before its signup.
AccountsWereSaved ==
    \A u \in generated :
      accounts[u] # Unset => \E r \in Role : <<r, u>> \in retained

\* A saved value of a generated identity is part of a whole pair, in a slot
\* that a reservation has written for it.
WellSaved(values) ==
    \A r \in Role :
      values[r].username \in Fresh \/ values[r].password \in Fresh =>
        /\ values[r].username = values[r].password
        /\ <<r, values[r].username>> \in retained

\* A generated identity is retained for one slot.
RetainedOnce ==
    \A r, s \in Role, u \in Fresh :
      <<r, u>> \in retained => /\ u \in generated
                              /\ (<<s, u>> \in retained => s = r)

AccountsRetained ==
    \A u \in Fresh : accounts[u] # Unset => \E r \in Role : <<r, u>> \in retained

\* Configured variables name no generated identity.
EnvironmentsConfigured ==
    \A p \in Proc, r \in Role :
      environ[p][r].username \notin Fresh /\ environ[p][r].password \notin Fresh

\* An identity that is being reserved is known to one process only.
ReservationPrivate(p) ==
    pc[p] \in {"reserve", "reserving"} =>
      /\ call[p].cred.username \in generated
      /\ call[p].cred.password = call[p].cred.username
      /\ \A r \in Role : <<r, call[p].cred.username>> \notin retained
      /\ \A q \in Proc \ {p} :
           pc[q] \in {"reserve", "reserving"} =>
             call[q].cred.username # call[p].cred.username

\* A generated identity that signs up or logs in was retained before.
UseRetained(p) ==
    pc[p] \notin {"idle", "reserve", "reserving"} /\ call[p].cred.username \in Fresh
      => <<call[p].role, call[p].cred.username>> \in retained

\* Where generated identities can be: the file and every content about to be
\* written back hold only retained ones, and so do the accounts.
Provenance ==
    /\ RetainedOnce
    /\ WellSaved(file)
    /\ AccountsRetained
    /\ EnvironmentsConfigured
    /\ \A p \in Proc : /\ pc[p] # "idle" => WellSaved(call[p].content)
                       /\ ReservationPrivate(p)
                       /\ UseRetained(p)

\* A generated pair is saved whole, in the one slot it was generated for, even
\* when a process writes back content that another one has replaced.
SavedPairsIntact ==
    /\ WellSaved(file)
    /\ \A r \in Role : \A s \in Role \ {r} :
         file[r].username \in Fresh => <<s, file[r].username>> \notin retained

\* "Reusing one username across slots is rejected": two roles of a process are
\* never authenticated as one account, whichever source each was loaded from.
DistinctSessions ==
    \A p \in Proc : \A r, s \in Role :
      r # s /\ session[p][r] \in Identity => session[p][r] # session[p][s]

-----------------------------------------------------------------------------
\* Properties of one process at a time, killed and rerun at will

\* What a lone process knows about its slot is what the file says: it is empty
\* until the reservation, holds the pending credentials until the completion,
\* and their account exists once the signup or the login after it succeeded.
SlotHeld(p) ==
    LET slot == file[call[p].role]
        held == PairOf(slot) = call[p].cred /\ slot.state = "pending"
    IN  /\ pc[p] \in {"reserve", "reserving"} =>
             PairOf(slot) = NoPair /\ slot.state \in {"absent", "blank"}
        /\ pc[p] \in {"signup", "mark", "complete", "completing"} => held
        /\ pc[p] = "login" /\ call[p].pending => held
        /\ pc[p] \in {"mark", "complete", "completing"} =>
             accounts[call[p].cred.username] = call[p].cred.password
        /\ pc[p] \in {"reserving", "completing"} => call[p].content = file

SlotsHeld == \A p \in Proc : SlotHeld(p)

\* The file never loses the credentials of an account the harness created, so
\* that a later run can log in to it.
NoOrphanAccount ==
    \A u \in generated :
      accounts[u] # Unset =>
        \E r \in Role : PairOf(file[r]) = [username |-> u, password |-> accounts[u]]

\* A generated identity is marked complete only if a later login can succeed.
CompleteHasAccount ==
    \A r \in Role :
      file[r].username \in Fresh /\ file[r].state = "complete" =>
        accounts[file[r].username] = file[r].password

\* "preserves the same saved identity for diagnosis and retry": no run ever
\* changes or drops a saved username or password, or takes back "complete".
SavedValuesPreserved ==
    [][\A r \in Role :
         /\ file[r].username # Unset => file'[r].username = file[r].username
         /\ file[r].password # Unset => file'[r].password = file[r].password
         /\ file[r].state = "complete" => file'[r].state = "complete"]_vars

\* A run with no BA_*_TEST_* variable can get credentials for the role.
Usable(values, r) == Resolve([s \in Role |-> NoPair], values, r) # "rejected"

\* No update leaves a slot that was usable in a form every later run rejects,
\* such as an account state without its pair.
SlotsStayUsable ==
    [][\A r \in Role : Usable(file, r) => Usable(file', r)]_vars

\* The processes implement the ledger: what the file shows at any time is a
\* reservation, its account, its completion, in that order and once per slot.
Ledger == INSTANCE IdentityLedger WITH ledger <- file

ImplementsLedger == Ledger!Spec

\* An interrupted signup recovers: however a run was killed or failed, a
\* pending identity becomes complete when the command is run again and the
\* environment no longer names identities of its own.
PendingCompletes ==
    (<>[](\A p \in Proc : environ[p] = [r \in Role |-> NoPair])) =>
      \A r \in Role : (file[r].state = "pending" /\ file[r].username \in Fresh)
                         ~> (file[r].state = "complete")

=============================================================================
