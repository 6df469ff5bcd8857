--------------------------- MODULE CredentialFile ---------------------------
(***************************************************************************)
(* The `.env.local` credential file of src/api_tests/local_credentials.py: *)
(* what is stored for a reusable role, how a role's credentials are        *)
(* resolved from the process environment and the file, and how the file is *)
(* updated.  A file is what _read_credential_file returns, seen per role;  *)
(* a missing file is the file in which nothing is set.                     *)
(***************************************************************************)

CONSTANTS Role,        \* credential slots: primary, secondary, admin
          Supplied,    \* identities an operator can configure
          Fresh,       \* identities generate_local_credentials can return
          Unset        \* a variable that is missing or blank

ASSUME IdentitiesDisjoint ==
    /\ Supplied \cap Fresh = {}
    /\ Unset \notin Supplied \cup Fresh

Identity == Supplied \cup Fresh

\* A username and a password are named by the identity they belong to: the
\* pair [username |-> u, password |-> u] is the right password for u.
Pair == [username : Identity \cup {Unset}, password : Identity \cup {Unset}]

\* BA_<ROLE>_TEST_ACCOUNT_STATE: "absent" is a missing variable, "blank" one
\* that is empty once stripped, "invalid" any other unknown word.
AccountState == {"absent", "blank", "pending", "complete", "invalid"}

Record == [username : Identity \cup {Unset},
           password : Identity \cup {Unset},
           state    : AccountState]

File == [Role -> Record]

NoRecord == [username |-> Unset, password |-> Unset, state |-> "absent"]

HasPair(e) == e.username # Unset /\ e.password # Unset

IsPartial(e) == (e.username = Unset) # (e.password = Unset)

\* Mutant of OtherUsername: only the saved pairs are compared.
SavedUsername(environ, values, other) ==
    IF HasPair(values[other]) THEN values[other].username ELSE Unset

\* The username slot `other` resolves to when another slot is checked against
\* it: a partial environment pair hides the slot, it reports its own error.
OtherUsername(environ, values, other) ==
    IF HasPair(environ[other]) THEN environ[other].username
    ELSE IF ~IsPartial(environ[other]) /\ HasPair(values[other])
         THEN values[other].username
         ELSE Unset

DistinctUsername(environ, values, role, username) ==
    \A other \in Role \ {role} : OtherUsername(environ, values, other) # username

\* The state of a stored pair; a hand-written pair has no state variable.
StoredState(e) == IF e.state = "absent" THEN "complete" ELSE e.state

\* Mutant of Resolve: a pending pair is replaced, not resumed.
ResolveRegenerating(environ, values, role) ==
    LET env   == environ[role]
        saved == values[role]
    IN  IF IsPartial(env) \/ IsPartial(saved) THEN "rejected"
        ELSE IF HasPair(env) THEN "external"
        ELSE IF HasPair(saved) /\ StoredState(saved) = "complete" THEN "complete"
        ELSE "generate"

\* How load_or_create_local_credentials resolves a role: credentials from the
\* environment, a stored pair to sign up or log in with, a pair to generate,
\* or a LocalCredentialError.
Resolve(environ, values, role) ==
    LET env   == environ[role]
        saved == values[role]
    IN  IF IsPartial(env) THEN "rejected"
        ELSE IF HasPair(env)
        THEN IF DistinctUsername(environ, values, role, env.username)
             THEN "external" ELSE "rejected"
        ELSE IF IsPartial(saved) THEN "rejected"
        ELSE IF HasPair(saved)
        THEN IF /\ StoredState(saved) \in {"pending", "complete"}
                /\ DistinctUsername(environ, values, role, saved.username)
             THEN StoredState(saved) ELSE "rejected"
        ELSE IF saved.state \in {"absent", "blank"} THEN "generate"
        ELSE "rejected"

\* Mutants of WithReservation: the pair is not written as one update, and the
\* identity counts as complete before its signup.
WithUsername(content, role, credentials) ==
    [content EXCEPT ![role].username = credentials.username]

WithCompleteReservation(content, role, credentials) ==
    [content EXCEPT ![role] = [username |-> credentials.username,
                               password |-> credentials.password,
                               state    |-> "complete"]]

\* The two updates _update_credential_file writes: only the variables of one
\* role change, every other line of the content it read is kept.
WithReservation(content, role, credentials) ==
    [content EXCEPT ![role] = [username |-> credentials.username,
                               password |-> credentials.password,
                               state    |-> "pending"]]

WithComplete(content, role) == [content EXCEPT ![role].state = "complete"]

=============================================================================
