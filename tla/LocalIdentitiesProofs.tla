----------------------- MODULE LocalIdentitiesProofs -----------------------
(***************************************************************************)
(* For any number of processes, roles, identities, files and environments: *)
(* an account is created only for an identity that was saved before, stale *)
(* writes never tear a saved pair or move it to another slot, and two      *)
(* roles of a process are never one account.  For one process at a time,   *)
(* killed and rerun at will, the file also implements the ledger of        *)
(* identities and loses none of them.                                      *)
(***************************************************************************)
EXTENDS LocalIdentities, TLAPS

\* The inductive invariant: with the types, where generated identities can be.
IdentityInv == TypeOK /\ Provenance

\* What resolves to a stored pair is a pair of identities.
LEMMA ResolvedPair ==
    ASSUME NEW env \in [Role -> Pair], NEW values \in File, NEW r \in Role
    PROVE  /\ Resolve(env, values, r) = "external" => PairOf(env[r]) \in Credentials
           /\ Resolve(env, values, r) \in {"pending", "complete"} =>
                PairOf(values[r]) \in Credentials
BY DEF Resolve, HasPair, File, Record, Pair, PairOf, Credentials, IsPartial

\* Marking a slot complete yields a file again.
LEMMA CompletionType ==
    ASSUME NEW values \in File, NEW r \in Role
    PROVE  WithComplete(values, r) \in File
<1>1. values[r] \in Record
  BY DEF File
<1>2. [values[r] EXCEPT !.state = "complete"] \in Record
  BY <1>1 DEF Record, AccountState
<1>3. WithComplete(values, r) = [values EXCEPT ![r] = [values[r] EXCEPT !.state = "complete"]]
  BY DEF WithComplete
<1> QED
  BY <1>2, <1>3 DEF File

\* Initially nothing is generated, and the operator configured no generated name.
LEMMA InitIdentityInv == Init => IdentityInv
<1> SUFFICES ASSUME Init PROVE IdentityInv
  OBVIOUS
<1>1. /\ \A r \in Role : /\ file[r].username \in Supplied \cup {Unset}
                         /\ file[r].password \in Supplied \cup {Unset}
                         /\ file[r].state \in AccountState
      /\ file \in File
  BY InitialAssumption DEF Init, File, Record, Identity
<1>2. \A p \in Proc : \A r \in Role :
        /\ environ[p][r].username \in Supplied \cup {Unset}
        /\ environ[p][r].password \in Supplied \cup {Unset}
  BY InitialAssumption DEF Init
<1>3. environ \in [Proc -> [Role -> Pair]]
  BY InitialAssumption DEF Init, Pair, Identity
<1>4. /\ accounts \in [Identity -> Identity \cup {Unset}]
      /\ \A u \in Fresh : accounts[u] = Unset
  BY InitialAssumption, IdentitiesDisjoint DEF Init, Identity
<1>5. TypeOK
  BY <1>1, <1>3, <1>4 DEF Init, TypeOK, Step, Outcome
<1>6. Provenance
  BY <1>1, <1>2, <1>4, IdentitiesDisjoint DEF Init, Provenance, WellSaved, RetainedOnce,
     AccountsRetained, EnvironmentsConfigured, ReservationPrivate, UseRetained
<1> QED
  BY <1>5, <1>6 DEF IdentityInv

\* Every step keeps the types; Provenance says what a reservation can write.
LEMMA StepTypeOK == IdentityInv /\ [Next]_vars => TypeOK'
<1> SUFFICES ASSUME IdentityInv, [Next]_vars PROVE TypeOK'
  OBVIOUS
<1> USE DEF IdentityInv, TypeOK, Step, Outcome
<1>1. ASSUME NEW p \in Proc, NEW r \in Role, LoadRejected(p, r)
      PROVE  TypeOK'
  BY <1>1 DEF LoadRejected, Request
<1>2. ASSUME NEW p \in Proc, NEW r \in Role,
             LoadExternal(p, r) \/ LoadComplete(p, r) \/ LoadPending(p, r)
      PROVE  TypeOK'
  <2>1. /\ LoadExternal(p, r) => PairOf(environ[p][r]) \in Credentials
        /\ LoadComplete(p, r) \/ LoadPending(p, r) => PairOf(file[r]) \in Credentials
    BY ResolvedPair DEF LoadExternal, LoadComplete, LoadPending
  <2>2. NoFile \in File
    BY DEF NoFile, NoRecord, File, Record, AccountState
  <2> QED
    <3>1. PICK new \in Call : call' = [call EXCEPT ![p] = new]
      <4>1. \A credentials \in Credentials, isPending \in BOOLEAN :
              [role |-> r, purpose |-> "session", cred |-> credentials,
               pending |-> isPending, content |-> NoFile] \in Call
        BY <2>2 DEF Call
      <4> QED
        BY <1>2, <2>1, <4>1 DEF LoadExternal, LoadComplete, LoadPending, Start
    <3>2. pc' \in [Proc -> Step] /\ \A q \in Proc \ {p} : pc'[q] = pc[q]
      BY <1>2 DEF LoadExternal, LoadComplete, LoadPending, Start, Goto
    <3>3. UNCHANGED <<file, accounts, generated, retained, environ, session>>
      BY <1>2 DEF LoadExternal, LoadComplete, LoadPending, Start
    <3> QED
      BY <3>1, <3>2, <3>3
<1>3. ASSUME NEW p \in Proc, NEW r \in Role, NEW id \in Fresh,
             NEW why \in {"session", "existing"}, Generate(p, r, id, why)
      PROVE  TypeOK'
  <2>1. [username |-> id, password |-> id] \in Credentials
    BY DEF Credentials, Identity
  <2>2. NoFile \in File
    BY DEF NoFile, NoRecord, File, Record, AccountState
  <2> QED
    BY <1>3, <2>1, <2>2 DEF Generate, Start, Goto, Call
<1>4. ASSUME NEW p \in Proc, ReadForReservation(p) \/ ReadForCompletion(p)
      PROVE  TypeOK'
  <2> USE DEF ReadForReservation, ReadForCompletion, ReadContent, Goto
  <2>1. call[p] \in Call
    BY <1>4
  <2>2. [call[p] EXCEPT !.content = file] \in Call
    BY <2>1 DEF Call
  <2>3. call' = [call EXCEPT ![p] = [call[p] EXCEPT !.content = file]]
    BY <1>4
  <2>4. pc' \in [Proc -> Step] /\ \A q \in Proc \ {p} : pc'[q] = pc[q]
    BY <1>4
  <2>5. UNCHANGED <<file, accounts, generated, retained, environ, session>>
    BY <1>4
  <2>6. PICK new \in Call : call' = [call EXCEPT ![p] = new]
    BY <2>2, <2>3
  <2> QED
    BY <2>4, <2>5, <2>6
<1>5. ASSUME NEW p \in Proc, SaveReservation(p)
      PROVE  TypeOK'
  <2>1. call[p] \in Call /\ call[p].cred.username \in Fresh
    BY <1>5 DEF SaveReservation, Goto, Provenance, ReservationPrivate
  <2>2. WithReservation(call[p].content, call[p].role, call[p].cred) \in File
    BY <2>1 DEF WithReservation, Call, Credentials, File, Record, AccountState
  <2>3. NoFile \in File
    BY DEF NoFile, NoRecord, File, Record, AccountState
  <2> QED
    <3>1. retained' \subseteq Role \X Fresh
      BY <1>5, <2>1 DEF SaveReservation, Call
    <3>2. [call[p] EXCEPT !.content = NoFile] \in Call
      BY <2>1, <2>3 DEF Call
    <3>3. CASE call[p].purpose = "session"
      BY <1>5, <2>2, <3>1, <3>2, <3>3 DEF SaveReservation, Goto
    <3>4. CASE call[p].purpose # "session"
      BY <1>5, <2>2, <3>1, <3>4 DEF SaveReservation, Goto
    <3> QED
      BY <3>3, <3>4
<1>6. ASSUME NEW p \in Proc, SignupSucceeds(p) \/ SignupLost(p)
      PROVE  TypeOK'
  <2>1. call[p] \in Call
    BY <1>6 DEF SignupSucceeds, SignupLost, Goto, Finish
  <2>2. accounts' \in [Identity -> Identity \cup {Unset}]
    BY <1>6, <2>1 DEF SignupSucceeds, SignupLost, CreateAccount, Call, Credentials
  <2> QED
    <3>1. CASE SignupSucceeds(p)
      BY <2>1, <2>2, <3>1 DEF SignupSucceeds, Goto
    <3>2. CASE SignupLost(p)
      BY <2>1, <2>2, <3>2 DEF SignupLost, Finish, Goto, Call
    <3> QED
      BY <1>6, <3>1, <3>2
<1>7. ASSUME NEW p \in Proc,
             SignupAccountExists(p) \/ LoginAfterSignup(p) \/ MarkChecked(p)
      PROVE  TypeOK'
  BY <1>7 DEF SignupAccountExists, LoginAfterSignup, MarkChecked, Goto
<1>8. ASSUME NEW p \in Proc, LoginReturns(p)
      PROVE  TypeOK'
  BY <1>8 DEF LoginReturns, CanLogin, AccountExists, Finish, Goto, Call, Credentials
<1>9. ASSUME NEW p \in Proc, MarkRejected(p)
      PROVE  TypeOK'
  BY <1>9 DEF MarkRejected, Finish, Goto
<1>10. ASSUME NEW p \in Proc, SaveCompletion(p)
       PROVE  TypeOK'
  <2>1. call[p] \in Call
    BY <1>10 DEF SaveCompletion, Finish, Goto
  <2>2. WithComplete(call[p].content, call[p].role) \in File
    BY <2>1, CompletionType DEF Call
  <2> QED
    BY <1>10, <2>1, <2>2 DEF SaveCompletion, Finish, Goto, Call, Credentials
<1>11. ASSUME NEW p \in Proc, AttemptFails(p)
       PROVE  TypeOK'
  BY <1>11 DEF AttemptFails, Finish, Goto, Call
<1>12. ASSUME NEW p \in Proc, Rerun(p)
       PROVE  TypeOK'
  BY <1>12, InitialAssumption DEF Rerun, Pair, Identity
<1>13. CASE UNCHANGED vars
  BY <1>13 DEF vars
<1> QED
  BY <1>1, <1>2, <1>3, <1>4, <1>5, <1>6, <1>7, <1>8, <1>9, <1>10, <1>11, <1>12, <1>13
  DEF Next, Advance

\* Control and failures never touch what is saved: such a step of process q
\* keeps Provenance if the call it leaves running is the one that ran before,
\* or a new one whose identity was retained.
LEMMA FrameProvenance ==
    ASSUME IdentityInv, NEW q \in Proc,
           UNCHANGED <<file, generated, retained>>,
           AccountsRetained', EnvironmentsConfigured',
           \A p \in Proc \ {q} : pc'[p] = pc[p] /\ call'[p] = call[p],
           pc'[q] # "idle" => WellSaved(call'[q].content),
           pc'[q] \in {"reserve", "reserving"} =>
             pc[q] \in {"reserve", "reserving"} /\ call'[q].cred = call[q].cred,
           UseRetained(q)'
    PROVE  Provenance'
<1> USE DEF IdentityInv, Provenance
<1>1. RetainedOnce'
  BY DEF RetainedOnce
<1>2. WellSaved(file)'
  BY DEF WellSaved
<1>3. ASSUME NEW p \in Proc, pc'[p] # "idle"
      PROVE  WellSaved(call[p].content)'
  BY <1>3 DEF WellSaved
<1>4. ASSUME NEW p \in Proc
      PROVE  ReservationPrivate(p)'
  BY DEF ReservationPrivate
<1>5. ASSUME NEW p \in Proc
      PROVE  UseRetained(p)'
  BY DEF UseRetained
<1> QED
  BY <1>1, <1>2, <1>3, <1>4, <1>5

\* A new identity is in no slot, in no content and known to one process only.
LEMMA GenerateProvenance ==
    ASSUME IdentityInv, NEW p \in Proc, NEW r \in Role, NEW id \in Fresh,
           NEW why \in {"session", "existing"}, Generate(p, r, id, why)
    PROVE  Provenance'
<1> USE DEF IdentityInv, Provenance
<1>1. /\ UNCHANGED <<file, accounts, retained, environ>>
      /\ generated' = generated \cup {id}
      /\ pc[p] = "idle" /\ id \notin generated
      /\ pc' = [pc EXCEPT ![p] = "reserve"]
      /\ call'[p].cred = [username |-> id, password |-> id]
      /\ call'[p].content = NoFile
      /\ \A q \in Proc \ {p} : call'[q] = call[q]
  BY DEF Generate, Start, Goto, TypeOK
<1>2. RetainedOnce' /\ AccountsRetained' /\ EnvironmentsConfigured'
  BY <1>1 DEF RetainedOnce, AccountsRetained, EnvironmentsConfigured
<1>3. WellSaved(file)'
  BY <1>1 DEF WellSaved
<1>4. ASSUME NEW q \in Proc, pc'[q] # "idle"
      PROVE  WellSaved(call[q].content)'
  BY <1>1, <1>4, IdentitiesDisjoint DEF WellSaved, NoFile, NoRecord, TypeOK
<1>5. \A s \in Role : <<s, id>> \notin retained
  BY <1>1 DEF RetainedOnce
<1>6. ASSUME NEW q \in Proc
      PROVE  ReservationPrivate(q)'
  <2>1. \A o \in Proc : pc[o] \in {"reserve", "reserving"} => call[o].cred.username # id
    BY <1>1 DEF ReservationPrivate
  <2> QED
    BY <1>1, <1>5, <2>1 DEF ReservationPrivate, TypeOK
<1>7. ASSUME NEW q \in Proc
      PROVE  UseRetained(q)'
  BY <1>1 DEF UseRetained, TypeOK
<1> QED
  BY <1>2, <1>3, <1>4, <1>6, <1>7

\* A reservation retains its identity, in the one slot it writes.
LEMMA SaveReservationProvenance ==
    ASSUME IdentityInv, NEW p \in Proc, SaveReservation(p)
    PROVE  Provenance'
<1> USE DEF IdentityInv, Provenance
<1> DEFINE id == call[p].cred.username
           slot == call[p].role
<1>1. /\ UNCHANGED <<accounts, generated, environ>>
      /\ retained' = retained \cup {<<slot, id>>}
      /\ file' = WithReservation(call[p].content, slot, call[p].cred)
      /\ pc[p] = "reserving"
      /\ pc' = [pc EXCEPT ![p] = pc'[p]]
      /\ pc'[p] \in {"signup", "idle"}
      /\ \A q \in Proc \ {p} : call'[q] = call[q]
      /\ pc'[p] = "signup" => /\ call'[p].content = NoFile
                             /\ call'[p].role = slot
                             /\ call'[p].cred = call[p].cred
  BY DEF SaveReservation, Goto, TypeOK, Call
<1>2. /\ call[p] \in Call /\ slot \in Role
      /\ id \in generated /\ id \in Fresh
      /\ call[p].cred.password = id
      /\ \A s \in Role : <<s, id>> \notin retained
      /\ WellSaved(call[p].content)
  BY <1>1 DEF ReservationPrivate, TypeOK, Call
<1>3. RetainedOnce' /\ AccountsRetained' /\ EnvironmentsConfigured'
  <2>1. RetainedOnce'
    BY <1>1, <1>2 DEF RetainedOnce
  <2>2. AccountsRetained'
    BY <1>1 DEF AccountsRetained
  <2>3. EnvironmentsConfigured'
    BY <1>1 DEF EnvironmentsConfigured
  <2> QED
    BY <2>1, <2>2, <2>3
<1>4. WellSaved(file)'
  <2>1. \A r \in Role \ {slot} : file'[r] = call[p].content[r]
    BY <1>1, <1>2 DEF WithReservation, Call, File
  <2>2. file'[slot].username = id /\ file'[slot].password = id
    BY <1>1, <1>2 DEF WithReservation, Call, File
  <2> QED
    BY <1>1, <1>2, <2>1, <2>2 DEF WellSaved
<1>5. ASSUME NEW q \in Proc, pc'[q] # "idle"
      PROVE  WellSaved(call[q].content)'
  <2>1. CASE q = p
    BY <1>1, <1>5, <2>1, IdentitiesDisjoint DEF WellSaved, NoFile, NoRecord
  <2>2. CASE q # p
    BY <1>1, <1>5, <2>2 DEF WellSaved, TypeOK
  <2> QED
    BY <2>1, <2>2
<1>6. ASSUME NEW q \in Proc
      PROVE  ReservationPrivate(q)'
  <2>1. CASE q = p
    BY <1>1, <2>1 DEF ReservationPrivate, TypeOK
  <2>2. CASE q # p /\ pc[q] \in {"reserve", "reserving"}
    <3>1. call[q].cred.username # id
      BY <1>1, <2>2 DEF ReservationPrivate
    <3>2. \A s \in Role : <<s, call[q].cred.username>> \notin retained'
      BY <1>1, <2>2, <3>1 DEF ReservationPrivate
    <3> QED
      BY <1>1, <2>2, <3>2 DEF ReservationPrivate, TypeOK
  <2>3. CASE q # p /\ pc[q] \notin {"reserve", "reserving"}
    BY <1>1, <2>3 DEF ReservationPrivate, TypeOK
  <2> QED
    BY <2>1, <2>2, <2>3
<1>7. ASSUME NEW q \in Proc
      PROVE  UseRetained(q)'
  BY <1>1, <1>2 DEF UseRetained, TypeOK
<1> QED
  BY <1>3, <1>4, <1>5, <1>6, <1>7

\* An account is created for the credentials of a call that signs up.
LEMMA SignupRetained ==
    ASSUME IdentityInv, NEW p \in Proc, pc[p] = "signup", CreateAccount(p),
           UNCHANGED retained
    PROVE  AccountsRetained'
<1>1. call[p] \in Call /\ call[p].cred.username \in Identity
  BY DEF IdentityInv, TypeOK, Call, Credentials
<1>2. ASSUME NEW u \in Fresh, accounts'[u] # Unset
      PROVE  \E r \in Role : <<r, u>> \in retained
  <2>1. CASE u = call[p].cred.username
    BY <1>1, <2>1 DEF IdentityInv, Provenance, UseRetained, Call
  <2>2. CASE u # call[p].cred.username
    <3>1. accounts[u] # Unset
      BY <1>2, <2>2 DEF CreateAccount, IdentityInv, TypeOK, Identity
    <3> QED
      BY <3>1 DEF IdentityInv, Provenance, AccountsRetained
  <2> QED
    BY <2>1, <2>2
<1> QED
  BY <1>2 DEF AccountsRetained

\* Every step keeps track of where generated identities can be.
LEMMA StepProvenance == IdentityInv /\ [Next]_vars => Provenance'
<1> SUFFICES ASSUME IdentityInv, [Next]_vars PROVE Provenance'
  OBVIOUS
<1> USE DEF IdentityInv
<1>1. ASSUME NEW p \in Proc, NEW r \in Role, LoadRejected(p, r)
      PROVE  Provenance'
  BY <1>1 DEF LoadRejected, Provenance, RetainedOnce, WellSaved, AccountsRetained,
              EnvironmentsConfigured, ReservationPrivate, UseRetained
<1>2. ASSUME NEW p \in Proc, NEW r \in Role,
             LoadExternal(p, r) \/ LoadComplete(p, r) \/ LoadPending(p, r)
      PROVE  Provenance'
  <2> USE DEF LoadExternal, LoadComplete, LoadPending, Start, Goto
  <2>1. UNCHANGED <<file, accounts, generated, retained, environ>>
    BY <1>2
  <2>2. /\ \A q \in Proc \ {p} : pc'[q] = pc[q] /\ call'[q] = call[q]
        /\ pc'[p] \in {"login", "signup"}
        /\ call'[p].content = NoFile
        /\ call'[p].role = r
        /\ call'[p].cred \in {PairOf(environ[p][r]), PairOf(file[r])}
    BY <1>2 DEF TypeOK
  <2>3. AccountsRetained' /\ EnvironmentsConfigured'
    BY <2>1 DEF Provenance, AccountsRetained, EnvironmentsConfigured
  <2>4. UseRetained(p)'
    BY <2>1, <2>2 DEF UseRetained, Provenance, WellSaved, EnvironmentsConfigured, PairOf
  <2>5. WellSaved(call[p].content)'
    BY <2>1, <2>2, IdentitiesDisjoint DEF WellSaved, NoFile, NoRecord
  <2> QED
    BY <2>1, <2>2, <2>3, <2>4, <2>5, FrameProvenance DEF WellSaved
<1>3. ASSUME NEW p \in Proc, NEW r \in Role, NEW id \in Fresh,
             NEW why \in {"session", "existing"}, Generate(p, r, id, why)
      PROVE  Provenance'
  BY <1>3, GenerateProvenance
<1>4. ASSUME NEW p \in Proc, ReadForReservation(p) \/ ReadForCompletion(p)
      PROVE  Provenance'
  <2> USE DEF ReadForReservation, ReadForCompletion, ReadContent, Goto
  <2>1. call[p] \in Call
    BY <1>4 DEF TypeOK
  <2>2. /\ UNCHANGED <<file, accounts, generated, retained, environ>>
        /\ \A q \in Proc \ {p} : pc'[q] = pc[q] /\ call'[q] = call[q]
        /\ call'[p].content = file
        /\ call'[p].role = call[p].role /\ call'[p].cred = call[p].cred
        /\ \/ pc[p] = "reserve" /\ pc'[p] = "reserving"
           \/ pc[p] = "complete" /\ pc'[p] = "completing"
    BY <1>4, <2>1 DEF TypeOK, Call
  <2>3. AccountsRetained' /\ EnvironmentsConfigured'
    BY <2>2 DEF Provenance, AccountsRetained, EnvironmentsConfigured
  <2>4. UseRetained(p)'
    BY <2>2 DEF UseRetained, Provenance
  <2>5. WellSaved(call'[p].content)
    BY <2>2 DEF Provenance
  <2> QED
    BY <2>2, <2>3, <2>4, <2>5, FrameProvenance
<1>5. ASSUME NEW p \in Proc, SaveReservation(p)
      PROVE  Provenance'
  BY <1>5, SaveReservationProvenance
<1>6. ASSUME NEW p \in Proc, SignupSucceeds(p) \/ SignupLost(p)
      PROVE  Provenance'
  <2> USE DEF SignupSucceeds, SignupLost, Finish, Goto
  <2>1. AccountsRetained'
    BY <1>6, SignupRetained
  <2>2. EnvironmentsConfigured'
    BY <1>6 DEF Provenance, EnvironmentsConfigured
  <2>3. /\ UNCHANGED <<file, generated, retained>>
        /\ \A q \in Proc \ {p} : pc'[q] = pc[q] /\ call'[q] = call[q]
        /\ pc[p] = "signup" /\ pc'[p] \in {"mark", "idle"}
        /\ pc'[p] = "mark" => call'[p] = call[p]
    BY <1>6 DEF TypeOK
  <2>4. UseRetained(p)'
    BY <2>3 DEF UseRetained, Provenance
  <2>5. pc'[p] # "idle" => WellSaved(call'[p].content)
    BY <2>3 DEF Provenance
  <2> QED
    BY <2>1, <2>2, <2>3, <2>4, <2>5, FrameProvenance
<1>7. ASSUME NEW p \in Proc,
             SignupAccountExists(p) \/ LoginAfterSignup(p) \/ MarkChecked(p)
      PROVE  Provenance'
  <2>1. /\ UNCHANGED <<file, accounts, generated, retained, environ, call>>
        /\ \A q \in Proc \ {p} : pc'[q] = pc[q]
        /\ pc[p] \in {"signup", "login", "mark"}
        /\ pc'[p] \in {"login", "mark", "complete"}
    BY <1>7 DEF SignupAccountExists, LoginAfterSignup, MarkChecked, Goto, TypeOK
  <2>2. AccountsRetained' /\ EnvironmentsConfigured'
    BY <2>1 DEF Provenance, AccountsRetained, EnvironmentsConfigured
  <2>3. UseRetained(p)'
    BY <2>1 DEF UseRetained, Provenance
  <2>4. WellSaved(call'[p].content)
    BY <2>1 DEF Provenance
  <2> QED
    BY <2>1, <2>2, <2>3, <2>4, FrameProvenance
<1>8. ASSUME NEW p \in Proc, LoginReturns(p) \/ MarkRejected(p) \/ AttemptFails(p)
      PROVE  Provenance'
  <2>1. /\ UNCHANGED <<file, accounts, generated, retained, environ>>
        /\ \A q \in Proc \ {p} : pc'[q] = pc[q] /\ call'[q] = call[q]
        /\ pc'[p] = "idle"
    BY <1>8 DEF LoginReturns, MarkRejected, AttemptFails, Finish, Goto, TypeOK
  <2>2. AccountsRetained' /\ EnvironmentsConfigured' /\ UseRetained(p)'
    BY <2>1 DEF Provenance, AccountsRetained, EnvironmentsConfigured, UseRetained
  <2> QED
    BY <2>1, <2>2, FrameProvenance
<1>9. ASSUME NEW p \in Proc, SaveCompletion(p)
      PROVE  Provenance'
  <2>1. /\ UNCHANGED <<accounts, generated, retained, environ>>
        /\ \A q \in Proc \ {p} : pc'[q] = pc[q] /\ call'[q] = call[q]
        /\ pc'[p] = "idle"
        /\ pc[p] = "completing" /\ call[p] \in Call
        /\ file' = WithComplete(call[p].content, call[p].role)
    BY <1>9 DEF SaveCompletion, Finish, Goto, TypeOK
  <2>2. \A r \in Role : /\ file'[r].username = call[p].content[r].username
                        /\ file'[r].password = call[p].content[r].password
    BY <2>1 DEF WithComplete, Call, File, Record
  <2>3. WellSaved(call[p].content)
    BY <2>1 DEF Provenance
  <2>4. WellSaved(file)'
    BY <2>1, <2>2, <2>3 DEF WellSaved
  <2>5. /\ RetainedOnce' /\ AccountsRetained' /\ EnvironmentsConfigured'
    BY <2>1 DEF Provenance, RetainedOnce, AccountsRetained, EnvironmentsConfigured
  <2>6. ASSUME NEW q \in Proc
        PROVE  /\ (pc[q] # "idle" => WellSaved(call[q].content))'
               /\ ReservationPrivate(q)'
               /\ UseRetained(q)'
    BY <2>1 DEF Provenance, WellSaved, ReservationPrivate, UseRetained
  <2> QED
    BY <2>4, <2>5, <2>6 DEF Provenance
<1>10. ASSUME NEW p \in Proc, Rerun(p)
       PROVE  Provenance'
  <2>1. /\ UNCHANGED <<file, accounts, generated, retained>>
        /\ \A q \in Proc \ {p} : pc'[q] = pc[q] /\ call'[q] = call[q]
        /\ pc'[p] = "idle"
    BY <1>10 DEF Rerun, TypeOK
  <2>2. AccountsRetained' /\ UseRetained(p)'
    BY <2>1 DEF Provenance, AccountsRetained, UseRetained
  <2>3. EnvironmentsConfigured'
    BY <1>10, InitialAssumption, IdentitiesDisjoint
    DEF Rerun, TypeOK, Provenance, EnvironmentsConfigured
  <2> QED
    BY <2>1, <2>2, <2>3, FrameProvenance
<1>11. CASE UNCHANGED vars
  BY <1>11 DEF vars, Provenance, RetainedOnce, WellSaved, AccountsRetained,
               EnvironmentsConfigured, ReservationPrivate, UseRetained
<1> QED
  BY <1>1, <1>2, <1>3, <1>4, <1>5, <1>6, <1>7, <1>8, <1>9, <1>10, <1>11
  DEF Next, Advance

-----------------------------------------------------------------------------
\* The invariant of every behaviour.
LEMMA IdentityInvariant == Spec => []IdentityInv
<1>1. IdentityInv /\ [Next]_vars => IdentityInv'
  BY StepTypeOK, StepProvenance DEF IdentityInv
<1> QED
  BY InitIdentityInv, <1>1, PTL DEF Spec

\* Type correctness of the acquisition processes and of what they share.
THEOREM TypeCorrect == Spec => []TypeOK
<1>1. IdentityInv => TypeOK
  BY DEF IdentityInv
<1> QED
  BY <1>1, IdentityInvariant, PTL

\* "persist ... before signup": however many processes race for the file and
\* are killed, no account is created for an identity that was never saved.
THEOREM SavedBeforeSignup == Spec => []AccountsWereSaved
<1>1. IdentityInv => AccountsWereSaved
  BY DEF IdentityInv, TypeOK, Provenance, AccountsRetained, AccountsWereSaved
<1> QED
  BY <1>1, IdentityInvariant, PTL

\* Stale writes lose updates, but never tear a generated pair apart and never
\* put an identity in a slot it was not generated for.
THEOREM SavedPairsStayIntact == Spec => []SavedPairsIntact
<1>1. IdentityInv => SavedPairsIntact
  <2> SUFFICES ASSUME IdentityInv PROVE SavedPairsIntact
    OBVIOUS
  <2>1. WellSaved(file)
    BY DEF IdentityInv, Provenance
  <2>2. ASSUME NEW r \in Role, NEW s \in Role \ {r}, file[r].username \in Fresh
        PROVE  <<s, file[r].username>> \notin retained
    BY <2>1, <2>2 DEF WellSaved, IdentityInv, Provenance, RetainedOnce
  <2> QED
    BY <2>1, <2>2 DEF SavedPairsIntact
<1> QED
  BY <1>1, IdentityInvariant, PTL

-----------------------------------------------------------------------------
(* Distinct sessions: two roles of a process are never one account. *)

\* A slot that holds something the operator configured.
Configured(e) == e.username \in Supplied \/ e.password \in Supplied

\* The same slots are configured, with the same pairs.
SameConfigured(values, others) ==
    \A r \in Role : Configured(values[r]) \/ Configured(others[r]) =>
      PairOf(values[r]) = PairOf(others[r])

\* No update in flight disturbs what the operator configured: the content it
\* writes back agrees with the file there, and it reserves another slot.
ConfiguredKept(p) ==
    /\ pc[p] \in {"reserving", "completing"} => SameConfigured(call[p].content, file)
    /\ pc[p] \in {"reserve", "reserving"} => ~Configured(file[call[p].role])

\* Role r goes by the username u: the environment does not hide the slot, no
\* other role resolves to u, and a configured u is still in the slot.
Claimed(env, values, r, u) ==
    /\ ~IsPartial(env[r])
    /\ HasPair(env[r]) => u = env[r].username
    /\ \A o \in Role \ {r} : HasPair(env[o]) => env[o].username # u
    /\ u \in Supplied /\ ~HasPair(env[r]) =>
         /\ HasPair(values[r]) /\ values[r].username = u
         /\ \A o \in Role \ {r} :
              ~IsPartial(env[o]) /\ ~HasPair(env[o]) /\ HasPair(values[o]) =>
                values[o].username # u

\* What a process signs up or logs in with, and what its sessions hold.
ClaimsKept(p) ==
    /\ pc[p] # "idle" =>
         Claimed(environ[p], file, call[p].role, call[p].cred.username)
    /\ \A r \in Role : session[p][r] \in Identity =>
         /\ Claimed(environ[p], file, r, session[p][r])
         /\ session[p][r] \in Fresh => <<r, session[p][r]>> \in retained

Claims == \A p \in Proc : ConfiguredKept(p) /\ ClaimsKept(p)

\* The inductive invariant of the sessions.
SessionInv == IdentityInv /\ Claims

\* What was configured stays configured along a chain of contents.
LEMMA SameConfiguredChain ==
    ASSUME NEW values, NEW others, NEW more,
           SameConfigured(values, others), SameConfigured(others, more)
    PROVE  SameConfigured(values, more)
<1> SUFFICES ASSUME NEW r \in Role, Configured(values[r]) \/ Configured(more[r])
             PROVE  PairOf(values[r]) = PairOf(more[r])
  BY DEF SameConfigured
<1>1. Configured(others[r])
  BY DEF SameConfigured, Configured, PairOf
<1> QED
  BY <1>1 DEF SameConfigured

\* A slot that is not configured does not become configured.
LEMMA StaysUnconfigured ==
    ASSUME NEW values, NEW others, SameConfigured(values, others),
           NEW r \in Role, ~Configured(values[r])
    PROVE  ~Configured(others[r])
BY DEF SameConfigured, Configured, PairOf

\* A claim survives an update that keeps what is configured.
LEMMA ClaimSurvives ==
    ASSUME NEW env, NEW values, NEW others, SameConfigured(values, others),
           NEW r \in Role, NEW u, Claimed(env, values, r, u)
    PROVE  Claimed(env, others, r, u)
<1> SUFFICES ASSUME u \in Supplied, ~HasPair(env[r])
             PROVE  /\ HasPair(others[r]) /\ others[r].username = u
                    /\ \A o \in Role \ {r} :
                         ~IsPartial(env[o]) /\ ~HasPair(env[o]) /\ HasPair(others[o]) =>
                           others[o].username # u
  BY DEF Claimed
<1>1. /\ HasPair(values[r]) /\ values[r].username = u
      /\ \A o \in Role \ {r} :
           ~IsPartial(env[o]) /\ ~HasPair(env[o]) /\ HasPair(values[o]) =>
             values[o].username # u
  BY DEF Claimed
<1>2. PairOf(values[r]) = PairOf(others[r])
  BY <1>1 DEF SameConfigured, Configured
<1>3. HasPair(others[r]) /\ others[r].username = u
  BY <1>1, <1>2 DEF PairOf, HasPair
<1>4. ASSUME NEW o \in Role \ {r}, ~IsPartial(env[o]), ~HasPair(env[o]),
             HasPair(others[o]), others[o].username = u
      PROVE  FALSE
  <2>1. PairOf(values[o]) = PairOf(others[o])
    BY <1>4 DEF SameConfigured, Configured
  <2>2. HasPair(values[o]) /\ values[o].username = u
    BY <1>4, <2>1 DEF PairOf, HasPair
  <2> QED
    BY <1>1, <1>4, <2>2
<1> QED
  BY <1>3, <1>4

\* What a role resolves to is claimed: the pair of the environment, the saved
\* pair, or an identity that nobody configured.
LEMMA ResolvedIsClaimed ==
    ASSUME NEW env \in [Role -> Pair], NEW values \in File, NEW r \in Role
    PROVE  /\ Resolve(env, values, r) = "external" =>
                Claimed(env, values, r, env[r].username)
           /\ Resolve(env, values, r) \in {"pending", "complete"} =>
                Claimed(env, values, r, values[r].username)
           /\ \A id \in Fresh :
                /\ Resolve(env, values, r) = "generate"
                /\ \A o \in Role : env[o].username \notin Fresh
                => Claimed(env, values, r, id)
<1>1. Resolve(env, values, r) = "external" => Claimed(env, values, r, env[r].username)
  BY DEF Resolve, Claimed, DistinctUsername, OtherUsername, HasPair, IsPartial, StoredState
<1>2. Resolve(env, values, r) \in {"pending", "complete"} =>
        Claimed(env, values, r, values[r].username)
  BY DEF Resolve, Claimed, DistinctUsername, OtherUsername, HasPair, IsPartial, StoredState
<1>3. ASSUME NEW id \in Fresh, Resolve(env, values, r) = "generate",
             \A o \in Role : env[o].username \notin Fresh
      PROVE  Claimed(env, values, r, id)
  <2>1. ~IsPartial(env[r]) /\ ~HasPair(env[r])
    BY <1>3 DEF Resolve, StoredState
  <2> QED
    BY <1>3, <2>1, IdentitiesDisjoint DEF Claimed
<1> QED
  BY <1>1, <1>2, <1>3
\* Initially nobody has a claim.
LEMMA InitClaims == Init => Claims
BY OutcomesAreNoNames DEF Init, Claims, ConfiguredKept, ClaimsKept

\* A step of q that keeps what is configured keeps the claims of the others.
LEMMA FrameClaims ==
    ASSUME IdentityInv, Claims, NEW q \in Proc,
           SameConfigured(file, file'), retained \subseteq retained',
           \A p \in Proc \ {q} : /\ pc'[p] = pc[p] /\ call'[p] = call[p]
                                 /\ session'[p] = session[p] /\ environ'[p] = environ[p],
           ConfiguredKept(q)', ClaimsKept(q)'
    PROVE  Claims'
<1> SUFFICES ASSUME NEW p \in Proc \ {q}
             PROVE  ConfiguredKept(p)' /\ ClaimsKept(p)'
  BY DEF Claims
<1>1. /\ pc'[p] = pc[p] /\ call'[p] = call[p]
      /\ session'[p] = session[p] /\ environ'[p] = environ[p]
  OBVIOUS
<1>2. ConfiguredKept(p) /\ ClaimsKept(p)
  BY DEF Claims
<1>3. pc[p] # "idle" => call[p].role \in Role
  BY DEF IdentityInv, TypeOK, Call
<1>4. ConfiguredKept(p)'
  BY <1>1, <1>2, <1>3, SameConfiguredChain, StaysUnconfigured DEF ConfiguredKept
<1>5. ClaimsKept(p)'
  BY <1>1, <1>2, <1>3, ClaimSurvives DEF ClaimsKept
<1> QED
  BY <1>4, <1>5

\* A step of q that leaves the file alone: its call goes on, or is over.
LEMMA ControlClaims ==
    ASSUME IdentityInv, Claims, NEW q \in Proc, UNCHANGED <<file, environ>>,
           retained \subseteq retained',
           \A p \in Proc \ {q} : /\ pc'[p] = pc[p] /\ call'[p] = call[p]
                                 /\ session'[p] = session[p],
           pc'[q] # "idle" => /\ pc[q] # "idle"
                              /\ call'[q].role = call[q].role
                              /\ call'[q].cred = call[q].cred,
           pc'[q] \in {"reserving", "completing"} => call'[q].content = file,
           pc'[q] \in {"reserve", "reserving"} => pc[q] \in {"reserve", "reserving"},
           \A r \in Role : \/ session'[q][r] = session[q][r]
                           \/ session'[q][r] \notin Identity
                           \/ /\ pc[q] \notin {"idle", "reserve", "reserving"}
                              /\ r = call[q].role
                              /\ session'[q][r] = call[q].cred.username
    PROVE  Claims'
<1>1. SameConfigured(file, file')
  BY DEF SameConfigured
<1>2. ConfiguredKept(q) /\ ClaimsKept(q) /\ UseRetained(q)
  BY DEF Claims, IdentityInv, Provenance
<1>3. ConfiguredKept(q)'
  BY <1>1, <1>2 DEF ConfiguredKept
<1>4. ClaimsKept(q)'
  BY <1>2 DEF ClaimsKept, UseRetained
<1> QED
  BY <1>1, <1>3, <1>4, FrameClaims

\* An update writes back what is configured, and claims nothing it did not.
LEMMA UpdateClaims ==
    ASSUME IdentityInv, Claims, NEW p \in Proc, SaveReservation(p) \/ SaveCompletion(p)
    PROVE  Claims'
<1>1. /\ pc[p] \in {"reserving", "completing"} /\ call[p] \in Call
      /\ SameConfigured(call[p].content, file)
  BY DEF SaveReservation, SaveCompletion, Finish, Goto, IdentityInv, TypeOK, Claims,
         ConfiguredKept
<1>2. ConfiguredKept(p) /\ ClaimsKept(p) /\ UseRetained(p)
  BY DEF Claims, IdentityInv, Provenance
<1>3. SameConfigured(call[p].content, file')
  <2>1. CASE SaveReservation(p)
    <3>1. /\ call[p].cred.username \in Fresh /\ call[p].cred.password \in Fresh
          /\ pc[p] = "reserving"
      BY <2>1 DEF SaveReservation, Goto, IdentityInv, TypeOK, Provenance, ReservationPrivate
    <3>2. ~Configured(call[p].content[call[p].role])
      BY <1>1, <1>2, <3>1 DEF ConfiguredKept, SameConfigured, Configured, PairOf, Call
    <3>3. ~Configured(file'[call[p].role])
      BY <1>1, <2>1, <3>1, IdentitiesDisjoint
         DEF SaveReservation, WithReservation, Configured, Call, File
    <3>4. \A r \in Role \ {call[p].role} : file'[r] = call[p].content[r]
      BY <1>1, <2>1 DEF SaveReservation, WithReservation, Call, File
    <3> QED
      BY <3>2, <3>3, <3>4 DEF SameConfigured
  <2>2. CASE SaveCompletion(p)
    <3>1. \A r \in Role : PairOf(file'[r]) = PairOf(call[p].content[r])
      BY <1>1, <2>2 DEF SaveCompletion, WithComplete, Call, File, Record, PairOf
    <3> QED
      BY <3>1 DEF SameConfigured
  <2> QED
    BY <2>1, <2>2
<1>4. SameConfigured(file, file')
  <2>1. SameConfigured(file, call[p].content)
    BY <1>1 DEF SameConfigured
  <2> QED
    BY <1>3, <2>1, SameConfiguredChain
<1>5. /\ environ' = environ /\ retained \subseteq retained'
      /\ \A q \in Proc \ {p} : /\ pc'[q] = pc[q] /\ call'[q] = call[q]
                               /\ session'[q] = session[q]
      /\ pc'[p] \in {"signup", "idle"}
      /\ pc'[p] = "signup" => /\ call'[p].role = call[p].role
                              /\ call'[p].cred = call[p].cred
      /\ \A r \in Role : \/ session'[p][r] = session[p][r]
                         \/ /\ pc[p] = "completing" /\ r = call[p].role
                            /\ session'[p][r] = call[p].cred.username
  <2>1. CASE SaveReservation(p)
    BY <1>1, <2>1 DEF SaveReservation, Goto, IdentityInv, TypeOK, Call
  <2>2. CASE SaveCompletion(p)
    BY <1>1, <2>2 DEF SaveCompletion, Finish, Goto, IdentityInv, TypeOK
  <2> QED
    BY <2>1, <2>2
<1>6. ConfiguredKept(p)'
  BY <1>5 DEF ConfiguredKept
<1>7. ClaimsKept(p)'
  <2>1. call[p].role \in Role
    BY <1>1 DEF Call
  <2>2. Claimed(environ[p], file', call[p].role, call[p].cred.username)
    BY <1>1, <1>2, <1>4, <2>1, ClaimSurvives DEF ClaimsKept
  <2>3. ASSUME NEW r \in Role, session'[p][r] \in Identity
        PROVE  /\ Claimed(environ[p], file', r, session'[p][r])
               /\ session'[p][r] \in Fresh => <<r, session'[p][r]>> \in retained'
    <3>1. CASE session'[p][r] = session[p][r]
      BY <1>2, <1>4, <1>5, <2>3, <3>1, ClaimSurvives DEF ClaimsKept
    <3>2. CASE /\ pc[p] = "completing" /\ r = call[p].role
               /\ session'[p][r] = call[p].cred.username
      BY <1>2, <1>5, <2>2, <3>2 DEF UseRetained
    <3> QED
      BY <1>5, <3>1, <3>2
  <2> QED
    BY <1>5, <2>2, <2>3 DEF ClaimsKept
<1> QED
  BY <1>4, <1>5, <1>6, <1>7, FrameClaims
\* A role that resolves to credentials starts a call that claims its slot.
LEMMA LoadClaims ==
    ASSUME IdentityInv, Claims, NEW p \in Proc, NEW r \in Role,
           \/ LoadExternal(p, r) \/ LoadComplete(p, r) \/ LoadPending(p, r)
           \/ \E id \in Fresh, why \in {"session", "existing"} : Generate(p, r, id, why)
    PROVE  Claims'
<1>1. /\ environ[p] \in [Role -> Pair] /\ file \in File
      /\ \A o \in Role : environ[p][o].username \notin Fresh
      /\ ClaimsKept(p)
  BY DEF IdentityInv, TypeOK, Provenance, EnvironmentsConfigured, Claims
<1>2. /\ UNCHANGED <<file, retained, environ, session>>
      /\ \A q \in Proc \ {p} : pc'[q] = pc[q] /\ call'[q] = call[q]
      /\ call'[p].role = r /\ pc'[p] \in {"login", "signup", "reserve"}
  BY DEF LoadExternal, LoadComplete, LoadPending, Generate, Start, Goto, IdentityInv, TypeOK
<1>3. Claimed(environ[p], file, r, call'[p].cred.username)
  <2>1. CASE LoadExternal(p, r)
    <3>1. call'[p].cred.username = environ[p][r].username
      BY <2>1 DEF LoadExternal, Start, PairOf, IdentityInv, TypeOK
    <3> QED
      BY <1>1, <2>1, <3>1, ResolvedIsClaimed DEF LoadExternal
  <2>2. CASE LoadComplete(p, r) \/ LoadPending(p, r)
    <3>1. call'[p].cred.username = file[r].username
      BY <2>2 DEF LoadComplete, LoadPending, Start, PairOf, IdentityInv, TypeOK
    <3>2. Resolve(environ[p], file, r) \in {"pending", "complete"}
      BY <2>2 DEF LoadComplete, LoadPending
    <3> QED
      BY <1>1, <3>1, <3>2, ResolvedIsClaimed
  <2>3. ASSUME NEW id \in Fresh, NEW why \in {"session", "existing"}, Generate(p, r, id, why)
        PROVE  Claimed(environ[p], file, r, call'[p].cred.username)
    <3>1. call'[p].cred.username = id
      BY <2>3 DEF Generate, Start, IdentityInv, TypeOK
    <3> QED
      BY <1>1, <2>3, <3>1, ResolvedIsClaimed DEF Generate
  <2> QED
    BY <2>1, <2>2, <2>3
<1>4. ConfiguredKept(p)'
  <2>1. pc'[p] = "reserve" => ~Configured(file[r])
    <3>1. pc'[p] = "reserve" => Resolve(environ[p], file, r) = "generate"
      BY DEF LoadExternal, LoadComplete, LoadPending, Generate, Start, Goto, IdentityInv, TypeOK
    <3>2. Resolve(environ[p], file, r) = "generate" =>
            file[r].username = Unset /\ file[r].password = Unset
      BY <1>1 DEF Resolve, StoredState, HasPair, IsPartial
    <3> QED
      BY <3>1, <3>2, IdentitiesDisjoint DEF Configured
  <2> QED
    BY <1>2, <2>1 DEF ConfiguredKept
<1>5. ClaimsKept(p)'
  BY <1>1, <1>2, <1>3 DEF ClaimsKept
<1>6. SameConfigured(file, file')
  BY <1>2 DEF SameConfigured
<1> QED
  BY <1>2, <1>4, <1>5, <1>6, FrameClaims

\* Every step keeps the claims.
LEMMA StepClaims == ASSUME SessionInv, [Next]_vars PROVE Claims'
<1> USE DEF SessionInv
<1>1. ASSUME NEW p \in Proc, NEW r \in Role,
             \/ LoadExternal(p, r) \/ LoadComplete(p, r) \/ LoadPending(p, r)
             \/ \E id \in Fresh, why \in {"session", "existing"} : Generate(p, r, id, why)
      PROVE  Claims'
  BY <1>1, LoadClaims
<1>2. ASSUME NEW p \in Proc, NEW r \in Role, LoadRejected(p, r) PROVE Claims'
  <2>1. /\ \A s \in Role : session'[p][s] \in {session[p][s], "failed"}
        /\ \A q \in Proc \ {p} : session'[q] = session[q]
    BY <1>2 DEF LoadRejected, IdentityInv, TypeOK
  <2>2. UNCHANGED <<file, retained, environ, pc, call>> /\ pc[p] = "idle"
    BY <1>2 DEF LoadRejected, Request
  <2> QED
    BY <2>1, <2>2, ControlClaims, OutcomesAreNoNames
<1>3. ASSUME NEW p \in Proc, ReadForReservation(p) \/ ReadForCompletion(p) PROVE Claims'
  <2>1. /\ UNCHANGED <<file, retained, environ, session>>
        /\ \A q \in Proc \ {p} : pc'[q] = pc[q] /\ call'[q] = call[q]
        /\ call'[p].content = file /\ call'[p].role = call[p].role
        /\ call'[p].cred = call[p].cred
        /\ \/ pc[p] = "reserve" /\ pc'[p] = "reserving"
           \/ pc[p] = "complete" /\ pc'[p] = "completing"
    BY <1>3 DEF ReadForReservation, ReadForCompletion, ReadContent, Goto, IdentityInv,
                TypeOK, Call
  <2> QED
    BY <2>1, ControlClaims
<1>4. ASSUME NEW p \in Proc, SaveReservation(p) \/ SaveCompletion(p) PROVE Claims'
  BY <1>4, UpdateClaims
<1>5. ASSUME NEW p \in Proc,
             \/ SignupSucceeds(p) \/ SignupAccountExists(p)
             \/ LoginAfterSignup(p) \/ MarkChecked(p)
      PROVE  Claims'
  <2>1. /\ UNCHANGED <<file, retained, environ, session, call>>
        /\ \A q \in Proc \ {p} : pc'[q] = pc[q]
        /\ pc[p] # "idle" /\ pc'[p] \in {"mark", "login", "complete"}
    BY <1>5 DEF SignupSucceeds, SignupAccountExists, LoginAfterSignup, MarkChecked, Goto,
                IdentityInv, TypeOK
  <2> QED
    BY <2>1, ControlClaims
<1>6. ASSUME NEW p \in Proc,
             \/ SignupLost(p) \/ LoginReturns(p) \/ MarkRejected(p) \/ AttemptFails(p)
      PROVE  Claims'
  <2>1. /\ UNCHANGED <<file, retained, environ>>
        /\ \A q \in Proc \ {p} : /\ pc'[q] = pc[q] /\ call'[q] = call[q]
                                 /\ session'[q] = session[q]
        /\ pc'[p] = "idle"
        /\ \A r \in Role : \/ session'[p][r] \in {session[p][r], "failed"}
                           \/ /\ pc[p] = "login" /\ r = call[p].role
                              /\ session'[p][r] = call[p].cred.username
    BY <1>6 DEF SignupLost, LoginReturns, MarkRejected, AttemptFails, Finish, Goto,
                IdentityInv, TypeOK
  <2> QED
    BY <2>1, ControlClaims, OutcomesAreNoNames
<1>7. ASSUME NEW p \in Proc, Rerun(p) PROVE Claims'
  <2>1. /\ UNCHANGED <<file, retained>>
        /\ \A q \in Proc \ {p} : /\ pc'[q] = pc[q] /\ call'[q] = call[q]
                                 /\ session'[q] = session[q] /\ environ'[q] = environ[q]
        /\ pc'[p] = "idle" /\ \A r \in Role : session'[p][r] = "todo"
    BY <1>7 DEF Rerun, IdentityInv, TypeOK
  <2>2. ConfiguredKept(p)' /\ ClaimsKept(p)'
    BY <2>1, OutcomesAreNoNames DEF ConfiguredKept, ClaimsKept
  <2>3. SameConfigured(file, file')
    BY <2>1 DEF SameConfigured
  <2> QED
    BY <2>1, <2>2, <2>3, FrameClaims
<1>8. CASE UNCHANGED vars
  BY <1>8 DEF vars, Claims, ConfiguredKept, ClaimsKept
<1> QED
  BY <1>1, <1>2, <1>3, <1>4, <1>5, <1>6, <1>7, <1>8 DEF Next, Advance

\* "Reusing one username across slots is rejected": however many processes
\* share the file, and wherever each pair comes from, two roles of a process
\* are never authenticated as one account.
THEOREM SessionsStayDistinct == Spec => []DistinctSessions
<1>1. SessionInv => DistinctSessions
  <2> SUFFICES ASSUME SessionInv, NEW p \in Proc, NEW r \in Role, NEW s \in Role,
                      r # s, session[p][r] \in Identity, session[p][r] = session[p][s]
               PROVE  FALSE
    BY DEF DistinctSessions
  <2> DEFINE u == session[p][r]
  <2>1. /\ Claimed(environ[p], file, r, u) /\ (u \in Fresh => <<r, u>> \in retained)
        /\ Claimed(environ[p], file, s, u) /\ (u \in Fresh => <<s, u>> \in retained)
    BY DEF SessionInv, Claims, ClaimsKept
  <2>2. CASE u \in Fresh
    BY <2>1, <2>2 DEF SessionInv, IdentityInv, Provenance, RetainedOnce
  <2>3. CASE u \in Supplied
    BY <2>1, <2>3 DEF Claimed
  <2> QED
    BY <2>2, <2>3 DEF Identity
<1>2. IdentityInv /\ Claims /\ [Next]_vars => Claims'
  BY StepClaims DEF SessionInv
<1>3. Spec => []Claims
  BY InitClaims, <1>2, IdentityInvariant, PTL DEF Spec
<1> QED
  BY <1>1, <1>3, IdentityInvariant, PTL DEF SessionInv
-----------------------------------------------------------------------------
(* One process at a time implements the identity ledger: a process that is *)
(* killed or fails anywhere and is run again reserves, provisions and      *)
(* completes the saved identities in that order and changes them in no     *)
(* other way.                                                              *)

\* At most one process uses the credential file.
Solo == \A p, q \in Proc : p = q

\* What an undisturbed process knows about its slot, with what holds of any
\* number of processes.
SoloInv == IdentityInv /\ SlotsHeld

\* What Resolve says about the slot that it has looked at.
LEMMA ResolvedSlot ==
    ASSUME NEW env \in [Role -> Pair], NEW values \in File, NEW r \in Role
    PROVE  /\ Resolve(env, values, r) = "generate" =>
                PairOf(values[r]) = NoPair /\ values[r].state \in {"absent", "blank"}
           /\ Resolve(env, values, r) = "pending" => values[r].state = "pending"
BY DEF Resolve, HasPair, IsPartial, PairOf, NoPair, StoredState, File, Record

\* Initially no process has a call.
LEMMA InitSlotsHeld == Init => SlotsHeld
  BY DEF Init, SlotsHeld, SlotHeld

\* A lone process keeps SlotsHeld: what it has read is what it replaces.
LEMMA StepSlotsHeld ==
    ASSUME Solo, SoloInv, [Next]_vars PROVE SlotsHeld'
<1> SUFFICES ASSUME NEW p \in Proc PROVE SlotHeld(p)'
  BY DEF SlotsHeld
<1> USE DEF SoloInv, IdentityInv, TypeOK
<1>1. SlotHeld(p) /\ \A q \in Proc : q = p
  BY DEF SlotsHeld, Solo
<1>2. CASE UNCHANGED vars
  BY <1>1, <1>2 DEF vars, SlotHeld
<1>3. ASSUME NEW r \in Role, LoadRejected(p, r) PROVE SlotHeld(p)'
  BY <1>1, <1>3 DEF LoadRejected, Request, SlotHeld
<1>4. ASSUME NEW r \in Role, LoadExternal(p, r) \/ LoadComplete(p, r) PROVE SlotHeld(p)'
  BY <1>4 DEF LoadExternal, LoadComplete, Start, Goto, SlotHeld
<1>5. ASSUME NEW r \in Role, LoadPending(p, r) PROVE SlotHeld(p)'
  BY <1>5, ResolvedSlot DEF LoadPending, Start, Goto, SlotHeld
<1>6. ASSUME NEW r \in Role, NEW id \in Fresh, NEW why \in {"session", "existing"},
             Generate(p, r, id, why)
      PROVE  SlotHeld(p)'
  BY <1>6, ResolvedSlot DEF Generate, Start, Goto, SlotHeld
<1>7. ASSUME ReadForReservation(p) \/ ReadForCompletion(p) PROVE SlotHeld(p)'
  <2>1. /\ call'[p].content = file /\ call'[p].role = call[p].role
        /\ call'[p].cred = call[p].cred
        /\ UNCHANGED <<file, accounts>>
        /\ \/ pc[p] = "reserve" /\ pc'[p] = "reserving"
           \/ pc[p] = "complete" /\ pc'[p] = "completing"
    BY <1>7 DEF ReadForReservation, ReadForCompletion, ReadContent, Goto, Call
  <2> QED
    BY <1>1, <2>1 DEF SlotHeld
<1>8. ASSUME SaveReservation(p) PROVE SlotHeld(p)'
  <2>1. /\ pc[p] = "reserving" /\ pc'[p] \in {"signup", "idle"}
        /\ file' = WithReservation(call[p].content, call[p].role, call[p].cred)
        /\ pc'[p] = "signup" => call'[p].role = call[p].role /\ call'[p].cred = call[p].cred
    BY <1>8 DEF SaveReservation, Goto, Call
  <2>2. call[p] \in Call
    BY <2>1
  <2>3. /\ PairOf(file'[call[p].role]) = call[p].cred
        /\ file'[call[p].role].state = "pending"
    BY <2>1, <2>2 DEF WithReservation, PairOf, Call, File, Credentials
  <2> QED
    BY <2>1, <2>3 DEF SlotHeld
<1>9. ASSUME SignupSucceeds(p) PROVE SlotHeld(p)'
  <2>1. call[p].cred.username \in Identity
    BY <1>9 DEF SignupSucceeds, Goto, Call, Credentials
  <2> QED
    BY <1>1, <1>9, <2>1 DEF SignupSucceeds, CreateAccount, Goto, SlotHeld
<1>10. ASSUME SignupAccountExists(p) \/ LoginAfterSignup(p) \/ MarkChecked(p)
       PROVE  SlotHeld(p)'
  BY <1>1, <1>10 DEF SignupAccountExists, LoginAfterSignup, MarkChecked, CanLogin, Goto, SlotHeld
<1>11. ASSUME \/ SignupLost(p) \/ LoginReturns(p) \/ MarkRejected(p)
              \/ SaveCompletion(p) \/ AttemptFails(p) \/ Rerun(p)
       PROVE  SlotHeld(p)'
  BY <1>11 DEF SignupLost, LoginReturns, MarkRejected, SaveCompletion, AttemptFails, Rerun,
               Finish, Goto, SlotHeld
<1> QED
  BY <1>1, <1>2, <1>3, <1>4, <1>5, <1>6, <1>7, <1>8, <1>9, <1>10, <1>11 DEF Next, Advance

\* Saving a reservation reserves an empty slot for an identity without account.
LEMMA ReservationReserves ==
    ASSUME SoloInv, NEW p \in Proc, SaveReservation(p)
    PROVE  /\ call[p].role \in Role /\ call[p].cred.username \in Fresh
           /\ Ledger!Reserve(call[p].role, call[p].cred.username)
<1> DEFINE r == call[p].role
           id == call[p].cred.username
<1>1. /\ pc[p] = "reserving" /\ call[p] \in Call
      /\ file' = WithReservation(call[p].content, r, call[p].cred)
      /\ UNCHANGED accounts
  BY DEF SoloInv, IdentityInv, TypeOK, SaveReservation, Goto
<1>2. /\ PairOf(file[r]) = NoPair /\ file[r].state \in {"absent", "blank"}
      /\ call[p].content = file
  BY <1>1 DEF SoloInv, SlotsHeld, SlotHeld
<1>3. /\ id \in Fresh /\ call[p].cred.password = id
      /\ \A s \in Role : <<s, id>> \notin retained
  BY <1>1 DEF SoloInv, IdentityInv, TypeOK, Provenance, ReservationPrivate
<1>4. accounts[id] = Unset
  BY <1>3 DEF SoloInv, IdentityInv, Provenance, AccountsRetained
<1>5. \A s \in Role : file[s].username # id
  BY <1>3 DEF SoloInv, IdentityInv, Provenance, WellSaved
<1>6. file[r].username = Unset /\ file[r].password = Unset
  BY <1>2 DEF PairOf, NoPair
<1> QED
  BY <1>1, <1>2, <1>3, <1>4, <1>5, <1>6
  DEF Ledger!Reserve, Ledger!HasPair, Ledger!IsPartial, WithReservation, Call

\* A signup, heard of or not, provisions the reserved identity of its slot.
LEMMA SignupProvisions ==
    ASSUME SoloInv, NEW p \in Proc, SignupSucceeds(p) \/ SignupLost(p)
    PROVE  call[p].role \in Role /\ Ledger!Provision(call[p].role)
<1> DEFINE r == call[p].role
<1>1. /\ pc[p] = "signup" /\ call[p] \in Call
      /\ CreateAccount(p) /\ UNCHANGED file
  BY DEF SoloInv, IdentityInv, TypeOK, SignupSucceeds, SignupLost, Finish, Goto
<1>2. PairOf(file[r]) = call[p].cred /\ file[r].state = "pending"
  BY <1>1 DEF SoloInv, SlotsHeld, SlotHeld
<1>3. /\ file[r].username = call[p].cred.username
      /\ file[r].password = call[p].cred.password
      /\ file[r].username # Unset /\ file[r].password # Unset
  BY <1>1, <1>2, IdentitiesDisjoint DEF PairOf, Call, Credentials, Identity
<1> QED
  BY <1>1, <1>2, <1>3 DEF Ledger!Provision, Ledger!HasPair, CreateAccount, AccountExists, Call

\* Marking the credentials complete completes a slot whose account exists.
LEMMA CompletionCompletes ==
    ASSUME SoloInv, NEW p \in Proc, SaveCompletion(p)
    PROVE  call[p].role \in Role /\ Ledger!Complete(call[p].role)
<1> DEFINE r == call[p].role
<1>1. /\ pc[p] = "completing" /\ call[p] \in Call
      /\ file' = WithComplete(call[p].content, r) /\ UNCHANGED accounts
  BY DEF SoloInv, IdentityInv, TypeOK, SaveCompletion, Finish, Goto
<1>2. /\ PairOf(file[r]) = call[p].cred /\ file[r].state = "pending"
      /\ accounts[call[p].cred.username] = call[p].cred.password
      /\ call[p].content = file
  BY <1>1 DEF SoloInv, SlotsHeld, SlotHeld
<1>3. /\ file[r].username = call[p].cred.username
      /\ file[r].password = call[p].cred.password
      /\ file[r].username # Unset /\ file[r].password # Unset
  BY <1>1, <1>2, IdentitiesDisjoint DEF PairOf, Call, Credentials, Identity
<1> QED
  BY <1>1, <1>2, <1>3 DEF Ledger!Complete, Ledger!HasPair, WithComplete, Call

\* Every step is a step of the ledger or changes neither file nor accounts.
LEMMA StepRefines ==
    ASSUME SoloInv, [Next]_vars PROVE [Ledger!Next]_<<file, accounts>>
<1>1. ASSUME NEW p \in Proc, NEW r \in Role,
             \/ LoadRejected(p, r) \/ LoadExternal(p, r) \/ LoadComplete(p, r)
             \/ LoadPending(p, r)
             \/ \E id \in Fresh, why \in {"session", "existing"} : Generate(p, r, id, why)
      PROVE  UNCHANGED <<file, accounts>>
  BY <1>1 DEF LoadRejected, LoadExternal, LoadComplete, LoadPending, Generate, Start
<1>2. ASSUME NEW p \in Proc,
             \/ ReadForReservation(p) \/ ReadForCompletion(p) \/ SignupAccountExists(p)
             \/ LoginReturns(p) \/ LoginAfterSignup(p) \/ MarkChecked(p)
             \/ MarkRejected(p) \/ AttemptFails(p) \/ Rerun(p)
      PROVE  UNCHANGED <<file, accounts>>
  BY <1>2 DEF ReadForReservation, ReadForCompletion, ReadContent, SignupAccountExists,
              LoginReturns, LoginAfterSignup, MarkChecked, MarkRejected, AttemptFails, Rerun
<1>3. ASSUME NEW p \in Proc, SaveReservation(p) PROVE Ledger!Next
  BY <1>3, ReservationReserves DEF Ledger!Next
<1>4. ASSUME NEW p \in Proc, SignupSucceeds(p) \/ SignupLost(p) PROVE Ledger!Next
  BY <1>4, SignupProvisions DEF Ledger!Next
<1>5. ASSUME NEW p \in Proc, SaveCompletion(p) PROVE Ledger!Next
  BY <1>5, CompletionCompletes DEF Ledger!Next
<1>6. CASE UNCHANGED vars
  BY <1>6 DEF vars
<1> QED
  BY <1>1, <1>2, <1>3, <1>4, <1>5, <1>6 DEF Next, Advance

-----------------------------------------------------------------------------
\* The invariant of a lone process.
LEMMA SoloInvariant == ASSUME Solo PROVE Spec => []SoloInv
<1>1. SlotsHeld /\ IdentityInv /\ [Next]_vars => SlotsHeld'
  BY StepSlotsHeld DEF SoloInv
<1>2. Spec => []SlotsHeld
  BY InitSlotsHeld, <1>1, IdentityInvariant, PTL DEF Spec
<1> QED
  BY <1>2, IdentityInvariant, PTL DEF SoloInv

\* One process at a time: while it runs, the file and the identity provider
\* agree with what it has read and done.
THEOREM SlotsStayHeld == ASSUME Solo PROVE Spec => []SlotsHeld
<1>1. SoloInv => SlotsHeld
  BY DEF SoloInv
<1> QED
  BY <1>1, SoloInvariant, PTL

\* One process at a time implements the ledger of identities.
THEOREM SoloImplementsLedger == ASSUME Solo PROVE Spec => ImplementsLedger
<1>1. Init => Ledger!Init
  BY DEF Init, Ledger!Init, Identity, Ledger!Identity
<1>2. SoloInv /\ [Next]_vars => [Ledger!Next]_<<file, accounts>>
  BY StepRefines
<1> QED
  BY <1>1, <1>2, SoloInvariant, PTL DEF Spec, ImplementsLedger, Ledger!Spec

\* One process at a time never changes or drops a saved username or password
\* and never takes back "complete".
THEOREM SoloPreservesSaved == ASSUME Solo PROVE Spec => SavedValuesPreserved
<1>1. SoloInv /\ [Next]_vars =>
        [\A r \in Role :
           /\ file[r].username # Unset => file'[r].username = file[r].username
           /\ file[r].password # Unset => file'[r].password = file[r].password
           /\ file[r].state = "complete" => file'[r].state = "complete"]_vars
  <2> SUFFICES ASSUME SoloInv, Next, NEW r \in Role
               PROVE  /\ file[r].username # Unset => file'[r].username = file[r].username
                      /\ file[r].password # Unset => file'[r].password = file[r].password
                      /\ file[r].state = "complete" => file'[r].state = "complete"
    OBVIOUS
  <2>1. file \in File
    BY DEF SoloInv, IdentityInv, TypeOK
  <2>2. CASE UNCHANGED file
    BY <2>2
  <2>3. ASSUME NEW s \in Role, NEW id \in Fresh, Ledger!Reserve(s, id)
        PROVE  /\ file[r].username # Unset => file'[r].username = file[r].username
               /\ file[r].password # Unset => file'[r].password = file[r].password
               /\ file[r].state = "complete" => file'[r].state = "complete"
    BY <2>1, <2>3 DEF Ledger!Reserve, Ledger!HasPair, Ledger!IsPartial, File, Record
  <2>4. ASSUME NEW s \in Role, Ledger!Complete(s)
        PROVE  /\ file'[r].username = file[r].username
               /\ file'[r].password = file[r].password
               /\ file[r].state = "complete" => file'[r].state = "complete"
    BY <2>1, <2>4 DEF Ledger!Complete, File, Record
  <2> QED
    BY StepRefines, <2>2, <2>3, <2>4 DEF Ledger!Next, Ledger!Provision
<1> QED
  BY <1>1, SoloInvariant, PTL DEF Spec, SavedValuesPreserved

-----------------------------------------------------------------------------
(* What follows from the steps of the ledger. *)

\* The account of a generated identity is the one some slot holds, and a slot
\* that is complete has it.
AccountsSaved ==
    /\ \A u \in Fresh : accounts[u] # Unset =>
         \E r \in Role : PairOf(file[r]) = [username |-> u, password |-> accounts[u]]
    /\ CompleteHasAccount

LEMMA InitAccountsSaved == Init => AccountsSaved
<1> SUFFICES ASSUME Init PROVE AccountsSaved
  OBVIOUS
<1>1. \A u \in Fresh : accounts[u] = Unset
  BY InitialAssumption, IdentitiesDisjoint DEF Init, Identity
<1>2. \A r \in Role : file[r].username \notin Fresh
  BY InitialAssumption, IdentitiesDisjoint DEF Init
<1> QED
  BY <1>1, <1>2 DEF AccountsSaved, CompleteHasAccount

LEMMA StepAccountsSaved ==
    ASSUME Solo, SoloInv, AccountsSaved, [Next]_vars PROVE AccountsSaved'
<1>1. /\ file \in File /\ accounts \in [Identity -> Identity \cup {Unset}]
      /\ WellSaved(file)
  BY DEF SoloInv, IdentityInv, TypeOK, Provenance
<1>2. CASE UNCHANGED <<file, accounts>>
  BY <1>2 DEF AccountsSaved, CompleteHasAccount
<1>3. ASSUME NEW s \in Role, NEW id \in Fresh, Ledger!Reserve(s, id)
      PROVE  AccountsSaved'
  <2>1. /\ accounts' = accounts /\ file[s].username = Unset
        /\ \A r \in Role \ {s} : file'[r] = file[r]
        /\ file'[s].state = "pending"
    BY <1>1, <1>3 DEF Ledger!Reserve, Ledger!HasPair, Ledger!IsPartial, File
  <2>2. ASSUME NEW u \in Fresh, accounts[u] # Unset
        PROVE  \E r \in Role : PairOf(file'[r]) = [username |-> u, password |-> accounts[u]]
    <3>1. PICK r \in Role : PairOf(file[r]) = [username |-> u, password |-> accounts[u]]
      BY <2>2 DEF AccountsSaved
    <3>2. file[r].username = u
      BY <3>1 DEF PairOf
    <3>3. r # s
      BY <2>1, <3>2, IdentitiesDisjoint
    <3> QED
      BY <2>1, <3>1, <3>3
  <2>3. CompleteHasAccount'
    BY <2>1 DEF AccountsSaved, CompleteHasAccount
  <2> QED
    BY <2>1, <2>2, <2>3 DEF AccountsSaved
<1>4. ASSUME NEW s \in Role, Ledger!Provision(s)
      PROVE  AccountsSaved'
  <2>1. /\ file' = file /\ file[s].username \in Identity
        /\ accounts[file[s].username] = Unset
        /\ accounts' = [accounts EXCEPT ![file[s].username] = file[s].password]
    BY <1>1, <1>4 DEF Ledger!Provision, Ledger!HasPair, File, Record
  <2>2. ASSUME NEW u \in Fresh, accounts'[u] # Unset
        PROVE  \E r \in Role : PairOf(file[r]) = [username |-> u, password |-> accounts'[u]]
    <3>1. CASE u = file[s].username
      BY <1>1, <2>1, <3>1 DEF PairOf
    <3>2. CASE u # file[s].username
      BY <1>1, <2>1, <2>2, <3>2 DEF AccountsSaved, Identity
    <3> QED
      BY <3>1, <3>2
  <2>3. ASSUME NEW r \in Role, file[r].username \in Fresh, file[r].state = "complete"
        PROVE  accounts'[file[r].username] = file[r].password
    <3>1. /\ accounts[file[r].username] = file[r].password
          /\ file[r].password = file[r].username
      BY <1>1, <2>3 DEF AccountsSaved, CompleteHasAccount, WellSaved
    <3>2. file[r].username # file[s].username
      BY <2>1, <2>3, <3>1, IdentitiesDisjoint
    <3> QED
      BY <1>1, <2>1, <2>3, <3>1, <3>2 DEF Identity
  <2> QED
    BY <2>1, <2>2, <2>3 DEF AccountsSaved, CompleteHasAccount
<1>5. ASSUME NEW s \in Role, Ledger!Complete(s)
      PROVE  AccountsSaved'
  <2>1. /\ accounts' = accounts
        /\ \A r \in Role : PairOf(file'[r]) = PairOf(file[r])
        /\ \A r \in Role : /\ file'[r].username = file[r].username
                           /\ file'[r].password = file[r].password
        /\ \A r \in Role \ {s} : file'[r] = file[r]
        /\ accounts[file[s].username] = file[s].password
    BY <1>1, <1>5 DEF Ledger!Complete, File, Record, PairOf
  <2> QED
    BY <2>1 DEF AccountsSaved, CompleteHasAccount
<1> QED
  BY StepRefines, <1>2, <1>3, <1>4, <1>5 DEF Ledger!Next

LEMMA AccountsStaySaved == ASSUME Solo PROVE Spec => []AccountsSaved
<1>1. SoloInv /\ AccountsSaved /\ [Next]_vars => AccountsSaved'
  BY StepAccountsSaved
<1> QED
  BY InitAccountsSaved, <1>1, SoloInvariant, PTL DEF Spec

\* "preserves the same saved identity for diagnosis and retry": a lone process
\* never leaves an account behind whose credentials the file does not hold.
THEOREM SoloLeavesNoOrphan == ASSUME Solo PROVE Spec => []NoOrphanAccount
<1>1. IdentityInv /\ AccountsSaved => NoOrphanAccount
  BY DEF IdentityInv, TypeOK, AccountsSaved, NoOrphanAccount
<1> QED
  BY <1>1, AccountsStaySaved, IdentityInvariant, PTL

\* A generated identity that a lone process marks complete can log in.
THEOREM SoloCompletesAccounts == ASSUME Solo PROVE Spec => []CompleteHasAccount
<1>1. AccountsSaved => CompleteHasAccount
  BY DEF AccountsSaved
<1> QED
  BY <1>1, AccountsStaySaved, PTL

\* When a run without variables gets credentials for a role.
LEMMA UsableSlot ==
    ASSUME NEW values \in File, NEW r \in Role
    PROVE  Usable(values, r) <=>
             /\ ~IsPartial(values[r])
             /\ HasPair(values[r]) =>
                  /\ StoredState(values[r]) \in {"pending", "complete"}
                  /\ \A o \in Role \ {r} :
                       HasPair(values[o]) => values[o].username # values[r].username
             /\ ~HasPair(values[r]) => values[r].state \in {"absent", "blank"}
<1> DEFINE env == [s \in Role |-> NoPair]
<1>1. \A s \in Role : ~HasPair(env[s]) /\ ~IsPartial(env[s])
  BY DEF NoPair, HasPair, IsPartial
<1>2. HasPair(values[r]) =>
        (DistinctUsername(env, values, r, values[r].username) <=>
           \A o \in Role \ {r} :
             HasPair(values[o]) => values[o].username # values[r].username)
  BY <1>1 DEF DistinctUsername, OtherUsername, HasPair
<1> QED
  BY <1>1, <1>2 DEF Usable, Resolve

\* No update of a lone process leaves a slot that was usable in a form that
\* every later run rejects.
THEOREM SoloKeepsSlotsUsable == ASSUME Solo PROVE Spec => SlotsStayUsable
<1>1. SoloInv /\ [Next]_vars =>
        [\A r \in Role : Usable(file, r) => Usable(file', r)]_vars
  <2> SUFFICES ASSUME SoloInv, Next, NEW r \in Role, Usable(file, r)
               PROVE  Usable(file', r)
    OBVIOUS
  <2>1. file \in File /\ file' \in File
    BY StepTypeOK DEF SoloInv, IdentityInv, TypeOK
  <2>2. CASE UNCHANGED file
    BY <2>2
  <2>3. ASSUME NEW s \in Role, NEW id \in Fresh, Ledger!Reserve(s, id)
        PROVE  Usable(file', r)
    <3>1. /\ \A o \in Role \ {s} : file'[o] = file[o] /\ file[o].username # id
          /\ file'[s].username = id /\ file'[s].password = id
          /\ file'[s].state = "pending"
      BY <2>1, <2>3 DEF Ledger!Reserve, File
    <3>2. CASE r = s
      BY <2>1, <3>1, <3>2, UsableSlot, IdentitiesDisjoint DEF HasPair, IsPartial, StoredState
    <3>3. CASE r # s
      BY <2>1, <3>1, <3>3, UsableSlot
    <3> QED
      BY <3>2, <3>3
  <2>4. ASSUME NEW s \in Role, Ledger!Complete(s)
        PROVE  Usable(file', r)
    <3>1. \A o \in Role : /\ file'[o].username = file[o].username
                          /\ file'[o].password = file[o].password
      BY <2>1, <2>4 DEF Ledger!Complete, File, Record
    <3>2. /\ \A o \in Role \ {s} : file'[o] = file[o]
          /\ file'[s].state = "complete" /\ file[s].state = "pending"
          /\ HasPair(file[s])
      BY <2>1, <2>4 DEF Ledger!Complete, Ledger!HasPair, HasPair, File, Record
    <3> QED
      BY <2>1, <3>1, <3>2, UsableSlot DEF HasPair, IsPartial, StoredState
  <2> QED
    BY StepRefines, <2>2, <2>3, <2>4 DEF Ledger!Next, Ledger!Provision
<1> QED
  BY <1>1, SoloInvariant, PTL DEF Spec, SlotsStayUsable
=============================================================================
