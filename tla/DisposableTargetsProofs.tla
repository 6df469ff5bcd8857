---------------------- MODULE DisposableTargetsProofs ----------------------
(***************************************************************************)
(* Proofs about DisposableTargets, for any number of processes, runs and   *)
(* accounts, any edits by hand and any way in which the system under test  *)
(* resolves identities: a deactivation is only requested for the target    *)
(* that the requesting execution has generated itself.  For one process at *)
(* a time: what is on record, and what a scenario that passed has shown.   *)
(***************************************************************************)
EXTENDS DisposableTargets, TLAPS

\* The saved credential of a run, if any, was generated for that run.
WellOwned(recs) ==
    \A r \in Run : recs[r].cred # Unset => recs[r].cred \in Fresh /\ owner[recs[r].cred] = r

\* What an execution has established about its target when it gets to a step.
TargetHeld(p) ==
    /\ pc[p] \in (Acquisition \cup Lifecycle) \ {"load"} =>
         target[p].cred \in Fresh /\ owner[target[p].cred] = run[p]
    /\ pc[p] \in {"mark", "complete", "completing"} \cup Lifecycle =>
         target[p].cred \in accounts
    /\ pc[p] \in Lifecycle \ {"identify"} =>
         /\ seen[p].subject = SubjectOf(target[p].cred)
         /\ seen[p].user = UserOf(seen[p].subject)
    /\ pc[p] \in Lifecycle \ {"identify", "bind"} => NotReusable(p)

\* The inductive invariant: provenance of every saved and every used target.
TargetInv ==
    /\ TypeOK
    /\ WellOwned(records)
    /\ \A p \in Proc : WellOwned(content[p]) /\ TargetHeld(p)
    /\ OwnTargetOnly

\* It holds initially: nothing is saved, and no execution has started.
LEMMA InitTargetInv == Init => TargetInv
<1> SUFFICES ASSUME Init PROVE TargetInv
  OBVIOUS
<1> USE TargetAssumption DEF Init
<1>1. NoRecord \in Record /\ NoContent \in [Run -> Record]
  BY DEF NoRecord, Record, NoContent
<1>2. TypeOK
  BY <1>1 DEF TypeOK, Account, Sessions, Ended
<1> QED
  BY <1>2 DEF TargetInv, WellOwned, NoRecord, NoContent, TargetHeld, OwnTargetOnly,
              Acquisition, Lifecycle

\* What the updates make of a record is a record.
LEMMA RecordUpdates ==
    ASSUME NEW rec \in Record
    PROVE  /\ \A r \in Run, c \in Account \cup {Unset} :
                [rec EXCEPT !.owner = r, !.cred = c, !.state = "pending"] \in Record
           /\ [rec EXCEPT !.state = "complete"] \in Record
           /\ \A s, u \in Account \cup {Unset} :
                [rec EXCEPT !.subject = s, !.user = u] \in Record
<1>1. ASSUME NEW r \in Run, NEW c \in Account \cup {Unset}
      PROVE  [rec EXCEPT !.owner = r, !.cred = c, !.state = "pending"] \in Record
  BY DEF Record
<1>2. [rec EXCEPT !.state = "complete"] \in Record
  BY DEF Record
<1>3. ASSUME NEW s \in Account \cup {Unset}, NEW u \in Account \cup {Unset}
      PROVE  [rec EXCEPT !.subject = s, !.user = u] \in Record
  BY DEF Record
<1> QED
  BY <1>1, <1>2, <1>3

\* Every step keeps the types.
LEMMA StepTypeOK == TargetInv /\ [Next]_vars => TypeOK'
<1> SUFFICES ASSUME TargetInv, [Next]_vars PROVE TypeOK'
  OBVIOUS
<1> USE TargetAssumption DEF TypeOK, file, system
<1> TypeOK /\ \A p \in Proc : TargetHeld(p)
  BY DEF TargetInv
<1> DEFINE State == Acquisition \cup Lifecycle \cup Ended
<1>0. NoRecord \in Record /\ NoContent \in [Run -> Record]
  BY DEF NoRecord, Record, NoContent
<1>1. CASE UNCHANGED vars
  BY <1>1 DEF vars
<1>2. ASSUME NEW r \in Run, EditByHand(r) PROVE TypeOK'
  <2>1. records[r] \in Record
    OBVIOUS
  <2>2. /\ NoRecord \in Record
        /\ [records[r] EXCEPT !.cred = Unset] \in Record
        /\ [records[r] EXCEPT !.state = "pending"] \in Record
        /\ [records[r] EXCEPT !.state = "invalid"] \in Record
        /\ [records[r] EXCEPT !.user = Unset] \in Record
    BY <2>1 DEF Record, NoRecord
  <2>3. \E rec \in Record : records' = [records EXCEPT ![r] = rec]
    BY <1>2, <2>2 DEF EditByHand
  <2> QED
    BY <1>2, <2>3 DEF EditByHand
<1>3. ASSUME NEW p \in Proc, Advance(p) PROVE TypeOK'
  <2> USE DEF Goto
  <2>1. ASSUME NEW r \in Run, Begin(p, r) PROVE TypeOK'
    BY <1>0, <2>1 DEF Begin, Acquisition, Ended
  <2>2. CASE Acquire(p)
    <3>1. CASE Load(p)
      <4>1. run[p] \in Run
        BY <3>1 DEF Load
      <4>2. target' = [target EXCEPT ![p] = records[run[p]]]
        BY <3>1 DEF Load
      <4>3. target' \in [Proc -> Record]
        BY <4>1, <4>2
      <4>4. pc' \in [Proc -> State] /\ pc[p] # "idle" /\ \A q \in Proc : pc'[q] # "idle" => pc[q] # "idle"
        BY <3>1 DEF Load, Acquisition
      <4> QED
        BY <3>1, <4>3, <4>4 DEF Load
    <3>2. ASSUME NEW c \in Fresh, Generate(p, c) PROVE TypeOK'
      <4>1. run[p] \in Run /\ c \in Account
        BY <3>2 DEF Generate, Account
      <4>2. Pending(run[p], c) \in Record
        BY <4>1 DEF Pending, NoRecord, Record
      <4> QED
        BY <3>2, <4>1, <4>2 DEF Generate, Acquisition
    <3>3. ASSUME NEW from \in Acquisition, NEW to \in Acquisition, ReadContent(p, from, to)
          PROVE  TypeOK'
      BY <3>3 DEF ReadContent, Acquisition
    <3>4. CASE SaveReservation(p)
      <4>1. run[p] \in Run /\ content[p] \in [Run -> Record] /\ target[p] \in Record
        BY <3>4 DEF SaveReservation
      <4>2. [content[p][run[p]] EXCEPT !.owner = run[p], !.cred = target[p].cred,
                                      !.state = "pending"] \in Record
        <5>1. content[p][run[p]] \in Record /\ target[p].cred \in Account \cup {Unset}
          BY <4>1 DEF Record
        <5> QED
          BY <4>1, <5>1, RecordUpdates
      <4>3. WithPending(content[p], run[p], target[p]) \in [Run -> Record]
        BY <4>1, <4>2 DEF WithPending
      <4> QED
        BY <1>0, <3>4, <4>3 DEF SaveReservation, Acquisition
    <3>5. ASSUME NEW next \in {"mark", "unprovisioned"}, SignsUp(p, next),
                 live' = live \/ live' = [live EXCEPT ![p] = @ \cup {"first"}]
          PROVE  TypeOK'
      <4>1. target[p].cred \in Fresh
        BY <3>5 DEF SignsUp, TargetHeld, Acquisition
      <4>2. live' \in [Proc -> SUBSET Sessions]
        <5>1. live[p] \cup {"first"} \in SUBSET Sessions
          BY DEF Sessions
        <5>2. [live EXCEPT ![p] = @ \cup {"first"}] \in [Proc -> SUBSET Sessions]
          BY <5>1
        <5> QED
          BY <3>5, <5>2
      <4>3. accounts' \subseteq Fresh
        BY <3>5, <4>1 DEF SignsUp
      <4>4. /\ pc' \in [Proc -> State]
            /\ \A q \in Proc : pc'[q] # "idle" => pc[q] # "idle"
        BY <3>5 DEF SignsUp, Acquisition, Ended
      <4>5. UNCHANGED <<file, owner, directory, status, requested, used, run, target, seen, content>>
        BY <3>5 DEF SignsUp
      <4> QED
        BY <4>2, <4>3, <4>4, <4>5
    <3>6. CASE SignupAccountExists(p) \/ MarkChecked(p) \/ Retry(p)
      BY <3>6 DEF SignupAccountExists, MarkChecked, Retry, Acquisition
    <3>7. CASE Login(p)
      BY <3>7 DEF Login, Acquisition, Lifecycle, Sessions
    <3>8. CASE SaveCompletion(p)
      <4>1. run[p] \in Run /\ content[p] \in [Run -> Record] /\ target[p] \in Record
        BY <3>8 DEF SaveCompletion
      <4>2. /\ [content[p][run[p]] EXCEPT !.state = "complete"] \in Record
            /\ [target[p] EXCEPT !.state = "complete"] \in Record
        BY <4>1, RecordUpdates
      <4>3. /\ [content[p] EXCEPT ![run[p]].state = "complete"] \in [Run -> Record]
            /\ [target EXCEPT ![p].state = "complete"] \in [Proc -> Record]
        BY <4>1, <4>2
      <4> QED
        BY <1>0, <3>8, <4>3 DEF SaveCompletion, Acquisition, Lifecycle
    <3> QED
      <4>1. {"reserve", "reserving", "complete", "completing"} \subseteq Acquisition
        BY DEF Acquisition
      <4>2. CASE SignupSucceeds(p) \/ SignupLost(p)
        BY <3>5, <4>2 DEF SignupSucceeds, SignupLost
      <4> QED
        BY <2>2, <3>1, <3>2, <3>3, <3>4, <3>6, <3>7, <3>8, <4>1, <4>2 DEF Acquire
  <2>3. CASE Identify(p)
    <3>1. target[p].cred \in Account
      BY <2>3 DEF Identify, TargetHeld, Lifecycle, Account
    <3>2. /\ SubjectOf(target[p].cred) \in Account
          /\ UserOf(SubjectOf(target[p].cred)) \in Account
      BY <3>1 DEF SubjectOf, UserOf
    <3> QED
      BY <2>3, <3>2 DEF Identify, Lifecycle
  <2>4. CASE \/ BindChecked(p) \/ VerifyUnchanged(p) \/ VerifyDeactivated(p) \/ VerifyRevoked(p)
             \/ VerifyRepeated(p) \/ Passes(p) \/ Fails(p)
    BY <2>4 DEF BindChecked, VerifyUnchanged, VerifyDeactivated, VerifyRevoked,
                VerifyRepeated, Passes, Fails, Acquisition, Lifecycle, Ended
  <2>5. CASE ReadContent(p, "bind-read", "binding")
    BY <2>5 DEF ReadContent, Lifecycle
  <2>6. CASE SaveBinding(p)
    <3>1. /\ run[p] \in Run /\ content[p] \in [Run -> Record] /\ target[p] \in Record
          /\ seen[p].subject \in Account \cup {Unset} /\ seen[p].user \in Account \cup {Unset}
      BY <2>6 DEF SaveBinding
    <3>2. /\ [content[p][run[p]] EXCEPT !.subject = seen[p].subject,
                                        !.user = seen[p].user] \in Record
          /\ [target[p] EXCEPT !.subject = seen[p].subject, !.user = seen[p].user] \in Record
      BY <3>1, RecordUpdates
    <3>3. /\ records' \in [Run -> Record]
          /\ target' \in [Proc -> Record]
      BY <2>6, <3>1, <3>2 DEF SaveBinding
    <3> QED
      BY <1>0, <2>6, <3>3 DEF SaveBinding, Lifecycle
  <2>7. CASE SecondLogin(p)
    BY <2>7 DEF SecondLogin, Lifecycle, Sessions
  <2>8. CASE Denied(p) \/ Deactivated(p) \/ Repeated(p) \/ PostFails(p)
    <3>1. Post(p) /\ pc[p] \in Lifecycle \ {"identify"}
      BY <2>8 DEF Denied, Deactivated, Repeated, PostFails, Lifecycle
    <3>2. /\ run[p] \in Run
          /\ pc' \in [Proc -> State] /\ \A q \in Proc : pc'[q] # "idle" => pc[q] # "idle"
      BY <2>8 DEF Denied, Deactivated, Repeated, PostFails, Lifecycle, Ended
    <3>3. target[p].cred \in Account
      BY <3>1 DEF TargetHeld, Account
    <3>4. seen[p].user \in Account
      BY <3>1, <3>3 DEF TargetHeld, SubjectOf, UserOf
    <3>5. status' \in [Account -> {"active", "partial", "deactivated"}]
      BY <3>1, <3>4 DEF Post
    <3>6. live' \in [Proc -> SUBSET Sessions]
      BY <3>1 DEF Post
    <3>7. requested' \subseteq Run \X Account
      BY <3>1, <3>2, <3>4 DEF Post
    <3> QED
      BY <3>1, <3>2, <3>5, <3>6, <3>7 DEF Post
  <2> QED
    BY <1>3, <2>1, <2>2, <2>3, <2>4, <2>5, <2>6, <2>7, <2>8 DEF Advance, Bind, Deactivate
<1> QED
  BY <1>1, <1>2, <1>3 DEF Next

\* Provenance only grows: an identity is generated once, and no account goes.
LEMMA StepHistory ==
  TargetInv /\ [Next]_vars =>
    /\ directory' = directory
    /\ accounts \subseteq accounts'
    /\ \A c \in Fresh : owner[c] # Unset => owner'[c] = owner[c]
<1> SUFFICES ASSUME TargetInv, [Next]_vars
             PROVE  /\ directory' = directory
                    /\ accounts \subseteq accounts'
                    /\ \A c \in Fresh : owner[c] # Unset => owner'[c] = owner[c]
  OBVIOUS
<1> USE DEF file, system
<1> TypeOK
  BY DEF TargetInv
<1>1. CASE UNCHANGED vars
  BY <1>1 DEF vars
<1>2. CASE \E r \in Run : EditByHand(r)
  BY <1>2 DEF EditByHand
<1>3. ASSUME NEW p \in Proc, Advance(p)
      PROVE  /\ directory' = directory
             /\ accounts \subseteq accounts'
             /\ \A c \in Fresh : owner[c] # Unset => owner'[c] = owner[c]
  <2>1. CASE \E r \in Run : Begin(p, r)
    BY <2>1 DEF Begin
  <2>2. CASE \E c \in Fresh : Generate(p, c)
    BY <2>2 DEF Generate, TypeOK
  <2>3. CASE SignupSucceeds(p) \/ SignupLost(p)
    BY <2>3 DEF SignupSucceeds, SignupLost, SignsUp
  <2>4. CASE Load(p) \/ SaveReservation(p) \/ SignupAccountExists(p) \/ Login(p)
             \/ MarkChecked(p) \/ SaveCompletion(p) \/ Retry(p)
    BY <2>4 DEF Load, SaveReservation, SignupAccountExists, Login, MarkChecked, SaveCompletion,
                Retry
  <2>5. CASE Identify(p) \/ BindChecked(p) \/ SaveBinding(p)
             \/ ReadContent(p, "reserve", "reserving") \/ ReadContent(p, "complete", "completing")
             \/ ReadContent(p, "bind-read", "binding")
    BY <2>5 DEF Identify, BindChecked, SaveBinding, ReadContent
  <2>6. CASE Deactivate(p) \/ Fails(p)
    BY <2>6 DEF Deactivate, SecondLogin, Denied, VerifyUnchanged, Deactivated, VerifyDeactivated,
                VerifyRevoked, Repeated, VerifyRepeated, Passes, PostFails, Post, Fails
  <2> QED
    BY <1>3, <2>1, <2>2, <2>3, <2>4, <2>5, <2>6 DEF Advance, Acquire, Bind
<1> QED
  BY <1>1, <1>2, <1>3 DEF Next

\* Contents that are well owned stay so when provenance grows.
LEMMA WellOwnedKept ==
  ASSUME TargetInv, [Next]_vars, NEW recs \in [Run -> Record], WellOwned(recs)
  PROVE  \A r \in Run : recs[r].cred # Unset => recs[r].cred \in Fresh /\ owner'[recs[r].cred] = r
<1>1. \A r \in Run : r # Unset
  BY TargetAssumption
<1> QED
  BY <1>1, StepHistory DEF WellOwned

\* Every update and every edit keeps the file, and what is about to be
\* written to it, well owned.
LEMMA StepWellOwned ==
  TargetInv /\ [Next]_vars => WellOwned(records)' /\ \A p \in Proc : WellOwned(content[p])'
<1> SUFFICES ASSUME TargetInv, [Next]_vars
             PROVE  WellOwned(records)' /\ \A p \in Proc : WellOwned(content[p])'
  OBVIOUS
<1> USE DEF file, system
<1> DEFINE Owned2(recs) ==
      \A r \in Run : recs[r].cred # Unset => recs[r].cred \in Fresh /\ owner'[recs[r].cred] = r
<1>1. /\ records \in [Run -> Record] /\ Owned2(records)
      /\ \A p \in Proc : content[p] \in [Run -> Record] /\ Owned2(content[p])
      /\ content \in [Proc -> [Run -> Record]]
  BY WellOwnedKept DEF TargetInv, TypeOK
<1>2. NoContent \in [Run -> Record] /\ Owned2(NoContent)
  BY DEF NoContent, NoRecord, Record
<1>3. ASSUME NEW p \in Proc, NEW recs \in [Run -> Record], Owned2(recs),
             content' = [content EXCEPT ![p] = recs]
      PROVE  \A q \in Proc : Owned2(content'[q])
  BY <1>1, <1>3
<1>4. ASSUME Owned2(records'), \A q \in Proc : Owned2(content'[q])
      PROVE  WellOwned(records)' /\ \A p \in Proc : WellOwned(content[p])'
  BY <1>4 DEF WellOwned
<1>5. CASE UNCHANGED <<records, content>>
  BY <1>1, <1>4, <1>5
<1>6. ASSUME NEW r \in Run, EditByHand(r)
      PROVE  Owned2(records') /\ \A q \in Proc : Owned2(content'[q])
  <2>1. records[r] \in Record
    BY <1>1
  <2>2. PICK rec \in Record : /\ records' = [records EXCEPT ![r] = rec]
                             /\ rec.cred \in {Unset, records[r].cred}
    <3>1. /\ NoRecord \in Record /\ NoRecord.cred = Unset
          /\ [records[r] EXCEPT !.cred = Unset] \in Record
          /\ [records[r] EXCEPT !.cred = Unset].cred = Unset
          /\ [records[r] EXCEPT !.state = "pending"] \in Record
          /\ [records[r] EXCEPT !.state = "pending"].cred = records[r].cred
          /\ [records[r] EXCEPT !.state = "invalid"] \in Record
          /\ [records[r] EXCEPT !.state = "invalid"].cred = records[r].cred
          /\ [records[r] EXCEPT !.user = Unset] \in Record
          /\ [records[r] EXCEPT !.user = Unset].cred = records[r].cred
      BY <2>1 DEF Record, NoRecord
    <3> QED
      BY <1>6, <3>1 DEF EditByHand
  <2>3. content' = content
    BY <1>6 DEF EditByHand
  <2> QED
    BY <1>1, <2>2, <2>3
<1>7. ASSUME NEW p \in Proc, Advance(p)
      PROVE  Owned2(records') /\ \A q \in Proc : Owned2(content'[q])
  <2>1. CASE UNCHANGED <<records, content>>
    BY <1>1, <2>1
  <2>2. ASSUME NEW from, NEW to, ReadContent(p, from, to)
        PROVE  Owned2(records') /\ \A q \in Proc : Owned2(content'[q])
    BY <1>1, <1>3, <2>2 DEF ReadContent
  <2>3. CASE SaveReservation(p)
    <3>1. /\ pc[p] = "reserving" /\ run[p] \in Run /\ target[p] \in Record
      BY <2>3 DEF SaveReservation, Goto, TargetInv, TypeOK
    <3>2. target[p].cred \in Fresh /\ owner[target[p].cred] = run[p]
      BY <3>1 DEF TargetInv, TargetHeld, Acquisition
    <3>3. owner'[target[p].cred] = run[p]
      BY <2>3, <3>2 DEF SaveReservation
    <3>4. records' = WithPending(content[p], run[p], target[p])
      BY <2>3 DEF SaveReservation
    <3>5. /\ records'[run[p]].cred = target[p].cred
          /\ \A r \in Run \ {run[p]} : records'[r] = content[p][r]
      BY <1>1, <3>1, <3>4 DEF WithPending, Record
    <3> QED
      BY <1>1, <1>2, <1>3, <2>3, <3>2, <3>3, <3>5 DEF SaveReservation
  <2>4. CASE SaveCompletion(p) \/ SaveBinding(p)
    <3>1. run[p] \in Run /\ content' = [content EXCEPT ![p] = NoContent]
      BY <2>4 DEF SaveCompletion, SaveBinding, Goto, TargetInv, TypeOK
    <3>2. \A r \in Run : records'[r].cred = content[p][r].cred
      <4>1. CASE SaveCompletion(p)
        BY <1>1, <3>1, <4>1 DEF SaveCompletion, Record
      <4>2. CASE SaveBinding(p)
        BY <1>1, <3>1, <4>2 DEF SaveBinding, Record
      <4> QED
        BY <2>4, <4>1, <4>2
    <3> QED
      BY <1>1, <1>2, <1>3, <3>1, <3>2
  <2>5. CASE \/ \E r \in Run : Begin(p, r)
             \/ \E c \in Fresh : Generate(p, c)
             \/ Load(p) \/ SignupSucceeds(p) \/ SignupLost(p) \/ SignupAccountExists(p)
             \/ Login(p) \/ MarkChecked(p) \/ Retry(p) \/ Identify(p) \/ BindChecked(p)
    BY <2>1, <2>5 DEF Begin, Generate, Load, SignupSucceeds, SignupLost, SignsUp,
                      SignupAccountExists, Login, MarkChecked, Retry, Identify, BindChecked
  <2>6. CASE Deactivate(p) \/ Fails(p)
    BY <2>1, <2>6 DEF Deactivate, SecondLogin, Denied, VerifyUnchanged, Deactivated,
                VerifyDeactivated, VerifyRevoked, Repeated, VerifyRepeated, Passes, PostFails,
                Post, Fails
  <2> QED
    <3>1. CASE Acquire(p)
      BY <2>2, <2>3, <2>4, <2>5, <3>1 DEF Acquire
    <3>2. CASE Bind(p)
      BY <2>2, <2>4, <2>5, <3>2 DEF Bind
    <3> QED
      BY <1>7, <2>5, <2>6, <3>1, <3>2 DEF Advance
<1> QED
  BY <1>4, <1>5, <1>6, <1>7 DEF Next, vars

\* What an execution has established stays true while others act.
LEMMA TargetHeldKept ==
  ASSUME TargetInv, [Next]_vars, NEW q \in Proc,
         pc'[q] = pc[q], run'[q] = run[q], target'[q] = target[q], seen'[q] = seen[q]
  PROVE  TargetHeld(q)'
<1>1. /\ directory' = directory
      /\ accounts \subseteq accounts'
      /\ \A c \in Fresh : owner[c] # Unset => owner'[c] = owner[c]
  BY StepHistory
<1>2. pc[q] # "idle" => run[q] \in Run /\ run[q] # Unset
  BY TargetAssumption DEF TargetInv, TypeOK
<1>3. TargetHeld(q)
  BY DEF TargetInv
<1>4. NotReusable(q) => NotReusable(q)'
  BY <1>1 DEF NotReusable, ReusableSubjects, ReusableUsers, SubjectOf, UserOf
<1>5. "idle" \notin Acquisition \cup Lifecycle
  BY DEF Acquisition, Lifecycle
<1> QED
  BY <1>1, <1>2, <1>3, <1>4, <1>5 DEF TargetHeld, SubjectOf, UserOf

\* A step changes the execution of one process only.
LEMMA OthersKept ==
  ASSUME TypeOK, NEW p \in Proc, Advance(p), NEW q \in Proc \ {p}
  PROVE  pc'[q] = pc[q] /\ run'[q] = run[q] /\ target'[q] = target[q] /\ seen'[q] = seen[q]
<1> USE DEF TypeOK, Goto
<1>1. CASE \E r \in Run : Begin(p, r)
  BY <1>1 DEF Begin
<1>2. CASE \E c \in Fresh : Generate(p, c)
  BY <1>2 DEF Generate
<1>3. CASE Load(p) \/ SaveReservation(p) \/ Retry(p) \/ SaveCompletion(p)
  BY <1>3 DEF Load, SaveReservation, Retry, SaveCompletion
<1>4. CASE SignupSucceeds(p) \/ SignupLost(p) \/ SignupAccountExists(p) \/ Login(p)
  BY <1>4 DEF SignupSucceeds, SignupLost, SignsUp, SignupAccountExists, Login
<1>5. CASE MarkChecked(p) \/ Identify(p) \/ BindChecked(p) \/ SaveBinding(p)
  BY <1>5 DEF MarkChecked, Identify, BindChecked, SaveBinding
<1>6. ASSUME NEW from, NEW to, ReadContent(p, from, to)
      PROVE  pc'[q] = pc[q] /\ run'[q] = run[q] /\ target'[q] = target[q] /\ seen'[q] = seen[q]
  BY <1>6 DEF ReadContent
<1>7. CASE Deactivate(p)
  BY <1>7 DEF Deactivate, SecondLogin, Denied, VerifyUnchanged, Deactivated, VerifyDeactivated,
              VerifyRevoked, Repeated, VerifyRepeated, Passes, PostFails, Post
<1>8. CASE Fails(p)
  BY <1>8 DEF Fails
<1> QED
  BY <1>1, <1>2, <1>3, <1>4, <1>5, <1>6, <1>7, <1>8 DEF Advance, Acquire, Bind

\* Each step of an execution establishes what the next one relies on.
LEMMA StepTargetHeld == TargetInv /\ [Next]_vars => \A q \in Proc : TargetHeld(q)'
<1> SUFFICES ASSUME TargetInv, [Next]_vars, NEW q \in Proc PROVE TargetHeld(q)'
  OBVIOUS
<1>1. CASE UNCHANGED vars
  BY <1>1, TargetHeldKept DEF vars
<1>2. CASE \E r \in Run : EditByHand(r)
  BY <1>2, TargetHeldKept DEF EditByHand
<1>3. ASSUME NEW p \in Proc, p # q, Advance(p) PROVE TargetHeld(q)'
  BY <1>3, TargetHeldKept, OthersKept DEF TargetInv
<1>4. ASSUME Advance(q) PROVE TargetHeld(q)'
  <2> TypeOK /\ TargetHeld(q) /\ WellOwned(records)
    BY DEF TargetInv
  <2> USE DEF TypeOK, TargetHeld, Acquisition, Lifecycle, Goto
  <2>1. CASE \/ \E r \in Run : Begin(q, r)
             \/ SignupLost(q) \/ Retry(q) \/ Passes(q) \/ PostFails(q) \/ Fails(q)
    <3>1. pc'[q] \notin (Acquisition \cup Lifecycle) \ {"load"}
      BY <2>1 DEF Begin, SignupLost, SignsUp, Retry, Passes, PostFails, Fails
    <3> QED
      BY <3>1
  <2>2. CASE Load(q)
    <3>1. /\ run[q] \in Run /\ target'[q] = records[run[q]] /\ pc'[q] \in {"login", "signup"}
          /\ owner' = owner /\ run' = run
      BY <2>2 DEF Load
    <3>2. records[run[q]].cred # Unset
      BY <2>2 DEF Load, Resumable
    <3> QED
      BY <3>1, <3>2 DEF WellOwned
  <2>3. ASSUME NEW c \in Fresh, Generate(q, c) PROVE TargetHeld(q)'
    <3>1. /\ pc'[q] = "reserve" /\ target'[q].cred = c
          /\ owner'[c] = run[q] /\ run' = run
      BY <2>3 DEF Generate, Pending, NoRecord
    <3> QED
      BY <3>1
  <2>4. CASE \/ ReadContent(q, "reserve", "reserving") \/ SaveReservation(q)
             \/ SignupAccountExists(q)
    <3>1. /\ pc[q] \in {"reserve", "reserving", "signup"}
          /\ pc'[q] \in {"reserving", "signup", "login"}
          /\ target' = target /\ owner' = owner /\ run' = run
      BY <2>4 DEF ReadContent, SaveReservation, SignupAccountExists
    <3> QED
      BY <3>1
  <2>5. CASE SignupSucceeds(q)
    BY <2>5 DEF SignupSucceeds, SignsUp
  <2>6. CASE Login(q)
    BY <2>6 DEF Login
  <2>7. CASE MarkChecked(q) \/ ReadContent(q, "complete", "completing")
    <3>1. /\ pc[q] \in {"mark", "complete"} /\ pc'[q] \in {"complete", "completing"}
          /\ UNCHANGED <<target, owner, run, accounts>>
      BY <2>7 DEF MarkChecked, ReadContent, system
    <3> QED
      BY <3>1
  <2>8. CASE SaveCompletion(q)
    <3>1. target'[q].cred = target[q].cred
      BY <2>8 DEF SaveCompletion, Record
    <3> QED
      BY <2>8, <3>1 DEF SaveCompletion, system
  <2>9. CASE Identify(q)
    <3>1. /\ pc[q] = "identify" /\ pc'[q] = "bind"
          /\ UNCHANGED <<target, owner, run, accounts, directory>>
          /\ seen'[q].subject = SubjectOf(target[q].cred)
          /\ seen'[q].user = UserOf(seen'[q].subject)
      BY <2>9 DEF Identify, system
    <3> QED
      BY <3>1 DEF SubjectOf, UserOf
  <2>10. CASE BindChecked(q)
    <3>1. /\ pc[q] = "bind" /\ pc'[q] = "bind-read" /\ NotReusable(q)
          /\ UNCHANGED <<target, owner, run, accounts, directory, seen>>
      BY <2>10 DEF BindChecked, Bindable, system
    <3>2. NotReusable(q)'
      BY <3>1 DEF NotReusable, ReusableSubjects, ReusableUsers, SubjectOf, UserOf
    <3> QED
      BY <3>1, <3>2 DEF SubjectOf, UserOf
  <2>11. CASE \/ ReadContent(q, "bind-read", "binding") \/ SaveBinding(q) \/ SecondLogin(q)
              \/ Denied(q) \/ VerifyUnchanged(q) \/ Deactivated(q) \/ VerifyDeactivated(q)
              \/ VerifyRevoked(q) \/ Repeated(q) \/ VerifyRepeated(q)
    <3>1. /\ pc[q] \in Lifecycle \ {"identify", "bind"}
          /\ pc'[q] \in Lifecycle \ {"identify", "bind"}
      BY <2>11 DEF ReadContent, SaveBinding, SecondLogin, Denied, VerifyUnchanged, Deactivated,
                   VerifyDeactivated, VerifyRevoked, Repeated, VerifyRepeated
    <3>2. UNCHANGED <<owner, run, accounts, directory, seen>>
      BY <2>11 DEF ReadContent, SaveBinding, SecondLogin, Denied, VerifyUnchanged, Deactivated,
                   VerifyDeactivated, VerifyRevoked, Repeated, VerifyRepeated, Post, system
    <3>3. target'[q].cred = target[q].cred
      <4>1. CASE SaveBinding(q)
        BY <4>1 DEF SaveBinding, Record
      <4>2. CASE ~SaveBinding(q)
        BY <2>11, <4>2 DEF ReadContent, SecondLogin, Denied, VerifyUnchanged, Deactivated,
                   VerifyDeactivated, VerifyRevoked, Repeated, VerifyRepeated, Post
      <4> QED
        BY <4>1, <4>2
    <3>4. NotReusable(q)'
      BY <3>1, <3>2 DEF NotReusable, ReusableSubjects, ReusableUsers, SubjectOf, UserOf
    <3> QED
      BY <3>1, <3>2, <3>3, <3>4 DEF SubjectOf, UserOf
  <2> QED
    <3>1. CASE Acquire(q)
      BY <2>1, <2>2, <2>3, <2>4, <2>5, <2>6, <2>7, <2>8, <3>1 DEF Acquire
    <3>2. CASE Bind(q)
      BY <2>9, <2>10, <2>11, <3>2 DEF Bind
    <3>3. CASE Deactivate(q)
      BY <2>1, <2>11, <3>3 DEF Deactivate
    <3> QED
      BY <1>4, <2>1, <3>1, <3>2, <3>3 DEF Advance
<1> QED
  BY <1>1, <1>2, <1>3, <1>4 DEF Next

\* Only the three requests of the lifecycle add to what was requested.
LEMMA RequestStep ==
    ASSUME [Next]_vars, requested' # requested
    PROVE  \E p \in Proc : Post(p) /\ pc[p] \in {"denial", "deactivate", "repeat"}
<1>1. PICK p \in Proc : Advance(p)
  BY DEF Next, vars, EditByHand
<1>2. CASE Denied(p) \/ Deactivated(p) \/ Repeated(p) \/ PostFails(p)
  BY <1>2 DEF Denied, Deactivated, Repeated, PostFails, Goto
<1>3. CASE \/ \E s \in Run : Begin(p, s)
           \/ \E c \in Fresh : Generate(p, c)
           \/ Load(p) \/ SaveReservation(p) \/ SignupSucceeds(p) \/ SignupLost(p)
           \/ SignupAccountExists(p) \/ Login(p) \/ MarkChecked(p) \/ SaveCompletion(p)
           \/ Retry(p) \/ Fails(p)
  BY <1>3 DEF Begin, Generate, Load, SaveReservation, SignupSucceeds, SignupLost, SignsUp,
              SignupAccountExists, Login, MarkChecked, SaveCompletion, Retry, Fails
<1>4. CASE Identify(p) \/ BindChecked(p) \/ SaveBinding(p) \/ SecondLogin(p)
           \/ VerifyUnchanged(p) \/ VerifyDeactivated(p) \/ VerifyRevoked(p)
           \/ VerifyRepeated(p) \/ Passes(p)
  BY <1>4 DEF Identify, BindChecked, SaveBinding, SecondLogin,
              VerifyUnchanged, VerifyDeactivated, VerifyRevoked, VerifyRepeated, Passes
<1>5. ASSUME NEW from, NEW to, ReadContent(p, from, to) PROVE FALSE
  BY <1>5 DEF ReadContent
<1> QED
  BY <1>1, <1>2, <1>3, <1>4, <1>5 DEF Advance, Acquire, Bind, Deactivate

\* A request is only sent once the target is held and is not reusable.
LEMMA StepOwnTargetOnly == TargetInv /\ [Next]_vars => OwnTargetOnly'
<1> SUFFICES ASSUME TargetInv, [Next]_vars,
                    NEW r \in Run, NEW u \in Account, <<r, u>> \in requested'
             PROVE  /\ u \notin ReusableUsers'
                    /\ \E c \in accounts' : owner'[c] = r /\ u = UserOf(SubjectOf(c))'
  BY DEF OwnTargetOnly
<1>1. /\ directory' = directory
      /\ accounts \subseteq accounts'
      /\ \A c \in Fresh : owner[c] # Unset => owner'[c] = owner[c]
  BY StepHistory
<1>2. /\ ReusableUsers' = ReusableUsers
      /\ \A c : UserOf(SubjectOf(c))' = UserOf(SubjectOf(c))
  BY <1>1 DEF ReusableUsers, ReusableSubjects, SubjectOf, UserOf
<1>3. r # Unset /\ accounts \subseteq Fresh
  BY TargetAssumption DEF TargetInv, TypeOK
<1>4. CASE <<r, u>> \in requested
  BY <1>1, <1>2, <1>3, <1>4 DEF TargetInv, OwnTargetOnly
<1>5. CASE <<r, u>> \notin requested
  <2>1. PICK p \in Proc : Post(p) /\ pc[p] \in {"denial", "deactivate", "repeat"}
    BY <1>5, RequestStep
  <2>2. r = run[p] /\ u = seen[p].user
    BY <1>5, <2>1 DEF Post
  <2>3. /\ target[p].cred \in Fresh /\ owner[target[p].cred] = run[p]
        /\ target[p].cred \in accounts
        /\ seen[p].user = UserOf(SubjectOf(target[p].cred))
        /\ NotReusable(p)
    BY <2>1 DEF TargetInv, TargetHeld, Acquisition, Lifecycle
  <2> QED
    BY <1>1, <1>2, <1>3, <2>2, <2>3 DEF NotReusable
<1> QED
  BY <1>4, <1>5

\* The invariant holds in every behaviour.
LEMMA TargetInvariant == Spec => []TargetInv
<1>1. Init => TargetInv
  BY InitTargetInv
<1>2. TargetInv /\ [Next]_vars => TargetInv'
  BY StepTypeOK, StepWellOwned, StepTargetHeld, StepOwnTargetOnly DEF TargetInv
<1> QED
  BY <1>1, <1>2, PTL DEF Spec

\* Every variable keeps its type, whatever the system under test answers.
THEOREM TypeCorrect == Spec => []TypeOK
<1>1. TargetInv => TypeOK
  BY DEF TargetInv
<1> QED
  BY <1>1, TargetInvariant, PTL

\* bind_disposable_identity and require_owned_disposable_identity: an
\* execution requests the deactivation of its own target and of nobody else,
\* however many executions share the file and however identities resolve.
THEOREM OnlyOwnTargets == Spec => []OwnTargetOnly
<1>1. TargetInv => OwnTargetOnly
  BY DEF TargetInv
<1> QED
  BY <1>1, TargetInvariant, PTL

-----------------------------------------------------------------------------
(* One process at a time, with edits by hand between any two of its steps. *)

Solo == \A p, q \in Proc : p = q

\* Steps with the record of the target in the file, in the memory of the
\* execution, or both.
OnRecord == {"signup", "login", "mark", "complete", "completing"} \cup Lifecycle
Checked == Lifecycle \ {"identify", "bind"}
Bound == Checked \ {"bind-read", "binding"}

\* What an execution knows of the file, but for records edited by hand: which
\* record is its own, that an update writes back what it has read, and, once
\* the binding is checked, that no request was made for the user it binds.
Recorded(p) ==
    /\ pc[p] \in {"reserve", "reserving"} =>
         /\ target[p] = Pending(run[p], target[p].cred)
         /\ run[p] \notin edited => records[run[p]] = NoRecord
    /\ pc[p] \in {"reserving", "completing", "binding"} =>
         \A r \in Run \ edited : content[p][r] = records[r]
    /\ pc[p] \in OnRecord /\ run[p] \notin edited => records[run[p]] = target[p]
    /\ pc[p] \in Checked =>
         /\ target[p].owner = run[p] /\ target[p].state = "complete"
         /\ target[p].subject \in {Unset, seen[p].subject}
         /\ target[p].user \in {Unset, seen[p].user}
         /\ \A s \in Run \ (edited \cup {run[p]}) : <<s, seen[p].user>> \notin requested
    /\ pc[p] \in Bound =>
         target[p].subject = seen[p].subject /\ target[p].user = seen[p].user

\* What the last checks of the scenario have seen.
Verified(p) ==
    /\ pc[p] \in {"repeat", "repeated", "reusables", "passed"} => live[p] = {}
    /\ pc[p] \in {"reusables", "passed"} => status[seen[p].user] = "deactivated"
    /\ pc[p] = "passed" => \A u \in ReusableUsers : status[u] = "active"

AccountsSaved == TargetsSaved /\ \A c \in accounts : owner[c] \in Run

\* The record of a request names the identity it was made for.
RequestsSaved ==
    \A r \in Run \ edited, u \in Account :
      <<r, u>> \in requested => records[r].cred \in Fresh

\* The inductive invariant of a lone process.
LoneInv ==
    /\ TargetInv
    /\ \A p \in Proc : Recorded(p) /\ Verified(p)
    /\ AccountsSaved
    /\ RequestsAreOnRecord
    /\ RequestsSaved

\* What every update keeps of a record.
Kept(old, new) ==
    /\ old.owner # Unset => new.owner = old.owner
    /\ old.cred # Unset => new.cred = old.cred
    /\ old.user # Unset => new.user = old.user
    /\ old.subject # Unset => new.subject = old.subject
    /\ old.state = "complete" => new.state = "complete"

\* A step that changes the file is one of the three updates or an edit.
LEMMA FileStep ==
    ASSUME [Next]_vars
    PROVE  \/ UNCHANGED <<records, edited>>
           \/ \E r \in Run : EditByHand(r)
           \/ \E p \in Proc : SaveReservation(p) \/ SaveCompletion(p) \/ SaveBinding(p)
<1> SUFFICES ASSUME ~UNCHANGED <<records, edited>>, ~\E r \in Run : EditByHand(r),
                    NEW p \in Proc, Advance(p)
             PROVE  SaveReservation(p) \/ SaveCompletion(p) \/ SaveBinding(p)
  BY DEF Next, vars, file
<1> USE DEF file
<1>1. CASE \/ \E s \in Run : Begin(p, s)
           \/ \E c \in Fresh : Generate(p, c)
           \/ Load(p) \/ SignupSucceeds(p) \/ SignupLost(p)
           \/ SignupAccountExists(p) \/ Login(p) \/ MarkChecked(p) \/ Retry(p) \/ Fails(p)
  BY <1>1 DEF Begin, Generate, Load, SignupSucceeds, SignupLost, SignsUp,
              SignupAccountExists, Login, MarkChecked, Retry, Fails
<1>2. CASE Identify(p) \/ BindChecked(p) \/ SecondLogin(p)
           \/ VerifyUnchanged(p) \/ VerifyDeactivated(p) \/ VerifyRevoked(p)
           \/ VerifyRepeated(p) \/ Passes(p)
  BY <1>2 DEF Identify, BindChecked, SecondLogin,
              VerifyUnchanged, VerifyDeactivated, VerifyRevoked, VerifyRepeated, Passes
<1>3. CASE Denied(p) \/ Deactivated(p) \/ Repeated(p) \/ PostFails(p)
  BY <1>3 DEF Denied, Deactivated, Repeated, PostFails, Post
<1>4. ASSUME NEW from, NEW to, ReadContent(p, from, to) PROVE FALSE
  BY <1>4 DEF ReadContent
<1> QED
  BY <1>1, <1>2, <1>3, <1>4 DEF Advance, Acquire, Bind, Deactivate

\* An update writes its own record, and every other one as it was.
LEMMA UpdateWrites ==
    ASSUME LoneInv, NEW p \in Proc,
           SaveReservation(p) \/ SaveCompletion(p) \/ SaveBinding(p)
    PROVE  /\ edited' = edited /\ run' = run /\ run[p] \in Run
           /\ \A r \in Run \ (edited \cup {run[p]}) : records'[r] = records[r]
           /\ run[p] \notin edited =>
                records'[run[p]] = target'[p] /\ Kept(records[run[p]], records'[run[p]])
<1> DEFINE r0 == run[p]
<1>1. /\ pc[p] \in {"reserving", "completing", "binding"}
      /\ edited' = edited /\ run' = run
  BY DEF SaveReservation, SaveCompletion, SaveBinding, Goto
<1>2. /\ r0 \in Run /\ target[p] \in Record /\ content[p] \in [Run -> Record]
      /\ target \in [Proc -> Record] /\ records \in [Run -> Record]
      /\ Recorded(p)
  BY <1>1 DEF LoneInv, TargetInv, TypeOK
<1>3. /\ \A r \in Run \ edited : content[p][r] = records[r]
  BY <1>1, <1>2 DEF Recorded
<1>4. CASE SaveReservation(p)
  <2>1. /\ target' = target
        /\ records' = WithPending(content[p], r0, target[p])
        /\ target[p] = Pending(r0, target[p].cred)
        /\ r0 \notin edited => records[r0] = NoRecord
    BY <1>2, <1>4 DEF SaveReservation, Goto, Recorded
  <2>2. \A r \in Run \ {r0} : records'[r] = content[p][r]
    BY <1>2, <2>1 DEF WithPending
  <2>3. records'[r0] = [content[p][r0] EXCEPT !.owner = r0, !.cred = target[p].cred,
                                              !.state = "pending"]
    BY <1>2, <2>1 DEF WithPending
  <2>4. r0 \notin edited => records'[r0] = target[p]
    BY <1>2, <1>3, <2>1, <2>3 DEF Pending
  <2>5. r0 \notin edited => Kept(records[r0], records'[r0])
    BY <2>1 DEF NoRecord, Kept
  <2> QED
    BY <1>1, <1>2, <1>3, <2>1, <2>2, <2>4, <2>5
<1>5. CASE SaveCompletion(p)
  <2>1. /\ pc[p] = "completing"
        /\ records' = [content[p] EXCEPT ![r0].state = "complete"]
        /\ target'[p] = [target[p] EXCEPT !.state = "complete"]
    BY <1>2, <1>5 DEF SaveCompletion, Goto
  <2>2. /\ \A r \in Run \ {r0} : records'[r] = content[p][r]
        /\ records'[r0] = [content[p][r0] EXCEPT !.state = "complete"]
    BY <1>2, <2>1
  <2>3. r0 \notin edited => records[r0] = target[p]
    BY <1>2, <2>1 DEF Recorded, OnRecord
  <2>4. r0 \notin edited => records'[r0] = target'[p]
    BY <1>2, <1>3, <2>1, <2>2, <2>3
  <2>5. r0 \notin edited => Kept(records[r0], records'[r0])
    BY <1>2, <1>3, <2>2 DEF Kept, Record
  <2> QED
    BY <1>1, <1>2, <1>3, <2>2, <2>4, <2>5
<1>6. CASE SaveBinding(p)
  <2>1. /\ pc[p] = "binding"
        /\ records' = [content[p] EXCEPT ![r0].subject = seen[p].subject,
                                         ![r0].user = seen[p].user]
        /\ target'[p] = [target[p] EXCEPT !.subject = seen[p].subject, !.user = seen[p].user]
    BY <1>2, <1>6 DEF SaveBinding, Goto
  <2>2. /\ \A r \in Run \ {r0} : records'[r] = content[p][r]
        /\ records'[r0] = [content[p][r0] EXCEPT !.subject = seen[p].subject,
                                                 !.user = seen[p].user]
    BY <1>2, <2>1
  <2>3. /\ r0 \notin edited => records[r0] = target[p]
        /\ target[p].subject \in {Unset, seen[p].subject}
        /\ target[p].user \in {Unset, seen[p].user}
    BY <1>2, <2>1 DEF Recorded, OnRecord, Checked, Lifecycle
  <2>4. r0 \notin edited => records'[r0] = target'[p]
    BY <1>2, <1>3, <2>1, <2>2, <2>3
  <2>5. r0 \notin edited => Kept(records[r0], records'[r0])
    BY <1>2, <1>3, <2>2, <2>3 DEF Kept, Record
  <2> QED
    BY <1>1, <1>2, <1>3, <2>2, <2>4, <2>5
<1> QED
  BY <1>4, <1>5, <1>6

\* No step takes anything back from a record that nobody edits.
LEMMA StepKeepsRecords ==
    ASSUME LoneInv, [Next]_vars
    PROVE  edited \subseteq edited' /\ \A r \in Run \ edited' : Kept(records[r], records'[r])
<1>1. CASE UNCHANGED <<records, edited>>
  BY <1>1 DEF Kept
<1>2. ASSUME NEW s \in Run, EditByHand(s)
      PROVE  edited \subseteq edited' /\ \A r \in Run \ edited' : records'[r] = records[r]
  BY <1>2 DEF EditByHand, LoneInv, TargetInv, TypeOK
<1>3. ASSUME NEW p \in Proc, SaveReservation(p) \/ SaveCompletion(p) \/ SaveBinding(p)
      PROVE  edited \subseteq edited' /\ \A r \in Run \ edited' : Kept(records[r], records'[r])
  BY <1>3, UpdateWrites DEF Kept
<1> QED
  BY <1>1, <1>2, <1>3, FileStep DEF Kept

\* Accounts come from signups, after their identity was generated.
LEMMA StepAccountsSaved == ASSUME LoneInv, [Next]_vars PROVE AccountsSaved'
<1> USE DEF LoneInv, TargetInv
<1>1. /\ edited \subseteq edited' /\ \A r \in Run \ edited' : Kept(records[r], records'[r])
      /\ \A c \in Fresh : owner[c] # Unset => owner'[c] = owner[c]
  BY StepKeepsRecords, StepHistory
<1>2. /\ accounts \subseteq Fresh /\ \A r \in Run : r # Unset
      /\ \A c \in Fresh : c # Unset
  BY TargetAssumption DEF TypeOK, Account
<1>3. ASSUME NEW c \in accounts
      PROVE  owner'[c] \in Run /\ (owner'[c] \in edited' \/ records'[owner'[c]].cred = c)
  <2>1. /\ owner[c] \in Run /\ owner'[c] = owner[c]
        /\ owner[c] \in edited \/ records[owner[c]].cred = c
    BY <1>1, <1>2 DEF AccountsSaved, TargetsSaved
  <2> QED
    BY <1>1, <1>2, <2>1 DEF Kept
<1>4. ASSUME NEW p \in Proc, pc[p] = "signup",
             accounts' = accounts \cup {target[p].cred}, UNCHANGED <<records, edited>>
      PROVE  LET c == target[p].cred
             IN  owner'[c] \in Run /\ (owner'[c] \in edited' \/ records'[owner'[c]].cred = c)
  <2>1. /\ target[p].cred \in Fresh /\ owner[target[p].cred] = run[p] /\ run[p] \in Run
        /\ run[p] \notin edited => records[run[p]] = target[p]
    BY <1>4 DEF TypeOK, TargetHeld, Acquisition, Recorded, OnRecord
  <2> QED
    BY <1>1, <1>2, <1>4, <2>1
<1>5. \/ accounts' = accounts
      \/ \E p \in Proc : /\ pc[p] = "signup" /\ accounts' = accounts \cup {target[p].cred}
                         /\ UNCHANGED <<records, edited>>
  <2> SUFFICES ASSUME accounts' # accounts, NEW p \in Proc, Advance(p)
               PROVE  /\ pc[p] = "signup" /\ accounts' = accounts \cup {target[p].cred}
                      /\ UNCHANGED <<records, edited>>
    BY DEF Next, vars, system, EditByHand
  <2> USE DEF system, file
  <2>1. CASE SignupSucceeds(p) \/ SignupLost(p)
    BY <2>1 DEF SignupSucceeds, SignupLost, SignsUp, Goto
  <2>2. CASE \/ \E s \in Run : Begin(p, s)
             \/ \E c \in Fresh : Generate(p, c)
             \/ Load(p) \/ SaveReservation(p) \/ SignupAccountExists(p) \/ Login(p)
             \/ MarkChecked(p) \/ SaveCompletion(p) \/ Retry(p) \/ Fails(p)
    BY <2>2 DEF Begin, Generate, Load, SaveReservation, SignupAccountExists, Login,
                MarkChecked, SaveCompletion, Retry, Fails
  <2>3. CASE Identify(p) \/ BindChecked(p) \/ SaveBinding(p) \/ SecondLogin(p)
             \/ VerifyUnchanged(p) \/ VerifyDeactivated(p) \/ VerifyRevoked(p)
             \/ VerifyRepeated(p) \/ Passes(p)
    BY <2>3 DEF Identify, BindChecked, SaveBinding, SecondLogin, VerifyUnchanged,
                VerifyDeactivated, VerifyRevoked, VerifyRepeated, Passes
  <2>4. CASE Denied(p) \/ Deactivated(p) \/ Repeated(p) \/ PostFails(p)
    BY <2>4 DEF Denied, Deactivated, Repeated, PostFails, Post
  <2>5. ASSUME NEW from, NEW to, ReadContent(p, from, to) PROVE FALSE
    BY <2>5 DEF ReadContent
  <2> QED
    BY <2>1, <2>2, <2>3, <2>4, <2>5 DEF Advance, Acquire, Bind, Deactivate
<1> QED
  BY <1>3, <1>4, <1>5 DEF AccountsSaved, TargetsSaved

\* Requests and their records, with the saved credential.
LEMMA StepRequests ==
    ASSUME LoneInv, [Next]_vars
    PROVE  RequestsAreOnRecord' /\ RequestsSaved'
<1> USE DEF LoneInv, TargetInv
<1>1. /\ edited \subseteq edited' /\ \A r \in Run \ edited' : Kept(records[r], records'[r])
      /\ directory' = directory
  BY StepKeepsRecords, StepHistory
<1>2. /\ \A r \in Run : r # Unset
      /\ \A c \in Account : c # Unset
      /\ Fresh \subseteq Account
  BY TargetAssumption DEF Account
<1>3. \A c : UserOf(SubjectOf(c))' = UserOf(SubjectOf(c))
  BY <1>1 DEF UserOf, SubjectOf
<1>4. \/ requested' = requested
      \/ \E p \in Proc : /\ requested' = requested \cup {<<run[p], seen[p].user>>}
                         /\ pc[p] \in Bound /\ UNCHANGED <<records, edited>>
  BY RequestStep DEF Post, Bound, Checked, Lifecycle, file
<1>5. ASSUME NEW r \in Run, NEW u \in Account, <<r, u>> \in requested', r \notin edited'
      PROVE  /\ records'[r].owner = r
             /\ records'[r].state = "complete"
             /\ records'[r].user = u
             /\ UserOf(SubjectOf(records[r].cred))' = u
             /\ records'[r].cred \in Fresh
  <2>1. CASE <<r, u>> \in requested
    <3>1. /\ records[r].owner = r /\ records[r].state = "complete" /\ records[r].user = u
          /\ UserOf(SubjectOf(records[r].cred)) = u
      BY <1>1, <1>5, <2>1 DEF RequestsAreOnRecord
    <3>4. records[r].cred \in Fresh
      <4>1. r \notin edited
        BY <1>1, <1>5
      <4> QED
        BY <2>1, <4>1 DEF RequestsSaved
    <3>2. Kept(records[r], records'[r])
      BY <1>1, <1>5
    <3>3. /\ records'[r].owner = r /\ records'[r].state = "complete" /\ records'[r].user = u
          /\ records'[r].cred = records[r].cred
      BY <1>2, <3>1, <3>2, <3>4 DEF Kept
    <3> QED
      BY <1>1, <3>1, <3>3, <3>4 DEF UserOf, SubjectOf
  <2>2. CASE <<r, u>> \notin requested
    <3>1. PICK p \in Proc : /\ r = run[p] /\ u = seen[p].user /\ pc[p] \in Bound
                            /\ UNCHANGED <<records, edited>>
      BY <1>4, <1>5, <2>2
    <3>2. /\ records[r] = target[p] /\ target[p].owner = r /\ target[p].state = "complete"
          /\ target[p].user = u
      BY <1>1, <1>5, <3>1 DEF Recorded, OnRecord, Bound, Checked
    <3>3. /\ target[p].cred \in Fresh /\ seen[p].subject = SubjectOf(target[p].cred)
          /\ seen[p].user = UserOf(seen[p].subject)
      BY <3>1 DEF TargetHeld, Bound, Checked, Acquisition, Lifecycle
    <3> QED
      BY <1>1, <3>1, <3>2, <3>3 DEF UserOf, SubjectOf
  <2> QED
    BY <2>1, <2>2
<1>6. ASSUME NEW r \in Run, NEW u \in Account, <<r, u>> \in requested', r \notin edited',
             NEW s \in Run \ {r}, <<s, u>> \in requested', s \notin edited'
      PROVE  FALSE
  <2>1. CASE <<r, u>> \in requested /\ <<s, u>> \in requested
    BY <1>1, <1>6, <2>1 DEF RequestsAreOnRecord
  <2>2. CASE <<r, u>> \notin requested \/ <<s, u>> \notin requested
    <3>1. PICK p \in Proc : /\ requested' = requested \cup {<<run[p], seen[p].user>>}
                            /\ pc[p] \in Bound
      BY <1>4, <1>6, <2>2
    <3>2. \A o \in Run \ (edited \cup {run[p]}) : <<o, seen[p].user>> \notin requested
      BY <3>1 DEF Recorded, Bound
    <3> QED
      BY <1>1, <1>6, <2>2, <3>1, <3>2
  <2> QED
    BY <2>1, <2>2
<1>7. RequestsAreOnRecord'
  BY <1>5, <1>6 DEF RequestsAreOnRecord
<1>8. RequestsSaved'
  BY <1>5 DEF RequestsSaved
<1> QED
  BY <1>7, <1>8

\* A step that leaves the file and what the execution knows of its target
\* alone keeps Recorded, if it goes to a step of the same kind.
LEMMA FrameRecorded ==
    ASSUME LoneInv, NEW p \in Proc, Recorded(p),
           UNCHANGED <<records, edited, run, target, seen, content>>,
           requested' \subseteq requested \cup {<<run[p], seen[p].user>>},
           pc'[p] \notin {"reserve", "reserving", "completing", "binding"},
           pc'[p] \in OnRecord => pc[p] \in OnRecord,
           pc'[p] \in Checked => pc[p] \in Checked,
           pc'[p] \in Bound => pc[p] \in Bound
    PROVE  Recorded(p)'
<1>1. pc'[p] \in OnRecord /\ run[p] \notin edited => records[run[p]] = target[p]
  BY DEF Recorded
<1>2. pc'[p] \in Checked =>
        \A s \in Run \ (edited \cup {run[p]}) : <<s, seen[p].user>> \notin requested'
  BY DEF Recorded
<1> QED
  BY <1>1, <1>2 DEF Recorded

\* A lone execution keeps its knowledge of the file: nobody else writes it.
LEMMA StepRecorded ==
    ASSUME Solo, LoneInv, [Next]_vars, NEW p \in Proc PROVE Recorded(p)'
<1>1. /\ TypeOK /\ TargetHeld(p) /\ Recorded(p) /\ RequestsAreOnRecord
      /\ \A q \in Proc : q = p
  BY DEF LoneInv, TargetInv, Solo
<1>2. CASE UNCHANGED vars
  BY <1>1, <1>2 DEF vars, file, Recorded
<1>3. ASSUME NEW r \in Run, EditByHand(r) PROVE Recorded(p)'
  <2>1. /\ edited' = edited \cup {r} /\ \A s \in Run \ {r} : records'[s] = records[s]
        /\ UNCHANGED <<requested, pc, run, target, seen, content>>
    BY <1>1, <1>3 DEF EditByHand, TypeOK
  <2>2. pc[p] # "idle" => run[p] \in Run
    BY <1>1 DEF TypeOK
  <2>3. "idle" \notin OnRecord
    BY DEF OnRecord, Lifecycle
  <2> QED
    BY <1>1, <2>1, <2>2, <2>3 DEF Recorded
<1>4. CASE Advance(p)
  <2> USE <1>1 DEF file, system, TypeOK, Goto
  <2>1. ASSUME \/ \E r \in Run : Begin(p, r)
               \/ SignupLost(p) \/ Retry(p) \/ Passes(p) \/ PostFails(p) \/ Fails(p)
        PROVE  Recorded(p)'
    <3>1. pc'[p] \in {"load", "unprovisioned", "passed", "failed"}
      BY <2>1 DEF Begin, SignupLost, SignsUp, Retry, Passes, PostFails, Fails
    <3> QED
      BY <3>1 DEF Recorded, OnRecord, Checked, Bound, Lifecycle
  <2>2. CASE Load(p)
    <3>1. /\ pc'[p] \in {"login", "signup"} /\ target'[p] = records[run[p]]
          /\ UNCHANGED <<records, run>>
      BY <2>2 DEF Load
    <3> QED
      BY <3>1 DEF Recorded, Checked, Bound, Lifecycle
  <2>3. ASSUME NEW c \in Fresh, Generate(p, c) PROVE Recorded(p)'
    <3>1. /\ pc'[p] = "reserve" /\ target'[p] = Pending(run[p], c)
          /\ records[run[p]] = NoRecord /\ UNCHANGED <<records, run>>
      BY <2>3 DEF Generate
    <3>2. Pending(run[p], c).cred = c
      BY DEF Pending, NoRecord
    <3> QED
      BY <3>1, <3>2 DEF Recorded, OnRecord, Checked, Bound, Lifecycle
  <2>4. CASE \/ ReadContent(p, "reserve", "reserving")
             \/ ReadContent(p, "complete", "completing")
             \/ ReadContent(p, "bind-read", "binding")
    <3>1. /\ content'[p] = records
          /\ UNCHANGED <<records, edited, requested, run, target, seen>>
          /\ \/ pc[p] = "reserve" /\ pc'[p] = "reserving"
             \/ pc[p] = "complete" /\ pc'[p] = "completing"
             \/ pc[p] = "bind-read" /\ pc'[p] = "binding"
      BY <2>4 DEF ReadContent
    <3> QED
      BY <3>1 DEF Recorded, OnRecord, Checked, Bound, Lifecycle
  <2>5. CASE SaveReservation(p) \/ SaveCompletion(p)
    <3>1. /\ edited' = edited /\ run' = run
          /\ run[p] \notin edited => records'[run[p]] = target'[p]
      BY <2>5, UpdateWrites
    <3>2. pc'[p] \in {"signup", "identify"}
      BY <2>5 DEF SaveReservation, SaveCompletion
    <3> QED
      BY <3>1, <3>2 DEF Recorded, Checked, Bound, Lifecycle
  <2>6. CASE SaveBinding(p)
    <3>1. /\ edited' = edited /\ run' = run
          /\ run[p] \notin edited => records'[run[p]] = target'[p]
      BY <2>6, UpdateWrites
    <3>2. /\ pc[p] = "binding" /\ pc'[p] = "second" /\ UNCHANGED <<seen, requested>>
          /\ target'[p].subject = seen[p].subject /\ target'[p].user = seen[p].user
          /\ target'[p].owner = target[p].owner /\ target'[p].state = target[p].state
      BY <2>6 DEF SaveBinding, Record
    <3> QED
      BY <3>1, <3>2 DEF Recorded, OnRecord, Checked, Bound, Lifecycle
  <2>7. CASE Identify(p)
    <3>1. /\ pc[p] = "identify" /\ pc'[p] = "bind"
          /\ UNCHANGED <<records, edited, run, target>>
      BY <2>7 DEF Identify
    <3> QED
      BY <3>1 DEF Recorded, OnRecord, Checked, Bound, Lifecycle
  <2>8. CASE BindChecked(p)
    <3>1. /\ pc[p] = "bind" /\ pc'[p] = "bind-read" /\ Bindable(p)
          /\ UNCHANGED <<records, edited, run, target, seen, requested>>
      BY <2>8 DEF BindChecked
    <3>2. seen[p].user \in Account
      BY <3>1, TargetAssumption DEF TargetHeld, Lifecycle, Acquisition, SubjectOf, UserOf, Account
    <3>3. \A s \in Run \ (edited \cup {run[p]}) : <<s, seen[p].user>> \notin requested
      BY <3>1, <3>2 DEF Bindable, RequestsAreOnRecord
    <3> QED
      BY <3>1, <3>3 DEF Bindable, Recorded, OnRecord, Checked, Bound, Lifecycle
  <2>9. CASE SignupSucceeds(p) \/ SignupAccountExists(p) \/ Login(p) \/ MarkChecked(p)
    <3>1. /\ UNCHANGED <<records, edited, run, target, seen, content, requested>>
          /\ pc[p] \in {"signup", "login", "mark"}
          /\ pc'[p] \in {"login", "mark", "identify", "complete"}
      BY <2>9 DEF SignupSucceeds, SignsUp, SignupAccountExists, Login, MarkChecked
    <3> QED
      BY <3>1, FrameRecorded DEF OnRecord, Checked, Bound, Lifecycle
  <2>10. CASE SecondLogin(p) \/ VerifyUnchanged(p) \/ VerifyDeactivated(p)
              \/ VerifyRevoked(p) \/ VerifyRepeated(p)
    <3>1. /\ UNCHANGED <<records, edited, run, target, seen, content, requested>>
          /\ pc[p] \in Bound
          /\ pc'[p] \in Bound
      BY <2>10 DEF SecondLogin, VerifyUnchanged, VerifyDeactivated, VerifyRevoked,
                   VerifyRepeated, Bound, Checked, Lifecycle
    <3> QED
      BY <3>1, FrameRecorded DEF OnRecord, Checked, Bound, Lifecycle
  <2>11. CASE Denied(p) \/ Deactivated(p) \/ Repeated(p)
    <3>1. /\ UNCHANGED <<records, edited, run, target, seen, content>>
          /\ requested' = requested \cup {<<run[p], seen[p].user>>}
          /\ pc[p] \in Bound
          /\ pc'[p] \in Bound
      BY <2>11 DEF Denied, Deactivated, Repeated, Post, Bound, Checked, Lifecycle
    <3> QED
      BY <3>1, FrameRecorded DEF OnRecord, Checked, Bound, Lifecycle
  <2> QED
    <3>1. CASE Acquire(p)
      BY <2>1, <2>2, <2>3, <2>4, <2>5, <2>9, <3>1 DEF Acquire
    <3>2. CASE Bind(p)
      BY <2>4, <2>6, <2>7, <2>8, <3>2 DEF Bind
    <3>3. CASE Deactivate(p)
      BY <2>1, <2>10, <2>11, <3>3 DEF Deactivate
    <3> QED
      BY <1>4, <2>1, <3>1, <3>2, <3>3 DEF Advance
<1> QED
  BY <1>1, <1>2, <1>3, <1>4 DEF Next

\* What a lone execution has verified stays so until it has ended.
LEMMA StepVerified ==
    ASSUME Solo, LoneInv, [Next]_vars, NEW p \in Proc PROVE Verified(p)'
<1>1. /\ TypeOK /\ Verified(p) /\ \A q \in Proc : q = p
      /\ ReusableUsers' = ReusableUsers
  <2>1. directory' = directory
    BY StepHistory DEF LoneInv
  <2> QED
    BY <2>1 DEF LoneInv, TargetInv, Solo, ReusableUsers, ReusableSubjects, SubjectOf, UserOf
<1>2. CASE UNCHANGED <<live, status, pc, seen>>
  BY <1>1, <1>2 DEF Verified
<1>3. CASE Advance(p)
  <2> USE <1>1 DEF system, TypeOK, Goto
  <2>1. ASSUME pc'[p] \notin {"repeat", "repeated", "reusables", "passed"}
        PROVE  Verified(p)'
    BY <2>1 DEF Verified
  <2>2. CASE VerifyRevoked(p)
    BY <2>2 DEF VerifyRevoked, Verified
  <2>3. CASE Repeated(p)
    <3>1. pc[p] = "repeat" /\ pc'[p] = "repeated" /\ live'[p] \in SUBSET live[p]
      BY <2>3 DEF Repeated, Post
    <3> QED
      BY <3>1 DEF Verified
  <2>4. CASE VerifyRepeated(p)
    BY <2>4 DEF VerifyRepeated, Verified
  <2>5. CASE Passes(p)
    BY <2>5 DEF Passes, Verified
  <2>6. CASE \/ \E r \in Run : Begin(p, r)
             \/ \E c \in Fresh : Generate(p, c)
             \/ Load(p) \/ SaveReservation(p) \/ SignupSucceeds(p) \/ SignupLost(p)
             \/ SignupAccountExists(p) \/ Login(p) \/ MarkChecked(p) \/ SaveCompletion(p)
             \/ Retry(p) \/ Fails(p)
    BY <2>1, <2>6 DEF Begin, Generate, Load, SaveReservation, SignupSucceeds, SignupLost,
         SignsUp, SignupAccountExists, Login, MarkChecked, SaveCompletion, Retry, Fails
  <2>7. CASE Identify(p) \/ BindChecked(p) \/ SaveBinding(p) \/ SecondLogin(p)
             \/ VerifyUnchanged(p) \/ VerifyDeactivated(p)
             \/ Denied(p) \/ Deactivated(p) \/ PostFails(p)
             \/ ReadContent(p, "reserve", "reserving")
             \/ ReadContent(p, "complete", "completing")
             \/ ReadContent(p, "bind-read", "binding")
    BY <2>1, <2>7 DEF Identify, BindChecked, SaveBinding, SecondLogin, VerifyUnchanged,
         VerifyDeactivated, Denied, Deactivated, PostFails, ReadContent
  <2> QED
    BY <1>3, <2>2, <2>3, <2>4, <2>5, <2>6, <2>7 DEF Advance, Acquire, Bind, Deactivate
<1>4. CASE \E r \in Run : EditByHand(r)
  BY <1>2, <1>4 DEF EditByHand, system
<1> QED
  BY <1>1, <1>2, <1>3, <1>4 DEF Next, vars, system

\* Initially nothing is saved, requested or signed up.
LEMMA InitLoneInv == Init => LoneInv
<1> SUFFICES ASSUME Init PROVE LoneInv
  OBVIOUS
<1>1. \A p \in Proc : Recorded(p) /\ Verified(p)
  BY DEF Init, Recorded, Verified, OnRecord, Checked, Bound, Lifecycle
<1>2. AccountsSaved /\ RequestsAreOnRecord /\ RequestsSaved
  BY DEF Init, AccountsSaved, TargetsSaved, RequestsAreOnRecord, RequestsSaved
<1> QED
  BY <1>1, <1>2, InitTargetInv DEF LoneInv

LEMMA LoneInvariant == ASSUME Solo PROVE Spec => []LoneInv
<1>1. LoneInv /\ [Next]_vars => TargetInv'
  BY StepTypeOK, StepWellOwned, StepTargetHeld, StepOwnTargetOnly DEF LoneInv, TargetInv
<1>2. LoneInv /\ [Next]_vars => LoneInv'
  BY <1>1, StepRecorded, StepVerified, StepAccountsSaved, StepRequests DEF LoneInv
<1> QED
  BY InitLoneInv, <1>2, PTL DEF Spec

\* "writes one run/scenario-scoped disposable credential record ... before
\* hosted signup": a created account can be found by its record.
THEOREM SoloSavesTargets == ASSUME Solo PROVE Spec => []TargetsSaved
<1>1. LoneInv => TargetsSaved
  BY DEF LoneInv, AccountsSaved
<1> QED
  BY <1>1, LoneInvariant, PTL

\* "binds the authenticated public subject and exact admin-resolved canonical
\* user id to that record before any deactivation request": the file tells
\* which execution requested what, and no two executions claim one user.
THEOREM SoloRecordsRequests == ASSUME Solo PROVE Spec => []RequestsAreOnRecord
<1>1. LoneInv => RequestsAreOnRecord
  BY DEF LoneInv
<1> QED
  BY <1>1, LoneInvariant, PTL

\* The scenario passes only if the system under test revoked what it promised
\* to and left the reusable identities alone.
THEOREM SoloPassesRevoked == ASSUME Solo PROVE Spec => []PassedMeansRevoked
<1>1. LoneInv => PassedMeansRevoked
  BY DEF LoneInv, Verified, PassedMeansRevoked
<1> QED
  BY <1>1, LoneInvariant, PTL

\* "Earlier records are preserved ... and never swept": no update takes
\* anything back from a record that nobody edits by hand.
THEOREM SoloPreservesRecords == ASSUME Solo PROVE Spec => RecordsPreserved
<1>1. LoneInv /\ [Next]_vars =>
        [\A r \in Run \ edited' :
           /\ records[r].owner # Unset => records'[r].owner = records[r].owner
           /\ records[r].cred # Unset => records'[r].cred = records[r].cred
           /\ records[r].user # Unset => records'[r].user = records[r].user
           /\ records[r].subject # Unset => records'[r].subject = records[r].subject
           /\ records[r].state = "complete" => records'[r].state = "complete"]_vars
  BY StepKeepsRecords DEF Kept
<1> QED
  BY <1>1, LoneInvariant, PTL DEF Spec, RecordsPreserved
=============================================================================
