------------------------ MODULE BrowserLoginProofs ------------------------
(***************************************************************************)
(* What the audit of a browser flow says and misses, and what a failed     *)
(* login leaves behind, for any number of requests to each path.           *)
(***************************************************************************)
EXTENDS BrowserLogin, TLAPS

Counters == {issued, paused, sent, reserved, observed, bypassed, aborted}

CountersNat ==
    /\ issued \in [Path -> Nat] /\ paused \in [Path -> Nat] /\ sent \in [Path -> Nat]
    /\ reserved \in [Path -> Nat] /\ observed \in [Path -> Nat]
    /\ bypassed \in [Path -> Nat] /\ aborted \in [Path -> Nat]

\* Every request is paused, under way, given up or answered, and what has left
\* the browser was either reserved or has bypassed the handler.
Conserved ==
    \A k \in Path :
        /\ issued[k] <= MaxRequests
        /\ issued[k] = paused[k] + sent[k] + aborted[k] + observed[k]
        /\ reserved[k] + bypassed[k] = sent[k] + aborted[k] + observed[k]

StatesOK ==
    /\ purpose \in {"login", "signup"}
    /\ pc \in Flow \cup {"verify", "cleanup"} \cup Ended
    /\ page \in {"blank", "provider", "application", "other", "error"}
    /\ cookie \in {"none", "empty", "session"}
    /\ known \in BOOLEAN
    /\ gateway \in {"none", "live", "ended"}
    /\ loggedOut \in {"unsent", "answered", "lost"}
    /\ audit.verdict \in {"none", "passed", "unproven", "accused"}

\* No session is read before the cookie, and a logout is the flow's last act.
Stages ==
    /\ pc \in {"open", "form", "wait", "cookie"} => ~known
    /\ loggedOut # "unsent" => pc = "failed"

Counting == CountersNat /\ Conserved
Control == StatesOK /\ Stages

LEMMA CountedIsTyped ==
    ASSUME Counting, StatesOK
    PROVE  TypeOK
<1>1. \A f \in Counters : f \in [Path -> 0..MaxRequests] /\ \A k \in Path : f[k] <= issued[k]
  <2> SUFFICES ASSUME NEW f \in Counters
               PROVE  f \in [Path -> 0..MaxRequests] /\ \A k \in Path : f[k] <= issued[k]
    OBVIOUS
  <2>1. f \in [Path -> Nat]
    BY DEF Counters, Counting, CountersNat
  <2>2. ASSUME NEW k \in Path
        PROVE  f[k] <= issued[k] /\ f[k] \in 0..MaxRequests
    <3>1. f[k] <= issued[k]
      BY DEF Counters, Counting, CountersNat, Conserved
    <3>2. f[k] \in Nat /\ issued[k] \in Nat /\ issued[k] <= MaxRequests
      BY <2>1 DEF Counting, CountersNat, Conserved
    <3> QED
      BY <3>1, <3>2, BrowserAssumption
  <2> QED
    BY <2>1, <2>2
<1> QED
  BY <1>1 DEF TypeOK, StatesOK, Counters

-----------------------------------------------------------------------------
\* The counters

LEMMA CountingStep ==
    ASSUME Counting, [Next]_vars
    PROVE  Counting'
<1>1. ASSUME NEW k \in Path, Requests(k) PROVE Counting'
  BY <1>1, BrowserAssumption
     DEF Counting, CountersNat, Conserved, Requests, Issuable, Plus, observer
<1>2. ASSUME NEW k \in Path, Responds(k) PROVE Counting'
  <2>1. /\ sent' = Minus(sent, k) /\ sent[k] > 0
        /\ UNCHANGED <<issued, paused, reserved, bypassed, aborted>>
    BY <1>2 DEF Responds
  <2>2. observed' = Plus(observed, k)
    <3>1. Answers(k)
      BY <1>2 DEF Responds
    <3> QED
      BY <3>1 DEF Answers
  <2>3. CountersNat'
    BY <2>1, <2>2 DEF Counting, CountersNat, Plus, Minus
  <2>4. Conserved'
    <3> SUFFICES ASSUME NEW j \in Path
                 PROVE  /\ issued'[j] <= MaxRequests
                        /\ issued'[j] = paused'[j] + sent'[j] + aborted'[j] + observed'[j]
                        /\ reserved'[j] + bypassed'[j] = sent'[j] + aborted'[j] + observed'[j]
      BY DEF Conserved
    <3>1. CASE j = k
      <4>1. observed'[k] = observed[k] + 1
        BY <2>2 DEF Counting, CountersNat, Plus
      <4>2. sent'[k] = sent[k] - 1
        BY <2>1 DEF Counting, CountersNat, Minus
      <4>3. /\ issued'[k] = issued[k] /\ paused'[k] = paused[k] /\ reserved'[k] = reserved[k]
            /\ bypassed'[k] = bypassed[k] /\ aborted'[k] = aborted[k]
        BY <2>1
      <4> QED
        BY <4>1, <4>2, <4>3, <3>1 DEF Counting, CountersNat, Conserved
    <3>2. CASE j # k
      BY <2>1, <2>2, <3>2 DEF Counting, CountersNat, Conserved, Plus, Minus
    <3> QED
      BY <3>1, <3>2
  <2> QED
    BY <2>3, <2>4 DEF Counting
<1>3. ASSUME NEW k \in Path, Bypasses(k) PROVE Counting'
  <2>1. /\ bypassed' = Plus(bypassed, k)
        /\ issued' = Plus(issued, k) /\ issued[k] < MaxRequests
        /\ UNCHANGED <<paused, sent, reserved, aborted>>
    BY <1>3 DEF Bypasses, Issuable
  <2>2. observed' = Plus(observed, k)
    <3>1. Answers(k)
      BY <1>3 DEF Bypasses
    <3> QED
      BY <3>1 DEF Answers
  <2>3. CountersNat'
    BY <2>1, <2>2 DEF Counting, CountersNat, Plus
  <2>4. Conserved'
    <3> SUFFICES ASSUME NEW j \in Path
                 PROVE  /\ issued'[j] <= MaxRequests
                        /\ issued'[j] = paused'[j] + sent'[j] + aborted'[j] + observed'[j]
                        /\ reserved'[j] + bypassed'[j] = sent'[j] + aborted'[j] + observed'[j]
      BY DEF Conserved
    <3>1. CASE j = k
      <4>1. observed'[k] = observed[k] + 1
        BY <2>2 DEF Counting, CountersNat, Plus
      <4>2. bypassed'[k] = bypassed[k] + 1 /\ issued'[k] = issued[k] + 1
        BY <2>1 DEF Counting, CountersNat, Plus
      <4>3. /\ issued[k] < MaxRequests /\ paused'[k] = paused[k] /\ sent'[k] = sent[k]
            /\ reserved'[k] = reserved[k] /\ aborted'[k] = aborted[k]
        BY <2>1
      <4>4. /\ issued[k] \in Nat /\ paused[k] \in Nat /\ sent[k] \in Nat /\ aborted[k] \in Nat
            /\ reserved[k] \in Nat /\ observed[k] \in Nat /\ bypassed[k] \in Nat
            /\ issued[k] = paused[k] + sent[k] + aborted[k] + observed[k]
            /\ reserved[k] + bypassed[k] = sent[k] + aborted[k] + observed[k]
        BY DEF Counting, CountersNat, Conserved
      <4> QED
        BY <4>1, <4>2, <4>3, <4>4, <3>1, BrowserAssumption
    <3>2. CASE j # k
      BY <2>1, <2>2, <3>2 DEF Counting, CountersNat, Conserved, Plus
    <3> QED
      BY <3>1, <3>2
  <2> QED
    BY <2>3, <2>4 DEF Counting
<1>4. CASE Aborts
  BY <1>4 DEF Counting, CountersNat, Conserved, Aborts, Plus, Minus, Path
<1>5. ASSUME NEW k \in Path, HandlePaused(k) PROVE Counting'
  BY <1>5 DEF Counting, CountersNat, Conserved, HandlePaused, Plus, Minus
<1>6. ASSUME UNCHANGED <<browser, observer>> PROVE Counting'
  BY <1>6 DEF Counting, CountersNat, Conserved, browser, observer
<1>7. CASE Step \/ FlowFails
  BY <1>6, <1>7 DEF Step, FlowFails, Raise, rest, Opened, FormSubmitted, Landed, AccountExists,
     CookieRead, CookieUnusable, MetadataRead, AuditPasses, AuditFails, Closed, Verified,
     VerifyFails, Cleanup
<1>8. CASE UNCHANGED vars
  BY <1>6, <1>8 DEF vars
<1> QED
  BY <1>1, <1>2, <1>3, <1>4, <1>5, <1>7, <1>8 DEF Next, Outside

LEMMA CountingInit ==
    ASSUME Init
    PROVE  Counting
BY BrowserAssumption DEF Init, Zero, Counting, CountersNat, Conserved

\* What the audit concludes follows from the counters at that moment.
LEMMA AuditConcludes == Spec => [](AccusesRightly /\ MissesAreCovered)
<1> DEFINE Inv == Counting /\ AccusesRightly /\ MissesAreCovered
<1>1. Init => Inv
  <2> SUFFICES ASSUME Init PROVE AccusesRightly /\ MissesAreCovered
    BY CountingInit
  <2>1. audit.verdict = "none"
    BY DEF Init
  <2> QED
    BY <2>1 DEF AccusesRightly, MissesAreCovered
<1>2. Inv /\ [Next]_vars => Inv'
  <2> SUFFICES ASSUME Inv, [Next]_vars PROVE (AccusesRightly /\ MissesAreCovered)'
    BY CountingStep
  <2>1. ASSUME UNCHANGED audit PROVE (AccusesRightly /\ MissesAreCovered)'
    BY <2>1 DEF AccusesRightly, MissesAreCovered
  <2>2. CASE AuditPasses
    <3>1. \A k \in Limited : bypassed[k] <= sent[k] + aborted[k]
      BY <2>2 DEF AuditPasses, Paced, Limited, Counting, CountersNat, Conserved
    <3> QED
      BY <2>2, <3>1 DEF AuditPasses, Conclude, AccusesRightly, MissesAreCovered, Limited
  <2>3. CASE AuditFails
    <3>1. ~Paced => \E k \in Limited : bypassed[k] > 0
      BY DEF Paced, Limited, Counting, CountersNat, Conserved
    <3> QED
      BY <2>3, <3>1 DEF AuditFails, Conclude, AccusesRightly, MissesAreCovered
  <2>4. CASE ~(AuditPasses \/ AuditFails)
    BY <2>1, <2>4 DEF Next, Outside, Requests, Responds, Bypasses, Aborts, HandlePaused, Step,
       FlowFails, rest, Opened, FormSubmitted, Landed, AccountExists, CookieRead, CookieUnusable,
       MetadataRead, Closed, Verified, VerifyFails, Cleanup, vars
  <2> QED
    BY <2>2, <2>3, <2>4
<1> QED
  BY <1>1, <1>2, PTL DEF Spec

\* The pacing audit of login_flow_with_browser: an accusation is right, however
\* many requests are made and however they interleave with the handler.
THEOREM AuditIsRight == Spec => []AccusesRightly
  BY AuditConcludes, PTL

\* The same audit: each response it has missed is covered by a paced request
\* to the same path that had no response.
THEOREM AuditMissesCovered == Spec => []MissesAreCovered
  BY AuditConcludes, PTL

-----------------------------------------------------------------------------
\* The flow

LEMMA ControlInit ==
    ASSUME Init
    PROVE  Control /\ FailedLoginLogsOut
BY DEF Init, Control, StatesOK, Stages, FailedLoginLogsOut, Flow, Ended

LEMMA ControlStep ==
    ASSUME Control, FailedLoginLogsOut, [Next]_vars
    PROVE  (Control /\ FailedLoginLogsOut)'
<1> USE DEF Control, StatesOK, Stages, FailedLoginLogsOut, Flow, Ended
<1>1. ASSUME NEW k \in Path, Requests(k) \/ Responds(k) \/ Bypasses(k) \/ HandlePaused(k) \/ Aborts
      PROVE  (Control /\ FailedLoginLogsOut)'
  BY <1>1 DEF Requests, Responds, Bypasses, HandlePaused, Aborts, Answers, Dispatching, session
<1>2. CASE Opened \/ FormSubmitted \/ Landed \/ AccountExists
  BY <1>2 DEF Opened, FormSubmitted, Landed, AccountExists, Goto, rest, session
<1>3. ASSUME Raise, pc \in Flow \cup {"verify"},
             audit'.verdict \in {"none", "passed", "unproven", "accused"}
      PROVE  (Control /\ FailedLoginLogsOut)'
  BY <1>3 DEF Raise, rest, session
<1>4. CASE CookieRead \/ CookieUnusable \/ MetadataRead \/ VerifyFails \/ FlowFails
  BY <1>3, <1>4 DEF CookieRead, CookieUnusable, MetadataRead, VerifyFails, FlowFails, rest, session
<1>5. CASE AuditPasses \/ AuditFails
  BY <1>3, <1>5 DEF AuditPasses, AuditFails, Conclude, Goto, rest, session
<1>6. CASE Closed \/ Verified
  BY <1>6 DEF Closed, Verified, Goto, rest, session
<1>7. CASE Cleanup
  BY <1>7 DEF Cleanup, Goto
<1>8. CASE UNCHANGED vars
  BY <1>8 DEF vars, session
<1> QED
  BY <1>1, <1>2, <1>4, <1>5, <1>6, <1>7, <1>8 DEF Next, Outside, Step, Path

\* _cleanup_failed_browser_session: a failed login does not leave the session
\* that it has read live, unless its logout request is lost.
THEOREM FailureLogsOut == Spec => []FailedLoginLogsOut
<1> DEFINE Inv == Control /\ FailedLoginLogsOut
<1>1. Init => Inv
  BY ControlInit
<1>2. Inv /\ [Next]_vars => Inv'
  BY ControlStep
<1> QED
  BY <1>1, <1>2, PTL DEF Spec

\* Every variable keeps its type, and no counter of the observer or of the
\* browser exceeds the requests that were issued.
THEOREM TypeCorrect == Spec => []TypeOK
<1> DEFINE Inv == Counting /\ Control /\ FailedLoginLogsOut
<1>1. Init => Inv
  BY CountingInit, ControlInit
<1>2. Inv /\ [Next]_vars => Inv'
  BY CountingStep, ControlStep
<1>3. Inv => TypeOK
  BY CountedIsTyped DEF Control
<1> QED
  BY <1>1, <1>2, <1>3, PTL DEF Spec

=============================================================================
