--------------------------- MODULE BrowserLogin ---------------------------
(***************************************************************************)
(* One browser flow of src/api_tests/browser_login.py, a login or a signup.*)
(* The browser pauses each request to the gateway until the handler of the *)
(* flow has paced and continued it, while the flow itself waits for pages, *)
(* reads the session cookie, audits what it has observed, closes the       *)
(* browser and verifies the session.  The gateway, the provider and the    *)
(* browser (requests, answers, cookies, requests given up, requests that   *)
(* interception does not see) are external.                                *)
(***************************************************************************)
EXTENDS Naturals

CONSTANT MaxRequests   \* requests to one path in a flow, to bound the model

ASSUME BrowserAssumption == MaxRequests \in Nat \ {0}

\* Login initiation, its callback, a session operation, and an unpaced page.
Path == {"/oauth2", "/login/oauth2", "/auth", "/"}
Limited == Path \ {"/"}
Entry == "/oauth2"
Callback == "/login/oauth2"

VARIABLES
    purpose,    \* "login" or "signup"
    pc,         \* what the flow does next
    issued,     \* history: requests of the browser to each path
    paused,     \* those that wait for the handler
    sent,       \* those continued, or not intercepted, and not answered
    reserved,   \* the observer's _paced_same_origin_paths
    observed,   \* its responses
    bypassed,   \* history: those of requests that were not intercepted
    aborted,    \* history: continued requests that were given up
    page,       \* where the page has got to
    cookie,     \* session cookie in the browser
    known,      \* whether the flow has read the session
    gateway,    \* that session at the gateway
    loggedOut,  \* answer to the logout request of the cleanup
    audit       \* history: verdict of the audit and what was true then

browser == <<issued, paused, sent>>
observer == <<reserved, observed, bypassed, aborted>>
session == <<cookie, gateway>>
vars == <<purpose, pc, browser, observer, page, known, session, loggedOut, audit>>

Flow == {"open", "form", "wait", "cookie", "metadata", "audit", "close"}
Ended == {"returned", "failed", "exists"}

\* Playwright dispatches events while the flow waits for it.
Dispatching == pc \in Flow \ {"audit"}

Zero == [k \in Path |-> 0]
Plus(f, k) == [f EXCEPT ![k] = @ + 1]
Minus(f, k) == [f EXCEPT ![k] = @ - 1]

Init ==
    /\ purpose \in {"login", "signup"}
    /\ pc = "open"
    /\ issued = Zero /\ paused = Zero /\ sent = Zero
    /\ reserved = Zero /\ observed = Zero /\ bypassed = Zero /\ aborted = Zero
    /\ page = "blank"
    /\ cookie = "none"
    /\ known = FALSE
    /\ gateway = "none"
    /\ loggedOut = "unsent"
    /\ audit = [verdict |-> "none", bypassed |-> Zero, open |-> Zero]

Goto(from, to) == pc = from /\ pc' = to

-----------------------------------------------------------------------------
\* The browser, the provider and the gateway

\* page.goto, once; the provider's redirect after the form; what a page loads
Issuable(k) ==
    /\ issued[k] < MaxRequests
    /\ \/ k = Entry /\ pc = "open" /\ issued[Entry] = 0
       \/ k = Callback /\ pc = "wait"
       \/ k = "/" /\ observed[Callback] > 0
       \/ k = "/auth" /\ page = "application"

Requests(k) ==
    /\ Dispatching
    /\ Issuable(k)
    /\ issued' = Plus(issued, k)
    /\ paused' = Plus(paused, k)
    /\ UNCHANGED <<purpose, pc, sent, observer, page, known, session, loggedOut, audit>>

\* The effect of an answer on the page and, for the callback, on the session.
Answers(k) ==
    /\ observed' = Plus(observed, k)
    /\ CASE k = Entry -> page' \in {"provider", "error"} /\ UNCHANGED session
         [] k = Callback -> \/ /\ gateway' = "live"
                               /\ cookie' \in {"none", "empty", "session"}
                               /\ UNCHANGED page
                            \/ page' = "error" /\ UNCHANGED session
         [] k = "/" -> page' \in {"application", "other"} /\ UNCHANGED session
         [] OTHER -> UNCHANGED <<page, session>>

\* BrowserFlowObserver.record_response
Responds(k) ==
    /\ Dispatching
    /\ sent[k] > 0
    /\ sent' = Minus(sent, k)
    /\ Answers(k)
    /\ UNCHANGED <<purpose, pc, issued, paused, reserved, bypassed, aborted, known, loggedOut,
                   audit>>

\* A page gives up a request of its own when it is left: there is no response.
Aborts ==
    /\ Dispatching
    /\ sent["/auth"] > 0
    /\ sent' = Minus(sent, "/auth")
    /\ aborted' = Plus(aborted, "/auth")
    /\ UNCHANGED <<purpose, pc, issued, paused, reserved, observed, bypassed, page, known, session,
                   loggedOut, audit>>

\* A request that interception did not see, with its response.
Bypasses(k) ==
    /\ Dispatching
    /\ Issuable(k)
    /\ issued' = Plus(issued, k)
    /\ bypassed' = Plus(bypassed, k)
    /\ Answers(k)
    /\ UNCHANGED <<purpose, pc, paused, sent, reserved, aborted, known, loggedOut, audit>>

-----------------------------------------------------------------------------
\* _continue_paced_gateway_request; only a login has an observer, and the one
\* of a signup is not looked at.

\* Mutants of HandlePaused: a path is recorded once however often it is
\* requested; an unpaced path is not continued.
HandlePausedOnce(k) ==
    /\ Dispatching
    /\ paused[k] > 0
    /\ paused' = Minus(paused, k)
    /\ sent' = Plus(sent, k)
    /\ reserved' = [reserved EXCEPT ![k] = 1]
    /\ UNCHANGED <<purpose, pc, issued, observed, bypassed, aborted, page, known, session,
                   loggedOut, audit>>

HandlePausedLimited(k) ==
    /\ Dispatching
    /\ paused[k] > 0
    /\ k \in Limited
    /\ paused' = Minus(paused, k)
    /\ sent' = Plus(sent, k)
    /\ reserved' = Plus(reserved, k)
    /\ UNCHANGED <<purpose, pc, issued, observed, bypassed, aborted, page, known, session,
                   loggedOut, audit>>

HandlePaused(k) ==
    /\ Dispatching
    /\ paused[k] > 0
    /\ paused' = Minus(paused, k)
    /\ sent' = Plus(sent, k)
    /\ reserved' = Plus(reserved, k)
    /\ UNCHANGED <<purpose, pc, issued, observed, bypassed, aborted, page, known, session,
                   loggedOut, audit>>

-----------------------------------------------------------------------------
\* login_flow_with_browser and signup_with_browser

rest == <<purpose, browser, observer, page, session, loggedOut>>

\* A BrowserLoginError or a PlaywrightError in the flow: a login cleans up a
\* session that it has read.
Raise ==
    /\ pc' = IF purpose = "login" /\ known THEN "cleanup" ELSE "failed"
    /\ UNCHANGED <<rest, known>>

\* Mutant of FlowFails: a failed close is not followed by the cleanup.
FlowFailsUnclean ==
    /\ pc \in Flow \ {"audit"}
    /\ pc' = IF purpose = "login" /\ known /\ pc # "close" THEN "cleanup" ELSE "failed"
    /\ UNCHANGED <<rest, known, audit>>

\* A timeout, or any error of the browser.
FlowFails ==
    /\ pc \in Flow \ {"audit"}
    /\ Raise
    /\ UNCHANGED audit

\* _open_public_login, which looks at the status of the last response
Opened ==
    /\ pc = "open"
    /\ IF page = "provider" THEN pc' = "form" ELSE page = "error" /\ pc' = "failed"
    /\ UNCHANGED <<rest, known, audit>>

FormSubmitted ==
    /\ Goto("form", "wait")
    /\ UNCHANGED <<rest, known, audit>>

\* _wait_for_application: any page of the gateway, and an idle network
Landed ==
    /\ Goto("wait", "cookie")
    /\ issued[Callback] > 0
    /\ page \in {"application", "other", "error"}
    /\ paused = Zero /\ sent = Zero
    /\ UNCHANGED <<rest, known, audit>>

\* The wait of a signup times out, and the provider names the reason.
AccountExists ==
    /\ purpose = "signup"
    /\ page = "provider"
    /\ Goto("wait", "exists")
    /\ UNCHANGED <<rest, known, audit>>

\* read_session_cookie
CookieRead ==
    /\ pc = "cookie"
    /\ cookie = "session"
    /\ known' = TRUE
    /\ pc' = IF purpose = "login" THEN "metadata" ELSE "close"
    /\ UNCHANGED <<rest, audit>>

CookieUnusable ==
    /\ pc = "cookie"
    /\ cookie # "session"
    /\ Raise
    /\ UNCHANGED audit

\* read_session_cookie_metadata, which reads the cookies again
MetadataRead ==
    /\ pc = "metadata"
    /\ IF cookie = "none" THEN Raise ELSE pc' = "audit" /\ UNCHANGED <<rest, known>>
    /\ UNCHANGED audit

\* Mutant of Paced: a reservation covers every response from its path.
PacedByPath == \A k \in Limited : observed[k] > 0 => reserved[k] > 0

\* assert_rate_limited_responses_were_paced takes a reservation per response.
Paced == \A k \in Limited : observed[k] <= reserved[k]

\* The final path is expected and the callback was observed.
Proven == page = "application" /\ observed[Callback] > 0

Conclude(verdict) ==
    audit' = [verdict |-> verdict, bypassed |-> bypassed,
              open |-> [k \in Path |-> sent[k] + aborted[k]]]

AuditPasses ==
    /\ Paced /\ Proven
    /\ Goto("audit", "close")
    /\ Conclude("passed")
    /\ UNCHANGED <<rest, known>>

AuditFails ==
    /\ pc = "audit"
    /\ ~(Paced /\ Proven)
    /\ Conclude(IF Paced THEN "unproven" ELSE "accused")
    /\ Raise

Closed ==
    /\ Goto("close", "verify")
    /\ UNCHANGED <<rest, known, audit>>

\* verify_session, of both callers
Verified ==
    /\ Goto("verify", "returned")
    /\ gateway = "live"
    /\ UNCHANGED <<rest, known, audit>>

VerifyFails ==
    /\ pc = "verify"
    /\ Raise
    /\ UNCHANGED audit

\* _cleanup_failed_browser_session, best effort
Cleanup ==
    /\ Goto("cleanup", "failed")
    /\ \/ loggedOut' = "answered" /\ gateway' = "ended"
       \/ loggedOut' = "lost" /\ gateway' \in {gateway, "ended"}
    /\ UNCHANGED <<purpose, browser, observer, page, cookie, known, audit>>

Outside == \E k \in Path : Requests(k) \/ Responds(k) \/ Bypasses(k)

Step ==
    \/ Opened \/ FormSubmitted \/ Landed \/ AccountExists
    \/ CookieRead \/ CookieUnusable \/ MetadataRead
    \/ AuditPasses \/ AuditFails
    \/ Closed \/ Verified \/ VerifyFails \/ Cleanup

Next ==
    \/ Outside
    \/ Aborts
    \/ \E k \in Path : HandlePaused(k)
    \/ Step
    \/ FlowFails

Spec == Init /\ [][Next]_vars

\* Pages load and answers come; the harness goes on.  No timeout is relied on.
Fairness ==
    /\ WF_vars(Step)
    /\ \A k \in Path : /\ WF_vars(issued[k] = 0 /\ Requests(k))
                       /\ WF_vars(HandlePaused(k))
                       /\ WF_vars(Responds(k))

LiveSpec == Spec /\ Fairness

-----------------------------------------------------------------------------
\* Every variable keeps its type, and no counter exceeds its requests.
TypeOK ==
    /\ purpose \in {"login", "signup"}
    /\ pc \in Flow \cup {"verify", "cleanup"} \cup Ended
    /\ \A f \in {issued, paused, sent, reserved, observed, bypassed, aborted} :
         /\ f \in [Path -> 0..MaxRequests]
         /\ \A k \in Path : f[k] <= issued[k]
    /\ page \in {"blank", "provider", "application", "other", "error"}
    /\ cookie \in {"none", "empty", "session"}
    /\ known \in BOOLEAN
    /\ gateway \in {"none", "live", "ended"}
    /\ loggedOut \in {"unsent", "answered", "lost"}
    /\ audit.verdict \in {"none", "passed", "unproven", "accused"}

\* "Best-effort logout of only the session created by the failed browser flow":
\* a login that fails after it has read its session does not leave it live,
\* unless the logout request itself is lost, and one that returns does.
FailedLoginLogsOut ==
    /\ pc = "failed" /\ purpose = "login" /\ known => gateway # "live" \/ loggedOut = "lost"
    /\ pc = "returned" => gateway = "live" /\ loggedOut = "unsent"

\* The audit blames "a same-origin rate-limited browser response" for having
\* bypassed the pacing only if one did, however requests, answers, aborted
\* requests and the handler interleave.
AccusesRightly == audit.verdict = "accused" => \E k \in Limited : audit.bypassed[k] > 0

\* What the audit can miss: a response that bypassed the pacing passes it only
\* in place of a paced request to its path that has had no response.
MissesAreCovered ==
    audit.verdict = "passed" => \A k \in Limited : audit.bypassed[k] <= audit.open[k]

\* docs/openapi-coverage.md: the audit "rejects any completed rate-limited
\* browser response that bypassed pacing".
AuditRejectsBypass ==
    audit.verdict = "passed" => \A k \in Limited : audit.bypassed[k] = 0

\* A request paused by the flow's own interception never holds the flow up.
FlowEnds == <>(pc \in Ended)

=============================================================================
