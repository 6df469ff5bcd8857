--------------------------- MODULE RequestPacing ---------------------------
(***************************************************************************)
(* The process-wide request pacing of src/api_tests/client.py: one         *)
(* RequestPacer per public rate policy, shared by every GatewayClient and  *)
(* by the paused requests of the browser.  A caller classifies its target, *)
(* waits for a slot of that policy and, once wait() has returned and the   *)
(* lock is released, dispatches the request.                               *)
(*                                                                         *)
(* The code only ever uses the difference between two readings of the      *)
(* monotonic clock, so times are kept as ticks that remain:                *)
(*   nextIn[p] = max(0, _next_request_at - monotonic()), 0 for None;       *)
(*   left[c]   = what remains of the sleep of caller c.                    *)
(* time.sleep returns no earlier than asked, and possibly much later.      *)
(***************************************************************************)
EXTENDS Integers, Sequences

CONSTANTS Caller,        \* users of the shared pacing in one process
          Policy,        \* the four PublicRatePolicyName values
          Families,      \* Families[p]: path families of p, as segment sequences
          PolicyOrder,   \* PUBLIC_RATE_POLICIES: Policy values in matching order
          Interval,      \* Interval[p]: 1 / requests_per_second, in ticks
          Target,        \* request paths, as segment sequences
          Unpaced,       \* classify_public_rate_policy returned None
          Nobody,        \* the lock of a pacer is free
          MaxHandover    \* ticks between the return of wait and the dispatch

ASSUME PacingAssumption ==
    /\ Interval \in [Policy -> Nat \ {0}]
    /\ Unpaced \notin Policy
    /\ Nobody \notin Caller
    /\ MaxHandover \in Nat

ASSUME OrderAssumption ==
    /\ PolicyOrder \in Seq(Policy)
    /\ \A p \in Policy : \E i \in 1..Len(PolicyOrder) : PolicyOrder[i] = p

\* Mutant of Matches: the family itself only, none of its subpaths.
MatchesFamily(p, path) == path \in Families[p]

\* path == family or path.startswith(family + "/"), query string left out.
Matches(p, path) ==
    \E family \in Families[p] :
      /\ Len(path) >= Len(family)
      /\ SubSeq(path, 1, Len(family)) = family

\* classify_public_rate_policy: the first policy that matches.
Classify(path) ==
    LET matching == {i \in 1..Len(PolicyOrder) : Matches(PolicyOrder[i], path)}
    IN  IF matching = {} THEN Unpaced
        ELSE PolicyOrder[CHOOSE i \in matching : \A j \in matching : i <= j]

VARIABLES
    nextIn,   \* nextIn[p]: ticks until the next slot of the pacer of p
    holder,   \* holder[p]: caller that holds the lock of that pacer
    pc,       \* pc[c]: "idle", "waiting", "sleeping", "granted"
    target,   \* target[c]: path of the request c is about to make
    left,     \* left[c]: ticks c still sleeps
    age,      \* age[c]: ticks since wait returned to c
    since     \* since[p]: ticks since the last slot of p, up to Interval[p]

pacing == <<nextIn, holder, pc, target, left, age, since>>

Init ==
    /\ nextIn = [p \in Policy |-> 0]
    /\ holder = [p \in Policy |-> Nobody]
    /\ pc = [c \in Caller |-> "idle"]
    /\ target \in [Caller -> Target]
    /\ left = [c \in Caller |-> 0]
    /\ age = [c \in Caller |-> 0]
    /\ since = Interval

PolicyOf(c) == Classify(target[c])

\* GatewayRequestPacing.wait: only a classified target waits for a pacer.
Begin(c, path) ==
    /\ pc[c] = "idle"
    /\ target' = [target EXCEPT ![c] = path]
    /\ pc' = [pc EXCEPT ![c] = IF Classify(path) = Unpaced THEN "granted" ELSE "waiting"]
    /\ UNCHANGED <<nextIn, holder, left, age, since>>

\* Mutant of Acquire: the delay is computed outside the lock.
AcquireUnlocked(c) ==
    /\ pc[c] = "waiting"
    /\ left' = [left EXCEPT ![c] = nextIn[PolicyOf(c)]]
    /\ pc' = [pc EXCEPT ![c] = "sleeping"]
    /\ UNCHANGED <<nextIn, holder, target, age, since>>

\* RequestPacer.wait takes the lock and computes the delay to the next slot.
Acquire(c) ==
    LET p == PolicyOf(c) IN
    /\ pc[c] = "waiting"
    /\ holder[p] = Nobody
    /\ holder' = [holder EXCEPT ![p] = c]
    /\ left' = [left EXCEPT ![c] = nextIn[p]]
    /\ pc' = [pc EXCEPT ![c] = "sleeping"]
    /\ UNCHANGED <<nextIn, target, age, since>>

\* Mutant of Grant: the lock is not released.
GrantHeld(c) ==
    LET p == PolicyOf(c) IN
    /\ pc[c] = "sleeping"
    /\ left[c] = 0
    /\ nextIn' = [nextIn EXCEPT ![p] = Interval[p]]
    /\ since' = [since EXCEPT ![p] = 0]
    /\ pc' = [pc EXCEPT ![c] = "granted"]
    /\ UNCHANGED <<holder, target, left, age>>

\* Awake, the clock is read again: the next slot is one interval from now.
Grant(c) ==
    LET p == PolicyOf(c) IN
    /\ pc[c] = "sleeping"
    /\ left[c] = 0
    /\ nextIn' = [nextIn EXCEPT ![p] = Interval[p]]
    /\ since' = [since EXCEPT ![p] = 0]
    /\ holder' = [holder EXCEPT ![p] = Nobody]
    /\ pc' = [pc EXCEPT ![c] = "granted"]
    /\ UNCHANGED <<target, left, age>>

\* raw_request, or Fetch.continueRequest for a paused browser request.
Dispatch(c) ==
    /\ pc[c] = "granted"
    /\ pc' = [pc EXCEPT ![c] = "idle"]
    /\ age' = [age EXCEPT ![c] = 0]
    /\ UNCHANGED <<nextIn, holder, target, left, since>>

Elapse(n) == IF n = 0 THEN 0 ELSE n - 1

\* One tick of time.monotonic.
Tick ==
    /\ \A c \in Caller : pc[c] = "granted" => age[c] < MaxHandover
    /\ nextIn' = [p \in Policy |-> Elapse(nextIn[p])]
    /\ left' = [c \in Caller |-> Elapse(left[c])]
    /\ age' = [c \in Caller |-> IF pc[c] = "granted" THEN age[c] + 1 ELSE age[c]]
    /\ since' = [p \in Policy |-> IF since[p] < Interval[p] THEN since[p] + 1 ELSE since[p]]
    /\ UNCHANGED <<holder, pc, target>>

Advance(c) ==
    \/ \E path \in Target : Begin(c, path)
    \/ Acquire(c)
    \/ Grant(c)
    \/ Dispatch(c)

Next == Tick \/ \E c \in Caller : Advance(c)

Spec == Init /\ [][Next]_pacing

\* Time passes, a thread that can run runs, and a thread that finds the lock
\* free again and again gets it: threading.Lock parks its waiters in the
\* operating system, and each holder sleeps most of an interval.
Fairness ==
    /\ WF_pacing(Tick)
    /\ \A c \in Caller : /\ SF_pacing(Acquire(c))
                         /\ WF_pacing(Grant(c))
                         /\ WF_pacing(Dispatch(c))

FairSpec == Spec /\ Fairness

-----------------------------------------------------------------------------
\* Every variable keeps its type.
TypeOK ==
    /\ nextIn \in [Policy -> Nat]
    /\ holder \in [Policy -> Caller \cup {Nobody}]
    /\ pc \in [Caller -> {"idle", "waiting", "sleeping", "granted"}]
    /\ target \in [Caller -> Target]
    /\ left \in [Caller -> Nat]
    /\ age \in [Caller -> Nat]
    /\ since \in [Policy -> Nat]

\* A pacer never forgets a slot it has given away, and its one sleeper, the
\* holder of the lock, cannot wake before the next slot is due.
SlotReserved ==
    /\ \A p \in Policy :
         /\ since[p] <= Interval[p]
         /\ nextIn[p] + since[p] >= Interval[p]
    /\ \A c \in Caller :
         /\ pc[c] \in {"waiting", "sleeping"} => PolicyOf(c) \in Policy
         /\ pc[c] = "sleeping" => /\ holder[PolicyOf(c)] = c
                                  /\ left[c] >= nextIn[PolicyOf(c)]

\* "Serialize request starts at a fixed maximum rate": whatever the callers
\* and however late a sleep returns, two slots of one policy are at least one
\* interval apart.
SlotsAreSpaced ==
    [][\A p \in Policy, c \in Caller :
         pc[c] = "sleeping" /\ pc'[c] = "granted" /\ PolicyOf(c) = p
           => since[p] = Interval[p]]_pacing

\* "four independent public-ingress request paces": a caller waits for the
\* callers of its own policy only, so every pacer whose lock is free or whose
\* holder has slept can move on, and each request is dispatched in the end.
EveryRequestDispatched ==
    \A c \in Caller : (pc[c] = "waiting") ~> (pc[c] = "granted")

=============================================================================
