---------------------------- MODULE PacedIngress ----------------------------
(***************************************************************************)
(* RequestPacing in front of the public ingress.  The ingress is external: *)
(* one token bucket per rate policy, refilled with one token every         *)
(* Refill[p] ticks up to Burst tokens; a request takes a token of every    *)
(* policy whose path class it is in, or is answered 429.  Traffic of other *)
(* processes behind the same address takes tokens too.                     *)
(***************************************************************************)
EXTENDS RequestPacing

CONSTANTS Refill,        \* Refill[p]: ticks per token of the ingress policy p
          Burst,         \* tokens a bucket holds
          MaxRefill,     \* largest Refill[p]
          PathClass,     \* PathClass[p]: the targets the ingress policy p limits
          Outsiders      \* TRUE when other processes share the address

ASSUME IngressAssumption ==
    /\ Refill \in [Policy -> Nat \ {0}]
    /\ MaxRefill \in Nat /\ \A p \in Policy : Refill[p] <= MaxRefill
    /\ Burst \in Nat \ {0}
    /\ PathClass \in [Policy -> SUBSET Target]
    /\ Outsiders \in BOOLEAN

VARIABLES
    tokens,      \* tokens[p]: tokens left in the bucket of p
    refillIn,    \* refillIn[p]: ticks until its next token
    foreign,     \* foreign[p]: an outsider took a token since our last request
    unexplained  \* some 429 answer cannot be blamed on an outsider

ingress == <<tokens, refillIn, foreign, unexplained>>

IngressInit ==
    /\ Init
    /\ tokens = [p \in Policy |-> Burst]
    /\ refillIn \in {f \in [Policy -> 1..MaxRefill] : \A p \in Policy : f[p] <= Refill[p]}
    /\ foreign = [p \in Policy |-> FALSE]
    /\ unexplained = FALSE

\* The ingress policies a request is counted by.
CountedBy(path) == {p \in Policy : path \in PathClass[p]}

\* A request is served if every bucket it is counted by has a token; else it
\* is answered 429, which raw_request returns and nobody retries.
Receive(path) ==
    LET counted == CountedBy(path)
        empty   == {p \in counted : tokens[p] = 0}
    IN  /\ UNCHANGED refillIn
        /\ IF empty = {}
           THEN /\ tokens' = [p \in Policy |-> IF p \in counted THEN tokens[p] - 1
                                                                ELSE tokens[p]]
                /\ foreign' = [p \in Policy |-> foreign[p] /\ p \notin counted]
                /\ UNCHANGED unexplained
           ELSE /\ unexplained' = (unexplained \/ \A p \in empty : ~foreign[p])
                /\ UNCHANGED <<tokens, foreign>>

\* A request of this process reaches the ingress as it is dispatched.
Request(c) == Dispatch(c) /\ Receive(target[c])

Outsider(p) ==
    /\ Outsiders
    /\ tokens[p] > 0
    /\ tokens' = [tokens EXCEPT ![p] = @ - 1]
    /\ foreign' = [foreign EXCEPT ![p] = TRUE]
    /\ UNCHANGED <<pacing, refillIn, unexplained>>

Passes ==
    /\ Tick
    /\ refillIn' = [p \in Policy |-> IF refillIn[p] = 1 THEN Refill[p] ELSE refillIn[p] - 1]
    /\ tokens' = [p \in Policy |-> IF refillIn[p] = 1 /\ tokens[p] < Burst
                                   THEN tokens[p] + 1 ELSE tokens[p]]
    /\ UNCHANGED <<foreign, unexplained>>

IngressNext ==
    \/ Passes
    \/ \E c \in Caller : Request(c)
    \/ \E c \in Caller : /\ \/ \E path \in Target : Begin(c, path)
                             \/ Acquire(c)
                             \/ Grant(c)
                          /\ UNCHANGED ingress
    \/ \E p \in Policy : Outsider(p)

IngressSpec == IngressInit /\ [][IngressNext]_<<pacing, ingress>>

FairIngressSpec == IngressSpec /\ Fairness

-----------------------------------------------------------------------------
\* Buckets stay within their burst and a refill is always due.
IngressTypeOK ==
    /\ TypeOK
    /\ tokens \in [Policy -> 0..Burst]
    /\ refillIn \in [Policy -> 1..MaxRefill]
    /\ foreign \in [Policy -> BOOLEAN]
    /\ unexplained \in BOOLEAN

\* A 429 "is either a shared-pacing regression or evidence of concurrent
\* traffic outside this harness": the paces and the path classification keep
\* one process below every allowance, even with no burst to draw on, however
\* its callers interleave and whatever the phase of the refills.
LimitedOnlyByOutsiders == ~unexplained

=============================================================================
