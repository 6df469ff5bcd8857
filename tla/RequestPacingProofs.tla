------------------------ MODULE RequestPacingProofs ------------------------
(***************************************************************************)
(* For any number of callers, policies, paths and intervals, slots of one  *)
(* policy are at least one interval apart.  SlotReserved is inductive      *)
(* relative to TypeOK: nextIn + since >= Interval ties the pacer's memory  *)
(* to the time of its last slot, and the lock makes its sleeper unique.    *)
(*                                                                         *)
(* In front of the ingress the slots become tokens: a caller that has been *)
(* handed its slot dispatches within MaxHandover, so the bucket of its     *)
(* policy is refilled before the next slot of that policy (TokenDue).      *)
(***************************************************************************)
EXTENDS PacedIngress, WellFoundedInduction, TLAPS

\* The least index of a nonempty set of indices: what next(...) over the
\* tuple of policies picks.
LEMMA LeastIndex ==
    ASSUME NEW T \in SUBSET Nat, T # {}
    PROVE  \E i \in T : \A j \in T : i <= j
<1> DEFINE R == {ss \in Nat \X Nat : ss[1] < ss[2]}
<1>1. IsWellFoundedOn(R, Nat)
  BY NatLessThanWellFounded, Zenon DEF OpToRel
<1>2. \A i, j \in Nat : <<j, i>> \in R <=> j < i
  OBVIOUS
<1> HIDE DEF R
<1>3. \E i \in T : \A j \in T : ~(<<j, i>> \in R)
  BY <1>1, WFMin
<1>4. SUFFICES ASSUME NEW i \in T, \A j \in T : ~(<<j, i>> \in R),
                      NEW j \in T
               PROVE  i <= j
  BY <1>3
<1>5. ~(j < i)
  BY <1>2, <1>4
<1> QED
  BY <1>5

\* classify_public_rate_policy returns one of the policies, or None.
LEMMA ClassifyType ==
    ASSUME NEW path
    PROVE  Classify(path) \in Policy \cup {Unpaced}
<1> DEFINE matching == {i \in 1..Len(PolicyOrder) : Matches(PolicyOrder[i], path)}
<1>1. CASE matching = {}
  BY <1>1 DEF Classify
<1>2. CASE matching # {}
  <2>1. matching \in SUBSET Nat
    BY OrderAssumption
  <2>2. \E i \in matching : \A j \in matching : i <= j
    BY <1>2, <2>1, LeastIndex
  <2>3. (CHOOSE i \in matching : \A j \in matching : i <= j) \in 1..Len(PolicyOrder)
    BY <2>2
  <2>4. \A i \in 1..Len(PolicyOrder) : PolicyOrder[i] \in Policy
    BY OrderAssumption
  <2> QED
    BY <1>2, <2>3, <2>4 DEF Classify
<1> QED
  BY <1>1, <1>2

-----------------------------------------------------------------------------
\* The inductive invariant of the pacing.
PacingInv == TypeOK /\ SlotReserved

\* Initially every slot is free and its interval has passed.
LEMMA InitPacingInv == Init => PacingInv
BY PacingAssumption DEF Init, PacingInv, TypeOK, SlotReserved

\* Lock, sleep, slot and clock move together: every step keeps the invariant.
LEMMA NextPacingInv == PacingInv /\ [Next]_pacing => PacingInv'
<1> SUFFICES ASSUME PacingInv, [Next]_pacing PROVE PacingInv'
  OBVIOUS
<1> USE PacingAssumption DEF PacingInv, TypeOK, SlotReserved, PolicyOf
<1>1. CASE Tick
  BY <1>1 DEF Tick, Elapse
<1>2. ASSUME NEW c \in Caller, NEW path \in Target, Begin(c, path)
      PROVE  PacingInv'
  <2>1. TypeOK'
    BY <1>2 DEF Begin
  <2>2. SlotReserved'
    BY <1>2, ClassifyType DEF Begin
  <2> QED
    BY <2>1, <2>2
<1>3. ASSUME NEW c \in Caller, Acquire(c)
      PROVE  PacingInv'
  <2>1. Classify(target[c]) \in Policy
    BY <1>3 DEF Acquire
  <2>2. TypeOK'
    BY <1>3, <2>1 DEF Acquire
  <2>3. SlotReserved'
    BY <1>3, <2>1 DEF Acquire
  <2> QED
    BY <2>2, <2>3
<1>4. ASSUME NEW c \in Caller, Grant(c)
      PROVE  PacingInv'
  <2>1. Classify(target[c]) \in Policy
    BY <1>4 DEF Grant
  <2>2. TypeOK'
    BY <1>4, <2>1 DEF Grant
  <2>3. \A d \in Caller :
          pc[d] = "sleeping" /\ Classify(target[d]) = Classify(target[c]) => d = c
    BY <1>4 DEF Grant
  <2>4. SlotReserved'
    BY <1>4, <2>1, <2>3 DEF Grant
  <2> QED
    BY <2>2, <2>4
<1>5. ASSUME NEW c \in Caller, Dispatch(c)
      PROVE  PacingInv'
  BY <1>5 DEF Dispatch
<1>6. CASE UNCHANGED pacing
  BY <1>6 DEF pacing
<1> QED
  BY <1>1, <1>2, <1>3, <1>4, <1>5, <1>6 DEF Next, Advance

\* Type correctness: every reachable state of the pacers is well formed.
THEOREM TypeCorrect == Spec => []TypeOK
<1>1. PacingInv => TypeOK
  BY DEF PacingInv
<1> QED
  BY <1>1, InitPacingInv, NextPacingInv, PTL DEF Spec

\* The pacer's memory and its lock: the next slot is never due before a whole
\* interval has passed, and the only sleeper of a pacer holds its lock.
THEOREM SlotsReserved == Spec => []SlotReserved
<1>1. PacingInv => SlotReserved
  BY DEF PacingInv
<1> QED
  BY <1>1, InitPacingInv, NextPacingInv, PTL DEF Spec

\* "Serialize request starts at a fixed maximum rate", for any callers, any
\* policies and any intervals: RequestPacer.wait spaces the slots it returns.
THEOREM PaceKept == Spec => SlotsAreSpaced
<1> DEFINE Spaced ==
      \A p \in Policy, c \in Caller :
        pc[c] = "sleeping" /\ pc'[c] = "granted" /\ PolicyOf(c) = p
          => since[p] = Interval[p]
<1>1. PacingInv /\ [Next]_pacing => [Spaced]_pacing
  <2> SUFFICES ASSUME PacingInv, Next,
                      NEW p \in Policy, NEW c \in Caller,
                      pc[c] = "sleeping", pc'[c] = "granted", PolicyOf(c) = p
               PROVE  since[p] = Interval[p]
    BY DEF Spaced
  <2>1. Grant(c)
    BY DEF Next, Advance, Tick, Begin, Acquire, Grant, Dispatch, PacingInv, TypeOK
  <2>2. left[c] = 0 /\ left[c] >= nextIn[p]
    BY <2>1 DEF Grant, PacingInv, SlotReserved
  <2> QED
    BY <2>2, PacingAssumption DEF PacingInv, TypeOK, SlotReserved
<1> QED
  BY <1>1, InitPacingInv, NextPacingInv, PTL DEF Spec, SlotsAreSpaced

-----------------------------------------------------------------------------
(* In front of the ingress. *)

\* A token comes back before the next dispatch that the pacing allows, however
\* late the previous one was handed over.
PacesFit == \A p \in Policy : Refill[p] + MaxHandover <= Interval[p]

\* The ingress counts a path by the policy that paces it, or not at all.
ClassesAgree ==
    \A path \in Target, p \in Policy : path \in PathClass[p] => Classify(path) = p

Granted(c, p) == pc[c] = "granted" /\ PolicyOf(c) = p

\* A slot that was handed over is recent: its policy has no other, and the next
\* one is at least an interval after it.
HandedOver ==
    \A c \in Caller :
        /\ pc[c] # "granted" => age[c] = 0
        /\ age[c] <= MaxHandover
        /\ \A p \in Policy : Granted(c, p) =>
             /\ nextIn[p] + age[c] >= Interval[p]
             /\ \A d \in Caller : Granted(d, p) => d = c

\* The bucket of p has a token, or it gets one before the next slot of p.
TokenDue(p) ==
    \/ tokens[p] >= 1
    \/ refillIn[p] <= nextIn[p] /\ \A c \in Caller : ~Granted(c, p)

Filled == \A p \in Policy : refillIn[p] <= Refill[p] /\ (~foreign[p] => TokenDue(p))

IngressInv ==
    PacingInv /\ IngressTypeOK /\ HandedOver /\ Filled /\ LimitedOnlyByOutsiders

\* What the ingress does is invisible to the pacing.
LEMMA IngressStepPaces == [IngressNext]_<<pacing, ingress>> => [Next]_pacing
BY DEF IngressNext, Passes, Request, Outsider, Next, Advance

\* The pacing in front of the ingress is the pacing: what holds of it alone
\* holds here, as the run of this module also checks.
THEOREM IngressIsPaced == IngressSpec => Spec /\ SlotsAreSpaced
<1>1. IngressInit => Init
  BY DEF IngressInit
<1> QED
  BY <1>1, IngressStepPaces, PaceKept, PTL DEF IngressSpec, Spec

LEMMA InitIngressInv ==
    ASSUME PacesFit, IngressInit
    PROVE  IngressInv
<1>1. Init /\ PacingInv
  BY InitPacingInv DEF IngressInit
<1>2. TypeOK
  BY <1>1 DEF PacingInv
<1>3. refillIn \in [Policy -> 1..MaxRefill] /\ unexplained = FALSE
  BY DEF IngressInit
<1>4. tokens \in [Policy -> 0..Burst] /\ foreign \in [Policy -> BOOLEAN]
  BY IngressAssumption DEF IngressInit
<1>5. IngressTypeOK /\ LimitedOnlyByOutsiders
  BY <1>2, <1>3, <1>4 DEF IngressTypeOK, LimitedOnlyByOutsiders
<1>6. HandedOver
  <2>1. \A c \in Caller : pc[c] = "idle" /\ age[c] = 0
    BY <1>1 DEF Init
  <2>2. \A c \in Caller : pc[c] # "granted" /\ age[c] <= MaxHandover
    <3>1. 0 <= MaxHandover
      BY PacingAssumption
    <3> QED
      BY <2>1, <3>1
  <2>3. \A c \in Caller, p \in Policy : ~Granted(c, p)
    BY <2>2 DEF Granted
  <2> QED
    BY <2>1, <2>2, <2>3 DEF HandedOver
<1>7. Filled
  BY <1>1, IngressAssumption DEF IngressInit, Filled, TokenDue
<1> QED
  BY <1>1, <1>5, <1>6, <1>7 DEF IngressInv

\* A caller keeps its slot while nothing happens to it.
LEMMA HandedOverKept ==
    ASSUME HandedOver, UNCHANGED nextIn,
           NEW c \in Caller, pc[c] # "granted",
           \A d \in Caller \ {c} : pc'[d] = pc[d] /\ target'[d] = target[d] /\ age'[d] = age[d],
           age'[c] = age[c], pc'[c] = "granted" => PolicyOf(c)' \notin Policy
    PROVE  HandedOver'
<1> SUFFICES ASSUME NEW e \in Caller
             PROVE  /\ pc'[e] # "granted" => age'[e] = 0
                    /\ age'[e] <= MaxHandover
                    /\ \A p \in Policy : Granted(e, p)' =>
                         /\ nextIn'[p] + age'[e] >= Interval[p]
                         /\ \A d \in Caller : Granted(d, p)' => d = e
  BY DEF HandedOver
<1>1. \A d \in Caller, p \in Policy : Granted(d, p)' => d # c /\ Granted(d, p)
  BY DEF Granted, PolicyOf
<1> QED
  BY <1>1 DEF HandedOver

LEMMA FilledKept ==
    ASSUME Filled, UNCHANGED <<nextIn, ingress>>,
           \A c \in Caller, p \in Policy : Granted(c, p)' => Granted(c, p)
    PROVE  Filled'
BY DEF Filled, TokenDue, ingress

LEMMA StepIngressInv ==
    ASSUME PacesFit, ClassesAgree, IngressInv, [IngressNext]_<<pacing, ingress>>
    PROVE  IngressInv'
<1> USE PacingAssumption, IngressAssumption
<1>0. PacingInv'
  BY IngressStepPaces, NextPacingInv DEF IngressInv
<1>t. TypeOK /\ SlotReserved /\ IngressTypeOK /\ HandedOver /\ Filled /\ TypeOK'
  BY <1>0 DEF IngressInv, PacingInv
<1>1. ASSUME UNCHANGED ingress, HandedOver', Filled' PROVE IngressInv'
  BY <1>0, <1>1, <1>t
     DEF IngressInv, PacingInv, IngressTypeOK, LimitedOnlyByOutsiders, ingress
<1>2. CASE Passes
  <2>1. HandedOver'
    BY <1>t, <1>2 DEF Passes, Tick, Elapse, HandedOver, Granted, PolicyOf, TypeOK
  <2>2. ASSUME NEW p \in Policy
        PROVE  /\ tokens'[p] \in 0..Burst /\ refillIn'[p] \in 1..MaxRefill
               /\ refillIn'[p] <= Refill[p] /\ (~foreign'[p] => TokenDue(p)')
    <3>1. /\ tokens[p] \in 0..Burst /\ refillIn[p] \in 1..MaxRefill /\ refillIn[p] <= Refill[p]
          /\ Refill[p] \in Nat \ {0} /\ Refill[p] <= MaxRefill /\ nextIn[p] \in Nat
          /\ Burst \in Nat \ {0} /\ MaxRefill \in Nat
      BY <1>t DEF IngressTypeOK, Filled, TypeOK
    <3>2. /\ refillIn'[p] = IF refillIn[p] = 1 THEN Refill[p] ELSE refillIn[p] - 1
          /\ tokens'[p] = IF refillIn[p] = 1 /\ tokens[p] < Burst THEN tokens[p] + 1 ELSE tokens[p]
          /\ foreign'[p] = foreign[p] /\ nextIn'[p] = Elapse(nextIn[p])
          /\ \A c \in Caller : Granted(c, p)' <=> Granted(c, p)
      BY <1>2 DEF Passes, Tick, Granted, PolicyOf
    <3>3. tokens[p] >= 1 => tokens'[p] >= 1
      BY <3>1, <3>2
    <3>4. refillIn[p] = 1 => tokens'[p] >= 1
      BY <3>1, <3>2
    <3>5. refillIn[p] # 1 /\ refillIn[p] <= nextIn[p] => refillIn'[p] <= nextIn'[p]
      BY <3>1, <3>2 DEF Elapse
    <3>6. ~foreign'[p] => TokenDue(p)'
      BY <1>t, <3>2, <3>3, <3>4, <3>5 DEF Filled, TokenDue
    <3> QED
      BY <3>1, <3>2, <3>6
  <2>3. IngressTypeOK' /\ LimitedOnlyByOutsiders'
    BY <1>t, <1>2, <2>2 DEF Passes, IngressInv, IngressTypeOK, LimitedOnlyByOutsiders
  <2> QED
    BY <1>0, <2>1, <2>2, <2>3 DEF IngressInv, Filled
<1>3. ASSUME NEW c \in Caller, NEW path \in Target, Begin(c, path), UNCHANGED ingress
      PROVE  IngressInv'
  <2>1. pc[c] # "granted" /\ (pc'[c] = "granted" => PolicyOf(c)' \notin Policy)
    BY <1>3, <1>t DEF Begin, PolicyOf, TypeOK
  <2>2. HandedOver'
    BY <1>3, <1>t, <2>1, HandedOverKept DEF Begin, TypeOK
  <2>3. \A d \in Caller, p \in Policy : Granted(d, p)' => Granted(d, p)
    BY <1>3, <1>t, <2>1 DEF Begin, TypeOK, Granted, PolicyOf
  <2> QED
    BY <1>1, <1>3, <1>t, <2>2, <2>3, FilledKept DEF Begin
<1>4. ASSUME NEW c \in Caller, Acquire(c), UNCHANGED ingress
      PROVE  IngressInv'
  <2>1. pc[c] # "granted" /\ pc'[c] # "granted"
    BY <1>4, <1>t DEF Acquire, TypeOK
  <2>2. HandedOver'
    BY <1>4, <1>t, <2>1, HandedOverKept DEF Acquire, TypeOK
  <2>3. \A d \in Caller, p \in Policy : Granted(d, p)' => Granted(d, p)
    BY <1>4, <1>t, <2>1 DEF Acquire, TypeOK, Granted, PolicyOf
  <2> QED
    BY <1>1, <1>4, <1>t, <2>2, <2>3, FilledKept DEF Acquire
<1>5. ASSUME NEW c \in Caller, Grant(c), UNCHANGED ingress
      PROVE  IngressInv'
  <2> DEFINE q == PolicyOf(c)
  <2>1. /\ q \in Policy /\ nextIn[q] = 0 /\ pc[c] = "sleeping" /\ age[c] = 0
        /\ nextIn' = [nextIn EXCEPT ![q] = Interval[q]]
        /\ pc' = [pc EXCEPT ![c] = "granted"]
        /\ UNCHANGED <<target, age>>
    BY <1>5, <1>t DEF Grant, SlotReserved, HandedOver, TypeOK
  <2>2. \A d \in Caller : ~Granted(d, q)
    <3> SUFFICES ASSUME NEW d \in Caller, Granted(d, q) PROVE FALSE
      OBVIOUS
    <3>1. age[d] >= Interval[q] /\ age[d] <= MaxHandover
      BY <1>t, <2>1 DEF HandedOver, TypeOK
    <3>2. Refill[q] \in Nat \ {0} /\ Refill[q] + MaxHandover <= Interval[q]
      BY <2>1 DEF PacesFit
    <3>3. Interval[q] \in Nat
      BY <2>1, PacingAssumption
    <3>4. age[d] \in Nat /\ MaxHandover \in Nat
      BY <1>t DEF IngressTypeOK, TypeOK
    <3> QED
      BY <3>1, <3>2, <3>3, <3>4
  <2>3. \A d \in Caller, p \in Policy :
          Granted(d, p)' <=> Granted(d, p) \/ (d = c /\ p = q)
    BY <1>t, <2>1 DEF Granted, PolicyOf, TypeOK
  <2>4. HandedOver'
    <3> SUFFICES ASSUME NEW e \in Caller
                 PROVE  /\ pc'[e] # "granted" => age'[e] = 0
                        /\ age'[e] <= MaxHandover
                        /\ \A p \in Policy : Granted(e, p)' =>
                             /\ nextIn'[p] + age'[e] >= Interval[p]
                             /\ \A d \in Caller : Granted(d, p)' => d = e
      BY DEF HandedOver
    <3>1. /\ pc'[e] # "granted" => age'[e] = 0
          /\ age'[e] <= MaxHandover
      BY <1>t, <2>1 DEF HandedOver, TypeOK
    <3>2. ASSUME NEW p \in Policy, Granted(e, p)'
          PROVE  /\ nextIn'[p] + age'[e] >= Interval[p]
                 /\ \A d \in Caller : Granted(d, p)' => d = e
      <4>1. CASE p = q
        BY <1>t, <2>1, <2>2, <2>3, <3>2, <4>1 DEF TypeOK
      <4>2. CASE p # q
        BY <1>t, <2>1, <2>3, <3>2, <4>2 DEF TypeOK, HandedOver
      <4> QED
        BY <4>1, <4>2
    <3> QED
      BY <3>1, <3>2
  <2>5. Filled'
    <3> SUFFICES ASSUME NEW p \in Policy, ~foreign[p] PROVE TokenDue(p)'
      BY <1>5, <1>t DEF Filled, ingress
    <3>1. TokenDue(p)
      BY <1>t DEF Filled
    <3>2. CASE p = q
      <4>1. tokens[p] >= 1
        BY <1>t, <2>1, <3>1, <3>2 DEF TokenDue, IngressTypeOK
      <4> QED
        BY <1>5, <4>1 DEF TokenDue, ingress
    <3>3. CASE p # q
      BY <1>5, <1>t, <2>1, <2>3, <3>1, <3>3 DEF TokenDue, ingress, TypeOK
    <3> QED
      BY <3>2, <3>3
  <2> QED
    BY <1>1, <1>5, <2>4, <2>5
<1>6. ASSUME NEW c \in Caller, Request(c) PROVE IngressInv'
  <2> DEFINE counted == CountedBy(target[c])
             empty == {p \in counted : tokens[p] = 0}
  <2>1. /\ pc[c] = "granted" /\ pc' = [pc EXCEPT ![c] = "idle"]
        /\ age' = [age EXCEPT ![c] = 0]
        /\ UNCHANGED <<nextIn, holder, target, left, since, refillIn>>
    BY <1>6 DEF Request, Dispatch, Receive
  <2>2. \A p \in counted : Granted(c, p)
    BY <1>t, <2>1 DEF CountedBy, ClassesAgree, Granted, PolicyOf, TypeOK
  <2>3. \A d \in Caller, p \in Policy : Granted(d, p)' => Granted(d, p) /\ d # c
    BY <1>t, <2>1 DEF Granted, PolicyOf, TypeOK
  <2>4. HandedOver'
    BY <1>t, <2>1, <2>3 DEF HandedOver, TypeOK
  <2>5. CASE empty = {}
    <3>1. /\ tokens' = [p \in Policy |-> IF p \in counted THEN tokens[p] - 1 ELSE tokens[p]]
          /\ foreign' = [p \in Policy |-> foreign[p] /\ p \notin counted]
          /\ unexplained' = unexplained
      BY <1>6, <2>5 DEF Request, Receive
    <3>2. ASSUME NEW p \in Policy
          PROVE  tokens'[p] \in 0..Burst /\ foreign'[p] \in BOOLEAN
      <4>1. tokens[p] \in 0..Burst /\ (p \in counted => tokens[p] # 0)
        BY <1>t, <2>5 DEF IngressTypeOK
      <4> QED
        BY <3>1, <4>1
    <3>3. IngressTypeOK' /\ LimitedOnlyByOutsiders'
      BY <1>t, <2>1, <3>1, <3>2 DEF IngressInv, IngressTypeOK, LimitedOnlyByOutsiders
    <3>4. ASSUME NEW p \in Policy, ~foreign'[p] PROVE TokenDue(p)'
      <4>1. CASE p \in counted
        <5>1. /\ nextIn[p] + age[c] >= Interval[p] /\ age[c] <= MaxHandover
              /\ \A d \in Caller : Granted(d, p) => d = c
          BY <1>t, <2>2, <4>1 DEF HandedOver
        <5>2. /\ refillIn[p] <= Refill[p] /\ Refill[p] + MaxHandover <= Interval[p]
              /\ refillIn[p] \in Nat /\ Refill[p] \in Nat /\ nextIn[p] \in Nat /\ age[c] \in Nat
              /\ Interval[p] \in Nat
          BY <1>t DEF Filled, PacesFit, IngressTypeOK, TypeOK
        <5>3. refillIn[p] <= nextIn[p]
          BY <5>1, <5>2
        <5> QED
          BY <2>1, <2>3, <5>1, <5>3 DEF TokenDue
      <4>2. CASE p \notin counted
        <5>1. TokenDue(p)
          BY <1>t, <3>1, <3>4, <4>2 DEF Filled
        <5> QED
          BY <2>1, <2>3, <3>1, <4>2, <5>1 DEF TokenDue
      <4> QED
        BY <4>1, <4>2
    <3>5. Filled'
      BY <1>t, <2>1, <3>4 DEF Filled
    <3> QED
      BY <1>0, <2>4, <3>3, <3>5 DEF IngressInv
  <2>6. CASE empty # {}
    <3>1. /\ unexplained' = (unexplained \/ \A p \in empty : ~foreign[p])
          /\ UNCHANGED <<tokens, foreign>>
      BY <1>6, <2>6 DEF Request, Receive
    <3>2. PICK p \in empty : p \in Policy /\ Granted(c, p) /\ tokens[p] = 0
      BY <2>2, <2>6 DEF CountedBy
    <3>3. foreign[p]
      BY <1>t, <3>2 DEF Filled, TokenDue
    <3>4. ~unexplained
      BY DEF IngressInv, LimitedOnlyByOutsiders
    <3>5. unexplained' = FALSE
      BY <3>1, <3>2, <3>3, <3>4
    <3>6. IngressTypeOK' /\ LimitedOnlyByOutsiders'
      BY <1>t, <2>1, <3>1, <3>5 DEF IngressTypeOK, LimitedOnlyByOutsiders
    <3>7. Filled'
      BY <1>t, <2>1, <2>3, <3>1 DEF Filled, TokenDue
    <3> QED
      BY <1>0, <2>4, <3>6, <3>7 DEF IngressInv
  <2> QED
    BY <2>5, <2>6
<1>7. ASSUME NEW p \in Policy, Outsider(p) PROVE IngressInv'
  <2>1. /\ tokens' = [tokens EXCEPT ![p] = @ - 1] /\ tokens[p] > 0
        /\ foreign' = [foreign EXCEPT ![p] = TRUE]
        /\ UNCHANGED <<nextIn, holder, pc, target, left, age, since, refillIn, unexplained>>
    BY <1>7 DEF Outsider, pacing
  <2>2. HandedOver' /\ LimitedOnlyByOutsiders'
    BY <1>t, <2>1 DEF IngressInv, HandedOver, Granted, PolicyOf, LimitedOnlyByOutsiders
  <2>3. IngressTypeOK'
    BY <1>t, <2>1 DEF IngressTypeOK
  <2>4. Filled'
    <3> SUFFICES ASSUME NEW q \in Policy, ~foreign'[q] PROVE TokenDue(q)'
      BY <1>t, <2>1 DEF Filled
    <3>1. q # p /\ ~foreign[q] /\ tokens'[q] = tokens[q]
      BY <1>t, <2>1 DEF IngressTypeOK
    <3> QED
      BY <1>t, <2>1, <3>1 DEF Filled, TokenDue, Granted, PolicyOf
  <2> QED
    BY <1>0, <2>2, <2>3, <2>4 DEF IngressInv
<1>8. CASE UNCHANGED <<pacing, ingress>>
  <2>1. HandedOver' /\ Filled'
    BY <1>t, <1>8 DEF pacing, ingress, HandedOver, Filled, TokenDue, Granted, PolicyOf
  <2> QED
    BY <1>1, <1>8, <2>1
<1> QED
  BY <1>2, <1>3, <1>4, <1>5, <1>6, <1>7, <1>8 DEF IngressNext

\* A 429 answer "is either a shared-pacing regression or evidence of concurrent
\* traffic outside this harness": for any number of callers, any policies and
\* any burst, if a token comes back within an interval less the handover and
\* the ingress classifies paths as PUBLIC_RATE_POLICIES does.
THEOREM OnlyOutsidersLimit ==
    ASSUME PacesFit, ClassesAgree
    PROVE  IngressSpec => []LimitedOnlyByOutsiders
<1>1. IngressInit => IngressInv
  BY InitIngressInv
<1>2. IngressInv /\ [IngressNext]_<<pacing, ingress>> => IngressInv'
  BY StepIngressInv
<1>3. IngressInv => LimitedOnlyByOutsiders
  BY DEF IngressInv
<1> QED
  BY <1>1, <1>2, <1>3, PTL DEF IngressSpec

=============================================================================
