-------------------------- MODULE BootstrapProofs --------------------------
(***************************************************************************)
(* Proofs about Bootstrap, for any number of processes, revisions and      *)
(* distributions and any number of changes by hand.  The argument is the   *)
(* invariant EstablishedAlone: what a run has checked stays true until     *)
(* somebody else changes a file, and every command adds its own fact.      *)
(***************************************************************************)
EXTENDS Bootstrap, TLAPS

\* The inductive invariant of the bootstrap.
BootstrapInv == TypeOK /\ EstablishedAlone

\* It holds initially: no run has started.
LEMMA InitBootstrapInv == Init => BootstrapInv
  BY BootstrapAssumption DEF Init, BootstrapInv, TypeOK, EstablishedAlone, Pins, Running

\* Every command keeps the types.
LEMMA StepTypeOK == TypeOK /\ [Next]_vars => TypeOK'
<1> SUFFICES ASSUME TypeOK, [Next]_vars PROVE TypeOK'
  OBVIOUS
<1> USE BootstrapAssumption DEF TypeOK, Pins, Running
<1>1. \A l \in Revision : Installed(l) \in SUBSET Package
  BY DEF Installed
<1>2. CASE UNCHANGED vars
  BY <1>2 DEF vars
<1>3. CASE ByHand
  BY <1>3 DEF ByHand
<1>4. ASSUME NEW p \in Proc, Advance(p) PROVE TypeOK'
  <2> UvPin[contract[p].manifest] \in Uv
    OBVIOUS
  <2>1. CASE Start(p)
    BY <2>1 DEF Start, Goto
  <2>2. CASE ReuseTool(p) \/ CheckLock(p) \/ Reuse(p) \/ CheckSync(p) \/ ListSync(p) \/ Ends(p)
    <3>1. CASE ReuseTool(p) \/ CheckLock(p) \/ CheckSync(p) \/ ListSync(p) \/ Ends(p)
      BY <3>1 DEF ReuseTool, CheckLock, CheckSync, ListSync, Ends, Goto, Reads
    <3>2. CASE ReadMarker(p) \/ CheckReuse(p) \/ ListReuse(p)
      BY <3>2 DEF ReadMarker, CheckReuse, ListReuse, Goto, Reads
    <3>3. CASE LookFails(p)
      BY <3>3 DEF LookFails, Goto
    <3> QED
      BY <2>2, <3>1, <3>2, <3>3 DEF Reuse
  <2>3. CASE CreateTool(p)
    BY <2>3 DEF CreateTool, Goto, Disturbs, ToolOf
  <2>4. CASE InstallTool(p)
    BY <2>4 DEF InstallTool, Goto, Disturbs, ToolOf
  <2>5. CASE ComputeIdentity(p)
    BY <2>5 DEF ComputeIdentity, Goto
  <2>6. CASE UnlinkMarker(p) \/ RemoveEnvironment(p)
    <3>1. CASE UnlinkMarker(p)
      BY <3>1 DEF UnlinkMarker, Goto, Disturbs
    <3>2. CASE RemoveEnvironment(p)
      BY <3>2 DEF RemoveEnvironment, Goto, Disturbs
    <3> QED
      BY <2>6, <3>1, <3>2
  <2>7. CASE RemoveFails(p)
    BY <2>7 DEF RemoveFails, Goto, Disturbs
  <2>8. CASE WriteMarker(p)
    BY <2>8 DEF WriteMarker, Goto, Disturbs
  <2>9. CASE Sync(p) \/ SyncFails(p)
    BY <2>9, <1>1 DEF Sync, SyncFails, Goto, Disturbs
  <2> QED
    BY <1>4, <2>1, <2>2, <2>3, <2>4, <2>5, <2>6, <2>7, <2>8, <2>9 DEF Advance, Replace
<1> QED
  BY <1>2, <1>3, <1>4 DEF Next

\* Every command keeps EstablishedAlone: a run other than the one that acts
\* is disturbed or sees no change, and the acting one adds what it checked.
LEMMA StepEstablished == BootstrapInv /\ [Next]_vars => EstablishedAlone'
<1> SUFFICES ASSUME BootstrapInv, [Next]_vars,
                    NEW q \in Proc, pc'[q] # "idle", alone'[q]
             PROVE  Established(q)'
  BY DEF EstablishedAlone
<1> USE BootstrapAssumption DEF BootstrapInv, TypeOK
<1>0. pc[q] # "idle" /\ alone[q] => Established(q)
  BY DEF EstablishedAlone
<1>1. CASE UNCHANGED vars
  BY <1>0, <1>1 DEF vars, Established, ToolReady, ToolOf, Settled
<1>2. CASE ByHand
  BY <1>2 DEF ByHand
<1>3. ASSUME NEW p \in Proc, p # q, Advance(p) PROVE Established(q)'
  <2>1. CASE Start(p) \/ ComputeIdentity(p)
    BY <1>0, <1>3, <2>1 DEF Start, ComputeIdentity, Goto, Established, ToolReady, ToolOf, Settled
  <2>2. CASE ReuseTool(p) \/ CheckLock(p) \/ Reuse(p) \/ CheckSync(p) \/ ListSync(p) \/ Ends(p)
    <3>1. UNCHANGED <<pins, tool, env, marker, contract, identity, alone, changes>>
      BY <2>2 DEF ReuseTool, CheckLock, Reuse, ReadMarker, CheckReuse, ListReuse, LookFails,
                  CheckSync, ListSync, Ends, Reads
    <3>2. pc'[q] = pc[q] /\ failed'[q] = failed[q]
      BY <1>3, <2>2 DEF ReuseTool, CheckLock, Reuse, ReadMarker, CheckReuse, ListReuse, LookFails,
                        CheckSync, ListSync, Ends, Goto, Reads
    <3> QED
      BY <1>0, <3>1, <3>2 DEF Established, ToolReady, ToolOf, Settled
  <2>3. CASE \/ CreateTool(p) \/ InstallTool(p) \/ UnlinkMarker(p) \/ RemoveEnvironment(p)
             \/ RemoveFails(p) \/ WriteMarker(p) \/ Sync(p) \/ SyncFails(p)
    \* alone'[q] would be FALSE
    BY <1>3, <2>3 DEF CreateTool, InstallTool, UnlinkMarker, RemoveEnvironment, RemoveFails,
                      WriteMarker, Sync, SyncFails, Disturbs
  <2> QED
    BY <1>3, <2>1, <2>2, <2>3 DEF Advance, Replace
<1>4. ASSUME Advance(q) PROVE Established(q)'
  <2> USE DEF Goto, Established, ToolReady, ToolOf, Settled
  <2>1. CASE Start(q)
    BY <2>1 DEF Start
  <2>2. CASE ReuseTool(q)
    BY <1>0, <2>2 DEF ReuseTool, Reads
  <2>3. CASE CreateTool(q)
    BY <1>0, <2>3 DEF CreateTool, Disturbs
  <2>4. CASE InstallTool(q)
    <3>1. UvPin[contract[q].manifest] \in Uv
      BY DEF Pins
    <3> QED
      BY <1>0, <2>4, <3>1 DEF InstallTool, Disturbs
  <2>5. CASE CheckLock(q)
    BY <1>0, <2>5 DEF CheckLock, Reads
  <2>6. CASE ComputeIdentity(q)
    BY <1>0, <2>6 DEF ComputeIdentity
  <2>7. CASE ReadMarker(q)
    BY <1>0, <2>7 DEF ReadMarker, Reads
  <2>8. CASE CheckReuse(q)
    BY <1>0, <2>8 DEF CheckReuse, Reads, Installed
  <2>9. CASE ListReuse(q)
    BY <1>0, <2>9 DEF ListReuse, Reads, OnlyLocked, Installed
  <2>17. CASE LookFails(q)
    BY <1>0, <2>17 DEF LookFails
  <2>10. CASE UnlinkMarker(q)
    BY <1>0, <2>10 DEF UnlinkMarker, Disturbs
  <2>11. CASE RemoveEnvironment(q)
    BY <1>0, <2>11 DEF RemoveEnvironment, Disturbs
  <2>12. CASE RemoveFails(q) \/ SyncFails(q) \/ Ends(q)
    BY <2>12 DEF RemoveFails, SyncFails, Ends
  <2>13. CASE Sync(q)
    BY <1>0, <2>13 DEF Sync, Disturbs, Installed
  <2>14. CASE CheckSync(q)
    BY <1>0, <2>14 DEF CheckSync, Reads, Installed
  <2>15. CASE ListSync(q)
    BY <1>0, <2>15 DEF ListSync, Reads, Installed
  <2>16. CASE WriteMarker(q)
    BY <1>0, <2>16 DEF WriteMarker, Disturbs, Installed
  <2> QED
    BY <1>4, <2>1, <2>2, <2>3, <2>4, <2>5, <2>6, <2>7, <2>8, <2>9, <2>10, <2>11, <2>12,
       <2>13, <2>14, <2>15, <2>16, <2>17 DEF Advance, Reuse, Replace
<1> QED
  BY <1>1, <1>2, <1>3, <1>4 DEF Next

\* The invariant of every behaviour.
LEMMA BootstrapInvariant == Spec => []BootstrapInv
<1>1. BootstrapInv /\ [Next]_vars => BootstrapInv'
  BY StepTypeOK, StepEstablished DEF BootstrapInv
<1> QED
  BY InitBootstrapInv, <1>1, PTL DEF Spec

\* Types: every variable of the bootstrap keeps its type.
THEOREM TypeCorrect == Spec => []TypeOK
<1>1. BootstrapInv => TypeOK
  BY DEF BootstrapInv
<1> QED
  BY BootstrapInvariant, <1>1, PTL

\* What an undisturbed run has established holds when it reaches the next
\* command, whatever earlier runs, crashes and edits left behind.
THEOREM UndisturbedRuns == Spec => []EstablishedAlone
<1>1. BootstrapInv => EstablishedAlone
  BY DEF BootstrapInv
<1> QED
  BY BootstrapInvariant, <1>1, PTL

\* An undisturbed run that gets as far as the tests runs them in exactly the
\* environment of the fresh lock.
THEOREM FrozenEnvironment == Spec => []ReadyIsFrozen
<1>1. BootstrapInv => ReadyIsFrozen
  BY DEF BootstrapInv, EstablishedAlone, Established, ReadyIsFrozen
<1> QED
  BY BootstrapInvariant, <1>1, PTL

\* An undisturbed run keeps an environment that a run has set up and certified,
\* unless a command by which it looks at the environment fails.
THEOREM SettledKept == Spec => SettledIsReused
<1>1. BootstrapInv /\ [Next]_vars =>
        [\A p \in Proc :
           pc[p] \in Running /\ alone'[p] /\ ~failed'[p] /\ Settled => Settled']_vars
  <2> SUFFICES ASSUME BootstrapInv, Next, NEW p \in Proc,
                      pc[p] \in Running, alone'[p], ~failed'[p], Settled
               PROVE  Settled'
    OBVIOUS
  <2> USE DEF BootstrapInv, TypeOK
  <2>1. CASE ByHand
    BY <2>1 DEF ByHand
  <2>2. ASSUME NEW r \in Proc, r # p, Advance(r) PROVE Settled'
    <3>1. CASE \/ CreateTool(r) \/ InstallTool(r) \/ UnlinkMarker(r) \/ RemoveEnvironment(r)
               \/ RemoveFails(r) \/ WriteMarker(r) \/ Sync(r) \/ SyncFails(r)
      \* alone'[p] would be FALSE
      BY <2>2, <3>1 DEF CreateTool, InstallTool, UnlinkMarker, RemoveEnvironment, RemoveFails,
                        WriteMarker, Sync, SyncFails, Disturbs
    <3>2. CASE UNCHANGED <<pins, env, marker>>
      BY <3>2 DEF Settled
    <3> QED
      BY <2>2, <3>1, <3>2 DEF Advance, Reuse, Replace, Start, ReuseTool, CheckLock,
         ComputeIdentity, ReadMarker, CheckReuse, ListReuse, LookFails, CheckSync, ListSync,
         Ends, Reads
  <2>3. ASSUME Advance(p) PROVE Settled'
    <3>1. CASE UNCHANGED <<pins, env, marker>>
      BY <3>1 DEF Settled
    <3>2. CASE UnlinkMarker(p) \/ RemoveEnvironment(p) \/ RemoveFails(p)
               \/ Sync(p) \/ SyncFails(p) \/ WriteMarker(p)
      \* p would have been told of a mismatch, or the marker is gone
      <4>1. alone[p] /\ ~failed[p] /\ pc[p] # "idle"
        BY <3>2 DEF UnlinkMarker, RemoveEnvironment, RemoveFails, Sync, SyncFails, WriteMarker,
                    Disturbs, Running
      <4>2. Established(p)
        BY <4>1 DEF EstablishedAlone
      <4>3. marker # NoMarker
        BY BootstrapAssumption DEF Settled, Pins
      <4> QED
        BY <3>2, <4>1, <4>2, <4>3 DEF UnlinkMarker, RemoveEnvironment, RemoveFails, Sync,
           SyncFails, WriteMarker, Goto, Established
    <3> QED
      BY <2>3, <3>1, <3>2 DEF Advance, Reuse, Replace, Start, ReuseTool, CreateTool, InstallTool,
         CheckLock, ComputeIdentity, ReadMarker, CheckReuse, ListReuse, LookFails, CheckSync,
         ListSync, Ends, Reads
  <2> QED
    BY <2>1, <2>2, <2>3 DEF Next
<1> QED
  BY BootstrapInvariant, <1>1, PTL DEF SettledIsReused, Spec
=============================================================================
