------------------------- MODULE MCLocalIdentities -------------------------
(***************************************************************************)
(* Small instances of LocalIdentities: files an operator can leave behind  *)
(* and environments a run can start with.                                  *)
(***************************************************************************)
EXTENDS LocalIdentities, TLC

CONSTANTS Primary, Secondary, S1, S2

TwoSlots == {Primary, Secondary}

Empty == [r \in Role |-> NoRecord]
Unconfigured == [r \in Role |-> NoPair]

Saved(u, w, st) == [username |-> u, password |-> w, state |-> st]

\* Nothing saved; a hand-written pair with no state and a slot with only its
\* password; one username in two slots; a state without a pair and a blank one;
\* an operator's pending pair with a wrong password, and a bad state.
OperatorFiles ==
    {Empty,
     [Empty EXCEPT ![Primary] = Saved(S1, S1, "absent"),
                   ![Secondary] = Saved(Unset, S1, "absent")],
     [Empty EXCEPT ![Primary] = Saved(S1, S1, "absent"),
                   ![Secondary] = Saved(S1, S1, "complete")],
     [Empty EXCEPT ![Primary] = Saved(Unset, Unset, "pending"),
                   ![Secondary] = Saved(Unset, Unset, "blank")],
     [Empty EXCEPT ![Primary] = Saved(S1, S2, "pending"),
                   ![Secondary] = Saved(S2, S2, "invalid")]}

EmptyFile == {Empty}

\* No variable set; a pair for one slot, half a pair for another; one username
\* for two slots; the pair of an account that is saved in the other slot.
OperatorEnvironments ==
    {Unconfigured,
     [Unconfigured EXCEPT ![Primary].username = S1],
     [Unconfigured EXCEPT ![Primary] = [username |-> S1, password |-> S1],
                          ![Secondary] = [username |-> S1, password |-> S1]],
     [Unconfigured EXCEPT ![Secondary] = [username |-> S1, password |-> S1]]}

Symmetric == Permutations(Fresh) \cup Permutations(Proc)

NoVariables == {Unconfigured}

OneAccount == {{S1}}
NoAccount == {{}}

=============================================================================
