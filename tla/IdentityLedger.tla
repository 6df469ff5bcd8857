--------------------------- MODULE IdentityLedger ---------------------------
(***************************************************************************)
(* What the local credential store promises about each reusable identity,  *)
(* without processes, updates in flight or failures: an empty slot is      *)
(* reserved for an identity that has no account, the account of a reserved *)
(* identity is created, and only then is the slot complete.  A slot that   *)
(* holds a pair keeps it for ever, and no step touches two slots.          *)
(***************************************************************************)
EXTENDS CredentialFile

CONSTANTS InitialFiles, InitialAccounts

VARIABLES ledger,    \* what is saved for each role
          accounts   \* identity provider: username -> password, Unset if none

Reserve(r, id) ==
    /\ ~HasPair(ledger[r]) /\ ~IsPartial(ledger[r])
    /\ ledger[r].state \in {"absent", "blank"}
    /\ accounts[id] = Unset
    /\ \A s \in Role : ledger[s].username # id
    /\ ledger' = [ledger EXCEPT ![r] = [username |-> id, password |-> id,
                                        state |-> "pending"]]
    /\ UNCHANGED accounts

Provision(r) ==
    /\ HasPair(ledger[r])
    /\ ledger[r].state = "pending"
    /\ accounts[ledger[r].username] = Unset
    /\ accounts' = [accounts EXCEPT ![ledger[r].username] = ledger[r].password]
    /\ UNCHANGED ledger

Complete(r) ==
    /\ HasPair(ledger[r])
    /\ ledger[r].state = "pending"
    /\ accounts[ledger[r].username] = ledger[r].password
    /\ ledger' = [ledger EXCEPT ![r].state = "complete"]
    /\ UNCHANGED accounts

Init ==
    /\ ledger \in InitialFiles
    /\ \E existing \in InitialAccounts :
         accounts = [u \in Identity |-> IF u \in existing THEN u ELSE Unset]

Next == \E r \in Role : \/ \E id \in Fresh : Reserve(r, id)
                        \/ Provision(r)
                        \/ Complete(r)

Spec == Init /\ [][Next]_<<ledger, accounts>>

=============================================================================
