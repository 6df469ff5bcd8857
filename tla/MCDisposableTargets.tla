------------------------ MODULE MCDisposableTargets ------------------------
(***************************************************************************)
(* Two reusable accounts, and systems under test that resolve identities   *)
(* rightly or mix some of them up.                                         *)
(***************************************************************************)
EXTENDS DisposableTargets, TLC

CONSTANTS Normal, Admin, F1, F2

Itself == [c \in Account |-> c]

\* All right; F1's session shows the normal user's subject; F1's subject is
\* resolved to the admin; both disposable accounts are resolved to one user.
Resolutions ==
    {[subject |-> Itself, user |-> Itself],
     [subject |-> [Itself EXCEPT ![F1] = Normal], user |-> Itself],
     [subject |-> Itself, user |-> [Itself EXCEPT ![F1] = Admin]],
     [subject |-> Itself, user |-> [Itself EXCEPT ![F1] = F2]]}

Executions == Permutations(Proc) \cup Permutations(Run)

=============================================================================
