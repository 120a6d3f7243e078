---------------------------- MODULE MCAccounts ----------------------------
(* The instance of Accounts TLC checks.  Names, passwords and callers are  *)
(* only compared, so exchanging two of them changes nothing.               *)
EXTENDS Accounts, TLC

Symmetry ==
    Permutations(Usernames) \cup Permutations(Passwords)
        \cup Permutations(Callers)
===========================================================================
