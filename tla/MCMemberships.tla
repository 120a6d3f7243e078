--------------------------- MODULE MCMemberships ---------------------------
(* The instance of Memberships TLC checks.  People, projects and callers   *)
(* are only compared, so exchanging two of them changes nothing.           *)
EXTENDS Memberships, TLC

Symmetry == Permutations(People) \cup Permutations(Callers)
============================================================================
