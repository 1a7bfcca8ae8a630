--------------------------- MODULE AccountSecurityMC ---------------------------
(* Instances of AccountSecurity for TLC; see accounts.cfg for the sizes.   *)
EXTENDS AccountSecurity, TLC

(* Calls are interchangeable: no action or property names one of them.     *)
Symmetry == Permutations(Calls)
=============================================================================
