------------------------------- MODULE ApiCalls -------------------------------
(***************************************************************************)
(* The calls that clients make of the API.  A call is made once; what it   *)
(* creates (a login, a link, a secret, a message) is named after it.       *)
(***************************************************************************)
EXTENDS Integers, FiniteSets, Sequences

CONSTANTS
  Calls,         (* the calls                                                *)
  None           (* no call                                                  *)

ASSUME CallsAssumption == IsFiniteSet(Calls) /\ None \notin Calls
=============================================================================
