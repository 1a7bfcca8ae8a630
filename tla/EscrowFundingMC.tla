--------------------------- MODULE EscrowFundingMC ---------------------------
(* Instances of EscrowFunding for TLC; see the .cfg files for the sizes.   *)
EXTENDS EscrowFunding, TLC

(* Freelancers, callbacks and workers are interchangeable: no action or    *)
(* property names one of them.  Only for runs without liveness.            *)
Symmetry == Permutations(Freelancers) \cup Permutations(Callbacks)
            \cup Permutations(Workers) \cup Permutations(Requests)
=============================================================================
