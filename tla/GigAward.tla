------------------------------- MODULE GigAward -------------------------------
(***************************************************************************)
(* What the marketplace promises about a gig, whatever requests, workers   *)
(* and callbacks do meanwhile: every freelancer makes at most one offer,   *)
(* which never changes, and the gig is awarded once, to one of the         *)
(* freelancers, for exactly the amount that freelancer offered.            *)
(***************************************************************************)
EXTENDS Naturals

CONSTANTS Gigs, Freelancers, None

VARIABLES
  offer,   (* the amount each freelancer offered for a gig, 0: none          *)
  award    (* who the gig went to, and for how much                          *)

vars == <<offer, award>>

Init ==
  /\ offer = [g \in Gigs |-> [f \in Freelancers |-> 0]]
  /\ award = [g \in Gigs |-> [freelancer |-> None, agreedAmount |-> 0]]

Offer(g, f) ==
  /\ offer[g][f] = 0
  /\ offer'[g][f] \in Nat \ {0}
  /\ offer' = [offer EXCEPT ![g][f] = offer'[g][f]]
  /\ UNCHANGED award

Award(g, f) ==
  /\ award[g].freelancer = None
  /\ offer[g][f] # 0
  /\ award' = [award EXCEPT ![g] = [freelancer |-> f, agreedAmount |-> offer[g][f]]]
  /\ UNCHANGED offer

Next == \E g \in Gigs, f \in Freelancers : Offer(g, f) \/ Award(g, f)

Spec == Init /\ [][Next]_vars
=============================================================================
