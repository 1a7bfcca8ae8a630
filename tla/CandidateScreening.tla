-------------------------- MODULE CandidateScreening --------------------------
(***************************************************************************)
(* What the screening of applications promises whatever fails on the way:  *)
(* an applicant is scored once, and invited to an interview at most once,  *)
(* on a score of 90 or more.                                               *)
(***************************************************************************)
EXTENDS Integers

CONSTANTS
  Applicants,
  Invitations,   (* identities of the invitations to an applicant            *)
  None           (* not scored                                               *)

VARIABLES
  score,         (* score of an applicant, or None                           *)
  invited        (* invitations made to an applicant                         *)

Init ==
  /\ score = [a \in Applicants |-> None]
  /\ invited = [a \in Applicants |-> {}]

Score(a) ==
  /\ score[a] = None
  /\ \E s \in 0..100 : score' = [score EXCEPT ![a] = s]
  /\ UNCHANGED invited

Invite(a) ==
  /\ score[a] \in 90..100
  /\ invited[a] = {}
  /\ \E i \in Invitations : invited' = [invited EXCEPT ![a] = {i}]
  /\ UNCHANGED score

Next == \E a \in Applicants : Score(a) \/ Invite(a)

Spec == Init /\ [][Next]_<<score, invited>>
=============================================================================
