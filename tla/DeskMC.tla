-------------------------------- MODULE DeskMC --------------------------------
(***************************************************************************)
(* Instances of Desk for TLC; see desk.cfg for the sizes.                  *)
(*                                                                         *)
(* A behaviour of Desk is checked one part at a time: its parts have no    *)
(* variable in common, and no property is about two of them.  The others   *)
(* stay in one of their initial states.                                    *)
(***************************************************************************)
EXTENDS Desk, TLC

VARIABLE
  part           (* the part in which something may happen                   *)

Parts == {"dispute", "kyc", "form", "chat", "cv", "job", "post", "work", "center",
          "sign"}

PartInit ==
  /\ Init
  /\ part \in Parts
  /\ part = "dispute" \/ hasWallet
  /\ part = "cv" \/ (cvRow = None /\ localDraft = None)
  /\ part = "job" \/ (~markRow /\ appRow = "none")
  /\ part = "post" \/ companyRow
  /\ part = "center" \/ account.status = "active"
  /\ part = "sign" \/ kept = None

PartNext ==
  /\ \/ part = "dispute" /\ Disputing
     \/ part = "kyc" /\ Identifying
     \/ part = "form" /\ Requesting
     \/ part = "chat" /\ Chatting
     \/ part = "cv" /\ Drafting
     \/ part = "job" /\ Applying
     \/ part = "post" /\ Posting
     \/ part = "work" /\ Selecting
     \/ part = "center" /\ Administering
     \/ part = "sign" /\ Browsing
  /\ UNCHANGED part

PartSpec == PartInit /\ [][PartNext]_<<vars, part>>

(* Calls are interchangeable: no action or property names one of them.     *)
Symmetry == Permutations(Calls)
=============================================================================
