----------------------------- MODULE Verification -----------------------------
(***************************************************************************)
(* The identity check (KYC) of one user: KycService with its provider.     *)
(*                                                                         *)
(* A submission looks for an earlier one, uploads the files, asks the      *)
(* provider, and only then writes its verdict, over whatever the row has   *)
(* become; an admin approves or rejects at any time.  Each of these writes *)
(* is one transaction.  A call that fails takes no further step.           *)
(***************************************************************************)
EXTENDS ApiCalls

VARIABLES
  kyc,           (* KycVerification.status, none without a row               *)
  kycVerified,   (* User.kycVerified                                         *)
  review         (* local variables of the calls                             *)

kycVars == <<kyc, kycVerified, review>>

Verdicts == {"PENDING", "APPROVED", "REJECTED"}
Review == [at : {"start", "upload", "verify", "save", "done", "approved", "rejected"},
           verdict : Verdicts]

KycTypeOK ==
  /\ kyc \in Verdicts \cup {"none"}
  /\ kycVerified \in BOOLEAN
  /\ review \in [Calls -> Review]

KycInit ==
  /\ kyc = "none" /\ kycVerified = FALSE
  /\ review = [c \in Calls |-> [at |-> "start", verdict |-> "PENDING"]]

Turns(c, place) == review' = [review EXCEPT ![c].at = place]

-----------------------------------------------------------------------------
(* submitVerification *)

(* A mutant: only an approved user is refused.                             *)
SubmitWhilePending(c) ==
  /\ review[c].at = "start"
  /\ kyc # "APPROVED"
  /\ Turns(c, "upload")
  /\ UNCHANGED <<kyc, kycVerified>>

Submit(c) ==
  /\ review[c].at = "start"
  /\ kyc \notin {"PENDING", "APPROVED"}
  /\ Turns(c, "upload")
  /\ UNCHANGED <<kyc, kycVerified>>

UploadFiles(c) ==
  /\ review[c].at = "upload"
  /\ Turns(c, "verify")
  /\ UNCHANGED <<kyc, kycVerified>>

(* The thresholds 80 and 50 of the match score.                            *)
Verdict(score, live, valid) ==
  IF live /\ valid THEN CASE score >= 80 -> "APPROVED"
                          [] score < 50 -> "REJECTED"
                          [] OTHER -> "PENDING"
  ELSE "REJECTED"

(* What a provider may answer.  The language model is asked for a score    *)
(* from 0 to 100, to which its answer is clamped; if it fails or is not    *)
(* configured the answer is the worst one.                                 *)
MockResult == [score |-> 92, live |-> TRUE, valid |-> TRUE]
WorstResult == [score |-> 0, live |-> FALSE, valid |-> FALSE]
Scores == {0, 49, 50, 79, 80, 100}
OpenAiResults == {WorstResult} \cup [score : Scores, live : BOOLEAN, valid : BOOLEAN]

Verify(c) ==
  /\ review[c].at = "verify"
  /\ \E r \in OpenAiResults \cup {MockResult} :
       review' = [review EXCEPT ![c] = [at |-> "save",
                                        verdict |-> Verdict(r.score, r.live, r.valid)]]
  /\ UNCHANGED <<kyc, kycVerified>>

SaveVerdict(c) ==
  /\ review[c].at = "save"
  /\ kyc' = review[c].verdict
  /\ kycVerified' = (review[c].verdict = "APPROVED")
  /\ Turns(c, "done")

-----------------------------------------------------------------------------
(* An admin decides on a row, whatever its status.                         *)

ApproveVerification(c) ==
  /\ review[c].at = "start"
  /\ kyc # "none"
  /\ kyc' = "APPROVED" /\ kycVerified' = TRUE
  /\ Turns(c, "approved")

RejectVerification(c) ==
  /\ review[c].at = "start"
  /\ kyc # "none"
  /\ kyc' = "REJECTED" /\ kycVerified' = FALSE
  /\ Turns(c, "rejected")

KycStep(c) == UploadFiles(c) \/ Verify(c) \/ SaveVerdict(c)

KycCall(c) == Submit(c) \/ ApproveVerification(c) \/ RejectVerification(c)

KycNext == \E c \in Calls : KycCall(c) \/ KycStep(c)

KycSpec == KycInit /\ [][KycNext]_kycVars

-----------------------------------------------------------------------------
(* Properties *)

Submitting == \E c \in Calls : review[c].at \in {"upload", "verify", "save"}

Decided(c, how) == review[c].at = "start" /\ review'[c].at = how

(* Once a submission waits for review or is approved, and no submission    *)
(* that was let in before is left, none is let in and only an admin        *)
(* changes the outcome: a late answer of the provider overwrites nothing.  *)
(* And however submissions and admins overlap, a step leaves the flag of   *)
(* the user saying what the row says.                                      *)
ReviewStands ==
  [][ /\ kycVerified' <=> kyc' = "APPROVED"
      /\ kyc \in {"PENDING", "APPROVED"} /\ ~Submitting =>
           /\ ~Submitting'
           /\ \/ kyc' = kyc
              \/ kyc' = "APPROVED" /\ \E c \in Calls : Decided(c, "approved")
              \/ kyc' = "REJECTED" /\ \E c \in Calls : Decided(c, "rejected") ]_kycVars
=============================================================================
