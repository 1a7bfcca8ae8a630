--------------------------------- MODULE Desk ---------------------------------
(***************************************************************************)
(* The services around a contract that are not about its money, and the    *)
(* pages of the web client: the disputes, the identity check, the chat,    *)
(* the form through which a browser makes a guarded request, the CV        *)
(* builder, the pages about a job, the page that posts one, the employer's *)
(* dashboard, the administrator's page with the notices it sends, and who  *)
(* is signed in to the client.                                             *)
(* They share no variables; what one of them does to the rows of another   *)
(* is in the other as an action of its own.  Each call is one of one of    *)
(* them, in any order and interleaving with the others.                    *)
(***************************************************************************)
EXTENDS DisputeResolution, Verification, StepUpForm, Chat,
        CvMaker, JobPages, Vacancies, Workspace, ControlCenter, SignedIn

serviceVars == <<disputeVars, kycVars, formVars, chatVars>>
pageVars == <<cvVars, jobVars, postVars, workVars, centerVars, signVars>>
vars == <<serviceVars, pageVars>>

TypeOK ==
  /\ DisputeTypeOK /\ KycTypeOK /\ FormTypeOK /\ ChatTypeOK
  /\ CvTypeOK /\ JobTypeOK /\ PostTypeOK /\ WorkTypeOK /\ CenterTypeOK /\ SignTypeOK

Init ==
  /\ DisputeInit /\ KycInit /\ FormInit /\ ChatInit
  /\ CvInit /\ JobInit /\ PostInit /\ WorkInit /\ CenterInit /\ SignInit

(* A call that no part has seen yet.                                       *)
Free(c) ==
  /\ disp[c].at = "start" /\ review[c].at = "start"
  /\ request[c] = "start" /\ talk[c].at = "start"
  /\ cvCall[c].at = "start" /\ jobCall[c].at = "start"
  /\ post[c] = "start" /\ work[c].at = "start" /\ CenterFree(c)
  /\ trip[c].at = "start"

Disputing ==
  /\ \/ \E c \in Calls : DisputeStep(c) \/ (Free(c) /\ DisputeCall(c))
     \/ PageStep
  /\ UNCHANGED <<kycVars, formVars, chatVars, pageVars>>

Identifying ==
  /\ \E c \in Calls : KycStep(c) \/ (Free(c) /\ KycCall(c))
  /\ UNCHANGED <<disputeVars, formVars, chatVars, pageVars>>

Requesting ==
  /\ \/ \E c \in Calls : FormStep(c) \/ (Free(c) /\ HandleSubmit(c))
     \/ ModalStep
  /\ UNCHANGED <<disputeVars, kycVars, chatVars, pageVars>>

Chatting ==
  /\ \E c \in Calls : ChatStep(c) \/ (Free(c) /\ ChatCall(c))
  /\ UNCHANGED <<disputeVars, kycVars, formVars, pageVars>>

Drafting ==
  /\ \/ \E c \in Calls : CvPageStep(c) \/ (Free(c) /\ CvPageCall(c))
     \/ CvPageAct
  /\ UNCHANGED <<serviceVars, jobVars, postVars, workVars, centerVars, signVars>>

Applying ==
  /\ \/ \E c \in Calls : JobPageStep(c) \/ (Free(c) /\ JobPageCall(c))
     \/ JobPageAct
  /\ UNCHANGED <<serviceVars, cvVars, postVars, workVars, centerVars, signVars>>

Posting ==
  /\ \/ \E c \in Calls : PostStep(c) \/ (Free(c) /\ PostCall(c))
     \/ PostAct
  /\ UNCHANGED <<serviceVars, cvVars, jobVars, workVars, centerVars, signVars>>

Selecting ==
  /\ \/ \E c \in Calls : WorkStep(c) \/ (Free(c) /\ WorkCall(c))
     \/ WorkAct
  /\ UNCHANGED <<serviceVars, cvVars, jobVars, postVars, centerVars, signVars>>

Administering ==
  /\ \/ \E c \in Calls : CenterStep(c) \/ (Free(c) /\ CenterCall(c))
     \/ CenterAct
  /\ UNCHANGED <<serviceVars, cvVars, jobVars, postVars, workVars, signVars>>

Browsing ==
  /\ \/ \E c \in Calls : SignStep(c) \/ (Free(c) /\ SignCall(c))
     \/ SignAct
  /\ UNCHANGED <<serviceVars, cvVars, jobVars, postVars, workVars, centerVars>>

Next ==
  \/ Disputing \/ Identifying \/ Requesting \/ Chatting
  \/ Drafting \/ Applying \/ Posting \/ Selecting \/ Administering
  \/ Browsing

Spec == Init /\ [][Next]_vars
=============================================================================
