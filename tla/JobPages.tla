------------------------------- MODULE JobPages -------------------------------
(***************************************************************************)
(* What a signed-in user does about one job: the bookmark on its card      *)
(* (SaveJobButton), the bookmark and the application form on its own page  *)
(* (JobActions), and the list of applications and saved jobs, from which   *)
(* both are taken back (app/applications/page.tsx); with the SavedJob and  *)
(* Application rows they are about.                                        *)
(*                                                                         *)
(* One page is open at a time.  A page that is left hears no answers.      *)
(***************************************************************************)
EXTENDS Pages

VARIABLES
  opened,        (* the page that is open, or "none"                         *)
  mark,          (* its "saved": the bookmark is filled                      *)
  marking,       (* the card waits for its bookmark                          *)
  applyOpen, applying, applied,  (* the application form                     *)
  listed,        (* the status and the bookmark that the list shows          *)
  asking,        (* the list asks whether to withdraw                        *)
  markRow,       (* there is a SavedJob row                                  *)
  appRow,        (* the status of the Application row, or "none"             *)
  jobOpen,       (* the job is PUBLISHED                                     *)
  jobCall,       (* the calls                                                *)
  jobActs,       (* how much was done without a call                         *)
  blurred        (* an exchange about the bookmark failed, or overlapped     *)
                 (* with another one that it does not agree with             *)

jobForm == <<applyOpen, applying, applied>>
jobStore == <<markRow, appRow, jobOpen>>
jobView == <<opened, mark, marking, listed, asking, blurred>>
jobVars == <<jobView, jobForm, jobStore, jobCall, jobActs>>

AppStatuses == {"none", "SUBMITTED", "REJECTED", "WITHDRAWN"}
JobErrands == {"none", "load", "mark", "resume", "apply", "withdraw"}

(* What a call is about, and how far it is; whether its page still waits;  *)
(* the bookmark it asks for; what a load has got, and of what; whether no  *)
(* other exchange about the bookmark disagrees with it; whether a load     *)
(* closes the dialog.                                                      *)
JobCall == [does : JobErrands, at : {"start", "asked", "half", "served", "ended"},
            heard : BOOLEAN, to : BOOLEAN, got : SUBSET {"mark", "app"},
            mark : BOOLEAN, app : AppStatuses, alone : BOOLEAN, closes : BOOLEAN]

NewJobCall == [does |-> "none", at |-> "start", heard |-> FALSE, to |-> FALSE, got |-> {},
               mark |-> FALSE, app |-> "none", alone |-> FALSE, closes |-> FALSE]
JobCallOver == [NewJobCall EXCEPT !.at = "ended"]

JobTypeOK ==
  /\ opened \in {"none", "card", "job", "list"}
  /\ mark \in BOOLEAN /\ marking \in BOOLEAN /\ blurred \in BOOLEAN
  /\ applyOpen \in BOOLEAN /\ applying \in BOOLEAN /\ applied \in BOOLEAN
  /\ listed \in [app : AppStatuses, mark : BOOLEAN]
  /\ asking \in BOOLEAN
  /\ markRow \in BOOLEAN /\ appRow \in AppStatuses /\ jobOpen \in BOOLEAN
  /\ jobCall \in [Calls -> JobCall]
  /\ jobActs \in 0..MaxActs

JobInit ==
  /\ opened = "none"
  /\ mark = FALSE /\ marking = FALSE /\ blurred = FALSE
  /\ applyOpen = FALSE /\ applying = FALSE /\ applied = FALSE
  /\ listed = [app |-> "none", mark |-> FALSE] /\ asking = FALSE
  /\ markRow \in BOOLEAN /\ appRow \in {"none", "SUBMITTED"} /\ jobOpen = TRUE
  /\ jobCall = [c \in Calls |-> NewJobCall]
  /\ jobActs = 0

JobActs == jobActs < MaxActs /\ jobActs' = jobActs + 1

(* Call c does something of which an answer, if any, is yet to come.       *)
Waits(c, errand) == jobCall[c].does = errand /\ jobCall[c].heard

(* The row may yet be changed by c, or the page by the answer to it.       *)
MayWrite(c) == jobCall[c].does = "mark" /\ jobCall[c].at = "asked"
MayMark(c) == MayWrite(c) \/ Waits(c, "mark")

JobOver(c) == [jobCall EXCEPT ![c] = JobCallOver]
JobServed(c) == [jobCall EXCEPT ![c] = IF @.heard THEN [@ EXCEPT !.at = "served"] ELSE JobCallOver]

-----------------------------------------------------------------------------
(* Opening a page; each of them loads the saved jobs, and the list the     *)
(* applications as well.                                                   *)

Leaving == [d \in Calls |->
  CASE jobCall[d].at \in {"asked", "half"} /\ jobCall[d].does # "load"
         -> [jobCall[d] EXCEPT !.heard = FALSE]
    [] jobCall[d].at = "start" -> jobCall[d]
    [] OTHER -> JobCallOver]

Loading(calls, c, alone, closes) ==
  [calls EXCEPT ![c] = [NewJobCall EXCEPT !.does = "load", !.at = "asked",
     !.heard = TRUE, !.alone = alone, !.closes = closes]]

Visit(c) ==
  /\ jobCall[c].at = "start"
  /\ \E p \in {"card", "job", "list"} : opened' = p
  /\ mark' = FALSE /\ marking' = FALSE /\ blurred' = TRUE
  /\ applyOpen' = FALSE /\ applying' = FALSE /\ applied' = FALSE
  /\ listed' = [app |-> "none", mark |-> FALSE] /\ asking' = FALSE
  /\ jobCall' = Loading(Leaving, c, \A d \in Calls : ~MayWrite(d), FALSE)
  /\ UNCHANGED <<jobStore, jobActs>>

GetSavedJobs(c) ==
  /\ Waits(c, "load") /\ "mark" \notin jobCall[c].got
  /\ jobCall' = [jobCall EXCEPT ![c].got = @ \cup {"mark"}, ![c].mark = markRow]
  /\ UNCHANGED <<jobView, jobForm, jobStore, jobActs>>

FindByUser(c) ==
  /\ Waits(c, "load") /\ opened = "list" /\ "app" \notin jobCall[c].got
  /\ jobCall' = [jobCall EXCEPT ![c].got = @ \cup {"app"}, ![c].app = appRow]
  /\ UNCHANGED <<jobView, jobForm, jobStore, jobActs>>

LoadArrives(c) ==
  /\ Waits(c, "load") /\ opened # "list" /\ "mark" \in jobCall[c].got
  /\ mark' = jobCall[c].mark
  /\ blurred' = ~jobCall[c].alone
  /\ jobCall' = JobOver(c)
  /\ UNCHANGED <<opened, marking, listed, asking, jobForm, jobStore, jobActs>>

(* Both answers are there; either may be an error, which changes nothing.  *)
ListArrives(c) ==
  /\ Waits(c, "load") /\ opened = "list" /\ jobCall[c].got = {"mark", "app"}
  /\ \E shownMark \in {jobCall[c].mark, listed.mark}, shownApp \in {jobCall[c].app, listed.app} :
       listed' = [app |-> shownApp, mark |-> shownMark]
  /\ asking' = (asking /\ ~jobCall[c].closes)
  /\ jobCall' = JobOver(c)
  /\ UNCHANGED <<opened, mark, marking, blurred, jobForm, jobStore, jobActs>>

LoadFails(c) ==
  /\ Waits(c, "load")
  /\ jobCall' = JobOver(c)
  /\ UNCHANGED <<jobView, jobForm, jobStore, jobActs>>

-----------------------------------------------------------------------------
(* The bookmark *)

(* The page asks for the contrary of what it shows.  Asking twice for the  *)
(* same agrees with itself.                                                *)
Toggles(c, to) ==
  LET clash(d) == Waits(d, "load") \/ (MayMark(d) /\ jobCall[d].to # to) IN
  jobCall' = [d \in Calls |->
    IF d = c THEN [NewJobCall EXCEPT !.does = "mark", !.at = "asked", !.heard = TRUE,
                     !.to = to, !.alone = \A e \in Calls : ~clash(e)]
    ELSE IF clash(d) THEN [jobCall[d] EXCEPT !.alone = FALSE] ELSE jobCall[d]]

(* A mutant: the button does not look whether it waits already.            *)
ToggleCardAgain(c) ==
  /\ jobCall[c].at = "start"
  /\ opened = "card"
  /\ marking' = TRUE
  /\ Toggles(c, ~mark)
  /\ UNCHANGED <<opened, mark, listed, asking, blurred, jobForm, jobStore, jobActs>>

ToggleCard(c) ==
  /\ jobCall[c].at = "start"
  /\ opened = "card" /\ ~marking
  /\ marking' = TRUE
  /\ Toggles(c, ~mark)
  /\ UNCHANGED <<opened, mark, listed, asking, blurred, jobForm, jobStore, jobActs>>

ToggleSaved(c) ==
  /\ jobCall[c].at = "start"
  /\ opened = "job"
  /\ Toggles(c, ~mark)
  /\ UNCHANGED <<jobView, jobForm, jobStore, jobActs>>

Unsave(c) ==
  /\ jobCall[c].at = "start"
  /\ opened = "list" /\ listed.mark
  /\ Toggles(c, FALSE)
  /\ UNCHANGED <<jobView, jobForm, jobStore, jobActs>>

(* saveJob inserts unless there is a row, removeSavedJob deletes any.      *)
SaveJob(c) ==
  /\ MayWrite(c)
  /\ markRow' = jobCall[c].to
  /\ jobCall' = JobServed(c)
  /\ UNCHANGED <<jobView, jobForm, appRow, jobOpen, jobActs>>

(* The card turns what it shows by then, the page what it showed when the  *)
(* button was pressed.                                                     *)
CardMarked(c) ==
  /\ opened = "card" /\ Waits(c, "mark") /\ jobCall[c].at = "served"
  /\ mark' = ~mark /\ marking' = FALSE
  /\ blurred' = ~jobCall[c].alone
  /\ jobCall' = JobOver(c)
  /\ UNCHANGED <<opened, listed, asking, jobForm, jobStore, jobActs>>

JobMarked(c) ==
  /\ opened = "job" /\ Waits(c, "mark") /\ jobCall[c].at = "served"
  /\ mark' = jobCall[c].to
  /\ blurred' = ~jobCall[c].alone
  /\ jobCall' = JobOver(c)
  /\ UNCHANGED <<opened, marking, listed, asking, jobForm, jobStore, jobActs>>

MarkRefused(c) ==
  /\ opened # "list" /\ Waits(c, "mark") /\ jobCall[c].at = "asked"
  /\ marking' = FALSE
  /\ jobCall' = JobOver(c)
  /\ UNCHANGED <<opened, mark, listed, asking, blurred, jobForm, jobStore, jobActs>>

(* The list loads again whether the removal succeeded or not.              *)
UnsaveEnds(c) ==
  /\ opened = "list" /\ Waits(c, "mark")
  /\ jobCall' = Loading(jobCall, c, FALSE, FALSE)
  /\ UNCHANGED <<jobView, jobForm, jobStore, jobActs>>

(* fetch rejects: the card goes on waiting.                                *)
MarkUnanswered(c) ==
  /\ Waits(c, "mark")
  /\ blurred' = TRUE
  /\ jobCall' = IF MayWrite(c) THEN [jobCall EXCEPT ![c].heard = FALSE] ELSE JobOver(c)
  /\ UNCHANGED <<opened, mark, marking, listed, asking, jobForm, jobStore, jobActs>>

-----------------------------------------------------------------------------
(* The application *)

StartApplication ==
  /\ JobActs
  /\ opened = "job" /\ ~applied
  /\ applyOpen' = TRUE
  /\ UNCHANGED <<jobView, applying, applied, jobStore, jobCall>>

(* The form is there, and its buttons do not wait.                         *)
FormIdle == applyOpen /\ ~applying

CloseForm ==
  /\ JobActs
  /\ FormIdle
  /\ applyOpen' = FALSE
  /\ UNCHANGED <<jobView, applying, applied, jobStore, jobCall>>

(* With a résumé that is to be uploaded first, or without.                 *)
SubmitApplication(c) ==
  /\ jobCall[c].at = "start"
  /\ opened = "job" /\ FormIdle
  /\ applying' = TRUE
  /\ \E errand \in {"resume", "apply"} :
       jobCall' = [jobCall EXCEPT ![c] = [NewJobCall EXCEPT
         !.does = errand, !.at = "asked", !.heard = TRUE]]
  /\ UNCHANGED <<jobView, applyOpen, applied, jobStore, jobActs>>

(* The application is sent even if the page has been left by then.         *)
UploadResume(c) ==
  /\ jobCall[c].does = "resume"
  /\ jobCall' = [jobCall EXCEPT ![c].does = "apply"]
  /\ UNCHANGED <<jobView, jobForm, jobStore, jobActs>>

(* The unique key of job and user refuses a second application.            *)
StoreApplication(c) ==
  /\ jobCall[c].does = "apply" /\ jobCall[c].at = "asked"
  /\ jobOpen /\ appRow = "none"
  /\ appRow' = "SUBMITTED"
  /\ jobCall' = JobServed(c)
  /\ UNCHANGED <<jobView, jobForm, markRow, jobOpen, jobActs>>

ApplicationSubmitted(c) ==
  /\ Waits(c, "apply") /\ jobCall[c].at = "served"
  /\ applied' = TRUE /\ applyOpen' = FALSE /\ applying' = FALSE
  /\ jobCall' = JobOver(c)
  /\ UNCHANGED <<jobView, jobStore, jobActs>>

(* Refused, or unanswered: then the application may be stored yet.         *)
ApplicationFails(c) ==
  /\ Waits(c, "resume") \/ Waits(c, "apply")
  /\ applying' = FALSE
  /\ \/ jobCall' = JobOver(c)
     \/ /\ Waits(c, "apply") /\ jobCall[c].at = "asked"
        /\ jobCall' = [jobCall EXCEPT ![c].heard = FALSE]
  /\ UNCHANGED <<jobView, applyOpen, applied, jobStore, jobActs>>

-----------------------------------------------------------------------------
(* Withdrawing it *)

AskWithdraw ==
  /\ JobActs
  /\ opened = "list" /\ listed.app = "SUBMITTED"
  /\ asking' = TRUE
  /\ UNCHANGED <<opened, mark, marking, listed, blurred, jobForm, jobStore, jobCall>>

CancelWithdraw ==
  /\ JobActs
  /\ asking
  /\ asking' = FALSE
  /\ UNCHANGED <<opened, mark, marking, listed, blurred, jobForm, jobStore, jobCall>>

(* The dialog closes when its button is pressed.                           *)
Withdraw(c) ==
  /\ jobCall[c].at = "start"
  /\ opened = "list" /\ asking
  /\ asking' = FALSE
  /\ jobCall' = [jobCall EXCEPT ![c] = [NewJobCall EXCEPT
       !.does = "withdraw", !.at = "asked", !.heard = TRUE]]
  /\ UNCHANGED <<opened, mark, marking, listed, blurred, jobForm, jobStore, jobActs>>

FindOpen(c) ==
  /\ jobCall[c].does = "withdraw" /\ jobCall[c].at = "asked"
  /\ appRow = "SUBMITTED"
  /\ jobCall' = [jobCall EXCEPT ![c].at = "half"]
  /\ UNCHANGED <<jobView, jobForm, jobStore, jobActs>>

WriteWithdrawn(c) ==
  /\ jobCall[c].does = "withdraw" /\ jobCall[c].at = "half"
  /\ appRow' = "WITHDRAWN"
  /\ jobCall' = JobServed(c)
  /\ UNCHANGED <<jobView, jobForm, markRow, jobOpen, jobActs>>

(* After a reload, whatever dialog is open by then is closed.              *)
Withdrawn(c) ==
  /\ Waits(c, "withdraw") /\ jobCall[c].at = "served"
  /\ jobCall' = Loading(jobCall, c, FALSE, TRUE)
  /\ UNCHANGED <<jobView, jobForm, jobStore, jobActs>>

(* Refused, or unanswered.                                                 *)
WithdrawFails(c) ==
  /\ Waits(c, "withdraw")
  /\ \/ jobCall[c].at = "asked" /\ asking' = FALSE /\ jobCall' = JobOver(c)
     \/ jobCall[c].at = "served" /\ UNCHANGED asking /\ jobCall' = JobOver(c)
     \/ /\ jobCall[c].at # "served" /\ UNCHANGED asking
        /\ jobCall' = [jobCall EXCEPT ![c].heard = FALSE]
  /\ UNCHANGED <<opened, mark, marking, listed, blurred, jobForm, jobStore, jobActs>>

-----------------------------------------------------------------------------
(* The employer *)

Reject ==
  /\ appRow = "SUBMITTED"
  /\ appRow' = "REJECTED"
  /\ UNCHANGED <<jobView, jobForm, markRow, jobOpen, jobCall, jobActs>>

CloseJob ==
  /\ jobOpen
  /\ jobOpen' = FALSE
  /\ UNCHANGED <<jobView, jobForm, markRow, appRow, jobCall, jobActs>>

JobPageCall(c) ==
  \/ Visit(c) \/ ToggleCard(c) \/ ToggleSaved(c) \/ Unsave(c)
  \/ SubmitApplication(c) \/ Withdraw(c)

JobPageStep(c) ==
  \/ GetSavedJobs(c) \/ FindByUser(c) \/ LoadArrives(c) \/ ListArrives(c) \/ LoadFails(c)
  \/ SaveJob(c) \/ CardMarked(c) \/ JobMarked(c) \/ MarkRefused(c) \/ UnsaveEnds(c)
  \/ MarkUnanswered(c)
  \/ UploadResume(c) \/ StoreApplication(c) \/ ApplicationSubmitted(c) \/ ApplicationFails(c)
  \/ FindOpen(c) \/ WriteWithdrawn(c) \/ Withdrawn(c) \/ WithdrawFails(c)

JobPageAct == StartApplication \/ CloseForm \/ AskWithdraw \/ CancelWithdraw \/ Reject \/ CloseJob

JobNext == (\E c \in Calls : JobPageCall(c) \/ JobPageStep(c)) \/ JobPageAct

JobSpec == JobInit /\ [][JobNext]_jobVars

-----------------------------------------------------------------------------
(* Properties *)

(* When no answer about it is outstanding, the bookmark is filled just if  *)
(* the job is saved, however often it was pressed; unless an exchange got  *)
(* no answer, or overlapped with one that asked for the contrary or with   *)
(* the loading of the page.                                                *)
MarkIsStored ==
  opened \in {"card", "job"} /\ ~blurred /\ (\A c \in Calls : ~Waits(c, "mark")) => mark = markRow
=============================================================================
