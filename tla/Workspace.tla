------------------------------ MODULE Workspace ------------------------------
(***************************************************************************)
(* The employer's dashboard (app/employer/page.tsx): the jobs of the       *)
(* employer's company, the applicants of the one that is selected, and the *)
(* status that the employer gives them.  Each job has one applicant.       *)
(*                                                                         *)
(* Lists are loaded while others are: when a job is selected, and again    *)
(* after a change of status, for the job that was selected when the change *)
(* was made.                                                               *)
(***************************************************************************)
EXTENDS Pages

CONSTANT
  Listings       (* the employer's jobs                                      *)

ASSUME WorkspaceAssumption == None \notin Listings

VARIABLES
  jobs,          (* the jobs are shown                                       *)
  selected,      (* the job in the heading, or None                          *)
  applicants,    (* the applicants shown: of which job, with which status    *)
  statusRow,     (* the status of each job's application                     *)
  work,          (* the calls                                                *)
  astray         (* two lists were being loaded at once, or the last failed  *)

workView == <<jobs, selected, applicants, astray>>
workVars == <<workView, statusRow, work>>

Statuses == {"SUBMITTED", "SHORTLISTED", "REJECTED"}

(* How far a call is; the job it is about, or was made at; the status it   *)
(* sets or has read.                                                       *)
Work == [at : {"start", "list", "found", "status", "set", "ended"},
         job : Listings \cup {None}, for : Listings \cup {None}, status : Statuses]
NewWork == [at |-> "start", job |-> None, for |-> None, status |-> "SUBMITTED"]

WorkTypeOK ==
  /\ jobs \in BOOLEAN /\ astray \in BOOLEAN
  /\ selected \in Listings \cup {None}
  /\ applicants \in [job : Listings \cup {None}, status : Statuses]
  /\ statusRow \in [Listings -> Statuses]
  /\ work \in [Calls -> Work]

WorkInit ==
  /\ jobs = FALSE /\ astray = FALSE
  /\ selected = None
  /\ applicants = [job |-> None, status |-> "SUBMITTED"]
  /\ statusRow = [j \in Listings |-> "SUBMITTED"]
  /\ work = [c \in Calls |-> NewWork]

WorkEnds(c) == work' = [work EXCEPT ![c] = [NewWork EXCEPT !.at = "ended"]]

ListLoading(c) == work[c].at \in {"list", "found"}
OtherLoading(c) == \E d \in Calls \ {c} : ListLoading(d)

-----------------------------------------------------------------------------
(* loadJobs; if it fails the page stays empty until it is reloaded.        *)
JobsArrive ==
  /\ ~jobs
  /\ jobs' = TRUE
  /\ UNCHANGED <<selected, applicants, astray, statusRow, work>>

OpenApplicants(c, job) ==
  /\ selected' = job
  /\ astray' = OtherLoading(c)
  /\ work' = [work EXCEPT ![c] = [NewWork EXCEPT !.at = "list", !.job = job]]
  /\ UNCHANGED <<jobs, applicants, statusRow>>

ManageApplicants(c) ==
  /\ work[c].at = "start"
  /\ jobs
  /\ \E j \in Listings : OpenApplicants(c, j)

FindByJob(c) ==
  /\ work[c].at = "list"
  /\ work' = [work EXCEPT ![c].at = "found", ![c].status = statusRow[work[c].job]]
  /\ UNCHANGED <<workView, statusRow>>

ApplicantsArrive(c) ==
  /\ work[c].at = "found"
  /\ applicants' = [job |-> work[c].job, status |-> work[c].status]
  /\ WorkEnds(c)
  /\ UNCHANGED <<jobs, selected, astray, statusRow>>

(* The heading is that of the new job, the list that of the old one.       *)
ApplicantsFail(c) ==
  /\ work[c].at \in {"list", "found"}
  /\ astray' = TRUE
  /\ WorkEnds(c)
  /\ UNCHANGED <<jobs, selected, applicants, statusRow>>

-----------------------------------------------------------------------------
ChangeStatus(c) ==
  /\ work[c].at = "start"
  /\ selected # None /\ applicants.job # None
  /\ \E s \in Statuses \ {applicants.status} :
       work' = [work EXCEPT ![c] = [at |-> "status", job |-> applicants.job,
                                    for |-> selected, status |-> s]]
  /\ UNCHANGED <<workView, statusRow>>

UpdateStatusOf(c) ==
  /\ work[c].at = "status"
  /\ statusRow' = [statusRow EXCEPT ![work[c].job] = work[c].status]
  /\ work' = [work EXCEPT ![c].at = "set"]
  /\ UNCHANGED workView

(* A mutant: the list is loaded again, but the heading stays.              *)
ReloadApplicants(c) ==
  /\ work[c].at = "set"
  /\ astray' = OtherLoading(c)
  /\ work' = [work EXCEPT ![c] = [NewWork EXCEPT !.at = "list", !.job = work[c].for]]
  /\ UNCHANGED <<jobs, selected, applicants, statusRow>>

(* The heading goes back to the job at which the change was made.          *)
StatusChanged(c) ==
  /\ work[c].at = "set"
  /\ OpenApplicants(c, work[c].for)

(* Refused or unanswered: the list stays as it is.                         *)
StatusFails(c) ==
  /\ work[c].at \in {"status", "set"}
  /\ WorkEnds(c)
  /\ UNCHANGED <<workView, statusRow>>

WorkCall(c) == ManageApplicants(c) \/ ChangeStatus(c)

WorkStep(c) ==
  \/ FindByJob(c) \/ ApplicantsArrive(c) \/ ApplicantsFail(c)
  \/ UpdateStatusOf(c) \/ StatusChanged(c) \/ StatusFails(c)

WorkAct == JobsArrive

WorkNext == (\E c \in Calls : WorkCall(c) \/ WorkStep(c)) \/ WorkAct

WorkSpec == WorkInit /\ [][WorkNext]_workVars

-----------------------------------------------------------------------------
(* Properties *)

(* When no list is being loaded, the applicants under a heading are those  *)
(* of the job in it; unless lists were loaded at once, whose answers may   *)
(* come in any order, or the last of them was not loaded.                  *)
ListMatchesHeading ==
  selected # None /\ ~astray /\ (\A c \in Calls : ~ListLoading(c)) => applicants.job = selected
=============================================================================
