---------------------------- MODULE HiringPipeline ----------------------------
(***************************************************************************)
(* How the applications for a job are screened.                            *)
(*                                                                         *)
(* ApplicationsService stores an application and queues its screening;     *)
(* ScreeningProcessor asks a language model for a score, stores it, writes *)
(* a verdict over the status of the application and, for a high score,     *)
(* queues an interview.  Meanwhile the employer may set any status and the *)
(* applicant may withdraw.                                                 *)
(*                                                                         *)
(* Requests and jobs interleave at every await.  A job that fails is run   *)
(* again from its start, on a database that keeps what it wrote.           *)
(***************************************************************************)
EXTENDS Integers

CONSTANTS
  Applicants,   (* users who may apply for the job: one application each     *)
  Answers,      (* overall scores the language model may return              *)
  Attempts,     (* Bull attempts of a job                                    *)
  None          (* no answer, no score                                       *)

ASSUME HiringAssumption ==
  /\ Answers \subseteq Int \cup {None}
  /\ None \notin Int
  /\ Attempts \in Nat \ {0}

VARIABLES
  published,   (* the job still takes applications                           *)
  submitting,  (* applicants with calls of submit past the checks            *)
  status,      (* Application.status, "NONE": no row                         *)
  touched,     (* applications whose status a person has set                 *)
  withdrawing, (* applicants with calls of withdraw past the check           *)
  screen,      (* the screening job of an application                        *)
  score,       (* CandidateScore.overallScore, None: no row                  *)
  noted,       (* applications with the note that screening failed           *)
  interview    (* interview jobs, by the attempt of screening that queued it *)

people == <<published, submitting, touched, withdrawing>>
vars == <<people, status, screen, score, noted, interview>>

Statuses == {"SUBMITTED", "SCREENING", "SHORTLISTED", "INTERVIEW_SCHEDULED",
             "OFFERED", "REJECTED", "WITHDRAWN"}
Scores == 0..100
Running == {"waiting", "scoring", "storing", "stored", "decided", "finishing"}
Screening == [at : {"none", "adding", "lost", "failing", "failed", "done"} \cup Running,
              attempt : 1..Attempts, score : Scores]
Interview == [at : {"none", "waiting", "scheduled", "failed", "done"},
              attempt : 1..Attempts]

TypeOK ==
  /\ published \in BOOLEAN
  /\ submitting \subseteq Applicants
  /\ status \in [Applicants -> {"NONE"} \cup Statuses]
  /\ touched \subseteq Applicants
  /\ withdrawing \subseteq Applicants
  /\ screen \in [Applicants -> Screening]
  /\ score \in [Applicants -> Scores \cup {None}]
  /\ noted \subseteq Applicants
  /\ interview \in [Applicants -> [1..Attempts -> Interview]]

Init ==
  /\ published = TRUE
  /\ submitting = {}
  /\ status = [a \in Applicants |-> "NONE"]
  /\ touched = {} /\ withdrawing = {}
  /\ screen = [a \in Applicants |-> [at |-> "none", attempt |-> 1, score |-> 0]]
  /\ score = [a \in Applicants |-> None]
  /\ noted = {}
  /\ interview = [a \in Applicants |->
                    [n \in 1..Attempts |-> [at |-> "none", attempt |-> 1]]]

-----------------------------------------------------------------------------
(* ApplicationsService *)

(* JobsService: the employer archives the job, or edits its status.        *)
UpdateJob ==
  /\ published' = ~published
  /\ UNCHANGED <<submitting, touched, withdrawing, status, screen, score, noted,
                 interview>>

SubmitCheck(a) ==
  /\ published
  /\ status[a] = "NONE"
  /\ submitting' = submitting \cup {a}
  /\ UNCHANGED <<published, touched, withdrawing, status, screen, score, noted,
                 interview>>

(* The unique key (jobId, userId) lets only one of an applicant's calls    *)
(* through, even if the job was archived meanwhile.                               *)
SubmitCreate(a) ==
  /\ a \in submitting
  /\ status[a] = "NONE"
  /\ status' = [status EXCEPT ![a] = "SUBMITTED"]
  /\ screen' = [screen EXCEPT ![a].at = "adding"]
  /\ UNCHANGED <<people, score, noted, interview>>

(* The job is added without waiting; an error of Redis is only logged.     *)
AddScreening(a) ==
  /\ screen[a].at = "adding"
  /\ \E place \in {"waiting", "lost"} : screen' = [screen EXCEPT ![a].at = place]
  /\ UNCHANGED <<people, status, score, noted, interview>>

(* The employer sets any status, whatever the present one.                 *)
UpdateStatus(a, new) ==
  /\ status[a] # "NONE"
  /\ status' = [status EXCEPT ![a] = new]
  /\ touched' = touched \cup {a}
  /\ UNCHANGED <<published, submitting, withdrawing, screen, score, noted, interview>>

Withdrawable == {"SUBMITTED", "SCREENING", "SHORTLISTED"}

WithdrawCheck(a) ==
  /\ status[a] \in Withdrawable
  /\ withdrawing' = withdrawing \cup {a}
  /\ UNCHANGED <<published, submitting, touched, status, screen, score, noted,
                 interview>>

(* Any number of calls may have passed the check, and write late or never. *)
WithdrawWrite(a) ==
  /\ a \in withdrawing
  /\ status' = [status EXCEPT ![a] = "WITHDRAWN"]
  /\ touched' = touched \cup {a}
  /\ UNCHANGED <<published, submitting, withdrawing, screen, score, noted, interview>>

-----------------------------------------------------------------------------
(* ScreeningProcessor.handleScreenCandidate *)

(* A mutant: the answer is stored as it comes.                             *)
ScoreUnclamped(answer) == IF answer = None THEN 50 ELSE answer

(* runAiScoring: an answer is clamped, a missing one is neutral.           *)
ScoreOf(answer) ==
  IF answer = None THEN 50
  ELSE IF answer < 0 THEN 0
  ELSE IF answer > 100 THEN 100 ELSE answer

(* A mutant: the threshold itself is rejected.                             *)
VerdictStrict(s) ==
  IF s <= 30 THEN "REJECTED" ELSE IF s >= 75 THEN "SHORTLISTED" ELSE "SCREENING"

(* Below 30 rejected, from 75 shortlisted, in between left to the employer.*)
Verdict(s) ==
  IF s < 30 THEN "REJECTED" ELSE IF s >= 75 THEN "SHORTLISTED" ELSE "SCREENING"

Goto(a, place) == screen' = [screen EXCEPT ![a].at = place]

StartScreening(a) ==
  /\ screen[a].at = "waiting"
  /\ status' = [status EXCEPT ![a] = "SCREENING"]
  /\ Goto(a, "scoring")
  /\ UNCHANGED <<people, score, noted, interview>>

AskForScore(a) ==
  /\ screen[a].at = "scoring"
  /\ \E answer \in Answers :
       screen' = [screen EXCEPT ![a].at = "storing", ![a].score = ScoreOf(answer)]
  /\ UNCHANGED <<people, status, score, noted, interview>>

(* A mutant: an existing score is replaced.                                *)
StoreScoreOver(a) ==
  /\ screen[a].at = "storing"
  /\ score' = [score EXCEPT ![a] = screen[a].score]
  /\ Goto(a, "stored")
  /\ UNCHANGED <<people, status, noted, interview>>

(* The score is inserted; its application is a unique key.                 *)
StoreScore(a) ==
  /\ screen[a].at = "storing"
  /\ score[a] = None
  /\ score' = [score EXCEPT ![a] = screen[a].score]
  /\ Goto(a, "stored")
  /\ UNCHANGED <<people, status, noted, interview>>

WriteVerdict(a) ==
  /\ screen[a].at = "stored"
  /\ status' = [status EXCEPT ![a] = Verdict(screen[a].score)]
  /\ Goto(a, "decided")
  /\ UNCHANGED <<people, score, noted, interview>>

QueueInterview(a) ==
  /\ screen[a].at = "decided"
  /\ screen[a].score >= 90
  /\ interview' = [interview EXCEPT ![a][screen[a].attempt].at = "waiting"]
  /\ Goto(a, "finishing")
  /\ UNCHANGED <<people, status, score, noted>>

(* What is left are notifications and analytics.                           *)
FinishScreening(a) ==
  /\ \/ screen[a].at = "finishing"
     \/ screen[a].at = "decided" /\ screen[a].score < 90
  /\ Goto(a, "done")
  /\ UNCHANGED <<people, status, score, noted, interview>>

(* A mutant: attempts are not counted.                                     *)
RetryForever(a) == Goto(a, "waiting")

(* Bull runs a job again from its start, or gives it up.                   *)
Retry(a) ==
  screen' = IF screen[a].attempt < Attempts
            THEN [screen EXCEPT ![a].at = "waiting", ![a].attempt = @ + 1]
            ELSE [screen EXCEPT ![a].at = "failing"]

(* The unique key refuses a second score.                                  *)
ScoreExists(a) ==
  /\ screen[a].at = "storing"
  /\ score[a] # None
  /\ Retry(a)
  /\ UNCHANGED <<people, status, score, noted, interview>>

(* A database or Redis error, an unusable answer or a crash, anywhere.     *)
ScreeningFault(a) ==
  /\ screen[a].at \in Running
  /\ Retry(a)
  /\ UNCHANGED <<people, status, score, noted, interview>>

(* onFailed, after the last attempt: the note may fail to be written.      *)
OnFailed(a) ==
  /\ screen[a].at = "failing"
  /\ noted' \in {noted, noted \cup {a}}
  /\ Goto(a, "failed")
  /\ UNCHANGED <<people, status, score, interview>>

-----------------------------------------------------------------------------
(* ScreeningProcessor.handleScheduleInterview *)

ScheduleInterview(a, n) ==
  /\ interview[a][n].at = "waiting"
  /\ status' = [status EXCEPT ![a] = "INTERVIEW_SCHEDULED"]
  /\ interview' = [interview EXCEPT ![a][n].at = "scheduled"]
  /\ UNCHANGED <<people, screen, score, noted>>

FinishInterview(a, n) ==
  /\ interview[a][n].at = "scheduled"
  /\ interview' = [interview EXCEPT ![a][n].at = "done"]
  /\ UNCHANGED <<people, status, screen, score, noted>>

InterviewFault(a, n) ==
  /\ interview[a][n].at \in {"waiting", "scheduled"}
  /\ interview' = IF interview[a][n].attempt < Attempts
       THEN [interview EXCEPT ![a][n].at = "waiting", ![a][n].attempt = @ + 1]
       ELSE [interview EXCEPT ![a][n].at = "failed"]
  /\ UNCHANGED <<people, status, screen, score, noted>>

-----------------------------------------------------------------------------
Screen(a) ==
  \/ StartScreening(a) \/ AskForScore(a) \/ StoreScore(a) \/ ScoreExists(a)
  \/ WriteVerdict(a) \/ QueueInterview(a) \/ FinishScreening(a) \/ OnFailed(a)

Schedule(a, n) == ScheduleInterview(a, n) \/ FinishInterview(a, n)

Next ==
  \/ UpdateJob
  \/ \E a \in Applicants :
       \/ SubmitCheck(a) \/ SubmitCreate(a) \/ AddScreening(a)
       \/ \E new \in Statuses : UpdateStatus(a, new)
       \/ WithdrawCheck(a) \/ WithdrawWrite(a)
       \/ Screen(a) \/ ScreeningFault(a)
       \/ \E n \in 1..Attempts : Schedule(a, n) \/ InterviewFault(a, n)

Spec == Init /\ [][Next]_vars

(* Bull keeps running what is queued.  Nobody has to apply, and a call of  *)
(* submit may die before its job is added.                                 *)
FairSpec ==
  /\ Spec
  /\ \A a \in Applicants :
       WF_vars(Screen(a)) /\ \A n \in 1..Attempts : WF_vars(Schedule(a, n))

-----------------------------------------------------------------------------
(* Properties *)

(* As long as no person set the status of an application, a rejection, a   *)
(* shortlisting and an interview were earned by the score on record, and a *)
(* screening that completed has led to what the score earns.               *)
Earned(a) ==
  /\ status[a] = "REJECTED" => score[a] \in 0..29
  /\ status[a] = "SHORTLISTED" => score[a] \in 75..100
  /\ status[a] = "INTERVIEW_SCHEDULED" => score[a] \in 90..100
VerdictIsEarned ==
  \A a \in Applicants \ touched :
    /\ Earned(a)
    /\ screen[a].at = "done" =>
         \/ score[a] \in 0..29 /\ status[a] = "REJECTED"
         \/ score[a] \in 30..74 /\ status[a] = "SCREENING"
         \/ score[a] \in 75..100 /\ status[a] \in {"SHORTLISTED", "INTERVIEW_SCHEDULED"}

(* Jobs do not circulate for ever: each one that is queued completes or is *)
(* given up, although a screening that is run again after it stored its    *)
(* score fails every time.                                                 *)
JobsEnd ==
  \A a \in Applicants :
    /\ screen[a].at = "waiting" ~> screen[a].at \in {"done", "failed"}
    /\ \A n \in 1..Attempts :
         interview[a][n].at = "waiting" ~> interview[a][n].at \in {"done", "failed"}

(* Applicants are scored and invited as CandidateScreening promises: once, *)
(* however often the screening job fails and runs again.                   *)
Invited(a) == {n \in 1..Attempts : interview[a][n].at # "none"}
Once == INSTANCE CandidateScreening WITH
  Invitations <- 1..Attempts,
  invited <- [a \in Applicants |-> Invited(a)]
ScreenedOnce == Once!Spec

-----------------------------------------------------------------------------
(* The inductive invariants the theorems of HiringPipelineProofs rest on   *)

(* Invitations follow a score, and an attempt that stored the score and    *)
(* may still invite is the first one to do so.                             *)
InvitationsInv ==
  \A a \in Applicants :
    /\ screen[a].at \in {"stored", "decided"} =>
         score[a] = screen[a].score /\ Invited(a) = {}
    /\ screen[a].at \in {"finishing", "done"} => score[a] = screen[a].score
    /\ Invited(a) # {} => score[a] \in 90..100

(* Once an attempt wrote its verdict, only its interview may replace it.   *)
Standing(a) ==
  /\ Earned(a)
  /\ screen[a].at \in {"decided", "finishing", "done"} =>
       \/ status[a] = Verdict(screen[a].score)
       \/ status[a] = "INTERVIEW_SCHEDULED" /\ Invited(a) # {}
StatusInv == \A a \in Applicants \ touched : Standing(a)
=============================================================================
