------------------------- MODULE HiringPipelineProofs -------------------------
(* Theorems about HiringPipeline, for any number of applicants, any answers*)
(* of the language model and any number of attempts.                       *)
EXTENDS HiringPipeline, TLAPS

(***************************************************************************)
(* Type correctness                                                        *)
(***************************************************************************)

(* Whatever the language model answers, the score lies in 0..100.          *)
LEMMA ScoreOfType == \A answer \in Answers : ScoreOf(answer) \in Scores
  BY HiringAssumption DEF ScoreOf, Scores

(* Assigning fields of a job keeps the job well typed.                     *)
LEMMA JobUpdates ==
  /\ \A x \in Screening, p \in {"adding", "lost", "failing", "failed", "done"} \cup Running :
       [x EXCEPT !.at = p] \in Screening
  /\ \A x \in Screening, p \in Running, n \in 1..Attempts :
       [x EXCEPT !.at = p, !.attempt = n] \in Screening
  /\ \A x \in Screening, p \in Running, s \in Scores :
       [x EXCEPT !.at = p, !.score = s] \in Screening
  /\ \A x \in Interview, p \in {"waiting", "scheduled", "failed", "done"} :
       [x EXCEPT !.at = p] \in Interview
  /\ \A x \in Interview, n \in 1..Attempts :
       [x EXCEPT !.at = "waiting", !.attempt = n] \in Interview
  BY DEF Screening, Interview

LEMMA InitType == Init => TypeOK
  <1> SUFFICES ASSUME Init PROVE TypeOK
    OBVIOUS
  <1>1. 1 \in 1..Attempts
    BY HiringAssumption
  <1>2. [at |-> "none", attempt |-> 1, score |-> 0] \in Screening
    BY <1>1 DEF Screening, Scores
  <1>3. [at |-> "none", attempt |-> 1] \in Interview
    BY <1>1 DEF Interview
  <1> QED BY <1>2, <1>3 DEF Init, TypeOK

(* A screening job that moves on, or is run again, is well typed.          *)
LEMMA GotoType ==
  ASSUME TypeOK, NEW a \in Applicants,
         NEW p \in {"adding", "lost", "failing", "failed", "done"} \cup Running,
         Goto(a, p)
  PROVE  screen' \in [Applicants -> Screening]
  <1>1. [screen[a] EXCEPT !.at = p] \in Screening
    BY JobUpdates DEF TypeOK
  <1> QED BY <1>1 DEF TypeOK, Goto

LEMMA RetryType ==
  ASSUME TypeOK, NEW a \in Applicants, Retry(a)
  PROVE  screen' \in [Applicants -> Screening]
  <1>1. CASE screen[a].attempt < Attempts
    <2>1. screen[a].attempt + 1 \in 1..Attempts
      BY <1>1, HiringAssumption DEF TypeOK, Screening
    <2>2. [screen[a] EXCEPT !.at = "waiting", !.attempt = screen[a].attempt + 1]
            \in Screening
      BY <2>1, JobUpdates DEF TypeOK, Running
    <2> QED BY <1>1, <2>2 DEF TypeOK, Retry
  <1>2. CASE ~(screen[a].attempt < Attempts)
    <2>1. [screen[a] EXCEPT !.at = "failing"] \in Screening
      BY JobUpdates DEF TypeOK
    <2> QED BY <1>2, <2>1 DEF TypeOK, Retry
  <1> QED BY <1>1, <1>2

(* Changing one interview job keeps the table of them well typed.          *)
LEMMA InterviewType ==
  ASSUME TypeOK, NEW a \in Applicants, NEW n \in 1..Attempts, NEW x \in Interview,
         interview' = [interview EXCEPT ![a][n] = x]
  PROVE  interview' \in [Applicants -> [1..Attempts -> Interview]]
  BY DEF TypeOK

LEMMA NextType == TypeOK /\ [Next]_vars => TypeOK'
  <1> SUFFICES ASSUME TypeOK, [Next]_vars PROVE TypeOK'
    OBVIOUS
  <1>1. ASSUME UpdateJob PROVE TypeOK'
    BY <1>1 DEF TypeOK, UpdateJob
  <1>2. ASSUME NEW a \in Applicants, SubmitCheck(a) PROVE TypeOK'
    BY <1>2 DEF TypeOK, SubmitCheck
  <1>3. ASSUME NEW a \in Applicants, SubmitCreate(a) PROVE TypeOK'
    <2>1. screen' \in [Applicants -> Screening]
      BY <1>3, GotoType DEF SubmitCreate, Goto
    <2> QED BY <1>3, <2>1 DEF TypeOK, SubmitCreate, people, Statuses
  <1>4. ASSUME NEW a \in Applicants, AddScreening(a) PROVE TypeOK'
    <2>1. screen' \in [Applicants -> Screening]
      BY <1>4, GotoType DEF AddScreening, Goto, Running
    <2> QED BY <1>4, <2>1 DEF TypeOK, AddScreening, people
  <1>5. ASSUME NEW a \in Applicants, NEW new \in Statuses, UpdateStatus(a, new)
        PROVE TypeOK'
    BY <1>5 DEF TypeOK, UpdateStatus
  <1>6. ASSUME NEW a \in Applicants, WithdrawCheck(a) PROVE TypeOK'
    BY <1>6 DEF TypeOK, WithdrawCheck
  <1>7. ASSUME NEW a \in Applicants, WithdrawWrite(a) PROVE TypeOK'
    BY <1>7 DEF TypeOK, WithdrawWrite, Statuses
  <1>8. ASSUME NEW a \in Applicants, StartScreening(a) PROVE TypeOK'
    <2>1. screen' \in [Applicants -> Screening]
      BY <1>8, GotoType DEF StartScreening, Running
    <2> QED BY <1>8, <2>1 DEF TypeOK, StartScreening, people, Statuses
  <1>9. ASSUME NEW a \in Applicants, AskForScore(a) PROVE TypeOK'
    <2>1. PICK answer \in Answers :
            screen' = [screen EXCEPT ![a].at = "storing", ![a].score = ScoreOf(answer)]
      BY <1>9 DEF AskForScore
    <2>2. [screen[a] EXCEPT !.at = "storing", !.score = ScoreOf(answer)] \in Screening
      BY JobUpdates, ScoreOfType DEF TypeOK, Running
    <2>3. screen' \in [Applicants -> Screening]
      BY <2>1, <2>2 DEF TypeOK
    <2> QED BY <1>9, <2>3 DEF TypeOK, AskForScore, people
  <1>10. ASSUME NEW a \in Applicants, StoreScore(a) PROVE TypeOK'
    <2>1. screen' \in [Applicants -> Screening]
      BY <1>10, GotoType DEF StoreScore, Running
    <2>2. screen[a].score \in Scores
      BY DEF TypeOK, Screening
    <2> QED BY <1>10, <2>1, <2>2 DEF TypeOK, StoreScore, people
  <1>11. ASSUME NEW a \in Applicants, WriteVerdict(a) PROVE TypeOK'
    <2>1. screen' \in [Applicants -> Screening]
      BY <1>11, GotoType DEF WriteVerdict, Running
    <2>2. Verdict(screen[a].score) \in Statuses
      BY DEF Verdict, Statuses
    <2> QED BY <1>11, <2>1, <2>2 DEF TypeOK, WriteVerdict, people
  <1>12. ASSUME NEW a \in Applicants, QueueInterview(a) PROVE TypeOK'
    <2> DEFINE n == screen[a].attempt
    <2>1. screen' \in [Applicants -> Screening]
      BY <1>12, GotoType DEF QueueInterview, Running
    <2>2. n \in 1..Attempts
      BY DEF TypeOK, Screening
    <2>3. [interview[a][n] EXCEPT !.at = "waiting"] \in Interview
      BY <2>2, JobUpdates DEF TypeOK
    <2>4. interview' \in [Applicants -> [1..Attempts -> Interview]]
      BY <1>12, <2>2, <2>3 DEF TypeOK, QueueInterview
    <2> QED BY <1>12, <2>1, <2>4 DEF TypeOK, QueueInterview, people
  <1>13. ASSUME NEW a \in Applicants, FinishScreening(a) PROVE TypeOK'
    <2>1. screen' \in [Applicants -> Screening]
      BY <1>13, GotoType DEF FinishScreening
    <2> QED BY <1>13, <2>1 DEF TypeOK, FinishScreening, people
  <1>14. ASSUME NEW a \in Applicants, ScoreExists(a) \/ ScreeningFault(a) PROVE TypeOK'
    <2>1. screen' \in [Applicants -> Screening]
      BY <1>14, RetryType DEF ScoreExists, ScreeningFault
    <2> QED BY <1>14, <2>1 DEF TypeOK, ScoreExists, ScreeningFault, people
  <1>15. ASSUME NEW a \in Applicants, OnFailed(a) PROVE TypeOK'
    <2>1. screen' \in [Applicants -> Screening]
      BY <1>15, GotoType DEF OnFailed
    <2> QED BY <1>15, <2>1 DEF TypeOK, OnFailed, people
  <1>16. ASSUME NEW a \in Applicants, NEW n \in 1..Attempts, ScheduleInterview(a, n)
         PROVE TypeOK'
    <2>1. [interview[a][n] EXCEPT !.at = "scheduled"] \in Interview
      BY JobUpdates DEF TypeOK
    <2>2. interview' = [interview EXCEPT ![a][n] = [interview[a][n] EXCEPT !.at = "scheduled"]]
      BY <1>16 DEF ScheduleInterview
    <2>3. interview' \in [Applicants -> [1..Attempts -> Interview]]
      BY <2>1, <2>2, InterviewType
    <2> QED BY <1>16, <2>3 DEF TypeOK, ScheduleInterview, people, Statuses
  <1>17. ASSUME NEW a \in Applicants, NEW n \in 1..Attempts, FinishInterview(a, n)
         PROVE TypeOK'
    <2>1. [interview[a][n] EXCEPT !.at = "done"] \in Interview
      BY JobUpdates DEF TypeOK
    <2>2. interview' = [interview EXCEPT ![a][n] = [interview[a][n] EXCEPT !.at = "done"]]
      BY <1>17 DEF FinishInterview
    <2>3. interview' \in [Applicants -> [1..Attempts -> Interview]]
      BY <2>1, <2>2, InterviewType
    <2> QED BY <1>17, <2>3 DEF TypeOK, FinishInterview, people
  <1>18. ASSUME NEW a \in Applicants, NEW n \in 1..Attempts, InterviewFault(a, n)
         PROVE TypeOK'
    <2> DEFINE x == interview[a][n]
               again == [x EXCEPT !.at = "waiting", !.attempt = x.attempt + 1]
               given == [x EXCEPT !.at = "failed"]
    <2>0. x \in Interview
      BY DEF TypeOK
    <2>1. ASSUME x.attempt < Attempts
          PROVE  interview' \in [Applicants -> [1..Attempts -> Interview]]
      <3>1. x.attempt \in 1..Attempts
        BY <2>0 DEF Interview
      <3>2. x.attempt + 1 \in 1..Attempts
        BY <2>1, <3>1, HiringAssumption
      <3>3. again \in Interview
        BY <2>0, <3>2, JobUpdates
      <3>4. interview' = [interview EXCEPT ![a][n] = again]
        BY <1>18, <2>1 DEF InterviewFault
      <3> HIDE DEF again
      <3> QED BY <3>3, <3>4, InterviewType
    <2>2. ASSUME ~(x.attempt < Attempts)
          PROVE  interview' \in [Applicants -> [1..Attempts -> Interview]]
      <3>1. given \in Interview
        BY <2>0, JobUpdates
      <3>2. interview' = [interview EXCEPT ![a][n] = given]
        BY <1>18, <2>2 DEF InterviewFault
      <3> HIDE DEF given
      <3> QED BY <3>1, <3>2, InterviewType
    <2>3. interview' \in [Applicants -> [1..Attempts -> Interview]]
      BY <2>1, <2>2
    <2> QED BY <1>18, <2>3 DEF TypeOK, InterviewFault, people
  <1>19. ASSUME UNCHANGED vars PROVE TypeOK'
    BY <1>19 DEF TypeOK, vars, people
  <1> QED
    BY <1>1, <1>2, <1>3, <1>4, <1>5, <1>6, <1>7, <1>8, <1>9, <1>10, <1>11, <1>12,
       <1>13, <1>14, <1>15, <1>16, <1>17, <1>18, <1>19
    DEF Next, Screen, Schedule

(* The variables of HiringPipeline keep their types.                       *)
THEOREM TypeCorrect == Spec => []TypeOK
  BY InitType, NextType, PTL DEF Spec

(***************************************************************************)
(* One score, one invitation                                               *)
(***************************************************************************)

LEMMA InitInvitations == Init => InvitationsInv
  <1> SUFFICES ASSUME Init, NEW a \in Applicants
               PROVE  Invited(a) = {} /\ screen[a].at = "none"
    BY DEF InvitationsInv
  <1>1. screen[a] = [at |-> "none", attempt |-> 1, score |-> 0]
    BY DEF Init
  <1>2. \A n \in 1..Attempts : interview[a][n] = [at |-> "none", attempt |-> 1]
    BY DEF Init
  <1> QED BY <1>1, <1>2 DEF Invited

(* Where a step of the screening job of one applicant leads.               *)
LEMMA GotoIs ==
  ASSUME TypeOK, NEW a \in Applicants, NEW p, Goto(a, p)
  PROVE  /\ screen'[a].at = p
         /\ screen'[a].score = screen[a].score
         /\ \A b \in Applicants \ {a} : screen'[b] = screen[b]
  BY DEF TypeOK, Screening, Goto

LEMMA RetryIs ==
  ASSUME TypeOK, NEW a \in Applicants, Retry(a)
  PROVE  /\ screen'[a].at \in {"waiting", "failing"}
         /\ \A b \in Applicants \ {a} : screen'[b] = screen[b]
  BY DEF TypeOK, Screening, Retry

(* A step that leaves scores and interviews alone keeps InvitationsInv if  *)
(* the job it moves is not past the score, or was there with it.           *)
LEMMA JobStepKeepsInvitations ==
  ASSUME TypeOK, InvitationsInv, UNCHANGED <<score, interview>>,
         NEW a \in Applicants,
         \A b \in Applicants \ {a} : screen'[b] = screen[b],
         \/ screen'[a].at \notin {"stored", "decided", "finishing", "done"}
         \/ /\ screen[a].at \in {"stored", "decided"}
            /\ screen'[a].score = screen[a].score
         \/ /\ screen[a].at \in {"finishing", "done"}
            /\ screen'[a].at \in {"finishing", "done"}
            /\ screen'[a].score = screen[a].score
  PROVE  InvitationsInv'
  <1>1. \A b \in Applicants : Invited(b)' = Invited(b)
    BY DEF Invited
  <1> QED BY <1>1 DEF InvitationsInv

(* Replacing an interview job that exists does not change who is invited.  *)
LEMMA SameInvitations ==
  ASSUME TypeOK, NEW a \in Applicants, NEW n \in 1..Attempts, NEW x \in Interview,
         interview[a][n].at # "none", x.at # "none",
         interview' = [interview EXCEPT ![a][n] = x]
  PROVE  /\ \A b \in Applicants : Invited(b)' = Invited(b)
         /\ n \in Invited(a)
  <1>1. interview'[a][n] = x
    BY DEF TypeOK
  <1>2. \A b \in Applicants, m \in 1..Attempts :
          b # a \/ m # n => interview'[b][m] = interview[b][m]
    BY DEF TypeOK
  <1> QED BY <1>1, <1>2 DEF Invited

(* A step of an interview job changes neither who is invited nor anything  *)
(* else InvitationsInv is about.                                           *)
LEMMA InterviewStep ==
  ASSUME TypeOK, NEW a \in Applicants, NEW n \in 1..Attempts,
         Schedule(a, n) \/ InterviewFault(a, n)
  PROVE  /\ \A b \in Applicants : Invited(b)' = Invited(b)
         /\ n \in Invited(a)
         /\ UNCHANGED <<screen, score>>
  <1> DEFINE x == interview[a][n]
             moved(p) == [x EXCEPT !.at = p]
             again == [x EXCEPT !.at = "waiting", !.attempt = x.attempt + 1]
  <1>1. x \in Interview
    BY DEF TypeOK
  <1>2. UNCHANGED <<screen, score>> /\ x.at # "none"
    BY DEF Schedule, ScheduleInterview, FinishInterview, InterviewFault
  <1>3. \A p \in {"scheduled", "failed", "done"} :
          moved(p) \in Interview /\ moved(p).at = p
    BY <1>1 DEF Interview
  <1>4. ASSUME NEW p \in {"scheduled", "failed", "done"},
               interview' = [interview EXCEPT ![a][n] = moved(p)]
        PROVE  (\A b \in Applicants : Invited(b)' = Invited(b)) /\ n \in Invited(a)
    <2>1. moved(p) \in Interview /\ moved(p).at # "none"
      BY <1>3
    <2> HIDE DEF moved
    <2> QED BY <1>2, <1>4, <2>1, SameInvitations
  <1>5. ASSUME interview' = [interview EXCEPT ![a][n] = again], x.attempt < Attempts
        PROVE  (\A b \in Applicants : Invited(b)' = Invited(b)) /\ n \in Invited(a)
    <2>1. x.attempt + 1 \in 1..Attempts
      BY <1>1, <1>5, HiringAssumption DEF Interview
    <2>2. again \in Interview /\ again.at = "waiting"
      BY <1>1, <2>1 DEF Interview
    <2> HIDE DEF again
    <2> QED BY <1>2, <1>5, <2>2, SameInvitations
  <1>6. CASE ScheduleInterview(a, n)
    <2>1. interview' = [interview EXCEPT ![a][n] = moved("scheduled")]
      BY <1>6 DEF ScheduleInterview
    <2> HIDE DEF moved
    <2> QED BY <1>2, <1>4, <2>1
  <1>7. CASE FinishInterview(a, n)
    <2>1. interview' = [interview EXCEPT ![a][n] = moved("done")]
      BY <1>7 DEF FinishInterview
    <2> HIDE DEF moved
    <2> QED BY <1>2, <1>4, <2>1
  <1>8. CASE InterviewFault(a, n) /\ x.attempt < Attempts
    <2>1. interview' = [interview EXCEPT ![a][n] = again]
      BY <1>8 DEF InterviewFault
    <2> HIDE DEF again
    <2> QED BY <1>2, <1>5, <1>8, <2>1
  <1>9. CASE InterviewFault(a, n) /\ ~(x.attempt < Attempts)
    <2>1. interview' = [interview EXCEPT ![a][n] = moved("failed")]
      BY <1>9 DEF InterviewFault
    <2> HIDE DEF moved
    <2> QED BY <1>2, <1>4, <2>1
  <1> QED BY <1>6, <1>7, <1>8, <1>9 DEF Schedule

LEMMA NextInvitations == TypeOK /\ InvitationsInv /\ [Next]_vars => InvitationsInv'
  <1> SUFFICES ASSUME TypeOK, InvitationsInv, [Next]_vars PROVE InvitationsInv'
    OBVIOUS
  <1>1. ASSUME UNCHANGED <<screen, score, interview>> PROVE InvitationsInv'
    BY <1>1 DEF InvitationsInv, Invited
  <1>2. ASSUME NEW a \in Applicants, SubmitCreate(a) PROVE InvitationsInv'
    <2>1. Goto(a, "adding") /\ UNCHANGED <<score, interview>>
      BY <1>2 DEF SubmitCreate, Goto
    <2> QED BY <2>1, GotoIs, JobStepKeepsInvitations
  <1>3. ASSUME NEW a \in Applicants, AddScreening(a) PROVE InvitationsInv'
    <2>1. PICK place \in {"waiting", "lost"} : Goto(a, place)
      BY <1>3 DEF AddScreening, Goto
    <2>2. UNCHANGED <<score, interview>>
      BY <1>3 DEF AddScreening
    <2> QED BY <2>1, <2>2, GotoIs, JobStepKeepsInvitations
  <1>4. ASSUME NEW a \in Applicants, StartScreening(a) PROVE InvitationsInv'
    <2>1. Goto(a, "scoring") /\ UNCHANGED <<score, interview>>
      BY <1>4 DEF StartScreening
    <2> QED BY <2>1, GotoIs, JobStepKeepsInvitations
  <1>5. ASSUME NEW a \in Applicants, AskForScore(a) PROVE InvitationsInv'
    <2>1. /\ screen'[a].at = "storing"
          /\ \A b \in Applicants \ {a} : screen'[b] = screen[b]
          /\ UNCHANGED <<score, interview>>
      BY <1>5 DEF AskForScore, TypeOK, Screening
    <2> QED BY <2>1, JobStepKeepsInvitations
  <1>6. ASSUME NEW a \in Applicants, StoreScore(a) PROVE InvitationsInv'
    <2>1. Goto(a, "stored") /\ score[a] = None /\ UNCHANGED interview
      BY <1>6 DEF StoreScore
    <2>2. /\ score'[a] = screen[a].score
          /\ \A b \in Applicants \ {a} : score'[b] = score[b]
      BY <1>6 DEF StoreScore, TypeOK
    <2>3. Invited(a) = {}
      BY <2>1, HiringAssumption DEF InvitationsInv
    <2>4. \A b \in Applicants : Invited(b)' = Invited(b)
      BY <2>1 DEF Invited
    <2> QED BY <2>1, <2>2, <2>3, <2>4, GotoIs DEF InvitationsInv
  <1>7. ASSUME NEW a \in Applicants, WriteVerdict(a) PROVE InvitationsInv'
    <2>1. screen[a].at = "stored" /\ Goto(a, "decided") /\ UNCHANGED <<score, interview>>
      BY <1>7 DEF WriteVerdict
    <2> QED BY <2>1, GotoIs, JobStepKeepsInvitations
  <1>8. ASSUME NEW a \in Applicants, QueueInterview(a) PROVE InvitationsInv'
    <2>1. /\ screen[a].at = "decided" /\ screen[a].score >= 90
          /\ Goto(a, "finishing") /\ UNCHANGED score
      BY <1>8 DEF QueueInterview
    <2>2. \A b \in Applicants \ {a} : Invited(b)' = Invited(b)
      BY <1>8 DEF QueueInterview, TypeOK, Invited
    <2>3. score[a] = screen[a].score
      BY <2>1 DEF InvitationsInv
    <2>4. screen[a].score \in 0..100
      BY DEF TypeOK, Screening, Scores
    <2>5. score[a] \in 90..100
      BY <2>1, <2>3, <2>4
    <2> QED BY <2>1, <2>2, <2>3, <2>5, GotoIs DEF InvitationsInv
  <1>9. ASSUME NEW a \in Applicants, FinishScreening(a) PROVE InvitationsInv'
    <2>1. /\ screen[a].at \in {"decided", "finishing"}
          /\ Goto(a, "done") /\ UNCHANGED <<score, interview>>
      BY <1>9 DEF FinishScreening
    <2> QED BY <2>1, GotoIs, JobStepKeepsInvitations
  <1>10. ASSUME NEW a \in Applicants, ScoreExists(a) \/ ScreeningFault(a)
         PROVE InvitationsInv'
    <2>1. Retry(a) /\ UNCHANGED <<score, interview>>
      BY <1>10 DEF ScoreExists, ScreeningFault
    <2> QED BY <2>1, RetryIs, JobStepKeepsInvitations
  <1>11. ASSUME NEW a \in Applicants, OnFailed(a) PROVE InvitationsInv'
    <2>1. Goto(a, "failed") /\ UNCHANGED <<score, interview>>
      BY <1>11 DEF OnFailed
    <2> QED BY <2>1, GotoIs, JobStepKeepsInvitations
  <1>12. ASSUME NEW a \in Applicants, NEW n \in 1..Attempts,
                Schedule(a, n) \/ InterviewFault(a, n)
         PROVE InvitationsInv'
    BY <1>12, InterviewStep DEF InvitationsInv
  <1>13. ASSUME UpdateJob PROVE InvitationsInv'
    BY <1>13, <1>1 DEF UpdateJob
  <1>14. ASSUME NEW a \in Applicants,
                \/ SubmitCheck(a) \/ WithdrawCheck(a) \/ WithdrawWrite(a)
                \/ \E new \in Statuses : UpdateStatus(a, new)
         PROVE InvitationsInv'
    BY <1>14, <1>1 DEF SubmitCheck, WithdrawCheck, WithdrawWrite, UpdateStatus
  <1>15. ASSUME UNCHANGED vars PROVE InvitationsInv'
    BY <1>15, <1>1 DEF vars
  <1> QED
    BY <1>2, <1>3, <1>4, <1>5, <1>6, <1>7, <1>8, <1>9, <1>10, <1>11, <1>12, <1>13,
       <1>14, <1>15
    DEF Next, Screen

(***************************************************************************)
(* Verdicts                                                                *)
(***************************************************************************)

LEMMA InitStatus == Init => StatusInv
  <1> SUFFICES ASSUME Init, NEW a \in Applicants
               PROVE  status[a] = "NONE" /\ screen[a].at = "none"
    BY DEF StatusInv, Standing, Earned
  <1>1. screen[a] = [at |-> "none", attempt |-> 1, score |-> 0]
    BY DEF Init
  <1> QED BY <1>1 DEF Init

(* An applicant of whom nothing changed stands where he stood.             *)
LEMMA StandingKept ==
  ASSUME NEW b \in Applicants, Standing(b),
         status'[b] = status[b], score'[b] = score[b], screen'[b] = screen[b],
         Invited(b) # {} => Invited(b)' # {}
  PROVE  Standing(b)'
  BY DEF Standing, Earned

(* Before an attempt wrote its verdict, what was earned stays earned.      *)
LEMMA StandingUndecided ==
  ASSUME NEW b \in Applicants, Standing(b),
         status'[b] = status[b] \/ status'[b] \in {"SUBMITTED", "SCREENING"},
         score'[b] = score[b],
         screen'[b].at \notin {"decided", "finishing", "done"}
  PROVE  Standing(b)'
  BY DEF Standing, Earned

(* A verdict is earned by its score.                                       *)
LEMMA VerdictEarned ==
  \A s \in 0..100 :
    \/ Verdict(s) = "REJECTED" /\ s \in 0..29
    \/ Verdict(s) = "SCREENING" /\ s \in 30..74
    \/ Verdict(s) = "SHORTLISTED" /\ s \in 75..100
  BY DEF Verdict

LEMMA NextStatus ==
  TypeOK /\ InvitationsInv /\ StatusInv /\ [Next]_vars => StatusInv'
  <1> SUFFICES ASSUME TypeOK, InvitationsInv, StatusInv, [Next]_vars,
                      NEW b \in Applicants \ touched'
               PROVE  Standing(b)'
    BY DEF StatusInv
  <1>0. b \in Applicants \ touched /\ Standing(b)
    <2>1. touched \subseteq touched'
      BY DEF Next, Screen, Schedule, vars, people, UpdateJob, SubmitCheck, SubmitCreate,
         AddScreening, UpdateStatus, WithdrawCheck, WithdrawWrite, StartScreening,
         AskForScore, StoreScore, ScoreExists, WriteVerdict, QueueInterview,
         FinishScreening, OnFailed, ScreeningFault, ScheduleInterview, FinishInterview,
         InterviewFault
    <2> QED BY <2>1 DEF StatusInv
  <1>1. ASSUME UNCHANGED <<status, screen, score, interview>> PROVE Standing(b)'
    BY <1>0, <1>1 DEF Standing, Earned, Invited
  <1>2. ASSUME NEW a \in Applicants, SubmitCreate(a) PROVE Standing(b)'
    <2>1. Goto(a, "adding") /\ UNCHANGED <<score, interview>>
      BY <1>2 DEF SubmitCreate, Goto
    <2>2. /\ status'[a] = "SUBMITTED"
          /\ \A c \in Applicants \ {a} : status'[c] = status[c]
      BY <1>2 DEF SubmitCreate, TypeOK
    <2>3. Invited(b)' = Invited(b)
      BY <2>1 DEF Invited
    <2> QED BY <1>0, <2>1, <2>2, <2>3, GotoIs, StandingKept, StandingUndecided
  <1>3. ASSUME NEW a \in Applicants, StartScreening(a) PROVE Standing(b)'
    <2>1. Goto(a, "scoring") /\ UNCHANGED <<score, interview>>
      BY <1>3 DEF StartScreening
    <2>2. /\ status'[a] = "SCREENING"
          /\ \A c \in Applicants \ {a} : status'[c] = status[c]
      BY <1>3 DEF StartScreening, TypeOK
    <2>3. Invited(b)' = Invited(b)
      BY <2>1 DEF Invited
    <2> QED BY <1>0, <2>1, <2>2, <2>3, GotoIs, StandingKept, StandingUndecided
  <1>4. ASSUME NEW a \in Applicants, UNCHANGED <<status, score, interview>>,
               screen'[a].at \notin {"decided", "finishing", "done"},
               \A c \in Applicants \ {a} : screen'[c] = screen[c]
        PROVE  Standing(b)'
    <2>1. Invited(b)' = Invited(b)
      BY <1>4 DEF Invited
    <2> QED BY <1>0, <1>4, <2>1, StandingKept, StandingUndecided
  <1>5. ASSUME NEW a \in Applicants, AddScreening(a) PROVE Standing(b)'
    <2>1. PICK place \in {"waiting", "lost"} : Goto(a, place)
      BY <1>5 DEF AddScreening, Goto
    <2>2. UNCHANGED <<status, score, interview>>
      BY <1>5 DEF AddScreening
    <2> QED BY <1>4, <2>1, <2>2, GotoIs
  <1>6. ASSUME NEW a \in Applicants, AskForScore(a) PROVE Standing(b)'
    <2>1. /\ screen'[a].at = "storing"
          /\ \A c \in Applicants \ {a} : screen'[c] = screen[c]
          /\ UNCHANGED <<status, score, interview>>
      BY <1>6 DEF AskForScore, TypeOK, Screening
    <2> QED BY <1>4, <2>1
  <1>7. ASSUME NEW a \in Applicants, ScoreExists(a) \/ ScreeningFault(a)
        PROVE  Standing(b)'
    <2>1. Retry(a) /\ UNCHANGED <<status, score, interview>>
      BY <1>7 DEF ScoreExists, ScreeningFault
    <2> QED BY <1>4, <2>1, RetryIs
  <1>8. ASSUME NEW a \in Applicants, OnFailed(a) PROVE Standing(b)'
    <2>1. Goto(a, "failed") /\ UNCHANGED <<status, score, interview>>
      BY <1>8 DEF OnFailed
    <2> QED BY <1>4, <2>1, GotoIs
  <1>9. ASSUME NEW a \in Applicants, StoreScore(a) PROVE Standing(b)'
    <2>1. Goto(a, "stored") /\ score[a] = None /\ UNCHANGED <<status, interview>>
      BY <1>9 DEF StoreScore
    <2>2. \A c \in Applicants \ {a} : score'[c] = score[c]
      BY <1>9 DEF StoreScore, TypeOK
    <2>3. Invited(b)' = Invited(b)
      BY <2>1 DEF Invited
    <2>4. CASE b = a
      <3>1. status[a] \notin {"REJECTED", "SHORTLISTED", "INTERVIEW_SCHEDULED"}
        BY <1>0, <2>1, <2>4, HiringAssumption DEF Standing, Earned
      <3> QED BY <2>1, <2>4, <3>1, GotoIs DEF Standing, Earned
    <2>5. CASE b # a
      BY <1>0, <2>1, <2>2, <2>3, <2>5, GotoIs, StandingKept
    <2> QED BY <2>4, <2>5
  <1>10. ASSUME NEW a \in Applicants, WriteVerdict(a) PROVE Standing(b)'
    <2>1. screen[a].at = "stored" /\ Goto(a, "decided") /\ UNCHANGED <<score, interview>>
      BY <1>10 DEF WriteVerdict
    <2>2. /\ status'[a] = Verdict(screen[a].score)
          /\ \A c \in Applicants \ {a} : status'[c] = status[c]
      BY <1>10 DEF WriteVerdict, TypeOK
    <2>3. Invited(b)' = Invited(b)
      BY <2>1 DEF Invited
    <2>4. CASE b = a
      <3>1. score'[a] = screen[a].score /\ screen'[a].score = screen[a].score
        BY <2>1, GotoIs DEF InvitationsInv
      <3>2. screen[a].score \in 0..100
        BY DEF TypeOK, Screening, Scores
      <3> QED BY <2>2, <2>4, <3>1, <3>2, VerdictEarned DEF Standing, Earned
    <2>5. CASE b # a
      BY <1>0, <2>1, <2>2, <2>3, <2>5, GotoIs, StandingKept
    <2> QED BY <2>4, <2>5
  <1>11. ASSUME NEW a \in Applicants, QueueInterview(a) \/ FinishScreening(a)
         PROVE  Standing(b)'
    <2>1. PICK place \in {"finishing", "done"} : Goto(a, place)
      BY <1>11 DEF QueueInterview, FinishScreening
    <2>2. UNCHANGED <<status, score>> /\ screen[a].at \in {"decided", "finishing"}
      BY <1>11 DEF QueueInterview, FinishScreening
    <2>3. Invited(b) # {} => Invited(b)' # {}
      <3>1. CASE FinishScreening(a)
        BY <3>1 DEF FinishScreening, Invited
      <3>2. CASE QueueInterview(a)
        BY <1>0, <3>2 DEF QueueInterview, InvitationsInv, Invited, TypeOK
      <3> QED BY <1>11, <3>1, <3>2
    <2>4. CASE b = a
      BY <1>0, <2>1, <2>2, <2>3, <2>4, GotoIs DEF Standing, Earned
    <2>5. CASE b # a
      BY <1>0, <2>1, <2>2, <2>3, <2>5, GotoIs, StandingKept
    <2> QED BY <2>4, <2>5
  <1>12. ASSUME NEW a \in Applicants, NEW n \in 1..Attempts, ScheduleInterview(a, n)
         PROVE  Standing(b)'
    <2>1. /\ \A c \in Applicants : Invited(c)' = Invited(c)
          /\ n \in Invited(a) /\ UNCHANGED <<screen, score>>
      BY <1>12, InterviewStep DEF Schedule
    <2>2. /\ status'[a] = "INTERVIEW_SCHEDULED"
          /\ \A c \in Applicants \ {a} : status'[c] = status[c]
      BY <1>12 DEF ScheduleInterview, TypeOK
    <2>3. CASE b = a
      <3>1. Invited(a)' # {} /\ score[a] \in 90..100
        BY <2>1 DEF InvitationsInv
      <3> QED BY <2>1, <2>2, <2>3, <3>1 DEF Standing, Earned
    <2>4. CASE b # a
      BY <1>0, <2>1, <2>2, <2>4, StandingKept
    <2> QED BY <2>3, <2>4
  <1>13. ASSUME NEW a \in Applicants, NEW n \in 1..Attempts,
                FinishInterview(a, n) \/ InterviewFault(a, n)
         PROVE  Standing(b)'
    <2>1. Invited(b)' = Invited(b) /\ UNCHANGED <<screen, score>>
      BY <1>13, <1>0, InterviewStep DEF Schedule
    <2>2. UNCHANGED status
      BY <1>13 DEF FinishInterview, InterviewFault
    <2> QED BY <1>0, <2>1, <2>2, StandingKept
  <1>14. ASSUME NEW a \in Applicants,
                WithdrawWrite(a) \/ \E new \in Statuses : UpdateStatus(a, new)
         PROVE  Standing(b)'
    <2>1. b # a
      BY <1>14 DEF WithdrawWrite, UpdateStatus
    <2>2. UNCHANGED <<screen, score, interview>> /\ status'[b] = status[b]
      BY <1>0, <1>14, <2>1 DEF WithdrawWrite, UpdateStatus, TypeOK
    <2>3. Invited(b)' = Invited(b)
      BY <2>2 DEF Invited
    <2> QED BY <1>0, <2>2, <2>3, StandingKept
  <1>15. ASSUME \/ UpdateJob \/ UNCHANGED vars
                \/ \E a \in Applicants : SubmitCheck(a) \/ WithdrawCheck(a)
         PROVE  Standing(b)'
    BY <1>1, <1>15 DEF UpdateJob, SubmitCheck, WithdrawCheck, vars
  <1> QED
    BY <1>2, <1>3, <1>5, <1>6, <1>7, <1>8, <1>9, <1>10, <1>11, <1>12, <1>13, <1>14,
       <1>15
    DEF Next, Screen, Schedule

LEMMA StandingVerdicts ==
  TypeOK /\ InvitationsInv /\ StatusInv => VerdictIsEarned
  <1> SUFFICES ASSUME TypeOK, InvitationsInv, StatusInv, NEW a \in Applicants \ touched,
                      screen[a].at = "done"
               PROVE  \/ score[a] \in 0..29 /\ status[a] = "REJECTED"
                      \/ score[a] \in 30..74 /\ status[a] = "SCREENING"
                      \/ /\ score[a] \in 75..100
                         /\ status[a] \in {"SHORTLISTED", "INTERVIEW_SCHEDULED"}
    BY DEF VerdictIsEarned, StatusInv, Standing
  <1>0. screen[a].score \in 0..100
    BY DEF TypeOK, Screening, Scores
  <1>1. score[a] = screen[a].score /\ score[a] \in 0..100
    BY <1>0 DEF InvitationsInv
  <1>2. CASE status[a] = Verdict(score[a])
    BY <1>1, <1>2, VerdictEarned
  <1>3. CASE status[a] = "INTERVIEW_SCHEDULED"
    <2>1. score[a] \in 90..100
      BY <1>3 DEF StatusInv, Standing, Earned
    <2> QED BY <1>3, <2>1
  <1> QED BY <1>1, <1>2, <1>3 DEF StatusInv, Standing

(* A rejection, a shortlisting or an interview that no person decided was  *)
(* earned by the stored score, and a completed screening has its effect.   *)
THEOREM VerdictsAreEarned == Spec => []VerdictIsEarned
  BY InitType, NextType, InitInvitations, NextInvitations, InitStatus, NextStatus,
     StandingVerdicts, PTL DEF Spec

(***************************************************************************)
(* The refinement of CandidateScreening                                    *)
(***************************************************************************)

LEMMA InitOnce == Init => Once!Init
  <1> SUFFICES ASSUME Init, NEW a \in Applicants PROVE Invited(a) = {}
    BY DEF Init, Once!Init
  <1>1. \A n \in 1..Attempts : interview[a][n] = [at |-> "none", attempt |-> 1]
    BY DEF Init
  <1> QED BY <1>1 DEF Invited

(* Steps that score and invite nobody are stutters.                        *)
LEMMA Stutter ==
  ASSUME UNCHANGED score, \A a \in Applicants : Invited(a)' = Invited(a)
  PROVE  UNCHANGED <<score, [a \in Applicants |-> Invited(a)]>>
  OBVIOUS

LEMMA StepOnce ==
  TypeOK /\ InvitationsInv /\ [Next]_vars
    => [Once!Next]_<<score, [a \in Applicants |-> Invited(a)]>>
  <1> SUFFICES ASSUME TypeOK, InvitationsInv, [Next]_vars
               PROVE  [Once!Next]_<<score, [a \in Applicants |-> Invited(a)]>>
    OBVIOUS
  <1>1. ASSUME UNCHANGED <<score, interview>>
        PROVE  UNCHANGED <<score, [a \in Applicants |-> Invited(a)]>>
    BY <1>1 DEF Invited
  <1>2. ASSUME NEW a \in Applicants, StoreScore(a) PROVE Once!Score(a)
    <2>1. screen[a].score \in 0..100
      BY DEF TypeOK, Screening, Scores
    <2>2. \A b \in Applicants : Invited(b)' = Invited(b)
      BY <1>2 DEF StoreScore, Invited
    <2> QED BY <1>2, <2>1, <2>2 DEF StoreScore, Once!Score
  <1>3. ASSUME NEW a \in Applicants, QueueInterview(a) PROVE Once!Invite(a)
    <2> DEFINE n == screen[a].attempt
    <2>1. n \in 1..Attempts /\ screen[a].score \in 0..100
      BY DEF TypeOK, Screening, Scores
    <2>2. Invited(a) = {} /\ score[a] = screen[a].score
      BY <1>3 DEF QueueInterview, InvitationsInv
    <2>3. score[a] \in 90..100
      BY <1>3, <2>1, <2>2 DEF QueueInterview
    <2>4. interview'[a][n].at = "waiting"
      <3>1. interview[a][n] \in Interview
        BY <2>1 DEF TypeOK
      <3>2. interview'[a][n] = [interview[a][n] EXCEPT !.at = "waiting"]
        BY <1>3, <2>1 DEF QueueInterview, TypeOK
      <3> QED BY <3>1, <3>2 DEF Interview
    <2>5. \A b \in Applicants, m \in 1..Attempts :
            b # a \/ m # n => interview'[b][m] = interview[b][m]
      BY <1>3, <2>1 DEF QueueInterview, TypeOK
    <2>6. Invited(a)' = {n}
      BY <2>1, <2>2, <2>4, <2>5 DEF Invited
    <2>7. \A b \in Applicants \ {a} : Invited(b)' = Invited(b)
      BY <2>5 DEF Invited
    <2>8. [b \in Applicants |-> Invited(b)]'
            = [[b \in Applicants |-> Invited(b)] EXCEPT ![a] = {n}]
      BY <2>6, <2>7
    <2> QED BY <1>3, <2>1, <2>2, <2>3, <2>8 DEF QueueInterview, Once!Invite
  <1>4. ASSUME NEW a \in Applicants, NEW n \in 1..Attempts,
               Schedule(a, n) \/ InterviewFault(a, n)
        PROVE  UNCHANGED <<score, [b \in Applicants |-> Invited(b)]>>
    BY <1>4, InterviewStep, Stutter
  <1>5. ASSUME NEW a \in Applicants,
               \/ SubmitCheck(a) \/ SubmitCreate(a) \/ AddScreening(a)
               \/ \E new \in Statuses : UpdateStatus(a, new)
               \/ WithdrawCheck(a) \/ WithdrawWrite(a) \/ StartScreening(a)
               \/ AskForScore(a) \/ ScoreExists(a) \/ WriteVerdict(a)
               \/ FinishScreening(a) \/ OnFailed(a) \/ ScreeningFault(a)
        PROVE  UNCHANGED <<score, interview>>
    BY <1>5 DEF SubmitCheck, SubmitCreate, AddScreening, UpdateStatus, WithdrawCheck,
       WithdrawWrite, StartScreening, AskForScore, ScoreExists, WriteVerdict,
       FinishScreening, OnFailed, ScreeningFault
  <1>6. ASSUME UpdateJob \/ UNCHANGED vars PROVE UNCHANGED <<score, interview>>
    BY <1>6 DEF UpdateJob, vars
  <1> QED
    BY <1>1, <1>2, <1>3, <1>4, <1>5, <1>6 DEF Next, Screen, Once!Next

(* However its job fails and runs again, an application is scored once and *)
(* its applicant is invited at most once, on a score of 90 or more.        *)
THEOREM ScreensOnce == Spec => ScreenedOnce
  BY InitType, NextType, InitInvitations, NextInvitations, InitOnce, StepOnce, PTL
  DEF Spec, ScreenedOnce, Once!Spec
=============================================================================
