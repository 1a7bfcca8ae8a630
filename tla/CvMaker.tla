------------------------------- MODULE CvMaker -------------------------------
(***************************************************************************)
(* The CV builder (app/cv-maker/page.tsx), the row that UsersService keeps *)
(* of a user's draft, and the assistant that writes a summary.             *)
(*                                                                         *)
(* Of the text fields, "summary" is the one the assistant writes, and      *)
(* "title" stands for all others.  Of the fields of an experience or of an *)
(* education, one is modelled.  The draft may be saved while another       *)
(* saving is under way, and may be changed while it is being saved.        *)
(***************************************************************************)
EXTENDS Pages

CONSTANT
  Words          (* what a field may be filled with                          *)

ASSUME CvAssumption == "" \notin Words

VARIABLES
  cv,            (* the CV in the form                                       *)
  draftSaved,    (* "saved": the button says "Draft saved"                   *)
  aiLoading,     (* a summary is being written                               *)
  cvUser,        (* "wait" until the session is known, then "user" or "none" *)
  cvRow,         (* the CvDraft row, or None                                 *)
  localDraft,    (* the draft in the browser's storage, or None              *)
  cvCall,        (* the calls, with the CV they carry                        *)
  cvActs,        (* how much was done without a call                         *)
  muddled        (* draftSaved is from a saving that overlapped with another *)
                 (* or with a change, or a draft has been loaded since       *)

cvStore == <<cvRow, localDraft>>
cvPage == <<cv, draftSaved, aiLoading, muddled>>
cvVars == <<cvPage, cvStore, cvUser, cvCall, cvActs>>

Texts == Words \cup {""}
Cv == [title : Texts, summary : Texts, experience : Seq(Texts), education : Seq(Texts)]
EmptyCv == [title |-> "", summary |-> "", experience |-> <<"">>, education |-> <<"">>]

CvPlaces == {"start", "read", "found", "save", "stored", "late", "assist", "ended"}

CvTypeOK ==
  /\ cv \in Cv
  /\ draftSaved \in BOOLEAN /\ aiLoading \in BOOLEAN /\ muddled \in BOOLEAN
  /\ cvUser \in {"wait", "user", "none"}
  /\ cvRow \in {None} \cup Cv
  /\ localDraft \in {None} \cup Cv
  /\ cvCall \in [Calls -> [at : CvPlaces, data : Cv, clean : BOOLEAN]]
  /\ cvActs \in 0..MaxActs

CvInit ==
  /\ cv = EmptyCv
  /\ draftSaved = FALSE /\ aiLoading = FALSE /\ muddled = FALSE
  /\ cvUser = "wait"
  /\ cvRow \in {None} \cup {[EmptyCv EXCEPT !.title = w] : w \in Words}
  /\ localDraft \in {None} \cup {[EmptyCv EXCEPT !.title = w] : w \in Words}
  /\ cvCall = [c \in Calls |-> [at |-> "start", data |-> EmptyCv, clean |-> FALSE]]
  /\ cvActs = 0

CvActs == cvActs < MaxActs /\ cvActs' = cvActs + 1

CvMoves(c, place) == [cvCall EXCEPT ![c].at = place]

(* A call that is over is forgotten with what it carried.                  *)
CvOver == [at |-> "ended", data |-> EmptyCv, clean |-> FALSE]
CvEnds(c) == [cvCall EXCEPT ![c] = CvOver]

(* The CV is being saved, or will be although nobody waits for it.         *)
Saving(c) == cvCall[c].at \in {"save", "stored", "late"}

(* What the calls are when the CV they carry is no longer the one shown.   *)
Outdated(calls) ==
  [c \in Calls |-> IF Saving(c) THEN [calls[c] EXCEPT !.clean = FALSE] ELSE calls[c]]

-----------------------------------------------------------------------------
(* Loading *)

LoadDraft(c) ==
  /\ cvCall[c].at = "start"
  /\ cvUser = "wait"
  /\ cvUser' = "user"
  /\ cvCall' = CvMoves(c, "read")
  /\ UNCHANGED <<cvPage, cvStore, cvActs>>

GetCvDraft(c) ==
  /\ cvCall[c].at = "read" /\ cvRow # None
  /\ cvCall' = [cvCall EXCEPT ![c].at = "found", ![c].data = cvRow]
  /\ UNCHANGED <<cvPage, cvStore, cvUser, cvActs>>

(* The draft replaces what was typed in the meantime.                      *)
DraftArrives(c) ==
  /\ cvCall[c].at = "found"
  /\ cv' = cvCall[c].data
  /\ cvCall' = Outdated(CvEnds(c))
  /\ muddled' = TRUE
  /\ UNCHANGED <<draftSaved, aiLoading, cvStore, cvUser, cvActs>>

NoDraft(c) ==
  /\ cvCall[c].at \in {"read", "found"}
  /\ cvCall' = CvEnds(c)
  /\ UNCHANGED <<cvPage, cvStore, cvUser, cvActs>>

(* Nobody is signed in, or the user has just logged out.                   *)
LoadLocalDraft ==
  /\ CvActs
  /\ cvUser \in {"wait", "user"}
  /\ cvUser' = "none"
  /\ IF localDraft = None THEN UNCHANGED <<cv, cvCall>>
     ELSE cv' = localDraft /\ cvCall' = Outdated(cvCall)
  /\ UNCHANGED <<draftSaved, aiLoading, muddled, cvStore>>

-----------------------------------------------------------------------------
(* Editing *)

(* A mutant: only the text changes.                                        *)
FieldOnly(new, calls) ==
  /\ cv' = new
  /\ cvCall' = Outdated(calls)
  /\ UNCHANGED draftSaved

Field(new, calls) ==
  /\ cv' = new
  /\ cvCall' = Outdated(calls)
  /\ draftSaved' = FALSE

Edits(new) ==
  /\ CvActs
  /\ Field(new, cvCall)
  /\ UNCHANGED <<aiLoading, muddled, cvStore, cvUser>>

EditDetails == \E t \in Texts \ {cv.title} : Edits([cv EXCEPT !.title = t])

EditSummary == \E t \in Texts \ {cv.summary} : Edits([cv EXCEPT !.summary = t])

(* The items are found by their ids; their position stands for it.         *)
Without(list, i) == SubSeq(list, 1, i - 1) \o SubSeq(list, i + 1, Len(list))

UpdateExperience ==
  \E i \in 1..Len(cv.experience), t \in Texts : Edits([cv EXCEPT !.experience[i] = t])

RemoveExperience ==
  /\ Len(cv.experience) > 1
  /\ \E i \in 1..Len(cv.experience) :
       Edits([cv EXCEPT !.experience = Without(@, i)])

AddExperience == Edits([cv EXCEPT !.experience = Append(@, "")])

UpdateEducation ==
  \E i \in 1..Len(cv.education), t \in Texts : Edits([cv EXCEPT !.education[i] = t])

RemoveEducation ==
  /\ Len(cv.education) > 1
  /\ \E i \in 1..Len(cv.education) :
       Edits([cv EXCEPT !.education = Without(@, i)])

AddEducation == Edits([cv EXCEPT !.education = Append(@, "")])

-----------------------------------------------------------------------------
(* Saving *)

SaveDraft(c) ==
  /\ cvCall[c].at = "start"
  /\ cvUser = "user"
  /\ cvCall' = [Outdated(cvCall) EXCEPT
       ![c] = [at |-> "save", data |-> cv, clean |-> \A d \in Calls : ~Saving(d)]]
  /\ UNCHANGED <<cvPage, cvStore, cvUser, cvActs>>

(* Before the session is known the draft is saved here as well.            *)
SaveLocally ==
  /\ CvActs
  /\ cvUser # "user"
  /\ localDraft' = cv
  /\ draftSaved' = TRUE /\ muddled' = FALSE
  /\ UNCHANGED <<cv, aiLoading, cvRow, cvUser, cvCall>>

(* An upsert of the user's one row.                                        *)
SaveCvDraft(c) ==
  /\ cvCall[c].at \in {"save", "late"}
  /\ cvRow' = cvCall[c].data
  /\ cvCall' = IF cvCall[c].at = "save" THEN CvMoves(c, "stored") ELSE CvEnds(c)
  /\ UNCHANGED <<cvPage, localDraft, cvUser, cvActs>>

DraftIsSaved(c) ==
  /\ cvCall[c].at = "stored"
  /\ draftSaved' = TRUE
  /\ muddled' = ~cvCall[c].clean
  /\ cvCall' = CvEnds(c)
  /\ UNCHANGED <<cv, aiLoading, cvStore, cvUser, cvActs>>

SaveRefused(c) ==
  /\ cvCall[c].at = "save"
  /\ draftSaved' = FALSE
  /\ cvCall' = CvEnds(c)
  /\ UNCHANGED <<cv, aiLoading, muddled, cvStore, cvUser, cvActs>>

SaveUnanswered(c) ==
  /\ cvCall[c].at \in {"save", "stored"}
  /\ cvCall' = IF cvCall[c].at = "save" THEN CvMoves(c, "late") ELSE CvEnds(c)
  /\ UNCHANGED <<cvPage, cvStore, cvUser, cvActs>>

-----------------------------------------------------------------------------
(* The assistant *)

GenerateSummary(c) ==
  /\ cvCall[c].at = "start"
  /\ ~aiLoading
  /\ aiLoading' = TRUE
  /\ cvCall' = [cvCall EXCEPT ![c].at = "assist", ![c].data = cv]
  /\ UNCHANGED <<cv, draftSaved, muddled, cvStore, cvUser, cvActs>>

(* What the assistant needs of the CV it is sent.                          *)
Describable(sent) ==
  sent.title # "" \/ \E i \in 1..Len(sent.experience) : sent.experience[i] # ""

SummaryWritten(c) ==
  /\ cvCall[c].at = "assist"
  /\ Describable(cvCall[c].data)
  /\ \E w \in Words : Field([cv EXCEPT !.summary = w], CvEnds(c))
  /\ aiLoading' = FALSE
  /\ UNCHANGED <<muddled, cvStore, cvUser, cvActs>>

NoSummary(c) ==
  /\ cvCall[c].at = "assist"
  /\ aiLoading' = FALSE
  /\ cvCall' = CvEnds(c)
  /\ UNCHANGED <<cv, draftSaved, muddled, cvStore, cvUser, cvActs>>

-----------------------------------------------------------------------------
(* The page is opened anew; what was under way is answered to nobody.      *)
OpenBuilder ==
  /\ CvActs
  /\ cv' = EmptyCv /\ draftSaved' = FALSE /\ aiLoading' = FALSE
  /\ cvUser' = "wait"
  /\ cvCall' = [c \in Calls |->
       CASE cvCall[c].at \in {"start", "late"} -> cvCall[c]
         [] cvCall[c].at = "save" -> [cvCall[c] EXCEPT !.at = "late"]
         [] OTHER -> CvOver]
  /\ UNCHANGED <<muddled, cvStore>>

CvPageCall(c) == LoadDraft(c) \/ SaveDraft(c) \/ GenerateSummary(c)

CvPageStep(c) ==
  \/ GetCvDraft(c) \/ DraftArrives(c) \/ NoDraft(c)
  \/ SaveCvDraft(c) \/ DraftIsSaved(c) \/ SaveRefused(c) \/ SaveUnanswered(c)
  \/ SummaryWritten(c) \/ NoSummary(c)

CvPageAct ==
  \/ LoadLocalDraft \/ SaveLocally \/ OpenBuilder
  \/ EditDetails \/ EditSummary
  \/ UpdateExperience \/ RemoveExperience \/ AddExperience
  \/ UpdateEducation \/ RemoveEducation \/ AddEducation

CvNext == (\E c \in Calls : CvPageCall(c) \/ CvPageStep(c)) \/ CvPageAct

CvSpec == CvInit /\ [][CvNext]_cvVars

-----------------------------------------------------------------------------
(* Properties *)

(* The button says "Draft saved" only of a CV that is stored just as it    *)
(* is shown.  The exceptions are the ones named at muddled: while a saving *)
(* is under way nothing keeps the user from typing on or saving again, and *)
(* its answer says that the draft is saved all the same.                   *)
SavedIsStored == draftSaved /\ ~muddled => cv \in {cvRow, localDraft}
=============================================================================
